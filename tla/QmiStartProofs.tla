--------------------------- MODULE QmiStartProofs ---------------------------
(***************************************************************************)
(* Theorems about the QMI requests of a start and of a registration. The   *)
(* variables v1, v2, ... are those of the part that runs, in the order     *)
(* that MCComponents gives.                                                *)
(***************************************************************************)
EXTENDS MCComponents, TLAPS

LEMMA JoinType ==
  ASSUME NEW S, NEW a \in Seq(S), NEW b \in Seq(S)
  PROVE  a \o b \in Seq(S)
  OBVIOUS

-----------------------------------------------------------------------------
(* The answer about the networks. raw is v1, profile v2, serving v3,       *)
(* packets v4, home v5, todo v6, pc v7, lte v8, cdma v9, attached v10,     *)
(* mcc v11, ok v12, dial v13.                                              *)

LEMMA TensAndUnits ==
  ASSUME NEW k \in Nat, NEW r \in 0..9
  PROVE  (10 * k + r) % 10 = r /\ (10 * k + r) \div 10 = k
  OBVIOUS

\* The ten that a zero borrows is given back.
LEMMA LessOf ==
  ASSUME NEW k \in Nat, NEW u \in 1..10
  PROVE  Registration!Less(10 * k + u) = k /\ (10 * k + u) % 10 = u % 10
<1>1. CASE u = 10
  <2>1. 10 * k + u = 10 * (k + 1) + 0 /\ k + 1 \in Nat /\ 10 * k + u - 10 = 10 * k + 0
    BY <1>1
  <2>2. (10 * k + u) % 10 = 0
    BY <2>1, TensAndUnits
  <2>3. (10 * k + u - 10) \div 10 = k
    BY <2>1, TensAndUnits
  <2>4. QED
    BY <1>1, <2>2, <2>3 DEF Registration!Less
<1>2. CASE u \in 1..9
  <2>1. (10 * k + u) % 10 = u /\ (10 * k + u) \div 10 = k
    BY <1>2, TensAndUnits
  <2>2. QED
    BY <1>2, <2>1 DEF Registration!Less
<1>3. QED
  BY <1>1, <1>2

\* The code of three digits is decoded to them.
LEMMA DecodesDigits ==
  ASSUME NEW d \in [1..3 -> 0..9]
  PROVE  Registration!Decoded(Registration!Coded(d)) = 100 * d[1] + 10 * d[2] + d[3]
<1> DEFINE up(i) == IF d[i] = 0 THEN 10 ELSE d[i]
           b == 10 * (10 * up(1) + up(2)) + up(3)
<1>1. /\ d[1] \in 0..9 /\ d[2] \in 0..9 /\ d[3] \in 0..9
      /\ up(1) \in 1..10 /\ up(2) \in 1..10 /\ up(3) \in 1..10
  OBVIOUS
<1>2. /\ Registration!Coded(d) + 111 = b /\ Registration!Coded(d) # 1023
      /\ 10 * up(1) + up(2) \in Nat /\ up(1) \in Nat
  BY <1>1 DEF Registration!Coded
<1>3. /\ Registration!Less(b) = 10 * up(1) + up(2) /\ b % 10 = up(3) % 10
      /\ Registration!Less(10 * up(1) + up(2)) = up(1) /\ (10 * up(1) + up(2)) % 10 = up(2) % 10
  <2>1. Registration!Less(10 * (10 * up(1) + up(2)) + up(3)) = 10 * up(1) + up(2)
        /\ (10 * (10 * up(1) + up(2)) + up(3)) % 10 = up(3) % 10
    <3> HIDE DEF up, b
    <3>1. QED
      BY <1>1, <1>2, LessOf
  <2>2. Registration!Less(10 * up(1) + up(2)) = up(1) /\ (10 * up(1) + up(2)) % 10 = up(2) % 10
    <3> HIDE DEF up, b
    <3>1. QED
      BY <1>1, <1>2, LessOf
  <2>3. QED
    BY <2>1, <2>2
<1>4. up(2) % 10 = d[2] /\ up(3) % 10 = d[3] /\ (IF up(1) = 10 THEN 0 ELSE up(1)) = d[1]
  BY <1>1
<1> HIDE DEF up, b
<1>5. Registration!Decoded(Registration!Coded(d)) =
        (LET d1 == IF up(1) = 10 THEN 0 ELSE up(1)
         IN IF d1 < 10 THEN 100 * d1 + 10 * ((10 * up(1) + up(2)) % 10) + (b % 10) ELSE 0)
  BY <1>2, <1>3 DEF Registration!Decoded
<1>6. QED
  BY <1>1, <1>3, <1>4, <1>5

LEMMA HomeDecoded ==
  ASSUME Registration!RegistrationInv, Registration!HomeNetwork
  PROVE  v11' = v11 \/ v11' = 100 * v5[1] + 10 * v5[2] + v5[3]
<1>1. v5 \in [1..3 -> 0..9]
  BY RegistrationAssumption DEF Registration!RegistrationInv, Registration!TypeOK
<1>2. QED
  BY <1>1, DecodesDigits DEF Registration!HomeNetwork

LEMMA HomeDigitsType ==
  ASSUME Registration!RegistrationInv
  PROVE  100 * v5[1] + 10 * v5[2] + v5[3] \in -1..999
<1>1. v5 \in [1..3 -> 0..9]
  BY RegistrationAssumption DEF Registration!RegistrationInv, Registration!TypeOK
<1>2. v5[1] \in 0..9 /\ v5[2] \in 0..9 /\ v5[3] \in 0..9
  BY <1>1
<1>3. QED
  BY <1>2

\* The parts of the type.
RegistrationFlags == /\ v1 \in BOOLEAN /\ v2 \in [apn : BOOLEAN, user : BOOLEAN, index : BOOLEAN]
                     /\ v8 \in BOOLEAN /\ v9 \in BOOLEAN /\ v10 \in BOOLEAN /\ v12 \in BOOLEAN
RegistrationNetworks ==
  /\ v3 \in SUBSET Registration!Rat /\ v4 \in SUBSET v3 /\ v5 \in Digits
  /\ v6 \in SUBSET Registration!Tlv /\ v7 \in {"idle", "reading"} /\ (v7 = "idle" => v6 = {})
RegistrationDial ==
  \/ v13 = Registration!NoDial
  \/ v13 \in [tech : {"3gpp", "3gpp2"}, apn : BOOLEAN, user : {"none", "own", "ctnet"},
              index : BOOLEAN, of : SUBSET Registration!Rat]

LEMMA RegistrationTypeParts ==
  Registration!TypeOK <=> RegistrationFlags /\ RegistrationNetworks /\ v11 \in -1..999 /\ RegistrationDial
  BY Zenon DEF Registration!TypeOK, RegistrationFlags, RegistrationNetworks, RegistrationDial

LEMMA RegistrationType ==
  ASSUME Registration!RegistrationInv, Registration!Next
  PROVE  Registration!TypeOK' /\ Registration!HomeCode'
<1> USE DEF Registration!RegistrationInv, Registration!HomeCode, Registration!TypeOK
<1>1. CASE Registration!QueryErr
  BY <1>1 DEF Registration!QueryErr, Registration!Forgotten, Registration!answerVars, Registration!NoDial
<1>2. CASE Registration!Query
  <2>1. v3' \in SUBSET Registration!Rat /\ v4' \in SUBSET v3' /\ v6' = [kind : {"status", "info"}, rat : v3']
    BY <1>2 DEF Registration!Query
  <2>2. v7' = "reading" /\ v10' = FALSE /\ v12' = TRUE /\ v13' = Registration!NoDial
    BY <1>2 DEF Registration!Query, Registration!Forgotten
  <2>3. v8' = FALSE /\ v9' = FALSE /\ v11' = -1 /\ UNCHANGED <<v1, v2, v5>>
    BY <1>2 DEF Registration!Query
  <2>4. v6' \in SUBSET Registration!Tlv
    BY <2>1 DEF Registration!Tlv
  <2>5. v8' \in BOOLEAN /\ v9' \in BOOLEAN /\ v10' \in BOOLEAN /\ v12' \in BOOLEAN /\ v1' \in BOOLEAN
    BY <2>2, <2>3, Zenon
  <2>6. /\ v2' \in [apn : BOOLEAN, user : BOOLEAN, index : BOOLEAN] /\ v5' \in Digits
        /\ v7' \in {"idle", "reading"} /\ ~(v7' = "idle") /\ v11' \in -1..999
    BY <2>2, <2>3
  <2>7. Registration!TypeOK'
    BY <2>1, <2>2, <2>4, <2>5, <2>6, Zenon
  <2>8. Registration!HomeCode'
    BY <2>3
  <2>9. QED
    BY <2>7, <2>8
<1>3. ASSUME NEW t \in v6, Registration!Take(t) PROVE Registration!TypeOK' /\ Registration!HomeCode'
  <2>1. v11' = v11 \/ v11' = 100 * v5[1] + 10 * v5[2] + v5[3]
    BY <1>3, HomeDecoded DEF Registration!Take
  <2>2. v8' \in BOOLEAN /\ v9' \in BOOLEAN /\ v10' \in BOOLEAN
    BY <1>3 DEF Registration!Take, Registration!SetsCdma, Registration!SetsLte
  <2>3. UNCHANGED <<v1, v2, v3, v4, v5, v7, v12, v13>> /\ v7 = "reading" /\ v6' \subseteq v6
    BY <1>3 DEF Registration!Take, Registration!answerVars
  <2>4. v11' \in -1..999
    <3>1. v11 \in -1..999
      OBVIOUS
    <3>2. 100 * v5[1] + 10 * v5[2] + v5[3] \in -1..999
      BY HomeDigitsType
    <3>3. CASE v11' = v11
      BY <3>1, <3>3, Zenon
    <3>4. CASE v11' = 100 * v5[1] + 10 * v5[2] + v5[3]
      BY <3>2, <3>4, Zenon
    <3>5. QED
      BY <2>1, <3>3, <3>4, Zenon
  <2>5. RegistrationFlags /\ RegistrationNetworks /\ RegistrationDial
    BY RegistrationTypeParts
  <2>6. RegistrationFlags'
    BY <2>2, <2>3, <2>5, Zenon DEF RegistrationFlags
  <2>7. RegistrationNetworks'
    BY <2>3, <2>5 DEF RegistrationNetworks
  <2>8. RegistrationDial'
    BY <2>3, <2>5, Zenon DEF RegistrationDial
  <2>9. Registration!TypeOK'
    BY <2>4, <2>6, <2>7, <2>8, Zenon DEF RegistrationFlags, RegistrationNetworks, RegistrationDial
  <2>10. Registration!HomeCode'
    BY <2>1, <2>3
  <2>11. QED
    BY <2>9, <2>10
<1>4. CASE Registration!Return
  BY <1>4 DEF Registration!Return, Registration!answerVars
<1>5. CASE Registration!OldQuery
  <2>1. v11' = -1 \/ v11' = v11 \/ v11' = 100 * v5[1] + 10 * v5[2] + v5[3]
    BY <1>5, HomeDecoded DEF Registration!OldQuery
  <2>2. v3' \in SUBSET {"cdma", "gsm", "lte"} /\ v4' \in SUBSET v3'
    BY <1>5 DEF Registration!OldQuery
  <2>3. v10' \in BOOLEAN /\ v9' \in BOOLEAN /\ v12' = TRUE /\ v13' = Registration!NoDial
    BY <1>5 DEF Registration!OldQuery
  <2>4. UNCHANGED <<v1, v2, v5, v6, v7, v8>>
    BY <1>5 DEF Registration!OldQuery
  <2>5. QED
    BY <2>1, <2>2, <2>3, <2>4, HomeDigitsType DEF Registration!Rat
<1>6. CASE Registration!OldQueryErr
  <2>1. v12' \in BOOLEAN /\ v13' = Registration!NoDial
    BY <1>6 DEF Registration!OldQueryErr
  <2>2. UNCHANGED <<v1, v2, v3, v4, v5, v6, v7, v8, v9, v10, v11>>
    BY <1>6, Zenon DEF Registration!OldQueryErr, Registration!answerVars
  <2>3. RegistrationFlags /\ RegistrationNetworks
    BY RegistrationTypeParts
  <2>4. RegistrationFlags' /\ RegistrationDial'
    <3>1. RegistrationFlags'
      BY <2>1, <2>2, <2>3, ZenonT(40) DEF RegistrationFlags
    <3>2. RegistrationDial'
      BY <2>1, Zenon DEF RegistrationDial
    <3>3. QED
      BY <3>1, <3>2
  <2>5. RegistrationNetworks'
    BY <2>2, <2>3, Zenon DEF RegistrationNetworks
  <2>6. v11' \in -1..999 /\ Registration!HomeCode'
    BY <2>2
  <2>7. QED
    BY <2>4, <2>5, <2>6, Zenon DEF RegistrationFlags, RegistrationNetworks, RegistrationDial
<1>7. CASE Registration!Dial
  <2>1. UNCHANGED <<v1, v2, v3, v4, v5, v6, v7, v8, v9, v10, v11, v12>>
    BY <1>7 DEF Registration!Dial, Registration!answerVars
  <2>2. v13' \in [tech : {"3gpp", "3gpp2"}, apn : BOOLEAN, user : {"none", "own", "ctnet"},
                  index : BOOLEAN, of : SUBSET Registration!Rat]
    BY <1>7 DEF Registration!Dial
  <2>3. QED
    BY <2>1, <2>2
<1>8. QED
  BY <1>1, <1>2, <1>3, <1>4, <1>5, <1>6, <1>7 DEF Registration!Next

LEMMA RegistrationRead ==
  ASSUME Registration!RegistrationInv, Registration!Next
  PROVE  Registration!Read' /\ Registration!DialFits'
<1> USE DEF Registration!RegistrationInv, Registration!Read, Registration!DialFits, Registration!TypeOK
<1>1. CASE Registration!QueryErr
  BY <1>1 DEF Registration!QueryErr, Registration!Forgotten, Registration!answerVars, Registration!NoDial
<1>2. CASE Registration!Query
  BY <1>2 DEF Registration!Query, Registration!Forgotten, Registration!NoDial, Registration!Tlv
<1>3. ASSUME NEW t \in v6, Registration!Take(t) PROVE Registration!Read' /\ Registration!DialFits'
  BY <1>3 DEF Registration!Take, Registration!SetsCdma, Registration!SetsLte, Registration!answerVars, Registration!Tlv
<1>4. CASE Registration!Return
  BY <1>4 DEF Registration!Return, Registration!answerVars
<1>5. CASE Registration!OldQuery
  <2>1. v3' \subseteq {"cdma", "gsm", "lte"} /\ ("cdma" \in v3' => "lte" \notin v3')
    BY <1>5 DEF Registration!OldQuery
  <2>2. QED
    BY <1>5, <2>1 DEF Registration!OldQuery, Registration!NoDial
<1>6. CASE Registration!OldQueryErr
  BY <1>6 DEF Registration!OldQueryErr, Registration!answerVars, Registration!NoDial
<1>7. CASE Registration!Dial
  <2>1. UNCHANGED <<v1, v3, v6, v7, v8, v9>> /\ v7 = "idle"
    BY <1>7 DEF Registration!Dial, Registration!answerVars
  <2>2. Registration!Read'
    BY <2>1
  <2>3. v6 = {} /\ v1 \in BOOLEAN /\ v9 \in BOOLEAN
    BY <2>1
  <2>4. v9 <=> v3 \cap {"cdma", "hdr"} # {} /\ v3 \cap {"lte", "nr5g"} = {}
    BY <2>3
  <2>5. /\ v13'.tech = IF v9 THEN "3gpp2" ELSE "3gpp"
        /\ v13'.of = v3
        /\ v13'.apn => ~v9
        /\ v13'.index => ~v9
        /\ v13'.user = "ctnet" => v9
    BY <1>7 DEF Registration!Dial
  <2>6. Registration!DialFits'
    BY <2>4, <2>5
  <2>7. QED
    BY <2>2, <2>6
<1>8. QED
  BY <1>1, <1>2, <1>3, <1>4, <1>5, <1>6, <1>7 DEF Registration!Next

LEMMA RegistrationInit == Registration!Init => Registration!RegistrationInv
<1> SUFFICES ASSUME Registration!Init PROVE Registration!RegistrationInv
  OBVIOUS
<1> USE DEF Registration!Init
<1>1. Registration!TypeOK
  <2>1. v1 \in BOOLEAN /\ v8 \in BOOLEAN /\ v9 \in BOOLEAN /\ v10 \in BOOLEAN /\ v12 \in BOOLEAN
    BY Zenon
  <2>2. v3 \in SUBSET Registration!Rat /\ v4 \in SUBSET v3 /\ v6 \in SUBSET Registration!Tlv
    OBVIOUS
  <2>3. v11 \in -1..999
    OBVIOUS
  <2>4. QED
    BY <2>1, <2>2, <2>3 DEF Registration!TypeOK
<1>4. Registration!DialFits /\ Registration!HomeCode
  BY DEF Registration!DialFits, Registration!HomeCode
<1>2. Registration!Read
  BY DEF Registration!Read
<1>3. QED
  BY <1>1, <1>2, <1>4 DEF Registration!RegistrationInv

LEMMA RegistrationInvKeeps ==
  ASSUME Registration!RegistrationInv, [Registration!Next]_(Registration!vars)
  PROVE  Registration!RegistrationInv'
<1>1. CASE Registration!Next
  BY <1>1, RegistrationType, RegistrationRead DEF Registration!RegistrationInv
<1>2. CASE UNCHANGED Registration!vars
  BY <1>2 DEF Registration!vars, Registration!answerVars, Registration!RegistrationInv, Registration!TypeOK,
     Registration!Read, Registration!DialFits, Registration!HomeCode
<1>3. QED
  BY <1>1, <1>2

-----------------------------------------------------------------------------
(* The start of a QMI session. opt is v1, pc v2, todo v3, clients v4, mode *)
(* v5, mux v6, version v7, rawIP v8, new9x07 v9, sim v10, index v11,       *)
(* unread v12, old v13, ids v14, format v15, bound v16, uim v17, left v18, *)
(* profiles v19, starts v20, faults v21, failed v22, everFailed v23.       *)

\* The parts of its type.
SetupFlags ==
  v5 \in BOOLEAN /\ v8 \in BOOLEAN /\ v9 \in BOOLEAN /\ v22 \in BOOLEAN /\ v23 \in BOOLEAN
SetupWords ==
  /\ v1 \in Setup!Option /\ v2 \in Setup!Step /\ v4 \subseteq Setup!Name /\ v14 \subseteq Setup!Name
  /\ v6 \in -1..255 /\ v7 \in {0, 1, 5, 9}
  /\ v10 \in {"absent", "ready", "pin", "puk"} /\ v13 \in {"", "user", "theirs"}
  /\ v16 \subseteq {"wds", "wds6"} \X (-1..255)
  /\ v17 \in {"later", "absent", "ready", "pin", "puk"} /\ v18 \in 0..3
  /\ v20 \in 1..MaxStarts /\ v21 \in 0..MaxFaults
SetupFormat == v15 \in [raw : BOOLEAN, version : {0, 5, 9}]
SetupTodo == v3 \in Seq(Setup!Name)
SetupTable ==
  /\ v19 \in Seq(Setup!Profile) /\ Len(v19) <= MaxProfiles /\ v11 \in DOMAIN v19
  /\ v12 \in 1..MaxProfiles + 1

LEMMA SetupTypeParts ==
  Setup!TypeOK <=> SetupFlags /\ SetupWords /\ SetupFormat /\ SetupTodo /\ SetupTable
  BY Zenon DEF Setup!TypeOK, SetupFlags, SetupWords, SetupFormat, SetupTodo, SetupTable

\* Whether a request failed is kept, of a start and of all of them.
LEMMA SetupCounts ==
  ASSUME SetupFlags, NEW o, Setup!Counted(o)
  PROVE  /\ v20' = v20
         /\ v22' <=> v22 \/ o # "ok"
         /\ v23' <=> v23 \/ o # "ok"
  BY Zenon DEF Setup!Counted, Setup!runVars, SetupFlags

LEMMA SetupCountsOn ==
  ASSUME SetupFlags, UNCHANGED <<v20, v22, v23>> \/ \E o : Setup!Counted(o)
  PROVE  /\ v20' = v20
         /\ v22 => v22'
         /\ v23 => v23'
         /\ v22' => v22 \/ v23'
<1>1. CASE UNCHANGED <<v20, v22, v23>>
  BY <1>1, Zenon
<1>2. ASSUME NEW o, Setup!Counted(o)
      PROVE  v20' = v20 /\ (v22 => v22') /\ (v23 => v23') /\ (v22' => v22 \/ v23')
  BY <1>2, SetupCounts, Zenon
<1>3. QED
  BY <1>1, <1>2, Zenon

\* What the requests after the client ids have in common: they change neither
\* the ids nor what was found out of the card.
SetupRequests ==
  \/ Setup!SetDataFormat \/ Setup!Bind("wds") \/ Setup!Bind("wds6")
  \/ Setup!GetSIMStatus \/ Setup!GetPINStatus \/ Setup!EnterSimPin
  \/ Setup!GetProfileList \/ Setup!GetProfileSettings \/ Setup!CreateProfile \/ Setup!SetProfile
SetupGoesOn ==
  /\ UNCHANGED <<v1, v3, v4, v5, v6, v14, v20>>
  /\ v2 \in {"format", "wds", "wds6", "sim", "pinstatus", "pin", "list", "settings", "create", "set"}
  /\ v2' \in {"wds", "wds6", "sim", "pinstatus", "pin", "list", "settings", "create", "set", "running", "crashed"}
  /\ v2' = "crashed" => v23'
  /\ v22 => v22'
  /\ v23 => v23'
  /\ v22' => v22 \/ v23'

LEMMA SetupGoes ==
  ASSUME SetupFlags, SetupRequests
  PROVE  SetupGoesOn
<1>1. CASE Setup!SetDataFormat
  <2>1. UNCHANGED <<v1, v3, v4, v5, v6, v14>> /\ v2 = "format"
    BY <1>1, Zenon DEF Setup!SetDataFormat, Setup!netVars, Setup!simVars, Setup!modemVars, Setup!runVars
  <2>2. v2' \in {"wds", "sim"}
    BY <1>1 DEF Setup!SetDataFormat
  <2>3. UNCHANGED <<v20, v22, v23>> \/ \E o : Setup!Counted(o)
    BY <1>1, Zenon DEF Setup!SetDataFormat, Setup!runVars
  <2>4. /\ v20' = v20
        /\ v22 => v22'
        /\ v23 => v23'
        /\ v22' => v22 \/ v23'
    BY <2>3, SetupCountsOn, Zenon
  <2>5. QED
    BY <2>1, <2>2, <2>4 DEF SetupGoesOn
<1>2. CASE Setup!Bind("wds")
  <2>1. UNCHANGED <<v1, v3, v4, v5, v6, v14>> /\ v2 = "wds"
    BY <1>2, Zenon DEF Setup!Bind, Setup!netVars, Setup!simVars, Setup!modemVars, Setup!runVars
  <2>2. v2' \in {"wds6", "sim"}
    BY <1>2 DEF Setup!Bind
  <2>3. UNCHANGED <<v20, v22, v23>> \/ \E o : Setup!Counted(o)
    BY <1>2, Zenon DEF Setup!Bind, Setup!runVars
  <2>4. /\ v20' = v20
        /\ v22 => v22'
        /\ v23 => v23'
        /\ v22' => v22 \/ v23'
    BY <2>3, SetupCountsOn, Zenon
  <2>5. QED
    BY <2>1, <2>2, <2>4 DEF SetupGoesOn
<1>3. CASE Setup!Bind("wds6")
  <2>1. UNCHANGED <<v1, v3, v4, v5, v6, v14>> /\ v2 = "wds6"
    BY <1>3, Zenon DEF Setup!Bind, Setup!netVars, Setup!simVars, Setup!modemVars, Setup!runVars
  <2>2. v2' \in {"wds6", "sim"}
    BY <1>3 DEF Setup!Bind
  <2>3. UNCHANGED <<v20, v22, v23>> \/ \E o : Setup!Counted(o)
    BY <1>3, Zenon DEF Setup!Bind, Setup!runVars
  <2>4. /\ v20' = v20
        /\ v22 => v22'
        /\ v23 => v23'
        /\ v22' => v22 \/ v23'
    BY <2>3, SetupCountsOn, Zenon
  <2>5. QED
    BY <2>1, <2>2, <2>4 DEF SetupGoesOn
<1>4. CASE Setup!GetSIMStatus
  <2>1. UNCHANGED <<v1, v3, v4, v5, v6, v14>> /\ v2 = "sim"
    BY <1>4, Zenon DEF Setup!GetSIMStatus, Setup!netVars, Setup!simVars, Setup!modemVars, Setup!runVars
  <2>2. v2' \in {"list", "sim", "pinstatus", "pin"}
    BY <1>4 DEF Setup!GetSIMStatus
  <2>3. UNCHANGED <<v20, v22, v23>> \/ \E o : Setup!Counted(o)
    BY <1>4, Zenon DEF Setup!GetSIMStatus, Setup!runVars
  <2>4. /\ v20' = v20
        /\ v22 => v22'
        /\ v23 => v23'
        /\ v22' => v22 \/ v23'
    BY <2>3, SetupCountsOn, Zenon
  <2>5. QED
    BY <2>1, <2>2, <2>4 DEF SetupGoesOn
<1>5. CASE Setup!GetPINStatus
  <2>1. UNCHANGED <<v1, v3, v4, v5, v6, v14>> /\ v2 = "pinstatus"
    BY <1>5, Zenon DEF Setup!GetPINStatus, Setup!netVars, Setup!simVars, Setup!modemVars, Setup!runVars
  <2>2. v2' \in {"pin"}
    BY <1>5 DEF Setup!GetPINStatus
  <2>3. UNCHANGED <<v20, v22, v23>> \/ \E o : Setup!Counted(o)
    BY <1>5, Zenon DEF Setup!GetPINStatus, Setup!runVars
  <2>4. /\ v20' = v20
        /\ v22 => v22'
        /\ v23 => v23'
        /\ v22' => v22 \/ v23'
    BY <2>3, SetupCountsOn, Zenon
  <2>5. QED
    BY <2>1, <2>2, <2>4 DEF SetupGoesOn
<1>6. CASE Setup!EnterSimPin
  <2>1. UNCHANGED <<v1, v3, v4, v5, v6, v14>> /\ v2 = "pin"
    BY <1>6, Zenon DEF Setup!EnterSimPin, Setup!Entered, Setup!netVars, Setup!simVars, Setup!modemVars, Setup!runVars
  <2>2. v2' \in {"list"}
    BY <1>6 DEF Setup!EnterSimPin, Setup!Entered
  <2>3. UNCHANGED <<v20, v22, v23>> \/ \E o : Setup!Counted(o)
    BY <1>6, Zenon DEF Setup!EnterSimPin, Setup!Entered, Setup!runVars
  <2>4. /\ v20' = v20
        /\ v22 => v22'
        /\ v23 => v23'
        /\ v22' => v22 \/ v23'
    BY <2>3, SetupCountsOn, Zenon
  <2>5. QED
    BY <2>1, <2>2, <2>4 DEF SetupGoesOn
<1>7. CASE Setup!GetProfileList
  <2>1. UNCHANGED <<v1, v3, v4, v5, v6, v14>> /\ v2 = "list"
    BY <1>7, Zenon DEF Setup!GetProfileList, Setup!netVars, Setup!simVars, Setup!modemVars, Setup!runVars
  <2>2. v2' \in {"settings", "set", "crashed"} /\ \E o : Setup!Counted(o) /\ (v2' = "crashed" => o # "ok")
    BY <1>7 DEF Setup!GetProfileList
  <2>3. UNCHANGED <<v20, v22, v23>> \/ \E o : Setup!Counted(o)
    BY <1>7, Zenon DEF Setup!GetProfileList, Setup!runVars
  <2>4. /\ v20' = v20
        /\ v22 => v22'
        /\ v23 => v23'
        /\ v22' => v22 \/ v23'
    BY <2>3, SetupCountsOn, Zenon
  <2>5. v2' = "crashed" => v23'
    BY <2>2, SetupCounts, Zenon
  <2>6. QED
    BY <2>1, <2>2, <2>4, <2>5 DEF SetupGoesOn
<1>8. CASE Setup!GetProfileSettings
  <2>1. UNCHANGED <<v1, v3, v4, v5, v6, v14>> /\ v2 = "settings"
    BY <1>8, Zenon DEF Setup!GetProfileSettings, Setup!netVars, Setup!simVars, Setup!modemVars, Setup!runVars
  <2>2. v2' \in {"settings", "set", "create"}
    BY <1>8 DEF Setup!GetProfileSettings
  <2>3. UNCHANGED <<v20, v22, v23>> \/ \E o : Setup!Counted(o)
    BY <1>8, Zenon DEF Setup!GetProfileSettings, Setup!runVars
  <2>4. /\ v20' = v20
        /\ v22 => v22'
        /\ v23 => v23'
        /\ v22' => v22 \/ v23'
    BY <2>3, SetupCountsOn, Zenon
  <2>5. QED
    BY <2>1, <2>2, <2>4 DEF SetupGoesOn
<1>9. CASE Setup!CreateProfile
  <2>1. UNCHANGED <<v1, v3, v4, v5, v6, v14>> /\ v2 = "create"
    BY <1>9, Zenon DEF Setup!CreateProfile, Setup!Listed, Setup!netVars, Setup!simVars, Setup!modemVars, Setup!runVars
  <2>2. v2' \in {"list", "set"}
    BY <1>9 DEF Setup!CreateProfile, Setup!Listed
  <2>3. UNCHANGED <<v20, v22, v23>> \/ \E o : Setup!Counted(o)
    BY <1>9, Zenon DEF Setup!CreateProfile, Setup!Listed, Setup!runVars
  <2>4. /\ v20' = v20
        /\ v22 => v22'
        /\ v23 => v23'
        /\ v22' => v22 \/ v23'
    BY <2>3, SetupCountsOn, Zenon
  <2>5. QED
    BY <2>1, <2>2, <2>4 DEF SetupGoesOn
<1>10. CASE Setup!SetProfile
  <2>1. UNCHANGED <<v1, v3, v4, v5, v6, v14>> /\ v2 = "set"
    BY <1>10, Zenon DEF Setup!SetProfile, Setup!netVars, Setup!simVars, Setup!modemVars, Setup!runVars
  <2>2. v2' \in {"running"}
    BY <1>10 DEF Setup!SetProfile
  <2>3. UNCHANGED <<v20, v22, v23>> \/ \E o : Setup!Counted(o)
    BY <1>10, Zenon DEF Setup!SetProfile, Setup!runVars
  <2>4. /\ v20' = v20
        /\ v22 => v22'
        /\ v23 => v23'
        /\ v22' => v22 \/ v23'
    BY <2>3, SetupCountsOn, Zenon
  <2>5. QED
    BY <2>1, <2>2, <2>4 DEF SetupGoesOn
<1>11. QED
  BY <1>1, <1>2, <1>3, <1>4, <1>5, <1>6, <1>7, <1>8, <1>9, <1>10 DEF SetupRequests

\* What a list has in it.
LEMMA StillTail ==
  ASSUME SetupTodo, v3 # <<>>, v3' = Tail(v3)
  PROVE  /\ Setup!Still = {Head(v3)} \cup Setup!Still'
         /\ v3' = <<>> <=> Len(v3) = 1
         /\ v3' = <<>> => Setup!Still' = {}
         /\ SetupTodo'
<1>1. /\ v3 \in Seq(Setup!Name) /\ v3' \in Seq(Setup!Name) /\ Len(v3) \in Nat \ {0} /\ Len(v3') = Len(v3) - 1
      /\ \A i \in DOMAIN v3' : v3'[i] = v3[i + 1] /\ i + 1 \in DOMAIN v3
      /\ 1 \in DOMAIN v3 /\ Head(v3) = v3[1]
      /\ \A i \in DOMAIN v3 : i = 1 \/ (i - 1 \in DOMAIN v3' /\ v3[i] = v3'[i - 1])
  BY DEF SetupTodo
<1>2. Setup!Still \subseteq {Head(v3)} \cup Setup!Still'
  <2> SUFFICES ASSUME NEW i \in DOMAIN v3 PROVE v3[i] = Head(v3) \/ v3[i] \in Setup!Still'
    BY Zenon DEF Setup!Still
  <2>1. CASE i = 1
    BY <1>1, <2>1
  <2>2. CASE i - 1 \in DOMAIN v3' /\ v3[i] = v3'[i - 1]
    BY <2>2, Zenon DEF Setup!Still
  <2>3. QED
    BY <1>1, <2>1, <2>2
<1>3. {Head(v3)} \cup Setup!Still' \subseteq Setup!Still
  BY <1>1 DEF Setup!Still
<1>4. (v3' = <<>> <=> Len(v3) = 1) /\ (v3' = <<>> => Setup!Still' = {})
  BY <1>1 DEF Setup!Still
<1>5. QED
  BY <1>1, <1>2, <1>3, <1>4 DEF SetupTodo

InList(s) == {s[i] : i \in DOMAIN s}
LEMMA InConcat ==
  ASSUME NEW S, NEW a \in Seq(S), NEW b \in Seq(S)
  PROVE  InList(a \o b) = InList(a) \cup InList(b) /\ (a # <<>> => a \o b # <<>>)
<1>1. /\ DOMAIN (a \o b) = 1..Len(a) + Len(b) /\ DOMAIN a = 1..Len(a) /\ DOMAIN b = 1..Len(b)
      /\ Len(a) \in Nat /\ Len(b) \in Nat
      /\ \A i \in 1..Len(a) : (a \o b)[i] = a[i]
      /\ \A i \in 1..Len(b) : (a \o b)[Len(a) + i] = b[i]
      /\ \A i \in 1..Len(a) + Len(b) : i \in 1..Len(a) \/ (i - Len(a) \in 1..Len(b) /\ (a \o b)[i] = b[i - Len(a)])
  OBVIOUS
<1>2. InList(a \o b) \subseteq InList(a) \cup InList(b)
  BY <1>1 DEF InList
<1>3. InList(a) \cup InList(b) \subseteq InList(a \o b)
  <2>1. \A i \in 1..Len(a) : i \in DOMAIN (a \o b)
    BY <1>1
  <2>2. \A i \in 1..Len(b) : Len(a) + i \in DOMAIN (a \o b)
    BY <1>1
  <2>3. InList(a) \subseteq InList(a \o b)
    BY <1>1, <2>1 DEF InList
  <2>4. InList(b) \subseteq InList(a \o b)
    <3>1. ASSUME NEW i \in 1..Len(b) PROVE b[i] \in InList(a \o b)
      <4>1. Len(a) + i \in DOMAIN (a \o b) /\ (a \o b)[Len(a) + i] = b[i]
        BY <1>1, <2>2
      <4>2. QED
        BY <4>1, Zenon DEF InList
    <3>2. QED
      BY <1>1, <3>1, Zenon DEF InList
  <2>5. QED
    BY <2>3, <2>4
<1>4. QED
  BY <1>2, <1>3

\* The list that a start begins with is of the services it needs.
LEMMA StillFirst ==
  ASSUME Setup!Detect
  PROVE  v3' # <<>> /\ Setup!Still' = Setup!Services /\ SetupTodo'
<1> DEFINE a == IF v1.v6 THEN <<"wds6">> ELSE <<>>
           b == IF v1.dev = "gobi" /\ v1.card # "plain" THEN <<>> ELSE <<"wda">>
<1>1. v3' = <<"wds">> \o a \o <<"dms", "nas", "uim">> \o b
  BY DEF Setup!Detect
<1>2. /\ <<"wds">> \in Seq(Setup!Name) /\ <<"dms", "nas", "uim">> \in Seq(Setup!Name)
      /\ a \in Seq(Setup!Name) /\ b \in Seq(Setup!Name)
  <2>1. /\ "wds" \in Setup!Name /\ "wds6" \in Setup!Name /\ "wda" \in Setup!Name
        /\ "dms" \in Setup!Name /\ "nas" \in Setup!Name /\ "uim" \in Setup!Name
    BY DEF Setup!Name
  <2>2. /\ <<>> \in Seq(Setup!Name) /\ <<"wds">> \in Seq(Setup!Name) /\ <<"wds6">> \in Seq(Setup!Name)
        /\ <<"wda">> \in Seq(Setup!Name) /\ <<"dms", "nas", "uim">> \in Seq(Setup!Name)
    BY <2>1
  <2>3. a \in Seq(Setup!Name) /\ b \in Seq(Setup!Name)
    BY <2>2, Zenon
  <2>4. QED
    BY <2>2, <2>3
<1>3. /\ InList(<<"wds">>) = {"wds"} /\ InList(<<"dms", "nas", "uim">>) = {"dms", "nas", "uim"}
      /\ InList(a) = IF v1.v6 THEN {"wds6"} ELSE {}
      /\ InList(b) = IF v1.dev = "gobi" /\ v1.card # "plain" THEN {} ELSE {"wda"}
  BY DEF InList
<1> HIDE DEF a, b
<1>4. /\ <<"wds">> \o a \in Seq(Setup!Name)
      /\ <<"wds">> \o a \o <<"dms", "nas", "uim">> \in Seq(Setup!Name)
      /\ v3' \in Seq(Setup!Name)
  BY <1>1, <1>2, JoinType
<1>5. /\ InList(v3') = {"wds"} \cup InList(a) \cup {"dms", "nas", "uim"} \cup InList(b)
      /\ v3' # <<>>
  <2>1. /\ InList(<<"wds">> \o a) = InList(<<"wds">>) \cup InList(a)
        /\ (<<"wds">> # <<>> => <<"wds">> \o a # <<>>)
    BY <1>2, InConcat
  <2>2. <<"wds">> # <<>>
    OBVIOUS
  <2>3. /\ InList(<<"wds">> \o a \o <<"dms", "nas", "uim">>) = InList(<<"wds">> \o a) \cup InList(<<"dms", "nas", "uim">>)
        /\ (<<"wds">> \o a # <<>> => <<"wds">> \o a \o <<"dms", "nas", "uim">> # <<>>)
    BY <1>2, <1>4, InConcat
  <2>4. /\ InList(v3') = InList(<<"wds">> \o a \o <<"dms", "nas", "uim">>) \cup InList(b)
        /\ (<<"wds">> \o a \o <<"dms", "nas", "uim">> # <<>> => v3' # <<>>)
    <3> DEFINE c == <<"wds">> \o a \o <<"dms", "nas", "uim">>
    <3>1. c \in Seq(Setup!Name) /\ b \in Seq(Setup!Name) /\ v3' = c \o b
      BY <1>1, <1>2, <1>4
    <3> HIDE DEF c
    <3>2. InList(c \o b) = InList(c) \cup InList(b) /\ (c # <<>> => c \o b # <<>>)
      BY <3>1, InConcat
    <3>3. InList(v3') = InList(c) \cup InList(b) /\ (c # <<>> => v3' # <<>>)
      BY <3>1, <3>2
    <3>4. QED
      BY <3>3 DEF c
  <2>5. QED
    BY <1>3, <2>1, <2>2, <2>3, <2>4, Zenon
<1>6. Setup!Still' = InList(v3')
  BY DEF Setup!Still, InList
<1>7. QED
  BY <1>3, <1>4, <1>5, <1>6 DEF Setup!Services, SetupTodo

LEMMA FewIdsGoesOn ==
  ASSUME Setup!FewIds, SetupFlags, SetupGoesOn
  PROVE  Setup!FewIds'
<1>1. Setup!Still' = Setup!Still /\ Setup!Services' = Setup!Services
  BY DEF Setup!Still, Setup!Services, SetupGoesOn
<1>2. QED
  BY <1>1 DEF Setup!FewIds, Setup!Starting, SetupFlags, SetupGoesOn

LEMMA SetupFewIds ==
  ASSUME Setup!SetupInv, Setup!Next
  PROVE  Setup!FewIds'
<1>0. SetupFlags /\ SetupTodo /\ Setup!FewIds /\ v2 \in Setup!Step
  BY SetupTypeParts DEF Setup!SetupInv, SetupWords
<1> USE DEF Setup!netVars, Setup!simVars, Setup!modemVars, Setup!runVars
<1>1. CASE Setup!Detect
  <2>1. v3' # <<>> /\ Setup!Still' = Setup!Services
    BY <1>1, StillFirst
  <2>2. v2' \in {"sync", "version", "ids"} /\ v2 = "detect" /\ v22' = FALSE /\ UNCHANGED <<v1, v4, v14, v23>>
    BY <1>1 DEF Setup!Detect
  <2>3. Setup!Services' = Setup!Services
    BY <2>2 DEF Setup!Services
  <2>4. QED
    BY <1>0, <2>1, <2>2, <2>3 DEF Setup!FewIds, Setup!Starting, SetupFlags
<1>2. CASE Setup!Sync
  <2>1. PICK o : Setup!Counted(o) /\ v14' = (IF Setup!Done(o) THEN {} ELSE v14)
                 /\ v2' = (IF o = "ok" THEN "version" ELSE "exited")
    BY <1>2 DEF Setup!Sync
  <2>2. /\ v22' <=> v22 \/ o # "ok"
        /\ v23' <=> v23 \/ o # "ok"
    BY <1>0, <2>1, SetupCounts
  <2>3. v2 = "sync" /\ UNCHANGED <<v1, v3, v4>>
    BY <1>2, Zenon DEF Setup!Sync
  <2>4. Setup!Services' = Setup!Services /\ Setup!Still' = Setup!Still
    BY <2>3 DEF Setup!Services, Setup!Still
  <2>5. QED
    BY <1>0, <2>1, <2>2, <2>3, <2>4 DEF Setup!FewIds, Setup!Starting, SetupFlags, Setup!Done
<1>3. CASE Setup!Version
  <2>1. PICK o : Setup!Counted(o)
    BY <1>3, Zenon DEF Setup!Version
  <2>2. /\ v22' <=> v22 \/ o # "ok"
        /\ v23' <=> v23 \/ o # "ok"
    BY <1>0, <2>1, SetupCounts
  <2>3. v2 = "version" /\ v2' = "ids" /\ UNCHANGED <<v1, v3, v4, v14>>
    BY <1>3, Zenon DEF Setup!Version
  <2>4. Setup!Services' = Setup!Services /\ Setup!Still' = Setup!Still
    BY <2>3 DEF Setup!Services, Setup!Still
  <2>5. QED
    BY <1>0, <2>1, <2>2, <2>3, <2>4 DEF Setup!FewIds, Setup!Starting, SetupFlags
<1>4. CASE Setup!GetClientID
  <2>1. PICK o :
          /\ Setup!Counted(o)
          /\ \/ /\ o # "ok" /\ v2' = "exited" /\ v4' = {} /\ v14' = {}
             \/ /\ v2' = IF Len(v3) = 1 THEN "format" ELSE "ids"
                /\ v4' = IF o = "ok" THEN v4 \cup {Head(v3)} ELSE v4 \ {Head(v3)}
                /\ o = "ok" => v14' = v14 \cup {Head(v3)}
    BY <1>4 DEF Setup!GetClientID
  <2>2. /\ v22' <=> v22 \/ o # "ok"
        /\ v23' <=> v23 \/ o # "ok"
    BY <1>0, <2>1, SetupCounts
  <2>3. v2 = "ids" /\ v3 # <<>> /\ v3' = Tail(v3) /\ UNCHANGED v1
    BY <1>4, Zenon DEF Setup!GetClientID
  <2>4. Setup!Services' = Setup!Services
    BY <2>3 DEF Setup!Services
  <2>5. /\ Setup!Still = {Head(v3)} \cup Setup!Still'
        /\ v3' = <<>> <=> Len(v3) = 1
        /\ v3' = <<>> => Setup!Still' = {}
    BY <1>0, <2>3, StillTail
  <2>6. QED
    BY <1>0, <2>1, <2>2, <2>3, <2>4, <2>5 DEF Setup!FewIds, Setup!Starting, SetupFlags
<1>5. CASE SetupRequests
  BY <1>0, <1>5, SetupGoes, FewIdsGoesOn
<1>6. CASE Setup!Stop
  <2>1. v2 = "running" /\ v2' = (IF v4 = {} THEN "exited" ELSE "release") /\ UNCHANGED <<v1, v3, v4, v14, v22, v23>>
    BY <1>6, Zenon DEF Setup!Stop
  <2>2. Setup!Services' = Setup!Services /\ Setup!Still' = Setup!Still
    BY <2>1 DEF Setup!Services, Setup!Still
  <2>3. QED
    BY <1>0, <2>1, <2>2 DEF Setup!FewIds, Setup!Starting, SetupFlags
<1>7. CASE Setup!Release
  <2>1. PICK n, o : /\ Setup!Counted(o) /\ v4' = v4 \ {n} /\ v2' = (IF v4' = {} THEN "exited" ELSE v2)
                    /\ o = "ok" => v14' = v14 \ {n}
    BY <1>7 DEF Setup!Release, Setup!Under, Setup!Done
  <2>2. /\ v22' <=> v22 \/ o # "ok"
        /\ v23' <=> v23 \/ o # "ok"
    BY <1>0, <2>1, SetupCounts
  <2>3. v2 = "release" /\ UNCHANGED <<v1, v3>>
    BY <1>7, Zenon DEF Setup!Release
  <2>4. Setup!Services' = Setup!Services /\ Setup!Still' = Setup!Still
    BY <2>3 DEF Setup!Services, Setup!Still
  <2>5. QED
    BY <1>0, <2>1, <2>2, <2>3, <2>4 DEF Setup!FewIds, Setup!Starting, SetupFlags
<1>8. CASE Setup!Reset
  <2>1. v2 = "running" /\ v2' = "detect" /\ v14' = {} /\ v4' \in {v4, {}} /\ UNCHANGED <<v1, v3, v22, v23>>
    BY <1>8, Zenon DEF Setup!Reset
  <2>2. Setup!Services' = Setup!Services /\ Setup!Still' = Setup!Still
    BY <2>1 DEF Setup!Services, Setup!Still
  <2>3. QED
    BY <1>0, <2>1, <2>2 DEF Setup!FewIds, Setup!Starting, SetupFlags
<1>9. CASE Setup!Relaunch
  <2>1. v2 \in {"exited", "crashed"} /\ v2' = "detect" /\ v14' \in {v14, {}} /\ v4' = {} /\ UNCHANGED <<v1, v22, v23>>
    BY <1>9, Zenon DEF Setup!Relaunch
  <2>2. Setup!Services' = Setup!Services
    BY <2>1 DEF Setup!Services
  <2>3. QED
    BY <1>0, <2>1, <2>2 DEF Setup!FewIds, Setup!Starting, SetupFlags
<1>10. CASE Setup!CardSettles
  <2>1. UNCHANGED <<v1, v2, v3, v4, v14, v22, v23>>
    BY <1>10, Zenon DEF Setup!CardSettles
  <2>2. Setup!Services' = Setup!Services /\ Setup!Still' = Setup!Still
    BY <2>1 DEF Setup!Services, Setup!Still
  <2>3. QED
    BY <1>0, <2>1, <2>2 DEF Setup!FewIds, Setup!Starting, SetupFlags
<1>11. QED
  BY <1>1, <1>2, <1>3, <1>4, <1>5, <1>6, <1>7, <1>8, <1>9, <1>10 DEF Setup!Next, Setup!StartUp, SetupRequests

LEMMA SetupFramed ==
  ASSUME Setup!SetupInv, Setup!Next
  PROVE  Setup!Framed'
<1>0. SetupFlags /\ SetupFormat /\ Setup!FewIds /\ Setup!Framed /\ v1 \in Setup!Option
  BY SetupTypeParts DEF Setup!SetupInv, SetupWords
<1> USE DEF Setup!netVars, Setup!simVars, Setup!modemVars, Setup!runVars
<1>1. CASE Setup!Detect
  <2>1. v2' \in {"sync", "version", "ids"} /\ v2 = "detect" /\ v1' = v1 /\ (v2' # "ids" => v1.dev # "gobi")
    BY <1>1 DEF Setup!Detect
  <2>2. v5' <=> v1.card # "plain"
    BY <1>1, Zenon DEF Setup!Detect
  <2>3. v15' = IF v1.dev = "gobi" /\ v1.card # "plain" THEN [raw |-> TRUE, version |-> 5] ELSE v15
    BY <1>1, Zenon DEF Setup!Detect
  <2>4. v7' = 9 => v7 = 9 \/ v1.card = "info9"
    BY <1>1 DEF Setup!Detect, Setup!DriverVersion
  <2>5. QED
    BY <1>0, <2>1, <2>2, <2>3, <2>4 DEF Setup!Framed, Setup!Formatted
<1>2. CASE Setup!Sync
  <2>1. v2' \in {"version", "exited"} /\ v2 = "sync" /\ UNCHANGED <<v1, v5, v7, v8, v15>>
    BY <1>2 DEF Setup!Sync
  <2>2. QED
    BY <1>0, <2>1 DEF Setup!Framed, Setup!Formatted
<1>3. CASE Setup!Version
  <2>1. v2' = "ids" /\ v2 = "version" /\ UNCHANGED <<v1, v5, v8, v15>> /\ v7' \in {v7, 0, 1}
    BY <1>3 DEF Setup!Version
  <2>2. QED
    BY <1>0, <2>1 DEF Setup!Framed, Setup!Formatted
<1>4. CASE Setup!GetClientID
  <2>1. v2' \in {"ids", "format", "exited"} /\ v2 = "ids" /\ UNCHANGED <<v1, v5, v7, v8, v15>>
    BY <1>4 DEF Setup!GetClientID
  <2>2. QED
    BY <1>0, <2>1 DEF Setup!Framed, Setup!Formatted
<1>5. CASE Setup!SetDataFormat
  <2>1. /\ v2 = "format" /\ v1' = v1 /\ v5' = v5 /\ v4' = v4
        /\ v7' = IF v5 /\ v7 # 9 THEN 5 ELSE v7
    BY <1>5, Zenon DEF Setup!SetDataFormat
  <2>2. CASE v5 /\ "wda" \notin v4
    <3>1. v2' = "wds" /\ v8' = TRUE /\ UNCHANGED <<v15, v22>>
      BY <1>5, <2>2 DEF Setup!SetDataFormat
    <3>2. ~v22 => v1.dev = "gobi" /\ v1.card # "plain"
      BY <1>0, <2>1, <2>2 DEF Setup!FewIds, Setup!Services
    <3>3. ~v22 => v15 = [raw |-> TRUE, version |-> 5] /\ v1.card # "info9"
      BY <1>0, <2>1, <2>2, <3>2 DEF Setup!Framed
    <3>4. ~v22' => v15'.raw = v8' /\ v15'.version = Setup!DriverVersion'
      <4> SUFFICES ASSUME ~v22' PROVE v15'.raw = v8' /\ v15'.version = Setup!DriverVersion'
        OBVIOUS
      <4>1. v15' = [raw |-> TRUE, version |-> 5] /\ v1' = v1 /\ v1.card # "info9"
        BY <2>1, <3>1, <3>3, Zenon
      <4>2. v15'.raw = TRUE /\ v15'.version = 5
        BY <4>1
      <4>3. Setup!DriverVersion' = 5
        BY <4>1 DEF Setup!DriverVersion
      <4>4. QED
        BY <3>1, <4>2, <4>3
    <3>5. v7' = 9 => v1.card = "info9"
      BY <1>0, <2>1 DEF Setup!Framed
    <3>6. QED
      BY <1>0, <2>1, <3>1, <3>4, <3>5 DEF Setup!Framed, Setup!Formatted
  <2>3. CASE ~(v5 /\ "wda" \notin v4)
    <3>1. PICK o : /\ Setup!Counted(o)
                   /\ o = "ok" => v8' = (v5 \/ v1.raw)
                   /\ o = "ok" => v15' = [raw |-> v5 \/ v1.raw, version |-> IF v5 THEN Setup!AskedVersion ELSE 0]
                   /\ v2' = IF o = "ok" THEN "wds" ELSE "sim"
      BY <1>5, <2>3 DEF Setup!SetDataFormat, Setup!Done
    <3>2. v22' <=> v22 \/ o # "ok"
      BY <1>0, <3>1, SetupCounts
    <3>3. ~v22' => v15'.raw = v8' /\ (v5 => v15'.version = Setup!AskedVersion)
      BY <3>1, <3>2
    <3>4. v5 => Setup!AskedVersion = Setup!DriverVersion
      BY <1>0 DEF Setup!Framed, Setup!AskedVersion, Setup!DriverVersion
    <3>5. v7' = 9 => v1.card = "info9"
      BY <1>0, <2>1 DEF Setup!Framed
    <3>6. v2' \in {"wds", "sim"}
      BY <3>1
    <3>7. QED
      BY <1>0, <2>1, <3>3, <3>4, <3>5, <3>6 DEF Setup!Framed, Setup!Formatted, Setup!DriverVersion
  <2>4. QED
    BY <2>2, <2>3
<1>6. CASE SetupRequests /\ ~Setup!SetDataFormat
  <2>1. SetupGoesOn
    BY <1>0, <1>6, SetupGoes
  <2>2. UNCHANGED <<v7, v8, v15>> /\ v2 # "format"
    BY <1>6, Zenon DEF SetupRequests, Setup!Bind, Setup!GetSIMStatus, Setup!GetPINStatus, Setup!EnterSimPin,
       Setup!GetProfileList, Setup!GetProfileSettings, Setup!CreateProfile, Setup!SetProfile
  <2>3. QED
    BY <1>0, <2>1, <2>2 DEF SetupGoesOn, Setup!Framed, Setup!Formatted, Setup!DriverVersion
<1>7. CASE Setup!Stop \/ Setup!Release
  <2>1. v2 \in {"running", "release"} /\ v2' \in {"exited", "release"} /\ UNCHANGED <<v1, v5, v7, v8, v15>>
    BY <1>7, Zenon DEF Setup!Stop, Setup!Release
  <2>2. ~v22' => ~v22
    <3>1. (\E o : Setup!Counted(o)) \/ v22' = v22
      BY <1>7, Zenon DEF Setup!Stop, Setup!Release
    <3>2. QED
      BY <1>0, <3>1, SetupCounts, Zenon
  <2>3. QED
    BY <1>0, <2>1, <2>2 DEF Setup!Framed, Setup!Formatted, Setup!DriverVersion
<1>8. CASE Setup!Reset \/ Setup!Relaunch
  <2>1. v2' = "detect" /\ v1' = v1 /\ v7' \in {v7, 0}
    BY <1>8, Zenon DEF Setup!Reset, Setup!Relaunch
  <2>2. QED
    BY <1>0, <2>1 DEF Setup!Framed, Setup!Formatted
<1>9. CASE Setup!CardSettles
  <2>1. UNCHANGED <<v1, v2, v5, v7, v8, v15, v22>>
    BY <1>9, Zenon DEF Setup!CardSettles
  <2>2. QED
    BY <1>0, <2>1 DEF Setup!Framed, Setup!Formatted, Setup!DriverVersion
<1>10. QED
  BY <1>1, <1>2, <1>3, <1>4, <1>5, <1>6, <1>7, <1>8, <1>9, Zenon DEF Setup!Next, Setup!StartUp, SetupRequests

LEMMA SetupMuxed ==
  ASSUME Setup!SetupInv, Setup!Next
  PROVE  Setup!Muxed'
<1>0. SetupFlags /\ Setup!Framed /\ Setup!Muxed /\ v1 \in Setup!Option /\ v20 \in 1..MaxStarts
  BY SetupTypeParts DEF Setup!SetupInv, SetupWords
<1> USE SetupAssumption DEF Setup!netVars, Setup!simVars, Setup!modemVars, Setup!runVars
<1>1. CASE Setup!Detect
  <2>1. v2' \in {"sync", "version", "ids"} /\ v2 = "detect" /\ UNCHANGED <<v1, v20>>
    BY <1>1 DEF Setup!Detect
  <2>2. v6' = IF v1.card = "plain" THEN v6 ELSE Setup!MuxOf
    BY <1>1, Zenon DEF Setup!Detect
  <2>3. v1.card # "plain" /\ Setup!Numbered => Setup!MuxOf = Setup!Netcard
    BY <1>0, <2>1 DEF Setup!Muxed, Setup!MuxOf, Setup!Numbered, Setup!Netcard
  <2>4. QED
    BY <1>0, <2>1, <2>2, <2>3 DEF Setup!Muxed, Setup!Formatted, Setup!Numbered, Setup!Netcard
<1>2. CASE Setup!Sync
  <2>1. v2' \in {"version", "exited"} /\ v2 = "sync" /\ UNCHANGED <<v1, v6>>
    BY <1>2 DEF Setup!Sync
  <2>2. v20' = v20
    BY <1>0, <1>2, SetupCounts, Zenon DEF Setup!Sync
  <2>3. QED
    BY <1>0, <2>1, <2>2 DEF Setup!Muxed, Setup!Formatted, Setup!Numbered, Setup!Netcard
<1>3. CASE Setup!Version
  <2>1. v2' = "ids" /\ v2 = "version" /\ UNCHANGED <<v1, v6>>
    BY <1>3 DEF Setup!Version
  <2>2. v20' = v20
    BY <1>0, <1>3, SetupCounts, Zenon DEF Setup!Version
  <2>3. QED
    BY <1>0, <2>1, <2>2 DEF Setup!Muxed, Setup!Formatted, Setup!Numbered, Setup!Netcard
<1>4. CASE Setup!GetClientID
  <2>1. v2' \in {"ids", "format", "exited"} /\ v2 = "ids" /\ UNCHANGED <<v1, v6>>
    BY <1>4 DEF Setup!GetClientID
  <2>2. v20' = v20
    BY <1>0, <1>4, SetupCounts, Zenon DEF Setup!GetClientID
  <2>3. QED
    BY <1>0, <2>1, <2>2 DEF Setup!Muxed, Setup!Formatted, Setup!Numbered, Setup!Netcard
<1>5. CASE Setup!SetDataFormat
  <2>1. SetupGoesOn
    BY <1>0, <1>5, SetupGoes DEF SetupRequests
  <2>2. v2 = "format" /\ (v2' = "wds" \/ (v2' = "sim" /\ \E o : Setup!Counted(o) /\ o # "ok"))
    BY <1>5 DEF Setup!SetDataFormat
  <2>3. v2' = "wds" \/ (v2' = "sim" /\ v22')
    BY <1>0, <2>2, SetupCounts, Zenon
  <2>4. QED
    BY <1>0, <2>1, <2>2, <2>3 DEF SetupGoesOn, Setup!Muxed, Setup!Formatted, Setup!Numbered, Setup!Netcard
<1>6. ASSUME NEW n \in {"wds", "wds6"}, Setup!Bind(n) PROVE Setup!Muxed'
  <2>1. SetupGoesOn
    BY <1>0, <1>6, SetupGoes DEF SetupRequests
  <2>2. v2 = n
    BY <1>6, Zenon DEF Setup!Bind
  <2>3. v5 => \/ v2' = "sim" /\ v22'
              \/ /\ v2' = IF n = "wds" /\ v1.v6 THEN "wds6" ELSE "sim"
                 /\ v16' = v16 \cup {<<n, v6>>}
    <3> SUFFICES ASSUME v5 PROVE \/ v2' = "sim" /\ v22'
                                 \/ /\ v2' = IF n = "wds" /\ v1.v6 THEN "wds6" ELSE "sim"
                                    /\ v16' = v16 \cup {<<n, v6>>}
      OBVIOUS
    <3>1. PICK o : /\ Setup!Counted(o) /\ v16' = (IF Setup!Done(o) THEN v16 \cup {<<n, v6>>} ELSE v16)
                   /\ v2' = IF o = "ok" THEN IF n = "wds" /\ v1.v6 THEN "wds6" ELSE "sim" ELSE "sim"
      BY <1>6 DEF Setup!Bind
    <3>2. o # "ok" => v22'
      BY <1>0, <3>1, SetupCounts
    <3>3. QED
      BY <3>1, <3>2 DEF Setup!Done
  <2>4. v5 => v1.card # "plain"
    BY <1>0, <2>2 DEF Setup!Framed
  <2>5. v5 /\ Setup!Numbered => v6 = Setup!Netcard
    BY <1>0, <2>2, <2>4 DEF Setup!Muxed
  <2>6. v1.card # "plain" /\ Setup!Numbered => v6 = Setup!Netcard
    BY <1>0, <2>2 DEF Setup!Muxed
  <2>7. v5 /\ ~v22' /\ Setup!Numbered =>
          /\ <<"wds", Setup!Netcard>> \in v16'
          /\ v2' \in Setup!Formatted \ {"wds", "wds6"} /\ v1.v6 => <<"wds6", Setup!Netcard>> \in v16'
    BY <1>0, <2>1, <2>2, <2>3, <2>5 DEF SetupGoesOn, Setup!Muxed, Setup!Formatted
  <2>8. Setup!Netcard' = Setup!Netcard /\ (Setup!Numbered' <=> Setup!Numbered) /\ v2' # "detect"
    BY <2>1 DEF SetupGoesOn, Setup!Netcard, Setup!Numbered
  <2>9. QED
    BY <2>1, <2>6, <2>7, <2>8 DEF SetupGoesOn, Setup!Muxed
<1>7. CASE /\ SetupRequests
           /\ ~(Setup!SetDataFormat \/ Setup!Bind("wds") \/ Setup!Bind("wds6"))
  <2>1. SetupGoesOn
    BY <1>0, <1>7, SetupGoes
  <2>2. UNCHANGED v16 /\ v2 \in {"sim", "pinstatus", "pin", "list", "settings", "create", "set"}
    BY <1>7, Zenon DEF SetupRequests, Setup!GetSIMStatus, Setup!GetPINStatus, Setup!EnterSimPin,
       Setup!GetProfileList, Setup!GetProfileSettings, Setup!CreateProfile, Setup!SetProfile
  <2>3. v2' \in {"sim", "pinstatus", "pin", "list", "settings", "create", "set", "running", "crashed"}
    BY <1>7 DEF SetupRequests, Setup!GetSIMStatus, Setup!GetPINStatus, Setup!EnterSimPin, Setup!Entered, Setup!Listed,
       Setup!GetProfileList, Setup!GetProfileSettings, Setup!CreateProfile, Setup!SetProfile
  <2>4. QED
    BY <1>0, <2>1, <2>2, <2>3 DEF SetupGoesOn, Setup!Muxed, Setup!Formatted, Setup!Numbered, Setup!Netcard
<1>8. CASE Setup!Stop \/ Setup!Release
  <2>1. v2 \in {"running", "release"} /\ v2' \in {"exited", "release"} /\ UNCHANGED <<v1, v5, v6, v16>>
    BY <1>8, Zenon DEF Setup!Stop, Setup!Release
  <2>2. (v22 => v22') /\ v20' = v20
    <3>1. (\E o : Setup!Counted(o)) \/ UNCHANGED <<v20, v22, v23>>
      BY <1>8, Zenon DEF Setup!Stop, Setup!Release
    <3>2. QED
      BY <1>0, <3>1, SetupCountsOn, Zenon
  <2>3. QED
    BY <1>0, <2>1, <2>2 DEF Setup!Muxed, Setup!Formatted, Setup!Numbered, Setup!Netcard
<1>9. CASE Setup!Reset
  <2>1. v2 = "running" /\ v2' = "detect" /\ UNCHANGED <<v1, v6>> /\ v20' = v20 + 1
    BY <1>9, Zenon DEF Setup!Reset
  <2>2. QED
    BY <1>0, <2>1 DEF Setup!Muxed, Setup!Formatted, Setup!Numbered, Setup!Netcard
<1>10. CASE Setup!Relaunch
  <2>1. v2' = "detect" /\ v1' = v1 /\ v6' = 0
    BY <1>10, Zenon DEF Setup!Relaunch
  <2>2. QED
    BY <2>1 DEF Setup!Muxed, Setup!Formatted
<1>11. CASE Setup!CardSettles
  <2>1. UNCHANGED <<v1, v2, v5, v6, v16, v20, v22>>
    BY <1>11, Zenon DEF Setup!CardSettles
  <2>2. QED
    BY <1>0, <2>1 DEF Setup!Muxed, Setup!Formatted, Setup!Numbered, Setup!Netcard
<1>12. QED
  BY <1>1, <1>2, <1>3, <1>4, <1>5, <1>6, <1>7, <1>8, <1>9, <1>10, <1>11, Zenon DEF Setup!Next, Setup!StartUp, SetupRequests

LEMMA SetupTried ==
  ASSUME Setup!SetupInv, Setup!Next
  PROVE  Setup!Tried'
<1>0. SetupFlags /\ SetupWords /\ Setup!Tried
  BY SetupTypeParts DEF Setup!SetupInv
<1>7. v18 \in Int /\ v18 >= 0 /\ v18 <= 3 /\ v20 \in Int /\ v20 >= 1
  <2>1. v18 \in 0..3 /\ v20 \in 1..MaxStarts
    BY <1>0, Zenon DEF SetupWords
  <2>2. QED
    BY <2>1, SetupAssumption
<1> USE DEF Setup!netVars, Setup!simVars, Setup!modemVars, Setup!runVars
<1>1. CASE Setup!Detect \/ Setup!Sync \/ Setup!Version \/ Setup!GetClientID \/ Setup!Stop \/ Setup!Release
  <2>1. v2' \in {"running", "release", "exited"} \/ v2 \in Setup!Starting
    BY <1>1 DEF Setup!Detect, Setup!Sync, Setup!Version, Setup!GetClientID, Setup!Stop, Setup!Release, Setup!Starting
  <2>5. v2' # "pinstatus"
    BY <1>1 DEF Setup!Detect, Setup!Sync, Setup!Version, Setup!GetClientID, Setup!Stop, Setup!Release
  <2>2. UNCHANGED <<v17, v18>>
    BY <1>1, Zenon DEF Setup!Detect, Setup!Sync, Setup!Version, Setup!GetClientID, Setup!Stop, Setup!Release
  <2>3. v20' = v20
    <3>1. (\E o : Setup!Counted(o)) \/ v20' = v20
      BY <1>1, Zenon DEF Setup!Detect, Setup!Sync, Setup!Version, Setup!GetClientID, Setup!Stop, Setup!Release
    <3>2. QED
      BY <1>0, <3>1, SetupCounts, Zenon
  <2>4. QED
    BY <1>0, <2>1, <2>2, <2>3, <2>5 DEF Setup!Tried, Setup!PinSpared, Setup!Starting
<1>2. CASE SetupRequests /\ ~Setup!EnterSimPin
  <2>1. SetupGoesOn
    BY <1>0, <1>2, SetupGoes
  <2>2. UNCHANGED <<v17, v18>>
    BY <1>2, Zenon DEF SetupRequests, Setup!SetDataFormat, Setup!Bind, Setup!GetSIMStatus, Setup!GetPINStatus,
       Setup!GetProfileList, Setup!GetProfileSettings, Setup!CreateProfile, Setup!SetProfile
  <2>3. /\ \/ v2' \in {"list", "settings", "create", "set", "running", "crashed"}
           \/ v2 \in {"format", "wds", "wds6", "sim", "pinstatus"}
        /\ v2' = "pinstatus" => v17 \in {"pin", "puk"}
    BY <1>2 DEF SetupRequests, Setup!SetDataFormat, Setup!Bind, Setup!GetSIMStatus, Setup!GetPINStatus, Setup!Listed,
       Setup!GetProfileList, Setup!GetProfileSettings, Setup!CreateProfile, Setup!SetProfile
  <2>4. QED
    BY <1>0, <2>1, <2>2, <2>3 DEF SetupGoesOn, Setup!Tried, Setup!PinSpared, Setup!Starting
<1>3. CASE Setup!EnterSimPin
  <2>1. v20' = v20
    BY <1>0, <1>3, SetupGoes DEF SetupRequests, SetupGoesOn
  <2>2. v2 = "pin" /\ v2' = "list"
    BY <1>3 DEF Setup!EnterSimPin, Setup!Entered
  <2>3. \/ UNCHANGED <<v17, v18>>
        \/ v17' = "ready" /\ v18' = 3
        \/ v17 = "pin" /\ v18' = v18 - 1 /\ v17' = IF v18 = 1 THEN "puk" ELSE "pin"
    BY <1>3 DEF Setup!EnterSimPin
  <2>4. QED
    BY <1>0, <1>7, <2>1, <2>2, <2>3 DEF Setup!Tried, Setup!PinSpared, Setup!Starting
<1>4. CASE Setup!Reset \/ Setup!Relaunch
  <2>1. v20' = v20 + 1 /\ v18' = v18 /\ v2' = "detect"
    BY <1>4, Zenon DEF Setup!Reset, Setup!Relaunch
  <2>2. v17' \in {v17, "pin"} /\ (v17' # v17 => v17 = "ready")
    BY <1>4, Zenon DEF Setup!Reset, Setup!Relaunch
  <2>3. QED
    BY <1>0, <1>7, <2>1, <2>2 DEF Setup!Tried, Setup!PinSpared, Setup!Starting
<1>5. CASE Setup!CardSettles
  <2>1. UNCHANGED <<v2, v18, v20>> /\ v17 = "later" /\ v17' \in {"ready", "absent"}
    BY <1>5, Zenon DEF Setup!CardSettles
  <2>2. QED
    BY <1>0, <2>1 DEF Setup!Tried, Setup!PinSpared
<1>6. QED
  BY <1>1, <1>2, <1>3, <1>4, <1>5, Zenon DEF Setup!Next, Setup!StartUp, SetupRequests

\* The modem's table and the profile found in it.
LEMMA SetupFound ==
  ASSUME Setup!SetupInv, Setup!Next
  PROVE  Setup!Found' /\ SetupTable'
<1>0. SetupFlags /\ SetupTable /\ Setup!Found /\ (v22 => v23)
  BY SetupTypeParts DEF Setup!SetupInv, Setup!FewIds
<1> USE DEF Setup!netVars, Setup!simVars, Setup!modemVars, Setup!runVars
<1>1. ASSUME v2' \notin {"settings", "set", "running"}, UNCHANGED <<v11, v12, v13, v19>>, v23 => v23'
      PROVE  Setup!Found' /\ SetupTable'
  BY <1>0, <1>1 DEF Setup!Found, Setup!ProfileSet, SetupTable
<1>2. CASE Setup!Detect \/ Setup!Sync \/ Setup!Version \/ Setup!GetClientID \/ Setup!Stop \/ Setup!Release \/ Setup!Reset
  <2>1. v2' \notin {"settings", "set", "running"}
    BY <1>2 DEF Setup!Detect, Setup!Sync, Setup!Version, Setup!GetClientID, Setup!Stop, Setup!Release, Setup!Reset
  <2>2. UNCHANGED <<v11, v12, v13, v19>>
    BY <1>2, Zenon DEF Setup!Detect, Setup!Sync, Setup!Version, Setup!GetClientID, Setup!Stop, Setup!Release, Setup!Reset
  <2>3. v23 => v23'
    <3>1. (\E o : Setup!Counted(o)) \/ v23' = v23
      BY <1>2, Zenon DEF Setup!Detect, Setup!Sync, Setup!Version, Setup!GetClientID, Setup!Stop, Setup!Release, Setup!Reset
    <3>2. QED
      BY <1>0, <3>1, SetupCounts, Zenon
  <2>4. QED
    BY <1>1, <2>1, <2>2, <2>3
<1>3. CASE \/ Setup!SetDataFormat \/ Setup!Bind("wds") \/ Setup!Bind("wds6") \/ Setup!GetSIMStatus
           \/ Setup!GetPINStatus \/ Setup!EnterSimPin
  <2>1. v2' \notin {"settings", "set", "running"}
    BY <1>3 DEF Setup!SetDataFormat, Setup!Bind, Setup!GetSIMStatus, Setup!GetPINStatus, Setup!EnterSimPin, Setup!Entered
  <2>2. UNCHANGED <<v11, v12, v13, v19>>
    BY <1>3, Zenon DEF Setup!SetDataFormat, Setup!Bind, Setup!GetSIMStatus, Setup!GetPINStatus, Setup!EnterSimPin
  <2>3. v23 => v23'
    BY <1>0, <1>3, SetupGoes DEF SetupRequests, SetupGoesOn
  <2>4. QED
    BY <1>1, <2>1, <2>2, <2>3
<1>4. CASE Setup!GetProfileList
  <2>1. v2' \in {"settings", "set", "crashed"} /\ \E o : Setup!Counted(o) /\ (v2' # "settings" => o # "ok")
    BY <1>4 DEF Setup!GetProfileList
  <2>2. (v23 => v23') /\ (v2' = "set" => v22')
    BY <1>0, <2>1, SetupCounts, Zenon
  <2>3. v12' = 1 /\ v13' = "" /\ UNCHANGED <<v11, v19>>
    BY <1>4, Zenon DEF Setup!GetProfileList
  <2>4. Len(v19) >= 1 /\ 1 \in 1..MaxProfiles + 1
    BY <1>0, SetupAssumption DEF SetupTable
  <2>5. QED
    BY <1>0, <2>1, <2>2, <2>3, <2>4 DEF Setup!Found, Setup!ProfileSet, SetupTable
<1>5. CASE Setup!GetProfileSettings
  <2>1. PICK o :
          /\ Setup!Counted(o)
          /\ \/ o # "ok" /\ v2' = "set" /\ v13' = v13
             \/ v19[v11'].pdn = "own" /\ v2' = "set" /\ v13' = v19[v11'].by
             \/ v2' = (IF v12 = Len(v19) THEN "create" ELSE "settings")
    BY <1>5 DEF Setup!GetProfileSettings, Setup!Fits
  <2>2. (v23 => v23') /\ (o # "ok" => v22')
    BY <1>0, <2>1, SetupCounts, Zenon
  <2>3. v2 = "settings" /\ v11' = v12 /\ v12' = v12 + 1 /\ v19' = v19
    BY <1>5, Zenon DEF Setup!GetProfileSettings
  <2>4. v12 \in Nat \ {0} /\ Len(v19) \in Nat /\ v12 <= Len(v19) /\ Len(v19) <= MaxProfiles /\ DOMAIN v19 = 1..Len(v19)
    BY <1>0, <2>3, SetupAssumption DEF SetupTable, Setup!Found
  <2>5. v12' \in 1..MaxProfiles + 1 /\ v11' \in DOMAIN v19
    BY <2>3, <2>4, SetupAssumption
  <2>6. SetupTable'
    BY <1>0, <2>3, <2>5 DEF SetupTable
  <2>7. v2' = "settings" => v12' <= Len(v19')
    <3>1. v2' = "settings" => v12 # Len(v19)
      BY <2>1
    <3>2. v12 # Len(v19) => v12 + 1 <= Len(v19)
      <4>1. v12 \in Nat /\ Len(v19) \in Nat /\ v12 <= Len(v19)
        BY <1>0, <2>4 DEF SetupTable
      <4>2. QED
        BY <4>1
    <3>3. v12' = v12 + 1 /\ Len(v19') = Len(v19)
      BY <2>3, Zenon
    <3>4. QED
      BY <3>1, <3>2, <3>3, Zenon
  <2>8. v2' = "set" /\ ~v22' => v19'[v11'].pdn = "own" /\ v13' = v19'[v11'].by
    BY <2>1, <2>2, <2>3
  <2>9. Setup!ProfileSet'
    BY <1>0, <2>1, <2>2, <2>3 DEF Setup!Found, Setup!ProfileSet
  <2>10. QED
    BY <2>6, <2>7, <2>8, <2>9 DEF Setup!Found
<1>6. CASE Setup!CreateProfile
  <2> DEFINE p == [pdn |-> "own", by |-> "theirs"]
  <2>1. \E o : Setup!Counted(o) /\ (v2' # "list" => o # "ok")
    BY <1>6 DEF Setup!CreateProfile, Setup!Listed
  <2>2. (v23 => v23') /\ (v2' = "list" \/ (v2' = "set" /\ v22'))
    <3>1. v2' \in {"list", "set"}
      BY <1>6 DEF Setup!CreateProfile, Setup!Listed
    <3>2. QED
      BY <1>0, <2>1, <3>1, SetupCounts, Zenon
  <2>3. v19' = v19 \/ (v19' = Append(v19, p) /\ Len(v19) < MaxProfiles)
    BY <1>6 DEF Setup!CreateProfile
  <2>4. UNCHANGED <<v11, v12, v13>>
    BY <1>6, Zenon DEF Setup!CreateProfile
  <2>5. SetupTable'
    <3>1. CASE v19' = v19
      BY <1>0, <2>4, <3>1, Zenon DEF SetupTable
    <3>2. CASE v19' = Append(v19, p) /\ Len(v19) < MaxProfiles
      <4>1. p \in Setup!Profile
        BY DEF Setup!Profile, Setup!Pdn
      <4>2. v19 \in Seq(Setup!Profile) /\ v11 \in DOMAIN v19 /\ v12 \in 1..MaxProfiles + 1
        BY <1>0 DEF SetupTable
      <4> HIDE DEF p
      <4>3. v19' \in Seq(Setup!Profile) /\ Len(v19') = Len(v19) + 1 /\ Len(v19) \in Nat
        BY <3>2, <4>1, <4>2
      <4>4. v11 \in DOMAIN v19'
        BY <4>2, <4>3
      <4>5. Len(v19') <= MaxProfiles
        BY <3>2, <4>3, SetupAssumption
      <4>6. QED
        BY <2>4, <4>2, <4>3, <4>4, <4>5 DEF SetupTable
    <3>3. QED
      BY <2>3, <3>1, <3>2
  <2>6. \A i \in DOMAIN v19' : v19'[i].pdn = "other" => i \in DOMAIN v19 /\ v19'[i] = v19[i]
    BY <1>0, <2>3 DEF SetupTable
  <2>7. QED
    BY <1>0, <2>2, <2>5, <2>6 DEF Setup!Found, Setup!ProfileSet
<1>7. CASE Setup!SetProfile
  <2>1. v2 = "set" /\ v2' = "running" /\ UNCHANGED <<v1, v11, v12, v13>>
    BY <1>7, Zenon DEF Setup!SetProfile
  <2>2. v19[v11] \in Setup!Profile /\ DOMAIN v19 = 1..Len(v19) /\ v11 \in DOMAIN v19 /\ v19 \in Seq(Setup!Profile)
    BY <1>0 DEF SetupTable
  <2>3. CASE v1.apn /\ v13 # "user"
    <3>1. PICK o : /\ Setup!Counted(o)
                   /\ v19' = IF Setup!Done(o) THEN [v19 EXCEPT ![v11].by = "user"] ELSE v19
      BY <1>7, <2>3 DEF Setup!SetProfile
    <3>2. (v23 => v23') /\ (v22 => v22') /\ (o # "ok" => v22' /\ v23')
      BY <1>0, <3>1, SetupCounts, Zenon
    <3>3. SetupTable'
      <4>1. [v19[v11] EXCEPT !.by = "user"] \in Setup!Profile
        BY <2>2 DEF Setup!Profile
      <4>2. [v19 EXCEPT ![v11].by = "user"] \in Seq(Setup!Profile) /\ Len([v19 EXCEPT ![v11].by = "user"]) = Len(v19)
        BY <2>2, <4>1
      <4>3. QED
        BY <1>0, <2>1, <3>1, <4>2 DEF SetupTable
    <3>4. ~v22' => v19' = [v19 EXCEPT ![v11].by = "user"] /\ v19[v11].pdn = "own"
      BY <1>0, <2>1, <3>1, <3>2 DEF Setup!Found, Setup!Done
    <3>5. ~v22' => v19'[v11'] = [pdn |-> "own", by |-> "user"]
      BY <2>1, <2>2, <3>4 DEF Setup!Profile
    <3>6. ~v23' => \A i \in DOMAIN v19' : v19'[i].pdn = "other" => v19'[i].by = "theirs"
      <4>1. SUFFICES ASSUME ~v23', NEW i \in DOMAIN v19', v19'[i].pdn = "other" PROVE v19'[i].by = "theirs"
        OBVIOUS
      <4>2. ~v23 /\ ~v22 /\ o = "ok" /\ v19[v11].pdn = "own"
        BY <1>0, <2>1, <3>2, <4>1 DEF Setup!Found
      <4>3. v19' = [v19 EXCEPT ![v11].by = "user"]
        BY <3>1, <4>2 DEF Setup!Done
      <4>4. i \in DOMAIN v19 /\ i # v11 /\ v19'[i] = v19[i]
        BY <2>2, <4>1, <4>2, <4>3 DEF Setup!Profile
      <4>5. QED
        BY <1>0, <4>1, <4>2, <4>4 DEF Setup!Found, Setup!ProfileSet
    <3>7. QED
      BY <2>1, <3>3, <3>5, <3>6 DEF Setup!Found, Setup!ProfileSet
  <2>4. CASE ~(v1.apn /\ v13 # "user")
    <3>1. UNCHANGED <<v19, v22, v23>>
      BY <1>7, <2>4, Zenon DEF Setup!SetProfile
    <3>2. ~v22 /\ v1.apn => v19[v11] = [pdn |-> "own", by |-> "user"]
      BY <1>0, <2>1, <2>2, <2>4 DEF Setup!Found, Setup!Profile
    <3>3. QED
      BY <1>0, <2>1, <3>1, <3>2 DEF SetupTable, Setup!Found, Setup!ProfileSet
  <2>5. QED
    BY <2>3, <2>4
<1>8. CASE Setup!Relaunch
  <2>1. v2' = "detect" /\ v11' = 1 /\ v12' = 1 /\ UNCHANGED <<v19, v23>>
    BY <1>8, Zenon DEF Setup!Relaunch
  <2>2. 1 \in DOMAIN v19 /\ 1 \in 1..MaxProfiles + 1
    BY <1>0, SetupAssumption DEF SetupTable
  <2>3. QED
    BY <1>0, <2>1, <2>2 DEF SetupTable, Setup!Found, Setup!ProfileSet
<1>9. CASE Setup!CardSettles
  <2>1. UNCHANGED <<v1, v2, v11, v12, v13, v19, v22, v23>>
    BY <1>9, Zenon DEF Setup!CardSettles
  <2>2. QED
    BY <1>0, <2>1 DEF SetupTable, Setup!Found, Setup!ProfileSet
<1>10. QED
  BY <1>2, <1>3, <1>4, <1>5, <1>6, <1>7, <1>8, <1>9, Zenon DEF Setup!Next, Setup!StartUp

\* The steps that neither set up the data path nor begin again.
SetupOthers ==
  \/ Setup!Sync \/ Setup!Version \/ Setup!GetClientID \/ Setup!Bind("wds") \/ Setup!Bind("wds6")
  \/ Setup!GetSIMStatus \/ Setup!GetPINStatus \/ Setup!EnterSimPin
  \/ Setup!GetProfileList \/ Setup!GetProfileSettings \/ Setup!CreateProfile \/ Setup!SetProfile
  \/ Setup!Stop \/ Setup!Release \/ Setup!CardSettles

LEMMA SetupCases ==
  Setup!Next => Setup!Detect \/ Setup!SetDataFormat \/ Setup!Reset \/ Setup!Relaunch \/ SetupOthers
  BY Zenon DEF Setup!Next, Setup!StartUp, SetupOthers

LEMMA SetupOthersSame ==
  ASSUME SetupOthers
  PROVE  /\ UNCHANGED <<v5, v6, v8, v9, v15>>
         /\ (\E o : Setup!Counted(o)) \/ UNCHANGED <<v22, v23>>
  BY Zenon DEF SetupOthers, Setup!Sync, Setup!Version, Setup!GetClientID, Setup!Bind, Setup!GetSIMStatus,
     Setup!GetPINStatus, Setup!EnterSimPin, Setup!GetProfileList, Setup!GetProfileSettings,
     Setup!CreateProfile, Setup!SetProfile, Setup!Stop, Setup!Release, Setup!CardSettles,
     Setup!netVars, Setup!simVars, Setup!modemVars, Setup!runVars

LEMMA SetupFlagsStay ==
  ASSUME SetupFlags, Setup!Next
  PROVE  SetupFlags'
<1> USE DEF Setup!netVars, Setup!simVars, Setup!modemVars, Setup!runVars
<1>1. CASE Setup!Detect
  BY <1>1, Zenon DEF Setup!Detect, SetupFlags
<1>2. CASE Setup!SetDataFormat
  <2>1. v5' = v5 /\ ((\E o : Setup!Counted(o)) \/ UNCHANGED <<v22, v23>>)
    BY <1>2, Zenon DEF Setup!SetDataFormat
  <2>2. v22' \in BOOLEAN /\ v23' \in BOOLEAN
    BY <2>1, Zenon DEF Setup!Counted, SetupFlags
  <2>3. v8' \in {TRUE, v5 \/ v1.raw, v8 \/ v5} /\ v9' \in {TRUE, v5 \/ v1.raw, v9 \/ v5}
    BY <1>2 DEF Setup!SetDataFormat
  <2>4. v8' \in BOOLEAN /\ v9' \in BOOLEAN
    BY <2>3, Zenon
  <2>5. QED
    BY <2>1, <2>2, <2>4, Zenon DEF SetupFlags
<1>3. CASE Setup!Reset \/ Setup!Relaunch
  BY <1>3, Zenon DEF Setup!Reset, Setup!Relaunch, SetupFlags
<1>4. CASE SetupOthers
  BY <1>4, SetupOthersSame, Zenon DEF Setup!Counted, SetupFlags
<1>5. QED
  BY <1>1, <1>2, <1>3, <1>4, SetupCases

LEMMA SetupFormatStay ==
  ASSUME SetupFormat, SetupFlags, v1 \in Setup!Option, Setup!Next
  PROVE  SetupFormat'
<1> USE DEF Setup!netVars, Setup!simVars, Setup!modemVars, Setup!runVars
<1>1. CASE Setup!Detect
  <2>1. v15' = IF v1.dev = "gobi" /\ v1.card # "plain" THEN [raw |-> TRUE, version |-> 5] ELSE v15
    BY <1>1, Zenon DEF Setup!Detect
  <2>2. QED
    BY <2>1 DEF SetupFormat
<1>2. CASE Setup!SetDataFormat
  <2>1. v15' \in {v15, [raw |-> v5 \/ v1.raw, version |-> IF v5 THEN Setup!AskedVersion ELSE 0]}
    BY <1>2 DEF Setup!SetDataFormat
  <2>2. (v5 \/ v1.raw) \in BOOLEAN
    BY Zenon
  <2>3. (IF v5 THEN Setup!AskedVersion ELSE 0) \in {0, 5, 9}
    BY DEF Setup!AskedVersion, Setup!DriverVersion
  <2>4. PICK r \in BOOLEAN, n \in {0, 5, 9} : v15' \in {v15, [raw |-> r, version |-> n]}
    BY <2>1, <2>2, <2>3, Zenon
  <2>5. QED
    BY <2>4 DEF SetupFormat
<1>3. CASE Setup!Reset
  <2>1. v15' = [raw |-> FALSE, version |-> 0]
    BY <1>3, Zenon DEF Setup!Reset
  <2>2. QED
    BY <2>1 DEF SetupFormat
<1>4. CASE Setup!Relaunch
  BY <1>4, Zenon DEF Setup!Relaunch, SetupFormat
<1>5. CASE SetupOthers
  BY <1>5, SetupOthersSame, Zenon DEF SetupFormat
<1>6. QED
  BY <1>1, <1>2, <1>3, <1>4, <1>5, SetupCases

LEMMA SetupTodoStay ==
  ASSUME SetupTodo, Setup!Next
  PROVE  SetupTodo'
<1> USE DEF Setup!netVars, Setup!simVars, Setup!modemVars, Setup!runVars
<1>1. CASE Setup!Detect
  BY <1>1, StillFirst
<1>2. CASE Setup!GetClientID
  <2>1. v3 # <<>> /\ v3' = Tail(v3)
    BY <1>2, Zenon DEF Setup!GetClientID
  <2>2. QED
    BY <2>1, StillTail
<1>3. CASE Setup!Relaunch
  <2>1. v3' = <<>>
    BY <1>3, Zenon DEF Setup!Relaunch
  <2>2. QED
    BY <2>1 DEF SetupTodo
<1>4. CASE Setup!SetDataFormat \/ Setup!Reset \/ (SetupOthers /\ ~Setup!GetClientID)
  <2>1. v3' = v3
    BY <1>4, Zenon DEF SetupOthers, Setup!Sync, Setup!Version, Setup!Bind, Setup!GetSIMStatus,
       Setup!GetPINStatus, Setup!EnterSimPin, Setup!GetProfileList, Setup!GetProfileSettings, Setup!CreateProfile,
       Setup!SetProfile, Setup!Stop, Setup!Release, Setup!CardSettles, Setup!SetDataFormat, Setup!Reset
  <2>2. QED
    BY <2>1, Zenon DEF SetupTodo
<1>5. QED
  BY <1>1, <1>2, <1>3, <1>4, SetupCases

LEMMA SetupIdsType ==
  ASSUME SetupWords, SetupTodo, Setup!Next
  PROVE  v4' \subseteq Setup!Name /\ v14' \subseteq Setup!Name
<1> USE DEF Setup!netVars, Setup!simVars, Setup!modemVars, Setup!runVars
<1>1. CASE Setup!Sync
  BY <1>1 DEF SetupWords, Setup!Sync
<1>2. CASE Setup!GetClientID
  <2>1. v3 # <<>> /\ v4' \in {v4 \cup {Head(v3)}, v4 \ {Head(v3)}, {}} /\ v14' \in {v14 \cup {Head(v3)}, v14, {}}
    BY <1>2 DEF Setup!GetClientID
  <2>2. Head(v3) \in Setup!Name
    BY <2>1 DEF SetupTodo
  <2>3. QED
    BY <2>1, <2>2 DEF SetupWords
<1>3. CASE Setup!Release
  BY <1>3 DEF SetupWords, Setup!Release
<1>4. CASE Setup!Reset
  BY <1>4 DEF SetupWords, Setup!Reset
<1>5. CASE Setup!Relaunch
  BY <1>5 DEF SetupWords, Setup!Relaunch
<1>6. CASE \/ Setup!Detect \/ Setup!Version \/ Setup!SetDataFormat
           \/ Setup!Bind("wds") \/ Setup!Bind("wds6") \/ Setup!GetSIMStatus \/ Setup!GetPINStatus
           \/ Setup!EnterSimPin \/ Setup!GetProfileList \/ Setup!GetProfileSettings \/ Setup!CreateProfile
           \/ Setup!SetProfile \/ Setup!Stop \/ Setup!CardSettles
  <2>1. UNCHANGED <<v4, v14>>
    BY <1>6, Zenon DEF Setup!Detect, Setup!Version, Setup!SetDataFormat, Setup!Bind, Setup!GetSIMStatus,
       Setup!GetPINStatus, Setup!EnterSimPin, Setup!GetProfileList, Setup!GetProfileSettings,
       Setup!CreateProfile, Setup!SetProfile, Setup!Stop, Setup!CardSettles
  <2>2. QED
    BY <2>1, Zenon DEF SetupWords
<1>7. QED
  BY <1>1, <1>2, <1>3, <1>4, <1>5, <1>6, Zenon DEF Setup!Next, Setup!StartUp

LEMMA SetupNetType ==
  ASSUME SetupWords, Setup!Next
  PROVE  v6' \in -1..255 /\ v7' \in {0, 1, 5, 9}
<1> USE DEF Setup!netVars, Setup!simVars, Setup!modemVars, Setup!runVars
<1>1. CASE Setup!Detect
  <2>1. v6' = IF v1.card = "plain" THEN v6 ELSE Setup!MuxOf
    BY <1>1, Zenon DEF Setup!Detect
  <2>2. v7' = IF v1.card \in {"info5", "info9"} THEN Setup!DriverVersion
              ELSE IF v1.card # "plain" /\ v7 = 0 THEN 5 ELSE v7
    BY <1>1, Zenon DEF Setup!Detect
  <2>3. Setup!MuxOf \in -1..255 /\ Setup!DriverVersion \in {0, 1, 5, 9}
    BY DEF Setup!MuxOf, Setup!Netcard, Setup!DriverVersion
  <2>4. v6 \in -1..255 /\ v7 \in {0, 1, 5, 9}
    BY Zenon DEF SetupWords
  <2>5. QED
    BY <2>1, <2>2, <2>3, <2>4, Zenon
<1>2. CASE Setup!Version
  BY <1>2 DEF SetupWords, Setup!Version
<1>3. CASE Setup!SetDataFormat
  BY <1>3 DEF SetupWords, Setup!SetDataFormat
<1>4. CASE Setup!Relaunch
  <2>1. v6' = 0 /\ v7' = 0
    BY <1>4, Zenon DEF Setup!Relaunch
  <2>2. QED
    BY <2>1
<1>5. CASE \/ Setup!Sync \/ Setup!GetClientID \/ Setup!Bind("wds") \/ Setup!Bind("wds6")
           \/ Setup!GetSIMStatus \/ Setup!GetPINStatus \/ Setup!EnterSimPin \/ Setup!GetProfileList
           \/ Setup!GetProfileSettings \/ Setup!CreateProfile \/ Setup!SetProfile \/ Setup!Stop
           \/ Setup!Release \/ Setup!Reset \/ Setup!CardSettles
  <2>1. UNCHANGED <<v6, v7>>
    BY <1>5, Zenon DEF Setup!Sync, Setup!GetClientID, Setup!Bind, Setup!GetSIMStatus, Setup!GetPINStatus,
       Setup!EnterSimPin, Setup!GetProfileList, Setup!GetProfileSettings, Setup!CreateProfile,
       Setup!SetProfile, Setup!Stop, Setup!Release, Setup!Reset, Setup!CardSettles
  <2>2. QED
    BY <2>1, Zenon DEF SetupWords
<1>6. QED
  BY <1>1, <1>2, <1>3, <1>4, <1>5, Zenon DEF Setup!Next, Setup!StartUp

LEMMA SetupReadType ==
  ASSUME SetupWords, SetupTable, Setup!Found, Setup!Tried, Setup!Next
  PROVE  v10' \in {"absent", "ready", "pin", "puk"} /\ v13' \in {"", "user", "theirs"}
<1> USE DEF Setup!netVars, Setup!simVars, Setup!modemVars, Setup!runVars
<1>1. CASE Setup!Detect
  BY <1>1 DEF SetupWords, Setup!Detect, Setup!DriverVersion, Setup!MuxOf, Setup!Netcard
<1>2. CASE Setup!GetSIMStatus
  <2>1. v13' = v13 /\ (v10' = v10 \/ (v17 \notin {"later"} /\ v10' = v17))
    BY <1>2 DEF Setup!GetSIMStatus, Setup!Unsupported
  <2>2. QED
    BY <2>1 DEF SetupWords
<1>3. CASE Setup!GetPINStatus
  <2>1. v2 = "pinstatus" /\ v10' \in {v10, v17} /\ v13' = v13
    BY <1>3 DEF Setup!GetPINStatus
  <2>2. QED
    BY <2>1 DEF SetupWords, Setup!Tried
<1>4. CASE Setup!GetProfileList
  BY <1>4 DEF SetupWords, Setup!GetProfileList
<1>5. CASE Setup!GetProfileSettings
  <2>1. v10' = v10 /\ v2 = "settings" /\ v11' = v12 /\ v13' \in {v13, v19[v12].by}
    BY <1>5 DEF Setup!GetProfileSettings
  <2>2. v12 \in DOMAIN v19
    BY <2>1, SetupAssumption DEF SetupTable, Setup!Found
  <2>3. v19[v12] \in Setup!Profile
    BY <2>2 DEF SetupTable
  <2>4. QED
    BY <2>1, <2>3 DEF SetupWords, Setup!Profile
<1>6. CASE Setup!Relaunch
  BY <1>6 DEF SetupWords, Setup!Relaunch
<1>7. CASE \/ Setup!Sync \/ Setup!Version \/ Setup!GetClientID \/ Setup!SetDataFormat
           \/ Setup!Bind("wds") \/ Setup!Bind("wds6") \/ Setup!EnterSimPin \/ Setup!CreateProfile
           \/ Setup!SetProfile \/ Setup!Stop \/ Setup!Release \/ Setup!Reset \/ Setup!CardSettles
  <2>1. UNCHANGED <<v10, v13>>
    BY <1>7, Zenon DEF Setup!Sync, Setup!Version, Setup!GetClientID, Setup!SetDataFormat, Setup!Bind, Setup!EnterSimPin,
       Setup!CreateProfile, Setup!SetProfile, Setup!Stop, Setup!Release, Setup!Reset, Setup!CardSettles
  <2>2. QED
    BY <2>1, Zenon DEF SetupWords
<1>8. QED
  BY <1>1, <1>2, <1>3, <1>4, <1>5, <1>6, <1>7, Zenon DEF Setup!Next, Setup!StartUp

LEMMA SetupModemType ==
  ASSUME SetupWords, Setup!Tried, Setup!Next
  PROVE  /\ v16' \subseteq {"wds", "wds6"} \X (-1..255)
         /\ v17' \in {"later", "absent", "ready", "pin", "puk"} /\ v18' \in 0..3
<1> USE DEF Setup!netVars, Setup!simVars, Setup!modemVars, Setup!runVars
<1>1. CASE Setup!Bind("wds") \/ Setup!Bind("wds6")
  <2>1. PICK n \in {"wds", "wds6"} : Setup!Bind(n)
    BY <1>1
  <2>2. v16' \in {v16, v16 \cup {<<n, v6>>}} /\ UNCHANGED <<v17, v18>>
    BY <2>1, Zenon DEF Setup!Bind
  <2>3. v16 \subseteq {"wds", "wds6"} \X (-1..255) /\ v6 \in -1..255
    BY Zenon DEF SetupWords
  <2>4. <<n, v6>> \in {"wds", "wds6"} \X (-1..255)
    BY <2>3
  <2>5. QED
    BY <2>2, <2>3, <2>4, Zenon DEF SetupWords
<1>2. CASE Setup!EnterSimPin
  <2>1. \/ UNCHANGED <<v17, v18>>
        \/ v17' = "ready" /\ v18' = 3
        \/ v17 = "pin" /\ v18' = v18 - 1 /\ v17' = IF v18 = 1 THEN "puk" ELSE "pin"
    BY <1>2 DEF Setup!EnterSimPin
  <2>2. v17 \in {"later", "absent", "ready", "pin", "puk"} /\ v18 \in 0..3
        /\ v16' = v16 /\ v16 \subseteq {"wds", "wds6"} \X (-1..255)
    BY <1>2, Zenon DEF SetupWords, Setup!EnterSimPin
  <2>3. v17 = "pin" => v18 > 0
    BY DEF Setup!Tried
  <2>4. QED
    BY <2>1, <2>2, <2>3
<1>3. CASE Setup!Reset
  BY <1>3 DEF SetupWords, Setup!Reset
<1>4. CASE Setup!CardSettles
  BY <1>4 DEF SetupWords, Setup!CardSettles
<1>5. CASE \/ Setup!Detect \/ Setup!Sync \/ Setup!Version \/ Setup!GetClientID \/ Setup!SetDataFormat
           \/ Setup!GetSIMStatus \/ Setup!GetPINStatus \/ Setup!GetProfileList \/ Setup!GetProfileSettings
           \/ Setup!CreateProfile \/ Setup!SetProfile \/ Setup!Stop \/ Setup!Release \/ Setup!Relaunch
  <2>1. UNCHANGED <<v16, v17, v18>>
    BY <1>5, Zenon DEF Setup!Detect, Setup!Sync, Setup!Version, Setup!GetClientID, Setup!SetDataFormat, Setup!GetSIMStatus,
       Setup!GetPINStatus, Setup!GetProfileList, Setup!GetProfileSettings, Setup!CreateProfile,
       Setup!SetProfile, Setup!Stop, Setup!Release, Setup!Relaunch
  <2>2. QED
    BY <2>1, Zenon DEF SetupWords
<1>6. QED
  BY <1>1, <1>2, <1>3, <1>4, <1>5, Zenon DEF Setup!Next, Setup!StartUp

LEMMA SetupRunType ==
  ASSUME SetupWords, SetupFlags, Setup!Next
  PROVE  v20' \in 1..MaxStarts /\ v21' \in 0..MaxFaults
<1> USE DEF Setup!netVars, Setup!simVars, Setup!modemVars, Setup!runVars
<1>1. v20 \in 1..MaxStarts /\ v21 \in 0..MaxFaults
  BY Zenon DEF SetupWords
<1>2. ASSUME NEW n, NEW o \in Setup!Outcomes(n), Setup!Counted(o) \/ Setup!Counted("full")
      PROVE  v20' = v20 /\ v21' \in 0..MaxFaults
  <2>1. v20' = v20 /\ (v21' = v21 \/ (v21' = v21 - 1 /\ o \in {"refused", "lost"}))
    BY <1>2 DEF Setup!Counted
  <2>2. o \in {"refused", "lost"} => v21 > 0
    BY <1>2 DEF Setup!Outcomes
  <2>3. QED
    BY <1>1, <2>1, <2>2, SharedAssumption
<1>3. CASE Setup!Detect \/ Setup!Stop \/ Setup!CardSettles
  BY <1>1, <1>3, Zenon DEF Setup!Detect, Setup!Stop, Setup!CardSettles
<1>4. CASE Setup!Reset \/ Setup!Relaunch
  <2>1. v20 < MaxStarts /\ v20' = v20 + 1 /\ v21' = v21
    BY <1>4, Zenon DEF Setup!Reset, Setup!Relaunch
  <2>2. QED
    BY <1>1, <2>1, SetupAssumption
<1>5. CASE Setup!Sync \/ Setup!Version \/ Setup!GetClientID \/ Setup!Release \/ SetupRequests
  <2>1. \/ UNCHANGED <<v20, v21>>
        \/ \E n : \E o \in Setup!Outcomes(n) : Setup!Counted(o) \/ Setup!Counted("full")
    <3>1. CASE Setup!Sync \/ Setup!Version \/ Setup!GetClientID \/ Setup!Release
      BY <3>1, Zenon DEF Setup!Sync, Setup!Version, Setup!GetClientID, Setup!Release
    <3>2. CASE Setup!CreateProfile
      BY <3>2, Zenon DEF Setup!CreateProfile
    <3>3. CASE \/ Setup!SetDataFormat \/ Setup!Bind("wds") \/ Setup!Bind("wds6") \/ Setup!GetSIMStatus
               \/ Setup!GetPINStatus \/ Setup!EnterSimPin
      BY <3>3, Zenon DEF Setup!SetDataFormat, Setup!Bind, Setup!GetSIMStatus, Setup!GetPINStatus, Setup!EnterSimPin
    <3>4. CASE Setup!GetProfileList \/ Setup!GetProfileSettings \/ Setup!SetProfile
      BY <3>4, Zenon DEF Setup!GetProfileList, Setup!GetProfileSettings, Setup!SetProfile
    <3>5. QED
      BY <1>5, <3>1, <3>2, <3>3, <3>4, Zenon DEF SetupRequests
  <2>2. QED
    BY <1>1, <1>2, <2>1, Zenon
<1>6. QED
  BY <1>3, <1>4, <1>5, Zenon DEF Setup!Next, Setup!StartUp, SetupRequests

LEMMA SetupStepType ==
  ASSUME SetupWords, SetupFlags, Setup!Next
  PROVE  v1' \in Setup!Option /\ v2' \in Setup!Step
<1> USE DEF Setup!Step
<1>0. v1 \in Setup!Option /\ v2 \in Setup!Step
  BY Zenon DEF SetupWords
<1>1. CASE Setup!Detect \/ Setup!Sync \/ Setup!Version \/ Setup!GetClientID
  BY <1>0, <1>1 DEF Setup!Detect, Setup!Sync, Setup!Version, Setup!GetClientID
<1>2. CASE SetupRequests
  BY <1>0, <1>2, SetupGoes DEF SetupGoesOn
<1>3. CASE Setup!Stop \/ Setup!Release \/ Setup!Reset \/ Setup!Relaunch \/ Setup!CardSettles
  BY <1>0, <1>3 DEF Setup!Stop, Setup!Release, Setup!Reset, Setup!Relaunch, Setup!CardSettles
<1>4. QED
  BY <1>1, <1>2, <1>3, Zenon DEF Setup!Next, Setup!StartUp, SetupRequests

LEMMA SetupTypeStays ==
  ASSUME Setup!SetupInv, Setup!Next
  PROVE  Setup!TypeOK'
<1>1. SetupFlags /\ SetupWords /\ SetupFormat /\ SetupTodo /\ SetupTable /\ Setup!Tried /\ Setup!Found
  BY SetupTypeParts DEF Setup!SetupInv
<1>2. v1 \in Setup!Option
  BY <1>1 DEF SetupWords
<1>3. SetupWords'
  BY <1>1, SetupIdsType, SetupNetType, SetupReadType, SetupModemType, SetupRunType, SetupStepType, Zenon DEF SetupWords
<1>4. SetupFlags' /\ SetupFormat' /\ SetupTodo' /\ SetupTable'
  BY <1>1, <1>2, SetupFlagsStay, SetupFormatStay, SetupTodoStay, SetupFound
<1>5. QED
  BY <1>3, <1>4, Zenon DEF Setup!TypeOK, SetupFlags, SetupWords, SetupFormat, SetupTodo, SetupTable

LEMMA SetupInit == Setup!Init => Setup!SetupInv
<1> SUFFICES ASSUME Setup!Init PROVE Setup!SetupInv
  OBVIOUS
<1> DEFINE First ==
      /\ v2 = "detect" /\ v3 = <<>> /\ v4 = {} /\ v6 = 0 /\ v7 = 0 /\ v10 = "absent" /\ v11 = 1 /\ v12 = 1
      /\ v13 = "" /\ v14 = {} /\ v15 = [raw |-> FALSE, version |-> 0] /\ v16 = {} /\ v18 = 3 /\ v20 = 1
      /\ v21 = MaxFaults
<1>1. First
  BY Zenon DEF Setup!Init
<1>2. v5 = FALSE /\ v8 = FALSE /\ v9 = TRUE /\ v22 = FALSE /\ v23 = FALSE
  BY Zenon DEF Setup!Init
<1>3. Setup!DataPath \/ Setup!SimCard
  BY Zenon DEF Setup!Init
<1>4. ASSUME Setup!DataPath
      PROVE  /\ v1 \in Setup!Option /\ (v1.dev = "gobi" => v1.card \in {"plain", "sysfs"})
             /\ v19 \in Seq(Setup!Profile) /\ Len(v19) <= MaxProfiles /\ 1 \in DOMAIN v19
             /\ \A i \in DOMAIN v19 : v19[i].pdn = "other" => v19[i].by = "theirs"
             /\ v17 = "ready"
  <2>1. PICK d \in {"wwan", "proxy", "gobi"}, c \in {"plain", "sysfs", "info5", "info9", "qmimux"},
             m \in BOOLEAN, l \in BOOLEAN, v \in BOOLEAN, r \in BOOLEAN :
             v1 = [Setup!Plain EXCEPT !.dev = d, !.card = c, !.many = m, !.low = l, !.v6 = v, !.raw = r]
    BY <1>4 DEF Setup!DataPath
  <2>2. v1 = [dev |-> d, card |-> c, many |-> m, low |-> l, v6 |-> v, pin |-> "none", apn |-> FALSE, raw |-> r]
    BY <2>1 DEF Setup!Plain
  <2>3. v1 \in Setup!Option
    BY <2>2 DEF Setup!Option
  <2>4. /\ v1.dev = "gobi" => v1.card \in {"plain", "sysfs"}
        /\ v17 = "ready" /\ v19 = <<[pdn |-> "own", by |-> "user"]>>
    BY <1>4, Zenon DEF Setup!DataPath
  <2>5. /\ v19 \in Seq(Setup!Profile) /\ Len(v19) <= MaxProfiles /\ 1 \in DOMAIN v19
        /\ \A i \in DOMAIN v19 : v19[i].pdn = "other" => v19[i].by = "theirs"
    BY <2>4, SetupAssumption DEF Setup!Profile, Setup!Pdn
  <2>6. QED
    BY <2>3, <2>4, <2>5, Zenon
<1>5. ASSUME Setup!SimCard
      PROVE  /\ v1 \in Setup!Option /\ (v1.dev = "gobi" => v1.card \in {"plain", "sysfs"})
             /\ v19 \in Seq(Setup!Profile) /\ Len(v19) <= MaxProfiles /\ 1 \in DOMAIN v19
             /\ \A i \in DOMAIN v19 : v19[i].pdn = "other" => v19[i].by = "theirs"
             /\ v17 \in {"later", "absent", "ready", "pin"}
  <2>1. PICK p \in {"none", "right", "wrong"}, a \in BOOLEAN : v1 = [Setup!Plain EXCEPT !.pin = p, !.apn = a]
    BY <1>5 DEF Setup!SimCard
  <2>2. v1 = [dev |-> "wwan", card |-> "plain", many |-> FALSE, low |-> FALSE, v6 |-> FALSE, pin |-> p,
              apn |-> a, raw |-> TRUE]
    BY <2>1 DEF Setup!Plain
  <2>3. v1 \in Setup!Option /\ v1.dev # "gobi"
    BY <2>2 DEF Setup!Option
  <2>4. PICK m \in 1..MaxProfiles : v19 \in [1..m -> [pdn : Setup!Pdn, by : {"theirs"}]]
    BY <1>5 DEF Setup!SimCard
  <2>5. v19 \in [1..m -> Setup!Profile] /\ m \in Nat /\ m >= 1 /\ m <= MaxProfiles
    BY <2>4, SetupAssumption DEF Setup!Profile
  <2>6. v19 \in Seq(Setup!Profile) /\ Len(v19) = m /\ DOMAIN v19 = 1..m
    BY <2>5
  <2>7. /\ Len(v19) <= MaxProfiles /\ 1 \in DOMAIN v19
        /\ \A i \in DOMAIN v19 : v19[i].pdn = "other" => v19[i].by = "theirs"
    BY <2>4, <2>5, <2>6
  <2>8. v17 \in {"later", "absent", "ready", "pin"}
    BY <1>5, Zenon DEF Setup!SimCard
  <2>9. QED
    BY <2>3, <2>6, <2>7, <2>8, Zenon
<1>6. /\ v1 \in Setup!Option /\ (v1.dev = "gobi" => v1.card \in {"plain", "sysfs"})
      /\ v19 \in Seq(Setup!Profile) /\ Len(v19) <= MaxProfiles /\ 1 \in DOMAIN v19
      /\ \A i \in DOMAIN v19 : v19[i].pdn = "other" => v19[i].by = "theirs"
      /\ v17 \in {"later", "absent", "ready", "pin"}
  BY <1>3, <1>4, <1>5, Zenon
<1>7. SetupFlags
  BY <1>2, Zenon DEF SetupFlags
<1>8. SetupWords
  <2>1. v20 \in 1..MaxStarts /\ v21 \in 0..MaxFaults
    <3>1. v20 = 1 /\ v21 = MaxFaults
      BY <1>1, Zenon
    <3>2. QED
      BY <3>1, SetupAssumption, SharedAssumption
  <2>2. /\ v2 \in Setup!Step /\ v4 \subseteq Setup!Name /\ v14 \subseteq Setup!Name
        /\ v6 \in -1..255 /\ v7 \in {0, 1, 5, 9}
    <3>1. v2 = "detect" /\ v4 = {} /\ v14 = {} /\ v6 = 0 /\ v7 = 0
      BY <1>1, Zenon
    <3>2. QED
      BY <3>1 DEF Setup!Step
  <2>3. /\ v10 \in {"absent", "ready", "pin", "puk"} /\ v13 \in {"", "user", "theirs"}
        /\ v16 \subseteq {"wds", "wds6"} \X (-1..255)
        /\ v17 \in {"later", "absent", "ready", "pin", "puk"} /\ v18 \in 0..3
    <3>1. v10 = "absent" /\ v13 = "" /\ v16 = {} /\ v18 = 3
      BY <1>1, Zenon
    <3>2. v17 \in {"later", "absent", "ready", "pin"}
      BY <1>6, Zenon
    <3>3. v16 \subseteq {"wds", "wds6"} \X (-1..255)
      BY <3>1, Zenon
    <3>4. v17 \in {"later", "absent", "ready", "pin", "puk"}
      BY <3>2
    <3>5. v10 \in {"absent", "ready", "pin", "puk"} /\ v13 \in {"", "user", "theirs"} /\ v18 \in 0..3
      <4>1. v18 \in 0..3
        <5>1. v18 = 3
          BY <3>1, Zenon
        <5>2. QED
          BY <5>1
      <4>2. QED
        BY <3>1, <4>1, Zenon
    <3>6. QED
      BY <3>3, <3>4, <3>5, Zenon
  <2>4. QED
    BY <1>6, <2>1, <2>2, <2>3, Zenon DEF SetupWords
<1>9. SetupFormat /\ SetupTodo
  <2>1. v15 = [raw |-> FALSE, version |-> 0] /\ v3 = <<>>
    BY <1>1, Zenon
  <2>2. QED
    BY <2>1 DEF SetupFormat, SetupTodo
<1>10. SetupTable
  <2>1. 1 \in 1..MaxProfiles + 1
    BY SetupAssumption
  <2>2. QED
    BY <1>1, <1>6, <2>1 DEF SetupTable
<1>11. Setup!FewIds
  BY <1>1, <1>2 DEF Setup!FewIds, Setup!Starting
<1>12. Setup!Framed
  <2>1. v2 = "detect" /\ v7 = 0
    BY <1>1, Zenon
  <2>2. QED
    BY <1>6, <2>1 DEF Setup!Framed, Setup!Formatted
<1>13. Setup!Muxed
  BY <1>1, <1>2 DEF Setup!Muxed, Setup!Formatted
<1>14. Setup!Tried
  <2>1. v2 = "detect" /\ v18 = 3 /\ v20 = 1
    BY <1>1, Zenon
  <2>2. QED
    BY <2>1 DEF Setup!Tried, Setup!PinSpared
<1>15. Setup!Found
  BY <1>1, <1>6 DEF Setup!Found, Setup!ProfileSet
<1>16. QED
  BY <1>7, <1>8, <1>9, <1>10, <1>11, <1>12, <1>13, <1>14, <1>15, SetupTypeParts DEF Setup!SetupInv

LEMMA SetupKeeps ==
  ASSUME Setup!SetupInv, [Setup!Next]_(Setup!vars)
  PROVE  Setup!SetupInv'
<1>1. CASE Setup!Next
  BY <1>1, SetupTypeStays, SetupFewIds, SetupFramed, SetupMuxed, SetupTried, SetupFound DEF Setup!SetupInv
<1>2. CASE UNCHANGED Setup!vars
  <2> USE DEF Setup!vars, Setup!netVars, Setup!simVars, Setup!modemVars, Setup!runVars
  <2>1. Setup!TypeOK'
    <3>1. SetupFlags /\ SetupWords /\ SetupFormat /\ SetupTodo /\ SetupTable
      BY SetupTypeParts DEF Setup!SetupInv
    <3>2. SetupFlags' /\ SetupFormat' /\ SetupTodo' /\ SetupTable'
      BY <1>2, <3>1, Zenon DEF SetupFlags, SetupFormat, SetupTodo, SetupTable
    <3>3. SetupWords'
      BY <1>2, <3>1, Zenon DEF SetupWords
    <3>4. QED
      BY <3>2, <3>3, Zenon DEF Setup!TypeOK, SetupFlags, SetupWords, SetupFormat, SetupTodo, SetupTable
  <2>2. Setup!FewIds'
    <3>1. Setup!Still' = Setup!Still /\ Setup!Services' = Setup!Services
      BY <1>2, Zenon DEF Setup!Still, Setup!Services
    <3>2. UNCHANGED <<v2, v3, v4, v14, v22, v23>>
      BY <1>2, Zenon
    <3>3. QED
      BY <3>1, <3>2, Zenon DEF Setup!SetupInv, Setup!FewIds
  <2>3. Setup!Framed' /\ Setup!Muxed'
    BY <1>2, Zenon DEF Setup!SetupInv, Setup!Framed, Setup!DriverVersion, Setup!Muxed, Setup!Numbered, Setup!Netcard
  <2>4. Setup!Tried' /\ Setup!Found'
    BY <1>2, Zenon DEF Setup!SetupInv, Setup!Tried, Setup!PinSpared, Setup!Found, Setup!ProfileSet
  <2>5. QED
    BY <2>1, <2>2, <2>3, <2>4, Zenon DEF Setup!SetupInv
<1>3. QED
  BY <1>1, <1>2

LEMMA SetupSafe ==
  ASSUME Setup!SetupInv
  PROVE  /\ Setup!AgreedFormat /\ Setup!BoundToCard /\ Setup!ProfileSet
         /\ Setup!PinSpared /\ Setup!IdsInUse
<1> USE DEF Setup!SetupInv
<1>1. Setup!AgreedFormat
  BY DEF Setup!Framed, Setup!Formatted, Setup!AgreedFormat
<1>2. Setup!BoundToCard
  <2>1. "wds6" \in v4 => v1.v6
    BY DEF Setup!FewIds, Setup!Services
  <2>2. QED
    BY <2>1 DEF Setup!Muxed, Setup!Numbered, Setup!Formatted, Setup!BoundToCard
<1>3. Setup!ProfileSet /\ Setup!PinSpared
  BY DEF Setup!Found, Setup!Tried
<1>4. Setup!IdsInUse
  BY DEF Setup!FewIds, Setup!Starting, Setup!IdsInUse
<1>5. QED
  BY <1>1, <1>2, <1>3, <1>4

\* Registration!DialFits and HomeCode; Setup!AgreedFormat, BoundToCard, ProfileSet,
\* PinSpared and IdsInUse: for any number of starts, resets, profiles and requests
\* that fail, and any order of the TLVs of an answer, a call is dialled for the
\* technology in service, and a session that came up without a failure has the
\* format, the mux id, the profile and the ids that modem and driver have.
THEOREM QmiSafely == Spec => []QmiSafe
<1> DEFINE Inv == /\ part = "registration" => Registration!RegistrationInv
                  /\ part = "setup" => Setup!SetupInv
<1>1. Init => Inv
  BY RegistrationInit, SetupInit DEF Init
<1>2. Inv /\ [Next]_vars => Inv'
  <2> SUFFICES ASSUME Inv, [Next]_vars PROVE Inv'
    OBVIOUS
  <2>1. ASSUME part' = "registration" PROVE part = "registration" /\ [Registration!Next]_(Registration!vars)
    BY <2>1 DEF Next, vars, Registration!vars, Registration!answerVars
  <2>2. ASSUME part' = "setup" PROVE part = "setup" /\ [Setup!Next]_(Setup!vars)
    BY <2>2 DEF Next, vars, Setup!vars, Setup!netVars, Setup!simVars, Setup!modemVars, Setup!runVars
  <2>3. QED
    BY <2>1, <2>2, RegistrationInvKeeps, SetupKeeps
<1>3. Inv => QmiSafe
  BY SetupSafe DEF QmiSafe, Registration!RegistrationInv
<1>4. QED
  BY <1>1, <1>2, <1>3, PTL DEF Spec
=============================================================================
