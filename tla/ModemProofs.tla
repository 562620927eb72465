---------------------------- MODULE ModemProofs ----------------------------
(***************************************************************************)
(* Theorems about how a program comes by its modem, the card of its call,  *)
(* the supervisor lte-serve, and the AT channel with its session; and,     *)
(* with the invariants of ComponentsProofs and QmiStartProofs, about the   *)
(* types of all parts. The variables v1, v2, ... are those of the part     *)
(* that runs, in the order that MCComponents gives.                        *)
(***************************************************************************)
EXTENDS ComponentsProofs, QmiStartProofs

-----------------------------------------------------------------------------
(* The supervisor. enable is v1, pinOnly v2, uci v3, stale v4, init v5,    *)
(* loop v6, set v7, i v8, pins v9, cm v10, reset v11, faults v12,          *)
(* slipped v13, orphan v14.                                                *)

LEMMA LteInit == Lte!Init => Lte!LteInv
<1> SUFFICES ASSUME Lte!Init PROVE Lte!LteInv
  OBVIOUS
<1>1. /\ v1 \in {"unset", "0", "1"} /\ v2 \in BOOLEAN /\ v3 = 0 /\ v4 = FALSE /\ v5 = "start"
      /\ v6 = "off" /\ v7 = 0 /\ v8 = 0 /\ v9 = 0 /\ v10 = <<>> /\ v11 = "off"
      /\ v12 = MaxFaults /\ v13 = FALSE /\ v14 = FALSE
  BY Zenon DEF Lte!Init
<1>2. v4 \in BOOLEAN /\ v13 \in BOOLEAN /\ v14 \in BOOLEAN /\ ~v4 /\ ~v13 /\ ~v14
  BY <1>1, Zenon
<1>3. v10 \in Seq(0..MaxChanges) /\ Len(v10) = 0 /\ DOMAIN v10 = {}
  BY <1>1
<1>4. Lte!TypeOK
  BY <1>1, <1>2, <1>3, LteAssumption, SharedAssumption DEF Lte!TypeOK
<1>5. QED
  BY <1>1, <1>3, <1>4
     DEF Lte!LteInv, Lte!OneProgram, Lte!CurrentSettings, Lte!Launched, Lte!Stopped, Lte!Fresh, Lte!Waits

\* The programs that run.
LEMMA LtePrograms ==
  ASSUME Lte!LteInv, Lte!Next
  PROVE  v10' \in Seq(0..MaxChanges) /\ Lte!OneProgram'
<1> USE DEF Lte!OneProgram
<1>0. v10 \in Seq(0..MaxChanges) /\ Len(v10) <= 1 /\ v7 \in 0..MaxChanges
      /\ (v6 = "launch" => v10 = <<>>)
  BY DEF Lte!LteInv, Lte!TypeOK, Lte!Launched
<1>1. CASE v10' = v10
  BY <1>0, <1>1
<1>2. CASE v10' = <<>>
  BY <1>2
<1>3. CASE v10' = Append(v10, v7) /\ v6 = "launch"
  BY <1>0, <1>3
<1>4. CASE v10 # <<>> /\ v10' = Tail(v10)
  BY <1>0, <1>4
<1>5. QED
  BY <1>1, <1>2, <1>3, <1>4
     DEF Lte!Next, Lte!Script, Lte!ResetScript, Lte!Service, Lte!Config, Lte!StopItself, Lte!Look,
         Lte!ResetModem, Lte!Launch, Lte!Sleep, Lte!Release, Lte!Orphaned, Lte!Reload,
         Lte!StopService, Lte!Killed, Lte!ProcdKill, Lte!StartService, Lte!Change, Lte!Respawn,
         Lte!Dies

\* Which program runs, and what is waited for.
LEMMA LteParts ==
  ASSUME Lte!LteInv, Lte!Next
  PROVE  /\ Lte!CurrentSettings' /\ Lte!Launched' /\ Lte!Stopped' /\ Lte!Fresh' /\ Lte!Waits'
<1> USE DEF Lte!LteInv, Lte!CurrentSettings, Lte!Launched, Lte!Stopped, Lte!Fresh, Lte!Waits
<1>0. v10 \in Seq(0..MaxChanges) /\ v3 \in 0..MaxChanges /\ v4 \in BOOLEAN /\ v13 \in BOOLEAN /\ v14 \in BOOLEAN
      /\ v5 \in {"idle", "kill", "term", "start"}
  BY Zenon DEF Lte!TypeOK
<1>1. CASE Lte!Config
  BY <1>0, <1>1 DEF Lte!Config, Lte!ScriptSame
<1>2. CASE Lte!StopItself
  BY <1>0, <1>2 DEF Lte!StopItself, Lte!ScriptSame
<1>3. CASE Lte!Look
  BY <1>0, <1>3 DEF Lte!Look, Lte!ScriptSame, Lte!Found
<1>4. CASE Lte!ResetModem
  BY <1>0, <1>4 DEF Lte!ResetModem, Lte!Resets, Lte!ScriptSame
<1>5. CASE Lte!Launch
  <2>1. /\ v6 = "launch" /\ v6' = "sleep" /\ v10 = <<>> /\ v10' \in {<<>>, Append(v10, v7)}
        /\ UNCHANGED <<v3, v4, v5, v7, v11, v14>>
    BY <1>5 DEF Lte!Launch, Lte!ScriptSame
  <2>2. \A k \in DOMAIN v10' : k = 1 /\ v10'[k] = v7
    BY <2>1
  <2>3. v13' <=> (v13 \/ v5 = "term")
    BY <1>5, Zenon DEF Lte!Launch
  <2>4. Lte!CurrentSettings'
    BY <2>1, <2>2
  <2>5. (v5 \in {"term", "start"} /\ ~v13') => v10' = <<>>
    BY <2>1, <2>3
  <2>6. QED
    BY <2>1, <2>4, <2>5
<1>6. CASE Lte!Sleep
  BY <1>0, <1>6 DEF Lte!Sleep, Lte!ScriptSame
<1>7. CASE Lte!Release
  BY <1>0, <1>7 DEF Lte!Release, Lte!ScriptSame, Lte!script
<1>8. CASE Lte!Orphaned
  BY <1>0, <1>8 DEF Lte!Orphaned, Lte!ScriptSame, Lte!script
<1>9. CASE Lte!Reload
  BY <1>0, <1>9 DEF Lte!Reload, Lte!script
<1>10. CASE Lte!StopService
  BY <1>0, <1>10 DEF Lte!StopService, Lte!script, Lte!Killed
<1>11. CASE Lte!ProcdKill
  BY <1>0, <1>11 DEF Lte!ProcdKill, Lte!Gone
<1>12. CASE Lte!StartService
  BY <1>0, <1>12 DEF Lte!StartService
<1>13. CASE Lte!Change
  BY <1>0, <1>13 DEF Lte!Change, Lte!script
<1>14. CASE Lte!Respawn
  BY <1>0, <1>14 DEF Lte!Respawn, Lte!Gone
<1>15. CASE Lte!Dies
  BY <1>0, <1>15 DEF Lte!Dies, Lte!script
<1>16. QED
  BY <1>1, <1>2, <1>3, <1>4, <1>5, <1>6, <1>7, <1>8, <1>9, <1>10, <1>11, <1>12, <1>13, <1>14, <1>15, Zenon DEF Lte!Next, Lte!Script, Lte!ResetScript, Lte!Service

LEMMA LteTypes ==
  ASSUME Lte!LteInv, Lte!Next
  PROVE  Lte!TypeOK'
<1>0. v10' \in Seq(0..MaxChanges)
  BY LtePrograms
<1> USE LteAssumption, SharedAssumption DEF Lte!TypeOK
<1>1. CASE Lte!Config
  BY <1>0, <1>1 DEF Lte!Config, Lte!ScriptSame, Lte!LteInv
<1>2. CASE Lte!StopItself
  BY <1>0, <1>2 DEF Lte!StopItself, Lte!ScriptSame, Lte!LteInv
<1>3. CASE Lte!Look
  BY <1>0, <1>3 DEF Lte!Look, Lte!ScriptSame, Lte!Found, Lte!LteInv
<1>4. CASE Lte!ResetModem
  BY <1>0, <1>4 DEF Lte!ResetModem, Lte!Resets, Lte!ScriptSame, Lte!LteInv
<1>5. CASE Lte!Launch
  BY <1>0, <1>5 DEF Lte!Launch, Lte!ScriptSame, Lte!LteInv
<1>6. CASE Lte!Sleep
  BY <1>0, <1>6 DEF Lte!Sleep, Lte!ScriptSame, Lte!LteInv
<1>7. CASE Lte!Release
  BY <1>0, <1>7 DEF Lte!Release, Lte!ScriptSame, Lte!script, Lte!LteInv
<1>8. CASE Lte!Orphaned
  BY <1>0, <1>8 DEF Lte!Orphaned, Lte!ScriptSame, Lte!script, Lte!LteInv
<1>9. CASE Lte!Reload
  BY <1>0, <1>9 DEF Lte!Reload, Lte!script, Lte!LteInv
<1>10. CASE Lte!StopService
  BY <1>0, <1>10 DEF Lte!StopService, Lte!script, Lte!Killed, Lte!LteInv
<1>11. CASE Lte!ProcdKill
  BY <1>0, <1>11 DEF Lte!ProcdKill, Lte!Gone, Lte!LteInv
<1>12. CASE Lte!StartService
  BY <1>0, <1>12 DEF Lte!StartService, Lte!LteInv
<1>13. CASE Lte!Change
  BY <1>0, <1>13 DEF Lte!Change, Lte!script, Lte!LteInv
<1>14. CASE Lte!Respawn
  BY <1>0, <1>14 DEF Lte!Respawn, Lte!Gone, Lte!LteInv
<1>15. CASE Lte!Dies
  BY <1>0, <1>15 DEF Lte!Dies, Lte!script, Lte!LteInv
<1>16. QED
  BY <1>1, <1>2, <1>3, <1>4, <1>5, <1>6, <1>7, <1>8, <1>9, <1>10, <1>11, <1>12, <1>13, <1>14, <1>15, Zenon DEF Lte!Next, Lte!Script, Lte!ResetScript, Lte!Service

LEMMA LteKeeps ==
  ASSUME Lte!LteInv, [Lte!Next]_(Lte!vars)
  PROVE  Lte!LteInv'
<1>1. CASE Lte!Next
  BY <1>1, LtePrograms, LteParts, LteTypes, Zenon DEF Lte!LteInv
<1>2. CASE UNCHANGED Lte!vars
  <2>1. UNCHANGED <<v1, v2, v3, v4, v5, v6, v7, v8, v9, v10, v11, v12, v13, v14>>
    BY <1>2, Zenon DEF Lte!vars, Lte!script
  <2>2. Lte!TypeOK'
    BY <2>1 DEF Lte!LteInv, Lte!TypeOK
  <2>3. QED
    BY <2>1, <2>2 DEF Lte!LteInv, Lte!OneProgram, Lte!CurrentSettings, Lte!Launched, Lte!Stopped,
                      Lte!Fresh, Lte!Waits
<1>3. QED
  BY <1>1, <1>2

LEMMA LteSafe ==
  ASSUME Lte!LteInv
  PROVE  Lte!OneProgram /\ Lte!CurrentSettings /\ Lte!Spared
  BY Zenon DEF Lte!LteInv, Lte!Waits, Lte!Launched, Lte!Spared
-----------------------------------------------------------------------------
(* The search. opt is v1, dev v2, at v3, pos v4, found v5, rndis v6,       *)
(* again v7, signalled v8, resets v9, late v10.                            *)

\* The options of a program, and that one of them changes.
SearchOptions == [want : 0..2, apn : BOOLEAN, alone : BOOLEAN, both : BOOLEAN,
                  mhi : {"none", "qmi", "mbim", "qrtr"}, sipa : BOOLEAN]
LEMMA SearchOptionsBut ==
  ASSUME NEW o \in SearchOptions, NEW b \in BOOLEAN, NEW w \in 0..2, NEW m \in {"none", "qmi", "mbim", "qrtr"}
  PROVE  /\ [o EXCEPT !.want = w] \in SearchOptions /\ [o EXCEPT !.apn = b] \in SearchOptions
         /\ [o EXCEPT !.alone = b] \in SearchOptions /\ [o EXCEPT !.both = b] \in SearchOptions
         /\ [o EXCEPT !.mhi = m] \in SearchOptions /\ [o EXCEPT !.sipa = b] \in SearchOptions
  BY DEF SearchOptions

LEMMA StartInit == Start!Init => Start!StartInv
<1> SUFFICES ASSUME Start!Init PROVE Start!StartInv
  OBVIOUS
<1>1. /\ v3 = [p \in Start!Program |-> "off"] /\ v4 = [p \in Start!Program |-> 1]
      /\ v5 = [p \in Start!Program |-> Start!Nothing] /\ v6 = [p \in Start!Program |-> FALSE]
      /\ v7 = [p \in Start!Program |-> FALSE] /\ v8 = [p \in Start!Program |-> FALSE]
      /\ v9 = 0 /\ v10 = [p \in Start!Program |-> FALSE]
  BY Zenon DEF Start!Init
<1>2. v2 \in [Start!Usb -> [class : Start!Class, model : Start!Model, there : 0..2]]
  BY DEF Start!Init, Start!Class, Start!Model
<1>3. Start!Options
  <2>1. PICK k \in {<<"vendor", "EC25">>, <<"mbim", "EC25">>, <<"ecm", "EC200U">>, <<"rndis", "EG915Q">>} :
          \/ v1 = [Start!Plain EXCEPT !.both = k[1] = "rndis"]
          \/ v1 = [Start!Plain EXCEPT !.want = 1] \/ v1 = [Start!Plain EXCEPT !.apn = FALSE]
          \/ v1 = [Start!Plain EXCEPT !.alone = FALSE] \/ v1 = [Start!Plain EXCEPT !.sipa = TRUE]
          \/ \E m \in {"qmi", "mbim", "qrtr"} : v1 = [Start!Plain EXCEPT !.mhi = m]
    BY Zenon DEF Start!Init
  <2>2. Start!Plain \in SearchOptions
    BY DEF Start!Plain, SearchOptions
  <2>3. /\ (k[1] = "rndis") \in BOOLEAN /\ TRUE \in BOOLEAN /\ FALSE \in BOOLEAN /\ 1 \in 0..2
        /\ \A m \in {"qmi", "mbim", "qrtr"} : m \in {"none", "qmi", "mbim", "qrtr"}
        /\ "none" \in {"none", "qmi", "mbim", "qrtr"}
    OBVIOUS
  <2>4. ASSUME \E m \in {"qmi", "mbim", "qrtr"} : v1 = [Start!Plain EXCEPT !.mhi = m]
        PROVE  v1 \in SearchOptions
    <3>1. PICK m \in {"qmi", "mbim", "qrtr"} : v1 = [Start!Plain EXCEPT !.mhi = m]
      BY <2>4
    <3>2. m \in {"none", "qmi", "mbim", "qrtr"}
      BY <3>1
    <3>3. [Start!Plain EXCEPT !.mhi = m] \in SearchOptions
      BY <2>2, <2>3, <3>2, SearchOptionsBut, Zenon
    <3>4. v1 \in SearchOptions
      BY <3>1, <3>3, Zenon
    <3>5. QED
      BY <3>4
  <2>5. v1 \in SearchOptions
    BY <2>1, <2>2, <2>3, <2>4, SearchOptionsBut, Zenon
  <2>6. QED
    BY <2>5, Zenon DEF Start!Options, SearchOptions
<1>4. Start!Nothing \in [of : 0..Start!Sipa, class : Start!Class, by : {"none", "qmi", "mbim", "at", "qrtr"},
                         port : 0..5] /\ Start!Nothing.of = 0
  BY DEF Start!Nothing, Start!Sipa, Start!Class
<1>5. Start!TypeOK
  BY <1>1, <1>2, <1>4, StartAssumption DEF Start!TypeOK, Start!Usb, Start!Program
<1>6. Start!RightModem /\ Start!Searching /\ Start!Opening
  BY <1>1, <1>4 DEF Start!RightModem, Start!Searching, Start!Opening, Start!Usb
<1>7. QED
  BY <1>3, <1>5, <1>6 DEF Start!StartInv

\* A program that has found a device has the one it was asked for, and its port for AT.
LEMMA SearchTakes ==
  ASSUME Start!StartInv, NEW p \in Start!Program, Start!Look(p)
  PROVE  /\ Start!RightModem' /\ Start!Searching'
         /\ v5' \in [Start!Program -> [of : 0..Start!Sipa, class : Start!Class,
                                       by : {"none", "qmi", "mbim", "at", "qrtr"}, port : 0..5]]
<1> DEFINE i == v4[p]
           d == v2[i]
           mine == d.there > 0 /\ d.class # "none" /\ v1.want \in {0, i}
           r == v6[p] \/ (mine /\ d.class = "rndis")
           taken == mine /\ Start!Channel(d, r)
           new == [of |-> i, class |-> d.class, by |-> Start!DriverType(d),
                   port |-> IF Start!DriverType(d) = "at" THEN Start!AtInterface(d, r) ELSE 0]
           Finding == [of : 0..Start!Sipa, class : Start!Class,
                       by : {"none", "qmi", "mbim", "at", "qrtr"}, port : 0..5]
<1>1. /\ i \in Start!Usb /\ d \in [class : Start!Class, model : Start!Model, there : 0..2]
      /\ v3 \in [Start!Program -> {"off", "look", "pcie", "scan", "kill", "open", "session", "sleep", "exit"}]
      /\ v5 \in [Start!Program -> Finding] /\ v6 \in [Start!Program -> BOOLEAN]
  BY DEF Start!StartInv, Start!TypeOK
<1>2. /\ v3[p] = "look" /\ v6' = [v6 EXCEPT ![p] = r] /\ UNCHANGED <<v1, v2>>
      /\ \/ taken /\ v5' = [v5 EXCEPT ![p] = new] /\ v3' = [v3 EXCEPT ![p] = "scan"]
         \/ v5' = v5 /\ (v3' = v3 \/ v3' = [v3 EXCEPT ![p] = "pcie"])
  BY DEF Start!Look, Start!Goto
<1>3. v5[p].of = 0
  BY <1>2 DEF Start!StartInv, Start!Searching
<1>4. taken => /\ new \in Finding /\ Start!IsModem(d) /\ v1.want \in {0, i} /\ d.class \in Start!Class
               /\ new.by = "at" /\ (r => d.class = "rndis") => new.port = Start!RightInterface(d)
  BY <1>1 DEF Start!Channel, Start!DriverType, Start!AtInterface, Start!RightInterface, Start!IsModem,
              Start!Model, Start!Class, Start!Usb, Start!Sipa
<1>5. [d EXCEPT !.class = d.class] = d
  BY <1>1
<1> HIDE DEF mine, taken, r
<1>6. CASE taken /\ v5' = [v5 EXCEPT ![p] = new] /\ v3' = [v3 EXCEPT ![p] = "scan"]
  <2>1. v5' \in [Start!Program -> Finding]
    BY <1>1, <1>4, <1>6
  <2>2. v5'[p] = new /\ v3'[p] = "scan" /\ v6'[p] = r
    BY <1>1, <1>2, <1>6
  <2>3. \A q \in Start!Program : q # p => v5'[q] = v5[q] /\ v6'[q] = v6[q] /\ v3'[q] = v3[q]
    BY <1>1, <1>2, <1>6
  <2>4. Start!Searching'
    BY <2>2, <2>3 DEF Start!StartInv, Start!Searching
  <2>5. new.of = i /\ new.class = d.class
    OBVIOUS
  <2>6. Start!RightModem'
    <3> SUFFICES ASSUME NEW q \in Start!Program, v5'[q].of \in Start!Usb
                 PROVE  /\ Start!IsModem(v2[v5'[q].of]) /\ v1.want \in {0, v5'[q].of}
                        /\ v5'[q].by = "at" /\ (v6'[q] => v5'[q].class = "rndis") =>
                             v5'[q].port = Start!RightInterface([v2[v5'[q].of] EXCEPT !.class = v5'[q].class])
      BY <1>2, Zenon DEF Start!RightModem, Start!RightInterface, Start!AtInterface, Start!IsModem
    <3>1. CASE q = p
      <4> HIDE DEF new
      <4>1. QED
        BY <1>4, <1>5, <1>6, <2>2, <2>5, <3>1
    <3>2. CASE q # p
      BY <2>3, <3>2, Zenon DEF Start!StartInv, Start!RightModem
    <3>3. QED
      BY <3>1, <3>2
  <2>7. QED
    BY <2>1, <2>4, <2>6
<1>7. CASE v5' = v5 /\ (v3' = v3 \/ v3' = [v3 EXCEPT ![p] = "pcie"])
  <2>1. \A q \in Start!Program : q # p => v6'[q] = v6[q]
    BY <1>1, <1>2
  <2>2. Start!Searching'
    BY <1>1, <1>3, <1>7 DEF Start!StartInv, Start!Searching
  <2>3. Start!RightModem'
    <3> SUFFICES ASSUME NEW q \in Start!Program, v5[q].of \in Start!Usb
                 PROVE  /\ Start!IsModem(v2[v5[q].of]) /\ v1.want \in {0, v5[q].of}
                        /\ v5[q].by = "at" /\ (v6'[q] => v5[q].class = "rndis") =>
                             v5[q].port = Start!RightInterface([v2[v5[q].of] EXCEPT !.class = v5[q].class])
      BY <1>2, <1>7, ZenonT(40) DEF Start!RightModem, Start!RightInterface, Start!AtInterface, Start!IsModem
    <3>1. q # p
      BY <1>3 DEF Start!Usb
    <3>2. QED
      BY <2>1, <3>1, Zenon DEF Start!StartInv, Start!RightModem
  <2>4. QED
    BY <1>1, <1>7, <2>2, <2>3
<1>8. QED
  BY <1>2, <1>6, <1>7


\* What a program has found stays right while nothing is found.
LEMMA FoundStays ==
  ASSUME Start!StartInv, v1' = v1, v6' = v6,
         \A i \in Start!Usb : v2'[i].model = v2[i].model
                            /\ v2'[i] \in [class : Start!Class, model : Start!Model, there : 0..2],
         \A q \in Start!Program : v5'[q] = v5[q] \/ v5'[q].of \notin Start!Usb
  PROVE  Start!RightModem'
<1> SUFFICES ASSUME NEW q \in Start!Program, v5'[q].of \in Start!Usb
             PROVE  /\ Start!IsModem(v2'[v5'[q].of]) /\ v1.want \in {0, v5'[q].of}
                    /\ v5'[q].by = "at" /\ (v6[q] => v5'[q].class = "rndis") =>
                         v5'[q].port = Start!RightInterface([v2'[v5'[q].of] EXCEPT !.class = v5'[q].class])
  BY Zenon DEF Start!RightModem, Start!RightInterface, Start!AtInterface, Start!IsModem
<1> DEFINE f == v5[q]
           d == v2[f.of]
           e == v2'[f.of]
<1>1. v5'[q] = f /\ f.of \in Start!Usb
  OBVIOUS
<1>2. /\ d \in [class : Start!Class, model : Start!Model, there : 0..2]
      /\ e \in [class : Start!Class, model : Start!Model, there : 0..2] /\ e.model = d.model
  BY <1>1 DEF Start!StartInv, Start!TypeOK
<1>3. /\ Start!IsModem(d) /\ v1.want \in {0, f.of}
      /\ f.by = "at" /\ (v6[q] => f.class = "rndis") =>
           f.port = Start!RightInterface([d EXCEPT !.class = f.class])
  BY <1>1, Zenon DEF Start!StartInv, Start!RightModem
<1> HIDE DEF d, e, f
<1>4. Start!RightInterface([e EXCEPT !.class = f.class]) = Start!RightInterface([d EXCEPT !.class = f.class])
  BY <1>2 DEF Start!RightInterface, Start!AtInterface
<1>5. Start!IsModem(e)
  BY <1>2, <1>3 DEF Start!IsModem
<1>6. QED
  BY <1>1, <1>3, <1>4, <1>5, Zenon DEF e

LEMMA OtherThan ==
  ASSUME NEW C, NEW B, NEW r \in [of : 0..4, class : C, by : B, port : 0..5], NEW i \in 0..4, NEW m \in B
  PROVE  /\ [r EXCEPT !.of = i, !.by = m] \in [of : 0..4, class : C, by : B, port : 0..5]
         /\ [r EXCEPT !.of = i, !.by = m].of = i
  OBVIOUS

\* A step finds a modem rightly or nothing.
LEMMA StartFinds ==
  ASSUME Start!StartInv, Start!Next
  PROVE  Start!RightModem' /\ Start!Searching' /\ v5' \in [Start!Program -> [of : 0..Start!Sipa, class : Start!Class, by : {"none", "qmi", "mbim", "at", "qrtr"}, port : 0..5]]
<1> DEFINE Finding == [of : 0..Start!Sipa, class : Start!Class,
                       by : {"none", "qmi", "mbim", "at", "qrtr"}, port : 0..5]
           Place == {"off", "look", "pcie", "scan", "kill", "open", "session", "sleep", "exit"}
           Dev == [class : Start!Class, model : Start!Model, there : 0..2]
<1>1. /\ v2 \in [Start!Usb -> Dev] /\ v3 \in [Start!Program -> Place] /\ v5 \in [Start!Program -> Finding]
      /\ v6 \in [Start!Program -> BOOLEAN]
  BY DEF Start!StartInv, Start!TypeOK
<1>2. Start!Nothing \in Finding /\ Start!Nothing.of = 0
  BY DEF Start!Nothing, Start!Sipa, Start!Class
<1>3. Start!Searching
  BY Zenon DEF Start!StartInv
<1>4. CASE \E p \in Start!Program : Start!Look(p)
  BY <1>4, SearchTakes
<1> DEFINE Same == v1' = v1 /\ v6' = v6 /\ v2' = v2
<1>5. ASSUME NEW p \in Start!Program, Start!Launch(p)
     PROVE  /\ Same /\ v5' \in [Start!Program -> Finding] /\ Start!Searching'
            /\ \A q \in Start!Program : v5'[q] = v5[q] \/ v5'[q].of \notin Start!Usb
  BY <1>1, <1>2, <1>3, <1>5 DEF Start!Launch, Start!Goto, Start!Searching, Start!Usb
<1>6. ASSUME NEW p \in Start!Program, Start!LookPcie(p)
     PROVE  /\ Same /\ v5' \in [Start!Program -> Finding] /\ Start!Searching'
            /\ \A q \in Start!Program : v5'[q] = v5[q] \/ v5'[q].of \notin Start!Usb
  <2> DEFINE Other(i, m) == [Start!Nothing EXCEPT !.of = i, !.by = m]
  <2>1. \A i \in {3, 4}, m \in {"qmi", "mbim", "at", "qrtr"} : Other(i, m) \in Finding /\ Other(i, m).of = i
    <3> SUFFICES ASSUME NEW i \in {3, 4}, NEW m \in {"qmi", "mbim", "at", "qrtr"}
                 PROVE  Other(i, m) \in Finding /\ Other(i, m).of = i
      BY Zenon
    <3>1. i \in 0..4 /\ m \in {"none", "qmi", "mbim", "at", "qrtr"} /\ Start!Sipa = 4
      BY DEF Start!Sipa
    <3>2. QED
      BY <1>2, <3>1, OtherThan, Zenon
  <2>2. v1.mhi # "none" => v1.mhi \in {"qmi", "mbim", "at", "qrtr"}
    BY DEF Start!StartInv, Start!Options
  <2>3. /\ v3[p] = "pcie" /\ Same
        /\ \/ /\ v1.mhi # "none" /\ v3' = [v3 EXCEPT ![p] = "scan"]
              /\ v5' = [v5 EXCEPT ![p] = Other(3, v1.mhi)]
           \/ /\ v3' = [v3 EXCEPT ![p] = "scan"]
              /\ v5' = [v5 EXCEPT ![p] = Other(4, "at")]
           \/ v3' \in {[v3 EXCEPT ![p] = "sleep"], [v3 EXCEPT ![p] = "exit"]} /\ v5' = v5
    BY <1>6 DEF Start!LookPcie, Start!Goto, Start!Pcie, Start!Sipa
  <2> HIDE DEF Other
  <2>4. CASE v5' = v5
    BY <1>1, <1>3, <2>3, <2>4 DEF Start!Searching, Start!Usb
  <2>5. ASSUME NEW f \in Finding, f.of \in {3, 4}, v5' = [v5 EXCEPT ![p] = f], v3' = [v3 EXCEPT ![p] = "scan"]
        PROVE  /\ v5' \in [Start!Program -> Finding] /\ Start!Searching'
               /\ \A q \in Start!Program : v5'[q] = v5[q] \/ v5'[q].of \notin Start!Usb
    <3>1. v5' \in [Start!Program -> Finding]
      BY <1>1, <2>5
    <3>2. Start!Searching'
      BY <1>1, <1>3, <2>5 DEF Start!Searching
    <3>3. QED
      BY <1>1, <2>5, <3>1, <3>2 DEF Start!Usb
  <2>6. QED
    BY <2>1, <2>2, <2>3, <2>4, <2>5
<1>7. ASSUME NEW p \in Start!Program, Start!Scan(p)
     PROVE  /\ Same /\ v5' \in [Start!Program -> Finding] /\ Start!Searching'
            /\ \A q \in Start!Program : v5'[q] = v5[q] \/ v5'[q].of \notin Start!Usb
  BY <1>1, <1>2, <1>3, <1>7 DEF Start!Scan, Start!Goto, Start!Searching, Start!Usb
<1>8. ASSUME NEW p \in Start!Program, Start!Term(p)
     PROVE  /\ Same /\ v5' \in [Start!Program -> Finding] /\ Start!Searching'
            /\ \A q \in Start!Program : v5'[q] = v5[q] \/ v5'[q].of \notin Start!Usb
  BY <1>1, <1>2, <1>3, <1>8 DEF Start!Term, Start!Goto, Start!Searching, Start!Usb
<1>9. ASSUME NEW p \in Start!Program, Start!Kill(p)
     PROVE  /\ Same /\ v5' \in [Start!Program -> Finding] /\ Start!Searching'
            /\ \A q \in Start!Program : v5'[q] = v5[q] \/ v5'[q].of \notin Start!Usb
  BY <1>1, <1>2, <1>3, <1>9 DEF Start!Kill, Start!Goto, Start!Searching, Start!Usb
<1>10. ASSUME NEW p \in Start!Program, Start!Killed(p)
     PROVE  /\ Same /\ v5' \in [Start!Program -> Finding] /\ Start!Searching'
            /\ \A q \in Start!Program : v5'[q] = v5[q] \/ v5'[q].of \notin Start!Usb
  BY <1>1, <1>2, <1>3, <1>10 DEF Start!Killed, Start!Goto, Start!Searching, Start!Usb
<1>11. ASSUME NEW p \in Start!Program, Start!Open(p)
     PROVE  /\ Same /\ v5' \in [Start!Program -> Finding] /\ Start!Searching'
            /\ \A q \in Start!Program : v5'[q] = v5[q] \/ v5'[q].of \notin Start!Usb
  <2>1. /\ v3[p] = "open" /\ Same
        /\ \/ v3' = [v3 EXCEPT ![p] = "exit"] /\ v5' = [v5 EXCEPT ![p] = Start!Nothing]
           \/ v3' = [v3 EXCEPT ![p] = "session"] /\ v5' = v5
    BY <1>11 DEF Start!Open, Start!Goto
  <2>2. CASE v5' = v5 /\ v3' = [v3 EXCEPT ![p] = "session"]
    BY <1>1, <1>3, <2>1, <2>2 DEF Start!Searching
  <2>3. CASE v5' = [v5 EXCEPT ![p] = Start!Nothing] /\ v3' = [v3 EXCEPT ![p] = "exit"]
    <3>1. v5' \in [Start!Program -> Finding]
      BY <1>1, <1>2, <2>3
    <3>2. Start!Searching'
      BY <1>1, <1>3, <2>3 DEF Start!Searching
    <3>3. QED
      BY <1>1, <1>2, <2>1, <2>3, <3>1, <3>2 DEF Start!Usb
  <2>4. QED
    BY <2>1, <2>2, <2>3
<1>12. ASSUME NEW p \in Start!Program, Start!HangUp(p)
     PROVE  /\ Same /\ v5' \in [Start!Program -> Finding] /\ Start!Searching'
            /\ \A q \in Start!Program : v5'[q] = v5[q] \/ v5'[q].of \notin Start!Usb
  BY <1>1, <1>2, <1>3, <1>12 DEF Start!HangUp, Start!Goto, Start!Searching, Start!Usb
<1>13. ASSUME NEW p \in Start!Program, Start!Wake(p)
     PROVE  /\ Same /\ v5' \in [Start!Program -> Finding] /\ Start!Searching'
            /\ \A q \in Start!Program : v5'[q] = v5[q] \/ v5'[q].of \notin Start!Usb
  BY <1>1, <1>2, <1>3, <1>13 DEF Start!Wake, Start!Goto, Start!Searching, Start!Usb
<1>14. ASSUME NEW p \in Start!Program, Start!Stop(p)
     PROVE  /\ Same /\ v5' \in [Start!Program -> Finding] /\ Start!Searching'
            /\ \A q \in Start!Program : v5'[q] = v5[q] \/ v5'[q].of \notin Start!Usb
  BY <1>1, <1>2, <1>3, <1>14 DEF Start!Stop, Start!Goto, Start!Searching, Start!Usb
<1>15. ASSUME NEW i \in Start!Usb, Start!Probe(i)
     PROVE  /\ v1' = v1 /\ v6' = v6 /\ v5' = v5 /\ v3' = v3 /\ v2' \in [Start!Usb -> Dev]
            /\ \A j \in Start!Usb : v2'[j].model = v2[j].model
  BY <1>1, <1>15 DEF Start!Probe, Start!programs
<1>16. ASSUME NEW i \in Start!Usb, Start!Gone(i)
     PROVE  /\ v1' = v1 /\ v6' = v6 /\ v5' = v5 /\ v3' = v3 /\ v2' \in [Start!Usb -> Dev]
            /\ \A j \in Start!Usb : v2'[j].model = v2[j].model
  BY <1>1, <1>16 DEF Start!Gone, Start!programs
<1>17. CASE \E i \in Start!Usb : Start!Probe(i) \/ Start!Gone(i)
  <2>1. /\ v1' = v1 /\ v6' = v6 /\ v5' = v5 /\ v3' = v3 /\ v2' \in [Start!Usb -> Dev]
        /\ \A j \in Start!Usb : v2'[j].model = v2[j].model
    BY <1>15, <1>16, <1>17, Zenon
  <2>2. Start!RightModem'
    BY <2>1, FoundStays
  <2>3. QED
    BY <1>1, <1>3, <2>1, <2>2 DEF Start!Searching
<1>18. CASE \E p \in Start!Program : Start!Launch(p) \/ Start!LookPcie(p) \/ Start!Scan(p) \/ Start!Term(p) \/ Start!Kill(p) \/ Start!Killed(p) \/ Start!Open(p) \/ Start!HangUp(p) \/ Start!Wake(p) \/ Start!Stop(p)
  <2>1. /\ Same /\ v5' \in [Start!Program -> Finding] /\ Start!Searching'
        /\ \A q \in Start!Program : v5'[q] = v5[q] \/ v5'[q].of \notin Start!Usb
    BY <1>5, <1>6, <1>7, <1>8, <1>9, <1>10, <1>11, <1>12, <1>13, <1>14, <1>18, Zenon
  <2>2. Start!RightModem'
    BY <1>1, <2>1, FoundStays
  <2>3. QED
    BY <2>1, <2>2
<1>19. QED
  BY <1>4, <1>17, <1>18, Zenon DEF Start!Next, Start!Runs, Start!Run

LEMMA StartTypes ==
  ASSUME Start!StartInv, Start!Next
  PROVE  Start!TypeOK' /\ Start!Options'
<1> DEFINE Place == {"off", "look", "pcie", "scan", "kill", "open", "session", "sleep", "exit"}
           Dev == [class : Start!Class, model : Start!Model, there : 0..2]
           Rest == /\ v3' \in [Start!Program -> Place] /\ v4' \in [Start!Program -> Start!Usb]
                   /\ v6' \in [Start!Program -> BOOLEAN]
           Flags == /\ v7' \in [Start!Program -> BOOLEAN] /\ v8' \in [Start!Program -> BOOLEAN]
                    /\ v10' \in [Start!Program -> BOOLEAN]
<1>1. /\ v2 \in [Start!Usb -> Dev] /\ v3 \in [Start!Program -> Place] /\ v4 \in [Start!Program -> Start!Usb]
      /\ v6 \in [Start!Program -> BOOLEAN] /\ v7 \in [Start!Program -> BOOLEAN]
      /\ v8 \in [Start!Program -> BOOLEAN] /\ v10 \in [Start!Program -> BOOLEAN] /\ v9 \in 0..MaxResets
      /\ 1 \in Start!Usb /\ 2 \in Start!Usb /\ TRUE \in BOOLEAN /\ FALSE \in BOOLEAN
  BY DEF Start!StartInv, Start!TypeOK, Start!Usb
<1>2. ASSUME NEW p \in Start!Program, NEW f \in [Start!Program -> BOOLEAN], NEW b \in BOOLEAN
      PROVE  [f EXCEPT ![p] = b] \in [Start!Program -> BOOLEAN]
  OBVIOUS
<1>3. ASSUME NEW p \in Start!Program, Start!Launch(p)
     PROVE  Rest /\ Flags /\ UNCHANGED <<v1, v2, v9>>
  <2>1. UNCHANGED <<v1, v2, v9>>
    BY <1>3, Zenon DEF Start!Launch
  <2>2. UNCHANGED <<v6, v7, v8, v10>>
    BY <1>3, Zenon DEF Start!Launch
  <2>3. v3' \in [Start!Program -> Place] /\ v4' \in [Start!Program -> Start!Usb]
    BY <1>1, <1>3 DEF Start!Launch, Start!Goto
  <2>4. QED
    BY <1>1, <2>1, <2>2, <2>3, Zenon
<1>4. ASSUME NEW p \in Start!Program, Start!Look(p)
     PROVE  Rest /\ Flags /\ UNCHANGED <<v1, v2, v9>>
  <2>1. UNCHANGED <<v1, v2, v9>>
    BY <1>4, Zenon DEF Start!Look
  <2>2. UNCHANGED <<v7, v8, v10>>
    BY <1>4, Zenon DEF Start!Look
  <2>3. v3' \in [Start!Program -> Place] /\ v4' \in [Start!Program -> Start!Usb]
    BY <1>1, <1>4 DEF Start!Look, Start!Goto
  <2>4. PICK b \in BOOLEAN : v6' = [v6 EXCEPT ![p] = b]
    <3>1. (v6[p] \/ ((v2[v4[p]].there > 0 /\ v2[v4[p]].class # "none" /\ v1.want \in {0, v4[p]})
                       /\ v2[v4[p]].class = "rndis")) \in BOOLEAN
      OBVIOUS
    <3>2. QED
      BY <1>4, <3>1, Zenon DEF Start!Look
  <2>5. v6' \in [Start!Program -> BOOLEAN]
    BY <1>1, <1>2, <2>4, Zenon
  <2>6. QED
    BY <1>1, <2>1, <2>2, <2>3, <2>4, <2>5, Zenon
<1>5. ASSUME NEW p \in Start!Program, Start!LookPcie(p)
     PROVE  Rest /\ Flags /\ UNCHANGED <<v1, v2, v9>>
  <2>1. UNCHANGED <<v1, v2, v9>>
    BY <1>5, Zenon DEF Start!LookPcie
  <2>2. UNCHANGED <<v4, v6, v7, v8, v10>>
    BY <1>5, Zenon DEF Start!LookPcie
  <2>3. v3' \in [Start!Program -> Place]
    BY <1>1, <1>5 DEF Start!LookPcie, Start!Goto
  <2>4. QED
    BY <1>1, <2>1, <2>2, <2>3, Zenon
<1>6. ASSUME NEW p \in Start!Program, Start!Scan(p)
     PROVE  Rest /\ Flags /\ UNCHANGED <<v1, v2, v9>>
  <2>1. UNCHANGED <<v1, v2, v9>>
    BY <1>6, Zenon DEF Start!Scan
  <2>2. UNCHANGED <<v4, v6, v8, v10>>
    BY <1>6, Zenon DEF Start!Scan
  <2>3. v3' \in [Start!Program -> Place]
    BY <1>1, <1>6 DEF Start!Scan, Start!Goto
  <2>4. v7' \in [Start!Program -> BOOLEAN]
    BY <1>1, <1>2, <1>6, ZenonT(40) DEF Start!Scan
  <2>5. QED
    BY <1>1, <2>1, <2>2, <2>3, <2>4, Zenon
<1>7. ASSUME NEW p \in Start!Program, Start!Term(p)
     PROVE  Rest /\ Flags /\ UNCHANGED <<v1, v2, v9>>
  <2>1. UNCHANGED <<v1, v2, v9>>
    BY <1>7, Zenon DEF Start!Term
  <2>2. UNCHANGED <<v4, v6, v10>>
    BY <1>7, Zenon DEF Start!Term
  <2>3. v3' \in [Start!Program -> Place]
    BY <1>1, <1>7 DEF Start!Term, Start!Goto
  <2>4. v7' \in [Start!Program -> BOOLEAN] /\ v8' \in [Start!Program -> BOOLEAN]
    BY <1>1, <1>2, <1>7, Zenon DEF Start!Term
  <2>5. QED
    BY <1>1, <2>1, <2>2, <2>3, <2>4, Zenon
<1>8. ASSUME NEW p \in Start!Program, Start!Kill(p)
     PROVE  Rest /\ Flags /\ UNCHANGED <<v1, v2, v9>>
  <2>1. UNCHANGED <<v1, v2, v9>>
    BY <1>8, Zenon DEF Start!Kill
  <2>2. UNCHANGED <<v4, v6, v7, v8, v10>>
    BY <1>8, Zenon DEF Start!Kill
  <2>3. v3' \in [Start!Program -> Place]
    BY <1>1, <1>8 DEF Start!Kill, Start!Goto
  <2>4. QED
    BY <1>1, <2>1, <2>2, <2>3, Zenon
<1>9. ASSUME NEW p \in Start!Program, Start!Killed(p)
     PROVE  Rest /\ Flags /\ UNCHANGED <<v1, v2, v9>>
  <2>1. UNCHANGED <<v1, v2, v9>>
    BY <1>9, Zenon DEF Start!Killed
  <2>2. UNCHANGED <<v4, v6, v7, v8, v10>>
    BY <1>9, Zenon DEF Start!Killed
  <2>3. v3' \in [Start!Program -> Place]
    BY <1>1, <1>9 DEF Start!Killed, Start!Goto
  <2>4. QED
    BY <1>1, <2>1, <2>2, <2>3, Zenon
<1>10. ASSUME NEW p \in Start!Program, Start!Open(p)
     PROVE  Rest /\ Flags /\ UNCHANGED <<v1, v2, v9>>
  <2>1. UNCHANGED <<v1, v2, v9>>
    BY <1>10, Zenon DEF Start!Open
  <2>2. UNCHANGED <<v4, v6, v7, v8>>
    BY <1>10, Zenon DEF Start!Open
  <2>3. v3' \in [Start!Program -> Place]
    BY <1>1, <1>10 DEF Start!Open, Start!Goto
  <2>4. v10' \in [Start!Program -> BOOLEAN]
    <3>1. (\E q \in Start!Program : q > p /\ v3[q] \in {"kill", "open", "session"}) \in BOOLEAN
      OBVIOUS
    <3>2. QED
      BY <1>1, <1>2, <1>10, <3>1, Zenon DEF Start!Open
  <2>5. QED
    BY <1>1, <2>1, <2>2, <2>3, <2>4, Zenon
<1>11. ASSUME NEW p \in Start!Program, Start!HangUp(p)
     PROVE  Rest /\ Flags /\ UNCHANGED <<v1, v2, v9>>
  <2>1. UNCHANGED <<v1, v2, v9>>
    BY <1>11, Zenon DEF Start!HangUp
  <2>2. UNCHANGED <<v4, v6, v10>>
    BY <1>11, Zenon DEF Start!HangUp
  <2>3. v3' \in [Start!Program -> Place]
    BY <1>1, <1>11 DEF Start!HangUp, Start!Goto
  <2>4. v7' \in [Start!Program -> BOOLEAN]
    BY <1>1, <1>2, <1>11, Zenon DEF Start!HangUp
  <2>5. v8' \in [Start!Program -> BOOLEAN]
    BY <1>1, <1>2, <1>11, Zenon DEF Start!HangUp
  <2>6. QED
    BY <1>1, <2>1, <2>2, <2>3, <2>4, <2>5, Zenon
<1>12. ASSUME NEW p \in Start!Program, Start!Wake(p)
     PROVE  Rest /\ Flags /\ UNCHANGED <<v1, v2, v9>>
  <2>1. UNCHANGED <<v1, v2, v9>>
    BY <1>12, Zenon DEF Start!Wake
  <2>2. UNCHANGED <<v6, v7, v8, v10>>
    BY <1>12, Zenon DEF Start!Wake
  <2>3. v3' \in [Start!Program -> Place] /\ v4' \in [Start!Program -> Start!Usb]
    BY <1>1, <1>12 DEF Start!Wake, Start!Goto
  <2>4. QED
    BY <1>1, <2>1, <2>2, <2>3, Zenon
<1>13. ASSUME NEW p \in Start!Program, Start!Stop(p)
     PROVE  Rest /\ Flags /\ UNCHANGED <<v1, v2, v9>>
  <2>1. UNCHANGED <<v1, v2, v9>>
    BY <1>13, Zenon DEF Start!Stop
  <2>2. UNCHANGED <<v4, v6, v7, v8, v10>>
    BY <1>13, Zenon DEF Start!Stop
  <2>3. v3' \in [Start!Program -> Place]
    BY <1>1, <1>13 DEF Start!Stop, Start!Goto
  <2>4. QED
    BY <1>1, <2>1, <2>2, <2>3, Zenon
<1>14. ASSUME NEW i \in Start!Usb, Start!Probe(i) \/ Start!Gone(i)
     PROVE  v2' \in [Start!Usb -> Dev] /\ v9' \in 0..MaxResets /\ UNCHANGED <<v1, v3, v4, v6, v7, v8, v10>>
  <2>1. UNCHANGED <<v1, v3, v4, v6, v7, v8, v10>>
    BY <1>14, Zenon DEF Start!Probe, Start!Gone, Start!programs
  <2>2. CASE Start!Probe(i)
    <3>1. v2' \in [Start!Usb -> Dev]
      BY <1>1, <2>2 DEF Start!Probe
    <3>2. QED
      BY <1>1, <2>1, <2>2, <3>1, Zenon DEF Start!Probe
  <2>3. CASE Start!Gone(i)
    <3>1. v2' \in [Start!Usb -> Dev]
      BY <1>1, <2>3, SMTT(30) DEF Start!Gone
    <3>2. v9' = v9 + 1 /\ v9 < MaxResets
      BY <2>3, Zenon DEF Start!Gone
    <3>3. v9' \in 0..MaxResets
      BY <1>1, <3>2, StartAssumption
    <3>4. QED
      BY <2>1, <3>1, <3>3
  <2>4. QED
    BY <1>14, <2>2, <2>3
<1>15. Rest /\ Flags /\ v1' = v1 /\ v2' \in [Start!Usb -> Dev] /\ v9' \in 0..MaxResets
  <2>1. CASE \E p \in Start!Program : Start!Launch(p) \/ Start!Look(p) \/ Start!LookPcie(p) \/ Start!Scan(p) \/ Start!Term(p) \/ Start!Kill(p) \/ Start!Killed(p) \/ Start!Open(p) \/ Start!HangUp(p) \/ Start!Wake(p) \/ Start!Stop(p)
    BY <1>1, <1>3, <1>4, <1>5, <1>6, <1>7, <1>8, <1>9, <1>10, <1>11, <1>12, <1>13, <2>1, Zenon
  <2>2. CASE \E i \in Start!Usb : Start!Probe(i) \/ Start!Gone(i)
    BY <1>1, <1>14, <2>2, Zenon
  <2>3. QED
    BY <2>1, <2>2, Zenon DEF Start!Next, Start!Runs, Start!Run
<1>16. QED
  BY <1>15, StartFinds, Zenon DEF Start!StartInv, Start!TypeOK, Start!Options

\* The older of two that have the same channel open counts as late.
LEMMA StartOpens ==
  ASSUME Start!StartInv, Start!Next
  PROVE  Start!Opening'
<1>1. /\ v3 \in [Start!Program -> {"off", "look", "pcie", "scan", "kill", "open", "session", "sleep", "exit"}]
      /\ DOMAIN v5 = Start!Program /\ v10 \in [Start!Program -> BOOLEAN]
  BY DEF Start!StartInv, Start!TypeOK
<1>2. Start!Opening
  BY Zenon DEF Start!StartInv
<1> USE DEF Start!Opening, Start!Holds
<1>3. ASSUME NEW p \in Start!Program, Start!Launch(p) PROVE Start!Opening'
  BY <1>1, <1>2, <1>3 DEF Start!Launch, Start!Goto, Start!Program
<1>4. ASSUME NEW p \in Start!Program, Start!Look(p) PROVE Start!Opening'
  BY <1>1, <1>2, <1>4 DEF Start!Look, Start!Goto, Start!Program
<1>5. ASSUME NEW p \in Start!Program, Start!LookPcie(p) PROVE Start!Opening'
  BY <1>1, <1>2, <1>5 DEF Start!LookPcie, Start!Goto, Start!Program
<1>6. ASSUME NEW p \in Start!Program, Start!Scan(p) PROVE Start!Opening'
  BY <1>1, <1>2, <1>6 DEF Start!Scan, Start!Goto, Start!Program, Start!Brothers
<1>7. ASSUME NEW p \in Start!Program, Start!Term(p) PROVE Start!Opening'
  BY <1>1, <1>2, <1>7 DEF Start!Term, Start!Goto, Start!Program
<1>8. ASSUME NEW p \in Start!Program, Start!Kill(p) PROVE Start!Opening'
  BY <1>1, <1>2, <1>8 DEF Start!Kill, Start!Goto, Start!Program
<1>9. ASSUME NEW p \in Start!Program, Start!Killed(p) PROVE Start!Opening'
  BY <1>1, <1>2, <1>9 DEF Start!Killed, Start!Goto, Start!Program
<1>10. ASSUME NEW p \in Start!Program, Start!Open(p) PROVE Start!Opening'
  BY <1>1, <1>2, <1>10 DEF Start!Open, Start!Goto, Start!Program
<1>11. ASSUME NEW p \in Start!Program, Start!HangUp(p) PROVE Start!Opening'
  BY <1>1, <1>2, <1>11 DEF Start!HangUp, Start!Goto, Start!Program
<1>12. ASSUME NEW p \in Start!Program, Start!Wake(p) PROVE Start!Opening'
  BY <1>1, <1>2, <1>12 DEF Start!Wake, Start!Goto, Start!Program
<1>13. ASSUME NEW p \in Start!Program, Start!Stop(p) PROVE Start!Opening'
  BY <1>1, <1>2, <1>13 DEF Start!Stop, Start!Goto, Start!Program
<1>14. ASSUME NEW i \in Start!Usb, Start!Probe(i) \/ Start!Gone(i) PROVE Start!Opening'
  <2>1. UNCHANGED <<v1, v3, v5, v10>>
    BY <1>14, Zenon DEF Start!Probe, Start!Gone, Start!programs
  <2>2. QED
    BY <1>2, <2>1
<1>15. QED
  BY <1>3, <1>4, <1>5, <1>6, <1>7, <1>8, <1>9, <1>10, <1>11, <1>12, <1>13, <1>14, Zenon DEF Start!Next, Start!Runs, Start!Run

LEMMA StartKeeps ==
  ASSUME Start!StartInv, [Start!Next]_(Start!vars)
  PROVE  Start!StartInv'
<1>1. CASE Start!Next
  BY <1>1, StartFinds, StartTypes, StartOpens, Zenon DEF Start!StartInv
<1>2. CASE UNCHANGED Start!vars
  <2>1. UNCHANGED <<v1, v2, v3, v4, v5, v6, v7, v8, v9, v10>>
    BY <1>2, Zenon DEF Start!vars, Start!programs
  <2>2. Start!TypeOK' /\ Start!Options'
    BY <2>1, Zenon DEF Start!StartInv, Start!TypeOK, Start!Options
  <2>3. Start!Searching' /\ Start!Opening'
    BY <2>1, Zenon DEF Start!StartInv, Start!Searching, Start!Opening, Start!Holds
  <2>4. Start!RightModem'
    BY <2>1, Zenon DEF Start!StartInv, Start!RightModem, Start!RightInterface, Start!AtInterface, Start!IsModem
  <2>5. QED
    BY <2>2, <2>3, <2>4, Zenon DEF Start!StartInv
<1>3. QED
  BY <1>1, <1>2

LEMMA StartSafe ==
  ASSUME Start!StartInv
  PROVE  Start!RightModem /\ Start!OneUser
  BY Zenon DEF Start!StartInv, Start!Opening, Start!OneUser, Start!Holds
-----------------------------------------------------------------------------
(* The card of a call. opt is v1, pc v2, call v3, lease v4, card v5,       *)
(* usbUp v6, linkOn v7, raw v8, resolv v9, kept v10, calls v11, faults     *)
(* v12, crossed v13, raced v14, full v15.                                  *)

\* Where a program may be, and what a card is.
Steps4 == {"idle", "on", "usb", "up", "bridge", "lease", "rawip", "again",
           "static", "ipv6", "off", "last", "usbdown", "flush",
           "read4", "write4", "read6", "write6", "reread6", "rewrite6"}
CardRecord == [up : BOOLEAN, v4 : Addr \cup {0}, v6 : {0, 1}, bridge : Addr \cup {0}]

\* How the steps are reached.
LEMMA CardReached ==
  ASSUME Card!CardInv, NEW p \in Card!Program, Card!LinkChange(p) \/ Card!Start(p) \/ Card!Stop(p)
  PROVE  Card!Reached' /\ v2' \in [Card!Program -> Steps4] /\ v1' = v1
<1>1. v2 \in [Card!Program -> Steps4] /\ v3 \in [Card!Program -> Card!Call]
  BY Zenon DEF Card!CardInv, Card!TypeOK, Steps4
<1>2. Card!Reached /\ Card!Options
  BY Zenon DEF Card!CardInv
<1> USE DEF Card!Reached, Card!Trying, Card!Writing4, Card!Writing6, Steps4
<1>3. CASE Card!LinkChange(p)
  BY <1>1, <1>2, <1>3 DEF Card!LinkChange, Card!Goto, Card!cards, Card!dns
<1>4. CASE Card!LinkStateOn(p)
  BY <1>1, <1>2, <1>4 DEF Card!LinkStateOn, Card!Goto, Card!dns
<1>5. CASE Card!UsbCardUp(p)
  BY <1>1, <1>2, <1>5 DEF Card!UsbCardUp, Card!Goto, Card!dns, Card!Down
<1>6. CASE Card!CardUp(p)
  BY <1>1, <1>2, <1>6 DEF Card!CardUp, Card!Goto, Card!dns
<1>7. CASE Card!BridgeMode(p)
  BY <1>1, <1>2, <1>7 DEF Card!BridgeMode, Card!Goto, Card!dns
<1>8. CASE Card!Dhcp(p)
  BY <1>1, <1>2, <1>8 DEF Card!Dhcp, Card!Goto, Card!dns, Card!Udhcpc
<1>9. CASE Card!RawIpModeCheck(p)
  BY <1>1, <1>2, <1>9 DEF Card!RawIpModeCheck, Card!Goto, Card!dns, Card!Down
<1>10. CASE Card!DhcpAgain(p)
  BY <1>1, <1>2, <1>10 DEF Card!DhcpAgain, Card!Goto, Card!dns, Card!Udhcpc
<1>11. CASE Card!Static(p)
  BY <1>1, <1>2, <1>11 DEF Card!Static, Card!Goto, Card!dns, Card!SetIpv4
<1>12. CASE Card!Ipv6(p)
  BY <1>1, <1>2, <1>12 DEF Card!Ipv6, Card!Goto, Card!dns, Card!SetIpv6
<1>13. CASE Card!ReadResolv(p)
  BY <1>1, <1>2, <1>13 DEF Card!ReadResolv, Card!Goto, Card!cards, Card!Remember, Card!Update
<1>14. CASE Card!WriteResolv(p)
  BY <1>1, <1>2, <1>14 DEF Card!WriteResolv, Card!Goto, Card!cards, Card!Update, Card!LineOf
<1>15. CASE Card!LinkStateOff(p)
  BY <1>1, <1>2, <1>15 DEF Card!LinkStateOff, Card!Goto, Card!dns
<1>16. CASE Card!LastLink(p)
  BY <1>1, <1>2, <1>16 DEF Card!LastLink, Card!Goto, Card!cards, Card!dns
<1>17. CASE Card!UsbCardDown(p)
  BY <1>1, <1>2, <1>17 DEF Card!UsbCardDown, Card!Goto, Card!dns
<1>18. CASE Card!Flush(p)
  BY <1>1, <1>2, <1>18 DEF Card!Flush, Card!Goto, Card!dns, Card!Down
<1>19. QED
  BY <1>3, <1>4, <1>5, <1>6, <1>7, <1>8, <1>9, <1>10, <1>11, <1>12, <1>13, <1>14, <1>15, <1>16, <1>17, <1>18, Zenon DEF Card!Start, Card!Stop

\* The driver has the link of a call on, and the USB card is up.
LEMMA CardLinks ==
  ASSUME Card!CardInv, NEW p \in Card!Program, Card!LinkChange(p) \/ Card!Start(p) \/ Card!Stop(p)
  PROVE  Card!LinkOf'
<1>1. v2 \in [Card!Program -> Steps4] /\ v3 \in [Card!Program -> Card!Call] /\ v7 \subseteq Card!Program
  BY Zenon DEF Card!CardInv, Card!TypeOK, Steps4
<1>2. Card!Reached /\ Card!LinkOf
  BY Zenon DEF Card!CardInv
<1> USE DEF Card!Reached
<1> USE DEF Card!LinkOf, Card!IsUp, Card!Done, Card!None, Card!Trying, Card!Writing4, Card!Writing6, Steps4
<1>3. CASE Card!LinkChange(p)
  BY <1>1, <1>2, <1>3 DEF Card!LinkChange, Card!Goto, Card!cards, Card!dns
<1>4. CASE Card!LinkStateOn(p)
  BY <1>1, <1>2, <1>4 DEF Card!LinkStateOn, Card!Goto, Card!dns
<1>5. CASE Card!UsbCardUp(p)
  BY <1>1, <1>2, <1>5 DEF Card!UsbCardUp, Card!Goto, Card!dns, Card!Down
<1>6. CASE Card!CardUp(p)
  BY <1>1, <1>2, <1>6 DEF Card!CardUp, Card!Goto, Card!dns
<1>7. CASE Card!BridgeMode(p)
  BY <1>1, <1>2, <1>7 DEF Card!BridgeMode, Card!Goto, Card!dns
<1>8. CASE Card!Dhcp(p)
  BY <1>1, <1>2, <1>8 DEF Card!Dhcp, Card!Goto, Card!dns, Card!Udhcpc
<1>9. CASE Card!RawIpModeCheck(p)
  BY <1>1, <1>2, <1>9 DEF Card!RawIpModeCheck, Card!Goto, Card!dns, Card!Down
<1>10. CASE Card!DhcpAgain(p)
  BY <1>1, <1>2, <1>10 DEF Card!DhcpAgain, Card!Goto, Card!dns, Card!Udhcpc
<1>11. CASE Card!Static(p)
  BY <1>1, <1>2, <1>11 DEF Card!Static, Card!Goto, Card!dns, Card!SetIpv4
<1>12. CASE Card!Ipv6(p)
  BY <1>1, <1>2, <1>12 DEF Card!Ipv6, Card!Goto, Card!dns, Card!SetIpv6
<1>13. CASE Card!ReadResolv(p)
  BY <1>1, <1>2, <1>13 DEF Card!ReadResolv, Card!Goto, Card!cards, Card!Remember, Card!Update
<1>14. CASE Card!WriteResolv(p)
  BY <1>1, <1>2, <1>14 DEF Card!WriteResolv, Card!Goto, Card!cards, Card!Update, Card!LineOf
<1>15. CASE Card!LinkStateOff(p)
  BY <1>1, <1>2, <1>15 DEF Card!LinkStateOff, Card!Goto, Card!dns
<1>16. CASE Card!LastLink(p)
  BY <1>1, <1>2, <1>16 DEF Card!LastLink, Card!Goto, Card!cards, Card!dns
<1>17. CASE Card!UsbCardDown(p)
  BY <1>1, <1>2, <1>17 DEF Card!UsbCardDown, Card!Goto, Card!dns
<1>18. CASE Card!Flush(p)
  BY <1>1, <1>2, <1>18 DEF Card!Flush, Card!Goto, Card!dns, Card!Down
<1>19. QED
  BY <1>3, <1>4, <1>5, <1>6, <1>7, <1>8, <1>9, <1>10, <1>11, <1>12, <1>13, <1>14, <1>15, <1>16, <1>17, <1>18, Zenon DEF Card!Start, Card!Stop

\* The DHCP client changes the IPv4 address of its card at most.
LEMMA LeaseTaken ==
  ASSUME NEW p \in Card!Program, v5 \in [Card!Program -> CardRecord], Card!Udhcpc(p),
         v3 \in [Card!Program -> Card!Call]
  PROVE  /\ v5'[p].up = v5[p].up /\ v5'[p].v6 = v5[p].v6 /\ v5'[p].bridge = v5[p].bridge
         /\ \A q \in Card!Program : q # p => v5'[q] = v5[q]
         /\ v5' \in [Card!Program -> CardRecord]
<1>1. PICK a \in Addr \cup {0} : v5' = v5 \/ v5' = [v5 EXCEPT ![p].v4 = a]
  <2>1. v3[p].v4 \in Addr \cup {0} /\ 0 \in Addr \cup {0}
    BY DEF Card!Call
  <2>2. QED
    BY <2>1 DEF Card!Udhcpc
<1>2. QED
  BY <1>1 DEF CardRecord

\* A card goes down, and up again.
LEMMA CardUpAgain ==
  ASSUME NEW c \in CardRecord
  PROVE  /\ Card!Down(c) \in CardRecord /\ [Card!Down(c) EXCEPT !.up = TRUE] \in CardRecord
         /\ [Card!Down(c) EXCEPT !.up = TRUE].up
<1>1. ASSUME NEW d \in CardRecord, NEW b \in BOOLEAN
      PROVE  [d EXCEPT !.up = b] \in CardRecord /\ [d EXCEPT !.up = b].up = b
  BY DEF CardRecord
<1>2. ASSUME NEW d \in CardRecord PROVE [d EXCEPT !.v6 = 0] \in CardRecord
  BY DEF CardRecord
<1>3. TRUE \in BOOLEAN /\ FALSE \in BOOLEAN
  OBVIOUS
<1>4. Card!Down(c) \in CardRecord
  <2>1. Card!Down(c) = [[c EXCEPT !.up = FALSE] EXCEPT !.v6 = 0]
    BY DEF Card!Down, CardRecord
  <2>2. QED
    BY <1>1, <1>2, <1>3, <2>1, Zenon
<1>5. QED
  BY <1>1, <1>3, <1>4, Zenon

\* The card has the addresses of the call.
LEMMA CardAddresses ==
  ASSUME Card!CardInv, NEW p \in Card!Program, Card!LinkChange(p) \/ Card!Start(p) \/ Card!Stop(p)
  PROVE  Card!CardOf'
<1>1. v2 \in [Card!Program -> Steps4] /\ v3 \in [Card!Program -> Card!Call] /\ v4 \in [Card!Program -> Addr \cup {0}]
      /\ v5 \in [Card!Program -> CardRecord]
  BY Zenon DEF Card!CardInv, Card!TypeOK, Steps4, CardRecord
<1>2. Card!Reached /\ Card!CardOf
  BY Zenon DEF Card!CardInv
<1> USE DEF Card!Reached
<1> USE DEF Card!CardOf, Card!IsUp, Card!HasV4, Card!HasV6, Card!Done, Card!None, Card!Trying, Card!Writing4, Card!Writing6, Steps4
<1>3. CASE Card!LinkChange(p)
  BY <1>1, <1>2, <1>3 DEF Card!LinkChange, Card!Goto, Card!cards, Card!dns
<1>4. CASE Card!LinkStateOn(p)
  BY <1>1, <1>2, <1>4 DEF Card!LinkStateOn, Card!Goto, Card!dns
<1>5. CASE Card!UsbCardUp(p)
  BY <1>1, <1>2, <1>5 DEF Card!UsbCardUp, Card!Goto, Card!dns, Card!Down
<1>6. CASE Card!CardUp(p)
  BY <1>1, <1>2, <1>6 DEF Card!CardUp, Card!Goto, Card!dns
<1>7. CASE Card!BridgeMode(p)
  BY <1>1, <1>2, <1>7 DEF Card!BridgeMode, Card!Goto, Card!dns
<1>8. CASE Card!Dhcp(p)
  <2>1. Card!Udhcpc(p) /\ UNCHANGED <<v1, v3>> /\ v2[p] = "lease"
    BY <1>8, Zenon DEF Card!Dhcp
  <2>2. /\ v5'[p].up = v5[p].up /\ v5'[p].v6 = v5[p].v6 /\ v5'[p].bridge = v5[p].bridge
        /\ \A q \in Card!Program : q # p => v5'[q] = v5[q]
    BY <1>1, <2>1, LeaseTaken
  <2>3. /\ v1.ops = "atc" => v4'[p] = v5'[p].v4
        /\ \A q \in Card!Program : q # p => v4'[q] = v4[q]
    BY <1>1, <1>8 DEF Card!Dhcp
  <2>4. /\ v2' = [v2 EXCEPT ![p] = IF v1.ops = "qmi" THEN "rawip" ELSE "ipv6"]
        /\ ~v1.noDhcp /\ v1.ops \in {"qmi", "atc"}
    BY <1>2, <1>8, <2>1 DEF Card!Dhcp, Card!Goto, Card!CardInv, Card!Options
  <2>5. QED
    BY <1>1, <1>2, <2>1, <2>2, <2>3, <2>4
<1>9. CASE Card!RawIpModeCheck(p)
  <2>1. /\ UNCHANGED <<v1, v3, v4>> /\ v2[p] = "rawip" /\ (v1.ops # "atc" \/ v1.noDhcp) /\ v5[p].up
    BY <1>2, <1>9 DEF Card!RawIpModeCheck
  <2>2. \/ v2' = [v2 EXCEPT ![p] = "ipv6"] /\ v5' = v5 /\ v5[p].v4 = v3[p].v4
        \/ v2' = [v2 EXCEPT ![p] = "static"] /\ v5' = v5
        \/ v2' = [v2 EXCEPT ![p] = "again"] /\ v5'[p].up /\ \A q \in Card!Program : q # p => v5'[q] = v5[q]
    <3>1. CASE v5[p].v4 = v3[p].v4 \/ v8 \/ v1.qmap
      BY <1>9, <3>1 DEF Card!RawIpModeCheck, Card!Goto
    <3>2. CASE ~(v5[p].v4 = v3[p].v4 \/ v8 \/ v1.qmap)
      <4>1. v2' = [v2 EXCEPT ![p] = "again"] /\ v5' = [v5 EXCEPT ![p] = [Card!Down(v5[p]) EXCEPT !.up = TRUE]]
        BY <1>9, <3>2, Zenon DEF Card!RawIpModeCheck, Card!Goto
      <4>2. [Card!Down(v5[p]) EXCEPT !.up = TRUE].up
        BY <1>1, CardUpAgain
      <4>3. QED
        BY <1>1, <4>1, <4>2
    <3>3. QED
      BY <3>1, <3>2
  <2>3. QED
    BY <1>1, <1>2, <2>1, <2>2
<1>10. CASE Card!DhcpAgain(p)
  <2>1. Card!Udhcpc(p) /\ UNCHANGED <<v1, v3, v4>> /\ v2[p] = "again"
    BY <1>10, Zenon DEF Card!DhcpAgain
  <2>2. /\ v5'[p].up = v5[p].up /\ v5'[p].v6 = v5[p].v6 /\ v5'[p].bridge = v5[p].bridge
        /\ \A q \in Card!Program : q # p => v5'[q] = v5[q]
    BY <1>1, <2>1, LeaseTaken
  <2>3. \/ v2' = [v2 EXCEPT ![p] = "ipv6"] /\ v5'[p].v4 = v3[p].v4
        \/ v2' = [v2 EXCEPT ![p] = "static"]
    BY <1>10 DEF Card!DhcpAgain, Card!Goto
  <2>4. QED
    BY <1>1, <1>2, <2>1, <2>2, <2>3
<1>11. CASE Card!Static(p)
  BY <1>1, <1>2, <1>11 DEF Card!Static, Card!Goto, Card!dns, Card!SetIpv4
<1>12. CASE Card!Ipv6(p)
  <2>1. UNCHANGED <<v1, v3, v4>> /\ v2[p] = "ipv6" /\ ~v1.bridge
    BY <1>2, <1>12 DEF Card!Ipv6
  <2>2. CASE v3[p].v6 = 0 /\ v2' = [v2 EXCEPT ![p] = "idle"] /\ v5' = v5
    BY <1>1, <1>2, <2>1, <2>2
  <2>3. CASE v2' = [v2 EXCEPT ![p] = "read6"] /\ v5' = [v5 EXCEPT ![p].v6 = v3[p].v6]
    <3>1. /\ v5'[p].up = v5[p].up /\ v5'[p].v6 = v3[p].v6 /\ v5'[p].v4 = v5[p].v4
          /\ \A q \in Card!Program : q # p => v5'[q] = v5[q]
      BY <1>1, <2>3 DEF CardRecord
    <3>2. QED
      BY <1>1, <1>2, <2>1, <2>3, <3>1
  <2>4. QED
    BY <1>12, <2>2, <2>3 DEF Card!Ipv6, Card!Goto, Card!SetIpv6
<1>13. CASE Card!ReadResolv(p)
  BY <1>1, <1>2, <1>13 DEF Card!ReadResolv, Card!Goto, Card!cards, Card!Remember, Card!Update
<1>14. CASE Card!WriteResolv(p)
  BY <1>1, <1>2, <1>14 DEF Card!WriteResolv, Card!Goto, Card!cards, Card!Update, Card!LineOf
<1>15. CASE Card!LinkStateOff(p)
  BY <1>1, <1>2, <1>15 DEF Card!LinkStateOff, Card!Goto, Card!dns
<1>16. CASE Card!LastLink(p)
  BY <1>1, <1>2, <1>16 DEF Card!LastLink, Card!Goto, Card!cards, Card!dns
<1>17. CASE Card!UsbCardDown(p)
  BY <1>1, <1>2, <1>17 DEF Card!UsbCardDown, Card!Goto, Card!dns
<1>18. CASE Card!Flush(p)
  BY <1>1, <1>2, <1>18 DEF Card!Flush, Card!Goto, Card!dns, Card!Down
<1>19. QED
  BY <1>3, <1>4, <1>5, <1>6, <1>7, <1>8, <1>9, <1>10, <1>11, <1>12, <1>13, <1>14, <1>15, <1>16, <1>17, <1>18, Zenon DEF Card!Start, Card!Stop

\* resolv.conf has the lines of the user and of the calls.
LEMMA CardLines ==
  ASSUME Card!CardInv, NEW p \in Card!Program, Card!LinkChange(p) \/ Card!Start(p) \/ Card!Stop(p)
  PROVE  Card!LinesOf'
<1>1. v2 \in [Card!Program -> Steps4] /\ v3 \in [Card!Program -> Card!Call] /\ v9 \subseteq Card!Line
      /\ v10 \in [Card!Program -> SUBSET Card!Line]
  BY Zenon DEF Card!CardInv, Card!TypeOK, Steps4
<1>2. Card!Reached /\ Card!LinesOf
  BY Zenon DEF Card!CardInv
<1> USE DEF Card!Reached
<1> USE DEF Card!LinesOf, Card!HasV4, Card!HasV6, Card!Done, Card!None, Card!Trying, Card!Writing4, Card!Writing6, Card!Update, Card!LineOf, Steps4
<1>3. CASE Card!LinkChange(p)
  BY <1>1, <1>2, <1>3, SMTT(30) DEF Card!LinkChange, Card!Goto, Card!cards, Card!dns
<1>4. CASE Card!LinkStateOn(p)
  BY <1>1, <1>2, <1>4 DEF Card!LinkStateOn, Card!Goto, Card!dns
<1>5. CASE Card!UsbCardUp(p)
  BY <1>1, <1>2, <1>5 DEF Card!UsbCardUp, Card!Goto, Card!dns, Card!Down
<1>6. CASE Card!CardUp(p)
  BY <1>1, <1>2, <1>6 DEF Card!CardUp, Card!Goto, Card!dns
<1>7. CASE Card!BridgeMode(p)
  BY <1>1, <1>2, <1>7 DEF Card!BridgeMode, Card!Goto, Card!dns
<1>8. CASE Card!Dhcp(p)
  BY <1>1, <1>2, <1>8 DEF Card!Dhcp, Card!Goto, Card!dns, Card!Udhcpc
<1>9. CASE Card!RawIpModeCheck(p)
  BY <1>1, <1>2, <1>9, SMTT(30) DEF Card!RawIpModeCheck, Card!Goto, Card!dns, Card!Down
<1>10. CASE Card!DhcpAgain(p)
  BY <1>1, <1>2, <1>10 DEF Card!DhcpAgain, Card!Goto, Card!dns, Card!Udhcpc
<1>11. CASE Card!Static(p)
  BY <1>1, <1>2, <1>11, SMTT(30) DEF Card!Static, Card!Goto, Card!dns, Card!SetIpv4
<1>12. CASE Card!Ipv6(p)
  BY <1>1, <1>2, <1>12 DEF Card!Ipv6, Card!Goto, Card!dns, Card!SetIpv6
<1>13. CASE Card!ReadResolv(p)
  <2>1. PICK u \in Card!Update :
          /\ v2[p] = u.read /\ v2' = [v2 EXCEPT ![p] = u.write]
          /\ Card!Remember(p, {l \in v9 : <<l.of, l.fam>> # <<p, u.fam>>})
          /\ UNCHANGED <<v1, v3, v9, v14>>
    BY <1>13, Zenon DEF Card!ReadResolv, Card!Goto
  <2> DEFINE rest == {l \in v9 : <<l.of, l.fam>> # <<p, u.fam>>}
  <2>2. SUFFICES ASSUME ~v14', ~v15' PROVE Card!LinesOf'
    BY Zenon
  <2>3. ~v15 /\ ~v14 /\ v10' = [v10 EXCEPT ![p] = rest]
    <3>1. Card!Remember(p, rest)
      BY <2>1
    <3> HIDE DEF rest
    <3>2. QED
      BY <2>1, <2>2, <3>1, Zenon DEF Card!Remember
  <2>4. v10'[p] = rest /\ \A q \in Card!Program : q # p => v10'[q] = v10[q] /\ v2'[q] = v2[q]
    BY <1>1, <2>1, <2>3
  <2>5. v2'[p] = u.write /\ u \in Card!Update
    BY <1>1, <2>1
  <2>6. \A w \in Card!Update : w.write = u.write => w = u
    BY <2>5
  <2>7. QED
    BY <1>1, <1>2, <2>1, <2>3, <2>4, <2>5, <2>6
<1>14. CASE Card!WriteResolv(p)
  <2>1. PICK u \in Card!Update :
          /\ v2[p] = u.write /\ v2' = [v2 EXCEPT ![p] = u.next]
          /\ v9' = v10[p] \cup {Card!LineOf(p, u.fam)} /\ v10' = [v10 EXCEPT ![p] = {}]
          /\ v14' = (v14 \/ \E q \in Card!Program \ {p}, o \in Card!Update : v2[q] = o.write)
          /\ UNCHANGED <<v1, v3, v15>>
    BY <1>14, Zenon DEF Card!WriteResolv, Card!Goto
  <2>2. SUFFICES ASSUME ~v14', ~v15' PROVE Card!LinesOf'
    BY Zenon
  <2>3. ~v14 /\ ~v15 /\ \A q \in Card!Program \ {p}, o \in Card!Update : v2[q] # o.write
    BY <2>1, <2>2, Zenon
  <2>4. \A l \in v9 : <<l.of, l.fam>> # <<p, u.fam>> => l \in v9'
    BY <1>2, <2>1, <2>3
  <2>5. \A l \in Card!User : l.of = 0 /\ p # 0
    BY DEF Card!User, Card!Program
  <2>6. Card!User \subseteq v9'
    <3>1. Card!User \subseteq v9
      BY <1>2, <2>3
    <3>2. QED
      BY <2>4, <2>5, <3>1
  <2>7. Card!LineOf(p, u.fam) \in v9'
    BY <2>1
  <2>8. \A q \in Card!Program, f \in {4, 6} :
          Card!LineOf(q, f) \in v9 => Card!LineOf(q, f) \in v9'
    <3> SUFFICES ASSUME NEW q \in Card!Program, NEW f \in {4, 6}, Card!LineOf(q, f) \in v9
                 PROVE  Card!LineOf(q, f) \in v9'
      OBVIOUS
    <3>1. CASE q = p /\ f = u.fam
      BY <2>7, <3>1
    <3>2. CASE <<q, f>> # <<p, u.fam>>
      BY <2>4, <3>2
    <3>3. QED
      BY <3>1, <3>2
  <2>9. v2'[p] = u.next /\ \A q \in Card!Program : q # p => v2'[q] = v2[q] /\ v10'[q] = v10[q]
    BY <1>1, <2>1
  <2>10. ASSUME NEW q \in Card!Program, NEW o \in Card!Update PROVE v2'[q] # o.write
    BY <2>3, <2>9
  <2>11. ASSUME NEW q \in Card!Program, q # p
         PROVE  /\ v3[q].v6 # 0 /\ ~v1.bridge /\ (v2'[q] \in {"reread6", "rewrite6"} \/ Card!Done(q)') =>
                     Card!LineOf(q, 6) \in v9'
                /\ v3[q].v4 # 0 /\ ~v1.bridge /\ (v1.noDhcp \/ v1.ops = "mbim")
                     /\ (v2'[q] \in Card!Writing6 \cup {"ipv6"} \/ Card!Done(q)') => Card!LineOf(q, 4) \in v9'
    BY <1>2, <2>1, <2>3, <2>8, <2>9, <2>11
  <2>12. /\ v3[p].v6 # 0 /\ ~v1.bridge /\ (v2'[p] \in {"reread6", "rewrite6"} \/ Card!Done(p)') =>
              Card!LineOf(p, 6) \in v9'
         /\ v3[p].v4 # 0 /\ ~v1.bridge /\ (v1.noDhcp \/ v1.ops = "mbim")
              /\ (v2'[p] \in Card!Writing6 \cup {"ipv6"} \/ Card!Done(p)') => Card!LineOf(p, 4) \in v9'
    BY <1>2, <2>1, <2>3, <2>7, <2>8, <2>9
  <2>13. QED
    BY <2>1, <2>6, <2>10, <2>11, <2>12
<1>15. CASE Card!LinkStateOff(p)
  BY <1>1, <1>2, <1>15 DEF Card!LinkStateOff, Card!Goto, Card!dns
<1>16. CASE Card!LastLink(p)
  BY <1>1, <1>2, <1>16 DEF Card!LastLink, Card!Goto, Card!cards, Card!dns
<1>17. CASE Card!UsbCardDown(p)
  BY <1>1, <1>2, <1>17 DEF Card!UsbCardDown, Card!Goto, Card!dns
<1>18. CASE Card!Flush(p)
  <2>1. /\ v2[p] = "flush" /\ v2' = [v2 EXCEPT ![p] = "idle"]
        /\ UNCHANGED <<v1, v3, v9, v10, v14, v15>>
    BY <1>18, Zenon DEF Card!Flush, Card!Goto, Card!dns
  <2>2. v3[p] = Card!None
    BY <1>2, <2>1
  <2>3. ~Card!Done(p)' /\ v2'[p] = "idle" /\ \A q \in Card!Program : q # p => v2'[q] = v2[q]
    BY <1>1, <2>1, <2>2
  <2>4. \A q \in Card!Program : q # p => (Card!Done(q)' <=> Card!Done(q))
    BY <2>1, <2>3
  <2>5. QED
    BY <1>2, <2>1, <2>3, <2>4
<1>19. QED
  BY <1>3, <1>4, <1>5, <1>6, <1>7, <1>8, <1>9, <1>10, <1>11, <1>12, <1>13, <1>14, <1>15, <1>16, <1>17, <1>18, Zenon DEF Card!Start, Card!Stop
\* The driver's state and the counters.
LEMMA CardFlags ==
  ASSUME Card!CardInv, NEW p \in Card!Program, Card!LinkChange(p) \/ Card!Start(p) \/ Card!Stop(p)
  PROVE  /\ v6' \in BOOLEAN /\ v7' \subseteq Card!Program /\ v8' \in BOOLEAN
         /\ v11' \in 0..MaxLinks /\ v12' \in 0..MaxFaults
         /\ v13' \in BOOLEAN /\ v14' \in BOOLEAN /\ v15' \in BOOLEAN
<1>1. /\ v6 \in BOOLEAN /\ v7 \subseteq Card!Program /\ v8 \in BOOLEAN /\ v11 \in 0..MaxLinks /\ v12 \in 0..MaxFaults
      /\ v13 \in BOOLEAN /\ v14 \in BOOLEAN /\ v15 \in BOOLEAN /\ TRUE \in BOOLEAN /\ FALSE \in BOOLEAN
  BY Zenon DEF Card!CardInv, Card!TypeOK
<1>2. CASE Card!LinkChange(p)
  <2>1. UNCHANGED <<v6, v7, v8, v12, v13, v14, v15>>
    BY <1>2, Zenon DEF Card!LinkChange, Card!cards, Card!dns
  <2>2. v11' = v11 + 1 /\ v11 < MaxLinks
    BY <1>2, Zenon DEF Card!LinkChange
  <2>3. v11' \in 0..MaxLinks
    BY <1>1, <2>2, CardAssumption
  <2>4. QED
    BY <1>1, <2>1, <2>2, <2>3, Zenon
<1>3. CASE Card!LinkStateOn(p)
  <2>1. UNCHANGED <<v6, v8, v11, v12, v14, v15>>
    BY <1>3, Zenon DEF Card!LinkStateOn, Card!dns
  <2>2. v7' \subseteq Card!Program
    BY <1>1, <1>3 DEF Card!LinkStateOn
  <2>3. (v13 \/ \E q \in Card!Program : v2[q] = "usbdown") \in BOOLEAN
    OBVIOUS
  <2>4. v13' \in BOOLEAN
    BY <1>3, <2>3, Zenon DEF Card!LinkStateOn
  <2>5. QED
    BY <1>1, <2>1, <2>2, <2>3, <2>4, Zenon
<1>4. CASE Card!UsbCardUp(p)
  <2>1. UNCHANGED <<v7, v8, v11, v12, v13, v14, v15>>
    BY <1>4, Zenon DEF Card!UsbCardUp, Card!dns
  <2>2. v6' \in BOOLEAN
    BY <1>1, <1>4, Zenon DEF Card!UsbCardUp
  <2>3. QED
    BY <1>1, <2>1, <2>2, Zenon
<1>5. CASE Card!CardUp(p)
  BY <1>1, <1>5, Zenon DEF Card!CardUp, Card!dns
<1>6. CASE Card!BridgeMode(p)
  BY <1>1, <1>6, Zenon DEF Card!BridgeMode, Card!dns
<1>7. CASE Card!Dhcp(p)
  <2>1. UNCHANGED <<v6, v7, v8, v11, v13, v14, v15>>
    BY <1>7, Zenon DEF Card!Dhcp, Card!dns
  <2>2. v12' = v12 \/ (v12 > 0 /\ v12' = v12 - 1)
    BY <1>7 DEF Card!Dhcp, Card!Udhcpc
  <2>3. v12' \in 0..MaxFaults
    BY <1>1, <2>2, SharedAssumption
  <2>4. QED
    BY <1>1, <2>1, <2>2, <2>3, Zenon
<1>8. CASE Card!RawIpModeCheck(p)
  <2>1. UNCHANGED <<v6, v7, v11, v12, v13, v14, v15>>
    BY <1>8, Zenon DEF Card!RawIpModeCheck, Card!dns
  <2>2. v8' = v8 \/ v8' = TRUE
    BY <1>8, Zenon DEF Card!RawIpModeCheck
  <2>3. v8' \in BOOLEAN
    BY <1>1, <2>2, Zenon
  <2>4. QED
    BY <1>1, <2>1, <2>2, <2>3, Zenon
<1>9. CASE Card!DhcpAgain(p)
  <2>1. UNCHANGED <<v6, v7, v8, v11, v13, v14, v15>>
    BY <1>9, Zenon DEF Card!DhcpAgain, Card!dns
  <2>2. v12' = v12 \/ (v12 > 0 /\ v12' = v12 - 1)
    BY <1>9 DEF Card!DhcpAgain, Card!Udhcpc
  <2>3. v12' \in 0..MaxFaults
    BY <1>1, <2>2, SharedAssumption
  <2>4. QED
    BY <1>1, <2>1, <2>2, <2>3, Zenon
<1>10. CASE Card!Static(p)
  BY <1>1, <1>10, Zenon DEF Card!Static, Card!dns
<1>11. CASE Card!Ipv6(p)
  BY <1>1, <1>11, Zenon DEF Card!Ipv6, Card!dns
<1>12. CASE Card!ReadResolv(p)
  <2>1. UNCHANGED <<v6, v7, v8, v11, v12, v13, v14>>
    BY <1>12, Zenon DEF Card!ReadResolv, Card!cards
  <2>2. PICK u \in Card!Update : Card!Remember(p, {l \in v9 : <<l.of, l.fam>> # <<p, u.fam>>})
    BY <1>12, Zenon DEF Card!ReadResolv
  <2>3. (v15 \/ Card!Cardinality({l \in v9 : <<l.of, l.fam>> # <<p, u.fam>>}) > MaxDns) \in BOOLEAN
    OBVIOUS
  <2>4. v15' \in BOOLEAN
    BY <2>2, <2>3, Zenon DEF Card!Remember
  <2>5. QED
    BY <1>1, <2>1, <2>2, <2>3, <2>4, Zenon
<1>13. CASE Card!WriteResolv(p)
  <2>1. UNCHANGED <<v6, v7, v8, v11, v12, v13, v15>>
    BY <1>13, Zenon DEF Card!WriteResolv, Card!cards
  <2>2. (v14 \/ \E q \in Card!Program \ {p}, o \in Card!Update : v2[q] = o.write) \in BOOLEAN
    OBVIOUS
  <2>3. v14' \in BOOLEAN
    BY <1>13, <2>2, Zenon DEF Card!WriteResolv
  <2>4. QED
    BY <1>1, <2>1, <2>2, <2>3, Zenon
<1>14. CASE Card!LinkStateOff(p)
  <2>1. UNCHANGED <<v6, v8, v11, v12, v13, v14, v15>>
    BY <1>14, Zenon DEF Card!LinkStateOff, Card!dns
  <2>2. v7' \subseteq Card!Program
    BY <1>1, <1>14 DEF Card!LinkStateOff
  <2>3. QED
    BY <1>1, <2>1, <2>2, Zenon
<1>15. CASE Card!LastLink(p)
  BY <1>1, <1>15, Zenon DEF Card!LastLink, Card!cards, Card!dns
<1>16. CASE Card!UsbCardDown(p)
  <2>1. UNCHANGED <<v7, v8, v11, v12, v13, v14, v15>>
    BY <1>16, Zenon DEF Card!UsbCardDown, Card!dns
  <2>2. v6' \in BOOLEAN
    BY <1>1, <1>16, Zenon DEF Card!UsbCardDown
  <2>3. QED
    BY <1>1, <2>1, <2>2, Zenon
<1>17. CASE Card!Flush(p)
  BY <1>1, <1>17, Zenon DEF Card!Flush, Card!dns
<1>18. QED
  BY <1>2, <1>3, <1>4, <1>5, <1>6, <1>7, <1>8, <1>9, <1>10, <1>11, <1>12, <1>13, <1>14, <1>15, <1>16, <1>17, Zenon DEF Card!Start, Card!Stop

\* The calls, the leases and the cards.
LEMMA CardValues ==
  ASSUME Card!CardInv, NEW p \in Card!Program, Card!LinkChange(p) \/ Card!Start(p) \/ Card!Stop(p)
  PROVE  /\ v3' \in [Card!Program -> Card!Call] /\ v4' \in [Card!Program -> Addr \cup {0}]
         /\ v5' \in [Card!Program -> CardRecord]
<1>1. /\ v3 \in [Card!Program -> Card!Call] /\ v4 \in [Card!Program -> Addr \cup {0}]
      /\ v5 \in [Card!Program -> CardRecord]
  BY Zenon DEF Card!CardInv, Card!TypeOK, CardRecord
<1>2. /\ v3[p].v4 \in Addr \cup {0} /\ v3[p].v6 \in {0, 1} /\ 0 \in Addr \cup {0}
      /\ v5[p] \in CardRecord
  BY <1>1 DEF Card!Call
<1>3. /\ Card!Down(v5[p]) \in CardRecord /\ [Card!Down(v5[p]) EXCEPT !.up = TRUE] \in CardRecord
  BY <1>2, CardUpAgain
<1>4. ASSUME NEW c \in CardRecord, NEW a \in Addr \cup {0}, NEW x \in {0, 1}
      PROVE  /\ [c EXCEPT !.v4 = a] \in CardRecord /\ [c EXCEPT !.v6 = x] \in CardRecord
             /\ [c EXCEPT !.bridge = a] \in CardRecord
  BY DEF CardRecord
<1>5. ASSUME NEW c \in CardRecord PROVE [v5 EXCEPT ![p] = c] \in [Card!Program -> CardRecord]
  BY <1>1
<1>6. CASE Card!LinkChange(p)
  <2>1. UNCHANGED <<v4, v5>>
    BY <1>6, Zenon DEF Card!LinkChange, Card!cards, Card!dns
  <2>2. v3' \in [Card!Program -> Card!Call]
    BY <1>1, <1>6 DEF Card!LinkChange
  <2>3. QED
    BY <1>1, <2>1, <2>2, Zenon
<1>7. CASE Card!LinkStateOn(p)
  BY <1>1, <1>7, Zenon DEF Card!LinkStateOn, Card!dns
<1>8. CASE Card!UsbCardUp(p)
  <2>1. UNCHANGED <<v3, v4>>
    BY <1>8, Zenon DEF Card!UsbCardUp, Card!dns
  <2>2. v5' = [v5 EXCEPT ![p] = Card!Down(v5[p])]
    BY <1>8 DEF Card!UsbCardUp
  <2>3. Card!Down(v5[p]) \in CardRecord
    BY <1>2, <1>3, <1>4, Zenon
  <2>4. v5' \in [Card!Program -> CardRecord]
    BY <1>1, <1>5, <2>2, <2>3, Zenon
  <2>5. QED
    BY <1>1, <2>1, <2>2, <2>3, <2>4, Zenon
<1>9. CASE Card!CardUp(p)
  <2>1. UNCHANGED <<v3, v4>>
    BY <1>9, Zenon DEF Card!CardUp, Card!dns
  <2>2. v5' = [v5 EXCEPT ![p].up = TRUE]
    BY <1>9, Zenon DEF Card!CardUp
  <2>3. [v5[p] EXCEPT !.up = TRUE] \in CardRecord
    <3>1. ASSUME NEW b \in BOOLEAN PROVE [v5[p] EXCEPT !.up = b] \in CardRecord
      BY <1>2 DEF CardRecord
    <3>2. TRUE \in BOOLEAN
      OBVIOUS
    <3>3. QED
      BY <3>1, <3>2, Zenon
  <2>4. v5' \in [Card!Program -> CardRecord]
    BY <1>5, <2>2, <2>3, Zenon
  <2>5. QED
    BY <1>1, <2>1, <2>2, <2>3, <2>4, Zenon
<1>10. CASE Card!BridgeMode(p)
  <2>1. UNCHANGED <<v3, v4>>
    BY <1>10, Zenon DEF Card!BridgeMode, Card!dns
  <2>2. v5' = [v5 EXCEPT ![p] = [v5[p] EXCEPT !.bridge = v3[p].v4]]
    BY <1>10 DEF Card!BridgeMode
  <2>3. [v5[p] EXCEPT !.bridge = v3[p].v4] \in CardRecord
    BY <1>2, <1>3, <1>4, Zenon
  <2>4. v5' \in [Card!Program -> CardRecord]
    BY <1>1, <1>5, <2>2, <2>3, Zenon
  <2>5. QED
    BY <1>1, <2>1, <2>2, <2>3, <2>4, Zenon
<1>11. CASE Card!Dhcp(p)
  <2>1. UNCHANGED <<v3>>
    BY <1>11, Zenon DEF Card!Dhcp, Card!dns
  <2>2. Card!Udhcpc(p)
    BY <1>11, Zenon DEF Card!Dhcp
  <2>3. v5' \in [Card!Program -> CardRecord]
    BY <1>1, <2>2, LeaseTaken
  <2>4. v5'[p].v4 \in Addr \cup {0}
    BY <2>3 DEF CardRecord
  <2>5. v4' \in [Card!Program -> Addr \cup {0}]
    BY <1>1, <1>11, <2>4 DEF Card!Dhcp
  <2>6. QED
    BY <1>1, <2>1, <2>2, <2>3, <2>4, <2>5, Zenon
<1>12. CASE Card!RawIpModeCheck(p)
  <2>1. UNCHANGED <<v3, v4>>
    BY <1>12, Zenon DEF Card!RawIpModeCheck, Card!dns
  <2>2. v5' = v5 \/ v5' = [v5 EXCEPT ![p] = [Card!Down(v5[p]) EXCEPT !.up = TRUE]]
    BY <1>12 DEF Card!RawIpModeCheck
  <2>3. [Card!Down(v5[p]) EXCEPT !.up = TRUE] \in CardRecord
    BY <1>2, <1>3, <1>4, Zenon
  <2>4. v5' \in [Card!Program -> CardRecord]
    BY <1>1, <1>5, <2>2, <2>3, Zenon
  <2>5. QED
    BY <1>1, <2>1, <2>2, <2>3, <2>4, Zenon
<1>13. CASE Card!DhcpAgain(p)
  <2>1. UNCHANGED <<v3, v4>>
    BY <1>13, Zenon DEF Card!DhcpAgain, Card!dns
  <2>2. Card!Udhcpc(p)
    BY <1>13, Zenon DEF Card!DhcpAgain
  <2>3. v5' \in [Card!Program -> CardRecord]
    BY <1>1, <2>2, LeaseTaken
  <2>4. QED
    BY <1>1, <2>1, <2>2, <2>3, Zenon
<1>14. CASE Card!Static(p)
  <2>1. UNCHANGED <<v3, v4>>
    BY <1>14, Zenon DEF Card!Static, Card!dns
  <2>2. v5' = [v5 EXCEPT ![p] = [v5[p] EXCEPT !.v4 = v3[p].v4]]
    BY <1>14 DEF Card!Static, Card!SetIpv4
  <2>3. [v5[p] EXCEPT !.v4 = v3[p].v4] \in CardRecord
    BY <1>2, <1>3, <1>4, Zenon
  <2>4. v5' \in [Card!Program -> CardRecord]
    BY <1>1, <1>5, <2>2, <2>3, Zenon
  <2>5. QED
    BY <1>1, <2>1, <2>2, <2>3, <2>4, Zenon
<1>15. CASE Card!Ipv6(p)
  <2>1. UNCHANGED <<v3, v4>>
    BY <1>15, Zenon DEF Card!Ipv6, Card!dns
  <2>2. v5' = v5 \/ v5' = [v5 EXCEPT ![p] = [v5[p] EXCEPT !.v6 = v3[p].v6]]
    BY <1>15 DEF Card!Ipv6, Card!SetIpv6
  <2>3. [v5[p] EXCEPT !.v6 = v3[p].v6] \in CardRecord
    BY <1>2, <1>3, <1>4, Zenon
  <2>4. v5' \in [Card!Program -> CardRecord]
    BY <1>1, <1>5, <2>2, <2>3, Zenon
  <2>5. QED
    BY <1>1, <2>1, <2>2, <2>3, <2>4, Zenon
<1>16. CASE Card!ReadResolv(p)
  BY <1>1, <1>16, Zenon DEF Card!ReadResolv, Card!cards
<1>17. CASE Card!WriteResolv(p)
  BY <1>1, <1>17, Zenon DEF Card!WriteResolv, Card!cards
<1>18. CASE Card!LinkStateOff(p)
  BY <1>1, <1>18, Zenon DEF Card!LinkStateOff, Card!dns
<1>19. CASE Card!LastLink(p)
  BY <1>1, <1>19, Zenon DEF Card!LastLink, Card!cards, Card!dns
<1>20. CASE Card!UsbCardDown(p)
  BY <1>1, <1>20, Zenon DEF Card!UsbCardDown, Card!dns
<1>21. CASE Card!Flush(p)
  <2>1. UNCHANGED <<v3>>
    BY <1>21, Zenon DEF Card!Flush, Card!dns
  <2>2. v5' = [v5 EXCEPT ![p] = [Card!Down(v5[p]) EXCEPT !.v4 = 0]]
    BY <1>21 DEF Card!Flush
  <2>3. [Card!Down(v5[p]) EXCEPT !.v4 = 0] \in CardRecord
    BY <1>2, <1>3, <1>4, Zenon
  <2>4. v5' \in [Card!Program -> CardRecord]
    BY <1>1, <1>5, <2>2, <2>3, Zenon
  <2>5. v4' \in [Card!Program -> Addr \cup {0}]
    BY <1>1, <1>21 DEF Card!Flush
  <2>6. QED
    BY <1>1, <2>1, <2>2, <2>3, <2>4, <2>5, Zenon
<1>22. QED
  BY <1>6, <1>7, <1>8, <1>9, <1>10, <1>11, <1>12, <1>13, <1>14, <1>15, <1>16, <1>17, <1>18, <1>19, <1>20, <1>21, Zenon DEF Card!Start, Card!Stop

\* resolv.conf and what is read of it.
LEMMA CardFile ==
  ASSUME Card!CardInv, NEW p \in Card!Program, Card!LinkChange(p) \/ Card!Start(p) \/ Card!Stop(p)
  PROVE  v9' \subseteq Card!Line /\ v10' \in [Card!Program -> SUBSET Card!Line]
<1>1. v9 \subseteq Card!Line /\ v10 \in [Card!Program -> SUBSET Card!Line] /\ v3 \in [Card!Program -> Card!Call]
  BY Zenon DEF Card!CardInv, Card!TypeOK
<1>2. CASE Card!ReadResolv(p)
  <2>1. PICK u \in Card!Update : Card!Remember(p, {l \in v9 : <<l.of, l.fam>> # <<p, u.fam>>})
    BY <1>2, Zenon DEF Card!ReadResolv
  <2>2. PICK some \in SUBSET {l \in v9 : <<l.of, l.fam>> # <<p, u.fam>>} : v10' = [v10 EXCEPT ![p] = some]
    BY <2>1, Zenon DEF Card!Remember
  <2>3. some \subseteq Card!Line
    BY <1>1
  <2>4. v9' = v9
    BY <1>2, Zenon DEF Card!ReadResolv
  <2>5. QED
    BY <1>1, <2>2, <2>3, <2>4
<1>3. CASE Card!WriteResolv(p)
  <2>1. PICK u \in Card!Update :
          v2[p] = u.write /\ v9' = v10[p] \cup {Card!LineOf(p, u.fam)} /\ v10' = [v10 EXCEPT ![p] = {}]
    BY <1>3, Zenon DEF Card!WriteResolv
  <2>2. (u.fam = 4 => v3[p].v4 # 0) /\ (u.fam = 6 => v3[p].v6 # 0) /\ u.fam \in {4, 6}
    BY <2>1 DEF Card!CardInv, Card!Reached, Card!Update, Card!Writing4, Card!Writing6
  <2>3. Card!LineOf(p, u.fam) \in Card!Line
    BY <1>1, <2>2 DEF Card!LineOf, Card!Line, Card!Call
  <2>4. QED
    BY <1>1, <2>1, <2>3
<1>4. ASSUME Card!LinkChange(p) \/ Card!LinkStateOn(p) \/ Card!UsbCardUp(p) \/ Card!CardUp(p) \/ Card!BridgeMode(p) \/ Card!Dhcp(p) \/ Card!RawIpModeCheck(p)
      PROVE  v9' = v9 /\ v10' = v10
  BY <1>4, Zenon DEF Card!LinkChange, Card!LinkStateOn, Card!UsbCardUp, Card!CardUp, Card!BridgeMode, Card!Dhcp, Card!RawIpModeCheck, Card!dns
<1>5. ASSUME Card!DhcpAgain(p) \/ Card!Static(p) \/ Card!Ipv6(p) \/ Card!LinkStateOff(p) \/ Card!LastLink(p) \/ Card!UsbCardDown(p) \/ Card!Flush(p)
      PROVE  v9' = v9 /\ v10' = v10
  BY <1>5, Zenon DEF Card!DhcpAgain, Card!Static, Card!Ipv6, Card!LinkStateOff, Card!LastLink, Card!UsbCardDown, Card!Flush, Card!dns
<1>6. QED
  BY <1>1, <1>2, <1>3, <1>4, <1>5, Zenon DEF Card!Start, Card!Stop

LEMMA CardInit == Card!Init => Card!CardInv
<1> SUFFICES ASSUME Card!Init PROVE Card!CardInv
  OBVIOUS
<1>1. /\ v2 = [p \in Card!Program |-> "idle"] /\ v3 = [p \in Card!Program |-> Card!None]
      /\ v4 = [p \in Card!Program |-> 0] /\ v5 = [p \in Card!Program |-> [up |-> FALSE, v4 |-> 0, v6 |-> 0, bridge |-> 0]]
      /\ v6 = FALSE /\ v7 = {} /\ v8 = v1.fits /\ v9 = Card!User /\ v10 = [p \in Card!Program |-> {}]
      /\ v11 = 0 /\ v12 = MaxFaults /\ v13 = FALSE /\ v14 = FALSE /\ v15 = FALSE
  BY Zenon DEF Card!Init
<1>2. Card!Options
  <2> DEFINE R == [ops : {"qmi", "mbim", "atc"}, qmap : BOOLEAN, noDhcp : BOOLEAN, script : BOOLEAN,
                   fits : BOOLEAN, bridge : BOOLEAN, linkState : BOOLEAN]
  <2>1. PICK ops \in {"qmi", "mbim", "atc"}, b \in BOOLEAN :
          \/ v1 = [Card!Plain EXCEPT !.ops = ops, !.script = b]
          \/ v1 = [Card!Plain EXCEPT !.fits = FALSE, !.script = b, !.linkState = b]
          \/ v1 = [Card!Plain EXCEPT !.ops = ops, !.noDhcp = TRUE]
          \/ v1 = [Card!Plain EXCEPT !.qmap = TRUE, !.linkState = TRUE, !.noDhcp = ~b, !.bridge = b]
    BY DEF Card!Init
  <2>2. Card!Plain \in R /\ Card!Plain.bridge = FALSE /\ Card!Plain.ops = "qmi"
    BY DEF Card!Plain
  <2>3. ASSUME NEW r \in R, NEW o \in {"qmi", "mbim", "atc"}, NEW x \in BOOLEAN, NEW y \in BOOLEAN,
               NEW z \in BOOLEAN, NEW w \in BOOLEAN
        PROVE  /\ [r EXCEPT !.ops = o, !.script = x] \in R
               /\ [r EXCEPT !.ops = o, !.script = x].bridge = r.bridge
               /\ [r EXCEPT !.fits = x, !.script = y, !.linkState = z] \in R
               /\ [r EXCEPT !.fits = x, !.script = y, !.linkState = z].bridge = r.bridge
               /\ [r EXCEPT !.ops = o, !.noDhcp = x] \in R
               /\ [r EXCEPT !.ops = o, !.noDhcp = x].bridge = r.bridge
               /\ [r EXCEPT !.qmap = x, !.linkState = y, !.noDhcp = z, !.bridge = w] \in R
               /\ [r EXCEPT !.qmap = x, !.linkState = y, !.noDhcp = z, !.bridge = w].ops = r.ops
    <3>1. [r EXCEPT !.ops = o, !.script = x] \in R /\ [r EXCEPT !.ops = o, !.script = x].bridge = r.bridge
      OBVIOUS
    <3>2. [r EXCEPT !.fits = x, !.script = y, !.linkState = z] \in R /\ [r EXCEPT !.fits = x, !.script = y, !.linkState = z].bridge = r.bridge
      OBVIOUS
    <3>3. [r EXCEPT !.ops = o, !.noDhcp = x] \in R /\ [r EXCEPT !.ops = o, !.noDhcp = x].bridge = r.bridge
      OBVIOUS
    <3>4. [r EXCEPT !.qmap = x, !.linkState = y, !.noDhcp = z, !.bridge = w] \in R /\ [r EXCEPT !.qmap = x, !.linkState = y, !.noDhcp = z, !.bridge = w].ops = r.ops
      OBVIOUS
    <3>5. QED
      BY <3>1, <3>2, <3>3, <3>4, Zenon
  <2>4. TRUE \in BOOLEAN /\ FALSE \in BOOLEAN /\ (~b) \in BOOLEAN
    OBVIOUS
  <2> HIDE DEF R
  <2>5. v1 \in R /\ (v1.bridge = FALSE \/ v1.ops = "qmi")
    <3>1. [Card!Plain EXCEPT !.ops = ops, !.script = b] \in R /\ [Card!Plain EXCEPT !.ops = ops, !.script = b].bridge = Card!Plain.bridge
      BY <2>2, <2>3, <2>4, ZenonT(40)
    <3>2. [Card!Plain EXCEPT !.fits = FALSE, !.script = b, !.linkState = b] \in R /\ [Card!Plain EXCEPT !.fits = FALSE, !.script = b, !.linkState = b].bridge = Card!Plain.bridge
      BY <2>2, <2>3, <2>4, Zenon
    <3>3. [Card!Plain EXCEPT !.ops = ops, !.noDhcp = TRUE] \in R /\ [Card!Plain EXCEPT !.ops = ops, !.noDhcp = TRUE].bridge = Card!Plain.bridge
      BY <2>2, <2>3, <2>4, Zenon
    <3>4. [Card!Plain EXCEPT !.qmap = TRUE, !.linkState = TRUE, !.noDhcp = ~b, !.bridge = b] \in R /\ [Card!Plain EXCEPT !.qmap = TRUE, !.linkState = TRUE, !.noDhcp = ~b, !.bridge = b].ops = Card!Plain.ops
      BY <2>2, <2>3, <2>4, Zenon
    <3>5. QED
      BY <2>1, <2>2, <3>1, <3>2, <3>3, <3>4, Zenon
  <2> USE DEF R
  <2>6. QED
    BY <2>5 DEF Card!Options
<1>3. v8 \in BOOLEAN
  BY <1>1, <1>2, Zenon DEF Card!Options
<1>4. Card!None \in Card!Call /\ [up |-> FALSE, v4 |-> 0, v6 |-> 0, bridge |-> 0] \in CardRecord
  BY DEF Card!None, Card!Call, CardRecord
<1>5. Card!User \subseteq Card!Line
  BY DEF Card!User, Card!Line
<1>6. v6 \in BOOLEAN /\ v13 \in BOOLEAN /\ v14 \in BOOLEAN /\ v15 \in BOOLEAN
  BY <1>1, Zenon
<1>7. /\ v2 \in [Card!Program -> Steps4] /\ v3 \in [Card!Program -> Card!Call]
      /\ v4 \in [Card!Program -> Addr \cup {0}] /\ v7 \subseteq Card!Program
      /\ v10 \in [Card!Program -> SUBSET Card!Line] /\ v11 \in 0..MaxLinks /\ v12 \in 0..MaxFaults
  BY <1>1, <1>4, CardAssumption, SharedAssumption DEF Steps4
<1>8. v5 \in [Card!Program -> CardRecord]
  BY <1>1, <1>4, Zenon
<1>9. Card!TypeOK
  BY <1>1, <1>3, <1>5, <1>6, <1>7, <1>8, Zenon DEF Card!TypeOK, CardRecord, Steps4
<1>10. \A p \in Card!Program : v2[p] = "idle" /\ v3[p] = Card!None /\ ~Card!Done(p)
  BY <1>1 DEF Card!Done
<1>11. Card!Reached /\ Card!CardOf /\ Card!LinkOf
  BY <1>10 DEF Card!Reached, Card!CardOf, Card!LinkOf, Card!IsUp, Card!HasV4, Card!HasV6,
               Card!Trying, Card!Writing4, Card!Writing6
<1>12. Card!LinesOf
  BY <1>1, <1>10 DEF Card!LinesOf, Card!Update, Card!Writing6
<1>13. QED
  BY <1>2, <1>9, <1>11, <1>12, Zenon DEF Card!CardInv

LEMMA CardKeeps ==
  ASSUME Card!CardInv, [Card!Next]_(Card!vars)
  PROVE  Card!CardInv'
<1>1. CASE Card!Next
  <2>1. PICK p \in Card!Program : Card!LinkChange(p) \/ Card!Start(p) \/ Card!Stop(p)
    BY <1>1, Zenon DEF Card!Next
  <2>2. v2' \in [Card!Program -> Steps4] /\ v1' = v1 /\ Card!Reached'
    BY <2>1, CardReached
  <2>3. Card!TypeOK'
    BY <2>1, <2>2, CardFlags, CardValues, CardFile, Zenon DEF Card!TypeOK, CardRecord, Steps4
  <2>4. Card!Options'
    BY <2>2, Zenon DEF Card!CardInv, Card!Options
  <2>5. QED
    BY <2>1, <2>2, <2>3, <2>4, CardAddresses, CardLinks, CardLines, Zenon DEF Card!CardInv
<1>2. CASE UNCHANGED Card!vars
  <2>1. UNCHANGED <<v1, v2, v3, v4, v5, v6, v7, v8, v9, v10, v11, v12, v13, v14, v15>>
    BY <1>2, Zenon DEF Card!vars, Card!cards, Card!dns
  <2>2. Card!TypeOK' /\ Card!Options'
    BY <2>1, Zenon DEF Card!CardInv, Card!TypeOK, Card!Options
  <2>3. Card!Reached'
    BY <2>1, Zenon DEF Card!CardInv, Card!Reached
  <2>4. Card!CardOf'
    BY <2>1, Zenon DEF Card!CardInv, Card!CardOf, Card!IsUp, Card!HasV4, Card!HasV6, Card!Done
  <2>5. Card!LinkOf'
    BY <2>1, Zenon DEF Card!CardInv, Card!LinkOf, Card!IsUp, Card!Done
  <2>6. Card!LinesOf'
    BY <2>1, Zenon DEF Card!CardInv, Card!LinesOf, Card!LineOf, Card!Done
  <2>7. QED
    BY <2>2, <2>3, <2>4, <2>5, <2>6, Zenon DEF Card!CardInv
<1>3. QED
  BY <1>1, <1>2

LEMMA CardSafe ==
  ASSUME Card!CardInv
  PROVE  Card!Configured /\ Card!LinkKept /\ Card!LinesKept
<1>1. Card!Configured
  BY DEF Card!CardInv, Card!CardOf, Card!Configured, Card!IsUp, Card!HasV4, Card!HasV6
<1>2. Card!LinkKept
  BY DEF Card!CardInv, Card!LinkOf, Card!LinkKept, Card!IsUp
<1>3. Card!LinesKept
  BY DEF Card!CardInv, Card!LinesOf, Card!LinesKept
<1>4. QED
  BY <1>1, <1>2, <1>3

\* Start!RightModem and OneUser, Card!Configured, LinkKept and LinesKept,
\* Lte!OneProgram, CurrentSettings and Spared: for any number of resets, changes of
\* the settings and of the calls, leases that are not obtained and lines of
\* resolv.conf, a program has the modem it was asked for and ended the one that held
\* it, a card has its call's addresses, link and servers, and lte-serve keeps one
\* program at most, with the settings there are.
THEOREM ModemSafely == Spec => []ModemSafe
<1> DEFINE Inv == /\ part = "start" => Start!StartInv
                  /\ part = "card" => Card!CardInv
                  /\ part = "lte" => Lte!LteInv
<1>1. Init => Inv
  BY StartInit, CardInit, LteInit DEF Init
<1>2. Inv /\ [Next]_vars => Inv'
  <2> SUFFICES ASSUME Inv, [Next]_vars PROVE Inv'
    OBVIOUS
  <2>1. ASSUME part' = "start" PROVE part = "start" /\ [Start!Next]_(Start!vars)
    BY <2>1 DEF Next, vars, Start!vars, Start!programs
  <2>2. ASSUME part' = "card" PROVE part = "card" /\ [Card!Next]_(Card!vars)
    BY <2>2 DEF Next, vars, Card!vars, Card!cards, Card!dns
  <2>3. ASSUME part' = "lte" PROVE part = "lte" /\ [Lte!Next]_(Lte!vars)
    BY <2>3 DEF Next, vars, Lte!vars, Lte!script
  <2>4. QED
    BY <2>1, <2>2, <2>3, StartKeeps, CardKeeps, LteKeeps
<1>3. Inv => ModemSafe
  BY StartSafe, CardSafe, LteSafe DEF ModemSafe
<1>4. QED
  BY <1>1, <1>2, <1>3, PTL DEF Spec

-----------------------------------------------------------------------------
(* The session over AT. task is v1, at v2, attached v3, copsAct v4, status *)
(* v5, addr v6, ip v7, link v8, sig v9, events v10, alarm v11, hold v12,   *)
(* doNotExit v13, reader v14, up v15, reboot v16, nat v17, asr v18, reg    *)
(* v19, pdp v20, net v21, maddr v22, old v23, missed v24, killed v25,      *)
(* faults v26.                                                             *)

\* What main finds first in a socket.
LEMMA AtHeads ==
  ASSUME At!AtInv
  PROVE  /\ v9 # <<>> => Head(v9) \in {"START", "CHECK", "STOP"} /\ Tail(v9) \in Seq({"START", "CHECK", "STOP"})
         /\ v10 # <<>> => Head(v10) \in {"VOICE", "DATA", "DISCONNECTED"}
                          /\ Tail(v10) \in Seq({"VOICE", "DATA", "DISCONNECTED"})
<1>1. v9 \in Seq({"START", "CHECK", "STOP"}) /\ v10 \in Seq({"VOICE", "DATA", "DISCONNECTED"})
  BY Zenon DEF At!AtInv, At!TypeOK
<1>2. QED
  BY <1>1

\* What main may be doing.
LEMMA AtPlaces ==
  ASSUME At!AtInv, At!Next
  PROVE  At!Doing' /\ v1' \in At!Task /\ v2' \in At!Command
<1>1. At!Doing /\ v1 \in At!Task /\ v2 \in At!Command
  BY Zenon DEF At!AtInv, At!TypeOK
<1> USE DEF At!Doing, At!Task, At!Command
<1>2. CASE At!Detect
  BY <1>1, <1>2 DEF At!Detect
<1>3. CASE At!AtcInit
  BY <1>1, <1>3 DEF At!AtcInit, At!SetNat, At!Starts, At!Refused, At!timeVars, At!Failed, At!NoAnswer, At!Fault, At!Open, At!RebootAsked, At!Answered
<1>4. CASE At!Quit
  BY <1>1, <1>4 DEF At!Quit, At!modemVars, At!timeVars, At!LinkDown
<1>5. CASE At!Cops
  BY <1>1, <1>5 DEF At!Cops, At!RegSame, At!EnvSame, At!Registered, At!Send, At!Return, At!Query, At!Go, At!Failed, At!NoAnswer, At!Fault, At!Open, At!Answered
<1>6. CASE At!Creg
  BY <1>1, <1>6 DEF At!Creg, At!RegSame, At!EnvSame, At!Registered, At!Send, At!Return, At!Query, At!Go, At!Displaced, At!Fault, At!Open, At!Failed, At!NoAnswer, At!StateOf, At!Answered
<1>7. CASE At!QueryNetdev
  BY <1>1, <1>7 DEF At!QueryNetdev, At!QuerySame, At!EnvSame, At!timeVars, At!Found, At!Go, At!Send, At!Return, At!Displaced, At!Fault, At!Open, At!Missed, At!Failed, At!NoAnswer, At!HasCall, At!Answered
<1>8. CASE At!QueryCtl
  BY <1>1, <1>8 DEF At!QueryCtl, At!QuerySame, At!EnvSame, At!timeVars, At!Missed, At!Found, At!Go, At!Send, At!Return, At!Failed, At!NoAnswer, At!Fault, At!Open, At!Answered
<1>9. CASE At!QueryAct
  BY <1>1, <1>9 DEF At!QueryAct, At!QuerySame, At!EnvSame, At!timeVars, At!Missed, At!Found, At!Go, At!Send, At!Return, At!Failed, At!NoAnswer, At!Fault, At!Open, At!Answered
<1>10. CASE At!GetIPAddress
  BY <1>1, <1>10 DEF At!GetIPAddress, At!GetIPSame, At!EnvSame, At!timeVars, At!Go, At!Keep, At!GetIP, At!Displaced, At!Fault, At!Open, At!Failed, At!NoAnswer, At!HasAddress, At!Answered
<1>11. CASE At!Compare
  BY <1>1, <1>11 DEF At!Compare, At!GetIPSame, At!EnvSame, At!timeVars, At!SameAddress, At!Go, At!Keep, At!GetIP, At!Displaced, At!Fault, At!Open, At!Failed, At!NoAnswer, At!HasAddress, At!Answered
<1>12. CASE At!Deactivate
  BY <1>1, <1>12 DEF At!Deactivate, At!timeVars, At!LinkDown, At!Go, At!Send, At!Return, At!StillOld, At!Missed, At!Refused, At!Fault, At!Open, At!Failed, At!NoAnswer, At!Answered
<1>13. CASE At!Settle
  BY <1>1, <1>13 DEF At!Settle, At!MainOnly, At!modemVars, At!timeVars, At!Return, At!Send, At!LinkDown, At!Go
<1>14. CASE At!Dhcp
  BY <1>1, <1>14 DEF At!Dhcp, At!MainOnly, At!modemVars, At!timeVars, At!Return, At!Fault, At!HasCall, At!Lease
<1>15. CASE At!Context
  BY <1>1, <1>15 DEF At!Context, At!SetupSame, At!EnvSame, At!timeVars, At!Go, At!NoAnswer, At!Fault, At!Open, At!Refused, At!Answered
<1>16. CASE At!Activate
  BY <1>1, <1>16 DEF At!Activate, At!SetupSame, At!EnvSame, At!timeVars, At!Go, At!NoAnswer, At!Fault, At!Open, At!Answered, At!Refused
<1>17. CASE At!Bind
  BY <1>1, <1>17 DEF At!Bind, At!SetupSame, At!EnvSame, At!timeVars, At!Go, At!Bound, At!Open, At!CanBind, At!NoAnswer, At!Fault, At!OnError, At!Answered, At!Refused
<1>18. CASE At!Status
  BY <1>1, <1>18 DEF At!Status, At!SetupSame, At!EnvSame, At!timeVars, At!Go, At!NoAnswer, At!Fault, At!Open, At!Refused, At!Answered
<1>19. CASE At!Dialed
  BY <1>1, <1>19 DEF At!Dialed, At!modemVars, At!Return
<1>20. CASE At!TakeSignal
  BY <1>1, <1>20, AtHeads DEF At!TakeSignal, At!LoopSame, At!modemVars, At!LinkDown, At!Query, At!Return
<1>21. CASE At!TakeEvent
  BY <1>1, <1>21, AtHeads DEF At!TakeEvent, At!LoopSame, At!modemVars, At!Send, At!LinkDown
<1>22. CASE At!PollTimeout
  BY <1>1, <1>22 DEF At!PollTimeout, At!LoopSame, At!modemVars, At!timeVars, At!Send
<1>23. CASE At!ReaderLeaves
  BY <1>1, <1>23 DEF At!ReaderLeaves, At!modemVars, At!Rest, At!timeVars, At!mainVars, At!Closed
<1>24. CASE At!Hangup
  BY <1>1, <1>24 DEF At!Hangup, At!Rest, At!timeVars, At!mainVars, At!StillOld, At!Closed, At!Open, At!Fault
<1>25. CASE At!Plug
  BY <1>1, <1>25 DEF At!Plug, At!Rest, At!timeVars, At!mainVars
<1>26. CASE \E r \in At!Rat \cup {"none"} : At!Register(r)
  BY <1>1, <1>26 DEF At!Register, At!Rest, At!timeVars, At!mainVars, At!StillOld, At!Urc, At!Open, At!Fault
<1>27. CASE At!CallUp
  BY <1>1, <1>27 DEF At!CallUp, At!Rest, At!timeVars, At!mainVars, At!Urc, At!Open
<1>28. CASE At!CallLost
  BY <1>1, <1>28 DEF At!CallLost, At!Rest, At!timeVars, At!mainVars, At!StillOld, At!Urc, At!Open, At!Fault
<1>29. CASE At!NewAddress
  BY <1>1, <1>29 DEF At!NewAddress, At!Rest, At!timeVars, At!mainVars, At!Fault
<1>30. CASE At!Alarm
  BY <1>1, <1>30 DEF At!Alarm, At!modemVars, At!mainVars
<1>31. CASE At!HoldOver
  BY <1>1, <1>31 DEF At!HoldOver, At!modemVars, At!mainVars
<1>32. CASE At!Kill
  BY <1>1, <1>32 DEF At!Kill, At!modemVars, At!timeVars, At!mainVars, At!Fault
<1>33. CASE UNCHANGED At!vars
  BY <1>1, <1>33 DEF At!vars, At!mainVars, At!timeVars, At!modemVars
<1>34. QED
  BY <1>2, <1>3, <1>4, <1>5, <1>6, <1>7, <1>8, <1>9, <1>10, <1>11, <1>12, <1>13, <1>14, <1>15, <1>16, <1>17, <1>18, <1>19, <1>20, <1>21, <1>22, <1>23, <1>24, <1>25, <1>26, <1>27, <1>28, <1>29, <1>30, <1>31, <1>32, <1>33, Zenon DEF At!Main, At!Modem, At!Clock, At!Next, At!Exited

\* A call is still the older one only while it is there.
LEMMA AtStillOld ==
  ASSUME At!StillOld
  PROVE  (v23' => v23 /\ v21' # "down" /\ (v18 => v20')) /\ v23' \in BOOLEAN
<1>1. v23' = (v23 /\ v21' # "down" /\ (v18 => v20'))
  BY Zenon DEF At!StillOld
<1>2. (v23 /\ v21' # "down" /\ (v18 => v20')) \in BOOLEAN
  OBVIOUS
<1>3. QED
  BY <1>1, <1>2, Zenon

\* The older call and the link.
LEMMA AtStartsUp ==
  ASSUME At!AtInv, At!Next
  PROVE  At!StartsUp'
<1>1. /\ At!Doing /\ At!StartsUp /\ v1 \in At!Task
      /\ v8 \in BOOLEAN /\ v13 \in BOOLEAN /\ v18 \in BOOLEAN /\ v20 \in BOOLEAN /\ v23 \in BOOLEAN
      /\ v14 \in {"up", "stopping", "gone"} /\ v21 \in {"down", "coming", "up"}
      /\ v9 \in Seq({"START", "CHECK", "STOP"}) /\ v10 \in Seq({"VOICE", "DATA", "DISCONNECTED"})
  BY Zenon DEF At!AtInv, At!TypeOK
<1> USE DEF At!Doing, At!StartsUp, At!Task
<1>2. CASE At!Detect
  BY <1>1, <1>2 DEF At!Detect
<1>3. CASE At!AtcInit
  BY <1>1, <1>3 DEF At!AtcInit, At!SetNat, At!Starts, At!Refused, At!timeVars, At!Failed, At!NoAnswer, At!Fault, At!Open, At!RebootAsked, At!Answered
<1>4. CASE At!Quit
  BY <1>1, <1>4 DEF At!Quit, At!modemVars, At!timeVars, At!LinkDown
<1>5. CASE At!Cops
  <2>1. UNCHANGED <<v8, v18, v19, v20, v21, v23, v24>>
    BY <1>5, Zenon DEF At!Cops, At!RegSame, At!EnvSame
  <2>2. v1' = v1 \/ (v1 = "voice" /\ v1' = "poll")
    BY <1>1, <1>5 DEF At!Cops, At!RegSame, At!EnvSame, At!Registered, At!Send, At!Return, At!Query, At!Go, At!Failed, At!NoAnswer, At!Fault, At!Open, At!Answered
  <2>3. v1 \in {"startup", "CHECK", "voice"}
    BY <1>1, <1>5 DEF At!Cops
  <2>4. QED
    BY <1>1, <2>1, <2>2, <2>3
<1>6. CASE At!Creg
  <2>1. UNCHANGED <<v8, v18, v19, v20, v21, v23, v24>>
    BY <1>6, Zenon DEF At!Creg, At!RegSame, At!EnvSame
  <2>2. v1' = v1 \/ (v1 = "voice" /\ v1' = "poll")
    BY <1>1, <1>6 DEF At!Creg, At!RegSame, At!EnvSame, At!Registered, At!Send, At!Return, At!Query, At!Go, At!Displaced, At!Fault, At!Open, At!Failed, At!NoAnswer, At!StateOf, At!Answered
  <2>3. v1 \in {"startup", "CHECK", "voice"}
    BY <1>1, <1>6 DEF At!Creg
  <2>4. QED
    BY <1>1, <2>1, <2>2, <2>3
<1>7. CASE At!QueryNetdev
  BY <1>1, <1>7 DEF At!QueryNetdev, At!QuerySame, At!EnvSame, At!timeVars, At!Found, At!Go, At!Send, At!Return, At!Displaced, At!Fault, At!Open, At!Missed, At!Failed, At!NoAnswer, At!HasCall, At!Answered
<1>8. CASE At!QueryCtl
  BY <1>1, <1>8 DEF At!QueryCtl, At!QuerySame, At!EnvSame, At!timeVars, At!Missed, At!Found, At!Go, At!Send, At!Return, At!Failed, At!NoAnswer, At!Fault, At!Open, At!Answered
<1>9. CASE At!QueryAct
  <2>1. UNCHANGED <<v8, v18, v19, v20, v21, v23>>
    BY <1>9, Zenon DEF At!QueryAct, At!QuerySame, At!EnvSame
  <2>2. v1 \in {"startup", "CHECK"}
    BY <1>1, <1>9 DEF At!QueryAct
  <2>3. v1' = v1 \/ (v1 = "startup" /\ v1' = "poll")
    BY <1>1, <1>9 DEF At!QueryAct, At!QuerySame, At!EnvSame, At!timeVars, At!Missed, At!Found, At!Go, At!Send, At!Return, At!Failed, At!NoAnswer, At!Fault, At!Open, At!Answered
  <2>4. \/ v24' = v24
        \/ v24' = v24 \cup {"call"}
    BY <1>9 DEF At!QueryAct, At!Missed
  <2>5. v1 = "startup" /\ v1' = "poll" => "call" \in v24' \/ ~v20
    BY <1>9 DEF At!QueryAct, At!QuerySame, At!EnvSame, At!timeVars, At!Missed, At!Found, At!Go, At!Send, At!Return, At!Failed, At!NoAnswer, At!Fault, At!Open, At!Answered
  <2>6. v1 = "startup" /\ v1' = "poll" => "call" \in v24' \/ ~v23
    <3>1. v18 /\ (v23 => v20)
      BY <1>1, <1>9 DEF At!QueryAct
    <3>2. QED
      BY <3>1, <2>5, Zenon
  <2>7. QED
    BY <1>1, <2>1, <2>2, <2>3, <2>4, <2>6
<1>10. CASE At!GetIPAddress
  BY <1>1, <1>10 DEF At!GetIPAddress, At!GetIPSame, At!EnvSame, At!timeVars, At!Go, At!Keep, At!GetIP, At!Displaced, At!Fault, At!Open, At!Failed, At!NoAnswer, At!HasAddress, At!Answered
<1>11. CASE At!Compare
  BY <1>1, <1>11 DEF At!Compare, At!GetIPSame, At!EnvSame, At!timeVars, At!SameAddress, At!Go, At!Keep, At!GetIP, At!Displaced, At!Fault, At!Open, At!Failed, At!NoAnswer, At!HasAddress, At!Answered
<1>12. CASE At!Deactivate
  <2>1. UNCHANGED <<v18, v19, v20>>
    BY <1>12, Zenon DEF At!Deactivate
  <2>2. (v23' => v23 /\ v21' # "down" /\ (v18 => v20')) /\ v23' \in BOOLEAN
    BY <1>12, AtStillOld, Zenon DEF At!Deactivate
  <2>3. v1 \in {"startup", "CHECK", "STOP"}
    BY <1>1, <1>12 DEF At!Deactivate
  <2>4. /\ v21' \in {v21, "down"}
        /\ v21' = "down" \/ v24' = IF v1 = "startup" THEN v24 \cup {"call"} ELSE v24
        /\ v24' = v24 \/ v24' = v24 \cup {"call"}
    BY <1>12 DEF At!Deactivate, At!Missed
  <2>5. /\ v1 = "startup" => v1' = "poll" /\ v8' = v8
        /\ v1 = "CHECK" => v1' = "CHECK"
        /\ v1 = "STOP" => v1' = "quit"
    BY <1>12 DEF At!Deactivate, At!Return, At!Go
  <2>6. QED
    BY <1>1, <2>1, <2>2, <2>3, <2>4, <2>5
<1>13. CASE At!Settle
  BY <1>1, <1>13 DEF At!Settle, At!MainOnly, At!modemVars, At!timeVars, At!Return, At!Send, At!LinkDown, At!Go
<1>14. CASE At!Dhcp
  BY <1>1, <1>14 DEF At!Dhcp, At!MainOnly, At!modemVars, At!timeVars, At!Return, At!Fault, At!HasCall, At!Lease
<1>15. CASE At!Context
  BY <1>1, <1>15 DEF At!Context, At!SetupSame, At!EnvSame, At!timeVars, At!Go, At!NoAnswer, At!Fault, At!Open, At!Refused, At!Answered
<1>16. CASE At!Activate
  BY <1>1, <1>16 DEF At!Activate, At!SetupSame, At!EnvSame, At!timeVars, At!Go, At!NoAnswer, At!Fault, At!Open, At!Answered, At!Refused
<1>17. CASE At!Bind
  BY <1>1, <1>17 DEF At!Bind, At!SetupSame, At!EnvSame, At!timeVars, At!Go, At!Bound, At!Open, At!CanBind, At!NoAnswer, At!Fault, At!OnError, At!Answered, At!Refused
<1>18. CASE At!Status
  BY <1>1, <1>18 DEF At!Status, At!SetupSame, At!EnvSame, At!timeVars, At!Go, At!NoAnswer, At!Fault, At!Open, At!Refused, At!Answered
<1>19. CASE At!Dialed
  BY <1>1, <1>19 DEF At!Dialed, At!modemVars, At!Return
<1>20. CASE At!TakeSignal
  BY <1>1, <1>20, AtHeads DEF At!TakeSignal, At!LoopSame, At!modemVars, At!LinkDown, At!Query, At!Return
<1>21. CASE At!TakeEvent
  BY <1>1, <1>21, AtHeads DEF At!TakeEvent, At!LoopSame, At!modemVars, At!Send, At!LinkDown
<1>22. CASE At!PollTimeout
  BY <1>1, <1>22 DEF At!PollTimeout, At!LoopSame, At!modemVars, At!timeVars, At!Send
<1>23. CASE At!ReaderLeaves
  BY <1>1, <1>23 DEF At!ReaderLeaves, At!modemVars, At!Rest, At!timeVars, At!mainVars, At!Closed
<1>24. CASE At!Hangup
  BY <1>1, <1>24 DEF At!Hangup, At!Rest, At!timeVars, At!mainVars, At!StillOld, At!Closed, At!Open, At!Fault
<1>25. CASE At!Plug
  BY <1>1, <1>25 DEF At!Plug, At!Rest, At!timeVars, At!mainVars
<1>26. CASE \E r \in At!Rat \cup {"none"} : At!Register(r)
  <2>1. UNCHANGED <<v1, v8, v14, v18, v24, v9>>
    BY <1>26, Zenon DEF At!Register, At!Rest, At!mainVars
  <2>2. (v23' => v23 /\ v21' # "down" /\ (v18 => v20')) /\ v23' \in BOOLEAN
    BY <1>26, AtStillOld, Zenon DEF At!Register
  <2>3. /\ v19' = "none" => v20' = FALSE /\ v21' = "down"
        /\ v19' # "none" => v20' = v20 /\ v21' = v21
    BY <1>26 DEF At!Register
  <2>4. v20' => v19' # "none"
    BY <2>3, Zenon
  <2>5. v14 = "gone" => v10' = v10
    BY <1>26 DEF At!Register, At!Urc, At!Open
  <2>6. v21' \in {v21, "down"}
    BY <2>3
  <2>7. QED
    BY <1>1, <2>1, <2>2, <2>4, <2>5, <2>6
<1>27. CASE At!CallUp
  BY <1>1, <1>27 DEF At!CallUp, At!Rest, At!timeVars, At!mainVars, At!Urc, At!Open
<1>28. CASE At!CallLost
  <2>1. UNCHANGED <<v1, v8, v9, v14, v18, v19, v24>>
    BY <1>28, Zenon DEF At!CallLost, At!Rest, At!mainVars
  <2>2. (v23' => v23 /\ v21' # "down" /\ (v18 => v20')) /\ v23' \in BOOLEAN
    BY <1>28, AtStillOld, Zenon DEF At!CallLost
  <2>3. v21' \in {v21, "down"} /\ (v20' = v20 \/ v20' = FALSE)
    BY <1>28 DEF At!CallLost
  <2>4. v20' => v20
    BY <2>3, Zenon
  <2>5. v14 = "gone" => v10' = v10
    BY <1>28 DEF At!CallLost, At!Urc, At!Open
  <2>6. QED
    BY <1>1, <2>1, <2>2, <2>3, <2>4, <2>5
<1>29. CASE At!NewAddress
  BY <1>1, <1>29 DEF At!NewAddress, At!Rest, At!timeVars, At!mainVars, At!Fault
<1>30. CASE At!Alarm
  BY <1>1, <1>30 DEF At!Alarm, At!modemVars, At!mainVars
<1>31. CASE At!HoldOver
  BY <1>1, <1>31 DEF At!HoldOver, At!modemVars, At!mainVars
<1>32. CASE At!Kill
  BY <1>1, <1>32 DEF At!Kill, At!modemVars, At!timeVars, At!mainVars, At!Fault
<1>33. CASE UNCHANGED At!vars
  BY <1>1, <1>33 DEF At!vars, At!mainVars, At!timeVars, At!modemVars
<1>34. QED
  BY <1>2, <1>3, <1>4, <1>5, <1>6, <1>7, <1>8, <1>9, <1>10, <1>11, <1>12, <1>13, <1>14, <1>15, <1>16, <1>17, <1>18, <1>19, <1>20, <1>21, <1>22, <1>23, <1>24, <1>25, <1>26, <1>27, <1>28, <1>29, <1>30, <1>31, <1>32, <1>33, Zenon DEF At!Main, At!Modem, At!Clock, At!Next, At!Exited

\* What comes into a socket and goes out of it.
LEMMA AtSockets ==
  ASSUME At!AtInv
  PROVE  /\ v9' \in {v9, Append(v9, "START"), Append(v9, "CHECK")} =>
              (At!Stops' => At!Stops)
         /\ v10' \in {v10, Append(v10, "VOICE"), Append(v10, "DATA")} => (At!HungUp' => At!HungUp)
         /\ v9 # <<>> => (Head(v9) = "STOP" => At!Stops) /\ (v9' = Tail(v9) => (At!Stops' => At!Stops))
         /\ v10 # <<>> => (Head(v10) = "DISCONNECTED" => At!HungUp) /\ (v10' = Tail(v10) => (At!HungUp' => At!HungUp))
<1>1. v9 \in Seq({"START", "CHECK", "STOP"}) /\ v10 \in Seq({"VOICE", "DATA", "DISCONNECTED"})
  BY Zenon DEF At!AtInv, At!TypeOK
<1>2. ASSUME v9' \in {v9, Append(v9, "START"), Append(v9, "CHECK")}
      PROVE  (At!Stops' => At!Stops)
  <2>1. CASE v9' = v9
    BY <2>1 DEF At!Stops
  <2>2. ASSUME NEW e \in {"START", "CHECK"}, v9' = Append(v9, e)
        PROVE  (At!Stops' => At!Stops)
    BY <1>1, <2>2 DEF At!Stops
  <2>3. QED
    BY <1>2, <2>1, <2>2
<1>3. ASSUME v10' \in {v10, Append(v10, "VOICE"), Append(v10, "DATA")}
      PROVE  At!HungUp' => At!HungUp
  <2>1. CASE v10' = v10
    BY <2>1 DEF At!HungUp
  <2>2. ASSUME NEW e \in {"VOICE", "DATA"}, v10' = Append(v10, e) PROVE At!HungUp' => At!HungUp
    BY <1>1, <2>2 DEF At!HungUp
  <2>3. QED
    BY <1>3, <2>1, <2>2
<1>4. ASSUME v9 # <<>>
      PROVE  (Head(v9) = "STOP" => At!Stops) /\ (v9' = Tail(v9) => (At!Stops' => At!Stops))
  <2>1. Len(v9) \in Nat /\ 1 \in DOMAIN v9 /\ Head(v9) = v9[1]
    BY <1>1, <1>4
  <2>2. ASSUME v9' = Tail(v9), NEW i \in DOMAIN v9', v9'[i] = "STOP" PROVE At!Stops
    <3>1. i + 1 \in DOMAIN v9 /\ v9[i + 1] = v9'[i]
      BY <1>1, <1>4, <2>2
    <3>2. QED
      BY <2>2, <3>1 DEF At!Stops
  <2>3. QED
    BY <2>1, <2>2, Zenon DEF At!Stops
<1>5. ASSUME v10 # <<>>
      PROVE  (Head(v10) = "DISCONNECTED" => At!HungUp) /\ (v10' = Tail(v10) => (At!HungUp' => At!HungUp))
  <2>1. Len(v10) \in Nat /\ 1 \in DOMAIN v10 /\ Head(v10) = v10[1]
    BY <1>1, <1>5
  <2>2. ASSUME v10' = Tail(v10), NEW i \in DOMAIN v10', v10'[i] = "DISCONNECTED" PROVE At!HungUp
    <3>1. i + 1 \in DOMAIN v10 /\ v10[i + 1] = v10'[i]
      BY <1>1, <1>5, <2>2
    <3>2. QED
      BY <2>2, <3>1 DEF At!HungUp
  <2>3. QED
    BY <2>1, <2>2, Zenon DEF At!HungUp
<1>6. QED
  BY <1>2, <1>3, <1>4, <1>5

\* A step that ends no session.
LEMMA AtQuiet ==
  ASSUME At!AtInv, UNCHANGED <<v13, v14, v15, v16, v17, v25>>, v21' \in {v21, "down"}, v24 \subseteq v24',
         v9' \in {v9, Append(v9, "START"), Append(v9, "CHECK")},
         v10' \in {v10, Append(v10, "VOICE"), Append(v10, "DATA")},
         v1 \in {"startup", "voice", "CHECK"}, v1' \in {v1, "poll"}
  PROVE  At!Lives'
<1>1. At!Lives
  BY Zenon DEF At!AtInv
<1>2. /\ At!Stops' => At!Stops
      /\ At!HungUp' => At!HungUp
  BY AtSockets
<1>3. QED
  BY <1>1, <1>2 DEF At!Lives

\* What ends a session.
LEMMA AtLives ==
  ASSUME At!AtInv, At!Next
  PROVE  At!Lives'
<1>1. /\ At!Doing /\ At!Lives /\ At!StartsUp /\ v1 \in At!Task
      /\ v11 \in BOOLEAN /\ v13 \in BOOLEAN /\ v15 \in BOOLEAN /\ v16 \in BOOLEAN /\ v17 \in BOOLEAN /\ v25 \in BOOLEAN
      /\ v14 \in {"up", "stopping", "gone"} /\ v21 \in {"down", "coming", "up"}
      /\ v9 \in Seq({"START", "CHECK", "STOP"}) /\ v10 \in Seq({"VOICE", "DATA", "DISCONNECTED"})
  BY Zenon DEF At!AtInv, At!TypeOK
<1> USE DEF At!Doing, At!StartsUp, At!Task, At!Lives
<1>2. CASE At!Detect
  BY <1>1, <1>2 DEF At!Detect, At!HungUp, At!Stops
<1>3. CASE At!AtcInit
  BY <1>1, <1>3 DEF At!AtcInit, At!SetNat, At!Starts, At!Refused, At!timeVars, At!Failed, At!NoAnswer, At!Fault, At!Open, At!RebootAsked, At!Answered, At!HungUp, At!Stops
<1>4. CASE At!Quit
  BY <1>1, <1>4 DEF At!Quit, At!modemVars, At!timeVars, At!LinkDown, At!HungUp, At!Stops
<1>5. CASE At!Cops
  BY <1>1, <1>5 DEF At!Cops, At!RegSame, At!EnvSame, At!Registered, At!Send, At!Return, At!Query, At!Go, At!Failed, At!NoAnswer, At!Fault, At!Open, At!Answered, At!HungUp, At!Stops
<1>6. CASE At!Creg
  <2>1. UNCHANGED <<v13, v14, v15, v16, v17, v25>>
    BY <1>6, Zenon DEF At!Creg, At!RegSame, At!EnvSame
  <2>2. v21' \in {v21, "down"} /\ v24 \subseteq v24'
    BY <1>6 DEF At!Creg, At!RegSame, At!EnvSame, At!Missed
  <2>3. v9' \in {v9, Append(v9, "START"), Append(v9, "CHECK")} /\ v1' \in {v1, "poll"} /\ v1 \in {"startup", "voice", "CHECK"}
    BY <1>1, <1>6 DEF At!Creg, At!RegSame, At!EnvSame, At!Registered, At!Send, At!Return, At!Query, At!Go, At!Displaced, At!Fault, At!Open, At!Failed, At!NoAnswer, At!StateOf, At!Answered
  <2>4. v10' \in {v10, Append(v10, "VOICE"), Append(v10, "DATA")}
    BY <1>6 DEF At!Creg, At!RegSame, At!EnvSame, At!Displaced, At!GetIP
  <2>5. QED
    BY <2>1, <2>2, <2>3, <2>4, AtQuiet
<1>7. CASE At!QueryNetdev
  <2>1. UNCHANGED <<v13, v14, v15, v16, v17, v25>>
    BY <1>7, Zenon DEF At!QueryNetdev, At!QuerySame, At!EnvSame
  <2>2. v21' \in {v21, "down"} /\ v24 \subseteq v24'
    BY <1>7 DEF At!QueryNetdev, At!QuerySame, At!EnvSame, At!Missed
  <2>3. v9' \in {v9, Append(v9, "START"), Append(v9, "CHECK")} /\ v1' \in {v1, "poll"} /\ v1 \in {"startup", "voice", "CHECK"}
    BY <1>1, <1>7 DEF At!QueryNetdev, At!QuerySame, At!EnvSame, At!timeVars, At!Found, At!Go, At!Send, At!Return, At!Displaced, At!Fault, At!Open, At!Missed, At!Failed, At!NoAnswer, At!HasCall, At!Answered
  <2>4. v10' \in {v10, Append(v10, "VOICE"), Append(v10, "DATA")}
    BY <1>7 DEF At!QueryNetdev, At!QuerySame, At!EnvSame, At!Displaced, At!GetIP
  <2>5. QED
    BY <2>1, <2>2, <2>3, <2>4, AtQuiet
<1>8. CASE At!QueryCtl
  <2>1. UNCHANGED <<v13, v14, v15, v16, v17, v25>>
    BY <1>8, Zenon DEF At!QueryCtl, At!QuerySame, At!EnvSame
  <2>2. v21' \in {v21, "down"} /\ v24 \subseteq v24'
    BY <1>8 DEF At!QueryCtl, At!QuerySame, At!EnvSame, At!Missed
  <2>3. v9' \in {v9, Append(v9, "START"), Append(v9, "CHECK")} /\ v1' \in {v1, "poll"} /\ v1 \in {"startup", "voice", "CHECK"}
    BY <1>1, <1>8 DEF At!QueryCtl, At!QuerySame, At!EnvSame, At!timeVars, At!Missed, At!Found, At!Go, At!Send, At!Return, At!Failed, At!NoAnswer, At!Fault, At!Open, At!Answered
  <2>4. v10' \in {v10, Append(v10, "VOICE"), Append(v10, "DATA")}
    BY <1>8 DEF At!QueryCtl, At!QuerySame, At!EnvSame, At!Displaced, At!GetIP
  <2>5. QED
    BY <2>1, <2>2, <2>3, <2>4, AtQuiet
<1>9. CASE At!QueryAct
  <2>1. UNCHANGED <<v13, v14, v15, v16, v17, v25>>
    BY <1>9, Zenon DEF At!QueryAct, At!QuerySame, At!EnvSame
  <2>2. v21' \in {v21, "down"} /\ v24 \subseteq v24'
    BY <1>9 DEF At!QueryAct, At!QuerySame, At!EnvSame, At!Missed
  <2>3. v9' \in {v9, Append(v9, "START"), Append(v9, "CHECK")} /\ v1' \in {v1, "poll"} /\ v1 \in {"startup", "voice", "CHECK"}
    BY <1>1, <1>9 DEF At!QueryAct, At!QuerySame, At!EnvSame, At!timeVars, At!Missed, At!Found, At!Go, At!Send, At!Return, At!Failed, At!NoAnswer, At!Fault, At!Open, At!Answered
  <2>4. v10' \in {v10, Append(v10, "VOICE"), Append(v10, "DATA")}
    BY <1>9 DEF At!QueryAct, At!QuerySame, At!EnvSame, At!Displaced, At!GetIP
  <2>5. QED
    BY <2>1, <2>2, <2>3, <2>4, AtQuiet
<1>10. CASE At!GetIPAddress
  BY <1>1, <1>10 DEF At!GetIPAddress, At!GetIPSame, At!EnvSame, At!timeVars, At!Go, At!Keep, At!GetIP, At!Displaced, At!Fault, At!Open, At!Failed, At!NoAnswer, At!HasAddress, At!Answered, At!HungUp, At!Stops
<1>11. CASE At!Compare
  <2>1. UNCHANGED <<v13, v14, v15, v16, v17, v25>>
    BY <1>11, Zenon DEF At!Compare, At!GetIPSame, At!EnvSame
  <2>2. v21' \in {v21, "down"} /\ v24 \subseteq v24'
    BY <1>11 DEF At!Compare, At!GetIPSame, At!EnvSame, At!Missed
  <2>3. v9' \in {v9, Append(v9, "START"), Append(v9, "CHECK")} /\ v1' \in {v1, "poll"} /\ v1 \in {"startup", "voice", "CHECK"}
    BY <1>1, <1>11 DEF At!Compare, At!GetIPSame, At!EnvSame, At!timeVars, At!SameAddress, At!Go, At!Keep, At!GetIP, At!Displaced, At!Fault, At!Open, At!Failed, At!NoAnswer, At!HasAddress, At!Answered
  <2>4. v10' \in {v10, Append(v10, "VOICE"), Append(v10, "DATA")}
    BY <1>11 DEF At!Compare, At!GetIPSame, At!EnvSame, At!Displaced, At!GetIP
  <2>5. QED
    BY <2>1, <2>2, <2>3, <2>4, AtQuiet
<1>12. CASE At!Deactivate
  <2>1. UNCHANGED <<v10, v13, v14, v15, v16, v17, v25>>
    BY <1>12, Zenon DEF At!Deactivate
  <2>2. v21' \in {v21, "down"} /\ v24 \subseteq v24'
    BY <1>12 DEF At!Deactivate, At!Missed
  <2>3. CASE v1 \in {"startup", "CHECK"}
    <3>1. v9' \in {v9, Append(v9, "START"), Append(v9, "CHECK")} /\ v1' \in {v1, "poll"}
      BY <1>12, <2>3 DEF At!Deactivate, At!Return, At!Send, At!Go
    <3>2. QED
      BY <2>1, <2>2, <2>3, <3>1, AtQuiet
  <2>4. CASE v1 = "STOP"
    <3>1. v9' = v9 /\ v1' = "quit"
      BY <1>12, <2>4 DEF At!Deactivate
    <3>2. (At!Stops' <=> At!Stops) /\ (At!HungUp' <=> At!HungUp)
      BY <2>1, <3>1, Zenon DEF At!Stops, At!HungUp
    <3>3. QED
      BY <1>1, <2>1, <2>2, <2>4, <3>1, <3>2
  <2>5. QED
    BY <1>1, <1>12, <2>3, <2>4 DEF At!Deactivate
<1>13. CASE At!Settle
  BY <1>1, <1>13 DEF At!Settle, At!MainOnly, At!modemVars, At!timeVars, At!Return, At!Send, At!LinkDown, At!Go, At!HungUp, At!Stops
<1>14. CASE At!Dhcp
  BY <1>1, <1>14 DEF At!Dhcp, At!MainOnly, At!modemVars, At!timeVars, At!Return, At!Fault, At!HasCall, At!Lease, At!HungUp, At!Stops
<1>15. CASE At!Context
  BY <1>1, <1>15 DEF At!Context, At!SetupSame, At!EnvSame, At!timeVars, At!Go, At!NoAnswer, At!Fault, At!Open, At!Refused, At!Answered, At!HungUp, At!Stops
<1>16. CASE At!Activate
  BY <1>1, <1>16 DEF At!Activate, At!SetupSame, At!EnvSame, At!timeVars, At!Go, At!NoAnswer, At!Fault, At!Open, At!Answered, At!Refused, At!HungUp, At!Stops
<1>17. CASE At!Bind
  BY <1>1, <1>17, SMTT(30) DEF At!Bind, At!SetupSame, At!EnvSame, At!timeVars, At!Go, At!Bound, At!Open, At!CanBind, At!NoAnswer, At!Fault, At!OnError, At!Answered, At!Refused, At!HungUp, At!Stops
<1>18. CASE At!Status
  BY <1>1, <1>18 DEF At!Status, At!SetupSame, At!EnvSame, At!timeVars, At!Go, At!NoAnswer, At!Fault, At!Open, At!Refused, At!Answered, At!HungUp, At!Stops
<1>19. CASE At!Dialed
  BY <1>1, <1>19 DEF At!Dialed, At!modemVars, At!Return, At!HungUp, At!Stops
<1>20. CASE At!TakeSignal
  <2>1. UNCHANGED <<v10, v13, v14, v15, v16, v17, v21, v24, v25>> /\ v9' = Tail(v9) /\ v9 # <<>> /\ v1 = "poll"
    BY <1>20, Zenon DEF At!TakeSignal, At!LoopSame, At!modemVars
  <2>2. v1' \in {"poll", "START", "CHECK", "STOP", "quit"} /\ (v1' \in {"STOP", "quit"} <=> Head(v9) = "STOP")
    BY <1>20, AtHeads DEF At!TakeSignal, At!Return
  <2>3. (At!Stops' => At!Stops) /\ (Head(v9) = "STOP" => At!Stops)
    BY <2>1, AtSockets
  <2>4. At!HungUp' <=> At!HungUp
    BY <2>1, Zenon DEF At!HungUp
  <2>5. QED
    BY <1>1, <2>1, <2>2, <2>3, <2>4
<1>21. CASE At!TakeEvent
  <2>1. UNCHANGED <<v13, v14, v15, v16, v17, v21, v24, v25>> /\ v10' = Tail(v10) /\ v10 # <<>> /\ v1 = "poll"
    BY <1>21, Zenon DEF At!TakeEvent, At!LoopSame, At!modemVars
  <2>2. v1' \in {"poll", "voice", "quit"} /\ (v1' = "quit" <=> Head(v10) = "DISCONNECTED")
    BY <2>1, <1>21, AtHeads DEF At!TakeEvent
  <2>3. v9' \in {v9, Append(v9, "START"), Append(v9, "CHECK")}
    BY <1>21, AtHeads DEF At!TakeEvent, At!Send
  <2>4. (At!HungUp' => At!HungUp) /\ (Head(v10) = "DISCONNECTED" => At!HungUp) /\ (At!Stops' => At!Stops)
    BY <2>1, <2>3, AtSockets
  <2>5. QED
    BY <1>1, <2>1, <2>2, <2>4
<1>22. CASE At!PollTimeout
  BY <1>1, <1>22 DEF At!PollTimeout, At!LoopSame, At!modemVars, At!timeVars, At!Send, At!HungUp, At!Stops
<1>23. CASE At!ReaderLeaves
  BY <1>1, <1>23 DEF At!ReaderLeaves, At!modemVars, At!Rest, At!timeVars, At!mainVars, At!Closed, At!HungUp, At!Stops
<1>24. CASE At!Hangup
  BY <1>1, <1>24 DEF At!Hangup, At!Rest, At!timeVars, At!mainVars, At!StillOld, At!Closed, At!Open, At!Fault, At!HungUp, At!Stops
<1>25. CASE At!Plug
  BY <1>1, <1>25 DEF At!Plug, At!Rest, At!timeVars, At!mainVars, At!HungUp, At!Stops
<1>26. CASE \E r \in At!Rat \cup {"none"} : At!Register(r)
  BY <1>1, <1>26 DEF At!Register, At!Rest, At!timeVars, At!mainVars, At!StillOld, At!Urc, At!Open, At!Fault, At!HungUp, At!Stops
<1>27. CASE At!CallUp
  BY <1>1, <1>27 DEF At!CallUp, At!Rest, At!timeVars, At!mainVars, At!Urc, At!Open, At!HungUp, At!Stops
<1>28. CASE At!CallLost
  BY <1>1, <1>28, SMTT(30) DEF At!CallLost, At!Rest, At!timeVars, At!mainVars, At!StillOld, At!Urc, At!Open, At!Fault, At!HungUp, At!Stops
<1>29. CASE At!NewAddress
  BY <1>1, <1>29 DEF At!NewAddress, At!Rest, At!timeVars, At!mainVars, At!Fault, At!HungUp, At!Stops
<1>30. CASE At!Alarm
  BY <1>1, <1>30 DEF At!Alarm, At!modemVars, At!mainVars, At!HungUp, At!Stops
<1>31. CASE At!HoldOver
  BY <1>1, <1>31 DEF At!HoldOver, At!modemVars, At!mainVars, At!HungUp, At!Stops
<1>32. CASE At!Kill
  BY <1>1, <1>32 DEF At!Kill, At!modemVars, At!timeVars, At!mainVars, At!Fault, At!HungUp, At!Stops
<1>33. CASE UNCHANGED At!vars
  BY <1>1, <1>33 DEF At!vars, At!mainVars, At!timeVars, At!modemVars, At!HungUp, At!Stops
<1>34. QED
  BY <1>2, <1>3, <1>4, <1>5, <1>6, <1>7, <1>8, <1>9, <1>10, <1>11, <1>12, <1>13, <1>14, <1>15, <1>16, <1>17, <1>18, <1>19, <1>20, <1>21, <1>22, <1>23, <1>24, <1>25, <1>26, <1>27, <1>28, <1>29, <1>30, <1>31, <1>32, <1>33, ZenonT(40) DEF At!Main, At!Modem, At!Clock, At!Next, At!Exited

\* What is no flag and no socket.
LEMMA AtValues ==
  ASSUME At!AtInv, At!Next
  PROVE  /\ v4' \in At!Rat \cup {"none"} /\ v5' \in {"UNKNOW", "DISCONNECTED", "CONNECTED"}
         /\ v6' \in Addr \cup {0, Odd} /\ v7' \in Addr \cup {0} /\ v14' \in {"up", "stopping", "gone"}
         /\ v19' \in At!Rat \cup {"none"} /\ v21' \in {"down", "coming", "up"} /\ v22' \in Addr
         /\ v24' \subseteq {"call", "end"} /\ v26' \in 0..MaxFaults
<1>1. /\ v4 \in At!Rat \cup {"none"} /\ v5 \in {"UNKNOW", "DISCONNECTED", "CONNECTED"}
      /\ v6 \in Addr \cup {0, Odd} /\ v7 \in Addr \cup {0} /\ v14 \in {"up", "stopping", "gone"}
      /\ v19 \in At!Rat \cup {"none"} /\ v21 \in {"down", "coming", "up"} /\ v22 \in Addr
      /\ v24 \subseteq {"call", "end"} /\ v26 \in 0..MaxFaults
      /\ v18 \in BOOLEAN /\ At!Doing /\ v1 \in At!Task
  BY ZenonT(40) DEF At!AtInv, At!TypeOK
<1> USE SharedAssumption DEF At!Rat, At!Doing, At!Task
<1>2. CASE At!Detect
  <2>1. UNCHANGED <<v4, v6, v7, v19, v21, v22, v26>>
    BY <1>2, ZenonT(40) DEF At!Detect
  <2>2. /\ v5' = v5 \/ v5' = "UNKNOW"
        /\ v14' = v14 \/ v14' = "up"
        /\ v24' = v24 \/ v24' = (v24 \ {"call"}) \cup (IF v21 = "coming" THEN {"call"} ELSE {})
    BY <1>2, ZenonT(40) DEF At!Detect
  <2>3. v5' \in {"UNKNOW", "DISCONNECTED", "CONNECTED"}
    BY <1>1, <2>2, ZenonT(40)
  <2>4. v14' \in {"up", "stopping", "gone"}
    BY <1>1, <2>2, ZenonT(40)
  <2>5. v24' \subseteq {"call", "end"}
    BY <1>1, <2>2
  <2>6. QED
    BY <1>1, <2>1, <2>3, <2>4, <2>5, ZenonT(40)
<1>3. CASE At!AtcInit
  <2>1. UNCHANGED <<v4, v5, v6, v7, v14, v19, v21, v22>>
    BY <1>3, ZenonT(40) DEF At!AtcInit, At!SetNat, At!Starts
  <2>2. v24' \subseteq {"call", "end"}
    <3>1. v24' = v24 \/ v24' = v24 \cup {"end"}
      BY <1>3 DEF At!AtcInit, At!SetNat, At!Starts
    <3>2. QED
      BY <1>1, <3>1
  <2>3. v26' \in 0..MaxFaults
    <3>1. v26' = v26 \/ (v26 > 0 /\ v26' = v26 - 1)
      BY <1>3 DEF At!AtcInit, At!SetNat, At!Starts, At!Refused, At!Answered, At!Failed, At!NoAnswer, At!Fault
    <3>2. QED
      BY <1>1, <3>1
  <2>4. QED
    BY <1>1, <2>1, <2>2, <2>3, Zenon
<1>4. CASE At!Quit
  BY <1>1, <1>4 DEF At!Quit, At!modemVars, At!timeVars, At!LinkDown
<1>5. CASE At!Cops
  <2>1. UNCHANGED <<v5, v6, v7, v14, v19, v21, v22, v24>>
    BY <1>5, Zenon DEF At!Cops, At!RegSame, At!EnvSame
  <2>2. v4' \in At!Rat \cup {"none"}
    <3>1. v4' \in {v4, v19, "none"}
      BY <1>5 DEF At!Cops
    <3>2. QED
      BY <1>1, <3>1
  <2>3. v26' \in 0..MaxFaults
    <3>1. v26' = v26 \/ (v26 > 0 /\ v26' = v26 - 1)
      BY <1>5 DEF At!Cops, At!Answered, At!Failed, At!NoAnswer, At!Fault
    <3>2. QED
      BY <1>1, <3>1
  <2>4. QED
    BY <1>1, <2>1, <2>2, <2>3, Zenon
<1>6. CASE At!Creg
  <2>1. UNCHANGED <<v4, v5, v6, v7, v14, v19, v21, v22, v24>>
    BY <1>6, Zenon DEF At!Creg, At!RegSame, At!EnvSame
  <2>2. v26' \in 0..MaxFaults
    <3>1. v26' = v26 \/ (v26 > 0 /\ v26' = v26 - 1)
      BY <1>6 DEF At!Creg, At!Answered, At!Failed, At!NoAnswer, At!Displaced, At!Fault
    <3>2. QED
      BY <1>1, <3>1
  <2>3. QED
    BY <1>1, <2>1, <2>2, Zenon
<1>7. CASE At!QueryNetdev
  <2>1. UNCHANGED <<v4, v6, v7, v14, v19, v21, v22>>
    BY <1>7, Zenon DEF At!QueryNetdev, At!QuerySame, At!EnvSame
  <2>2. v5' \in {"UNKNOW", "DISCONNECTED", "CONNECTED"}
    <3>1. v5' \in {v5, "CONNECTED", "DISCONNECTED"}
      BY <1>7 DEF At!QueryNetdev, At!Found
    <3>2. QED
      BY <1>1, <3>1
  <2>3. v24' \subseteq {"call", "end"}
    <3>1. v24' = v24 \/ v24' = v24 \cup {"call"}
      BY <1>7 DEF At!QueryNetdev, At!Missed
    <3>2. QED
      BY <1>1, <3>1
  <2>4. v26' \in 0..MaxFaults
    <3>1. v26' = v26 \/ (v26 > 0 /\ v26' = v26 - 1)
      BY <1>7 DEF At!QueryNetdev, At!Answered, At!Failed, At!NoAnswer, At!Displaced, At!Fault
    <3>2. QED
      BY <1>1, <3>1
  <2>5. QED
    BY <1>1, <2>1, <2>2, <2>3, <2>4, Zenon
<1>8. CASE At!QueryCtl
  <2>1. UNCHANGED <<v4, v6, v7, v14, v19, v21, v22>>
    BY <1>8, Zenon DEF At!QueryCtl, At!QuerySame, At!EnvSame
  <2>2. v5' \in {"UNKNOW", "DISCONNECTED", "CONNECTED"}
    <3>1. v5' \in {v5, "CONNECTED", "DISCONNECTED"}
      BY <1>8 DEF At!QueryCtl, At!Found
    <3>2. QED
      BY <1>1, <3>1
  <2>3. v24' \subseteq {"call", "end"}
    <3>1. v24' = v24 \/ v24' = v24 \cup {"call"}
      BY <1>8 DEF At!QueryCtl, At!Missed
    <3>2. QED
      BY <1>1, <3>1
  <2>4. v26' \in 0..MaxFaults
    <3>1. v26' = v26 \/ (v26 > 0 /\ v26' = v26 - 1)
      BY <1>8 DEF At!QueryCtl, At!Answered, At!Failed, At!NoAnswer, At!Fault
    <3>2. QED
      BY <1>1, <3>1
  <2>5. QED
    BY <1>1, <2>1, <2>2, <2>3, <2>4, Zenon
<1>9. CASE At!QueryAct
  <2>1. UNCHANGED <<v4, v6, v7, v14, v19, v21, v22>>
    BY <1>9, Zenon DEF At!QueryAct, At!QuerySame, At!EnvSame
  <2>2. v5' \in {"UNKNOW", "DISCONNECTED", "CONNECTED"}
    <3>1. v5' \in {v5, "CONNECTED", "DISCONNECTED"}
      BY <1>9 DEF At!QueryAct, At!Found
    <3>2. QED
      BY <1>1, <3>1
  <2>3. v24' \subseteq {"call", "end"}
    <3>1. v24' = v24 \/ v24' = v24 \cup {"call"}
      BY <1>9 DEF At!QueryAct, At!Missed
    <3>2. QED
      BY <1>1, <3>1
  <2>4. v26' \in 0..MaxFaults
    <3>1. v26' = v26 \/ (v26 > 0 /\ v26' = v26 - 1)
      BY <1>9 DEF At!QueryAct, At!Answered, At!Failed, At!NoAnswer, At!Fault
    <3>2. QED
      BY <1>1, <3>1
  <2>5. QED
    BY <1>1, <2>1, <2>2, <2>3, <2>4, Zenon
<1>10. CASE At!GetIPAddress
  BY <1>1, <1>10 DEF At!GetIPAddress, At!GetIPSame, At!EnvSame, At!timeVars, At!Go, At!Keep, At!GetIP, At!Displaced, At!Fault, At!Open, At!Failed, At!NoAnswer, At!HasAddress, At!Answered
<1>11. CASE At!Compare
  BY <1>1, <1>11 DEF At!Compare, At!GetIPSame, At!EnvSame, At!timeVars, At!SameAddress, At!Go, At!Keep, At!GetIP, At!Displaced, At!Fault, At!Open, At!Failed, At!NoAnswer, At!HasAddress, At!Answered
<1>12. CASE At!Deactivate
  <2>1. UNCHANGED <<v4, v14, v19, v22>>
    BY <1>12, Zenon DEF At!Deactivate
  <2>2. v1 \in {"startup", "CHECK", "STOP"}
    BY <1>1, <1>12 DEF At!Deactivate
  <2>3. v5' \in {"UNKNOW", "DISCONNECTED", "CONNECTED"}
    <3>1. v5' \in {v5, "DISCONNECTED"}
      BY <1>12, <2>2 DEF At!Deactivate
    <3>2. QED
      BY <1>1, <3>1
  <2>4. v6' \in Addr \cup {0, Odd}
    <3>1. v6' \in {v6, 0}
      BY <1>12, <2>2 DEF At!Deactivate, At!LinkDown
    <3>2. QED
      BY <1>1, <3>1
  <2>5. v7' \in Addr \cup {0}
    <3>1. v7' \in {v7, 0}
      BY <1>12, <2>2 DEF At!Deactivate, At!LinkDown
    <3>2. QED
      BY <1>1, <3>1
  <2>6. v21' \in {"down", "coming", "up"}
    <3>1. v21' \in {v21, "down"}
      BY <1>12 DEF At!Deactivate
    <3>2. QED
      BY <1>1, <3>1
  <2>7. v24' \subseteq {"call", "end"}
    <3>1. v24' = v24 \/ v24' = v24 \cup {"call"}
      BY <1>12 DEF At!Deactivate, At!Missed
    <3>2. QED
      BY <1>1, <3>1
  <2>8. v26' \in 0..MaxFaults
    <3>1. v26' = v26 \/ (v26 > 0 /\ v26' = v26 - 1)
      BY <1>12 DEF At!Deactivate, At!Answered, At!Failed, At!NoAnswer, At!Refused, At!Fault
    <3>2. QED
      BY <1>1, <3>1
  <2>9. QED
    BY <1>1, <2>1, <2>2, <2>3, <2>4, <2>5, <2>6, <2>7, <2>8, Zenon
<1>13. CASE At!Settle
  BY <1>1, <1>13 DEF At!Settle, At!MainOnly, At!modemVars, At!timeVars, At!Return, At!Send, At!LinkDown, At!Go
<1>14. CASE At!Dhcp
  BY <1>1, <1>14 DEF At!Dhcp, At!MainOnly, At!modemVars, At!timeVars, At!Return, At!Fault, At!HasCall, At!Lease
<1>15. CASE At!Context
  BY <1>1, <1>15 DEF At!Context, At!SetupSame, At!EnvSame, At!timeVars, At!Go, At!NoAnswer, At!Fault, At!Open, At!Refused, At!Answered
<1>16. CASE At!Activate
  BY <1>1, <1>16 DEF At!Activate, At!SetupSame, At!EnvSame, At!timeVars, At!Go, At!NoAnswer, At!Fault, At!Open, At!Answered, At!Refused
<1>17. CASE At!Bind
  BY <1>1, <1>17 DEF At!Bind, At!SetupSame, At!EnvSame, At!timeVars, At!Go, At!Bound, At!Open, At!CanBind, At!NoAnswer, At!Fault, At!OnError, At!Answered, At!Refused
<1>18. CASE At!Status
  BY <1>1, <1>18 DEF At!Status, At!SetupSame, At!EnvSame, At!timeVars, At!Go, At!NoAnswer, At!Fault, At!Open, At!Refused, At!Answered
<1>19. CASE At!Dialed
  BY <1>1, <1>19 DEF At!Dialed, At!modemVars, At!Return
<1>20. CASE At!TakeSignal
  <2>1. UNCHANGED <<v4, v5, v14, v19, v21, v22, v24, v26>>
    BY <1>20, Zenon DEF At!TakeSignal, At!LoopSame, At!modemVars
  <2>2. Head(v9) \in {"START", "CHECK", "STOP"}
    BY <1>20, AtHeads DEF At!TakeSignal
  <2>3. UNCHANGED <<v8, v6, v7>> \/ At!LinkDown
    BY <1>20, <2>2 DEF At!TakeSignal
  <2>4. (v6' = v6 \/ v6' = 0) /\ (v7' = v7 \/ v7' = 0)
    BY <2>3, Zenon DEF At!LinkDown
  <2>5. QED
    BY <1>1, <2>1, <2>4
<1>21. CASE At!TakeEvent
  <2>1. UNCHANGED <<v4, v5, v14, v19, v21, v22, v24, v26>>
    BY <1>21, Zenon DEF At!TakeEvent, At!LoopSame, At!modemVars
  <2>2. Head(v10) \in {"VOICE", "DATA", "DISCONNECTED"}
    BY <1>21, AtHeads DEF At!TakeEvent
  <2>3. UNCHANGED <<v8, v6, v7>> \/ At!LinkDown
    BY <1>21, <2>2 DEF At!TakeEvent
  <2>4. (v6' = v6 \/ v6' = 0) /\ (v7' = v7 \/ v7' = 0)
    BY <2>3, Zenon DEF At!LinkDown
  <2>5. QED
    BY <1>1, <2>1, <2>4
<1>22. CASE At!PollTimeout
  BY <1>1, <1>22 DEF At!PollTimeout, At!LoopSame, At!modemVars, At!timeVars, At!Send
<1>23. CASE At!ReaderLeaves
  BY <1>1, <1>23 DEF At!ReaderLeaves, At!modemVars, At!Rest, At!timeVars, At!mainVars, At!Closed
<1>24. CASE At!Hangup
  <2>1. UNCHANGED <<v4, v5, v6, v7, v19, v22>>
    BY <1>24, Zenon DEF At!Hangup, At!Rest, At!mainVars
  <2>2. v14' \in {"up", "stopping", "gone"}
    <3>1. v14' \in {v14, "gone"}
      BY <1>24 DEF At!Hangup, At!Closed
    <3>2. QED
      BY <1>1, <3>1
  <2>3. v21' \in {"down", "coming", "up"}
    <3>1. v21' \in {v21, "down"}
      BY <1>24 DEF At!Hangup
    <3>2. QED
      BY <1>1, <3>1
  <2>4. v24' \subseteq {"call", "end"}
    <3>1. v24' = v24 \/ v24' = v24 \cup {"end"}
      BY <1>24 DEF At!Hangup
    <3>2. QED
      BY <1>1, <3>1
  <2>5. v26' \in 0..MaxFaults
    <3>1. v26' = v26 \/ (v26 > 0 /\ v26' = v26 - 1)
      BY <1>24 DEF At!Hangup, At!Closed, At!Fault
    <3>2. QED
      BY <1>1, <3>1
  <2>6. QED
    BY <1>1, <2>1, <2>2, <2>3, <2>4, <2>5, Zenon
<1>25. CASE At!Plug
  BY <1>1, <1>25 DEF At!Plug, At!Rest, At!timeVars, At!mainVars
<1>26. CASE \E r \in At!Rat \cup {"none"} : At!Register(r)
  BY <1>1, <1>26 DEF At!Register, At!Rest, At!timeVars, At!mainVars, At!StillOld, At!Urc, At!Open, At!Fault
<1>27. CASE At!CallUp
  BY <1>1, <1>27 DEF At!CallUp, At!Rest, At!timeVars, At!mainVars, At!Urc, At!Open
<1>28. CASE At!CallLost
  BY <1>1, <1>28 DEF At!CallLost, At!Rest, At!timeVars, At!mainVars, At!StillOld, At!Urc, At!Open, At!Fault
<1>29. CASE At!NewAddress
  BY <1>1, <1>29 DEF At!NewAddress, At!Rest, At!timeVars, At!mainVars, At!Fault
<1>30. CASE At!Alarm
  BY <1>1, <1>30 DEF At!Alarm, At!modemVars, At!mainVars
<1>31. CASE At!HoldOver
  BY <1>1, <1>31 DEF At!HoldOver, At!modemVars, At!mainVars
<1>32. CASE At!Kill
  BY <1>1, <1>32 DEF At!Kill, At!modemVars, At!timeVars, At!mainVars, At!Fault
<1>33. CASE UNCHANGED At!vars
  BY <1>1, <1>33 DEF At!vars, At!mainVars, At!timeVars, At!modemVars
<1>34. QED
  BY <1>2, <1>3, <1>4, <1>5, <1>6, <1>7, <1>8, <1>9, <1>10, <1>11, <1>12, <1>13, <1>14, <1>15, <1>16, <1>17, <1>18, <1>19, <1>20, <1>21, <1>22, <1>23, <1>24, <1>25, <1>26, <1>27, <1>28, <1>29, <1>30, <1>31, <1>32, <1>33, Zenon DEF At!Main, At!Modem, At!Clock, At!Next, At!Exited

\* The flags.
LEMMA AtFlags ==
  ASSUME At!AtInv, At!Next
  PROVE  /\ v3' \in BOOLEAN /\ v8' \in BOOLEAN /\ v11' \in BOOLEAN /\ v12' \in BOOLEAN /\ v13' \in BOOLEAN /\ v15' \in BOOLEAN
         /\ v16' \in BOOLEAN /\ v17' \in BOOLEAN /\ v18' \in BOOLEAN /\ v20' \in BOOLEAN /\ v23' \in BOOLEAN /\ v25' \in BOOLEAN
         /\ (v14' # "gone" => v15')
<1>1. /\ v3 \in BOOLEAN /\ v8 \in BOOLEAN /\ v11 \in BOOLEAN /\ v12 \in BOOLEAN /\ v13 \in BOOLEAN /\ v15 \in BOOLEAN
      /\ v16 \in BOOLEAN /\ v17 \in BOOLEAN /\ v18 \in BOOLEAN /\ v20 \in BOOLEAN /\ v23 \in BOOLEAN /\ v25 \in BOOLEAN
      /\ (v14 # "gone" => v15) /\ At!Doing /\ v1 \in At!Task
  BY Zenon DEF At!AtInv, At!TypeOK
<1> USE DEF At!Doing, At!Task
<1>2. CASE At!Detect
  <2>1. UNCHANGED <<v8, v11, v15, v16, v17, v18, v20, v25>>
    BY <1>2, Zenon DEF At!Detect
  <2>2. TRUE \in BOOLEAN /\ FALSE \in BOOLEAN /\ (v21 # "down" /\ (v18 => v20)) \in BOOLEAN
    OBVIOUS
  <2>3. CASE v15
    <3>1. v3' = FALSE /\ v12' = FALSE /\ v13' = FALSE /\ v23' = (v21 # "down" /\ (v18 => v20))
      BY <1>2, <2>3, Zenon DEF At!Detect
    <3>2. QED
      BY <1>1, <2>1, <2>2, <2>3, <3>1, Zenon
  <2>4. CASE ~v15
    <3>1. UNCHANGED <<v3, v12, v13, v14, v23>>
      BY <1>2, <2>4, Zenon DEF At!Detect
    <3>2. v15' \in BOOLEAN /\ (v14' # "gone" => v15')
      BY <1>1, <2>1, <3>1
    <3>3. QED
      BY <1>1, <2>1, <3>1, <3>2, ZenonT(40)
  <2>5. QED
    BY <2>3, <2>4
<1>3. CASE At!AtcInit
  <2>1. UNCHANGED <<v3, v8, v11, v12, v14, v15, v18, v20, v23, v25>>
    BY <1>3, Zenon DEF At!AtcInit, At!SetNat, At!Starts, At!Refused, At!timeVars
  <2>2. TRUE \in BOOLEAN
    OBVIOUS
  <2>3. (v13' = v13 \/ v13' = TRUE) /\ (v17' = v17 \/ v17' = TRUE \/ v17' \in BOOLEAN)
    BY <1>3, Zenon DEF At!AtcInit, At!SetNat, At!RebootAsked
  <2>4. v16' = v16 \/ v16' = TRUE \/ v16' \in {v16, v17' /\ At!Open}
    BY <1>3, Zenon DEF At!AtcInit, At!SetNat
  <2>5. (v17' /\ At!Open) \in BOOLEAN
    BY Zenon
  <2>6. v13' \in BOOLEAN /\ v17' \in BOOLEAN
    BY <1>1, <2>2, <2>3, Zenon
  <2>7. v16' \in BOOLEAN
    BY <1>1, <2>2, <2>4, <2>5, Zenon
  <2>8. QED
    BY <1>1, <2>1, <2>6, <2>7, Zenon
<1>4. CASE At!Quit
  <2>1. UNCHANGED <<v3, v11, v12, v13, v14, v15, v16, v17, v18, v20, v23, v25>>
    BY <1>4, Zenon DEF At!Quit, At!modemVars, At!timeVars
  <2>2. FALSE \in BOOLEAN /\ TRUE \in BOOLEAN
    OBVIOUS
  <2>3. v8' = v8 \/ v8' = FALSE \/ v8' = TRUE
    BY <1>4, Zenon DEF At!Quit, At!LinkDown
  <2>4. v8' \in BOOLEAN
    BY <1>1, <2>2, <2>3, Zenon
  <2>5. QED
    BY <1>1, <2>1, <2>4, ZenonT(40)
<1>5. CASE At!Cops
  <2>1. UNCHANGED <<v8, v11, v13, v14, v15, v16, v17, v18, v20, v23, v25>>
    BY <1>5, Zenon DEF At!Cops, At!RegSame, At!EnvSame
  <2>2. v1 \in {"startup", "CHECK", "voice"}
    BY <1>1, <1>5 DEF At!Cops
  <2>3. ASSUME NEW a \in BOOLEAN, At!Registered(a) PROVE v3' \in BOOLEAN /\ v12' \in BOOLEAN
    <3>1. v3' = a /\ (v12' = v12 \/ v12' = (a /\ v12))
      BY <2>2, <2>3 DEF At!Registered
    <3>2. (a /\ v12) \in BOOLEAN
      OBVIOUS
    <3>3. QED
      BY <1>1, <3>1, <3>2, Zenon
  <2>4. FALSE \in BOOLEAN /\ At!StateOf \in BOOLEAN
    BY DEF At!StateOf
  <2>5. \/ \E a \in BOOLEAN : At!Registered(a)
        \/ UNCHANGED <<v3, v12>>
    BY <2>4, <1>5, Zenon DEF At!Cops
  <2>6. QED
    BY <1>1, <2>1, <2>3, <2>5, ZenonT(40)
<1>6. CASE At!Creg
  <2>1. UNCHANGED <<v8, v11, v13, v14, v15, v16, v17, v18, v20, v23, v25>>
    BY <1>6, Zenon DEF At!Creg, At!RegSame, At!EnvSame
  <2>2. v1 \in {"startup", "CHECK", "voice"}
    BY <1>1, <1>6 DEF At!Creg
  <2>3. ASSUME NEW a \in BOOLEAN, At!Registered(a) PROVE v3' \in BOOLEAN /\ v12' \in BOOLEAN
    <3>1. v3' = a /\ (v12' = v12 \/ v12' = (a /\ v12))
      BY <2>2, <2>3 DEF At!Registered
    <3>2. (a /\ v12) \in BOOLEAN
      OBVIOUS
    <3>3. QED
      BY <1>1, <3>1, <3>2, Zenon
  <2>4. FALSE \in BOOLEAN /\ At!StateOf \in BOOLEAN
    BY DEF At!StateOf
  <2>5. \/ \E a \in BOOLEAN : At!Registered(a)
        \/ UNCHANGED <<v3, v12>>
    BY <2>4, <1>6, Zenon DEF At!Creg
  <2>6. QED
    BY <1>1, <2>1, <2>3, <2>5, ZenonT(40)
<1>7. CASE At!QueryNetdev
  BY <1>1, <1>7 DEF At!QueryNetdev, At!QuerySame, At!EnvSame, At!timeVars, At!Found, At!Go, At!Send, At!Return, At!Displaced, At!Fault, At!Open, At!Missed, At!Failed, At!NoAnswer, At!HasCall, At!Answered
<1>8. CASE At!QueryCtl
  BY <1>1, <1>8 DEF At!QueryCtl, At!QuerySame, At!EnvSame, At!timeVars, At!Missed, At!Found, At!Go, At!Send, At!Return, At!Failed, At!NoAnswer, At!Fault, At!Open, At!Answered
<1>9. CASE At!QueryAct
  BY <1>1, <1>9 DEF At!QueryAct, At!QuerySame, At!EnvSame, At!timeVars, At!Missed, At!Found, At!Go, At!Send, At!Return, At!Failed, At!NoAnswer, At!Fault, At!Open, At!Answered
<1>10. CASE At!GetIPAddress
  BY <1>1, <1>10 DEF At!GetIPAddress, At!GetIPSame, At!EnvSame, At!timeVars, At!Go, At!Keep, At!GetIP, At!Displaced, At!Fault, At!Open, At!Failed, At!NoAnswer, At!HasAddress, At!Answered
<1>11. CASE At!Compare
  BY <1>1, <1>11 DEF At!Compare, At!GetIPSame, At!EnvSame, At!timeVars, At!SameAddress, At!Go, At!Keep, At!GetIP, At!Displaced, At!Fault, At!Open, At!Failed, At!NoAnswer, At!HasAddress, At!Answered
<1>12. CASE At!Deactivate
  <2>1. UNCHANGED <<v3, v11, v12, v13, v14, v15, v16, v17, v18, v20, v25>>
    BY <1>12, Zenon DEF At!Deactivate, At!timeVars
  <2>2. v23' \in BOOLEAN
    BY <1>12, AtStillOld, Zenon DEF At!Deactivate
  <2>3. v1 \in {"startup", "CHECK", "STOP"} /\ FALSE \in BOOLEAN
    BY <1>1, <1>12 DEF At!Deactivate
  <2>4. v8' = v8 \/ v8' = FALSE
    BY <2>3, <1>12 DEF At!Deactivate, At!LinkDown
  <2>5. v8' \in BOOLEAN
    BY <1>1, <2>3, <2>4, Zenon
  <2>6. QED
    BY <1>1, <2>1, <2>2, <2>5, Zenon
<1>13. CASE At!Settle
  <2>1. UNCHANGED <<v3, v11, v12, v13, v14, v15, v16, v17, v18, v20, v23, v25>>
    BY <1>13, Zenon DEF At!Settle, At!MainOnly, At!modemVars, At!timeVars
  <2>2. FALSE \in BOOLEAN /\ TRUE \in BOOLEAN
    OBVIOUS
  <2>3. v8' = v8 \/ v8' = FALSE \/ v8' = TRUE
    BY <1>13, Zenon DEF At!Settle, At!LinkDown
  <2>4. v8' \in BOOLEAN
    BY <1>1, <2>2, <2>3, Zenon
  <2>5. QED
    BY <1>1, <2>1, <2>4, ZenonT(40)
<1>14. CASE At!Dhcp
  BY <1>1, <1>14 DEF At!Dhcp, At!MainOnly, At!modemVars, At!timeVars, At!Return, At!Fault, At!HasCall, At!Lease
<1>15. CASE At!Context
  BY <1>1, <1>15 DEF At!Context, At!SetupSame, At!EnvSame, At!timeVars, At!Go, At!NoAnswer, At!Fault, At!Open, At!Refused, At!Answered
<1>16. CASE At!Activate
  <2>1. UNCHANGED <<v3, v8, v11, v12, v13, v14, v15, v16, v17, v18, v23, v25>>
    BY <1>16, Zenon DEF At!Activate, At!SetupSame, At!EnvSame, At!timeVars
  <2>2. (v19 # "none") \in BOOLEAN /\ TRUE \in BOOLEAN
    OBVIOUS
  <2>3. v20' \in {v20, TRUE, v19 # "none"}
    BY <1>16 DEF At!Activate
  <2>4. v20' \in BOOLEAN
    BY <1>1, <2>2, <2>3, Zenon
  <2>5. QED
    BY <1>1, <2>1, <2>4, ZenonT(40)
<1>17. CASE At!Bind
  BY <1>1, <1>17 DEF At!Bind, At!SetupSame, At!EnvSame, At!timeVars, At!Go, At!Bound, At!Open, At!CanBind, At!NoAnswer, At!Fault, At!OnError, At!Answered, At!Refused
<1>18. CASE At!Status
  BY <1>1, <1>18 DEF At!Status, At!SetupSame, At!EnvSame, At!timeVars, At!Go, At!NoAnswer, At!Fault, At!Open, At!Refused, At!Answered
<1>19. CASE At!Dialed
  BY <1>1, <1>19 DEF At!Dialed, At!modemVars, At!Return
<1>20. CASE At!TakeSignal
  <2>1. UNCHANGED <<v3, v12, v13, v14, v15, v16, v17, v18, v20, v23, v25>>
    BY <1>20, Zenon DEF At!TakeSignal, At!LoopSame, At!modemVars
  <2>2. (v3 /\ v12) \in BOOLEAN /\ FALSE \in BOOLEAN
    OBVIOUS
  <2>3. Head(v9) \in {"START", "CHECK", "STOP"}
    BY <1>20, AtHeads DEF At!TakeSignal
  <2>4. v8' = v8 \/ v8' = FALSE
    BY <2>3, <1>20 DEF At!TakeSignal, At!LinkDown
  <2>5. v11' = (v3 /\ v12) \/ v11' = FALSE
    BY <2>3, <1>20 DEF At!TakeSignal
  <2>6. v8' \in BOOLEAN /\ v11' \in BOOLEAN
    BY <1>1, <2>2, <2>4, <2>5, Zenon
  <2>7. QED
    BY <1>1, <2>1, <2>6, Zenon
<1>21. CASE At!TakeEvent
  <2>1. UNCHANGED <<v3, v11, v13, v14, v15, v16, v17, v18, v20, v23, v25>>
    BY <1>21, Zenon DEF At!TakeEvent, At!LoopSame, At!modemVars
  <2>2. (v5 = "CONNECTED" \/ v12) \in BOOLEAN /\ FALSE \in BOOLEAN
    OBVIOUS
  <2>3. Head(v10) \in {"VOICE", "DATA", "DISCONNECTED"}
    BY <1>21, AtHeads DEF At!TakeEvent
  <2>4. v8' = v8 \/ v8' = FALSE
    BY <2>3, <1>21 DEF At!TakeEvent, At!LinkDown
  <2>5. v12' = (v5 = "CONNECTED" \/ v12) \/ v12' = v12
    BY <2>3, <1>21 DEF At!TakeEvent
  <2>6. v8' \in BOOLEAN /\ v12' \in BOOLEAN
    BY <1>1, <2>2, <2>4, <2>5, Zenon
  <2>7. QED
    BY <1>1, <2>1, <2>6, Zenon
<1>22. CASE At!PollTimeout
  BY <1>1, <1>22 DEF At!PollTimeout, At!LoopSame, At!modemVars, At!timeVars, At!Send
<1>23. CASE At!ReaderLeaves
  BY <1>1, <1>23 DEF At!ReaderLeaves, At!modemVars, At!Rest, At!timeVars, At!mainVars, At!Closed
<1>24. CASE At!Hangup
  BY <1>1, <1>24 DEF At!Hangup, At!Rest, At!timeVars, At!mainVars, At!StillOld, At!Closed, At!Open, At!Fault
<1>25. CASE At!Plug
  BY <1>1, <1>25 DEF At!Plug, At!Rest, At!timeVars, At!mainVars
<1>26. CASE \E r \in At!Rat \cup {"none"} : At!Register(r)
  <2>1. UNCHANGED <<v3, v8, v11, v12, v13, v14, v15, v16, v17, v18, v25>>
    BY <1>26, Zenon DEF At!Register, At!Rest, At!mainVars, At!timeVars
  <2>2. v23' \in BOOLEAN
    BY <1>26, AtStillOld, Zenon DEF At!Register
  <2>3. v20' = v20 \/ v20' = FALSE
    BY <1>26, Zenon DEF At!Register
  <2>4. v20' \in BOOLEAN
    <3>1. FALSE \in BOOLEAN
      OBVIOUS
    <3>2. QED
      BY <1>1, <2>3, <3>1, Zenon
  <2>5. QED
    BY <1>1, <2>1, <2>2, <2>4, Zenon
<1>27. CASE At!CallUp
  BY <1>1, <1>27 DEF At!CallUp, At!Rest, At!timeVars, At!mainVars, At!Urc, At!Open
<1>28. CASE At!CallLost
  <2>1. UNCHANGED <<v3, v8, v11, v12, v13, v14, v15, v16, v17, v18, v25>>
    BY <1>28, Zenon DEF At!CallLost, At!Rest, At!timeVars, At!mainVars
  <2>2. v23' \in BOOLEAN
    BY <1>28, AtStillOld, Zenon DEF At!CallLost
  <2>3. FALSE \in BOOLEAN /\ (v20' = v20 \/ v20' = FALSE)
    BY <1>28, Zenon DEF At!CallLost
  <2>4. v20' \in BOOLEAN
    BY <1>1, <2>3, Zenon
  <2>5. QED
    BY <1>1, <2>1, <2>2, <2>4, Zenon
<1>29. CASE At!NewAddress
  BY <1>1, <1>29 DEF At!NewAddress, At!Rest, At!timeVars, At!mainVars, At!Fault
<1>30. CASE At!Alarm
  BY <1>1, <1>30 DEF At!Alarm, At!modemVars, At!mainVars
<1>31. CASE At!HoldOver
  BY <1>1, <1>31 DEF At!HoldOver, At!modemVars, At!mainVars
<1>32. CASE At!Kill
  BY <1>1, <1>32 DEF At!Kill, At!modemVars, At!timeVars, At!mainVars, At!Fault
<1>33. CASE UNCHANGED At!vars
  BY <1>1, <1>33 DEF At!vars, At!mainVars, At!timeVars, At!modemVars
<1>34. QED
  BY <1>2, <1>3, <1>4, <1>5, <1>6, <1>7, <1>8, <1>9, <1>10, <1>11, <1>12, <1>13, <1>14, <1>15, <1>16, <1>17, <1>18, <1>19, <1>20, <1>21, <1>22, <1>23, <1>24, <1>25, <1>26, <1>27, <1>28, <1>29, <1>30, <1>31, <1>32, <1>33, Zenon DEF At!Main, At!Modem, At!Clock, At!Next, At!Exited

\* What main and the reader append to the sockets.
LEMMA AtAppended ==
  ASSUME v9 \in Seq({"START", "CHECK", "STOP"}), v10 \in Seq({"VOICE", "DATA", "DISCONNECTED"})
  PROVE  /\ v9' \in {v9, Append(v9, "START"), Append(v9, "CHECK")} => v9' \in Seq({"START", "CHECK", "STOP"})
         /\ v10' \in {v10, Append(v10, "VOICE"), Append(v10, "DATA")} => v10' \in Seq({"VOICE", "DATA", "DISCONNECTED"})
<1>1. ASSUME NEW e \in {"START", "CHECK"} PROVE Append(v9, e) \in Seq({"START", "CHECK", "STOP"})
  OBVIOUS
<1>2. ASSUME NEW e \in {"VOICE", "DATA"} PROVE Append(v10, e) \in Seq({"VOICE", "DATA", "DISCONNECTED"})
  OBVIOUS
<1>3. "START" \in {"START", "CHECK"} /\ "CHECK" \in {"START", "CHECK"} /\ "VOICE" \in {"VOICE", "DATA"} /\ "DATA" \in {"VOICE", "DATA"}
  OBVIOUS
<1>4. QED
  BY <1>1, <1>2, <1>3, Zenon

\* The sockets.
LEMMA AtQueues ==
  ASSUME At!AtInv, At!Next
  PROVE  v9' \in Seq({"START", "CHECK", "STOP"}) /\ v10' \in Seq({"VOICE", "DATA", "DISCONNECTED"})
<1>1. /\ v9 \in Seq({"START", "CHECK", "STOP"}) /\ v10 \in Seq({"VOICE", "DATA", "DISCONNECTED"})
      /\ At!Doing /\ v1 \in At!Task
  BY Zenon DEF At!AtInv, At!TypeOK
<1> USE DEF At!Doing, At!Task
<1>2. CASE At!Detect
  BY <1>1, <1>2 DEF At!Detect
<1>3. CASE At!AtcInit
  BY <1>1, <1>3 DEF At!AtcInit, At!SetNat, At!Starts, At!Refused, At!timeVars, At!Failed, At!NoAnswer, At!Fault, At!Open, At!RebootAsked, At!Answered
<1>4. CASE At!Quit
  BY <1>1, <1>4 DEF At!Quit, At!modemVars, At!timeVars, At!LinkDown
<1>5. CASE At!Cops
  BY <1>1, <1>5 DEF At!Cops, At!RegSame, At!EnvSame, At!Registered, At!Send, At!Return, At!Query, At!Go, At!Failed, At!NoAnswer, At!Fault, At!Open, At!Answered
<1>6. CASE At!Creg
  <2>1. v9' \in {v9, Append(v9, "START"), Append(v9, "CHECK")}
    BY <1>1, <1>6 DEF At!Creg, At!RegSame, At!EnvSame, At!Registered, At!Send, At!Return, At!Query, At!Go, At!Displaced, At!Fault, At!Open, At!Failed, At!NoAnswer, At!StateOf, At!Answered
  <2>2. v10' \in {v10, Append(v10, "VOICE"), Append(v10, "DATA")}
    BY <1>6 DEF At!Creg, At!Displaced
  <2>3. QED
    BY <1>1, <2>1, <2>2, AtAppended, Zenon
<1>7. CASE At!QueryNetdev
  <2>1. v9' \in {v9, Append(v9, "START"), Append(v9, "CHECK")}
    BY <1>1, <1>7 DEF At!QueryNetdev, At!QuerySame, At!EnvSame, At!timeVars, At!Found, At!Go, At!Send, At!Return, At!Displaced, At!Fault, At!Open, At!Missed, At!Failed, At!NoAnswer, At!HasCall, At!Answered
  <2>2. v10' \in {v10, Append(v10, "VOICE"), Append(v10, "DATA")}
    BY <1>7 DEF At!QueryNetdev, At!Displaced
  <2>3. QED
    BY <1>1, <2>1, <2>2, AtAppended, Zenon
<1>8. CASE At!QueryCtl
  BY <1>1, <1>8, SMTT(30) DEF At!QueryCtl, At!QuerySame, At!EnvSame, At!timeVars, At!Missed, At!Found, At!Go, At!Send, At!Return, At!Failed, At!NoAnswer, At!Fault, At!Open, At!Answered
<1>9. CASE At!QueryAct
  BY <1>1, <1>9, SMTT(30) DEF At!QueryAct, At!QuerySame, At!EnvSame, At!timeVars, At!Missed, At!Found, At!Go, At!Send, At!Return, At!Failed, At!NoAnswer, At!Fault, At!Open, At!Answered
<1>10. CASE At!GetIPAddress
  BY <1>1, <1>10 DEF At!GetIPAddress, At!GetIPSame, At!EnvSame, At!timeVars, At!Go, At!Keep, At!GetIP, At!Displaced, At!Fault, At!Open, At!Failed, At!NoAnswer, At!HasAddress, At!Answered
<1>11. CASE At!Compare
  BY <1>1, <1>11 DEF At!Compare, At!GetIPSame, At!EnvSame, At!timeVars, At!SameAddress, At!Go, At!Keep, At!GetIP, At!Displaced, At!Fault, At!Open, At!Failed, At!NoAnswer, At!HasAddress, At!Answered
<1>12. CASE At!Deactivate
  <2>1. v9' \in {v9, Append(v9, "START"), Append(v9, "CHECK")}
    BY <1>1, <1>12 DEF At!Deactivate, At!timeVars, At!LinkDown, At!Go, At!Send, At!Return, At!StillOld, At!Missed, At!Refused, At!Fault, At!Open, At!Failed, At!NoAnswer, At!Answered
  <2>2. v10' \in {v10, Append(v10, "VOICE"), Append(v10, "DATA")}
    BY <1>12 DEF At!Deactivate
  <2>3. QED
    BY <1>1, <2>1, <2>2, AtAppended, Zenon
<1>13. CASE At!Settle
  BY <1>1, <1>13 DEF At!Settle, At!MainOnly, At!modemVars, At!timeVars, At!Return, At!Send, At!LinkDown, At!Go
<1>14. CASE At!Dhcp
  BY <1>1, <1>14 DEF At!Dhcp, At!MainOnly, At!modemVars, At!timeVars, At!Return, At!Fault, At!HasCall, At!Lease
<1>15. CASE At!Context
  BY <1>1, <1>15 DEF At!Context, At!SetupSame, At!EnvSame, At!timeVars, At!Go, At!NoAnswer, At!Fault, At!Open, At!Refused, At!Answered
<1>16. CASE At!Activate
  BY <1>1, <1>16 DEF At!Activate, At!SetupSame, At!EnvSame, At!timeVars, At!Go, At!NoAnswer, At!Fault, At!Open, At!Answered, At!Refused
<1>17. CASE At!Bind
  BY <1>1, <1>17 DEF At!Bind, At!SetupSame, At!EnvSame, At!timeVars, At!Go, At!Bound, At!Open, At!CanBind, At!NoAnswer, At!Fault, At!OnError, At!Answered, At!Refused
<1>18. CASE At!Status
  BY <1>1, <1>18 DEF At!Status, At!SetupSame, At!EnvSame, At!timeVars, At!Go, At!NoAnswer, At!Fault, At!Open, At!Refused, At!Answered
<1>19. CASE At!Dialed
  BY <1>1, <1>19 DEF At!Dialed, At!modemVars, At!Return
<1>20. CASE At!TakeSignal
  BY <1>1, <1>20, AtHeads DEF At!TakeSignal, At!LoopSame, At!modemVars, At!LinkDown, At!Query, At!Return
<1>21. CASE At!TakeEvent
  <2>1. v9' \in {v9, Append(v9, "START"), Append(v9, "CHECK")}
    BY <1>21, AtHeads DEF At!TakeEvent, At!Send
  <2>2. v10' \in Seq({"VOICE", "DATA", "DISCONNECTED"})
    BY <1>21, AtHeads DEF At!TakeEvent
  <2>3. QED
    BY <1>1, <2>1, <2>2, AtAppended, Zenon
<1>22. CASE At!PollTimeout
  BY <1>1, <1>22 DEF At!PollTimeout, At!LoopSame, At!modemVars, At!timeVars, At!Send
<1>23. CASE At!ReaderLeaves
  BY <1>1, <1>23 DEF At!ReaderLeaves, At!modemVars, At!Rest, At!timeVars, At!mainVars, At!Closed
<1>24. CASE At!Hangup
  BY <1>1, <1>24 DEF At!Hangup, At!Rest, At!timeVars, At!mainVars, At!StillOld, At!Closed, At!Open, At!Fault
<1>25. CASE At!Plug
  BY <1>1, <1>25 DEF At!Plug, At!Rest, At!timeVars, At!mainVars
<1>26. CASE \E r \in At!Rat \cup {"none"} : At!Register(r)
  BY <1>1, <1>26 DEF At!Register, At!Rest, At!timeVars, At!mainVars, At!StillOld, At!Urc, At!Open, At!Fault
<1>27. CASE At!CallUp
  BY <1>1, <1>27 DEF At!CallUp, At!Rest, At!timeVars, At!mainVars, At!Urc, At!Open
<1>28. CASE At!CallLost
  BY <1>1, <1>28, SMTT(30) DEF At!CallLost, At!Rest, At!timeVars, At!mainVars, At!StillOld, At!Urc, At!Open, At!Fault
<1>29. CASE At!NewAddress
  BY <1>1, <1>29 DEF At!NewAddress, At!Rest, At!timeVars, At!mainVars, At!Fault
<1>30. CASE At!Alarm
  BY <1>1, <1>30 DEF At!Alarm, At!modemVars, At!mainVars
<1>31. CASE At!HoldOver
  BY <1>1, <1>31 DEF At!HoldOver, At!modemVars, At!mainVars
<1>32. CASE At!Kill
  BY <1>1, <1>32 DEF At!Kill, At!modemVars, At!timeVars, At!mainVars, At!Fault
<1>33. CASE UNCHANGED At!vars
  BY <1>1, <1>33 DEF At!vars, At!mainVars, At!timeVars, At!modemVars
<1>34. QED
  BY <1>2, <1>3, <1>4, <1>5, <1>6, <1>7, <1>8, <1>9, <1>10, <1>11, <1>12, <1>13, <1>14, <1>15, <1>16, <1>17, <1>18, <1>19, <1>20, <1>21, <1>22, <1>23, <1>24, <1>25, <1>26, <1>27, <1>28, <1>29, <1>30, <1>31, <1>32, <1>33, Zenon DEF At!Main, At!Modem, At!Clock, At!Next, At!Exited

LEMMA AtInit == At!Init => At!AtInv
<1> SUFFICES ASSUME At!Init PROVE At!AtInv
  OBVIOUS
<1>1. /\ v1 = "detect" /\ v2 = "none" /\ v3 = FALSE /\ v4 = "none" /\ v5 = "UNKNOW" /\ v6 = 0 /\ v7 = 0
      /\ v8 = FALSE /\ v9 = <<>> /\ v10 = <<>> /\ v11 = FALSE /\ v12 = FALSE /\ v13 = FALSE
      /\ v14 = "gone" /\ v15 = TRUE /\ v16 = FALSE /\ v17 \in BOOLEAN /\ v18 \in BOOLEAN
      /\ v19 \in {"none", "lte"} /\ v20 = v23 /\ v21 = (IF v23 THEN "up" ELSE "down")
      /\ v22 = (CHOOSE a \in Addr : TRUE) /\ v23 \in BOOLEAN /\ (v23 => v19 # "none")
      /\ v24 = {} /\ v25 = FALSE
  BY Zenon DEF At!Init
<1>2. /\ v3 \in BOOLEAN /\ v8 \in BOOLEAN /\ v11 \in BOOLEAN /\ v12 \in BOOLEAN /\ v13 \in BOOLEAN
      /\ v15 \in BOOLEAN /\ v16 \in BOOLEAN /\ v20 \in BOOLEAN /\ v25 \in BOOLEAN
      /\ ~v8 /\ ~v11 /\ ~v13 /\ v15 /\ ~v16 /\ ~v25
  BY <1>1, Zenon
<1>3. v26 \in 0..MaxFaults
  BY SharedAssumption DEF At!Init
<1>4. v22 \in Addr
  BY <1>1, SessionAssumption, Zenon
<1>5. /\ v9 \in Seq({"START", "CHECK", "STOP"}) /\ v10 \in Seq({"VOICE", "DATA", "DISCONNECTED"})
      /\ DOMAIN v9 = {} /\ DOMAIN v10 = {}
  BY <1>1
<1>6. At!TypeOK
  <2>1. /\ v1 \in At!Task /\ v2 \in At!Command /\ v4 \in At!Rat \cup {"none"} /\ v19 \in At!Rat \cup {"none"}
        /\ v5 \in {"UNKNOW", "DISCONNECTED", "CONNECTED"} /\ v6 \in Addr \cup {0, Odd} /\ v7 \in Addr \cup {0}
        /\ v14 \in {"up", "stopping", "gone"} /\ v21 \in {"down", "coming", "up"} /\ v24 \subseteq {"call", "end"}
    BY <1>1 DEF At!Task, At!Command, At!Rat
  <2>2. QED
    BY <1>1, <1>2, <1>3, <1>4, <1>5, <2>1, Zenon DEF At!TypeOK
<1>7. ~At!HungUp /\ ~At!Stops
  BY <1>5 DEF At!HungUp, At!Stops
<1>8. At!Doing
  BY <1>1, <1>2, <1>7 DEF At!Doing
<1>9. At!StartsUp
  BY <1>1, <1>2 DEF At!StartsUp
<1>10. At!Lives
  BY <1>1, <1>2, <1>7 DEF At!Lives
<1>11. QED
  BY <1>6, <1>8, <1>9, <1>10, Zenon DEF At!AtInv

LEMMA AtKeeps ==
  ASSUME At!AtInv, [At!Next]_(At!vars)
  PROVE  At!AtInv'
<1>1. CASE At!Next
  <2>1. At!TypeOK'
    BY <1>1, AtPlaces, AtValues, AtFlags, AtQueues, Zenon DEF At!TypeOK
  <2>2. QED
    BY <1>1, <2>1, AtPlaces, AtStartsUp, AtLives, Zenon DEF At!AtInv
<1>2. CASE UNCHANGED At!vars
  <2>1. UNCHANGED <<v1, v2, v3, v4, v5, v6, v7, v8, v9, v10, v11, v12, v13, v14, v15, v16, v17, v18, v19,
                    v20, v21, v22, v23, v24, v25, v26>>
    BY <1>2, Zenon DEF At!vars, At!mainVars, At!timeVars, At!modemVars
  <2>2. At!TypeOK' /\ At!Doing'
    <3>1. At!TypeOK'
      <4>1. /\ v1' \in At!Task /\ v2' \in At!Command
            /\ v9' \in Seq({"START", "CHECK", "STOP"}) /\ v10' \in Seq({"VOICE", "DATA", "DISCONNECTED"})
        BY <2>1, Zenon DEF At!AtInv, At!TypeOK
      <4>2. /\ v4' \in At!Rat \cup {"none"} /\ v5' \in {"UNKNOW", "DISCONNECTED", "CONNECTED"}
            /\ v6' \in Addr \cup {0, Odd} /\ v7' \in Addr \cup {0} /\ v14' \in {"up", "stopping", "gone"}
            /\ v19' \in At!Rat \cup {"none"} /\ v21' \in {"down", "coming", "up"} /\ v22' \in Addr
            /\ v24' \subseteq {"call", "end"} /\ v26' \in 0..MaxFaults
        BY <2>1, Zenon DEF At!AtInv, At!TypeOK
      <4>3. /\ v3' \in BOOLEAN /\ v8' \in BOOLEAN /\ v11' \in BOOLEAN /\ v12' \in BOOLEAN
            /\ v13' \in BOOLEAN /\ v15' \in BOOLEAN /\ v16' \in BOOLEAN /\ v17' \in BOOLEAN
            /\ v18' \in BOOLEAN /\ v20' \in BOOLEAN /\ v23' \in BOOLEAN /\ v25' \in BOOLEAN
            /\ (v14' # "gone" => v15')
        BY <2>1, ZenonT(40) DEF At!AtInv, At!TypeOK
      <4>4. QED
        BY <4>1, <4>2, <4>3, Zenon DEF At!TypeOK
    <3>2. At!Doing'
      BY <2>1, Zenon DEF At!AtInv, At!Doing
    <3>3. QED
      BY <3>1, <3>2
  <2>3. At!StartsUp'
    BY <2>1, Zenon DEF At!AtInv, At!StartsUp, At!HungUp, At!Stops
  <2>4. At!Lives'
    BY <2>1, Zenon DEF At!AtInv, At!Lives, At!HungUp, At!Stops
  <2>5. QED
    BY <2>2, <2>3, <2>4, Zenon DEF At!AtInv
<1>3. QED
  BY <1>1, <1>2

LEMMA AtSafePart ==
  ASSUME At!AtInv
  PROVE  At!FreshCall /\ At!KeepsRunning
<1>1. At!FreshCall
  BY DEF At!AtInv, At!StartsUp, At!FreshCall
<1>2. At!KeepsRunning
  BY DEF At!AtInv, At!Lives, At!KeepsRunning
<1>3. QED
  BY <1>1, <1>2

-----------------------------------------------------------------------------
(* The AT channel. session is v1, up v2, open v3, closed v4, reader v5,    *)
(* line v6, toModem v7, doing v8, pending v9, inter v10, final v11, pc     *)
(* v12, cmd v13, n v14, tries v15, ret v16, late v17, told v18, urcs v19,  *)
(* missed v20.                                                             *)

\* How a command ends: a handshake that timed out is repeated, or the result is taken.
LEMMA ChannelReturns ==
  ASSUME Channel!ChannelInv, Channel!Return
  PROVE  /\ UNCHANGED <<v1, v2, v3, v4, v5, v6, v8, v19>> /\ v9 /\ v12 \in {"expired", "woken"}
         /\ \/ /\ v15 \in 1..(Tries - 1) /\ v3 /\ ~v4 /\ v15' = v15 + 1 /\ v17' = TRUE
               /\ Channel!Write(Channel!Handshake)
            \/ /\ v9' = FALSE /\ v15' = 0 /\ UNCHANGED <<v7, v10, v11, v13, v14, v18, v20>>
               /\ \/ v12' = "drain" /\ v13 = Channel!Handshake /\ v17' = FALSE
                  \/ v12' = "idle" /\ (v17' = TRUE \/ (v17' = v17 /\ v16' # "timeout"))
               /\ \/ v16' = "timeout" \/ (v16' = "closed" /\ v4)
                  \/ v16' \in {"ok", "error", "invalid"} /\ v11 # Channel!NoLine /\ ~v4
               /\ v16' = "ok" => v11.kind = "OK" /\ (v13.type \in {"SINGLELINE", "NUMERIC"} => v10 # <<>>)
<1>1. /\ Channel!Places /\ v15 \in 0..Tries /\ v17 \in BOOLEAN /\ v9 \in BOOLEAN /\ v4 \in BOOLEAN
      /\ (v12 \in {"wait", "between", "expired", "woken"} <=> v9)
  BY Zenon DEF Channel!ChannelInv, Channel!TypeOK
<1>2. UNCHANGED <<v1, v2, v3, v4, v5, v6, v8, v19>> /\ v12 \in {"expired", "woken"}
  BY Zenon DEF Channel!Return, Channel!readerVars
<1>3. v9
  BY <1>1, <1>2
<1>4. PICK r \in {"ok", "error", "invalid", "timeout", "closed"} :
        /\ Channel!Finish(r)
        /\ \/ r = "timeout" \/ (r = "closed" /\ v4)
           \/ r \in {"ok", "error", "invalid"} /\ v11 # Channel!NoLine /\ ~v4
        /\ r = "ok" => v11.kind = "OK" /\ (v13.type \in {"SINGLELINE", "NUMERIC"} => v10 # <<>>)
        /\ r = "invalid" => v13.type \in {"SINGLELINE", "NUMERIC"}
  <2>1. CASE Channel!Finish("timeout")
    BY <2>1, Zenon
  <2>2. CASE (v11 # Channel!NoLine \/ v4) /\ Channel!Finish(Channel!Result)
    <3>1. /\ Channel!Result \in {"ok", "error", "invalid", "closed"}
          /\ Channel!Result = "closed" <=> v4
          /\ Channel!Result = "ok" => v11.kind = "OK" /\ (v13.type \in {"SINGLELINE", "NUMERIC"} => v10 # <<>>)
          /\ Channel!Result = "invalid" => v13.type \in {"SINGLELINE", "NUMERIC"}
      BY <1>1 DEF Channel!Result
    <3>2. QED
      BY <1>1, <2>2, <3>1
  <2>3. QED
    BY <2>1, <2>2, Zenon DEF Channel!Return
<1>5. CASE v15 > 0 /\ r \notin {"ok", "error"} /\ v15 < Tries /\ Channel!Writable
  <2>1. Channel!Write(Channel!Handshake) /\ v15' = v15 + 1 /\ v17' = (v17 \/ r = "timeout")
    BY <1>4, <1>5 DEF Channel!Finish
  <2>2. v13 = Channel!Handshake /\ v3 /\ ~v4
    BY <1>1, <1>5 DEF Channel!Places, Channel!Writable
  <2>3. r = "timeout"
    BY <1>4, <1>5, <2>2 DEF Channel!Handshake
  <2>4. v17' = TRUE
    BY <2>1, <2>3
  <2>5. v15 \in 1..(Tries - 1)
    BY <1>1, <1>5, ChannelAssumption
  <2>6. QED
    BY <1>2, <1>3, <2>1, <2>2, <2>4, <2>5, Zenon
<1>6. CASE ~(v15 > 0 /\ r \notin {"ok", "error"} /\ v15 < Tries /\ Channel!Writable)
  <2> DEFINE answered == v15 > 0 /\ r \in {"ok", "error"}
  <2>1. /\ Channel!Taken(IF answered THEN "drain" ELSE "idle", r) /\ v15' = 0
        /\ v17' = (r = "timeout" \/ (v17 /\ ~answered))
    BY <1>4, <1>6 DEF Channel!Finish
  <2>2. /\ v9' = FALSE /\ v16' = r /\ UNCHANGED <<v7, v10, v11, v13, v14, v18, v20>>
        /\ v12' = IF answered THEN "drain" ELSE "idle"
    BY <2>1, Zenon DEF Channel!Taken
  <2>3. CASE answered
    <3>1. v13 = Channel!Handshake
      BY <1>1, <2>3 DEF Channel!Places
    <3>2. v12' = "drain" /\ r # "timeout" /\ v17' = FALSE
      BY <2>1, <2>2, <2>3
    <3>3. QED
      BY <1>2, <1>3, <1>4, <2>1, <2>2, <3>1, <3>2, Zenon
  <2>4. CASE ~answered
    <3>1. v12' = "idle"
      BY <2>2, <2>4
    <3>2. r = "timeout" => v17' = TRUE
      BY <2>1
    <3>3. r # "timeout" => v17' = v17
      <4>1. ASSUME r # "timeout" PROVE (r = "timeout" \/ (v17 /\ ~answered)) = v17
        BY <1>1, <2>4, <4>1
      <4>2. QED
        BY <2>1, <4>1, Zenon
    <3>4. QED
      BY <1>2, <1>3, <1>4, <2>1, <2>2, <3>1, <3>2, <3>3, Zenon
  <2>5. QED
    BY <2>3, <2>4
<1>7. QED
  BY <1>5, <1>6

\* What is no sequence.
LEMMA ChannelTypes ==
  ASSUME Channel!ChannelInv, Channel!Next
  PROVE  /\ v1' \in 0..MaxSessions /\ v2' \in BOOLEAN /\ v3' \in BOOLEAN /\ v4' \in BOOLEAN
         /\ v5' \in {"line", "second", "ended"} /\ v9' \in BOOLEAN /\ v17' \in BOOLEAN /\ v20' \in BOOLEAN
         /\ v12' \in {"idle", "wait", "between", "expired", "woken", "drain"} /\ v13' \in Channel!Command \cup {Channel!Handshake}
         /\ v14' \in 0..MaxCommands /\ v15' \in 0..Tries
         /\ v16' \in {"none", "ok", "error", "invalid", "timeout", "closed"}
         /\ (v12' \in {"wait", "between", "expired", "woken"} <=> v9')
<1>1. /\ v1 \in 0..MaxSessions /\ v2 \in BOOLEAN /\ v3 \in BOOLEAN /\ v4 \in BOOLEAN
      /\ v5 \in {"line", "second", "ended"} /\ v9 \in BOOLEAN /\ v17 \in BOOLEAN /\ v20 \in BOOLEAN
      /\ v12 \in {"idle", "wait", "between", "expired", "woken", "drain"} /\ v13 \in Channel!Command \cup {Channel!Handshake}
      /\ v14 \in 0..MaxCommands /\ v15 \in 0..Tries
      /\ v16 \in {"none", "ok", "error", "invalid", "timeout", "closed"}
      /\ (v12 \in {"wait", "between", "expired", "woken"} <=> v9)
  BY Zenon DEF Channel!ChannelInv, Channel!TypeOK
<1>2. Channel!Places
  BY Zenon DEF Channel!ChannelInv
<1> USE ChannelAssumption DEF Channel!Places
<1>3. CASE Channel!Open
  <2>1. /\ v1' = v1 + 1 /\ v1 < MaxSessions /\ v2' = TRUE /\ v3' = TRUE /\ v4' = FALSE /\ v5' = "line"
        /\ v9' = FALSE /\ v17' = FALSE /\ v16' = "none" /\ v12 = "idle" /\ UNCHANGED <<v12, v13, v14, v15, v20>>
    BY <1>3, Zenon DEF Channel!Open
  <2>2. v1' \in 0..MaxSessions
    BY <1>1, <2>1
  <2>3. QED
    BY <1>1, <2>1, <2>2
<1>4. CASE Channel!Close
  BY <1>1, <1>2, <1>4 DEF Channel!Close, Channel!respVars, Channel!modemVars, Channel!readerVars, Channel!Signalled
<1>5. CASE Channel!Hangup
  BY <1>1, <1>2, <1>5 DEF Channel!Hangup, Channel!respVars
<1>6. CASE Channel!Send
  <2>1. CASE Channel!Writable /\ \E c \in Channel!Command : Channel!Write(c)
    <3>1. PICK c \in Channel!Command : Channel!Write(c)
      BY <2>1
    <3>2. /\ v13' = c /\ v14' = v14 + 1 /\ v14 < MaxCommands /\ v9' = TRUE /\ v12' = "wait" /\ v16' = "none"
          /\ v20' = FALSE /\ UNCHANGED <<v1, v2, v3, v4, v5, v15, v17>>
      BY <1>6, <3>1, Zenon DEF Channel!Send, Channel!Write, Channel!readerVars
    <3>3. v14' \in 0..MaxCommands
      BY <1>1, <3>2
    <3>4. QED
      BY <1>1, <3>2, <3>3
  <2>2. CASE v16' = "closed" /\ UNCHANGED <<v13, v14, v7, Channel!respVars, v12, v18, v20>>
    <3>1. v16' = "closed" /\ UNCHANGED <<v1, v2, v3, v4, v5, v9, v12, v13, v14, v15, v17, v20>>
      BY <1>6, <2>2, Zenon DEF Channel!Send, Channel!readerVars, Channel!respVars
    <3>2. QED
      BY <1>1, <3>1
  <2>3. QED
    BY <1>6, <2>1, <2>2, Zenon DEF Channel!Send
<1>7. CASE Channel!StartHandshake
  <2>1. /\ v13' = Channel!Handshake /\ v14' = v14 + 1 /\ v14 + Tries <= MaxCommands /\ v15' = 1
        /\ v9' = TRUE /\ v12' = "wait" /\ v16' = "none" /\ v20' = FALSE
        /\ UNCHANGED <<v1, v2, v3, v4, v5, v17>>
    BY <1>7, Zenon DEF Channel!StartHandshake, Channel!Write, Channel!readerVars
  <2>2. v14' \in 0..MaxCommands /\ v15' \in 0..Tries
    BY <1>1, <2>1
  <2>3. QED
    BY <1>1, <2>1, <2>2
<1>8. CASE Channel!Wait
  BY <1>1, <1>2, <1>8 DEF Channel!Wait, Channel!SliceEnds, Channel!NextSlice, Channel!Expire, Channel!WaitUnchanged, Channel!respVars, Channel!modemVars, Channel!readerVars
<1>9. CASE Channel!Return
  <2>1. CASE v9' = FALSE
    <3>1. /\ UNCHANGED <<v1, v2, v3, v4, v5, v13, v14, v20>> /\ v15' = 0 /\ v12' \in {"idle", "drain"}
          /\ v16' \in {"ok", "error", "invalid", "timeout", "closed"}
      BY <1>9, <2>1, ChannelReturns DEF Channel!Write
    <3>2. v17' \in BOOLEAN
      BY <1>9, <2>1, <1>1, ChannelReturns DEF Channel!Write
    <3>3. v15' \in 0..Tries
      BY <3>1
    <3>4. v12' \in {"idle", "wait", "between", "expired", "woken", "drain"} /\ ~(v12' \in {"wait", "between", "expired", "woken"})
      BY <3>1
    <3>5. QED
      BY <1>1, <2>1, <3>1, <3>2, <3>3, <3>4
  <2>2. CASE Channel!Write(Channel!Handshake)
    BY <1>1, <1>2, <1>9, <2>2, ChannelReturns DEF Channel!Write
  <2>3. QED
    BY <1>9, <2>1, <2>2, ChannelReturns, Zenon
<1>10. CASE Channel!Drained
  BY <1>1, <1>2, <1>10 DEF Channel!Drained, Channel!WaitUnchanged, Channel!respVars, Channel!modemVars, Channel!readerVars
<1>11. CASE Channel!Read
  BY <1>1, <1>2, <1>11 DEF Channel!Read, Channel!modemVars, Channel!ProcessLine, Channel!Tell, Channel!respVars, Channel!Keep, Channel!Wanted, Channel!Signalled, Channel!Final
<1>12. CASE Channel!Eof
  BY <1>1, <1>2, <1>12 DEF Channel!Eof, Channel!respVars, Channel!modemVars, Channel!Signalled
<1>13. CASE Channel!TakeCommand
  BY <1>1, <1>2, <1>13 DEF Channel!TakeCommand, Channel!respVars, Channel!readerVars
<1>14. CASE Channel!Respond
  BY <1>1, <1>2, <1>14 DEF Channel!Respond, Channel!respVars, Channel!Kinds
<1>15. CASE Channel!Urc
  BY <1>1, <1>2, <1>15 DEF Channel!Urc, Channel!respVars
<1>16. CASE UNCHANGED Channel!vars
  BY <1>1, <1>2, <1>16 DEF Channel!vars, Channel!readerVars, Channel!modemVars, Channel!respVars
<1>17. QED
  BY <1>3, <1>4, <1>5, <1>6, <1>7, <1>8, <1>9, <1>10, <1>11, <1>12, <1>13, <1>14, <1>15, <1>16, Zenon DEF Channel!Next, Channel!Device, Channel!Caller, Channel!Reader, Channel!Modem, Channel!Done

\* Two lists of lines.
LEMMA LinesJoined ==
  ASSUME NEW S, NEW s \in Seq(S), NEW t \in Seq(S)
  PROVE  /\ s \o t \in Seq(S) /\ Len(s \o t) = Len(s) + Len(t)
         /\ \A i \in 1..Len(s) : (s \o t)[i] = s[i]
         /\ \A i \in 1..Len(t) : (s \o t)[Len(s) + i] = t[i]
  OBVIOUS

\* Lines of data and a final one behind others.
LEMMA LinesAppended ==
  ASSUME NEW S, NEW s \in Seq(S), NEW m \in Nat, NEW d \in S, NEW f \in S, NEW r,
         r = s \o [i \in 1..m |-> d] \o <<f>>
  PROVE  /\ r \in Seq(S) /\ Len(r) = Len(s) + m + 1 /\ r[Len(r)] = f
         /\ \A i \in 1..Len(s) : r[i] = s[i]
         /\ \A i \in (Len(s) + 1)..(Len(r) - 1) : r[i] = d
<1> DEFINE data == [i \in 1..m |-> d]
<1> DEFINE t == s \o data
<1>1. data \in Seq(S) /\ Len(data) = m
  OBVIOUS
<1> HIDE DEF data
<1>2. t \in Seq(S) /\ Len(t) = Len(s) + m
  BY <1>1, LinesJoined
<1>3. \A i \in 1..Len(s) : t[i] = s[i]
  BY <1>1, LinesJoined
<1>4. \A i \in (Len(s) + 1)..Len(t) : t[i] = d
  <2>1. TAKE i \in (Len(s) + 1)..Len(t)
  <2>2. t[i] = data[i - Len(s)] /\ i - Len(s) \in 1..m
    BY <1>1, <1>2
  <2>3. QED
    BY <2>2 DEF data
<1>5. r = t \o <<f>>
  BY DEF data
<1> HIDE DEF t
<1>6. <<f>> \in Seq(S) /\ Len(<<f>>) = 1
  OBVIOUS
<1>7. r \in Seq(S) /\ Len(r) = Len(t) + 1 /\ r[Len(r)] = f /\ \A i \in 1..Len(t) : r[i] = t[i]
  BY <1>2, <1>5, <1>6
<1>8. QED
  BY <1>2, <1>3, <1>4, <1>7

\* What the modem answers with: its lines come after those that are there, the final one last.
LEMMA ChannelResponds ==
  ASSUME Channel!TypeOK, Channel!Respond
  PROVE  /\ v2 /\ v8 # <<>> /\ v8[1] \in Channel!Sent /\ v8 = <<v8[1]>> /\ v8' = <<>>
         /\ UNCHANGED <<v1, v2, v3, v4, v5, v7, v9, v10, v11, v12, v13, v14, v15, v16, v17, v18, v19, v20>>
         /\ v6' \in Seq(Channel!Line) /\ Len(v6') > Len(v6) /\ \A i \in 1..Len(v6) : v6'[i] = v6[i]
         /\ v6'[Len(v6')].kind \in Channel!Final /\ v6'[Len(v6')].by = v8[1].n
         /\ \A i \in (Len(v6) + 1)..(Len(v6') - 1) :
              v6'[i].kind \in Channel!Prefix \cup {"digits"} /\ v6'[i].by = v8[1].n
         /\ v8[1].cmd.type = "SINGLELINE" /\ v6'[Len(v6')].kind = "OK" =>
              Len(v6') > Len(v6) + 1 /\ v6'[Len(v6) + 1] = [kind |-> v8[1].cmd.prefix, by |-> v8[1].n]
<1> DEFINE s == v8[1]
<1> DEFINE data(k) == [kind |-> k, by |-> s.n]
<1> USE ChannelAssumption
<1>1. v6 \in Seq(Channel!Line) /\ v8 \in {<<>>} \cup {<<q>> : q \in Channel!Sent}
  BY Zenon DEF Channel!TypeOK
<1>2. v2 /\ v8 # <<>> /\ v8' = <<>>
      /\ UNCHANGED <<v1, v2, v3, v4, v5, v7, v9, v10, v11, v12, v13, v14, v15, v16, v17, v18, v19, v20>>
  BY Zenon DEF Channel!Respond, Channel!respVars
<1>3. s \in Channel!Sent /\ v8 = <<s>>
  BY <1>1, <1>2
<1>4. s.n \in 0..MaxCommands /\ s.cmd \in Channel!Command \cup {Channel!Handshake}
  BY <1>3 DEF Channel!Sent
<1>5. \A k \in {"OK", "ERROR", "digits"} \cup Channel!Prefix : data(k) \in Channel!Line /\ data(k).kind = k /\ data(k).by = s.n
  BY <1>4 DEF Channel!Line
<1>6. /\ Channel!Kinds(s.cmd) \subseteq Channel!Prefix \cup {"digits"}
      /\ s.cmd.type = "SINGLELINE" => Channel!Kinds(s.cmd) = {s.cmd.prefix}
  <2>1. CASE s.cmd \in [type : {"NO_RESULT", "NUMERIC"}, prefix : {""}] \/ s.cmd = Channel!Handshake
    <3>1. s.cmd.type \in {"NO_RESULT", "NUMERIC"}
      <4>1. CASE s.cmd \in [type : {"NO_RESULT", "NUMERIC"}, prefix : {""}]
        BY <4>1
      <4>2. CASE s.cmd = Channel!Handshake
        <5>1. Channel!Handshake.type = "NO_RESULT"
          BY DEF Channel!Handshake
        <5>2. QED
          BY <4>2, <5>1
      <4>3. QED
        BY <2>1, <4>1, <4>2
    <3>2. QED
      BY <3>1 DEF Channel!Kinds
  <2>2. CASE s.cmd \in [type : {"SINGLELINE"}, prefix : {"+CEREG:"}] \cup [type : {"MULTILINE"}, prefix : {"+CGACT:"}]
    <3>1. s.cmd.type \in {"SINGLELINE", "MULTILINE"} /\ s.cmd.prefix \in Channel!Prefix
      BY <2>2 DEF Channel!Prefix
    <3>2. QED
      BY <3>1 DEF Channel!Kinds
  <2>3. QED
    BY <1>4, <2>1, <2>2 DEF Channel!Command
<1> DEFINE after ==
         /\ v6' \in Seq(Channel!Line) /\ Len(v6') > Len(v6) /\ \A i \in 1..Len(v6) : v6'[i] = v6[i]
         /\ v6'[Len(v6')].kind \in Channel!Final /\ v6'[Len(v6')].by = v8[1].n
         /\ \A i \in (Len(v6) + 1)..(Len(v6') - 1) :
              v6'[i].kind \in Channel!Prefix \cup {"digits"} /\ v6'[i].by = v8[1].n
         /\ v8[1].cmd.type = "SINGLELINE" /\ v6'[Len(v6')].kind = "OK" =>
              Len(v6') > Len(v6) + 1 /\ v6'[Len(v6) + 1] = [kind |-> v8[1].cmd.prefix, by |-> v8[1].n]
<1>7. ASSUME v6' = Append(v6, data("ERROR"))
      PROVE  after
  <2>1. /\ v6' \in Seq(Channel!Line) /\ Len(v6') = Len(v6) + 1 /\ v6'[Len(v6')] = data("ERROR")
        /\ \A i \in 1..Len(v6) : v6'[i] = v6[i]
    BY <1>1, <1>5, <1>7
  <2>2. v6'[Len(v6')].kind = "ERROR" /\ v6'[Len(v6')].by = s.n
    BY <1>5, <2>1
  <2>3. after
    BY <2>1, <2>2, <1>1 DEF Channel!Final
  <2>4. QED
    BY <2>3
<1>8. ASSUME Channel!Kinds(s.cmd) = {} \/ s.cmd.type = "MULTILINE", v6' = Append(v6, data("OK"))
      PROVE  after
  <2>1. /\ v6' \in Seq(Channel!Line) /\ Len(v6') = Len(v6) + 1 /\ v6'[Len(v6')] = data("OK")
        /\ \A i \in 1..Len(v6) : v6'[i] = v6[i]
    BY <1>1, <1>5, <1>8
  <2>2. v6'[Len(v6')].kind = "OK" /\ v6'[Len(v6')].by = s.n
    BY <1>5, <2>1
  <2>3. s.cmd.type # "SINGLELINE"
    BY <1>6, <1>8
  <2>4. after
    BY <2>1, <2>2, <2>3, <1>1 DEF Channel!Final
  <2>5. QED
    BY <2>4
<1>9. ASSUME NEW k \in Channel!Kinds(s.cmd), NEW m \in 1..(IF s.cmd.type = "MULTILINE" THEN MaxData ELSE 1),
             v6' = v6 \o [i \in 1..m |-> data(k)] \o <<data("OK")>>
      PROVE after
  <2>1. m \in Nat \ {0}
    BY <1>9
  <2>2. k \in Channel!Prefix \cup {"digits"}
    BY <1>6
  <2>3. data(k) \in Channel!Line /\ data(k).kind = k /\ data(k).by = s.n
        /\ data("OK") \in Channel!Line /\ data("OK").kind = "OK" /\ data("OK").by = s.n
    BY <1>5, <2>2
  <2> HIDE DEF data
  <2>4. /\ v6' \in Seq(Channel!Line) /\ Len(v6') = Len(v6) + m + 1 /\ v6'[Len(v6')] = data("OK")
        /\ \A i \in 1..Len(v6) : v6'[i] = v6[i]
        /\ \A i \in (Len(v6) + 1)..(Len(v6') - 1) : v6'[i] = data(k)
    BY <1>1, <1>9, <2>1, <2>3, LinesAppended
  <2>5. Len(v6) \in Nat
    BY <1>1
  <2>6. Len(v6') > Len(v6) + 1 /\ v6'[Len(v6) + 1] = data(k)
    BY <2>1, <2>4, <2>5
  <2>7. s.cmd.type = "SINGLELINE" => k = s.cmd.prefix
    BY <1>6
  <2>8. s.cmd.type = "SINGLELINE" => v6'[Len(v6) + 1] = [kind |-> s.cmd.prefix, by |-> s.n]
    BY <2>6, <2>7 DEF data
  <2>9. v6'[Len(v6')].kind \in Channel!Final /\ v6'[Len(v6')].by = s.n
    BY <2>3, <2>4 DEF Channel!Final
  <2>10. \A i \in (Len(v6) + 1)..(Len(v6') - 1) :
              v6'[i].kind \in Channel!Prefix \cup {"digits"} /\ v6'[i].by = s.n
    BY <2>2, <2>3, <2>4
  <2>11. Len(v6') > Len(v6)
    BY <2>5, <2>6
  <2>12. QED
    BY <2>4, <2>6, <2>8, <2>9, <2>10, <2>11, Zenon
<1>10. \/ v6' = Append(v6, data("ERROR"))
       \/ (Channel!Kinds(s.cmd) = {} \/ s.cmd.type = "MULTILINE") /\ v6' = Append(v6, data("OK"))
       \/ \E k \in Channel!Kinds(s.cmd), m \in 1..(IF s.cmd.type = "MULTILINE" THEN MaxData ELSE 1) :
             v6' = v6 \o [i \in 1..m |-> data(k)] \o <<data("OK")>>
  BY DEF Channel!Respond
<1>11. after
  <2> HIDE DEF data, after
  <2>1. QED
    <3>1. after \/ (\E k \in Channel!Kinds(s.cmd), m \in 1..(IF s.cmd.type = "MULTILINE" THEN MaxData ELSE 1) :
             v6' = v6 \o [i \in 1..m |-> data(k)] \o <<data("OK")>>)
      <4>1. v6' = Append(v6, data("ERROR")) => after
        BY <1>7
      <4>2. (Channel!Kinds(s.cmd) = {} \/ s.cmd.type = "MULTILINE") /\ v6' = Append(v6, data("OK")) => after
        BY <1>8
      <4>3. QED
        BY <1>10, <4>1, <4>2, Zenon
    <3>2. QED
      BY <1>9, <3>1, Zenon
<1>12. QED
  BY <1>2, <1>3, <1>11

LEMMA LinesCut ==
  ASSUME NEW S, NEW s \in Seq(S), s # <<>>
  PROVE  /\ Len(s) \in Nat \ {0} /\ Head(s) = s[1] /\ Head(s) \in S /\ 1 \in DOMAIN s /\ DOMAIN s = 1..Len(s)
         /\ Tail(s) \in Seq(S) /\ Len(Tail(s)) = Len(s) - 1 /\ DOMAIN Tail(s) = 1..(Len(s) - 1)
         /\ \A i \in DOMAIN Tail(s) : Tail(s)[i] = s[i + 1] /\ i + 1 \in DOMAIN s
  OBVIOUS

\* What becomes of a line: it goes to the handler, with a message report or not, it
\* is the first of a message report, it ends the response, or it is a part of it.
LEMMA ChannelReads ==
  ASSUME Channel!TypeOK, Channel!Read
  PROVE  /\ UNCHANGED <<v1, v2, v3, v4, v7, v8, v9, v13, v14, v15, v16, v17, v19>>
         /\ v5 # "ended" /\ v6 # <<>> /\ Head(v6) \in Channel!Line /\ v6' = Tail(v6)
         /\ \/ /\ v18' = v18 \cup {Head(v6)} /\ v5' = "line" /\ UNCHANGED <<v10, v11, v12, v20>>
               /\ \/ v5 = "second" \/ ~v9
                  \/ Head(v6).kind \notin Channel!Final /\ ~Channel!Wanted(Head(v6))
            \/ v5 = "line" /\ v5' = "second" /\ Head(v6).kind = "cmti" /\ UNCHANGED <<v10, v11, v12, v18, v20>>
            \/ /\ v5 = "line" /\ v5' = "line" /\ v9 /\ Head(v6).kind \in Channel!Final
               /\ v11' = Head(v6) /\ Channel!Signalled /\ UNCHANGED <<v10, v18>>
            \/ /\ v5 = "line" /\ v5' = "line" /\ v9 /\ Head(v6).kind \notin Channel!Final
               /\ Channel!Wanted(Head(v6)) /\ v10' = Append(v10, Head(v6)) /\ UNCHANGED <<v11, v12, v18, v20>>
<1>1. v5 \in {"line", "second", "ended"} /\ v6 \in Seq(Channel!Line) /\ v9 \in BOOLEAN
  BY Zenon DEF Channel!TypeOK
<1>2. /\ UNCHANGED <<v1, v2, v3, v4, v7, v8, v9, v13, v14, v15, v16, v17, v19>>
      /\ v5 # "ended" /\ v6 # <<>> /\ v6' = Tail(v6)
  <2>1. UNCHANGED v9
    <3>1. UNCHANGED <<Channel!respVars, v12>> => UNCHANGED v9
      BY Zenon DEF Channel!respVars
    <3>2. QED
      BY <3>1, Zenon DEF Channel!Read, Channel!Tell, Channel!Keep, Channel!ProcessLine
  <2>2. QED
    BY <2>1, Zenon DEF Channel!Read, Channel!modemVars
<1>3. Head(v6) \in Channel!Line
  BY <1>1, <1>2, LinesCut
<1>4. CASE v5 = "second"
  <2>1. Channel!Tell(Head(v6)) /\ v5' = "line"
    BY <1>4 DEF Channel!Read
  <2>2. v18' = v18 \cup {Head(v6)} /\ UNCHANGED <<v10, v11, v12, v20>>
    BY <2>1, Zenon DEF Channel!Tell, Channel!respVars
  <2>3. QED
    BY <1>2, <1>3, <1>4, <2>1, <2>2, Zenon
<1>5. CASE v5 = "line" /\ Head(v6).kind = "cmti"
  <2>1. v5' = "second" /\ UNCHANGED <<Channel!respVars, v12, v18, v20>>
    BY <1>5 DEF Channel!Read
  <2>2. UNCHANGED <<v10, v11, v12, v18, v20>>
    BY <2>1, Zenon DEF Channel!respVars
  <2>3. QED
    BY <1>2, <1>3, <1>5, <2>1, <2>2, Zenon
<1>6. CASE v5 = "line" /\ Head(v6).kind # "cmti"
  <2>1. Channel!ProcessLine(Head(v6)) /\ v5' = "line"
    BY <1>6 DEF Channel!Read
  <2>2. CASE Channel!Tell(Head(v6)) /\ (~v9 \/ (Head(v6).kind \notin Channel!Final /\ ~Channel!Wanted(Head(v6))))
    <3>1. v18' = v18 \cup {Head(v6)} /\ UNCHANGED <<v10, v11, v12, v20>>
      BY <2>2, Zenon DEF Channel!Tell, Channel!respVars
    <3>2. QED
      BY <1>2, <1>3, <2>1, <2>2, <3>1, Zenon
  <2>3. CASE v9 /\ Head(v6).kind \in Channel!Final /\ v11' = Head(v6) /\ Channel!Signalled
             /\ UNCHANGED <<v9, v10, v18>>
    BY <1>2, <1>3, <1>6, <2>1, <2>3, Zenon
  <2>4. CASE v9 /\ Head(v6).kind \notin Channel!Final /\ Channel!Wanted(Head(v6)) /\ Channel!Keep(Head(v6))
    <3>1. v10' = Append(v10, Head(v6)) /\ UNCHANGED <<v11, v12, v18, v20>>
      BY <2>4, Zenon DEF Channel!Keep
    <3>2. QED
      BY <1>2, <1>3, <1>6, <2>1, <2>4, <3>1, Zenon
  <2>5. QED
    BY <2>1, <2>2, <2>3, <2>4, Zenon DEF Channel!ProcessLine
<1>7. QED
  BY <1>1, <1>2, <1>4, <1>5, <1>6, Zenon

\* What is written, and that there is a number for it.
LEMMA ChannelWrites ==
  ASSUME Channel!TypeOK, v14 < MaxCommands, NEW c \in Channel!Command \cup {Channel!Handshake}, Channel!Write(c)
  PROVE  /\ v7' \in Seq(Channel!Sent) /\ v10' \in Seq(Channel!Line) /\ v11' \in Channel!Line \cup {Channel!NoLine}
         /\ v18' \subseteq Channel!Line /\ v14' \in 1..MaxCommands
<1>1. v7 \in Seq(Channel!Sent) /\ v14 \in 0..MaxCommands
  BY Zenon DEF Channel!TypeOK
<1>2. v14 + 1 \in 1..MaxCommands
  BY <1>1, ChannelAssumption
<1>3. [cmd |-> c, n |-> v14 + 1] \in Channel!Sent
  BY <1>2 DEF Channel!Sent
<1>4. Append(v7, [cmd |-> c, n |-> v14 + 1]) \in Seq(Channel!Sent)
  BY <1>1, <1>3
<1>5. v7' \in Seq(Channel!Sent)
  BY <1>1, <1>4 DEF Channel!Write
<1>6. v10' = <<>> /\ v11' = Channel!NoLine /\ v18' = {} /\ v14' = v14 + 1
  BY Zenon DEF Channel!Write
<1>7. QED
  BY <1>2, <1>5, <1>6

\* What is read, written and answered.
LEMMA ChannelSeqs ==
  ASSUME Channel!ChannelInv, Channel!Next
  PROVE  /\ v6' \in Seq(Channel!Line) /\ v7' \in Seq(Channel!Sent) /\ v8' \in {<<>>} \cup {<<s>> : s \in Channel!Sent}
         /\ v10' \in Seq(Channel!Line) /\ v11' \in Channel!Line \cup {Channel!NoLine} /\ v18' \subseteq Channel!Line
<1>1. /\ v6 \in Seq(Channel!Line) /\ v7 \in Seq(Channel!Sent) /\ v8 \in {<<>>} \cup {<<s>> : s \in Channel!Sent}
      /\ v10 \in Seq(Channel!Line) /\ v11 \in Channel!Line \cup {Channel!NoLine} /\ v18 \subseteq Channel!Line
  BY Zenon DEF Channel!ChannelInv, Channel!TypeOK
<1>2. Channel!Places /\ Channel!TypeOK
  BY Zenon DEF Channel!ChannelInv
<1> USE ChannelAssumption
<1>3. CASE Channel!Open
  <2>1. v6' = <<>> /\ v7' = <<>> /\ v8' = <<>> /\ UNCHANGED <<v10, v11, v18>>
    BY <1>3, Zenon DEF Channel!Open
  <2>2. QED
    BY <1>1, <2>1
<1>4. CASE Channel!Close
  <2>1. UNCHANGED <<v6, v7, v8, v10, v11, v18>>
    BY <1>4, Zenon DEF Channel!Close, Channel!respVars, Channel!modemVars, Channel!readerVars, Channel!Signalled
  <2>2. QED
    BY <1>1, <2>1
<1>5. CASE Channel!Hangup
  <2>1. v6' = <<>> /\ v7' = <<>> /\ v8' = <<>> /\ UNCHANGED <<v10, v11, v18>>
    BY <1>5, Zenon DEF Channel!Hangup, Channel!respVars
  <2>2. QED
    BY <1>1, <2>1
<1>6. CASE Channel!Send
  <2>1. UNCHANGED <<v6, v8>> /\ v14 < MaxCommands
    BY <1>6, Zenon DEF Channel!Send, Channel!readerVars
  <2>2. CASE Channel!Writable /\ \E c \in Channel!Command : Channel!Write(c)
    BY <1>1, <1>2, <2>1, <2>2, ChannelWrites
  <2>3. CASE UNCHANGED <<v13, v14, v7, Channel!respVars, v12, v18, v20>>
    <3>1. UNCHANGED <<v7, v10, v11, v18>>
      BY <2>3, Zenon DEF Channel!respVars
    <3>2. QED
      BY <1>1, <2>1, <3>1
  <2>4. QED
    BY <1>6, <2>2, <2>3, Zenon DEF Channel!Send
<1>7. CASE Channel!StartHandshake
  <2>1. UNCHANGED <<v6, v8>> /\ v14 + Tries <= MaxCommands /\ Channel!Write(Channel!Handshake)
    BY <1>7, Zenon DEF Channel!StartHandshake, Channel!readerVars
  <2>2. v14 < MaxCommands
    BY <1>2, <2>1 DEF Channel!TypeOK
  <2>3. QED
    BY <1>1, <1>2, <2>1, <2>2, ChannelWrites
<1>8. CASE Channel!Wait
  <2>1. UNCHANGED <<v6, v7, v8, v10, v11, v18>>
    BY <1>8, Zenon DEF Channel!Wait, Channel!SliceEnds, Channel!NextSlice, Channel!Expire, Channel!WaitUnchanged, Channel!respVars, Channel!modemVars, Channel!readerVars
  <2>2. QED
    BY <1>1, <2>1
<1>9. CASE Channel!Return
  <2>1. CASE UNCHANGED <<v7, v10, v11, v18>>
    BY <1>1, <1>9, <2>1, ChannelReturns
  <2>2. CASE v15 \in 1..(Tries - 1) /\ Channel!Write(Channel!Handshake)
    <3>1. UNCHANGED <<v6, v8>>
      BY <1>9, ChannelReturns, Zenon
    <3>2. v14 < MaxCommands
      BY <1>2, <2>2 DEF Channel!TypeOK, Channel!Places
    <3>3. QED
      BY <1>1, <1>2, <2>2, <3>1, <3>2, ChannelWrites
  <2>3. QED
    BY <1>9, <2>1, <2>2, ChannelReturns, Zenon
<1>10. CASE Channel!Drained
  <2>1. UNCHANGED <<v6, v7, v8, v10, v11, v18>>
    BY <1>10, Zenon DEF Channel!Drained, Channel!WaitUnchanged, Channel!respVars, Channel!modemVars, Channel!readerVars
  <2>2. QED
    BY <1>1, <2>1
<1>11. CASE Channel!Read
  <2>1. UNCHANGED <<v7, v8>> /\ v6 # <<>> /\ Head(v6) \in Channel!Line /\ v6' = Tail(v6)
    BY <1>2, <1>11, ChannelReads, Zenon
  <2>2. \/ v18' = v18 \cup {Head(v6)} /\ UNCHANGED <<v10, v11>>
        \/ UNCHANGED <<v10, v11, v18>>
        \/ v11' = Head(v6) /\ UNCHANGED <<v10, v18>>
        \/ v10' = Append(v10, Head(v6)) /\ UNCHANGED <<v11, v18>>
    BY <1>2, <1>11, ChannelReads, Zenon
  <2>3. v6' \in Seq(Channel!Line)
    BY <1>1, <2>1, LinesCut
  <2>4. Append(v10, Head(v6)) \in Seq(Channel!Line)
    BY <1>1, <2>1
  <2>5. v18 \cup {Head(v6)} \subseteq Channel!Line
    BY <1>1, <2>1
  <2>6. QED
    BY <1>1, <2>1, <2>2, <2>3, <2>4, <2>5
<1>12. CASE Channel!Eof
  <2>1. UNCHANGED <<v6, v7, v8, v10, v11, v18>>
    BY <1>12, Zenon DEF Channel!Eof, Channel!respVars, Channel!modemVars, Channel!Signalled
  <2>2. QED
    BY <1>1, <2>1
<1>13. CASE Channel!TakeCommand
  <2>1. UNCHANGED <<v6, v10, v11, v18>> /\ v7 # <<>> /\ v8' = <<Head(v7)>> /\ v7' = Tail(v7)
    BY <1>13, Zenon DEF Channel!TakeCommand, Channel!respVars, Channel!readerVars
  <2>2. Head(v7) \in Channel!Sent /\ Tail(v7) \in Seq(Channel!Sent)
    BY <1>1, <2>1, LinesCut
  <2>3. v8' \in {<<>>} \cup {<<s>> : s \in Channel!Sent}
    BY <2>1, <2>2
  <2>4. QED
    BY <1>1, <2>1, <2>2, <2>3
<1>14. CASE Channel!Respond
  <2>1. v6' \in Seq(Channel!Line) /\ v8' = <<>> /\ UNCHANGED <<v7, v10, v11, v18>>
    BY <1>2, <1>14, ChannelResponds, Zenon
  <2>2. QED
    BY <1>1, <2>1
<1>15. CASE Channel!Urc
  <2>1. /\ UNCHANGED <<v7, v8, v10, v11, v18>>
        /\ \E k \in {"+CEREG:"} \cup (IF Cmti THEN {"cmti"} ELSE {}) : v6' = Append(v6, [kind |-> k, by |-> 0])
    BY <1>15, Zenon DEF Channel!Urc, Channel!respVars
  <2>2. PICK k \in {"+CEREG:", "cmti"} : v6' = Append(v6, [kind |-> k, by |-> 0])
    BY <2>1
  <2>3. [kind |-> k, by |-> 0] \in Channel!Line
    BY DEF Channel!Line, Channel!Prefix
  <2>4. v6' \in Seq(Channel!Line)
    BY <1>1, <2>2, <2>3
  <2>5. QED
    BY <1>1, <2>1, <2>4
<1>16. CASE UNCHANGED Channel!vars
  <2>1. UNCHANGED <<v6, v7, v8, v10, v11, v18>>
    BY <1>16, Zenon DEF Channel!vars, Channel!readerVars, Channel!modemVars, Channel!respVars
  <2>2. QED
    BY <1>1, <2>1
<1>17. QED
  BY <1>3, <1>4, <1>5, <1>6, <1>7, <1>8, <1>9, <1>10, <1>11, <1>12, <1>13, <1>14, <1>15, <1>16, Zenon DEF Channel!Next, Channel!Device, Channel!Caller, Channel!Reader, Channel!Modem, Channel!Done

\* Where the threads are, and what they left.
LEMMA ChannelFlat ==
  ASSUME Channel!ChannelInv, Channel!Next
  PROVE  /\ v4' => ~v2'
         /\ v5' = "ended" => v4'
         /\ ~v2' => v6' = <<>> /\ v7' = <<>> /\ v8' = <<>>
         /\ v9' => v16' = "none" /\ v14' > 0
         /\ v12' \in {"wait", "between"} /\ ~v20' => v11' = Channel!NoLine /\ ~v4'
         /\ v15' > 0 => v9' /\ v14' + (Tries - v15') <= MaxCommands
         /\ v15' > 0 \/ v12' = "drain" => v13' = Channel!Handshake
         /\ v16' = "ok" /\ v13'.type \in {"SINGLELINE", "NUMERIC"} => v10' # <<>>
<1>1. /\ v1 \in 0..MaxSessions /\ v2 \in BOOLEAN /\ v3 \in BOOLEAN /\ v4 \in BOOLEAN
      /\ v5 \in {"line", "second", "ended"} /\ v9 \in BOOLEAN /\ v17 \in BOOLEAN /\ v20 \in BOOLEAN
      /\ v12 \in {"idle", "wait", "between", "expired", "woken", "drain"} /\ v13 \in Channel!Command \cup {Channel!Handshake}
      /\ v14 \in 0..MaxCommands /\ v15 \in 0..Tries
      /\ v16 \in {"none", "ok", "error", "invalid", "timeout", "closed"}
      /\ (v12 \in {"wait", "between", "expired", "woken"} <=> v9)
  BY Zenon DEF Channel!ChannelInv, Channel!TypeOK
<1>2. /\ v4 => ~v2
      /\ v5 = "ended" => v4
      /\ ~v2 => v6 = <<>> /\ v7 = <<>> /\ v8 = <<>>
      /\ v9 => v16 = "none" /\ v14 > 0
      /\ v12 \in {"wait", "between"} /\ ~v20 => v11 = Channel!NoLine /\ ~v4
      /\ v15 > 0 => v9 /\ v14 + (Tries - v15) <= MaxCommands
      /\ v15 > 0 \/ v12 = "drain" => v13 = Channel!Handshake
      /\ v16 = "ok" /\ v13.type \in {"SINGLELINE", "NUMERIC"} => v10 # <<>>
  BY Zenon DEF Channel!ChannelInv, Channel!Places, Channel!HasData
<1>t. Channel!TypeOK
  BY Zenon DEF Channel!ChannelInv
<1> USE ChannelAssumption
<1>3. CASE Channel!Open
  BY <1>1, <1>2, <1>3 DEF Channel!Open
<1>4. CASE Channel!Close
  BY <1>1, <1>2, <1>4 DEF Channel!Close, Channel!respVars, Channel!modemVars, Channel!readerVars, Channel!Signalled
<1>5. CASE Channel!Hangup
  BY <1>1, <1>2, <1>5 DEF Channel!Hangup, Channel!respVars
<1>6. CASE Channel!Send
  <2>1. v12 = "idle" /\ UNCHANGED <<v2, v4, v5, v6, v8, v15>>
    BY <1>6, Zenon DEF Channel!Send, Channel!readerVars
  <2>2. v15 = 0
    BY <1>1, <1>2, <2>1
  <2>3. CASE Channel!Writable /\ \E c \in Channel!Command : Channel!Write(c)
    <3>1. /\ v14' = v14 + 1 /\ v9' = TRUE /\ v16' = "none" /\ v12' = "wait" /\ v11' = Channel!NoLine
          /\ v7' = IF v2 THEN Append(v7, [cmd |-> v13', n |-> v14 + 1]) ELSE v7
      BY <2>3, Zenon DEF Channel!Write
    <3>2. ~v4
      BY <2>3 DEF Channel!Writable
    <3>3. ~v2 => v7' = v7
      BY <3>1
    <3>4. v15' = 0 /\ v12' # "drain" /\ v16' # "ok" /\ v14' > 0
      BY <1>1, <2>1, <2>2, <3>1
    <3>5. ~v2' => v6' = <<>> /\ v7' = <<>> /\ v8' = <<>>
      BY <1>1, <1>2, <2>1, <3>3
    <3>6. QED
      BY <1>1, <1>2, <2>1, <3>1, <3>2, <3>4, <3>5
  <2>4. CASE v16' = "closed" /\ UNCHANGED <<v13, v14, v7, Channel!respVars, v12, v18, v20>>
    <3>1. v16' = "closed" /\ UNCHANGED <<v2, v4, v5, v6, v7, v8, v9, v10, v11, v12, v13, v14, v15>>
      BY <2>1, <2>4, Zenon DEF Channel!respVars
    <3>2. QED
      BY <1>1, <1>2, <2>1, <3>1
  <2>5. QED
    BY <1>6, <2>3, <2>4, Zenon DEF Channel!Send
<1>7. CASE Channel!StartHandshake
  BY <1>1, <1>2, <1>7 DEF Channel!StartHandshake, Channel!readerVars, Channel!Write, Channel!Writable
<1>8. CASE Channel!Wait
  BY <1>1, <1>2, <1>8 DEF Channel!Wait, Channel!SliceEnds, Channel!NextSlice, Channel!Expire, Channel!WaitUnchanged, Channel!respVars, Channel!modemVars, Channel!readerVars
<1>9. CASE Channel!Return
  BY <1>1, <1>2, <1>9 DEF Channel!Return, Channel!readerVars, Channel!Result, Channel!Finish, Channel!Taken, Channel!Write, Channel!Writable
<1>10. CASE Channel!Drained
  BY <1>1, <1>2, <1>10 DEF Channel!Drained, Channel!WaitUnchanged, Channel!respVars, Channel!modemVars, Channel!readerVars
<1>11. CASE Channel!Read
  BY <1>1, <1>2, <1>11 DEF Channel!Read, Channel!modemVars, Channel!ProcessLine, Channel!Tell, Channel!respVars, Channel!Keep, Channel!Wanted, Channel!Signalled, Channel!Final
<1>12. CASE Channel!Eof
  BY <1>1, <1>2, <1>12 DEF Channel!Eof, Channel!respVars, Channel!modemVars, Channel!Signalled
<1>13. CASE Channel!TakeCommand
  BY <1>1, <1>2, <1>13 DEF Channel!TakeCommand, Channel!respVars, Channel!readerVars
<1>14. CASE Channel!Respond
  BY <1>1, <1>2, <1>14 DEF Channel!Respond, Channel!respVars, Channel!Kinds
<1>15. CASE Channel!Urc
  BY <1>1, <1>2, <1>15 DEF Channel!Urc, Channel!respVars
<1>16. CASE UNCHANGED Channel!vars
  BY <1>1, <1>2, <1>16 DEF Channel!vars, Channel!readerVars, Channel!modemVars, Channel!respVars
<1>17. QED
  BY <1>3, <1>4, <1>5, <1>6, <1>7, <1>8, <1>9, <1>10, <1>11, <1>12, <1>13, <1>14, <1>15, <1>16, Zenon DEF Channel!Next, Channel!Device, Channel!Caller, Channel!Reader, Channel!Modem, Channel!Done

\* A modem that makes no message reports.
LEMMA ChannelPlain ==
  ASSUME Channel!ChannelInv, Channel!Next, ~Cmti
  PROVE  v5' # "second" /\ \A i \in DOMAIN v6' : v6'[i].kind # "cmti"
<1>1. v5 # "second" /\ \A i \in DOMAIN v6 : v6[i].kind # "cmti"
  BY Zenon DEF Channel!ChannelInv, Channel!Places
<1>t. Channel!TypeOK
  BY Zenon DEF Channel!ChannelInv
<1>l. v6 \in Seq(Channel!Line)
  BY <1>t, Zenon DEF Channel!TypeOK
<1> USE ChannelAssumption
<1>2. CASE Channel!Open
  <2>1. v6' = <<>> /\ v5' # "second"
    BY <1>1, <1>2 DEF Channel!Open
  <2>2. QED
    BY <2>1
<1>3. CASE Channel!Close
  <2>1. UNCHANGED <<v5, v6>>
    BY <1>3, Zenon DEF Channel!Close, Channel!respVars, Channel!modemVars, Channel!readerVars, Channel!Signalled
  <2>2. QED
    BY <1>1, <2>1, Zenon
<1>4. CASE Channel!Hangup
  <2>1. v6' = <<>> /\ v5' # "second"
    BY <1>1, <1>4 DEF Channel!Hangup, Channel!respVars
  <2>2. QED
    BY <2>1
<1>5. CASE Channel!Send
  <2>1. UNCHANGED <<v5, v6>>
    BY <1>5, Zenon DEF Channel!Send, Channel!readerVars, Channel!respVars, Channel!Writable, Channel!Write, Channel!NoLine, Channel!Command
  <2>2. QED
    BY <1>1, <2>1, Zenon
<1>6. CASE Channel!StartHandshake
  <2>1. UNCHANGED <<v5, v6>>
    BY <1>6, Zenon DEF Channel!StartHandshake, Channel!readerVars, Channel!Handshake, Channel!Write, Channel!NoLine, Channel!Writable
  <2>2. QED
    BY <1>1, <2>1, Zenon
<1>7. CASE Channel!Wait
  <2>1. UNCHANGED <<v5, v6>>
    BY <1>7, Zenon DEF Channel!Wait, Channel!SliceEnds, Channel!NextSlice, Channel!Expire, Channel!WaitUnchanged, Channel!respVars, Channel!modemVars, Channel!readerVars
  <2>2. QED
    BY <1>1, <2>1, Zenon
<1>8. CASE Channel!Return
  <2>1. UNCHANGED <<v5, v6>>
    BY <1>8, ChannelReturns, Zenon
  <2>2. QED
    BY <1>1, <2>1, Zenon
<1>9. CASE Channel!Drained
  <2>1. UNCHANGED <<v5, v6>>
    BY <1>9, Zenon DEF Channel!Drained, Channel!WaitUnchanged, Channel!respVars, Channel!modemVars, Channel!readerVars
  <2>2. QED
    BY <1>1, <2>1, Zenon
<1>10. CASE Channel!Read
  <2>1. v6 # <<>> /\ v6' = Tail(v6) /\ (v5' = "line" \/ Head(v6).kind = "cmti")
    BY <1>t, <1>10, ChannelReads, Zenon
  <2>2. 1 \in DOMAIN v6 /\ Head(v6) = v6[1]
    BY <1>l, <2>1, LinesCut
  <2>3. v5' = "line"
    BY <1>1, <2>1, <2>2
  <2>4. \A i \in DOMAIN v6' : v6'[i] = v6[i + 1] /\ i + 1 \in DOMAIN v6
    BY <1>l, <2>1, LinesCut
  <2>5. QED
    BY <1>1, <2>3, <2>4
<1>11. CASE Channel!Eof
  <2>1. v5' = "ended" /\ UNCHANGED v6
    BY <1>11, Zenon DEF Channel!Eof, Channel!respVars, Channel!modemVars, Channel!Signalled
  <2>2. QED
    BY <1>1, <2>1
<1>12. CASE Channel!TakeCommand
  <2>1. UNCHANGED <<v5, v6>>
    BY <1>12, Zenon DEF Channel!TakeCommand, Channel!respVars, Channel!readerVars
  <2>2. QED
    BY <1>1, <2>1, Zenon
<1>13. CASE Channel!Respond
  <2>1. /\ UNCHANGED v5 /\ v6' \in Seq(Channel!Line) /\ \A i \in 1..Len(v6) : v6'[i] = v6[i]
        /\ v6'[Len(v6')].kind \in Channel!Final
        /\ \A i \in (Len(v6) + 1)..(Len(v6') - 1) : v6'[i].kind \in Channel!Prefix \cup {"digits"}
    BY <1>t, <1>13, ChannelResponds, Zenon
  <2>2. SUFFICES ASSUME NEW i \in DOMAIN v6' PROVE v6'[i].kind # "cmti"
    BY <1>1, <2>1, Zenon
  <2>3. i \in 1..Len(v6) \/ i = Len(v6') \/ i \in (Len(v6) + 1)..(Len(v6') - 1)
    BY <1>l, <2>1
  <2>4. i \in 1..Len(v6) => i \in DOMAIN v6
    BY <1>l
  <2>5. QED
    BY <1>1, <2>1, <2>3, <2>4 DEF Channel!Final, Channel!Prefix
<1>14. CASE Channel!Urc
  <2>1. UNCHANGED v5 /\ v6' = Append(v6, [kind |-> "+CEREG:", by |-> 0])
    BY <1>14 DEF Channel!Urc, Channel!respVars
  <2>2. [kind |-> "+CEREG:", by |-> 0] \in Channel!Line
    BY DEF Channel!Line, Channel!Prefix
  <2>3. \A i \in DOMAIN v6' : (i \in DOMAIN v6 /\ v6'[i] = v6[i]) \/ v6'[i] = [kind |-> "+CEREG:", by |-> 0]
    BY <1>l, <2>1, <2>2
  <2>4. QED
    BY <1>1, <2>1, <2>3
<1>15. CASE UNCHANGED Channel!vars
  <2>1. UNCHANGED <<v5, v6>>
    BY <1>15, Zenon DEF Channel!vars, Channel!readerVars, Channel!modemVars, Channel!respVars
  <2>2. QED
    BY <1>1, <2>1, Zenon
<1>16. QED
  BY <1>2, <1>3, <1>4, <1>5, <1>6, <1>7, <1>8, <1>9, <1>10, <1>11, <1>12, <1>13, <1>14, <1>15, Zenon DEF Channel!Next, Channel!Device, Channel!Caller, Channel!Reader, Channel!Modem, Channel!Done

\* What is written when nothing else is on its way.
LEMMA ChannelAskedWrite ==
  ASSUME Channel!ChannelInv, ~Cmti, NEW c \in Channel!Command \cup {Channel!Handshake}, Channel!Write(c),
         v17 \/ Channel!Clear, UNCHANGED <<v2, v6, v8, v17>>
  PROVE  Channel!Asked'
<1>1. v17 \in BOOLEAN
  BY Zenon DEF Channel!ChannelInv, Channel!TypeOK
<1>2. CASE v17
  BY <1>2 DEF Channel!Asked
<1>3. CASE ~v17
  <2>1. v7 = <<>> /\ v8 = <<>> /\ \A i \in DOMAIN v6 : v6[i].by = 0 /\ v6[i].kind \notin Channel!Final
    BY <1>3, Zenon DEF Channel!Clear, Channel!Unasked
  <2>2. v10' = <<>> /\ v11' = Channel!NoLine /\ v13' = c /\ v14' = v14 + 1
        /\ v7' = IF v2 THEN Append(v7, [cmd |-> c, n |-> v14 + 1]) ELSE v7
    BY Zenon DEF Channel!Write
  <2>3. v2 => v7' = <<[cmd |-> v13', n |-> v14']>>
    <3>1. Append(<<>>, [cmd |-> v13', n |-> v14']) = <<[cmd |-> v13', n |-> v14']>>
      OBVIOUS
    <3>2. v2 => v7' = Append(<<>>, [cmd |-> v13', n |-> v14'])
      BY <2>1, <2>2
    <3>3. QED
      BY <3>1, <3>2, Zenon
  <2>4. v8' = <<>> /\ Channel!Unasked'
    BY <2>1 DEF Channel!Unasked, Channel!Final
  <2>5. \A i \in DOMAIN v10' : v10'[i].by \in {0, v14'}
    BY <2>2
  <2>6. QED
    BY <2>2, <2>3, <2>4, <2>5, Zenon DEF Channel!Asked
<1>4. QED
  BY <1>1, <1>2, <1>3

\* The next line, of a command that waits and whose modem makes no message reports: what
\* is before its final line is told or kept, and the final line leaves nothing behind.
LEMMA ChannelAskedRead ==
  ASSUME Channel!ChannelInv, ~Cmti, Channel!Read
  PROVE  Channel!Asked'
<1>1. /\ v1 \in 0..MaxSessions /\ v2 \in BOOLEAN /\ v3 \in BOOLEAN /\ v4 \in BOOLEAN
      /\ v5 \in {"line", "second", "ended"} /\ v9 \in BOOLEAN /\ v17 \in BOOLEAN /\ v20 \in BOOLEAN
      /\ v12 \in {"idle", "wait", "between", "expired", "woken", "drain"} /\ v13 \in Channel!Command \cup {Channel!Handshake}
      /\ v14 \in 0..MaxCommands /\ v15 \in 0..Tries
      /\ v16 \in {"none", "ok", "error", "invalid", "timeout", "closed"}
      /\ (v12 \in {"wait", "between", "expired", "woken"} <=> v9)
  BY Zenon DEF Channel!ChannelInv, Channel!TypeOK
<1>2. /\ v4 => ~v2
      /\ v5 = "ended" => v4
      /\ ~v2 => v6 = <<>> /\ v7 = <<>> /\ v8 = <<>>
      /\ v9 => v16 = "none" /\ v14 > 0
      /\ v12 \in {"wait", "between"} /\ ~v20 => v11 = Channel!NoLine /\ ~v4
      /\ v15 > 0 => v9 /\ v14 + (Tries - v15) <= MaxCommands
      /\ v15 > 0 \/ v12 = "drain" => v13 = Channel!Handshake
      /\ v16 = "ok" /\ v13.type \in {"SINGLELINE", "NUMERIC"} => v10 # <<>>
  BY Zenon DEF Channel!ChannelInv, Channel!Places, Channel!HasData
<1>3. /\ v6 \in Seq(Channel!Line) /\ v7 \in Seq(Channel!Sent) /\ v8 \in {<<>>} \cup {<<s>> : s \in Channel!Sent}
      /\ v10 \in Seq(Channel!Line) /\ v11 \in Channel!Line \cup {Channel!NoLine} /\ v18 \subseteq Channel!Line
  BY Zenon DEF Channel!ChannelInv, Channel!TypeOK
<1>4. Channel!Asked /\ Channel!Rested /\ Channel!TypeOK
  BY Zenon DEF Channel!ChannelInv
<1> USE ChannelAssumption
<1>5. v5 # "second" /\ \A i \in DOMAIN v6 : v6[i].kind # "cmti"
  BY Zenon DEF Channel!ChannelInv, Channel!Places
<1> DEFINE l == Head(v6)
<1>6. UNCHANGED <<v2, v7, v8, v9, v13, v14, v17>> /\ v6 # <<>> /\ l \in Channel!Line /\ v6' = Tail(v6)
  BY <1>4, ChannelReads, Zenon
<1>7. /\ l = v6[1] /\ 1 \in DOMAIN v6 /\ DOMAIN v6 = 1..Len(v6) /\ Len(v6) \in Nat
      /\ v6' \in Seq(Channel!Line) /\ DOMAIN v6' = 1..(Len(v6) - 1)
      /\ \A i \in DOMAIN v6' : v6'[i] = v6[i + 1] /\ i + 1 \in DOMAIN v6
  BY <1>3, <1>6, LinesCut
<1>8. l.kind # "cmti" /\ v2
  BY <1>1, <1>2, <1>5, <1>6, <1>7
<1> SUFFICES ASSUME v9, ~v17
             PROVE  Channel!Asked'
  BY <1>6, Zenon DEF Channel!Asked
<1> DEFINE told == v18' = v18 \cup {l} /\ UNCHANGED <<v10, v11>>
<1> DEFINE kept == /\ Channel!Wanted(l) /\ v10' = Append(v10, l) /\ UNCHANGED <<v11, v18>>
<1>9. \/ l.kind \notin Channel!Final /\ (told \/ kept)
      \/ l.kind \in Channel!Final /\ v11' = l /\ UNCHANGED <<v10, v18>>
  BY <1>4, <1>5, <1>8, ChannelReads
<1>10. l.kind \in Channel!Final => l # Channel!NoLine
  BY DEF Channel!Final, Channel!NoLine
<1>11. ASSUME kept
       PROVE  /\ v10' # <<>> /\ (v10 # <<>> => v10'[1] = v10[1]) /\ (v10 = <<>> => v10'[1] = l)
              /\ \A i \in DOMAIN v10' : (i \in DOMAIN v10 /\ v10'[i] = v10[i]) \/ v10'[i] = l
  BY <1>3, <1>6, <1>11
<1>12. ASSUME kept, v13.type = "SINGLELINE" PROVE v10 = <<>>
  BY <1>12 DEF Channel!Wanted
<1>13. ASSUME told \/ kept, Channel!Shown PROVE Channel!Shown'
  BY <1>6, <1>11, <1>13 DEF Channel!Shown, Channel!Own
<1>14. ASSUME told \/ kept, l = Channel!Own, v13.type = "SINGLELINE" PROVE Channel!Shown'
  <2>1. Channel!Own' = l /\ l.by = v14'
    BY <1>6, <1>14 DEF Channel!Own
  <2>2. CASE told
    BY <2>1, <2>2 DEF Channel!Shown
  <2>3. CASE kept
    BY <1>11, <1>12, <1>14, <2>1, <2>3 DEF Channel!Shown
  <2>4. QED
    BY <1>14, <2>2, <2>3
<1>15. ASSUME told \/ kept, l.by \in {0, v14} PROVE \A i \in DOMAIN v10' : v10'[i].by \in {0, v14'}
  <2>1. \A i \in DOMAIN v10 : v10[i].by \in {0, v14}
    BY <1>4 DEF Channel!Asked
  <2>2. CASE told
    BY <1>6, <2>1, <2>2
  <2>3. CASE kept
    BY <1>6, <1>11, <1>15, <2>1, <2>3
  <2>4. QED
    BY <1>15, <2>2, <2>3
<1>16. ASSUME Channel!Unasked PROVE Channel!Unasked' /\ l.by = 0 /\ l.kind \notin Channel!Final
  BY <1>7, <1>16 DEF Channel!Unasked, Channel!Final
<1>17. CASE v11 # Channel!NoLine
  <2>1. Channel!Clear /\ v11.by = v14 /\ (v13.type = "SINGLELINE" /\ v11.kind = "OK" => Channel!Shown)
    BY <1>4, <1>17 DEF Channel!Asked
  <2>2. Channel!Clear' /\ l.by = 0 /\ l.kind \notin Channel!Final
    BY <1>6, <1>16, <2>1 DEF Channel!Clear
  <2>3. (told \/ kept) /\ UNCHANGED v11
    BY <1>9, <2>2
  <2>4. v13'.type = "SINGLELINE" /\ v11'.kind = "OK" => Channel!Shown'
    BY <1>6, <1>13, <2>1, <2>3
  <2>5. \A i \in DOMAIN v10' : v10'[i].by \in {0, v14'}
    BY <1>15, <2>2, <2>3
  <2>6. v11' # Channel!NoLine /\ v11'.by = v14'
    BY <1>6, <1>17, <2>1, <2>3
  <2>7. QED
    BY <2>2, <2>4, <2>5, <2>6, Zenon DEF Channel!Asked
<1>18. CASE v11 = Channel!NoLine /\ Channel!Unasked
  <2>1. Channel!Unasked' /\ l.by = 0 /\ l.kind \notin Channel!Final
    BY <1>16, <1>18
  <2>2. (told \/ kept) /\ v11' = Channel!NoLine
    BY <1>9, <1>18, <2>1
  <2>3. \A i \in DOMAIN v10' : v10'[i].by \in {0, v14'}
    BY <1>15, <2>1, <2>2
  <2>4. \/ v7 = <<[cmd |-> v13, n |-> v14]>> /\ v8 = <<>>
        \/ v7 = <<>> /\ v8 = <<[cmd |-> v13, n |-> v14]>>
    <3>1. ASSUME NEW k \in DOMAIN v6, Channel!Answer(k) PROVE FALSE
      BY <1>18, <3>1 DEF Channel!Unasked, Channel!Answer
    <3>2. QED
      BY <1>4, <1>8, <1>18, <3>1 DEF Channel!Asked
  <2>5. \/ v7' = <<[cmd |-> v13', n |-> v14']>> /\ v8' = <<>> /\ Channel!Unasked'
        \/ v7' = <<>> /\ v8' = <<[cmd |-> v13', n |-> v14']>> /\ Channel!Unasked'
    BY <1>6, <2>1, <2>4
  <2>6. QED
    BY <2>2, <2>3, <2>5, Zenon DEF Channel!Asked
<1>19. CASE v11 = Channel!NoLine /\ v7 = <<>> /\ v8 = <<>> /\ \E k \in DOMAIN v6 : Channel!Answer(k)
  <2>1. PICK k \in DOMAIN v6 : Channel!Answer(k)
    BY <1>19
  <2>2. /\ v6[k].by = v14 /\ v6[k].kind \in Channel!Final
        /\ \A i \in DOMAIN v6 : i # k => v6[i].kind \notin Channel!Final /\ v6[i].by \in (IF i < k THEN {0, v14} ELSE {0})
        /\ v13.type = "SINGLELINE" /\ v6[k].kind = "OK" =>
             Channel!Shown \/ \E j \in DOMAIN v6 : j < k /\ v6[j] = Channel!Own
    BY <2>1, Zenon DEF Channel!Answer
  <2>3. CASE k = 1
    <3>1. l.by = v14 /\ v11' = l /\ UNCHANGED <<v10, v18>> /\ l # Channel!NoLine
      BY <1>7, <1>9, <1>10, <2>2, <2>3
    <3>2. Channel!Unasked'
      <4>1. ASSUME NEW i \in DOMAIN v6' PROVE v6'[i].by = 0 /\ v6'[i].kind \notin Channel!Final
        BY <1>7, <2>2, <2>3, <4>1
      <4>2. QED
        BY <4>1 DEF Channel!Unasked, Channel!Final
    <3>3. Channel!Clear'
      BY <1>6, <1>19, <3>2 DEF Channel!Clear
    <3>4. v13'.type = "SINGLELINE" /\ v11'.kind = "OK" => Channel!Shown'
      <4>1. v13.type = "SINGLELINE" /\ l.kind = "OK" => Channel!Shown
        <5>1. \A j \in DOMAIN v6 : ~(j < k)
          BY <1>7, <2>3
        <5>2. QED
          BY <1>7, <2>2, <2>3, <5>1
      <4>2. QED
        BY <1>6, <3>1, <4>1 DEF Channel!Shown, Channel!Own
    <3>5. \A i \in DOMAIN v10' : v10'[i].by \in {0, v14'}
      BY <1>4, <1>6, <3>1 DEF Channel!Asked
    <3>6. v11' # Channel!NoLine /\ v11'.by = v14'
      BY <1>6, <3>1
    <3>7. QED
      BY <3>3, <3>4, <3>5, <3>6, Zenon DEF Channel!Asked
  <2>4. CASE k # 1
    <3>1. k \in Nat /\ k > 1 /\ k - 1 \in DOMAIN v6' /\ v6'[k - 1] = v6[k]
      BY <1>7, <2>4
    <3>2. l.kind \notin Channel!Final /\ l.by \in {0, v14}
      BY <1>7, <2>2, <3>1
    <3>3. (told \/ kept) /\ v11' = Channel!NoLine
      BY <1>9, <1>19, <3>2
    <3>4. \A i \in DOMAIN v10' : v10'[i].by \in {0, v14'}
      BY <1>15, <3>2, <3>3
    <3>5. ASSUME NEW i \in DOMAIN v6', i # k - 1
          PROVE  v6'[i].kind \notin Channel!Final /\ v6'[i].by \in (IF i < k - 1 THEN {0, v14} ELSE {0})
      <4>1. i \in Nat /\ i + 1 # k /\ i + 1 \in DOMAIN v6 /\ v6'[i] = v6[i + 1] /\ (i < k - 1 <=> i + 1 < k)
        BY <1>7, <3>1, <3>5
      <4>2. QED
        BY <2>2, <4>1
    <3>6. v13.type = "SINGLELINE" /\ v6[k].kind = "OK" =>
            Channel!Shown' \/ \E j \in DOMAIN v6' : j < k - 1 /\ v6'[j] = Channel!Own
      <4>1. ASSUME v13.type = "SINGLELINE", NEW j \in DOMAIN v6, j < k, v6[j] = Channel!Own
            PROVE  Channel!Shown' \/ \E i \in DOMAIN v6' : i < k - 1 /\ v6'[i] = Channel!Own
        <5>1. CASE j = 1
          BY <1>7, <1>14, <3>3, <4>1, <5>1
        <5>2. CASE j # 1
          <6>1. j - 1 \in DOMAIN v6' /\ j - 1 < k - 1 /\ v6'[j - 1] = v6[j]
            BY <1>7, <3>1, <4>1, <5>2
          <6>2. QED
            BY <4>1, <6>1
        <5>3. QED
          BY <5>1, <5>2
      <4>2. QED
        BY <1>13, <2>2, <3>3, <4>1
    <3>7. Channel!Answer(k - 1)'
      <4>1. Channel!Own' = Channel!Own /\ Channel!Final' = Channel!Final
        BY <1>6 DEF Channel!Own, Channel!Final
      <4>2. QED
        BY <1>6, <2>2, <3>1, <3>5, <3>6, <4>1 DEF Channel!Answer
    <3>8. QED
      BY <1>6, <1>19, <3>1, <3>3, <3>4, <3>7 DEF Channel!Asked
  <2>5. QED
    BY <2>3, <2>4
<1>20. QED
  BY <1>4, <1>8, <1>17, <1>18, <1>19 DEF Channel!Asked

\* The response of the command that waits, behind lines that nobody asked for.
LEMMA ChannelAskedRespond ==
  ASSUME Channel!ChannelInv, ~Cmti, Channel!Respond
  PROVE  Channel!Asked'
<1>1. /\ v1 \in 0..MaxSessions /\ v2 \in BOOLEAN /\ v3 \in BOOLEAN /\ v4 \in BOOLEAN
      /\ v5 \in {"line", "second", "ended"} /\ v9 \in BOOLEAN /\ v17 \in BOOLEAN /\ v20 \in BOOLEAN
      /\ v12 \in {"idle", "wait", "between", "expired", "woken", "drain"} /\ v13 \in Channel!Command \cup {Channel!Handshake}
      /\ v14 \in 0..MaxCommands /\ v15 \in 0..Tries
      /\ v16 \in {"none", "ok", "error", "invalid", "timeout", "closed"}
      /\ (v12 \in {"wait", "between", "expired", "woken"} <=> v9)
  BY Zenon DEF Channel!ChannelInv, Channel!TypeOK
<1>2. /\ v4 => ~v2
      /\ v5 = "ended" => v4
      /\ ~v2 => v6 = <<>> /\ v7 = <<>> /\ v8 = <<>>
      /\ v9 => v16 = "none" /\ v14 > 0
      /\ v12 \in {"wait", "between"} /\ ~v20 => v11 = Channel!NoLine /\ ~v4
      /\ v15 > 0 => v9 /\ v14 + (Tries - v15) <= MaxCommands
      /\ v15 > 0 \/ v12 = "drain" => v13 = Channel!Handshake
      /\ v16 = "ok" /\ v13.type \in {"SINGLELINE", "NUMERIC"} => v10 # <<>>
  BY Zenon DEF Channel!ChannelInv, Channel!Places, Channel!HasData
<1>3. /\ v6 \in Seq(Channel!Line) /\ v7 \in Seq(Channel!Sent) /\ v8 \in {<<>>} \cup {<<s>> : s \in Channel!Sent}
      /\ v10 \in Seq(Channel!Line) /\ v11 \in Channel!Line \cup {Channel!NoLine} /\ v18 \subseteq Channel!Line
  BY Zenon DEF Channel!ChannelInv, Channel!TypeOK
<1>4. Channel!Asked /\ Channel!Rested /\ Channel!TypeOK
  BY Zenon DEF Channel!ChannelInv
<1> USE ChannelAssumption
<1>0. PICK k : k = Len(v6')
  OBVIOUS
<1>5. /\ v2 /\ v8 # <<>> /\ v8' = <<>>
      /\ UNCHANGED <<v2, v7, v9, v10, v11, v13, v14, v17, v18>>
      /\ v6' \in Seq(Channel!Line) /\ k > Len(v6) /\ \A i \in 1..Len(v6) : v6'[i] = v6[i]
      /\ v6'[k].kind \in Channel!Final /\ v6'[k].by = v8[1].n
      /\ \A i \in (Len(v6) + 1)..(k - 1) :
           v6'[i].kind \in Channel!Prefix \cup {"digits"} /\ v6'[i].by = v8[1].n
      /\ v8[1].cmd.type = "SINGLELINE" /\ v6'[k].kind = "OK" =>
           k > Len(v6) + 1 /\ v6'[Len(v6) + 1] = [kind |-> v8[1].cmd.prefix, by |-> v8[1].n]
  BY <1>0, <1>4, ChannelResponds, Zenon
<1> SUFFICES ASSUME v9, ~v17
             PROVE  Channel!Asked'
  BY <1>5, Zenon DEF Channel!Asked
<1>6. v11 = Channel!NoLine
  BY <1>4, <1>5 DEF Channel!Asked, Channel!Clear
<1>7. v7 = <<>> /\ v8 = <<[cmd |-> v13, n |-> v14]>> /\ Channel!Unasked
  BY <1>4, <1>5, <1>6 DEF Channel!Asked
<1>8. v8[1].n = v14 /\ v8[1].cmd = v13
  BY <1>7
<1>9. k \in Nat /\ Len(v6) \in Nat /\ k > Len(v6) /\ DOMAIN v6' = 1..k /\ DOMAIN v6 = 1..Len(v6)
  BY <1>0, <1>3, <1>5
<1>10. ASSUME NEW i \in DOMAIN v6', i # k
       PROVE  i < k /\ v6'[i].kind \notin Channel!Final /\ v6'[i].by \in {0, v14}
  <2>1. i < k /\ (i \in 1..Len(v6) \/ i \in (Len(v6) + 1)..(k - 1))
    BY <1>9, <1>10
  <2>2. CASE i \in 1..Len(v6)
    BY <1>5, <1>7, <1>9, <2>1, <2>2 DEF Channel!Unasked, Channel!Final
  <2>3. CASE i \in (Len(v6) + 1)..(k - 1)
    BY <1>5, <1>8, <2>1, <2>3 DEF Channel!Final, Channel!Prefix
  <2>4. QED
    BY <2>1, <2>2, <2>3
<1>11. v13.type = "SINGLELINE" /\ v6'[k].kind = "OK" => \E j \in DOMAIN v6' : j < k /\ v6'[j] = Channel!Own
  <2>1. SUFFICES ASSUME v13.type = "SINGLELINE", v6'[k].kind = "OK"
                 PROVE  \E j \in DOMAIN v6' : j < k /\ v6'[j] = Channel!Own
    OBVIOUS
  <2>2. k > Len(v6) + 1 /\ v6'[Len(v6) + 1] = Channel!Own
    BY <1>5, <1>8, <2>1 DEF Channel!Own
  <2>3. Len(v6) + 1 \in DOMAIN v6' /\ Len(v6) + 1 < k
    BY <1>9, <2>2
  <2>4. QED
    BY <2>2, <2>3
<1>12. k \in DOMAIN v6' /\ v6'[k].by = v14 /\ v6'[k].kind \in Channel!Final
  BY <1>5, <1>8, <1>9
<1>13. Channel!Answer(k)'
  <2>1. Channel!Own' = Channel!Own /\ Channel!Final' = Channel!Final
    BY <1>5 DEF Channel!Own, Channel!Final
  <2>2. \A i \in DOMAIN v6' : i # k => v6'[i].kind \notin Channel!Final /\ v6'[i].by \in (IF i < k THEN {0, v14} ELSE {0})
    BY <1>10
  <2>3. QED
    BY <1>5, <1>11, <1>12, <2>1, <2>2 DEF Channel!Answer
<1>14. \A i \in DOMAIN v10' : v10'[i].by \in {0, v14'}
  BY <1>4, <1>5 DEF Channel!Asked
<1>15. v11' = Channel!NoLine /\ v7' = <<>> /\ v8' = <<>>
  BY <1>5, <1>6, <1>7
<1>16. QED
  BY <1>12, <1>13, <1>14, <1>15, Zenon DEF Channel!Asked

\* A line that nobody asked for, behind those that are there.
LEMMA ChannelAskedUrc ==
  ASSUME Channel!ChannelInv, ~Cmti, Channel!Urc
  PROVE  /\ Channel!Unasked => Channel!Unasked'
         /\ Channel!Asked'
<1>1. /\ v1 \in 0..MaxSessions /\ v2 \in BOOLEAN /\ v3 \in BOOLEAN /\ v4 \in BOOLEAN
      /\ v5 \in {"line", "second", "ended"} /\ v9 \in BOOLEAN /\ v17 \in BOOLEAN /\ v20 \in BOOLEAN
      /\ v12 \in {"idle", "wait", "between", "expired", "woken", "drain"} /\ v13 \in Channel!Command \cup {Channel!Handshake}
      /\ v14 \in 0..MaxCommands /\ v15 \in 0..Tries
      /\ v16 \in {"none", "ok", "error", "invalid", "timeout", "closed"}
      /\ (v12 \in {"wait", "between", "expired", "woken"} <=> v9)
  BY Zenon DEF Channel!ChannelInv, Channel!TypeOK
<1>2. /\ v4 => ~v2
      /\ v5 = "ended" => v4
      /\ ~v2 => v6 = <<>> /\ v7 = <<>> /\ v8 = <<>>
      /\ v9 => v16 = "none" /\ v14 > 0
      /\ v12 \in {"wait", "between"} /\ ~v20 => v11 = Channel!NoLine /\ ~v4
      /\ v15 > 0 => v9 /\ v14 + (Tries - v15) <= MaxCommands
      /\ v15 > 0 \/ v12 = "drain" => v13 = Channel!Handshake
      /\ v16 = "ok" /\ v13.type \in {"SINGLELINE", "NUMERIC"} => v10 # <<>>
  BY Zenon DEF Channel!ChannelInv, Channel!Places, Channel!HasData
<1>3. /\ v6 \in Seq(Channel!Line) /\ v7 \in Seq(Channel!Sent) /\ v8 \in {<<>>} \cup {<<s>> : s \in Channel!Sent}
      /\ v10 \in Seq(Channel!Line) /\ v11 \in Channel!Line \cup {Channel!NoLine} /\ v18 \subseteq Channel!Line
  BY Zenon DEF Channel!ChannelInv, Channel!TypeOK
<1>4. Channel!Asked /\ Channel!Rested /\ Channel!TypeOK
  BY Zenon DEF Channel!ChannelInv
<1> USE ChannelAssumption
<1> DEFINE u == [kind |-> "+CEREG:", by |-> 0]
<1>5. UNCHANGED <<v2, v7, v8, v9, v10, v11, v13, v14, v17, v18>>
  BY Zenon DEF Channel!Urc, Channel!respVars
<1>6. v6' = Append(v6, u)
  BY DEF Channel!Urc
<1>7. u \in Channel!Line /\ u.kind \notin Channel!Final /\ u.by = 0
  BY DEF Channel!Line, Channel!Prefix, Channel!Final
<1>8. /\ DOMAIN v6 = 1..Len(v6) /\ Len(v6) \in Nat /\ DOMAIN v6' = 1..(Len(v6) + 1)
      /\ v6'[Len(v6) + 1] = u /\ \A i \in DOMAIN v6 : v6'[i] = v6[i] /\ i \in DOMAIN v6'
  BY <1>3, <1>6, <1>7
<1> HIDE DEF u
<1>9. \A i \in DOMAIN v6' : i \in DOMAIN v6 \/ i = Len(v6) + 1
  BY <1>8
<1>10. Channel!Unasked => Channel!Unasked'
  BY <1>7, <1>8, <1>9 DEF Channel!Unasked, Channel!Final
<1>11. ASSUME NEW k \in DOMAIN v6, Channel!Answer(k) PROVE k \in DOMAIN v6' /\ Channel!Answer(k)'
  <2>1. k \in DOMAIN v6' /\ v6'[k] = v6[k] /\ k < Len(v6) + 1 /\ k \in Nat
    BY <1>8
  <2>2. v6[k].by = v14 /\ v6[k].kind \in Channel!Final
    BY <1>11 DEF Channel!Answer
  <2>3. ASSUME NEW i \in DOMAIN v6', i # k
        PROVE  v6'[i].kind \notin Channel!Final /\ v6'[i].by \in (IF i < k THEN {0, v14} ELSE {0})
    <3>1. CASE i \in DOMAIN v6
      BY <1>8, <1>11, <2>3, <3>1 DEF Channel!Answer
    <3>2. CASE i = Len(v6) + 1
      <4>1. ~(i < k)
        BY <1>8, <2>1, <3>2
      <4>2. QED
        BY <1>7, <1>8, <3>2, <4>1
    <3>3. QED
      BY <1>9, <3>1, <3>2
  <2>4. v13.type = "SINGLELINE" /\ v6[k].kind = "OK" =>
          Channel!Shown \/ \E j \in DOMAIN v6' : j < k /\ v6'[j] = Channel!Own
    BY <1>8, <1>11 DEF Channel!Answer
  <2>5. Channel!Own' = Channel!Own /\ Channel!Final' = Channel!Final /\ (Channel!Shown => Channel!Shown')
    BY <1>5 DEF Channel!Own, Channel!Shown, Channel!Final
  <2>6. QED
    BY <1>5, <2>1, <2>2, <2>3, <2>4, <2>5 DEF Channel!Answer
<1>12. Channel!Shown => Channel!Shown'
  BY <1>5 DEF Channel!Own, Channel!Shown
<1>13. Channel!Clear => Channel!Clear'
  BY <1>5, <1>10 DEF Channel!Clear
<1>14. Channel!Asked'
  <2>1. SUFFICES ASSUME v9, ~v17
                 PROVE  Channel!Asked'
    BY <1>5, Zenon DEF Channel!Asked
  <2>2. CASE v11 # Channel!NoLine
    BY <1>4, <1>5, <1>12, <1>13, <2>1, <2>2 DEF Channel!Asked
  <2>3. CASE v11 = Channel!NoLine
    BY <1>4, <1>5, <1>10, <1>11, <2>1, <2>3 DEF Channel!Asked
  <2>4. QED
    BY <2>2, <2>3
<1>15. QED
  BY <1>10, <1>14

\* The command that waits, and nothing else, is asked or answered.
LEMMA ChannelAsked ==
  ASSUME Channel!ChannelInv, Channel!Next, ~Cmti
  PROVE  Channel!Asked'
<1>1. /\ v1 \in 0..MaxSessions /\ v2 \in BOOLEAN /\ v3 \in BOOLEAN /\ v4 \in BOOLEAN
      /\ v5 \in {"line", "second", "ended"} /\ v9 \in BOOLEAN /\ v17 \in BOOLEAN /\ v20 \in BOOLEAN
      /\ v12 \in {"idle", "wait", "between", "expired", "woken", "drain"} /\ v13 \in Channel!Command \cup {Channel!Handshake}
      /\ v14 \in 0..MaxCommands /\ v15 \in 0..Tries
      /\ v16 \in {"none", "ok", "error", "invalid", "timeout", "closed"}
      /\ (v12 \in {"wait", "between", "expired", "woken"} <=> v9)
  BY Zenon DEF Channel!ChannelInv, Channel!TypeOK
<1>2. /\ v4 => ~v2
      /\ v5 = "ended" => v4
      /\ ~v2 => v6 = <<>> /\ v7 = <<>> /\ v8 = <<>>
      /\ v9 => v16 = "none" /\ v14 > 0
      /\ v12 \in {"wait", "between"} /\ ~v20 => v11 = Channel!NoLine /\ ~v4
      /\ v15 > 0 => v9 /\ v14 + (Tries - v15) <= MaxCommands
      /\ v15 > 0 \/ v12 = "drain" => v13 = Channel!Handshake
      /\ v16 = "ok" /\ v13.type \in {"SINGLELINE", "NUMERIC"} => v10 # <<>>
  BY Zenon DEF Channel!ChannelInv, Channel!Places, Channel!HasData
<1>3. /\ v6 \in Seq(Channel!Line) /\ v7 \in Seq(Channel!Sent) /\ v8 \in {<<>>} \cup {<<s>> : s \in Channel!Sent}
      /\ v10 \in Seq(Channel!Line) /\ v11 \in Channel!Line \cup {Channel!NoLine} /\ v18 \subseteq Channel!Line
  BY Zenon DEF Channel!ChannelInv, Channel!TypeOK
<1>4. Channel!Asked /\ Channel!Rested /\ Channel!TypeOK
  BY Zenon DEF Channel!ChannelInv
<1> USE ChannelAssumption
<1>5. CASE Channel!Open
  <2>1. v9' = FALSE
    BY <1>5, Zenon DEF Channel!Open
  <2>2. QED
    BY <2>1, Zenon DEF Channel!Asked
<1>6. CASE Channel!Close
  <2>1. UNCHANGED <<v2, v6, v7, v8, v9, v10, v11, v13, v14, v17, v18>>
    BY <1>6, Zenon DEF Channel!Close, Channel!respVars, Channel!modemVars, Channel!readerVars, Channel!Signalled
  <2>2. QED
    BY <1>4, <2>1, Zenon DEF Channel!Asked, Channel!Clear, Channel!Unasked, Channel!Shown, Channel!Own, Channel!Answer
<1>7. CASE Channel!Hangup
  <2>1. v6' = <<>> /\ v7' = <<>> /\ v8' = <<>> /\ v2' = FALSE /\ UNCHANGED <<v9, v10, v11, v13, v14, v17, v18>>
    BY <1>7, Zenon DEF Channel!Hangup, Channel!respVars
  <2>2. Channel!Clear'
    BY <2>1 DEF Channel!Clear, Channel!Unasked
  <2>3. Channel!Shown => Channel!Shown'
    BY <2>1 DEF Channel!Shown, Channel!Own
  <2>4. QED
    BY <1>4, <2>1, <2>2, <2>3 DEF Channel!Asked
<1>8. CASE Channel!Send
  <2>1. v12 = "idle" /\ UNCHANGED <<v2, v6, v8, v17>>
    BY <1>8, Zenon DEF Channel!Send, Channel!readerVars
  <2>2. v17 \/ Channel!Clear
    BY <1>1, <1>4, <2>1 DEF Channel!Rested
  <2>3. CASE Channel!Writable /\ \E c \in Channel!Command : Channel!Write(c)
    BY <2>1, <2>2, <2>3, ChannelAskedWrite
  <2>4. CASE UNCHANGED <<v13, v14, v7, Channel!respVars, v12, v18, v20>>
    <3>1. ~v9 /\ UNCHANGED v9
      BY <1>1, <2>1, <2>4 DEF Channel!respVars
    <3>2. QED
      BY <3>1, Zenon DEF Channel!Asked
  <2>5. QED
    BY <1>8, <2>3, <2>4, Zenon DEF Channel!Send
<1>9. CASE Channel!StartHandshake
  <2>1. v12 = "idle" /\ UNCHANGED <<v2, v6, v8, v17>>
    BY <1>9, Zenon DEF Channel!StartHandshake, Channel!readerVars
  <2>2. v17 \/ Channel!Clear
    BY <1>1, <1>4, <2>1 DEF Channel!Rested
  <2>3. QED
    BY <1>9, <2>1, <2>2, ChannelAskedWrite DEF Channel!StartHandshake
<1>10. CASE Channel!Wait
  <2>1. UNCHANGED <<v2, v6, v7, v8, v9, v10, v11, v13, v14, v17, v18>>
    BY <1>10, Zenon DEF Channel!Wait, Channel!SliceEnds, Channel!NextSlice, Channel!Expire, Channel!WaitUnchanged, Channel!respVars, Channel!modemVars, Channel!readerVars
  <2>2. QED
    BY <1>4, <2>1, Zenon DEF Channel!Asked, Channel!Clear, Channel!Unasked, Channel!Shown, Channel!Own, Channel!Answer
<1>11. CASE Channel!Return
  <2>1. v9' = FALSE \/ v17' = TRUE
    BY <1>11, ChannelReturns, Zenon
  <2>2. QED
    BY <2>1, Zenon DEF Channel!Asked
<1>12. CASE Channel!Drained
  <2>1. UNCHANGED <<v2, v6, v7, v8, v9, v10, v11, v13, v14, v17, v18>>
    BY <1>12, Zenon DEF Channel!Drained, Channel!WaitUnchanged, Channel!respVars, Channel!modemVars, Channel!readerVars
  <2>2. QED
    BY <1>4, <2>1, Zenon DEF Channel!Asked, Channel!Clear, Channel!Unasked, Channel!Shown, Channel!Own, Channel!Answer
<1>13. CASE Channel!Read
  BY <1>13, ChannelAskedRead
<1>14. CASE Channel!Eof
  <2>1. UNCHANGED <<v2, v6, v7, v8, v9, v10, v11, v13, v14, v17, v18>>
    BY <1>14, Zenon DEF Channel!Eof, Channel!respVars, Channel!modemVars, Channel!Signalled
  <2>2. QED
    BY <1>4, <2>1, Zenon DEF Channel!Asked, Channel!Clear, Channel!Unasked, Channel!Shown, Channel!Own, Channel!Answer
<1>15. CASE Channel!TakeCommand
  <2>1. /\ v2 /\ v8 = <<>> /\ v7 # <<>> /\ v8' = <<Head(v7)>> /\ v7' = Tail(v7)
        /\ UNCHANGED <<v2, v6, v9, v10, v11, v13, v14, v17, v18>>
    BY <1>15, Zenon DEF Channel!TakeCommand, Channel!readerVars, Channel!respVars
  <2>2. SUFFICES ASSUME v9, ~v17
                 PROVE  Channel!Asked'
    BY <2>1, Zenon DEF Channel!Asked
  <2>3. v11 = Channel!NoLine
    BY <1>4, <2>1, <2>2 DEF Channel!Asked, Channel!Clear
  <2>4. v7 = <<[cmd |-> v13, n |-> v14]>> /\ Channel!Unasked
    BY <1>4, <2>1, <2>2, <2>3 DEF Channel!Asked
  <2>5. v7' = <<>> /\ v8' = <<[cmd |-> v13, n |-> v14]>>
    BY <2>1, <2>4
  <2>6. Channel!Unasked'
    BY <2>1, <2>4 DEF Channel!Unasked, Channel!Final
  <2>7. \A i \in DOMAIN v10 : v10[i].by \in {0, v14}
    BY <1>4, <2>2 DEF Channel!Asked
  <2>8. QED
    BY <2>1, <2>3, <2>5, <2>6, <2>7, Zenon DEF Channel!Asked
<1>16. CASE Channel!Respond
  BY <1>16, ChannelAskedRespond
<1>17. CASE Channel!Urc
  BY <1>17, ChannelAskedUrc
<1>18. CASE UNCHANGED Channel!vars
  <2>1. UNCHANGED <<v2, v6, v7, v8, v9, v10, v11, v13, v14, v17, v18>>
    BY <1>18, Zenon DEF Channel!vars, Channel!readerVars, Channel!modemVars, Channel!respVars
  <2>2. QED
    BY <1>4, <2>1, Zenon DEF Channel!Asked, Channel!Clear, Channel!Unasked, Channel!Shown, Channel!Own, Channel!Answer
<1>19. QED
  BY <1>5, <1>6, <1>7, <1>8, <1>9, <1>10, <1>11, <1>12, <1>13, <1>14, <1>15, <1>16, <1>17, <1>18, Zenon DEF Channel!Next, Channel!Device, Channel!Caller, Channel!Reader, Channel!Modem, Channel!Done

\* Nothing is left on the way when a command ended in time.
LEMMA ChannelRested ==
  ASSUME Channel!ChannelInv, Channel!Next, ~Cmti
  PROVE  Channel!Rested'
<1>1. /\ v1 \in 0..MaxSessions /\ v2 \in BOOLEAN /\ v3 \in BOOLEAN /\ v4 \in BOOLEAN
      /\ v5 \in {"line", "second", "ended"} /\ v9 \in BOOLEAN /\ v17 \in BOOLEAN /\ v20 \in BOOLEAN
      /\ v12 \in {"idle", "wait", "between", "expired", "woken", "drain"} /\ v13 \in Channel!Command \cup {Channel!Handshake}
      /\ v14 \in 0..MaxCommands /\ v15 \in 0..Tries
      /\ v16 \in {"none", "ok", "error", "invalid", "timeout", "closed"}
      /\ (v12 \in {"wait", "between", "expired", "woken"} <=> v9)
  BY Zenon DEF Channel!ChannelInv, Channel!TypeOK
<1>2. /\ v4 => ~v2
      /\ v5 = "ended" => v4
      /\ ~v2 => v6 = <<>> /\ v7 = <<>> /\ v8 = <<>>
      /\ v9 => v16 = "none" /\ v14 > 0
      /\ v12 \in {"wait", "between"} /\ ~v20 => v11 = Channel!NoLine /\ ~v4
      /\ v15 > 0 => v9 /\ v14 + (Tries - v15) <= MaxCommands
      /\ v15 > 0 \/ v12 = "drain" => v13 = Channel!Handshake
      /\ v16 = "ok" /\ v13.type \in {"SINGLELINE", "NUMERIC"} => v10 # <<>>
  BY Zenon DEF Channel!ChannelInv, Channel!Places, Channel!HasData
<1>3. /\ v6 \in Seq(Channel!Line) /\ v7 \in Seq(Channel!Sent) /\ v8 \in {<<>>} \cup {<<s>> : s \in Channel!Sent}
      /\ v10 \in Seq(Channel!Line) /\ v11 \in Channel!Line \cup {Channel!NoLine} /\ v18 \subseteq Channel!Line
  BY Zenon DEF Channel!ChannelInv, Channel!TypeOK
<1>4. Channel!Asked /\ Channel!Rested /\ Channel!TypeOK
  BY Zenon DEF Channel!ChannelInv
<1> USE ChannelAssumption
<1>5. CASE Channel!Open
  <2>1. v6' = <<>> /\ v7' = <<>> /\ v8' = <<>>
    BY <1>5, Zenon DEF Channel!Open
  <2>2. QED
    BY <2>1 DEF Channel!Rested, Channel!Clear, Channel!Unasked
<1>6. CASE Channel!Close
  <2>1. UNCHANGED <<v6, v7, v8, v17>> /\ (v12' = "idle" => v12 = "idle")
    BY <1>6 DEF Channel!Close, Channel!respVars, Channel!modemVars, Channel!readerVars, Channel!Signalled
  <2>2. QED
    BY <1>4, <2>1, Zenon DEF Channel!Rested, Channel!Clear, Channel!Unasked
<1>7. CASE Channel!Hangup
  <2>1. v6' = <<>> /\ v7' = <<>> /\ v8' = <<>>
    BY <1>7, Zenon DEF Channel!Hangup, Channel!respVars
  <2>2. QED
    BY <2>1 DEF Channel!Rested, Channel!Clear, Channel!Unasked
<1>8. CASE Channel!Send
  <2>1. CASE v12' = "wait"
    BY <2>1 DEF Channel!Rested
  <2>2. CASE UNCHANGED <<v13, v14, v7, Channel!respVars, v12, v18, v20>>
    <3>1. UNCHANGED <<v6, v7, v8, v12, v17>>
      BY <1>8, <2>2, Zenon DEF Channel!Send, Channel!readerVars
    <3>2. QED
      BY <1>4, <3>1, Zenon DEF Channel!Rested, Channel!Clear, Channel!Unasked
  <2>3. QED
    BY <1>8, <2>1, <2>2, Zenon DEF Channel!Send, Channel!Write
<1>9. CASE Channel!StartHandshake
  <2>1. v12' # "idle"
    BY <1>9 DEF Channel!StartHandshake, Channel!readerVars, Channel!Handshake, Channel!Write, Channel!NoLine, Channel!Writable
  <2>2. QED
    BY <2>1 DEF Channel!Rested
<1>10. CASE Channel!Wait
  <2>1. v12' # "idle"
    BY <1>10 DEF Channel!Wait, Channel!SliceEnds, Channel!NextSlice, Channel!Expire, Channel!WaitUnchanged, Channel!respVars, Channel!modemVars, Channel!readerVars
  <2>2. QED
    BY <2>1 DEF Channel!Rested
<1>11. CASE Channel!Return
  <2>1. SUFFICES ASSUME v12' = "idle", ~v17'
                 PROVE  Channel!Clear'
    BY DEF Channel!Rested
  <2>a. ~Channel!Write(Channel!Handshake)
    BY <2>1, Zenon DEF Channel!Write
  <2>b. /\ UNCHANGED <<v2, v6, v7, v8>> /\ v9
        /\ v17' = TRUE \/ (v17' = v17 /\ v16' # "timeout")
        /\ \/ v16' = "timeout" \/ (v16' = "closed" /\ v4)
           \/ v11 # Channel!NoLine
    <3>1. v12' # "drain"
      BY <2>1
    <3>2. QED
      BY <1>11, <2>a, <3>1, ChannelReturns, Zenon
  <2>2. /\ UNCHANGED <<v2, v6, v7, v8>> /\ v9 /\ ~v17
        /\ v4 \/ v11 # Channel!NoLine
    BY <2>1, <2>b
  <2>3. CASE v4
    <3>1. v6 = <<>> /\ v7 = <<>> /\ v8 = <<>>
      BY <1>2, <2>3
    <3>2. QED
      BY <2>2, <3>1 DEF Channel!Clear, Channel!Unasked
  <2>4. CASE v11 # Channel!NoLine
    <3>1. Channel!Clear
      BY <1>4, <2>2, <2>4, Zenon DEF Channel!Asked
    <3>2. QED
      BY <2>2, <3>1, Zenon DEF Channel!Clear, Channel!Unasked
  <2>5. QED
    BY <2>2, <2>3, <2>4
<1>12. CASE Channel!Drained
  <2>1. UNCHANGED <<v6, v7, v8>> /\ (v2 => v6 = <<>> /\ v7 = <<>> /\ v8 = <<>>)
    BY <1>12, Zenon DEF Channel!Drained, Channel!WaitUnchanged, Channel!respVars, Channel!modemVars, Channel!readerVars
  <2>2. v6' = <<>> /\ v7' = <<>> /\ v8' = <<>>
    BY <1>2, <2>1
  <2>3. QED
    BY <2>2 DEF Channel!Rested, Channel!Clear, Channel!Unasked
<1>13. CASE Channel!Read
  <2>1. /\ UNCHANGED <<v7, v8, v17>> /\ v6 # <<>> /\ v6' = Tail(v6)
        /\ v12' = v12 \/ Channel!Signalled
    BY <1>4, <1>13, ChannelReads, Zenon
  <2>2. v12' = "idle" => v12 = "idle"
    BY <2>1 DEF Channel!Signalled
  <2>3. \A i \in DOMAIN v6' : v6'[i] = v6[i + 1] /\ i + 1 \in DOMAIN v6
    BY <1>3, <2>1, LinesCut
  <2>4. Channel!Unasked => Channel!Unasked'
    BY <2>3 DEF Channel!Unasked, Channel!Final
  <2>5. QED
    BY <1>4, <2>1, <2>2, <2>4, Zenon DEF Channel!Rested, Channel!Clear
<1>14. CASE Channel!Eof
  <2>1. UNCHANGED <<v6, v7, v8, v17>> /\ (v12' = "idle" => v12 = "idle")
    BY <1>14 DEF Channel!Eof, Channel!respVars, Channel!modemVars, Channel!Signalled
  <2>2. QED
    BY <1>4, <2>1, Zenon DEF Channel!Rested, Channel!Clear, Channel!Unasked
<1>15. CASE Channel!TakeCommand
  <2>1. UNCHANGED <<v12, v17>> /\ (v7 # <<>> \/ v8 # <<>>)
    BY <1>15, Zenon DEF Channel!TakeCommand, Channel!respVars, Channel!readerVars
  <2>2. QED
    BY <1>4, <2>1 DEF Channel!Rested, Channel!Clear
<1>16. CASE Channel!Respond
  <2>1. UNCHANGED <<v12, v17>> /\ (v7 # <<>> \/ v8 # <<>>)
    BY <1>16, Zenon DEF Channel!Respond, Channel!respVars, Channel!Kinds
  <2>2. QED
    BY <1>4, <2>1 DEF Channel!Rested, Channel!Clear
<1>17. CASE Channel!Urc
  <2>1. UNCHANGED <<v7, v8, v12, v17>>
    BY <1>17, Zenon DEF Channel!Urc, Channel!respVars
  <2>2. Channel!Unasked => Channel!Unasked'
    BY <1>17, ChannelAskedUrc
  <2>3. QED
    BY <1>4, <2>1, <2>2, Zenon DEF Channel!Rested, Channel!Clear
<1>18. CASE UNCHANGED Channel!vars
  <2>1. UNCHANGED <<v6, v7, v8, v17>> /\ (v12' = "idle" => v12 = "idle")
    BY <1>18 DEF Channel!vars, Channel!readerVars, Channel!modemVars, Channel!respVars
  <2>2. QED
    BY <1>4, <2>1, Zenon DEF Channel!Rested, Channel!Clear, Channel!Unasked
<1>19. QED
  BY <1>5, <1>6, <1>7, <1>8, <1>9, <1>10, <1>11, <1>12, <1>13, <1>14, <1>15, <1>16, <1>17, <1>18, Zenon DEF Channel!Next, Channel!Device, Channel!Caller, Channel!Reader, Channel!Modem, Channel!Done

\* The answer that a command returns with is its own, and so is the data or it was told.
LEMMA ChannelOwn ==
  ASSUME Channel!ChannelInv, Channel!Next, ~Cmti
  PROVE  (Channel!OwnAnswer /\ Channel!Displaced)'
<1>1. /\ v1 \in 0..MaxSessions /\ v2 \in BOOLEAN /\ v3 \in BOOLEAN /\ v4 \in BOOLEAN
      /\ v5 \in {"line", "second", "ended"} /\ v9 \in BOOLEAN /\ v17 \in BOOLEAN /\ v20 \in BOOLEAN
      /\ v12 \in {"idle", "wait", "between", "expired", "woken", "drain"} /\ v13 \in Channel!Command \cup {Channel!Handshake}
      /\ v14 \in 0..MaxCommands /\ v15 \in 0..Tries
      /\ v16 \in {"none", "ok", "error", "invalid", "timeout", "closed"}
      /\ (v12 \in {"wait", "between", "expired", "woken"} <=> v9)
  BY Zenon DEF Channel!ChannelInv, Channel!TypeOK
<1>2. /\ v4 => ~v2
      /\ v5 = "ended" => v4
      /\ ~v2 => v6 = <<>> /\ v7 = <<>> /\ v8 = <<>>
      /\ v9 => v16 = "none" /\ v14 > 0
      /\ v12 \in {"wait", "between"} /\ ~v20 => v11 = Channel!NoLine /\ ~v4
      /\ v15 > 0 => v9 /\ v14 + (Tries - v15) <= MaxCommands
      /\ v15 > 0 \/ v12 = "drain" => v13 = Channel!Handshake
      /\ v16 = "ok" /\ v13.type \in {"SINGLELINE", "NUMERIC"} => v10 # <<>>
  BY Zenon DEF Channel!ChannelInv, Channel!Places, Channel!HasData
<1>3. /\ v6 \in Seq(Channel!Line) /\ v7 \in Seq(Channel!Sent) /\ v8 \in {<<>>} \cup {<<s>> : s \in Channel!Sent}
      /\ v10 \in Seq(Channel!Line) /\ v11 \in Channel!Line \cup {Channel!NoLine} /\ v18 \subseteq Channel!Line
  BY Zenon DEF Channel!ChannelInv, Channel!TypeOK
<1>4. Channel!Asked /\ Channel!Rested /\ Channel!TypeOK
  BY Zenon DEF Channel!ChannelInv
<1> USE ChannelAssumption
<1>5. Channel!OwnAnswer /\ Channel!Displaced
  BY Zenon DEF Channel!ChannelInv
<1>6. CASE Channel!Open
  <2>1. v12' # "idle" \/ v16' \notin {"ok", "error", "invalid"}
    BY <1>6 DEF Channel!Open
  <2>2. QED
    BY <2>1 DEF Channel!OwnAnswer, Channel!Displaced
<1>7. CASE Channel!Close
  <2>1. UNCHANGED <<v10, v11, v13, v14, v16, v17, v18>> /\ (v12' = "idle" => v12 = "idle")
    BY <1>7 DEF Channel!Close, Channel!respVars, Channel!modemVars, Channel!readerVars, Channel!Signalled
  <2>2. QED
    BY <1>5, <2>1, Zenon DEF Channel!OwnAnswer, Channel!Displaced
<1>8. CASE Channel!Hangup
  <2>1. UNCHANGED <<v10, v11, v13, v14, v16, v17, v18>> /\ (v12' = "idle" => v12 = "idle")
    BY <1>8 DEF Channel!Hangup, Channel!respVars
  <2>2. QED
    BY <1>5, <2>1, Zenon DEF Channel!OwnAnswer, Channel!Displaced
<1>9. CASE Channel!Send
  <2>1. v12' # "idle" \/ v16' \notin {"ok", "error", "invalid"}
    BY <1>9 DEF Channel!Send, Channel!readerVars, Channel!respVars, Channel!Writable, Channel!Write, Channel!NoLine, Channel!Command
  <2>2. QED
    BY <2>1 DEF Channel!OwnAnswer, Channel!Displaced
<1>10. CASE Channel!StartHandshake
  <2>1. v12' # "idle" \/ v16' \notin {"ok", "error", "invalid"}
    BY <1>10 DEF Channel!StartHandshake, Channel!readerVars, Channel!Handshake, Channel!Write, Channel!NoLine, Channel!Writable
  <2>2. QED
    BY <2>1 DEF Channel!OwnAnswer, Channel!Displaced
<1>11. CASE Channel!Wait
  <2>1. v12' # "idle" \/ v16' \notin {"ok", "error", "invalid"}
    BY <1>11 DEF Channel!Wait, Channel!SliceEnds, Channel!NextSlice, Channel!Expire, Channel!WaitUnchanged, Channel!respVars, Channel!modemVars, Channel!readerVars
  <2>2. QED
    BY <2>1 DEF Channel!OwnAnswer, Channel!Displaced
<1>12. CASE Channel!Return
  <2>1. SUFFICES ASSUME v12' = "idle", ~v17', v16' \in {"ok", "error", "invalid"}
                 PROVE  (Channel!OwnAnswer /\ Channel!Displaced)'
    BY DEF Channel!OwnAnswer, Channel!Displaced
  <2>2. ~Channel!Write(Channel!Handshake)
    BY <2>1, Zenon DEF Channel!Write
  <2>3. /\ v9 /\ UNCHANGED <<v10, v11, v13, v14, v18>>
        /\ v17' = TRUE \/ (v17' = v17 /\ v16' # "timeout")
        /\ v11 # Channel!NoLine \/ v16' \in {"timeout", "closed"}
        /\ v16' = "ok" => v11.kind = "OK"
    <3>1. v12' # "drain"
      BY <2>1
    <3>2. v16' = "timeout" \/ v16' = "closed" => v16' \in {"timeout", "closed"}
      OBVIOUS
    <3>3. QED
      BY <1>12, <2>2, <3>1, <3>2, ChannelReturns, Zenon
  <2>4. ~v17 /\ v11 # Channel!NoLine
    BY <2>1, <2>3
  <2>5. /\ \A i \in DOMAIN v10 : v10[i].by \in {0, v14}
        /\ v11.by = v14 /\ (v13.type = "SINGLELINE" /\ v11.kind = "OK" => Channel!Shown)
    BY <1>4, <2>3, <2>4, Zenon DEF Channel!Asked
  <2>6. DOMAIN v10 = 1..Len(v10) /\ v14 > 0 /\ v14 \in Nat
    BY <1>1, <1>2, <1>3, <2>3
  <2>7. Channel!OwnAnswer'
    BY <2>3, <2>5, <2>6 DEF Channel!OwnAnswer
  <2>8. Channel!Displaced'
    <3>1. SUFFICES ASSUME v16' = "ok", v10[1].by = 0, v13.type = "SINGLELINE"
                   PROVE  [kind |-> v13.prefix, by |-> v14] \in v18
      BY <2>3 DEF Channel!Displaced
    <3>2. Channel!Shown /\ v10[1].by # v14
      BY <2>3, <2>5, <2>6, <3>1
    <3>3. QED
      BY <3>2 DEF Channel!Shown, Channel!Own
  <2>9. QED
    BY <2>7, <2>8
<1>13. CASE Channel!Drained
  <2>1. v13' = Channel!Handshake
    BY <1>2, <1>13 DEF Channel!Drained, Channel!WaitUnchanged
  <2>2. Channel!Handshake.type # "SINGLELINE"
    BY DEF Channel!Handshake
  <2>3. QED
    BY <2>1, <2>2 DEF Channel!OwnAnswer, Channel!Displaced
<1>14. CASE Channel!Read
  <2>1. SUFFICES ASSUME v12' = "idle"
                 PROVE  (Channel!OwnAnswer /\ Channel!Displaced)'
    BY DEF Channel!OwnAnswer, Channel!Displaced
  <2>2. v12 = "idle"
    BY <1>4, <1>14, <2>1, ChannelReads DEF Channel!Signalled
  <2>3. ~v9
    BY <1>1, <2>2
  <2>4. UNCHANGED <<v10, v11, v13, v14, v16, v17>> /\ v18 \subseteq v18'
    BY <1>4, <1>14, <2>3, ChannelReads
  <2>5. QED
    BY <1>5, <2>2, <2>4 DEF Channel!OwnAnswer, Channel!Displaced
<1>15. CASE Channel!Eof
  <2>1. UNCHANGED <<v10, v11, v13, v14, v16, v17, v18>> /\ (v12' = "idle" => v12 = "idle")
    BY <1>15 DEF Channel!Eof, Channel!respVars, Channel!modemVars, Channel!Signalled
  <2>2. QED
    BY <1>5, <2>1, Zenon DEF Channel!OwnAnswer, Channel!Displaced
<1>16. CASE Channel!TakeCommand
  <2>1. UNCHANGED <<v10, v11, v13, v14, v16, v17, v18>> /\ (v12' = "idle" => v12 = "idle")
    BY <1>16 DEF Channel!TakeCommand, Channel!respVars, Channel!readerVars
  <2>2. QED
    BY <1>5, <2>1, Zenon DEF Channel!OwnAnswer, Channel!Displaced
<1>17. CASE Channel!Respond
  <2>1. UNCHANGED <<v10, v11, v13, v14, v16, v17, v18>> /\ (v12' = "idle" => v12 = "idle")
    BY <1>17 DEF Channel!Respond, Channel!respVars, Channel!Kinds
  <2>2. QED
    BY <1>5, <2>1, Zenon DEF Channel!OwnAnswer, Channel!Displaced
<1>18. CASE Channel!Urc
  <2>1. UNCHANGED <<v10, v11, v13, v14, v16, v17, v18>> /\ (v12' = "idle" => v12 = "idle")
    BY <1>18 DEF Channel!Urc, Channel!respVars
  <2>2. QED
    BY <1>5, <2>1, Zenon DEF Channel!OwnAnswer, Channel!Displaced
<1>19. CASE UNCHANGED Channel!vars
  <2>1. UNCHANGED <<v10, v11, v13, v14, v16, v17, v18>> /\ (v12' = "idle" => v12 = "idle")
    BY <1>19 DEF Channel!vars, Channel!readerVars, Channel!modemVars, Channel!respVars
  <2>2. QED
    BY <1>5, <2>1, Zenon DEF Channel!OwnAnswer, Channel!Displaced
<1>20. QED
  BY <1>6, <1>7, <1>8, <1>9, <1>10, <1>11, <1>12, <1>13, <1>14, <1>15, <1>16, <1>17, <1>18, <1>19, Zenon DEF Channel!Next, Channel!Device, Channel!Caller, Channel!Reader, Channel!Modem, Channel!Done

LEMMA ChannelInit == Channel!Init => Channel!ChannelInv
<1> SUFFICES ASSUME Channel!Init PROVE Channel!ChannelInv
  OBVIOUS
<1> USE ChannelAssumption
<1>1. /\ v1 = 0 /\ v2 = FALSE /\ v3 = FALSE /\ v4 = TRUE /\ v5 = "ended" /\ v6 = <<>> /\ v7 = <<>> /\ v8 = <<>>
      /\ v9 = FALSE /\ v10 = <<>> /\ v11 = Channel!NoLine /\ v12 = "idle" /\ v13 = Channel!Handshake
      /\ v14 = 0 /\ v15 = 0 /\ v16 = "none" /\ v17 = FALSE /\ v18 = {} /\ v20 = FALSE
  BY Zenon DEF Channel!Init
<1>2. /\ v6 \in Seq(Channel!Line) /\ v7 \in Seq(Channel!Sent) /\ v8 \in {<<>>} \cup {<<s>> : s \in Channel!Sent}
      /\ v10 \in Seq(Channel!Line) /\ DOMAIN v6 = {}
  BY <1>1
<1>3. v2 \in BOOLEAN /\ v3 \in BOOLEAN /\ v4 \in BOOLEAN /\ v9 \in BOOLEAN /\ v17 \in BOOLEAN /\ v20 \in BOOLEAN /\ ~v2 /\ v4 /\ ~v9
  BY <1>1, Zenon
<1>4. Channel!TypeOK
  <2>1. /\ v1 \in 0..MaxSessions /\ v5 \in {"line", "second", "ended"}
        /\ v11 \in Channel!Line \cup {Channel!NoLine}
        /\ v12 \in {"idle", "wait", "between", "expired", "woken", "drain"} /\ v12 \notin {"wait", "between", "expired", "woken"}
        /\ v13 \in Channel!Command \cup {Channel!Handshake} /\ v14 \in 0..MaxCommands /\ v15 \in 0..Tries
        /\ v16 \in {"none", "ok", "error", "invalid", "timeout", "closed"} /\ v18 \subseteq Channel!Line
    BY <1>1
  <2>2. QED
    BY <1>2, <1>3, <2>1, Zenon DEF Channel!TypeOK
<1>5. Channel!Places
  BY <1>1, <1>2, <1>3 DEF Channel!Places
<1>6. Channel!HasData /\ Channel!OwnAnswer /\ Channel!Displaced
  BY <1>1 DEF Channel!HasData, Channel!OwnAnswer, Channel!Displaced
<1>7. Channel!Asked
  BY <1>3, Zenon DEF Channel!Asked
<1>8. Channel!Rested
  BY <1>1, <1>2 DEF Channel!Rested, Channel!Clear, Channel!Unasked
<1>9. QED
  BY <1>4, <1>5, <1>6, <1>7, <1>8, Zenon DEF Channel!ChannelInv

LEMMA ChannelKeeps ==
  ASSUME Channel!ChannelInv, Channel!Next
  PROVE  Channel!ChannelInv'
<1>1. /\ v1' \in 0..MaxSessions /\ v2' \in BOOLEAN /\ v3' \in BOOLEAN /\ v4' \in BOOLEAN
      /\ v5' \in {"line", "second", "ended"} /\ v9' \in BOOLEAN /\ v17' \in BOOLEAN /\ v20' \in BOOLEAN
      /\ v12' \in {"idle", "wait", "between", "expired", "woken", "drain"} /\ v13' \in Channel!Command \cup {Channel!Handshake}
      /\ v14' \in 0..MaxCommands /\ v15' \in 0..Tries
      /\ v16' \in {"none", "ok", "error", "invalid", "timeout", "closed"}
      /\ (v12' \in {"wait", "between", "expired", "woken"} <=> v9')
  BY ChannelTypes, Zenon
<1>2. /\ v6' \in Seq(Channel!Line) /\ v7' \in Seq(Channel!Sent) /\ v8' \in {<<>>} \cup {<<s>> : s \in Channel!Sent}
      /\ v10' \in Seq(Channel!Line) /\ v11' \in Channel!Line \cup {Channel!NoLine} /\ v18' \subseteq Channel!Line
  BY ChannelSeqs, Zenon
<1>3. Channel!TypeOK'
  BY <1>1, <1>2, Zenon DEF Channel!TypeOK, Channel!Line, Channel!NoLine, Channel!Sent, Channel!Command, Channel!Handshake, Channel!Prefix
<1>4. /\ v4' => ~v2'
      /\ v5' = "ended" => v4'
      /\ ~v2' => v6' = <<>> /\ v7' = <<>> /\ v8' = <<>>
      /\ v9' => v16' = "none" /\ v14' > 0
      /\ v12' \in {"wait", "between"} /\ ~v20' => v11' = Channel!NoLine /\ ~v4'
      /\ v15' > 0 => v9' /\ v14' + (Tries - v15') <= MaxCommands
      /\ v15' > 0 \/ v12' = "drain" => v13' = Channel!Handshake
      /\ v16' = "ok" /\ v13'.type \in {"SINGLELINE", "NUMERIC"} => v10' # <<>>
  BY ChannelFlat, Zenon
<1>5. ~Cmti => v5' # "second" /\ \A i \in DOMAIN v6' : v6'[i].kind # "cmti"
  BY ChannelPlain, Zenon
<1>6. Channel!Places' /\ Channel!HasData'
  BY <1>4, <1>5, Zenon DEF Channel!Places, Channel!HasData, Channel!NoLine, Channel!Handshake
<1>7. ~Cmti => (Channel!Asked /\ Channel!Rested /\ Channel!OwnAnswer /\ Channel!Displaced)'
  BY ChannelAsked, ChannelRested, ChannelOwn, Zenon
<1>8. QED
  BY <1>3, <1>6, <1>7, Zenon DEF Channel!ChannelInv

LEMMA ChannelStays ==
  ASSUME Channel!ChannelInv, UNCHANGED Channel!vars
  PROVE  Channel!ChannelInv'
<1>1. /\ UNCHANGED <<v1, v2, v3, v4, v5, v6, v7, v8, v9, v10>>
      /\ UNCHANGED <<v11, v12, v13, v14, v15, v16, v17, v18, v19, v20>>
  BY Zenon DEF Channel!vars, Channel!readerVars, Channel!modemVars, Channel!respVars
<1>2. ASSUME Channel!TypeOK PROVE Channel!TypeOK'
  <2>1. /\ v1' \in 0..MaxSessions /\ v2' \in BOOLEAN /\ v3' \in BOOLEAN /\ v4' \in BOOLEAN
        /\ v5' \in {"line", "second", "ended"} /\ v9' \in BOOLEAN /\ v17' \in BOOLEAN /\ v20' \in BOOLEAN
        /\ v12' \in {"idle", "wait", "between", "expired", "woken", "drain"} /\ v13' \in Channel!Command \cup {Channel!Handshake}
        /\ v14' \in 0..MaxCommands /\ v15' \in 0..Tries
        /\ v16' \in {"none", "ok", "error", "invalid", "timeout", "closed"}
        /\ (v12' \in {"wait", "between", "expired", "woken"} <=> v9')
    BY <1>1, <1>2, ZenonT(40) DEF Channel!TypeOK
  <2>2. /\ v6' \in Seq(Channel!Line) /\ v7' \in Seq(Channel!Sent) /\ v8' \in {<<>>} \cup {<<s>> : s \in Channel!Sent}
        /\ v10' \in Seq(Channel!Line) /\ v11' \in Channel!Line \cup {Channel!NoLine} /\ v18' \subseteq Channel!Line
    BY <1>1, <1>2, Zenon DEF Channel!TypeOK
  <2>3. QED
    BY <2>1, <2>2, Zenon DEF Channel!TypeOK, Channel!Line, Channel!NoLine, Channel!Sent, Channel!Command, Channel!Handshake, Channel!Prefix
<1>3. (Channel!Places => Channel!Places') /\ (Channel!HasData => Channel!HasData')
  BY <1>1, Zenon DEF Channel!Places, Channel!HasData, Channel!NoLine, Channel!Handshake
<1>4. Channel!Shown' = Channel!Shown /\ Channel!Clear' = Channel!Clear /\ Channel!Unasked' = Channel!Unasked
  BY <1>1, Zenon DEF Channel!Shown, Channel!Own, Channel!Clear, Channel!Unasked, Channel!Final
<1>5. \A k : Channel!Answer(k)' = Channel!Answer(k)
  BY <1>1, <1>4, Zenon DEF Channel!Answer, Channel!Own, Channel!Final
<1>6. Channel!Asked => Channel!Asked'
  BY <1>1, <1>4, <1>5, Zenon DEF Channel!Asked, Channel!NoLine
<1>7. Channel!Rested => Channel!Rested'
  BY <1>1, <1>4, Zenon DEF Channel!Rested
<1>8. Channel!OwnAnswer /\ Channel!Displaced => (Channel!OwnAnswer /\ Channel!Displaced)'
  BY <1>1, Zenon DEF Channel!OwnAnswer, Channel!Displaced, Channel!Handshake
<1>9. QED
  BY <1>2, <1>3, <1>6, <1>7, <1>8, Zenon DEF Channel!ChannelInv

\* What the invariant is for: whoever waits for an answer in time, and whose wake-up did not
\* come between two slices of its wait, waits for one that comes.
LEMMA ChannelSafe ==
  ASSUME Channel!ChannelInv, ~Cmti
  PROVE  Channel!OwnAnswer /\ Channel!Displaced /\ Channel!HasData /\ Channel!Awaited
<1>1. Channel!OwnAnswer /\ Channel!Displaced /\ Channel!HasData /\ Channel!Places /\ Channel!Asked /\ Channel!TypeOK
  BY Zenon DEF Channel!ChannelInv
<1>2. Channel!Awaited
  <2>1. SUFFICES ASSUME v12 \in {"wait", "between"}, ~v17, ~v20
                 PROVE  /\ v11 = Channel!NoLine /\ ~v4
                        /\ IF v2 THEN \/ \E i \in DOMAIN v7 : v7[i].n = v14
                                      \/ \E i \in DOMAIN v8 : v8[i].n = v14
                                      \/ \E i \in DOMAIN v6 : v6[i].by = v14 /\ v6[i].kind \in Channel!Final
                           ELSE v5 # "ended"
    BY Zenon DEF Channel!Awaited
  <2>2. v9 /\ v11 = Channel!NoLine /\ ~v4 /\ v5 # "ended"
    BY <1>1, <2>1 DEF Channel!TypeOK, Channel!Places
  <2>3. CASE v2
    <3>1. \/ v7 = <<[cmd |-> v13, n |-> v14]>> \/ v8 = <<[cmd |-> v13, n |-> v14]>>
          \/ \E k \in DOMAIN v6 : Channel!Answer(k)
      BY <1>1, <2>1, <2>2, <2>3, Zenon DEF Channel!Asked
    <3>2. CASE v7 = <<[cmd |-> v13, n |-> v14]>>
      <4>1. 1 \in DOMAIN v7 /\ v7[1].n = v14
        BY <3>2
      <4>2. QED
        BY <2>2, <2>3, <4>1
    <3>3. CASE v8 = <<[cmd |-> v13, n |-> v14]>>
      <4>1. 1 \in DOMAIN v8 /\ v8[1].n = v14
        BY <3>3
      <4>2. QED
        BY <2>2, <2>3, <4>1
    <3>4. CASE \E k \in DOMAIN v6 : Channel!Answer(k)
      BY <2>2, <2>3, <3>4 DEF Channel!Answer
    <3>5. QED
      BY <3>1, <3>2, <3>3, <3>4
  <2>4. QED
    BY <2>2, <2>3
<1>3. QED
  BY <1>1, <1>2

-----------------------------------------------------------------------------
(* at_send_command() and the session that uses it.                         *)

\* A command returns its own final line and its line of data, what an unsolicited line
\* displaced is reported, and a command that waits has its answer or the end of the reader
\* before it, or was signalled between two slices of pthread_cond_timeout_np(), which loses
\* the signal: then the answer is there and it waits for its time to pass. The session
\* brings the link up for its own call only and survives the restart that it asked for.
\* For a modem that makes no reports of received messages (atc.c never asks for them; a
\* report takes the next line with it, which may be the final one).
THEOREM AtSafely ==
  ASSUME ~Cmti
  PROVE  Spec => []AtSafe
<1> DEFINE Inv == /\ part = "channel" => Channel!ChannelInv
                  /\ part = "at" => At!AtInv
<1>1. Init => Inv
  BY ChannelInit, AtInit DEF Init
<1>2. Inv /\ [Next]_vars => Inv'
  <2> SUFFICES ASSUME Inv, [Next]_vars PROVE Inv'
    OBVIOUS
  <2>1. ASSUME part' = "channel" PROVE part = "channel" /\ [Channel!Next]_(Channel!vars)
    BY <2>1 DEF Next, vars, Channel!vars, Channel!readerVars, Channel!modemVars, Channel!respVars
  <2>2. ASSUME part' = "at" PROVE part = "at" /\ [At!Next]_(At!vars)
    BY <2>2 DEF Next, vars, At!vars, At!mainVars, At!timeVars, At!modemVars
  <2>3. QED
    BY <2>1, <2>2, ChannelKeeps, ChannelStays, AtKeeps
<1>3. Inv => AtSafe
  BY ~Cmti, ChannelSafe, AtSafePart DEF AtSafe
<1>4. QED
  BY <1>1, <1>2, <1>3, PTL DEF Spec

-----------------------------------------------------------------------------
(* The types of all parts.                                                 *)

\* The state of each part keeps its type: of the list, the counter or the choice that each
\* variable of the code is modelled by; each part by the inductive invariant of its safety.
THEOREM TypeCorrect == Spec => []TypeOK
<1> DEFINE First == /\ part = "channel" => Channel!ChannelInv
                    /\ part = "at" => At!AtInv
                    /\ part = "command" => CommandInv
                    /\ part = "mbim" => Mbim!TypeOK /\ Mbim!Addressed
                    /\ part = "registration" => Registration!RegistrationInv
           Second == /\ part = "setup" => Setup!SetupInv
                     /\ part = "start" => Start!StartInv
                     /\ part = "card" => Card!CardInv
                     /\ part = "lte" => Lte!LteInv
                     /\ part = "ota" => Ota!OtaInv
                     /\ part = "rs485" => Rs485Inv
           Parts == {"channel", "at", "command", "mbim", "registration", "setup", "start",
                     "card", "lte", "ota", "rs485"}
           Inv == part \in Parts /\ First /\ Second
<1>1. Init => Inv
  <2> SUFFICES ASSUME Init PROVE Inv
    OBVIOUS
  <2>1. part \in Parts
    BY DEF Init
  <2>2. First
    BY ChannelInit, AtInit, CommandInit, MbimInit, RegistrationInit DEF Init
  <2>3. Second
    BY SetupInit, StartInit, CardInit, LteInit, OtaInit, Rs485Init DEF Init
  <2>4. QED
    BY <2>1, <2>2, <2>3
<1>2. Inv /\ [Next]_vars => Inv'
  <2> SUFFICES ASSUME Inv, [Next]_vars PROVE Inv'
    OBVIOUS
  <2>0. part' = part
    BY DEF Next, vars
  <2>1. ASSUME part = "channel" PROVE [Channel!Next]_(Channel!vars)
    BY <2>1 DEF Next, vars, Channel!vars, Channel!readerVars, Channel!modemVars, Channel!respVars
  <2>2. ASSUME part = "at" PROVE [At!Next]_(At!vars)
    BY <2>2 DEF Next, vars, At!vars, At!mainVars, At!timeVars, At!modemVars
  <2>3. ASSUME part = "command" PROVE [Command!Next]_(Command!vars)
    BY <2>3 DEF Next, vars, Command!vars, Command!callVars, Command!netVars
  <2>4. ASSUME part = "mbim" PROVE [Mbim!Next]_(Mbim!vars)
    BY <2>4 DEF Next, vars, Mbim!vars, Mbim!mainVars, Mbim!modemVars
  <2>5. ASSUME part = "registration" PROVE [Registration!Next]_(Registration!vars)
    BY <2>5 DEF Next, vars, Registration!vars, Registration!answerVars
  <2>6. ASSUME part = "setup" PROVE [Setup!Next]_(Setup!vars)
    BY <2>6 DEF Next, vars, Setup!vars, Setup!netVars, Setup!simVars, Setup!modemVars, Setup!runVars
  <2>7. ASSUME part = "start" PROVE [Start!Next]_(Start!vars)
    BY <2>7 DEF Next, vars, Start!vars, Start!programs
  <2>8. ASSUME part = "card" PROVE [Card!Next]_(Card!vars)
    BY <2>8 DEF Next, vars, Card!vars, Card!cards, Card!dns
  <2>9. ASSUME part = "lte" PROVE [Lte!Next]_(Lte!vars)
    BY <2>9 DEF Next, vars, Lte!vars, Lte!script
  <2>10. ASSUME part = "ota" PROVE [Ota!Next]_(Ota!vars)
    BY <2>10 DEF Next, vars, Ota!vars, Ota!files, Ota!history
  <2>11. ASSUME part = "rs485" PROVE [Rs485!Next]_(Rs485!vars)
    BY <2>11 DEF Next, vars, Rs485!vars, Rs485!uciVars, Rs485!procVars, Rs485!lineVars, Rs485!fileVars, Rs485!mqttVars
  <2>12. First'
    BY <2>0, <2>1, <2>2, <2>3, <2>4, <2>5, ChannelKeeps, ChannelStays, AtKeeps, CommandKeeps, MbimSteps, RegistrationInvKeeps
  <2>13. Second'
    BY <2>0, <2>6, <2>7, <2>8, <2>9, <2>10, <2>11, SetupKeeps, StartKeeps, CardKeeps, LteKeeps, OtaSteps, Rs485Steps
  <2>14. QED
    BY <2>0, <2>12, <2>13
<1>3. Inv => TypeOK
  <2>1. First => /\ part = "channel" => Channel!TypeOK
                 /\ part = "at" => At!TypeOK
                 /\ part = "command" => Command!TypeOK
                 /\ part = "mbim" => Mbim!TypeOK
                 /\ part = "registration" => Registration!TypeOK
    BY Zenon DEF Channel!ChannelInv, At!AtInv, CommandInv, Registration!RegistrationInv
  <2>2. Second => /\ part = "setup" => Setup!TypeOK
                  /\ part = "start" => Start!TypeOK
                  /\ part = "card" => Card!TypeOK
                  /\ part = "lte" => Lte!TypeOK
                  /\ part = "ota" => Ota!TypeOK
                  /\ part = "rs485" => Rs485!TypeOK
    BY Zenon DEF Setup!SetupInv, Start!StartInv, Card!CardInv, Lte!LteInv, Ota!OtaInv, Rs485Inv
  <2>3. QED
    BY <2>1, <2>2, Zenon DEF TypeOK
<1> HIDE DEF Inv
<1>4. QED
  BY <1>1, <1>2, <1>3, PTL DEF Spec
=============================================================================
