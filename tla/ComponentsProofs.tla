-------------------------- MODULE ComponentsProofs --------------------------
(***************************************************************************)
(* Theorems about the parts that run alone. The variables v1, v2, ... are  *)
(* those of the part that runs, in the order that MCComponents gives.      *)
(***************************************************************************)
EXTENDS MCComponents, TLAPS

-----------------------------------------------------------------------------
(* The RS485 bridge. proc is v2, exits v3, state v6, pc v7, out v8, chan   *)
(* v9, taken v11, got v12, line v13.                                       *)

\* A list is not changed by where it is cut in two.
LEMMA CutAnywhere ==
  ASSUME NEW S, NEW a \in Seq(S), NEW b \in Seq(S), NEW x \in S
  PROVE  /\ (a \o b) \o <<x>> = a \o Append(b, x)
         /\ Append(a, x) \o b = a \o (<<x>> \o b)
         /\ a \o <<>> = a /\ <<>> \o a = a
         /\ Append(a, x) = a \o <<x>>
         /\ b # <<>> => <<Head(b)>> \o Tail(b) = b /\ Head(b) \in S /\ Tail(b) \in Seq(S)
<1>1. (a \o b) \o <<x>> = a \o Append(b, x)
  <2>1. (a \o b) \o <<x>> = Append(a \o b, x)
    OBVIOUS
  <2>2. Append(a \o b, x) = a \o Append(b, x)
    OBVIOUS
  <2>3. QED
    BY <2>1, <2>2
<1>2. Append(a, x) \o b = a \o (<<x>> \o b)
  OBVIOUS
<1>3. a \o <<>> = a /\ <<>> \o a = a
  OBVIOUS
<1>4. Append(a, x) = a \o <<x>>
  OBVIOUS
<1>5. ASSUME b # <<>> PROVE <<Head(b)>> \o Tail(b) = b /\ Head(b) \in S /\ Tail(b) \in Seq(S)
  BY <1>5
<1>6. QED
  BY <1>1, <1>2, <1>3, <1>4, <1>5

LEMMA ConcatType ==
  ASSUME NEW S, NEW a \in Seq(S), NEW b \in Seq(S)
  PROVE  a \o b \in Seq(S)
  OBVIOUS

LEMMA MoveHead ==
  ASSUME NEW S, NEW a \in Seq(S), NEW b \in Seq(S), b # <<>>
  PROVE  /\ Append(a, Head(b)) \o Tail(b) = a \o b
         /\ Append(a, Head(b)) \in Seq(S) /\ Tail(b) \in Seq(S)
<1>1. Head(b) \in S /\ Tail(b) \in Seq(S) /\ <<Head(b)>> \o Tail(b) = b
  BY CutAnywhere
<1>2. Append(a, Head(b)) \o Tail(b) = a \o (<<Head(b)>> \o Tail(b))
  BY <1>1, CutAnywhere
<1>3. Append(a, Head(b)) \in Seq(S)
  BY <1>1
<1>4. QED
  BY <1>1, <1>2, <1>3

LEMMA NothingMore ==
  ASSUME NEW S, NEW a \in Seq(S)
  PROVE  a \o <<>> = a
  OBVIOUS

\* One message goes from the line to the channel, and from there to the broker.
LEMMA Rs485Puts ==
  ASSUME v9 \in Seq(0..Reads), v12 \in Seq(0..Reads), v8 \in 0..Reads
  PROVE  (v12 \o v9) \o <<v8>> = v12 \o Append(v9, v8)
<1>1. (v12 \o v9) \o <<v8>> = Append(v12 \o v9, v8)
  OBVIOUS
<1>2. Append(v12 \o v9, v8) = v12 \o Append(v9, v8)
  OBVIOUS
<1>3. QED
  BY <1>1, <1>2

LEMMA Rs485Moves ==
  ASSUME v9 \in Seq(0..Reads), v12 \in Seq(0..Reads), v9 # <<>>
  PROVE  /\ Append(v12, Head(v9)) \o Tail(v9) = v12 \o v9
         /\ Append(v12, Head(v9)) \in Seq(0..Reads) /\ Tail(v9) \in Seq(0..Reads)
         /\ Len(Tail(v9)) = Len(v9) - 1 /\ Len(v9) \in Nat
<1>1. PICK S : S = 0..Reads
  OBVIOUS
<1>2. v9 \in Seq(S) /\ v12 \in Seq(S) /\ v9 # <<>>
  BY <1>1
<1>3. /\ Append(v12, Head(v9)) \o Tail(v9) = v12 \o v9
      /\ Append(v12, Head(v9)) \in Seq(S) /\ Tail(v9) \in Seq(S)
  BY <1>2, MoveHead
<1>4. Len(Tail(v9)) = Len(v9) - 1 /\ Len(v9) \in Nat
  BY <1>2
<1>5. QED
  BY <1>1, <1>3, <1>4

\* What has been given to the MQTT client is what the broker has, then what the
\* channel holds, then what is being put; procd starts what has exited a few
\* times only.
Rs485Inv == Rs485!TypeOK /\ Rs485!Kept /\ (v2 = "up" => v3 <= Retries)

LEMMA Rs485Init == Rs485!Init => Rs485Inv
<1> SUFFICES ASSUME Rs485!Init PROVE Rs485Inv
  OBVIOUS
<1>1. Rs485!TypeOK
  <2>1. v1 \in Rs485!Uci /\ v4 \in Rs485!Uci /\ v5 \in {"serial", "modbus"}
    BY DEF Rs485!Init, Rs485!Uci
  <2>2. v2 \in {"up", "down", "stopped"} /\ v6 \in {"not", "success", "failed"}
        /\ v7 \in {"top", "select", "put", "retry", "modbus", "hung"} /\ v17 \in {"none", "data", "error"}
        /\ v10 \in BOOLEAN /\ v15 \in BOOLEAN /\ v16 \in BOOLEAN
    BY DEF Rs485!Init
  <2>3. v18 \in 0..MaxChanges /\ v3 \in 0..Retries + 1 /\ v8 \in 0..Reads /\ v14 \in 0..Reads
        /\ v19 \in 0..LineFaults
    BY Rs485Assumption, SharedAssumption DEF Rs485!Init
  <2>4. v9 \in Seq(0..Reads) /\ Len(v9) <= Cap /\ v11 \in Seq(0..Reads) /\ v12 \in Seq(0..Reads)
        /\ v13 \in Seq(Rs485!Message)
    BY Rs485Assumption, SharedAssumption DEF Rs485!Init
  <2>5. QED
    BY <2>1, <2>2, <2>3, <2>4 DEF Rs485!TypeOK
<1>2. Rs485!Kept
  BY DEF Rs485!Init, Rs485!Kept
<1>3. QED
  BY <1>1, <1>2, Rs485Assumption DEF Rs485!Init, Rs485Inv

\* The parts of Rs485Inv that no proof about the lists needs.
Rs485Plain ==
  /\ v1 \in Rs485!Uci /\ v4 \in Rs485!Uci /\ v5 \in {"serial", "modbus"}
  /\ v2 \in {"up", "down", "stopped"} /\ v6 \in {"not", "success", "failed"}
  /\ v7 \in {"top", "select", "put", "retry", "modbus", "hung"} /\ v17 \in {"none", "data", "error"}
  /\ v10 \in BOOLEAN /\ v15 \in BOOLEAN /\ v16 \in BOOLEAN
  /\ v18 \in 0..MaxChanges /\ v3 \in 0..Retries + 1 /\ v14 \in 0..Reads /\ v19 \in 0..LineFaults
  /\ v2 = "up" => v3 <= Retries

\* Those about them.
Rs485Lists ==
  /\ v8 \in 0..Reads /\ v9 \in Seq(0..Reads) /\ Len(v9) <= Cap
  /\ v11 \in Seq(0..Reads) /\ v12 \in Seq(0..Reads) /\ v13 \in Seq(Rs485!Message)
  /\ Rs485!Kept

LEMMA Rs485InvParts == Rs485Inv <=> Rs485Plain /\ Rs485Lists
  BY Zenon DEF Rs485Inv, Rs485Plain, Rs485Lists, Rs485!TypeOK

\* A step of the task.
LEMMA Rs485Round ==
  ASSUME Rs485Inv, Rs485!Round
  PROVE  Rs485Plain'
<1> USE Rs485Assumption, SharedAssumption DEF Rs485!RoundSame, Rs485!uciVars, Rs485!procVars, Rs485!lineVars, Rs485!fileVars,
      Rs485!mqttVars, Rs485!At, Rs485!To, Rs485!Fault
<1>0. Rs485Plain
  BY Rs485InvParts
<1>1. ASSUME Rs485!Load PROVE Rs485Plain'
  BY <1>0, <1>1 DEF Rs485!Load, Rs485!NewClient, Rs485Plain
<1>2. ASSUME Rs485!Connect PROVE Rs485Plain'
  BY <1>0, <1>2 DEF Rs485!Connect, Rs485Plain
<1>3. ASSUME Rs485!Send PROVE Rs485Plain'
  BY <1>0, <1>3 DEF Rs485!Send, Rs485Plain
<1>4. ASSUME Rs485!Event PROVE Rs485Plain'
  BY <1>0, <1>4 DEF Rs485!Event, Rs485Plain
<1>5. ASSUME Rs485!NetError PROVE Rs485Plain'
  <2>1. v19' \in 0..LineFaults
    BY <1>0, <1>5 DEF Rs485!NetError, Rs485Plain
  <2>2. /\ v6' = "failed" /\ v10' = FALSE /\ v7' = "modbus"
        /\ UNCHANGED <<v1, v2, v3, v4, v5, v14, v15, v16, v17, v18>>
    BY <1>5 DEF Rs485!NetError
  <2>3. QED
    BY <1>0, <2>1, <2>2 DEF Rs485Plain
<1>6. ASSUME Rs485!Retry PROVE Rs485Plain'
  BY <1>0, <1>6 DEF Rs485!Retry, Rs485!NewClient, Rs485Plain
<1>7. ASSUME Rs485!Read PROVE Rs485Plain'
  BY <1>0, <1>7 DEF Rs485!Read, Rs485Plain
<1>8. ASSUME Rs485!Queue PROVE Rs485Plain'
  BY <1>0, <1>8 DEF Rs485!Queue, Rs485Plain
<1>9. ASSUME Rs485!Skip PROVE Rs485Plain'
  BY <1>0, <1>9 DEF Rs485!Skip, Rs485Plain
<1>10. ASSUME Rs485!Modbus PROVE Rs485Plain'
  BY <1>0, <1>10 DEF Rs485!Modbus, Rs485!Answered, Rs485Plain
<1>11. ASSUME Rs485!ModbusError PROVE Rs485Plain'
  BY <1>0, <1>11 DEF Rs485!ModbusError, Rs485!Exit, Rs485Plain
<1>12. ASSUME Rs485!ModbusSilent PROVE Rs485Plain'
  BY <1>0, <1>12 DEF Rs485!ModbusSilent, Rs485Plain
<1>13. QED
  BY <1>1, <1>2, <1>3, <1>4, <1>5, <1>6, <1>7, <1>8, <1>9, <1>10, <1>11, <1>12 DEF Rs485!Round

\* What the task does to the lists: it gives the event loop what it took, at the
\* other end of what is on its way.
LEMMA Rs485RoundLists ==
  ASSUME Rs485Inv, Rs485!Round
  PROVE  Rs485Lists'
<1> USE Rs485Assumption, SharedAssumption DEF Rs485!RoundSame, Rs485!uciVars, Rs485!procVars, Rs485!lineVars, Rs485!fileVars,
      Rs485!mqttVars, Rs485!At, Rs485!To
<1>0. Rs485Lists /\ Rs485Plain
  BY Rs485InvParts
<1>a. Rs485!Message \subseteq 0..Reads
  BY DEF Rs485!Message
<1>1. ASSUME Rs485!Load PROVE Rs485Lists'
  <2>1. v7 = "top" /\ v7' # "put" /\ v8' = v8 /\ v13' = v13
    BY <1>1 DEF Rs485!Load
  <2>2. \/ v9' = <<>> /\ v11' = <<>> /\ v12' = <<>>
        \/ v9' = v9 /\ v11' = v11 /\ v12' = v12
    BY <1>1 DEF Rs485!Load, Rs485!NewClient
  <2>3. CASE v9' = <<>> /\ v11' = <<>> /\ v12' = <<>>
    BY <1>0, <2>1, <2>3 DEF Rs485Lists, Rs485!Kept
  <2>4. CASE v9' = v9 /\ v11' = v11 /\ v12' = v12
    BY <1>0, <2>1, <2>4 DEF Rs485Lists, Rs485!Kept
  <2>5. QED
    BY <2>2, <2>3, <2>4
<1>2. ASSUME Rs485!Connect PROVE Rs485Lists'
  <2>1. v11 = v12 \o v9
    BY <1>0, <1>2, CutAnywhere DEF Rs485!Connect, Rs485Lists, Rs485!Kept
  <2>2. Append(v11, 0) = (v12 \o v9) \o <<0>> /\ Append(v11, 0) \in Seq(0..Reads)
    BY <1>0, <2>1, CutAnywhere DEF Rs485Lists
  <2>3. QED
    BY <1>0, <1>2, <2>2 DEF Rs485!Connect, Rs485Lists, Rs485!Kept
<1>3. ASSUME Rs485!Send PROVE Rs485Lists'
  <2>1. /\ v9 # <<>> /\ v12' = Append(v12, Head(v9)) /\ v9' = Tail(v9) /\ v7 = "select" /\ v7' = "modbus"
        /\ v11' = v11 /\ v8' = v8 /\ v13' = v13
    BY <1>3 DEF Rs485!Send, Rs485!Sent
  <2>2. v11 = v12 \o v9
    BY <1>0, <2>1, CutAnywhere DEF Rs485Lists, Rs485!Kept
  <2>3. /\ Append(v12, Head(v9)) \o Tail(v9) = v12 \o v9
        /\ Append(v12, Head(v9)) \in Seq(0..Reads) /\ Tail(v9) \in Seq(0..Reads) /\ Len(Tail(v9)) <= Cap
    <3>1. v9 \in Seq(0..Reads) /\ v12 \in Seq(0..Reads) /\ v9 # <<>> /\ Len(v9) <= Cap
      BY <1>0, <2>1 DEF Rs485Lists
    <3>2. Len(Tail(v9)) <= Cap
      BY <3>1, Rs485Moves
    <3>3. QED
      BY <3>1, <3>2, Rs485Moves
  <2>4. v11' = v12' \o v9' \o <<>>
    <3>1. v11 \in Seq(0..Reads)
      BY <1>0 DEF Rs485Lists
    <3>2. v11 \o <<>> = v11
      BY <3>1, NothingMore
    <3>3. v11' = v12' \o v9'
      BY <2>1, <2>2, <2>3
    <3>4. QED
      BY <2>1, <3>2, <3>3
  <2>5. QED
    BY <1>0, <2>1, <2>3, <2>4 DEF Rs485Lists, Rs485!Kept
<1>4. ASSUME Rs485!Event PROVE Rs485Lists'
  BY <1>0, <1>4 DEF Rs485!Event, Rs485Lists, Rs485!Kept
<1>5. ASSUME Rs485!NetError PROVE Rs485Lists'
  BY <1>0, <1>5 DEF Rs485!NetError, Rs485Lists, Rs485!Kept
<1>6. ASSUME Rs485!Retry PROVE Rs485Lists'
  BY <1>0, <1>6 DEF Rs485!Retry, Rs485!NewClient, Rs485Lists, Rs485!Kept
<1>7. ASSUME Rs485!Read PROVE Rs485Lists'
  <2>1. /\ v13 # <<>> /\ v8' = Head(v13) /\ v13' = Tail(v13) /\ v11' = Append(v11, Head(v13))
        /\ v7 = "select" /\ v7' = "put" /\ v9' = v9 /\ v12' = v12
    BY <1>7 DEF Rs485!Read
  <2>2. v11 = v12 \o v9
    BY <1>0, <2>1, CutAnywhere DEF Rs485Lists, Rs485!Kept
  <2>3. Head(v13) \in 0..Reads /\ Tail(v13) \in Seq(Rs485!Message)
    <3>1. v13 \in Seq(Rs485!Message) /\ v13 # <<>>
      BY <1>0, <2>1 DEF Rs485Lists
    <3>2. Head(v13) \in Rs485!Message /\ Tail(v13) \in Seq(Rs485!Message)
      BY <3>1
    <3>3. QED
      BY <3>2, <1>a
  <2>4. v11' = (v12 \o v9) \o <<v8'>> /\ v11' \in Seq(0..Reads)
    <3>1. v11 \in Seq(0..Reads)
      BY <1>0 DEF Rs485Lists
    <3>2. QED
      BY <3>1, <2>1, <2>2, <2>3
  <2>5. QED
    BY <1>0, <2>1, <2>3, <2>4 DEF Rs485Lists, Rs485!Kept
<1>8. ASSUME Rs485!Queue PROVE Rs485Lists'
  <2>1. /\ Len(v9) < Cap /\ v9' = Append(v9, v8) /\ v7 = "put" /\ v7' = "modbus"
        /\ v11' = v11 /\ v12' = v12 /\ v13' = v13 /\ v8' = v8
    BY <1>8 DEF Rs485!Queue, Rs485!Put
  <2>2. v11 = (v12 \o v9) \o <<v8>>
    BY <1>0, <2>1 DEF Rs485Lists, Rs485!Kept
  <2>3. /\ v11 = v12 \o Append(v9, v8) /\ Append(v9, v8) \in Seq(0..Reads) /\ Len(Append(v9, v8)) <= Cap
        /\ v12 \o Append(v9, v8) \o <<>> = v12 \o Append(v9, v8)
    <3>1. v9 \in Seq(0..Reads) /\ v12 \in Seq(0..Reads) /\ v8 \in 0..Reads
      BY <1>0 DEF Rs485Lists
    <3>a. Append(v9, v8) \in Seq(0..Reads) /\ Len(Append(v9, v8)) = Len(v9) + 1 /\ Len(v9) \in Nat
      BY <3>1
    <3>b. (v12 \o v9) \o <<v8>> = v12 \o Append(v9, v8)
      BY <3>1, Rs485Puts
    <3>c. v12 \o Append(v9, v8) \in Seq(0..Reads)
      BY <3>1, <3>a, ConcatType, Zenon
    <3>2. /\ (v12 \o v9) \o <<v8>> = v12 \o Append(v9, v8) /\ Append(v9, v8) \in Seq(0..Reads)
          /\ Len(Append(v9, v8)) = Len(v9) + 1 /\ Len(v9) \in Nat
          /\ v12 \o Append(v9, v8) \o <<>> = v12 \o Append(v9, v8)
      BY <3>1, <3>a, <3>b, <3>c, NothingMore, Zenon
    <3>3. v11 = v12 \o Append(v9, v8)
      BY <3>2, <2>2, Zenon
    <3>4. Len(Append(v9, v8)) <= Cap
      BY <3>2, <2>1
    <3>5. QED
      BY <3>2, <3>3, <3>4, Zenon
  <2>4. QED
    BY <1>0, <2>1, <2>3 DEF Rs485Lists, Rs485!Kept
<1>9. ASSUME Rs485!Skip PROVE Rs485Lists'
  BY <1>0, <1>9 DEF Rs485!Skip, Rs485Lists, Rs485!Kept
<1>10. ASSUME Rs485!Modbus PROVE Rs485Lists'
  BY <1>0, <1>10 DEF Rs485!Modbus, Rs485Lists, Rs485!Kept
<1>11. ASSUME Rs485!ModbusError PROVE Rs485Lists'
  BY <1>0, <1>11 DEF Rs485!ModbusError, Rs485!Exit, Rs485Lists, Rs485!Kept
<1>12. ASSUME Rs485!ModbusSilent PROVE Rs485Lists'
  BY <1>0, <1>12 DEF Rs485!ModbusSilent, Rs485Lists, Rs485!Kept
<1>13. QED
  BY <1>1, <1>2, <1>3, <1>4, <1>5, <1>6, <1>7, <1>8, <1>9, <1>10, <1>11, <1>12 DEF Rs485!Round

\* A new client has been given nothing.
LEMMA Rs485Fresh ==
  ASSUME v7' = "top", v8' = 0, v9' = <<>>, v11' = <<>>, v12' = <<>>, v13' = <<>>
  PROVE  Rs485Lists'
  BY Rs485Assumption DEF Rs485Lists, Rs485!Kept

LEMMA Rs485FreshPlain ==
  ASSUME Rs485!Fresh, v1' \in Rs485!Uci
  PROVE  /\ v2' = "up" /\ v4' \in Rs485!Uci /\ v5' \in {"serial", "modbus"} /\ v6' = "not" /\ v7' = "top"
         /\ v10' = FALSE
  BY DEF Rs485!Fresh, Rs485!To, Rs485!NewClient

\* What is outside the task, procd among it.
LEMMA Rs485Outside ==
  ASSUME Rs485Inv, Rs485!Respawn \/ Rs485!Outside
  PROVE  Rs485Inv'
<1> USE Rs485Assumption, SharedAssumption DEF Rs485!uciVars, Rs485!procVars, Rs485!lineVars, Rs485!fileVars, Rs485!mqttVars
<1>0. Rs485Lists /\ Rs485Plain
  BY Rs485InvParts
<1>1. ASSUME Rs485!Respawn PROVE Rs485Plain' /\ Rs485Lists'
  <2>1. Rs485Plain'
    <3>1. CASE v3 > Retries
      BY <1>0, <1>1, <3>1 DEF Rs485!Respawn, Rs485Plain
    <3>2. CASE ~(v3 > Retries)
      <4>1. Rs485!Fresh /\ v3' = v3 /\ v14' = v14 /\ v15' = v15 /\ v16' = v16 /\ v17' = v17 /\ v1' = v1
            /\ v18' = v18 /\ v19' = v19
        BY <1>1, <3>2 DEF Rs485!Respawn
      <4>2. QED
        BY <1>0, <3>2, <4>1, Rs485FreshPlain DEF Rs485Plain
    <3>3. QED
      BY <3>1, <3>2
  <2>2. CASE v3 > Retries
    BY <1>0, <1>1, <2>1, <2>2 DEF Rs485!Respawn, Rs485Lists, Rs485!Kept
  <2>3. CASE ~(v3 > Retries)
    BY <1>1, <2>1, <2>3, Rs485Fresh DEF Rs485!Respawn, Rs485!Fresh, Rs485!To, Rs485!NewClient
  <2>4. QED
    BY <2>1, <2>2, <2>3
<1>2. ASSUME NEW reload \in BOOLEAN, Rs485!Change(reload) PROVE Rs485Plain' /\ Rs485Lists'
  <2>1. Rs485Plain'
    <3>1. v1' \in Rs485!Uci /\ v18' \in 0..MaxChanges /\ v14' = v14 /\ v15' = v15 /\ v16' = v16 /\ v17' = v17
          /\ v19' = v19
      BY <1>0, <1>2 DEF Rs485!Change, Rs485Plain
    <3>2. CASE reload
      BY <1>0, <1>2, <3>1, <3>2, Rs485FreshPlain DEF Rs485!Change, Rs485Plain
    <3>3. CASE ~reload
      BY <1>0, <1>2, <3>1, <3>3 DEF Rs485!Change, Rs485Plain
    <3>4. QED
      BY <3>2, <3>3
  <2>2. CASE ~reload
    BY <1>0, <1>2, <2>1, <2>2 DEF Rs485!Change, Rs485Lists, Rs485!Kept
  <2>3. CASE reload
    BY <1>2, <2>1, <2>3, Rs485Fresh DEF Rs485!Change, Rs485!Fresh, Rs485!To, Rs485!NewClient
  <2>4. QED
    BY <2>1, <2>2, <2>3
<1>3. ASSUME Rs485!Say PROVE Rs485Plain' /\ Rs485Lists'
  <2>1. Rs485Plain'
    BY <1>0, <1>3 DEF Rs485!Say, Rs485Plain
  <2>2. v14' \in Rs485!Message /\ v13 \in Seq(Rs485!Message) /\ v13' = Append(v13, v14')
    BY <1>0, <1>3 DEF Rs485!Say, Rs485Plain, Rs485Lists, Rs485!Message
  <2>3. v13' \in Seq(Rs485!Message)
    BY <2>2
  <2>4. QED
    BY <1>0, <1>3, <2>1, <2>3 DEF Rs485!Say, Rs485Lists, Rs485!Kept
<1>4. ASSUME Rs485!Trigger PROVE Rs485Plain' /\ Rs485Lists'
  BY <1>0, <1>4 DEF Rs485!Trigger, Rs485Plain, Rs485Lists, Rs485!Kept
<1>5. ASSUME Rs485!Reach PROVE Rs485Plain' /\ Rs485Lists'
  BY <1>0, <1>5 DEF Rs485!Reach, Rs485!Fault, Rs485Plain, Rs485Lists, Rs485!Kept
<1>6. Rs485Plain' /\ Rs485Lists'
  BY <1>1, <1>2, <1>3, <1>4, <1>5 DEF Rs485!Outside
<1>7. QED
  BY <1>6 DEF Rs485Inv, Rs485Plain, Rs485Lists, Rs485!TypeOK

LEMMA Rs485Stays ==
  ASSUME Rs485Inv, UNCHANGED Rs485!vars
  PROVE  Rs485Inv'
  BY DEF Rs485Inv, Rs485!TypeOK, Rs485!Kept, Rs485!vars, Rs485!uciVars, Rs485!procVars, Rs485!lineVars,
     Rs485!fileVars, Rs485!mqttVars

LEMMA Rs485Steps ==
  ASSUME Rs485Inv, [Rs485!Next]_(Rs485!vars)
  PROVE  Rs485Inv'
<1>1. CASE Rs485!Round
  <2>1. Rs485Plain' /\ Rs485Lists'
    BY <1>1, Rs485Round, Rs485RoundLists
  <2>2. QED
    BY <2>1 DEF Rs485Inv, Rs485Plain, Rs485Lists, Rs485!TypeOK
<1>2. QED
  BY <1>1, Rs485Outside, Rs485Stays DEF Rs485!Next

\* Rs485!Kept: nothing that the RS485 bridge was given for the broker is lost,
\* repeated or overtaken while its client lives, for any size of the channel.
THEOREM KeepsOrder == Spec => []Kept
<1> DEFINE Inv == part = "rs485" => Rs485Inv
<1>1. Init => Inv
  BY Rs485Init DEF Init
<1>2. Inv /\ [Next]_vars => Inv'
  <2> SUFFICES ASSUME Inv, [Next]_vars, part' = "rs485" PROVE Rs485Inv'
    OBVIOUS
  <2>1. part = "rs485" /\ [Rs485!Next]_(Rs485!vars)
    BY DEF Next, vars, Rs485!vars, Rs485!uciVars, Rs485!procVars, Rs485!lineVars, Rs485!fileVars, Rs485!mqttVars
  <2>2. QED
    BY <2>1, Rs485Steps
<1>3. Inv => Kept
  BY DEF Rs485Inv, Kept
<1>4. QED
  BY <1>1, <1>2, <1>3, PTL DEF Spec

-----------------------------------------------------------------------------
(* The update over the air. dl is v1, curl v2, cmd v3, lock v4, pid v5,    *)
(* file v6, img v7, progress v8, installed v9, cancelled v10, overlap v11, *)
(* crashed v12.                                                            *)

LEMMA OtaImages ==
  /\ Ota!None \in Ota!Image /\ Ota!None.by = 0 /\ ~Ota!None.whole
  /\ \A d \in Ota!Dl : [by |-> d, whole |-> FALSE] \in Ota!Image
  /\ \A i \in Ota!Image : [i EXCEPT !.whole = TRUE] \in Ota!Image
<1>1. /\ Ota!None \in Ota!Image /\ Ota!None.by = 0 /\ ~Ota!None.whole
      /\ \A d \in Ota!Dl : [by |-> d, whole |-> FALSE] \in Ota!Image
  BY OtaAssumption DEF Ota!None, Ota!Image, Ota!Dl
<1>2. ASSUME NEW i \in Ota!Image PROVE [i EXCEPT !.whole = TRUE] \in Ota!Image
  BY DEF Ota!Image
<1>3. QED
  BY <1>1, <1>2

\* Type correctness, in two parts.
OtaCalls == [Ota!Cmd -> [kind : Ota!Kind \cup {"none"}, at : Ota!Place, of : SUBSET Ota!Dl]]
OtaPlain ==
  /\ v1 \in [Ota!Dl -> {"idle", "locked", "made", "launched", "waits", "ok", "over", "moved",
                      "told", "unnamed", "unlock", "end"}]
  /\ v2 \in [Ota!Dl -> {"none", "connects", "writes", "ok", "failed", "killed"}]
  /\ v4 \in 0..Downloads + Commands /\ v5 \in 0..Downloads
  /\ v6 \in Ota!Image /\ v7 \in Ota!Image /\ v9 \in Ota!Image
  /\ v8 \in {"none", "downloading", "failed", "cancelled"}
  /\ v10 \subseteq Ota!Dl /\ v11 \in BOOLEAN /\ v12 \in BOOLEAN /\ v13 \in 0..MaxFaults

\* A call of the script goes to another place, and no other one does.
LEMMA OtaGoes ==
  ASSUME Ota!TypeOK, NEW c \in Ota!Cmd, NEW place \in Ota!Place, Ota!Go(c, place)
  PROVE  /\ v3' \in OtaCalls
         /\ v3'[c].at = place /\ v3'[c].kind = v3[c].kind /\ v3'[c].of = v3[c].of
         /\ \A e \in Ota!Cmd : e # c => v3'[e] = v3[e]
  BY DEF Ota!TypeOK, Ota!Go, OtaCalls

LEMMA OtaTypes ==
  ASSUME Ota!TypeOK, Ota!Next
  PROVE  Ota!TypeOK'
<1> USE OtaAssumption, SharedAssumption DEF Ota!files, Ota!history, Ota!At, Ota!Go, Ota!Is, Ota!Dl, Ota!Cmd
<1>0. Ota!TypeOK /\ Ota!None \in Ota!Image
  BY OtaImages
<1>1. ASSUME NEW d \in Ota!Dl, Ota!Start(d) PROVE Ota!TypeOK'
  BY <1>0, <1>1 DEF Ota!Start, Ota!Take, Ota!Busy, Ota!TypeOK
<1>2. ASSUME NEW d \in Ota!Dl, Ota!Crash(d) PROVE Ota!TypeOK'
  BY <1>0, <1>2 DEF Ota!Crash, Ota!Left, Ota!Runs, Ota!TypeOK
<1>3. ASSUME NEW d \in Ota!Dl, Ota!Make(d) PROVE Ota!TypeOK'
  <2>1. v6' \in Ota!Image
    BY <1>0, <1>3, OtaImages DEF Ota!Make, Ota!TypeOK
  <2>2. QED
    BY <1>0, <1>3, <2>1 DEF Ota!Make, Ota!TypeOK
<1>4. ASSUME NEW d \in Ota!Dl, Ota!Launch(d) PROVE Ota!TypeOK'
  BY <1>0, <1>4 DEF Ota!Launch, Ota!TypeOK
<1>5. ASSUME NEW d \in Ota!Dl, Ota!Name(d) PROVE Ota!TypeOK'
  BY <1>0, <1>5 DEF Ota!Name, Ota!TypeOK
<1>6. ASSUME NEW d \in Ota!Dl, Ota!Ended(d) PROVE Ota!TypeOK'
  BY <1>0, <1>6 DEF Ota!Ended, Ota!TypeOK
<1>7. ASSUME NEW d \in Ota!Dl, Ota!Complete(d) PROVE Ota!TypeOK'
  BY <1>0, <1>7 DEF Ota!Complete, Ota!TypeOK
<1>8. ASSUME NEW d \in Ota!Dl, Ota!Move(d) PROVE Ota!TypeOK'
  BY <1>0, <1>8 DEF Ota!Move, Ota!TypeOK
<1>9. ASSUME NEW d \in Ota!Dl, Ota!Hide(d) PROVE Ota!TypeOK'
  BY <1>0, <1>9 DEF Ota!Hide, Ota!TypeOK
<1>10. ASSUME NEW d \in Ota!Dl, Ota!Failed(d) PROVE Ota!TypeOK'
  BY <1>0, <1>10 DEF Ota!Failed, Ota!TypeOK
<1>11. ASSUME NEW d \in Ota!Dl, Ota!Unname(d) PROVE Ota!TypeOK'
  BY <1>0, <1>11 DEF Ota!Unname, Ota!TypeOK
<1>12. ASSUME NEW d \in Ota!Dl, Ota!Discard(d) PROVE Ota!TypeOK'
  BY <1>0, <1>12 DEF Ota!Discard, Ota!TypeOK
<1>13. ASSUME NEW d \in Ota!Dl, Ota!Unlock(d) PROVE Ota!TypeOK'
  BY <1>0, <1>13 DEF Ota!Unlock, Ota!TypeOK
<1>14. ASSUME NEW d \in Ota!Dl, Ota!Open(d) PROVE Ota!TypeOK'
  <2>1. v6' \in Ota!Image
    BY <1>14, OtaImages DEF Ota!Open
  <2>2. QED
    BY <1>0, <1>14, <2>1 DEF Ota!Open, Ota!TypeOK
<1>15. ASSUME NEW d \in Ota!Dl, Ota!Finish(d) PROVE Ota!TypeOK'
  <2>1. v6' \in Ota!Image
    BY <1>0, <1>15, OtaImages DEF Ota!Finish, Ota!TypeOK
  <2>2. QED
    BY <1>0, <1>15, <2>1 DEF Ota!Finish, Ota!Over, Ota!TypeOK
<1>16. ASSUME NEW d \in Ota!Dl, Ota!Break(d) PROVE Ota!TypeOK'
  BY <1>0, <1>16 DEF Ota!Break, Ota!Over, Ota!Runs, Ota!TypeOK
<1>17. ASSUME NEW c \in Ota!Cmd, Ota!Look(c) PROVE Ota!TypeOK'
  <2>1. v3' \in OtaCalls
    BY <1>0, <1>17, OtaGoes DEF Ota!Look, Ota!Place
  <2>2. v2' \in [Ota!Dl -> {"none", "connects", "writes", "ok", "failed", "killed"}] /\ v4' \in 0..Downloads + Commands
    <3>1. CASE v5 # 0 /\ Ota!Runs(v5)
      <4>1. v5 \in Ota!Dl
        BY <1>0, <3>1 DEF Ota!TypeOK
      <4>2. v2' = [v2 EXCEPT ![v5] = "killed"] /\ v4' \in {0, v4}
        BY <1>17, <3>1 DEF Ota!Look, Ota!Over
      <4>3. QED
        BY <1>0, <4>1, <4>2 DEF Ota!TypeOK
    <3>2. CASE ~(v5 # 0 /\ Ota!Runs(v5))
      BY <1>0, <1>17, <3>2 DEF Ota!Look, Ota!TypeOK
    <3>3. QED
      BY <3>1, <3>2
  <2>3. QED
    BY <1>0, <1>17, <2>1, <2>2 DEF Ota!Look, Ota!TypeOK, OtaCalls
<1>18. ASSUME NEW c \in Ota!Cmd, Ota!Forget(c) PROVE Ota!TypeOK'
  <2>1. v3' \in OtaCalls
    BY <1>0, <1>18, OtaGoes DEF Ota!Forget, Ota!Place
  <2>2. OtaPlain'
    BY <1>0, <1>18 DEF Ota!Forget, Ota!TypeOK, OtaPlain
  <2>3. QED
    BY <2>1, <2>2, Zenon DEF Ota!TypeOK, OtaCalls, OtaPlain
<1>19. ASSUME NEW c \in Ota!Cmd, Ota!RemovePart(c) PROVE Ota!TypeOK'
  <2>1. v3' \in OtaCalls
    BY <1>0, <1>19, OtaGoes DEF Ota!RemovePart, Ota!Place
  <2>2. OtaPlain'
    BY <1>0, <1>19 DEF Ota!RemovePart, Ota!TypeOK, OtaPlain
  <2>3. QED
    BY <2>1, <2>2, Zenon DEF Ota!TypeOK, OtaCalls, OtaPlain
<1>20. ASSUME NEW c \in Ota!Cmd, Ota!RemoveImage(c) PROVE Ota!TypeOK'
  <2>1. v3' \in OtaCalls
    BY <1>0, <1>20, OtaGoes DEF Ota!RemoveImage, Ota!Place
  <2>2. OtaPlain'
    BY <1>0, <1>20 DEF Ota!RemoveImage, Ota!TypeOK, OtaPlain
  <2>3. QED
    BY <2>1, <2>2, Zenon DEF Ota!TypeOK, OtaCalls, OtaPlain
<1>21. ASSUME NEW c \in Ota!Cmd, Ota!RemoveProgress(c) PROVE Ota!TypeOK'
  <2>1. v3' \in OtaCalls
    BY <1>0, <1>21, OtaGoes DEF Ota!RemoveProgress, Ota!Place
  <2>2. OtaPlain'
    BY <1>0, <1>21 DEF Ota!RemoveProgress, Ota!TypeOK, OtaPlain
  <2>3. QED
    BY <2>1, <2>2, Zenon DEF Ota!TypeOK, OtaCalls, OtaPlain
<1>22. ASSUME NEW c \in Ota!Cmd, Ota!CheckLock(c) PROVE Ota!TypeOK'
  <2>1. v3' \in OtaCalls
    BY <1>0, <1>22, OtaGoes DEF Ota!CheckLock, Ota!Place
  <2>2. OtaPlain'
    BY <1>0, <1>22 DEF Ota!CheckLock, Ota!TypeOK, OtaPlain
  <2>3. QED
    BY <2>1, <2>2, Zenon DEF Ota!TypeOK, OtaCalls, OtaPlain
<1>23. ASSUME NEW c \in Ota!Cmd, Ota!CheckVersion(c) PROVE Ota!TypeOK'
  <2>1. v3' \in OtaCalls
    BY <1>0, <1>23, OtaGoes DEF Ota!CheckVersion, Ota!Place
  <2>2. OtaPlain'
    BY <1>0, <1>23 DEF Ota!CheckVersion, Ota!TypeOK, OtaPlain
  <2>3. QED
    BY <2>1, <2>2, Zenon DEF Ota!TypeOK, OtaCalls, OtaPlain
<1>24. ASSUME NEW c \in Ota!Cmd, Ota!Extract(c) PROVE Ota!TypeOK'
  <2>1. v3' \in OtaCalls
    BY <1>0, <1>24, OtaGoes DEF Ota!Extract, Ota!Place
  <2>2. OtaPlain'
    BY <1>0, <1>24 DEF Ota!Extract, Ota!TypeOK, OtaPlain
  <2>3. QED
    BY <2>1, <2>2, Zenon DEF Ota!TypeOK, OtaCalls, OtaPlain
<1>25. ASSUME NEW c \in Ota!Cmd, Ota!Reboot(c) PROVE Ota!TypeOK'
  <2>1. /\ v1' \in [Ota!Dl -> {"idle", "locked", "made", "launched", "waits", "ok", "over", "moved",
                             "told", "unnamed", "unlock", "end"}]
        /\ v2' \in [Ota!Dl -> {"none", "connects", "writes", "ok", "failed", "killed"}]
    BY <1>25 DEF Ota!Reboot
  <2>a. v5' \in 0..Downloads /\ v4' \in 0..Downloads + Commands /\ v6' \in Ota!Image /\ v7' \in Ota!Image
    BY <1>0, <1>25 DEF Ota!Reboot
  <2>2. v3' \in OtaCalls
    <3> DEFINE Call == [kind : Ota!Kind \cup {"none"}, at : Ota!Place, of : SUBSET Ota!Dl]
    <3>1. v3' = [e \in Ota!Cmd |-> [v3[e] EXCEPT !.at = "end"]]
      BY <1>25, Zenon DEF Ota!Reboot
    <3>2. v3 \in [Ota!Cmd -> Call] /\ "end" \in Ota!Place
      BY <1>0 DEF Ota!TypeOK, Ota!Place
    <3>3. ASSUME NEW e \in Ota!Cmd PROVE [v3[e] EXCEPT !.at = "end"] \in Call
      <4>1. v3[e] \in Call
        BY <3>2, Zenon
      <4>2. QED
        BY <4>1, <3>2
    <3>4. QED
      BY <3>1, <3>3, Zenon DEF OtaCalls
  <2>3. QED
    BY <1>0, <1>25, <2>1, <2>2, <2>a DEF Ota!Reboot, Ota!TypeOK, OtaCalls
<1>26. ASSUME NEW c \in Ota!Cmd, NEW kind \in Ota!Kind, Ota!Begin(c, kind) PROVE Ota!TypeOK'
  BY <1>0, <1>26 DEF Ota!Begin, Ota!Named, Ota!Kind, Ota!Place, Ota!TypeOK
<1>27. QED
  BY <1>1, <1>2, <1>3, <1>4, <1>5, <1>6, <1>7, <1>8, <1>9, <1>10, <1>11, <1>12, <1>13, <1>14, <1>15, <1>16, <1>17, <1>18, <1>19, <1>20, <1>21, <1>22, <1>23, <1>24, <1>25, <1>26
     DEF Ota!Next, Ota!Scripts, Ota!Download, Ota!Command, Ota!Curls, Ota!Curl, Ota!Calls

\* A download and a command are told apart by who has the lock.
LEMMA DownloadsFirst ==
  \A c \in 1..Commands : Downloads + c # 0 /\ \A d \in 1..Downloads : Downloads + c # d
  BY OtaAssumption


\* Nobody is given the lock that another one has.
LEMMA OtaHolding ==
  ASSUME Ota!TypeOK, Ota!Holding, Ota!Next
  PROVE  Ota!Holding'
<1> USE OtaAssumption, SharedAssumption DEF Ota!files, Ota!history, Ota!At, Ota!Go, Ota!Is, Ota!Dl, Ota!Cmd
<1>0. Ota!TypeOK /\ Ota!Holding
  OBVIOUS
<1>1. ASSUME NEW d \in Ota!Dl, Ota!Start(d) PROVE Ota!Holding'
  <2>1. CASE v4 = 0
    <3>1. /\ \A e \in 1..Downloads : ~Ota!HasLock(e)
          /\ \A c \in 1..Commands : v3[c].at # "version"
      BY <1>0, <2>1, DownloadsFirst DEF Ota!Holding
    <3>2. /\ v1' = [v1 EXCEPT ![d] = "locked"] /\ v4' = d /\ v2' = v2 /\ v3' = v3 /\ v1[d] = "idle"
      BY <1>1, <2>1 DEF Ota!Start, Ota!Take
    <3>3. QED
      BY <1>0, <3>1, <3>2 DEF Ota!TypeOK, Ota!Holding, Ota!HasLock, Ota!Runs
  <2>2. CASE v4 # 0
    <3>1. /\ v1' = [v1 EXCEPT ![d] = "end"] /\ v4' = v4 /\ v2' = v2 /\ v3' = v3 /\ v1[d] = "idle"
      BY <1>1, <2>2 DEF Ota!Start, Ota!Take
    <3>2. QED
      BY <1>0, <3>1 DEF Ota!TypeOK, Ota!Holding, Ota!HasLock, Ota!Runs
  <2>3. QED
    BY <2>1, <2>2
<1>2. ASSUME NEW d \in Ota!Dl, Ota!Crash(d) PROVE Ota!Holding'
  BY <1>0, <1>2 DEF Ota!Crash, Ota!Left, Ota!Runs, Ota!TypeOK, Ota!Holding, Ota!HasLock
<1>3. ASSUME NEW d \in Ota!Dl, Ota!Make(d) PROVE Ota!Holding'
  BY <1>0, <1>3 DEF Ota!Make, Ota!TypeOK, Ota!Holding, Ota!HasLock, Ota!Runs
<1>4. ASSUME NEW d \in Ota!Dl, Ota!Launch(d) PROVE Ota!Holding'
  BY <1>0, <1>4 DEF Ota!Launch, Ota!TypeOK, Ota!Holding, Ota!HasLock, Ota!Runs
<1>5. ASSUME NEW d \in Ota!Dl, Ota!Name(d) PROVE Ota!Holding'
  BY <1>0, <1>5 DEF Ota!Name, Ota!TypeOK, Ota!Holding, Ota!HasLock, Ota!Runs
<1>6. ASSUME NEW d \in Ota!Dl, Ota!Ended(d) PROVE Ota!Holding'
  BY <1>0, <1>6 DEF Ota!Ended, Ota!TypeOK, Ota!Holding, Ota!HasLock, Ota!Runs
<1>7. ASSUME NEW d \in Ota!Dl, Ota!Complete(d) PROVE Ota!Holding'
  BY <1>0, <1>7 DEF Ota!Complete, Ota!TypeOK, Ota!Holding, Ota!HasLock, Ota!Runs
<1>8. ASSUME NEW d \in Ota!Dl, Ota!Move(d) PROVE Ota!Holding'
  BY <1>0, <1>8 DEF Ota!Move, Ota!TypeOK, Ota!Holding, Ota!HasLock, Ota!Runs
<1>9. ASSUME NEW d \in Ota!Dl, Ota!Hide(d) PROVE Ota!Holding'
  BY <1>0, <1>9 DEF Ota!Hide, Ota!TypeOK, Ota!Holding, Ota!HasLock, Ota!Runs
<1>10. ASSUME NEW d \in Ota!Dl, Ota!Failed(d) PROVE Ota!Holding'
  BY <1>0, <1>10 DEF Ota!Failed, Ota!TypeOK, Ota!Holding, Ota!HasLock, Ota!Runs
<1>11. ASSUME NEW d \in Ota!Dl, Ota!Unname(d) PROVE Ota!Holding'
  BY <1>0, <1>11 DEF Ota!Unname, Ota!TypeOK, Ota!Holding, Ota!HasLock, Ota!Runs
<1>12. ASSUME NEW d \in Ota!Dl, Ota!Discard(d) PROVE Ota!Holding'
  BY <1>0, <1>12 DEF Ota!Discard, Ota!TypeOK, Ota!Holding, Ota!HasLock, Ota!Runs
<1>13. ASSUME NEW d \in Ota!Dl, Ota!Unlock(d) PROVE Ota!Holding'
  <2>1. v4 = d /\ ~Ota!Runs(d)
    BY <1>0, <1>13 DEF Ota!Unlock, Ota!Holding, Ota!HasLock
  <2>2. /\ \A e \in 1..Downloads : Ota!HasLock(e) => e = d
        /\ \A c \in 1..Commands : v3[c].at # "version"
    BY <1>0, <2>1, DownloadsFirst DEF Ota!Holding
  <2>3. /\ v1' = [v1 EXCEPT ![d] = "end"] /\ v4' = 0 /\ v2' = v2 /\ v3' = v3
    BY <1>13 DEF Ota!Unlock
  <2>4. QED
    BY <1>0, <2>1, <2>2, <2>3 DEF Ota!TypeOK, Ota!Holding, Ota!HasLock, Ota!Runs
<1>14. ASSUME NEW d \in Ota!Dl, Ota!Open(d) PROVE Ota!Holding'
  BY <1>0, <1>14 DEF Ota!Open, Ota!TypeOK, Ota!Holding, Ota!HasLock, Ota!Runs
<1>15. ASSUME NEW d \in Ota!Dl, Ota!Finish(d) PROVE Ota!Holding'
  BY <1>0, <1>15 DEF Ota!Finish, Ota!Over, Ota!TypeOK, Ota!Holding, Ota!HasLock, Ota!Runs
<1>16. ASSUME NEW d \in Ota!Dl, Ota!Break(d) PROVE Ota!Holding'
  BY <1>0, <1>16 DEF Ota!Break, Ota!Over, Ota!Runs, Ota!TypeOK, Ota!Holding, Ota!HasLock
<1>17. ASSUME NEW c \in Ota!Cmd, Ota!Look(c) PROVE Ota!Holding'
  <2>0. /\ v1' = v1 /\ v3' \in OtaCalls /\ v3'[c].at # "version"
        /\ \A e \in Ota!Cmd : e # c => v3'[e] = v3[e]
    BY <1>0, <1>17, OtaGoes DEF Ota!Look, Ota!Place
  <2>1. CASE v5 # 0 /\ Ota!Runs(v5)
    <3>1. v5 \in 1..Downloads /\ v4 = v5
      BY <1>0, <2>1 DEF Ota!TypeOK, Ota!Holding, Ota!HasLock
    <3>2. v2' = [v2 EXCEPT ![v5] = "killed"] /\ v4' = (IF v1[v5] = "end" THEN 0 ELSE v4)
      BY <1>17, <2>1, <3>1 DEF Ota!Look, Ota!Over
    <3>3. \A e \in 1..Commands : v3[e].at # "version"
      BY <1>0, <3>1, DownloadsFirst DEF Ota!Holding
    <3>4. \A e \in 1..Commands : v3'[e].at # "version"
      BY <2>0, <3>3
    <3>5. QED
      BY <1>0, <2>0, <2>1, <3>1, <3>2, <3>4 DEF Ota!TypeOK, Ota!Holding, Ota!HasLock, Ota!Runs
  <2>2. CASE ~(v5 # 0 /\ Ota!Runs(v5))
    <3>1. v2' = v2 /\ v4' = v4
      BY <1>17, <2>2 DEF Ota!Look
    <3>2. QED
      BY <1>0, <2>0, <3>1 DEF Ota!TypeOK, Ota!Holding, Ota!HasLock, Ota!Runs
  <2>3. QED
    BY <2>1, <2>2
<1>18. ASSUME NEW c \in Ota!Cmd, Ota!Forget(c) PROVE Ota!Holding'
  BY <1>0, <1>18 DEF Ota!Forget, Ota!TypeOK, Ota!Holding, Ota!HasLock, Ota!Runs
<1>19. ASSUME NEW c \in Ota!Cmd, Ota!RemovePart(c) PROVE Ota!Holding'
  BY <1>0, <1>19 DEF Ota!RemovePart, Ota!Cancels, Ota!TypeOK, Ota!Holding, Ota!HasLock, Ota!Runs
<1>20. ASSUME NEW c \in Ota!Cmd, Ota!RemoveImage(c) PROVE Ota!Holding'
  BY <1>0, <1>20 DEF Ota!RemoveImage, Ota!TypeOK, Ota!Holding, Ota!HasLock, Ota!Runs
<1>21. ASSUME NEW c \in Ota!Cmd, Ota!RemoveProgress(c) PROVE Ota!Holding'
  BY <1>0, <1>21 DEF Ota!RemoveProgress, Ota!Cancels, Ota!TypeOK, Ota!Holding, Ota!HasLock, Ota!Runs
<1>22. ASSUME NEW c \in Ota!Cmd, Ota!CheckLock(c) PROVE Ota!Holding'
  <2>1. CASE v4 = 0
    <3>1. /\ \A e \in 1..Downloads : ~Ota!HasLock(e)
          /\ \A e \in 1..Commands : v3[e].at # "version"
      BY <1>0, <2>1, DownloadsFirst DEF Ota!Holding
    <3>2. v3' = [v3 EXCEPT ![c].at = "version"] /\ v4' = Downloads + c /\ v1' = v1 /\ v2' = v2
      BY <1>22, <2>1 DEF Ota!CheckLock
    <3>3. QED
      BY <1>0, <3>1, <3>2 DEF Ota!TypeOK, Ota!Holding, Ota!HasLock, Ota!Runs
  <2>2. CASE v4 # 0
    <3>1. v3' = [v3 EXCEPT ![c].at = "end"] /\ v4' = v4 /\ v1' = v1 /\ v2' = v2
      BY <1>22, <2>2 DEF Ota!CheckLock
    <3>2. QED
      BY <1>0, <3>1 DEF Ota!TypeOK, Ota!Holding, Ota!HasLock, Ota!Runs
  <2>3. QED
    BY <2>1, <2>2
<1>23. ASSUME NEW c \in Ota!Cmd, Ota!CheckVersion(c) PROVE Ota!Holding'
  BY <1>0, <1>23 DEF Ota!CheckVersion, Ota!TypeOK, Ota!Holding, Ota!HasLock, Ota!Runs
<1>24. ASSUME NEW c \in Ota!Cmd, Ota!Extract(c) PROVE Ota!Holding'
  <2>1. /\ v1' = v1 /\ v2' = v2 /\ v4' = v4 /\ v3'[c].at # "version"
        /\ \A e \in Ota!Cmd : e # c => v3'[e] = v3[e]
    BY <1>0, <1>24, OtaGoes DEF Ota!Extract, Ota!Place
  <2>2. QED
    BY <1>0, <2>1 DEF Ota!TypeOK, Ota!Holding, Ota!HasLock, Ota!Runs
<1>25. ASSUME NEW c \in Ota!Cmd, Ota!Reboot(c) PROVE Ota!Holding'
  BY <1>0, <1>25 DEF Ota!Reboot, Ota!TypeOK, Ota!Holding, Ota!HasLock, Ota!Runs
<1>26. ASSUME NEW c \in Ota!Cmd, NEW kind \in Ota!Kind, Ota!Begin(c, kind) PROVE Ota!Holding'
  BY <1>0, <1>26 DEF Ota!Begin, Ota!Named, Ota!TypeOK, Ota!Holding, Ota!HasLock, Ota!Runs
<1>27. QED
  BY <1>1, <1>2, <1>3, <1>4, <1>5, <1>6, <1>7, <1>8, <1>9, <1>10, <1>11, <1>12, <1>13, <1>14, <1>15, <1>16, <1>17, <1>18, <1>19, <1>20, <1>21, <1>22, <1>23, <1>24, <1>25, <1>26
     DEF Ota!Next, Ota!Scripts, Ota!Download, Ota!Command, Ota!Curls, Ota!Curl, Ota!Calls


\* What is moved in place is whole, or nothing.
LEMMA OtaAllThere ==
  ASSUME Ota!TypeOK, Ota!Holding, Ota!AllThere, Ota!Whole, Ota!Next
  PROVE  (Ota!AllThere /\ Ota!Whole)'
<1> USE OtaAssumption, SharedAssumption DEF Ota!files, Ota!history, Ota!At, Ota!Go, Ota!Is, Ota!Dl, Ota!Cmd
<1>0. Ota!TypeOK /\ Ota!Holding /\ Ota!AllThere /\ Ota!Whole
  OBVIOUS
<1>a. Ota!None \in Ota!Image /\ Ota!None.by = 0
  BY OtaImages
<1>1. ASSUME NEW d \in Ota!Dl, Ota!Start(d) PROVE (Ota!AllThere /\ Ota!Whole)'
  BY <1>0, <1>1 DEF Ota!Start, Ota!Take, Ota!Busy, Ota!TypeOK, Ota!Holding, Ota!HasLock, Ota!Runs, Ota!AllThere, Ota!Whole
<1>2. ASSUME NEW d \in Ota!Dl, Ota!Crash(d) PROVE (Ota!AllThere /\ Ota!Whole)'
  BY <1>0, <1>2 DEF Ota!Crash, Ota!Left, Ota!Runs, Ota!TypeOK, Ota!Holding, Ota!HasLock, Ota!AllThere, Ota!Whole
<1>3. ASSUME NEW d \in Ota!Dl, Ota!Make(d) PROVE (Ota!AllThere /\ Ota!Whole)'
  BY <1>0, <1>3 DEF Ota!Make, Ota!TypeOK, Ota!Holding, Ota!HasLock, Ota!Runs, Ota!AllThere, Ota!Whole
<1>4. ASSUME NEW d \in Ota!Dl, Ota!Launch(d) PROVE (Ota!AllThere /\ Ota!Whole)'
  BY <1>0, <1>4 DEF Ota!Launch, Ota!TypeOK, Ota!Holding, Ota!HasLock, Ota!Runs, Ota!AllThere, Ota!Whole
<1>5. ASSUME NEW d \in Ota!Dl, Ota!Name(d) PROVE (Ota!AllThere /\ Ota!Whole)'
  BY <1>0, <1>5 DEF Ota!Name, Ota!TypeOK, Ota!Holding, Ota!HasLock, Ota!Runs, Ota!AllThere, Ota!Whole
<1>6. ASSUME NEW d \in Ota!Dl, Ota!Ended(d) PROVE (Ota!AllThere /\ Ota!Whole)'
  BY <1>0, <1>6 DEF Ota!Ended, Ota!TypeOK, Ota!Holding, Ota!HasLock, Ota!Runs, Ota!AllThere, Ota!Whole
<1>7. ASSUME NEW d \in Ota!Dl, Ota!Complete(d) PROVE (Ota!AllThere /\ Ota!Whole)'
  BY <1>0, <1>7 DEF Ota!Complete, Ota!TypeOK, Ota!Holding, Ota!HasLock, Ota!Runs, Ota!AllThere, Ota!Whole
<1>8. ASSUME NEW d \in Ota!Dl, Ota!Move(d) PROVE (Ota!AllThere /\ Ota!Whole)'
  BY <1>0, <1>8 DEF Ota!Move, Ota!TypeOK, Ota!Holding, Ota!HasLock, Ota!Runs, Ota!AllThere, Ota!Whole
<1>9. ASSUME NEW d \in Ota!Dl, Ota!Hide(d) PROVE (Ota!AllThere /\ Ota!Whole)'
  BY <1>0, <1>9 DEF Ota!Hide, Ota!TypeOK, Ota!Holding, Ota!HasLock, Ota!Runs, Ota!AllThere, Ota!Whole
<1>10. ASSUME NEW d \in Ota!Dl, Ota!Failed(d) PROVE (Ota!AllThere /\ Ota!Whole)'
  BY <1>0, <1>10 DEF Ota!Failed, Ota!TypeOK, Ota!Holding, Ota!HasLock, Ota!Runs, Ota!AllThere, Ota!Whole
<1>11. ASSUME NEW d \in Ota!Dl, Ota!Unname(d) PROVE (Ota!AllThere /\ Ota!Whole)'
  BY <1>0, <1>11 DEF Ota!Unname, Ota!TypeOK, Ota!Holding, Ota!HasLock, Ota!Runs, Ota!AllThere, Ota!Whole
<1>12. ASSUME NEW d \in Ota!Dl, Ota!Discard(d) PROVE (Ota!AllThere /\ Ota!Whole)'
  BY <1>0, <1>12 DEF Ota!Discard, Ota!TypeOK, Ota!Holding, Ota!HasLock, Ota!Runs, Ota!AllThere, Ota!Whole
<1>13. ASSUME NEW d \in Ota!Dl, Ota!Unlock(d) PROVE (Ota!AllThere /\ Ota!Whole)'
  BY <1>0, <1>13 DEF Ota!Unlock, Ota!TypeOK, Ota!Holding, Ota!HasLock, Ota!Runs, Ota!AllThere, Ota!Whole
<1>14. ASSUME NEW d \in Ota!Dl, Ota!Open(d) PROVE (Ota!AllThere /\ Ota!Whole)'
  BY <1>0, <1>14 DEF Ota!Open, Ota!TypeOK, Ota!Holding, Ota!HasLock, Ota!Runs, Ota!AllThere, Ota!Whole
<1>15. ASSUME NEW d \in Ota!Dl, Ota!Finish(d) PROVE (Ota!AllThere /\ Ota!Whole)'
  BY <1>0, <1>15 DEF Ota!Finish, Ota!Over, Ota!TypeOK, Ota!Holding, Ota!HasLock, Ota!Runs, Ota!AllThere, Ota!Whole
<1>16. ASSUME NEW d \in Ota!Dl, Ota!Break(d) PROVE (Ota!AllThere /\ Ota!Whole)'
  BY <1>0, <1>16 DEF Ota!Break, Ota!Over, Ota!Runs, Ota!TypeOK, Ota!Holding, Ota!HasLock, Ota!AllThere, Ota!Whole
<1>17. ASSUME NEW c \in Ota!Cmd, Ota!Look(c) PROVE (Ota!AllThere /\ Ota!Whole)'
  <2>1. Ota!AllThere'
    BY <1>0, <1>17 DEF Ota!Look, Ota!Over, Ota!Runs, Ota!Cancels, Ota!TypeOK, Ota!Holding, Ota!HasLock, Ota!AllThere
  <2>2. Ota!Whole'
    BY <1>0, <1>17 DEF Ota!Look, Ota!Over, Ota!Runs, Ota!Cancels, Ota!TypeOK, Ota!Holding, Ota!HasLock, Ota!Whole
  <2>3. QED
    BY <2>1, <2>2
<1>18. ASSUME NEW c \in Ota!Cmd, Ota!Forget(c) PROVE (Ota!AllThere /\ Ota!Whole)'
  BY <1>0, <1>18 DEF Ota!Forget, Ota!TypeOK, Ota!Holding, Ota!HasLock, Ota!Runs, Ota!AllThere, Ota!Whole
<1>19. ASSUME NEW c \in Ota!Cmd, Ota!RemovePart(c) PROVE (Ota!AllThere /\ Ota!Whole)'
  BY <1>0, <1>19 DEF Ota!RemovePart, Ota!Cancels, Ota!TypeOK, Ota!Holding, Ota!HasLock, Ota!Runs, Ota!AllThere, Ota!Whole
<1>20. ASSUME NEW c \in Ota!Cmd, Ota!RemoveImage(c) PROVE (Ota!AllThere /\ Ota!Whole)'
  BY <1>0, <1>20 DEF Ota!RemoveImage, Ota!TypeOK, Ota!Holding, Ota!HasLock, Ota!Runs, Ota!AllThere, Ota!Whole
<1>21. ASSUME NEW c \in Ota!Cmd, Ota!RemoveProgress(c) PROVE (Ota!AllThere /\ Ota!Whole)'
  BY <1>0, <1>21 DEF Ota!RemoveProgress, Ota!Cancels, Ota!TypeOK, Ota!Holding, Ota!HasLock, Ota!Runs, Ota!AllThere, Ota!Whole
<1>22. ASSUME NEW c \in Ota!Cmd, Ota!CheckLock(c) PROVE (Ota!AllThere /\ Ota!Whole)'
  BY <1>0, <1>22 DEF Ota!CheckLock, Ota!TypeOK, Ota!Holding, Ota!HasLock, Ota!Runs, Ota!AllThere, Ota!Whole
<1>23. ASSUME NEW c \in Ota!Cmd, Ota!CheckVersion(c) PROVE (Ota!AllThere /\ Ota!Whole)'
  BY <1>0, <1>23 DEF Ota!CheckVersion, Ota!TypeOK, Ota!Holding, Ota!HasLock, Ota!Runs, Ota!AllThere, Ota!Whole
<1>24. ASSUME NEW c \in Ota!Cmd, Ota!Extract(c) PROVE (Ota!AllThere /\ Ota!Whole)'
  BY <1>0, <1>24 DEF Ota!Extract, Ota!TypeOK, Ota!Holding, Ota!HasLock, Ota!Runs, Ota!AllThere, Ota!Whole
<1>25. ASSUME NEW c \in Ota!Cmd, Ota!Reboot(c) PROVE (Ota!AllThere /\ Ota!Whole)'
  BY <1>0, <1>25 DEF Ota!Reboot, Ota!TypeOK, Ota!Holding, Ota!HasLock, Ota!Runs, Ota!AllThere, Ota!Whole
<1>26. ASSUME NEW c \in Ota!Cmd, NEW kind \in Ota!Kind, Ota!Begin(c, kind) PROVE (Ota!AllThere /\ Ota!Whole)'
  BY <1>0, <1>26 DEF Ota!Begin, Ota!Named, Ota!TypeOK, Ota!Holding, Ota!HasLock, Ota!Runs, Ota!AllThere, Ota!Whole
<1>27. QED
  BY <1>1, <1>2, <1>3, <1>4, <1>5, <1>6, <1>7, <1>8, <1>9, <1>10, <1>11, <1>12, <1>13, <1>14, <1>15, <1>16, <1>17, <1>18, <1>19, <1>20, <1>21, <1>22, <1>23, <1>24, <1>25, <1>26
     DEF Ota!Next, Ota!Scripts, Ota!Download, Ota!Command, Ota!Curls, Ota!Curl, Ota!Calls


\* What leaves the last place at which the page waits has told it of the end.
LEMMA OtaWaited ==
  ASSUME Ota!TypeOK, Ota!Holding, Ota!Waited, Ota!Next
  PROVE  Ota!Waited'
<1> USE OtaAssumption, SharedAssumption DEF Ota!files, Ota!history, Ota!At, Ota!Go, Ota!Is, Ota!Dl, Ota!Cmd
<1>0. Ota!TypeOK /\ Ota!Holding /\ Ota!Waited
  OBVIOUS
<1>1. ASSUME NEW d \in Ota!Dl, Ota!Start(d) PROVE Ota!Waited'
  BY <1>0, <1>1 DEF Ota!Start, Ota!Take, Ota!Busy, Ota!TypeOK, Ota!Holding, Ota!HasLock, Ota!Runs, Ota!Waited
<1>2. ASSUME NEW d \in Ota!Dl, Ota!Crash(d) PROVE Ota!Waited'
  BY <1>0, <1>2 DEF Ota!Crash, Ota!Left, Ota!Runs, Ota!TypeOK, Ota!Holding, Ota!HasLock, Ota!Waited
<1>3. ASSUME NEW d \in Ota!Dl, Ota!Make(d) PROVE Ota!Waited'
  BY <1>0, <1>3 DEF Ota!Make, Ota!TypeOK, Ota!Holding, Ota!HasLock, Ota!Runs, Ota!Waited
<1>4. ASSUME NEW d \in Ota!Dl, Ota!Launch(d) PROVE Ota!Waited'
  BY <1>0, <1>4 DEF Ota!Launch, Ota!TypeOK, Ota!Holding, Ota!HasLock, Ota!Runs, Ota!Waited
<1>5. ASSUME NEW d \in Ota!Dl, Ota!Name(d) PROVE Ota!Waited'
  BY <1>0, <1>5 DEF Ota!Name, Ota!TypeOK, Ota!Holding, Ota!HasLock, Ota!Runs, Ota!Waited
<1>6. ASSUME NEW d \in Ota!Dl, Ota!Ended(d) PROVE Ota!Waited'
  BY <1>0, <1>6 DEF Ota!Ended, Ota!TypeOK, Ota!Holding, Ota!HasLock, Ota!Runs, Ota!Waited
<1>7. ASSUME NEW d \in Ota!Dl, Ota!Complete(d) PROVE Ota!Waited'
  BY <1>0, <1>7 DEF Ota!Complete, Ota!TypeOK, Ota!Holding, Ota!HasLock, Ota!Runs, Ota!Waited
<1>8. ASSUME NEW d \in Ota!Dl, Ota!Move(d) PROVE Ota!Waited'
  BY <1>0, <1>8 DEF Ota!Move, Ota!TypeOK, Ota!Holding, Ota!HasLock, Ota!Runs, Ota!Waited
<1>9. ASSUME NEW d \in Ota!Dl, Ota!Hide(d) PROVE Ota!Waited'
  BY <1>0, <1>9 DEF Ota!Hide, Ota!TypeOK, Ota!Holding, Ota!HasLock, Ota!Runs, Ota!Waited
<1>10. ASSUME NEW d \in Ota!Dl, Ota!Failed(d) PROVE Ota!Waited'
  BY <1>0, <1>10 DEF Ota!Failed, Ota!TypeOK, Ota!Holding, Ota!HasLock, Ota!Runs, Ota!Waited
<1>11. ASSUME NEW d \in Ota!Dl, Ota!Unname(d) PROVE Ota!Waited'
  BY <1>0, <1>11 DEF Ota!Unname, Ota!TypeOK, Ota!Holding, Ota!HasLock, Ota!Runs, Ota!Waited
<1>12. ASSUME NEW d \in Ota!Dl, Ota!Discard(d) PROVE Ota!Waited'
  BY <1>0, <1>12 DEF Ota!Discard, Ota!TypeOK, Ota!Holding, Ota!HasLock, Ota!Runs, Ota!Waited
<1>13. ASSUME NEW d \in Ota!Dl, Ota!Unlock(d) PROVE Ota!Waited'
  BY <1>0, <1>13 DEF Ota!Unlock, Ota!TypeOK, Ota!Holding, Ota!HasLock, Ota!Runs, Ota!Waited
<1>14. ASSUME NEW d \in Ota!Dl, Ota!Open(d) PROVE Ota!Waited'
  BY <1>0, <1>14 DEF Ota!Open, Ota!TypeOK, Ota!Holding, Ota!HasLock, Ota!Runs, Ota!Waited
<1>15. ASSUME NEW d \in Ota!Dl, Ota!Finish(d) PROVE Ota!Waited'
  BY <1>0, <1>15 DEF Ota!Finish, Ota!Over, Ota!TypeOK, Ota!Holding, Ota!HasLock, Ota!Runs, Ota!Waited
<1>16. ASSUME NEW d \in Ota!Dl, Ota!Break(d) PROVE Ota!Waited'
  BY <1>0, <1>16 DEF Ota!Break, Ota!Over, Ota!Runs, Ota!TypeOK, Ota!Holding, Ota!HasLock, Ota!Waited
<1>17. ASSUME NEW c \in Ota!Cmd, Ota!Look(c) PROVE Ota!Waited'
  BY <1>0, <1>17 DEF Ota!Look, Ota!Over, Ota!Runs, Ota!Cancels, Ota!TypeOK, Ota!Holding, Ota!HasLock, Ota!Waited
<1>18. ASSUME NEW c \in Ota!Cmd, Ota!Forget(c) PROVE Ota!Waited'
  BY <1>0, <1>18 DEF Ota!Forget, Ota!TypeOK, Ota!Holding, Ota!HasLock, Ota!Runs, Ota!Waited
<1>19. ASSUME NEW c \in Ota!Cmd, Ota!RemovePart(c) PROVE Ota!Waited'
  BY <1>0, <1>19 DEF Ota!RemovePart, Ota!Cancels, Ota!TypeOK, Ota!Holding, Ota!HasLock, Ota!Runs, Ota!Waited
<1>20. ASSUME NEW c \in Ota!Cmd, Ota!RemoveImage(c) PROVE Ota!Waited'
  BY <1>0, <1>20 DEF Ota!RemoveImage, Ota!TypeOK, Ota!Holding, Ota!HasLock, Ota!Runs, Ota!Waited
<1>21. ASSUME NEW c \in Ota!Cmd, Ota!RemoveProgress(c) PROVE Ota!Waited'
  BY <1>0, <1>21 DEF Ota!RemoveProgress, Ota!Cancels, Ota!TypeOK, Ota!Holding, Ota!HasLock, Ota!Runs, Ota!Waited
<1>22. ASSUME NEW c \in Ota!Cmd, Ota!CheckLock(c) PROVE Ota!Waited'
  BY <1>0, <1>22 DEF Ota!CheckLock, Ota!TypeOK, Ota!Holding, Ota!HasLock, Ota!Runs, Ota!Waited
<1>23. ASSUME NEW c \in Ota!Cmd, Ota!CheckVersion(c) PROVE Ota!Waited'
  BY <1>0, <1>23 DEF Ota!CheckVersion, Ota!TypeOK, Ota!Holding, Ota!HasLock, Ota!Runs, Ota!Waited
<1>24. ASSUME NEW c \in Ota!Cmd, Ota!Extract(c) PROVE Ota!Waited'
  BY <1>0, <1>24 DEF Ota!Extract, Ota!TypeOK, Ota!Holding, Ota!HasLock, Ota!Runs, Ota!Waited
<1>25. ASSUME NEW c \in Ota!Cmd, Ota!Reboot(c) PROVE Ota!Waited'
  BY <1>0, <1>25 DEF Ota!Reboot, Ota!TypeOK, Ota!Holding, Ota!HasLock, Ota!Runs, Ota!Waited
<1>26. ASSUME NEW c \in Ota!Cmd, NEW kind \in Ota!Kind, Ota!Begin(c, kind) PROVE Ota!Waited'
  BY <1>0, <1>26 DEF Ota!Begin, Ota!Named, Ota!TypeOK, Ota!Holding, Ota!HasLock, Ota!Runs, Ota!Waited
<1>27. QED
  BY <1>1, <1>2, <1>3, <1>4, <1>5, <1>6, <1>7, <1>8, <1>9, <1>10, <1>11, <1>12, <1>13, <1>14, <1>15, <1>16, <1>17, <1>18, <1>19, <1>20, <1>21, <1>22, <1>23, <1>24, <1>25, <1>26
     DEF Ota!Next, Ota!Scripts, Ota!Download, Ota!Command, Ota!Curls, Ota!Curl, Ota!Calls

\* A command goes on, and what a cancel relies on stays; before it removes a
\* file no download waits for a curl.
LEMMA OtaGoesOn ==
  ASSUME Ota!TypeOK, Ota!Cancelling, v3' \in OtaCalls, NEW c \in Ota!Cmd,
         v3[c].at # "end", v3'[c].at \notin {"img", "progress"},
         v3'[c].of = v3[c].of /\ v3'[c].kind = v3[c].kind,
         \A e \in Ota!Cmd : e # c => v3'[e] = v3[e],
         v1' = v1, v5' = v5, v6' = v6, v7' = v7, v10' = v10, v11' = v11,
         v2' = v2 \/ \E d \in Ota!Dl : Ota!Runs(d) /\ v2' = [v2 EXCEPT ![d] = "killed"],
         ~v11 /\ v3'[c].at \in {"unname", "part"} => \A d \in Ota!Dl : ~Ota!WaitsFor(d)'
  PROVE  Ota!Cancelling'
<1>1. Ota!Named' = Ota!Named /\ (Ota!Starting' <=> Ota!Starting)
  BY DEF Ota!Named, Ota!Starting
<1>2. Ota!Busy' => Ota!Busy
  BY DEF Ota!Busy
<1>3. \A d \in Ota!Dl : Ota!Dead(d) => Ota!Dead(d)'
  BY DEF Ota!Dead, Ota!Runs, Ota!TypeOK
<1>4. \A d \in Ota!Dl : (Ota!WaitsFor(d)' => Ota!WaitsFor(d)) /\ (Ota!NotOf(d)' <=> Ota!NotOf(d))
  BY DEF Ota!WaitsFor, Ota!Runs, Ota!NotOf, Ota!TypeOK
<1>5. \A e \in Ota!Cmd : v3'[e].of \subseteq Ota!Named' /\ (~Ota!Cancels(e)' => v3'[e].of = {})
  BY <1>1 DEF Ota!Cancelling, Ota!Cancels
<1>6. \A e \in Ota!Cmd : v3[e].of \subseteq Ota!Dl
  BY DEF Ota!TypeOK
<1>7. ASSUME ~v11
      PROVE  /\ Ota!Busy' => ~Ota!Starting'
             /\ \A d \in Ota!Dl : Ota!WaitsFor(d)' => v5' = d
             /\ \A e \in Ota!Cmd : v3'[e].at \in {"unname", "part"} => \A d \in Ota!Dl : ~Ota!WaitsFor(d)'
             /\ \A e \in Ota!Cmd : v3'[e].at \in {"img", "progress"} => \A d \in v3'[e].of : Ota!Dead(d)'
             /\ \A e \in Ota!Cmd : v3'[e].at = "progress" => \A d \in v3'[e].of : Ota!NotOf(d)'
             /\ \A d \in v10' : Ota!Dead(d)' /\ Ota!NotOf(d)'
  <2>1. Ota!Busy' => ~Ota!Starting'
    BY <1>7, <1>1, <1>2 DEF Ota!Cancelling
  <2>2. \A d \in Ota!Dl : Ota!WaitsFor(d)' => v5' = d
    BY <1>7, <1>4 DEF Ota!Cancelling
  <2>3. \A e \in Ota!Cmd : v3'[e].at \in {"unname", "part"} => \A d \in Ota!Dl : ~Ota!WaitsFor(d)'
    BY <1>7, <1>4 DEF Ota!Cancelling
  <2>4. \A e \in Ota!Cmd : v3'[e].at \in {"img", "progress"} => \A d \in v3'[e].of : Ota!Dead(d)'
    BY <1>7, <1>3, <1>6 DEF Ota!Cancelling
  <2>5. \A e \in Ota!Cmd : v3'[e].at = "progress" => \A d \in v3'[e].of : Ota!NotOf(d)'
    BY <1>7, <1>4, <1>6 DEF Ota!Cancelling
  <2>6. \A d \in v10' : Ota!Dead(d)' /\ Ota!NotOf(d)'
    BY <1>7, <1>3, <1>4 DEF Ota!Cancelling, Ota!TypeOK
  <2>7. QED
    BY <2>1, <2>2, <2>3, <2>4, <2>5, <2>6
<1>8. QED
  BY <1>5, <1>7 DEF Ota!Cancelling


\* What a cancel was to end moves nothing in place after it.
LEMMA OtaCancelling ==
  ASSUME Ota!TypeOK, Ota!Holding, Ota!AllThere, Ota!Cancelling, Ota!Next
  PROVE  Ota!Cancelling'
<1> USE OtaAssumption, SharedAssumption DEF Ota!files, Ota!history, Ota!At, Ota!Go, Ota!Is, Ota!Dl, Ota!Cmd
<1>0. Ota!TypeOK /\ Ota!Holding /\ Ota!AllThere /\ Ota!Cancelling
  OBVIOUS
<1>a. Ota!None \in Ota!Image /\ Ota!None.by = 0
  BY OtaImages
<1>1. ASSUME NEW d \in Ota!Dl, Ota!Start(d) PROVE Ota!Cancelling'
  <2>1. /\ v1[d] = "idle" /\ \E to \in {"locked", "end"} : v1' = [v1 EXCEPT ![d] = to]
        /\ v11' = (v11 \/ Ota!Busy)
        /\ v2' = v2 /\ v3' = v3 /\ v5' = v5 /\ v6' = v6 /\ v7' = v7 /\ v10' = v10
    BY <1>1 DEF Ota!Start, Ota!Take
  <2>2. ~v11' => ~v11 /\ ~Ota!Busy
    BY <2>1
  <2>3. Ota!Busy' <=> Ota!Busy
    BY <2>1 DEF Ota!Busy
  <2>4. Ota!Named \subseteq Ota!Named'
    BY <1>0, <2>1 DEF Ota!Named, Ota!TypeOK
  <2>5. \A e \in Ota!Dl : Ota!Dead(e) => Ota!Dead(e)'
    BY <1>0, <2>1 DEF Ota!Dead, Ota!TypeOK
  <2>6. \A e \in Ota!Dl : (Ota!WaitsFor(e)' => Ota!WaitsFor(e)) /\ (Ota!NotOf(e)' <=> Ota!NotOf(e))
    BY <1>0, <2>1 DEF Ota!WaitsFor, Ota!NotOf, Ota!Runs, Ota!TypeOK
  <2>7. QED
    BY <1>0, <2>1, <2>2, <2>3, <2>4, <2>5, <2>6 DEF Ota!Cancelling, Ota!Cancels, Ota!TypeOK
<1>2. ASSUME NEW d \in Ota!Dl, Ota!Crash(d) PROVE Ota!Cancelling'
  BY <1>0, <1>2 DEF Ota!Crash, Ota!Left, Ota!Runs, Ota!TypeOK, Ota!Holding, Ota!AllThere, Ota!HasLock, Ota!Cancelling, Ota!Dead, Ota!WaitsFor, Ota!NotOf, Ota!Named, Ota!Starting, Ota!Busy, Ota!Cancels
<1>3. ASSUME NEW d \in Ota!Dl, Ota!Make(d) PROVE Ota!Cancelling'
  BY <1>0, <1>3 DEF Ota!Make, Ota!TypeOK, Ota!Holding, Ota!AllThere, Ota!HasLock, Ota!Runs, Ota!Cancelling, Ota!Dead, Ota!WaitsFor, Ota!NotOf, Ota!Named, Ota!Starting, Ota!Busy, Ota!Cancels
<1>4. ASSUME NEW d \in Ota!Dl, Ota!Launch(d) PROVE Ota!Cancelling'
  BY <1>0, <1>4 DEF Ota!Launch, Ota!TypeOK, Ota!Holding, Ota!AllThere, Ota!HasLock, Ota!Runs, Ota!Cancelling, Ota!Dead, Ota!WaitsFor, Ota!NotOf, Ota!Named, Ota!Starting, Ota!Busy, Ota!Cancels
<1>5. ASSUME NEW d \in Ota!Dl, Ota!Name(d) PROVE Ota!Cancelling'
  BY <1>0, <1>5 DEF Ota!Name, Ota!TypeOK, Ota!Holding, Ota!AllThere, Ota!HasLock, Ota!Runs, Ota!Cancelling, Ota!Dead, Ota!WaitsFor, Ota!NotOf, Ota!Named, Ota!Starting, Ota!Busy, Ota!Cancels
<1>6. ASSUME NEW d \in Ota!Dl, Ota!Ended(d) PROVE Ota!Cancelling'
  BY <1>0, <1>6 DEF Ota!Ended, Ota!TypeOK, Ota!Holding, Ota!AllThere, Ota!HasLock, Ota!Runs, Ota!Cancelling, Ota!Dead, Ota!WaitsFor, Ota!NotOf, Ota!Named, Ota!Starting, Ota!Busy, Ota!Cancels
<1>7. ASSUME NEW d \in Ota!Dl, Ota!Complete(d) PROVE Ota!Cancelling'
  BY <1>0, <1>7 DEF Ota!Complete, Ota!TypeOK, Ota!Holding, Ota!AllThere, Ota!HasLock, Ota!Runs, Ota!Cancelling, Ota!Dead, Ota!WaitsFor, Ota!NotOf, Ota!Named, Ota!Starting, Ota!Busy, Ota!Cancels
<1>8. ASSUME NEW d \in Ota!Dl, Ota!Move(d) PROVE Ota!Cancelling'
  BY <1>0, <1>8 DEF Ota!Move, Ota!TypeOK, Ota!Holding, Ota!AllThere, Ota!HasLock, Ota!Runs, Ota!Cancelling, Ota!Dead, Ota!WaitsFor, Ota!NotOf, Ota!Named, Ota!Starting, Ota!Busy, Ota!Cancels
<1>9. ASSUME NEW d \in Ota!Dl, Ota!Hide(d) PROVE Ota!Cancelling'
  BY <1>0, <1>9 DEF Ota!Hide, Ota!TypeOK, Ota!Holding, Ota!AllThere, Ota!HasLock, Ota!Runs, Ota!Cancelling, Ota!Dead, Ota!WaitsFor, Ota!NotOf, Ota!Named, Ota!Starting, Ota!Busy, Ota!Cancels
<1>10. ASSUME NEW d \in Ota!Dl, Ota!Failed(d) PROVE Ota!Cancelling'
  BY <1>0, <1>10 DEF Ota!Failed, Ota!TypeOK, Ota!Holding, Ota!AllThere, Ota!HasLock, Ota!Runs, Ota!Cancelling, Ota!Dead, Ota!WaitsFor, Ota!NotOf, Ota!Named, Ota!Starting, Ota!Busy, Ota!Cancels
<1>11. ASSUME NEW d \in Ota!Dl, Ota!Unname(d) PROVE Ota!Cancelling'
  BY <1>0, <1>11 DEF Ota!Unname, Ota!TypeOK, Ota!Holding, Ota!AllThere, Ota!HasLock, Ota!Runs, Ota!Cancelling, Ota!Dead, Ota!WaitsFor, Ota!NotOf, Ota!Named, Ota!Starting, Ota!Busy, Ota!Cancels
<1>12. ASSUME NEW d \in Ota!Dl, Ota!Discard(d) PROVE Ota!Cancelling'
  BY <1>0, <1>12 DEF Ota!Discard, Ota!TypeOK, Ota!Holding, Ota!AllThere, Ota!HasLock, Ota!Runs, Ota!Cancelling, Ota!Dead, Ota!WaitsFor, Ota!NotOf, Ota!Named, Ota!Starting, Ota!Busy, Ota!Cancels
<1>13. ASSUME NEW d \in Ota!Dl, Ota!Unlock(d) PROVE Ota!Cancelling'
  BY <1>0, <1>13 DEF Ota!Unlock, Ota!TypeOK, Ota!Holding, Ota!AllThere, Ota!HasLock, Ota!Runs, Ota!Cancelling, Ota!Dead, Ota!WaitsFor, Ota!NotOf, Ota!Named, Ota!Starting, Ota!Busy, Ota!Cancels
<1>14. ASSUME NEW d \in Ota!Dl, Ota!Open(d) PROVE Ota!Cancelling'
  BY <1>0, <1>14 DEF Ota!Open, Ota!TypeOK, Ota!Holding, Ota!AllThere, Ota!HasLock, Ota!Runs, Ota!Cancelling, Ota!Dead, Ota!WaitsFor, Ota!NotOf, Ota!Named, Ota!Starting, Ota!Busy, Ota!Cancels
<1>15. ASSUME NEW d \in Ota!Dl, Ota!Finish(d) PROVE Ota!Cancelling'
  BY <1>0, <1>15 DEF Ota!Finish, Ota!Over, Ota!TypeOK, Ota!Holding, Ota!AllThere, Ota!HasLock, Ota!Runs, Ota!Cancelling, Ota!Dead, Ota!WaitsFor, Ota!NotOf, Ota!Named, Ota!Starting, Ota!Busy, Ota!Cancels
<1>16. ASSUME NEW d \in Ota!Dl, Ota!Break(d) PROVE Ota!Cancelling'
  BY <1>0, <1>16 DEF Ota!Break, Ota!Over, Ota!Runs, Ota!TypeOK, Ota!Holding, Ota!AllThere, Ota!HasLock, Ota!Cancelling, Ota!Dead, Ota!WaitsFor, Ota!NotOf, Ota!Named, Ota!Starting, Ota!Busy, Ota!Cancels
<1>17. ASSUME NEW c \in Ota!Cmd, Ota!Look(c) PROVE Ota!Cancelling'
  <2>1. /\ v3' \in OtaCalls /\ v3'[c].at \in {"unname", "part", "lock"} /\ v3'[c].of = v3[c].of /\ v3'[c].kind = v3[c].kind
        /\ \A e \in Ota!Cmd : e # c => v3'[e] = v3[e]
        /\ v3[c].at = "look"
        /\ v1' = v1 /\ v5' = v5 /\ v6' = v6 /\ v7' = v7 /\ v10' = v10 /\ v11' = v11
    BY <1>0, <1>17, OtaGoes DEF Ota!Look, Ota!Place
  <2>2. CASE v5 # 0 /\ Ota!Runs(v5)
    <3>1. v5 \in Ota!Dl /\ v2' = [v2 EXCEPT ![v5] = "killed"]
      BY <1>0, <1>17, <2>2 DEF Ota!Look, Ota!Over, Ota!TypeOK
    <3>2. ~v11 => \A d \in Ota!Dl : ~(v1[d] = "waits" /\ v2'[d] \in {"connects", "writes"})
      BY <1>0, <2>2, <3>1 DEF Ota!Cancelling, Ota!WaitsFor, Ota!Runs, Ota!TypeOK
    <3>3. QED
      <4>1. ~v11 => \A d \in Ota!Dl : ~Ota!WaitsFor(d)'
        BY <2>1, <3>1, <3>2 DEF Ota!WaitsFor, Ota!Runs
      <4>2. v3'[c].at \notin {"img", "progress"} /\ v3[c].at # "end"
        BY <2>1
      <4>3. QED
        BY <1>0, <2>1, <2>2, <3>1, <4>1, <4>2, OtaGoesOn, Zenon
  <2>3. CASE ~(v5 # 0 /\ Ota!Runs(v5))
    <3>1. v2' = v2
      BY <1>17, <2>3 DEF Ota!Look
    <3>2. ~v11 => \A d \in Ota!Dl : ~Ota!WaitsFor(d)
      BY <1>0, <2>3 DEF Ota!Cancelling, Ota!WaitsFor
    <3>3. QED
      <4>1. ~v11 => \A d \in Ota!Dl : ~Ota!WaitsFor(d)'
        BY <2>1, <3>1, <3>2 DEF Ota!WaitsFor, Ota!Runs
      <4>2. QED
        <5>1. v3'[c].at \notin {"img", "progress"} /\ v3[c].at # "end"
          BY <2>1
        <5>2. QED
          BY <1>0, <2>1, <3>1, <4>1, <5>1, OtaGoesOn, Zenon
  <2>4. QED
    BY <2>2, <2>3
<1>18. ASSUME NEW c \in Ota!Cmd, Ota!Forget(c) PROVE Ota!Cancelling'
  BY <1>0, <1>18 DEF Ota!Forget, Ota!TypeOK, Ota!Holding, Ota!AllThere, Ota!HasLock, Ota!Runs, Ota!Cancelling, Ota!Dead, Ota!WaitsFor, Ota!NotOf, Ota!Named, Ota!Starting, Ota!Busy, Ota!Cancels
<1>19. ASSUME NEW c \in Ota!Cmd, Ota!RemovePart(c) PROVE Ota!Cancelling'
  BY <1>0, <1>19 DEF Ota!RemovePart, Ota!Cancels, Ota!TypeOK, Ota!Holding, Ota!AllThere, Ota!HasLock, Ota!Runs, Ota!Cancelling, Ota!Dead, Ota!WaitsFor, Ota!NotOf, Ota!Named, Ota!Starting, Ota!Busy
<1>20. ASSUME NEW c \in Ota!Cmd, Ota!RemoveImage(c) PROVE Ota!Cancelling'
  BY <1>0, <1>20 DEF Ota!RemoveImage, Ota!TypeOK, Ota!Holding, Ota!AllThere, Ota!HasLock, Ota!Runs, Ota!Cancelling, Ota!Dead, Ota!WaitsFor, Ota!NotOf, Ota!Named, Ota!Starting, Ota!Busy, Ota!Cancels
<1>21. ASSUME NEW c \in Ota!Cmd, Ota!RemoveProgress(c) PROVE Ota!Cancelling'
  BY <1>0, <1>21 DEF Ota!RemoveProgress, Ota!Cancels, Ota!TypeOK, Ota!Holding, Ota!AllThere, Ota!HasLock, Ota!Runs, Ota!Cancelling, Ota!Dead, Ota!WaitsFor, Ota!NotOf, Ota!Named, Ota!Starting, Ota!Busy
<1>22. ASSUME NEW c \in Ota!Cmd, Ota!CheckLock(c) PROVE Ota!Cancelling'
  <2>1. /\ v3' \in OtaCalls /\ v3'[c].at \in {"version", "end"} /\ v3'[c].of = v3[c].of /\ v3'[c].kind = v3[c].kind
        /\ \A e \in Ota!Cmd : e # c => v3'[e] = v3[e]
        /\ v3[c].at # "end"
        /\ v1' = v1 /\ v5' = v5 /\ v6' = v6 /\ v7' = v7 /\ v10' = v10 /\ v11' = v11 /\ v2' = v2
    BY <1>0, <1>22, OtaGoes DEF Ota!CheckLock, Ota!Place
  <2>2. QED
    <3>1. v3'[c].at \notin {"img", "progress"} /\ v3'[c].at \notin {"unname", "part"}
      BY <2>1
    <3>2. QED
      BY <1>0, <2>1, <3>1, OtaGoesOn, Zenon
<1>23. ASSUME NEW c \in Ota!Cmd, Ota!CheckVersion(c) PROVE Ota!Cancelling'
  BY <1>0, <1>23 DEF Ota!CheckVersion, Ota!TypeOK, Ota!Holding, Ota!AllThere, Ota!HasLock, Ota!Runs, Ota!Cancelling, Ota!Dead, Ota!WaitsFor, Ota!NotOf, Ota!Named, Ota!Starting, Ota!Busy, Ota!Cancels
<1>24. ASSUME NEW c \in Ota!Cmd, Ota!Extract(c) PROVE Ota!Cancelling'
  <2>1. /\ v3' \in OtaCalls /\ v3'[c].at \in {"reboot", "end"} /\ v3'[c].of = v3[c].of /\ v3'[c].kind = v3[c].kind
        /\ \A e \in Ota!Cmd : e # c => v3'[e] = v3[e]
        /\ v3[c].at # "end"
        /\ v1' = v1 /\ v5' = v5 /\ v6' = v6 /\ v7' = v7 /\ v10' = v10 /\ v11' = v11 /\ v2' = v2
    BY <1>0, <1>24, OtaGoes DEF Ota!Extract, Ota!Place
  <2>2. QED
    <3>1. v3'[c].at \notin {"img", "progress"} /\ v3'[c].at \notin {"unname", "part"}
      BY <2>1
    <3>2. QED
      BY <1>0, <2>1, <3>1, OtaGoesOn, Zenon
<1>25. ASSUME NEW c \in Ota!Cmd, Ota!Reboot(c) PROVE Ota!Cancelling'
  <2>1. /\ \A d \in Ota!Dl : v1'[d] = "end"
        /\ \A e \in Ota!Cmd : v3'[e].at = "end" /\ v3'[e].of = v3[e].of /\ v3'[e].kind = v3[e].kind
        /\ v7' = Ota!None /\ v10' = v10
    BY <1>0, <1>25 DEF Ota!Reboot, Ota!TypeOK
  <2>2. ~Ota!Busy' /\ Ota!Named' = Ota!Dl
    BY <2>1 DEF Ota!Busy, Ota!Named
  <2>3. \A d \in Ota!Dl : Ota!Dead(d)' /\ Ota!NotOf(d)' /\ ~Ota!WaitsFor(d)'
    BY <2>1 DEF Ota!Dead, Ota!NotOf, Ota!WaitsFor
  <2>4. QED
    BY <1>0, <2>1, <2>2, <2>3 DEF Ota!Cancelling, Ota!Cancels, Ota!TypeOK
<1>26. ASSUME NEW c \in Ota!Cmd, NEW kind \in Ota!Kind, Ota!Begin(c, kind) PROVE Ota!Cancelling'
  <2>1. /\ v3' = [v3 EXCEPT ![c] = [kind |-> kind, at |-> IF kind = "upgrade" THEN "extract" ELSE "look",
                                    of |-> IF kind = "cancel" THEN Ota!Named ELSE {}]]
        /\ v11' = (v11 \/ Ota!Busy \/ Ota!Starting)
        /\ v1' = v1 /\ v2' = v2 /\ v5' = v5 /\ v6' = v6 /\ v7' = v7 /\ v10' = v10
    BY <1>26 DEF Ota!Begin
  <2>2. /\ v3'[c].at \in {"extract", "look"} /\ v3'[c].of \subseteq Ota!Named
        /\ ~(v3'[c].kind = "cancel") => v3'[c].of = {}
        /\ \A e \in Ota!Cmd : e # c => v3'[e] = v3[e]
    BY <1>0, <2>1 DEF Ota!TypeOK
  <2>3. ~v11' => ~v11 /\ ~Ota!Busy /\ ~Ota!Starting
    BY <2>1
  <2>4. Ota!Named' = Ota!Named /\ (Ota!Starting' <=> Ota!Starting)
    BY <2>1 DEF Ota!Named, Ota!Starting
  <2>5. QED
    BY <1>0, <2>1, <2>2, <2>3, <2>4 DEF Ota!Cancelling, Ota!Dead, Ota!WaitsFor, Ota!NotOf, Ota!Runs, Ota!Cancels
<1>27. QED
  BY <1>1, <1>2, <1>3, <1>4, <1>5, <1>6, <1>7, <1>8, <1>9, <1>10, <1>11, <1>12, <1>13, <1>14, <1>15, <1>16, <1>17, <1>18, <1>19, <1>20, <1>21, <1>22, <1>23, <1>24, <1>25, <1>26
     DEF Ota!Next, Ota!Scripts, Ota!Download, Ota!Command, Ota!Curls, Ota!Curl, Ota!Calls

LEMMA OtaInit == Ota!Init => Ota!OtaInv
<1> SUFFICES ASSUME Ota!Init PROVE Ota!OtaInv
  OBVIOUS
<1> USE OtaAssumption, SharedAssumption DEF Ota!Init, Ota!Dl, Ota!Cmd
<1>1. Ota!TypeOK
  <2>1. OtaPlain
    <3>1. /\ v1 \in [Ota!Dl -> {"idle", "locked", "made", "launched", "waits", "ok", "over", "moved",
                          "told", "unnamed", "unlock", "end"}]
          /\ v2 \in [Ota!Dl -> {"none", "connects", "writes", "ok", "failed", "killed"}]
      OBVIOUS
    <3>2. v6 \in Ota!Image /\ v7 \in Ota!Image /\ v9 \in Ota!Image
      BY OtaImages
    <3>3. v4 \in 0..Downloads + Commands /\ v5 \in 0..Downloads /\ v13 \in 0..MaxFaults
      OBVIOUS
    <3>4. v8 \in {"none", "downloading", "failed", "cancelled"} /\ v10 = {} /\ v11 = FALSE /\ v12 = FALSE
      OBVIOUS
    <3>5. QED
      BY <3>1, <3>2, <3>3, <3>4 DEF OtaPlain
  <2>2. v3 \in OtaCalls
    BY DEF OtaCalls, Ota!Kind, Ota!Place
  <2>3. QED
    BY <2>1, <2>2, Zenon DEF Ota!TypeOK, OtaPlain, OtaCalls
<1>2. Ota!Holding
  BY DEF Ota!Holding, Ota!HasLock, Ota!Runs
<1>3. Ota!AllThere /\ Ota!Whole /\ Ota!Waited
  BY DEF Ota!AllThere, Ota!Whole, Ota!Waited
<1>4. Ota!Cancelling
  BY DEF Ota!Cancelling, Ota!Cancels, Ota!Busy, Ota!WaitsFor, Ota!Runs
<1>5. QED
  BY <1>1, <1>2, <1>3, <1>4 DEF Ota!OtaInv

LEMMA OtaSteps ==
  ASSUME Ota!OtaInv, [Ota!Next]_(Ota!vars)
  PROVE  Ota!OtaInv'
<1>1. CASE Ota!Next
  BY <1>1, OtaTypes, OtaHolding, OtaAllThere, OtaWaited, OtaCancelling DEF Ota!OtaInv
<1>2. CASE UNCHANGED Ota!vars
  BY <1>2 DEF Ota!vars, Ota!files, Ota!history, Ota!OtaInv, Ota!TypeOK, Ota!Holding, Ota!HasLock, Ota!Runs,
     Ota!AllThere, Ota!Whole, Ota!Waited, Ota!Cancelling, Ota!Cancels, Ota!Named, Ota!Starting, Ota!Busy,
     Ota!WaitsFor, Ota!Dead, Ota!NotOf
<1>3. QED
  BY <1>1, <1>2

\* Ota!Whole, Ota!StaysCancelled and Ota!TellsEnd: for any number of downloads and
\* of other calls of bin/ota, what is in place or extracted is whole, a
\* cancelled image does not come back, and the page is told of the end.
THEOREM UpdatesSafely == Spec => []OtaSafe
<1> DEFINE Inv == part = "ota" => Ota!OtaInv
<1>1. Init => Inv
  BY OtaInit DEF Init
<1>2. Inv /\ [Next]_vars => Inv'
  <2> SUFFICES ASSUME Inv, [Next]_vars, part' = "ota" PROVE Ota!OtaInv'
    OBVIOUS
  <2>1. part = "ota" /\ [Ota!Next]_(Ota!vars)
    BY DEF Next, vars, Ota!vars, Ota!files, Ota!history
  <2>2. QED
    BY <2>1, OtaSteps
<1>3. Inv => OtaSafe
  <2> SUFFICES ASSUME Ota!OtaInv PROVE Ota!Whole /\ Ota!StaysCancelled /\ Ota!TellsEnd
    BY DEF OtaSafe
  <2>1. Ota!StaysCancelled
    BY DEF Ota!OtaInv, Ota!Cancelling, Ota!NotOf, Ota!StaysCancelled
  <2>2. Ota!TellsEnd
    <3> SUFFICES ASSUME v4 = 0, ~v12, Ota!Status = "downloading" PROVE FALSE
      BY DEF Ota!TellsEnd
    <3>1. v8 = "downloading"
      BY DEF Ota!Status
    <3>2. PICK d \in Ota!Dl : v1[d] \notin {"idle", "end"}
      BY <3>1 DEF Ota!OtaInv, Ota!Waited
    <3>3. QED
      BY <3>2 DEF Ota!OtaInv, Ota!Holding, Ota!HasLock, Ota!Dl
  <2>3. QED
    BY <2>1, <2>2 DEF Ota!OtaInv
<1>4. QED
  BY <1>1, <1>2, <1>3, PTL DEF Spec

-----------------------------------------------------------------------------
(* mbim_send_command(). pc is v1, req v2, sreq v6, sresp v7, n v8, tid v9, *)
(* reader v10, modem v11, line v12, answered v13.                          *)

CommandInv == Command!TypeOK /\ Command!Numbers /\ Command!Matched /\ Command!NullForEnd

LEMMA CommandTypes ==
  ASSUME Command!TypeOK, Command!Numbers, Command!Next
  PROVE  Command!TypeOK'
<1> USE CommandAssumption, SharedAssumption DEF Command!callVars, Command!netVars
<1>1. CASE Command!Compose
  BY <1>1 DEF Command!Compose, Command!TypeOK, Command!Numbers, Command!InCall, Command!Sent, Command!Request, Command!None
<1>2. CASE Command!Check
  BY <1>2 DEF Command!Check, Command!Unsent, Command!TakenBack, Command!Open, Command!TypeOK, Command!Numbers, Command!InCall, Command!Sent, Command!Request, Command!None
<1>3. CASE Command!Send
  BY <1>3 DEF Command!Send, Command!Numbered, Command!Beyond, Command!Unsent, Command!TakenBack, Command!Open, Command!Fault, Command!TypeOK, Command!Numbers, Command!InCall, Command!Sent, Command!Request, Command!None
<1>4. CASE Command!SliceExpires
  BY <1>4 DEF Command!SliceExpires, Command!TypeOK, Command!Numbers, Command!InCall, Command!Sent, Command!Request, Command!None
<1>5. CASE Command!Reacquire
  BY <1>5 DEF Command!Reacquire, Command!Counted, Command!TakenBack, Command!TypeOK, Command!Numbers, Command!InCall, Command!Sent, Command!Request, Command!None
<1>6. CASE Command!Resume
  BY <1>6 DEF Command!Resume, Command!TakenBack, Command!TypeOK, Command!Numbers, Command!InCall, Command!Sent, Command!Request, Command!None
<1>7. CASE Command!QuitRequest
  BY <1>7 DEF Command!QuitRequest, Command!TypeOK, Command!Numbers, Command!InCall, Command!Sent, Command!Request, Command!None
<1>8. ASSUME NEW r \in v12, Command!Receive(r) PROVE Command!TypeOK'
  BY <1>8 DEF Command!Receive, Command!ForPending, Command!Signal, Command!Open, Command!TypeOK, Command!Numbers, Command!InCall, Command!Sent, Command!Request, Command!None
<1>9. CASE Command!TakeStop
  BY <1>9 DEF Command!TakeStop, Command!OnStop, Command!TypeOK, Command!Numbers, Command!InCall, Command!Sent, Command!Request, Command!None
<1>10. CASE Command!Close
  BY <1>10 DEF Command!Close, Command!Fault, Command!TypeOK, Command!Numbers, Command!InCall, Command!Sent, Command!Request, Command!None
<1>11. CASE Command!Leave
  BY <1>11 DEF Command!Leave, Command!Signal, Command!TypeOK, Command!Numbers, Command!InCall, Command!Sent, Command!Request, Command!None
<1>12. ASSUME NEW r \in v11, Command!Answer(r) PROVE Command!TypeOK'
  BY <1>12 DEF Command!Answer, Command!TypeOK, Command!Numbers, Command!InCall, Command!Sent, Command!Request, Command!None
<1>13. CASE Command!Finished
  BY <1>13 DEF Command!Finished, Command!vars, Command!TypeOK, Command!Numbers, Command!InCall, Command!Sent, Command!Request, Command!None
<1>14. QED
  BY <1>1, <1>2, <1>3, <1>4, <1>5, <1>6, <1>7, <1>8, <1>9, <1>10, <1>11, <1>12, <1>13
     DEF Command!Next, Command!MainThread, Command!Reader

\* Every number that is written is one after the last, and none of the proxy's.
LEMMA CommandNumbers ==
  ASSUME Command!TypeOK, Command!Numbers, Command!Next
  PROVE  Command!Numbers'
<1> USE CommandAssumption, SharedAssumption DEF Command!callVars, Command!netVars
<1>1. CASE Command!Compose
  BY <1>1 DEF Command!Compose, Command!TypeOK, Command!Numbers, Command!InCall, Command!Sent, Command!Request, Command!None, Command!Open
<1>2. CASE Command!Check
  BY <1>2 DEF Command!Check, Command!Unsent, Command!TakenBack, Command!Open, Command!TypeOK, Command!Numbers, Command!InCall, Command!Sent, Command!Request, Command!None
<1>3. CASE Command!Send
  <2>0. /\ v2 \in Command!Request /\ v2.n = v8 /\ v2.tid = v9 - 1 /\ v8 > 0 /\ v9 <= v8 + 1
        /\ v9 \in Nat /\ v8 \in Nat /\ v9 > 1 /\ (v10 \in {"running", "stopping"} => v9 <= Wrap + 2)
    BY <1>3 DEF Command!Open, Command!Send, Command!TypeOK, Command!Numbers, Command!InCall
  <2>1. /\ v2'.n = v8 /\ v2'.tid > 0 /\ v2'.tid = v9' - 1 /\ v9' <= v8 + 1 /\ v9' \in Nat
        /\ v10 \in {"running", "stopping"} => v2'.tid \in 1..Wrap /\ v9' <= Wrap + 1
    <3>1. CASE Command!Beyond
      <4>1. v2' = [v2 EXCEPT !.tid = 1] /\ v9' = 2
        BY <1>3, <3>1 DEF Command!Send, Command!Numbered
      <4>2. QED
        BY <2>0, <4>1 DEF Command!Request
    <3>2. CASE ~Command!Beyond
      <4>1. v2' = v2 /\ v9' = v9
        BY <1>3, <3>2 DEF Command!Send, Command!Numbered
      <4>2. QED
        BY <2>0, <3>2, <4>1 DEF Command!Request, Command!Beyond
    <3>3. QED
      BY <3>1, <3>2
  <2>2. v8' = v8 /\ v10' = v10 /\ v13' = v13 /\ (v11' = v11 \/ (v10 \in {"running", "stopping"} /\ v11' = v11 \cup {v2'}))
    BY <1>3 DEF Command!Send, Command!Unsent, Command!Open
  <2>3. \/ v1' = "wait" /\ v6' = v2' /\ v3' = Slices
        \/ v1' = "idle" /\ v6' = Command!None
    BY <1>3 DEF Command!Send, Command!Unsent, Command!TakenBack
  <2>4. \A r \in v11' \cup v13' : r.n \in 1..v8' /\ r.tid \in 1..Wrap
    <3>1. \A r \in v11 \cup v13 : r.n \in 1..v8 /\ r.tid \in 1..Wrap
      BY DEF Command!Numbers
    <3>2. v2'.n \in 1..v8
      <4>1. v2'.n = v8
        BY <2>1
      <4>2. QED
        BY <2>0, <4>1
    <3>3. v10 \in {"running", "stopping"} => v2'.tid \in 1..Wrap
      BY <2>1
    <3>4. QED
      BY <2>2, <3>1, <3>2, <3>3
  <2>5. v10' \in {"running", "stopping"} => v9' <= Wrap + 1
    BY <2>1, <2>2
  <2>6. (v1' = "wait" => v8' > 0 /\ v2'.n = v8' /\ v2'.tid > 0 /\ v2'.tid = v9' - 1 /\ v3' > 0) /\ v9' <= v8' + 1
    <3>1. v2'.n = v8' /\ v2'.tid > 0 /\ v2'.tid = v9' - 1 /\ v9' <= v8' + 1
      BY <2>1, <2>2
    <3>2. v8' > 0
      BY <2>0, <2>2
    <3>3. v1' = "wait" => v3' > 0
      BY <2>3
    <3>4. QED
      BY <3>1, <3>2, <3>3
  <2>7. QED
    BY <2>3, <2>4, <2>5, <2>6 DEF Command!Open, Command!Numbers, Command!InCall, Command!Sent
<1>4. CASE Command!SliceExpires
  BY <1>4 DEF Command!SliceExpires, Command!TypeOK, Command!Numbers, Command!InCall, Command!Sent, Command!Request, Command!None, Command!Open
<1>5. CASE Command!Reacquire
  BY <1>5 DEF Command!Reacquire, Command!Counted, Command!TakenBack, Command!TypeOK, Command!Numbers, Command!InCall, Command!Sent, Command!Request, Command!None, Command!Open
<1>6. CASE Command!Resume
  BY <1>6 DEF Command!Resume, Command!TakenBack, Command!TypeOK, Command!Numbers, Command!InCall, Command!Sent, Command!Request, Command!None, Command!Open
<1>7. CASE Command!QuitRequest
  BY <1>7 DEF Command!QuitRequest, Command!TypeOK, Command!Numbers, Command!InCall, Command!Sent, Command!Request, Command!None, Command!Open
<1>8. ASSUME NEW r \in v12, Command!Receive(r) PROVE Command!Numbers'
  BY <1>8 DEF Command!Receive, Command!ForPending, Command!Signal, Command!Open, Command!TypeOK, Command!Numbers, Command!InCall, Command!Sent, Command!Request, Command!None
<1>9. CASE Command!TakeStop
  BY <1>9 DEF Command!TakeStop, Command!OnStop, Command!TypeOK, Command!Numbers, Command!InCall, Command!Sent, Command!Request, Command!None, Command!Open
<1>10. CASE Command!Close
  BY <1>10 DEF Command!Close, Command!Fault, Command!TypeOK, Command!Numbers, Command!InCall, Command!Sent, Command!Request, Command!None, Command!Open
<1>11. CASE Command!Leave
  BY <1>11 DEF Command!Leave, Command!Signal, Command!TypeOK, Command!Numbers, Command!InCall, Command!Sent, Command!Request, Command!None, Command!Open
<1>12. ASSUME NEW r \in v11, Command!Answer(r) PROVE Command!Numbers'
  BY <1>12 DEF Command!Answer, Command!TypeOK, Command!Numbers, Command!InCall, Command!Sent, Command!Request, Command!None, Command!Open
<1>13. CASE Command!Finished
  BY <1>13 DEF Command!Finished, Command!vars, Command!TypeOK, Command!Numbers, Command!InCall, Command!Sent, Command!Request, Command!None, Command!Open
<1>14. QED
  BY <1>1, <1>2, <1>3, <1>4, <1>5, <1>6, <1>7, <1>8, <1>9, <1>10, <1>11, <1>12, <1>13
     DEF Command!Next, Command!MainThread, Command!Reader

\* What the reader gives to main is the answer to what main has pending.
LEMMA CommandMatched ==
  ASSUME CommandInv, Command!Next
  PROVE  Command!Matched' /\ Command!NullForEnd'
<1> USE DEF CommandInv
<1> USE CommandAssumption, SharedAssumption DEF Command!callVars, Command!netVars
<1>1. CASE Command!Compose
  BY <1>1 DEF Command!Compose, Command!TypeOK, Command!Numbers, Command!Matched, Command!InFlight, Command!NullForEnd, Command!InCall, Command!Sent, Command!Request, Command!None, Command!Open
<1>2. CASE Command!Check
  BY <1>2 DEF Command!Check, Command!Unsent, Command!TakenBack, Command!Open, Command!TypeOK, Command!Numbers, Command!Matched, Command!InFlight, Command!NullForEnd, Command!InCall, Command!Sent, Command!Request, Command!None
<1>3. CASE Command!Send
  BY <1>3 DEF Command!Send, Command!Numbered, Command!Beyond, Command!Unsent, Command!TakenBack, Command!Open, Command!Fault, Command!TypeOK, Command!Numbers, Command!Matched, Command!InFlight, Command!NullForEnd, Command!InCall, Command!Sent, Command!Request, Command!None
<1>4. CASE Command!SliceExpires
  BY <1>4 DEF Command!SliceExpires, Command!TypeOK, Command!Numbers, Command!Matched, Command!InFlight, Command!NullForEnd, Command!InCall, Command!Sent, Command!Request, Command!None, Command!Open
<1>5. CASE Command!Reacquire
  BY <1>5 DEF Command!Reacquire, Command!Counted, Command!TakenBack, Command!TypeOK, Command!Numbers, Command!Matched, Command!InFlight, Command!NullForEnd, Command!InCall, Command!Sent, Command!Request, Command!None, Command!Open
<1>6. CASE Command!Resume
  BY <1>6 DEF Command!Resume, Command!TakenBack, Command!TypeOK, Command!Numbers, Command!Matched, Command!InFlight, Command!NullForEnd, Command!InCall, Command!Sent, Command!Request, Command!None, Command!Open
<1>7. CASE Command!QuitRequest
  BY <1>7 DEF Command!QuitRequest, Command!TypeOK, Command!Numbers, Command!Matched, Command!InFlight, Command!NullForEnd, Command!InCall, Command!Sent, Command!Request, Command!None, Command!Open
<1>8. ASSUME NEW r \in v12, Command!Receive(r) PROVE Command!Matched' /\ Command!NullForEnd'
  BY <1>8 DEF Command!Receive, Command!ForPending, Command!Signal, Command!Open, Command!TypeOK, Command!Numbers, Command!Matched, Command!InFlight, Command!NullForEnd, Command!InCall, Command!Sent, Command!Request, Command!None
<1>9. CASE Command!TakeStop
  BY <1>9 DEF Command!TakeStop, Command!OnStop, Command!TypeOK, Command!Numbers, Command!Matched, Command!InFlight, Command!NullForEnd, Command!InCall, Command!Sent, Command!Request, Command!None, Command!Open
<1>10. CASE Command!Close
  BY <1>10 DEF Command!Close, Command!Fault, Command!TypeOK, Command!Numbers, Command!Matched, Command!InFlight, Command!NullForEnd, Command!InCall, Command!Sent, Command!Request, Command!None, Command!Open
<1>11. CASE Command!Leave
  BY <1>11 DEF Command!Leave, Command!Signal, Command!TypeOK, Command!Numbers, Command!Matched, Command!InFlight, Command!NullForEnd, Command!InCall, Command!Sent, Command!Request, Command!None, Command!Open
<1>12. ASSUME NEW r \in v11, Command!Answer(r) PROVE Command!Matched' /\ Command!NullForEnd'
  BY <1>12 DEF Command!Answer, Command!TypeOK, Command!Numbers, Command!Matched, Command!InFlight, Command!NullForEnd, Command!InCall, Command!Sent, Command!Request, Command!None, Command!Open
<1>13. CASE Command!Finished
  BY <1>13 DEF Command!Finished, Command!vars, Command!TypeOK, Command!Numbers, Command!Matched, Command!InFlight, Command!NullForEnd, Command!InCall, Command!Sent, Command!Request, Command!None, Command!Open
<1>14. QED
  BY <1>1, <1>2, <1>3, <1>4, <1>5, <1>6, <1>7, <1>8, <1>9, <1>10, <1>11, <1>12, <1>13
     DEF Command!Next, Command!MainThread, Command!Reader


\* A set of numbers grows by what its set of records grows by.
LEMMA NumbersOf ==
  ASSUME NEW R, NEW r
  PROVE  {x.n : x \in R \cup {r}} = {x.n : x \in R} \cup {r.n}
  OBVIOUS

LEMMA OneMore ==
  ASSUME NEW k \in Nat
  PROVE  1..(k + 1) = (1..k) \cup {k + 1} /\ k + 1 \notin 1..k
  OBVIOUS

\* Every step of mbim_send_command(), of the reader and of the modem is a step of
\* QmiRpc, or none.
LEMMA CommandSteps ==
  ASSUME CommandInv, Command!Next
  PROVE  [Command!Rpc!Next]_(Command!Rpc!rpcVars)
<1> USE CommandAssumption DEF Command!callVars, Command!netVars, Command!Rpc!rpcVars
<1> DEFINE Made == 1..v8
           Opened == IF Command!InCall THEN v2.n ELSE 0
           Heard == {r.n : r \in v13}
<1>0. v8 \in Nat /\ v8 <= MaxCalls
  BY DEF CommandInv, Command!TypeOK
<1>1. CASE Command!Compose
  <2>1. Made' = Made \cup {v8 + 1} /\ v8 + 1 \notin Made /\ v8 + 1 \in 1..MaxCalls
    BY <1>0, <1>1, OneMore DEF Command!Compose
  <2>2. Opened = 0 /\ Opened' = v8 + 1 /\ Heard' = Heard /\ v5' = v5
    BY <1>1 DEF Command!Compose, Command!InCall
  <2>3. QED
    BY <2>1, <2>2 DEF Command!Rpc!Next, Command!Rpc!Call
<1>2. ASSUME v8' = v8, v13' = v13, Command!InCall, ~Command!InCall', v5'.n \in {0} \cup ({v2.n} \cap Heard)
      PROVE  [Command!Rpc!Next]_(Command!Rpc!rpcVars)
  <2>1. Opened # 0 /\ Opened = v2.n /\ Opened' = 0
    BY <1>2 DEF CommandInv, Command!Numbers
  <2>2. Made' = Made /\ Heard' = Heard
    BY <1>2
  <2>3. QED
    BY <1>2, <2>1, <2>2 DEF Command!Rpc!Next, Command!Rpc!Return
<1>3. ASSUME v8' = v8, v13' = v13, v5' = v5, Command!InCall' = Command!InCall, Command!InCall => v2'.n = v2.n
      PROVE  [Command!Rpc!Next]_(Command!Rpc!rpcVars)
  <2>1. Opened' = Opened
    BY <1>3
  <2>2. QED
    BY <1>3, <2>1
<1>4. ASSUME Command!InCall, Command!Unsent, v13' = v13, v8' = v8 PROVE [Command!Rpc!Next]_(Command!Rpc!rpcVars)
  <2>1. ~Command!InCall' /\ v5'.n = 0
    BY <1>4 DEF Command!Unsent, Command!InCall, Command!None
  <2>2. QED
    BY <1>2, <1>4, <2>1
<1>5. CASE Command!Check
  <2>1. Command!InCall /\ v13' = v13 /\ v8' = v8
    BY <1>5 DEF Command!Check, Command!Unsent, Command!InCall
  <2>2. CASE Command!Open
    BY <1>3, <1>5, <2>1, <2>2 DEF Command!Check, Command!InCall
  <2>3. CASE ~Command!Open
    BY <1>4, <1>5, <2>1, <2>3 DEF Command!Check
  <2>4. QED
    BY <2>2, <2>3
<1>6. CASE Command!Send
  <2>1. Command!InCall /\ v13' = v13 /\ v8' = v8
    BY <1>6 DEF Command!Send, Command!Unsent, Command!InCall
  <2>2. CASE Command!Unsent
    BY <1>4, <2>1, <2>2
  <2>3. CASE v1' = "wait" /\ v5' = v5
    <3>1. v2'.n = v2.n
      BY <1>6 DEF Command!Send, Command!Numbered, CommandInv, Command!TypeOK, Command!Request
    <3>2. Command!InCall'
      BY <2>3 DEF Command!InCall
    <3>3. QED
      BY <1>3, <2>1, <2>3, <3>1, <3>2
  <2>4. QED
    BY <1>6, <2>2, <2>3 DEF Command!Send
<1>7. CASE Command!SliceExpires \/ Command!QuitRequest \/ Command!TakeStop \/ Command!Close
  BY <1>3, <1>7 DEF Command!SliceExpires, Command!QuitRequest, Command!TakeStop, Command!OnStop, Command!Close, Command!InCall
<1>8. CASE Command!Reacquire
  <2>1. Command!InCall /\ v13' = v13 /\ v8' = v8 /\ v2' = v2
    BY <1>8 DEF Command!Reacquire, Command!InCall
  <2>2. CASE v3 > 1
    BY <1>3, <1>8, <2>1, <2>2 DEF Command!Reacquire, Command!InCall
  <2>3. CASE ~(v3 > 1)
    <3>1. ~Command!InCall' /\ v5'.n = 0
      BY <1>8, <2>3 DEF Command!Reacquire, Command!InCall, Command!None
    <3>2. QED
      BY <1>2, <2>1, <3>1
  <2>4. QED
    BY <2>2, <2>3
<1>9. CASE Command!Resume
  <2>1. Command!InCall /\ ~Command!InCall' /\ v13' = v13 /\ v8' = v8 /\ v5' = v7
    BY <1>9 DEF Command!Resume, Command!InCall
  <2>2. v7.n \in {0} \cup ({v2.n} \cap Heard)
    <3>1. v7 = Command!None => v7.n = 0
      BY DEF Command!None
    <3>2. v7 # Command!None => v7 = v2 /\ v7 \in v13
      BY <1>9 DEF CommandInv, Command!Matched, Command!Numbers, Command!Sent, Command!Resume
    <3>3. QED
      BY <3>1, <3>2
  <2>3. QED
    BY <1>2, <2>1, <2>2
<1>10. ASSUME NEW r \in v12, Command!Receive(r) PROVE [Command!Rpc!Next]_(Command!Rpc!rpcVars)
  BY <1>3, <1>10 DEF Command!Receive, Command!Signal, Command!InCall
<1>11. CASE Command!Leave
  BY <1>3, <1>11 DEF Command!Leave, Command!Signal, Command!InCall
<1>12. ASSUME NEW r \in v11, Command!Answer(r) PROVE [Command!Rpc!Next]_(Command!Rpc!rpcVars)
  <2>1. r.n \in Made
    BY <1>12 DEF CommandInv, Command!Numbers
  <2>2. Heard' = Heard \cup {r.n} /\ Made' = Made /\ Opened' = Opened /\ v5' = v5
    BY <1>12, NumbersOf DEF Command!Answer, Command!InCall
  <2>3. CASE r.n \in Heard
    BY <2>2, <2>3
  <2>4. CASE r.n \notin Heard
    BY <2>1, <2>2, <2>4 DEF Command!Rpc!Next, Command!Rpc!Answer
  <2>5. QED
    BY <2>3, <2>4
<1>13. CASE Command!Finished
  BY <1>3, <1>13 DEF Command!Finished, Command!vars, Command!InCall
<1>14. QED
  BY <1>1, <1>5, <1>6, <1>7, <1>8, <1>9, <1>10, <1>11, <1>12, <1>13 DEF Command!Next, Command!MainThread, Command!Reader


LEMMA CommandInit == Command!Init => CommandInv
<1> SUFFICES ASSUME Command!Init PROVE CommandInv
  OBVIOUS
<1> USE CommandAssumption, SharedAssumption DEF Command!Init, Command!Request, Command!None
<1>1. Command!TypeOK
  BY DEF Command!TypeOK
<1>2. Command!Numbers
  BY DEF Command!Numbers, Command!InCall, Command!Sent, Command!Open
<1>3. Command!Matched /\ Command!NullForEnd
  BY DEF Command!Matched, Command!NullForEnd
<1>4. QED
  BY <1>1, <1>2, <1>3 DEF CommandInv

LEMMA CommandKeeps ==
  ASSUME CommandInv, [Command!Next]_(Command!vars)
  PROVE  CommandInv'
<1>1. CASE Command!Next
  BY <1>1, CommandTypes, CommandNumbers, CommandMatched DEF CommandInv
<1>2. CASE UNCHANGED Command!vars
  BY <1>2 DEF Command!vars, Command!callVars, Command!netVars, CommandInv, Command!TypeOK, Command!Numbers,
     Command!Matched, Command!InFlight, Command!NullForEnd, Command!InCall, Command!Sent, Command!Open
<1>3. QED
  BY <1>1, <1>2

-----------------------------------------------------------------------------
(* The attach state of a QMI session. raw is v1, pc v7, attached v10, ok   *)
(* v12, dial v13.                                                          *)

\* After a query that failed a 9x07 is not attached, and no answer is read.
Cleared == v1 /\ ~v12 => ~v10 /\ v7 = "idle"

LEMMA RegistrationKeeps ==
  ASSUME Cleared, [Registration!Next]_(Registration!vars)
  PROVE  Cleared' /\ Registration!FreshDial
<1> USE DEF Cleared, Registration!FreshDial, Registration!answerVars
<1>1. CASE Registration!QueryErr
  BY <1>1, Zenon DEF Registration!QueryErr, Registration!Forgotten
<1>2. CASE Registration!Query
  BY <1>2, Zenon DEF Registration!Query, Registration!Forgotten
<1>3. ASSUME NEW t \in v6, Registration!Take(t) PROVE Cleared' /\ Registration!FreshDial
  BY <1>3, Zenon DEF Registration!Take
<1>4. CASE Registration!Return
  BY <1>4, Zenon DEF Registration!Return
<1>5. CASE Registration!OldQuery
  BY <1>5, Zenon DEF Registration!OldQuery
<1>6. CASE Registration!OldQueryErr
  BY <1>6, Zenon DEF Registration!OldQueryErr
<1>7. CASE Registration!Dial
  BY <1>7, Zenon DEF Registration!Dial
<1>8. CASE UNCHANGED Registration!vars
  BY <1>8, Zenon DEF Registration!vars
<1>9. QED
  BY <1>1, <1>2, <1>3, <1>4, <1>5, <1>6, <1>7, <1>8 DEF Registration!Next

\* Steps: for any number of calls and any length of a round of numbers beyond Late,
\* mbim_send_command() returns the answer to the call or none; and a 9x07 is dialled
\* only on an attach state that the last query gave.
THEOREM ImplementsCalls == Spec => Steps
<1> DEFINE Inv == (part = "command" => CommandInv) /\ (part = "registration" => Cleared)
           Step == /\ part = "command" => [Command!Rpc!Next]_(Command!Rpc!rpcVars)
                   /\ part = "registration" => Registration!FreshDial
<1>1. Init => Inv /\ (part = "command" => Command!Rpc!Init)
  <2>1. ASSUME Init, part = "command" PROVE CommandInv /\ Command!Rpc!Init
    <3>1. Command!Init
      BY <2>1 DEF Init
    <3>2. 1..v8 = {} /\ {r.n : r \in v13} = {} /\ v5.n = 0 /\ ~Command!InCall
      BY <3>1 DEF Command!Init, Command!InCall, Command!None
    <3>3. QED
      BY <3>1, <3>2, CommandInit DEF Command!Rpc!Init
  <2>2. ASSUME Init, part = "registration" PROVE Cleared
    BY <2>2 DEF Init, Registration!Init, Cleared
  <2>3. QED
    BY <2>1, <2>2
<1>2. Inv /\ [Next]_vars => Inv' /\ [Step]_vars
  <2> SUFFICES ASSUME Inv, [Next]_vars PROVE Inv' /\ Step
    OBVIOUS
  <2>1. ASSUME part' = "command" \/ part = "command" PROVE part = "command" /\ [Command!Next]_(Command!vars)
    BY <2>1 DEF Next, vars, Command!vars, Command!callVars, Command!netVars
  <2>2. ASSUME part' = "registration" \/ part = "registration"
        PROVE  part = "registration" /\ [Registration!Next]_(Registration!vars)
    BY <2>2 DEF Next, vars, Registration!vars, Registration!answerVars
  <2>3. ASSUME part = "command" PROVE [Command!Rpc!Next]_(Command!Rpc!rpcVars)
    <3>1. CASE Command!Next
      BY <2>3, <3>1, CommandSteps
    <3>2. CASE UNCHANGED Command!vars
      BY <3>2 DEF Command!vars, Command!callVars, Command!netVars, Command!Rpc!rpcVars, Command!InCall
    <3>3. QED
      BY <2>1, <2>3, <3>1, <3>2
  <2>4. QED
    BY <2>1, <2>2, <2>3, CommandKeeps, RegistrationKeeps
<1>3. QED
  BY <1>1, <1>2, PTL DEF Spec, Steps

-----------------------------------------------------------------------------
(* The MBIM session. task is v1, at v2, answer v3, attached v5, status v6, *)
(* addr v7, ip v8, link v9, sig v10, events v11, alarm v12, hold v13,      *)
(* modem v16, opened v17, maddr v18.                                       *)

\* What requestRegistrationState() ends with.
LEMMA MbimRegistered ==
  ASSUME NEW a \in BOOLEAN, v1 \in {"startup", "CHECK", "voice"}, v13 \in BOOLEAN, Mbim!Registered(a)
  PROVE  /\ v5' \in BOOLEAN /\ v13' \in BOOLEAN
         /\ v10' \in {v10, Append(v10, "CHECK"), Append(v10, "START")}
         /\ \/ v1' = "poll" /\ v2' = "none"
            \/ v1' = "CHECK" /\ v2' = "connect?" /\ v6 # "DISCONNECTED"
            \/ v1' = "CHECK" /\ v2' = "settle"
<1>1. CASE v1 = "startup"
  BY <1>1, Zenon DEF Mbim!Registered, Mbim!Return, Mbim!Send
<1>2. CASE v1 = "CHECK"
  BY <1>2, Zenon DEF Mbim!Registered, Mbim!Go
<1>3. CASE v1 = "voice"
  BY <1>3, Zenon DEF Mbim!Registered, Mbim!Return, Mbim!Send
<1>4. QED
  BY <1>1, <1>2, <1>3

\* What a request does to the modem and its call.
LEMMA MbimEffect ==
  ASSUME Mbim!Effect
  PROVE  /\ v17' \in {TRUE, FALSE, v17}
         /\ \/ v16' = v16 /\ v18' = v18
            \/ v16' = [v16 EXCEPT !.act = "deactivated"] /\ v18' = v18
            \/ v16' = [v16 EXCEPT !.ps = "attached"] /\ v18' = v18
            \/ v16' = [v16 EXCEPT !.act = "activated"] /\ v18' \in Addr /\ v2 = "connect="
<1>1. CASE v2 = "open"
  BY <1>1, Zenon DEF Mbim!Effect
<1>2. CASE v2 = "close"
  BY <1>2, Zenon DEF Mbim!Effect
<1>3. CASE v2 = "ps="
  BY <1>3, Zenon DEF Mbim!Effect, Mbim!modemVars
<1>4. CASE v2 = "connect="
  BY <1>4, Zenon DEF Mbim!Effect, Mbim!modemVars
<1>5. CASE v2 = "hangup"
  BY <1>5, Zenon DEF Mbim!Effect
<1>6. CASE v2 \notin {"open", "close", "ps=", "connect=", "hangup"}
  BY <1>6, Zenon DEF Mbim!Effect, Mbim!modemVars
<1>7. QED
  BY <1>1, <1>2, <1>3, <1>4, <1>5, <1>6

\* What a signal starts.
LEMMA MbimSignal ==
  ASSUME Mbim!TakeSignal, Head(v10) \in {"START", "CHECK", "STOP"}, v5 \in BOOLEAN, v12 \in BOOLEAN, v13 \in BOOLEAN
  PROVE  /\ v12' \in BOOLEAN
         /\ \/ v1' = v1 /\ v2' = v2 /\ UNCHANGED <<v9, v7, v8>>
            \/ v1' = "START" /\ v2' = "connect=" /\ v6 # "CONNECTED" /\ UNCHANGED <<v9, v7, v8>>
            \/ v1' = "CHECK" /\ v2' \in {"reg?", "settle"} /\ UNCHANGED <<v9, v7, v8>>
            \/ v1' = "CHECK" /\ v2' = "connect?" /\ v6 # "DISCONNECTED" /\ UNCHANGED <<v9, v7, v8>>
            \/ v1' = "STOP" /\ v2' \in {"hangup", "close"} /\ Mbim!LinkDown
<1>1. CASE Head(v10) = "START"
  BY <1>1, Zenon DEF Mbim!TakeSignal
<1>2. CASE Head(v10) = "CHECK"
  BY <1>2, Zenon DEF Mbim!TakeSignal
<1>3. CASE Head(v10) = "STOP"
  BY <1>3, Zenon DEF Mbim!TakeSignal
<1>4. QED
  BY <1>1, <1>2, <1>3

\* What the reader's note starts.
LEMMA MbimEvent ==
  ASSUME Mbim!TakeEvent, Head(v11) \in {"VOICE", "DATA", "DISCONNECTED"}, v13 \in BOOLEAN
  PROVE  /\ v13' \in BOOLEAN /\ v10' \in {v10, Append(v10, "CHECK")}
         /\ \/ v1' = "quit" /\ v2' = "none" /\ Mbim!LinkDown
            \/ v1' = "voice" /\ v2' = "reg?" /\ UNCHANGED <<v9, v7, v8>>
            \/ v1' = v1 /\ v2' = v2 /\ UNCHANGED <<v9, v7, v8>>
<1>1. CASE Head(v11) = "VOICE"
  BY <1>1, Zenon DEF Mbim!TakeEvent
<1>2. CASE Head(v11) = "DATA"
  BY <1>2, Zenon DEF Mbim!TakeEvent, Mbim!Send
<1>3. CASE Head(v11) = "DISCONNECTED"
  BY <1>3, Zenon DEF Mbim!TakeEvent
<1>4. QED
  BY <1>1, <1>2, <1>3

LEMMA FirstOf ==
  ASSUME NEW S, NEW a \in Seq(S), a # <<>>
  PROVE  a[1] \in S
  OBVIOUS

\* The types, by what they need in a proof.
MbimFlags == /\ v5 \in BOOLEAN /\ v9 \in BOOLEAN /\ v12 \in BOOLEAN /\ v13 \in BOOLEAN
             /\ v17 \in BOOLEAN /\ v19 \in BOOLEAN
MbimWords == /\ v1 \in Mbim!Task /\ v2 \in Mbim!Request /\ v4 \in 0..Opens
             /\ v6 \in {"UNKNOW", "DISCONNECTED", "CONNECTED"}
             /\ v14 \in {"up", "stopping", "gone"} /\ v20 \in 0..MaxFaults
MbimAnswers == v3 \in Seq(Mbim!Reply) /\ Len(v3) <= 1 /\ (v2 \in {"none", "settle", "dialed"} => v3 = <<>>)
MbimLists == v10 \in Seq({"START", "CHECK", "STOP"}) /\ v11 \in Seq({"VOICE", "DATA", "DISCONNECTED"})
MbimModem == v15 \in Mbim!States /\ v16 \in Mbim!States /\ v18 \in Addr
MbimAddresses == v7 \in Addr \cup {0} /\ v8 \in Addr \cup {0}

LEMMA MbimTypeParts ==
  Mbim!TypeOK <=> MbimFlags /\ MbimWords /\ MbimAnswers /\ MbimLists /\ MbimModem /\ MbimAddresses
  BY Zenon DEF Mbim!TypeOK, MbimFlags, MbimWords, MbimAnswers, MbimLists, MbimModem, MbimAddresses

LEMMA MbimFlagsStay ==
  ASSUME MbimFlags, MbimLists, Mbim!Addressed, Mbim!Next
  PROVE  MbimFlags'
<1> USE SessionAssumption, SharedAssumption DEF Mbim!mainVars, Mbim!modemVars
<1>1. CASE Mbim!RegAnswered \/ Mbim!PsAnswered \/ Mbim!AttachAnswered
  <2>1. v1 \in {"startup", "CHECK", "voice"}
    BY <1>1 DEF Mbim!RegAnswered, Mbim!PsAnswered, Mbim!AttachAnswered, Mbim!Addressed
  <2>2. UNCHANGED <<v9, v12, v17, v19>>
    BY <1>1, Zenon DEF Mbim!RegAnswered, Mbim!PsAnswered, Mbim!AttachAnswered, Mbim!TakenSame
  <2>3. \/ v5' = FALSE /\ v13' = v13
        \/ Mbim!Registered(TRUE)
        \/ Mbim!Registered(FALSE)
    BY <1>1, Zenon DEF Mbim!RegAnswered, Mbim!PsAnswered, Mbim!AttachAnswered, Mbim!Attach
  <2>4. v5' \in BOOLEAN /\ v13' \in BOOLEAN
    BY <2>1, <2>3, MbimRegistered, Zenon DEF MbimFlags
  <2>5. QED
    BY <2>2, <2>4, Zenon DEF MbimFlags
<1>2. CASE Mbim!InitAnswered \/ Mbim!QueryAnswered \/ Mbim!IpAnswered \/ Mbim!DialAnswered \/ Mbim!StopAnswered \/ Mbim!ReaderLeaves \/ Mbim!HoldOver \/ Mbim!Hangup \/ Mbim!Register \/ Mbim!Lose \/ Mbim!Exited \/ Mbim!Alarm \/ Mbim!Kill \/ Mbim!Suspend \/ Mbim!PollTimeout
  BY <1>2, Zenon DEF MbimFlags, Mbim!InitAnswered, Mbim!TakenSame, Mbim!Taken, Mbim!Ok, Mbim!Again, Mbim!Go, Mbim!QueryAnswered, Mbim!Note, Mbim!Told, Mbim!IpAnswered, Mbim!ToldAddress, Mbim!DialAnswered, Mbim!StopAnswered, Mbim!ReaderLeaves, Mbim!LeaveLoop, Mbim!EnvSame, Mbim!HoldOver, Mbim!ClockSame, Mbim!Hangup, Mbim!Fault, Mbim!Register, Mbim!Indicate, Mbim!Raise, Mbim!Lose, Mbim!Exited, Mbim!vars, Mbim!Alarm, Mbim!Send, Mbim!Kill, Mbim!OnSignal, Mbim!Suspend, Mbim!PollTimeout, Mbim!MainOnly, Mbim!CheckAgain
<1>3. CASE Mbim!Settle \/ Mbim!Dialed \/ Mbim!Quit
  BY <1>3, Zenon DEF MbimFlags, Mbim!Settle, Mbim!MainOnly, Mbim!Return, Mbim!LinkDown, Mbim!Send, Mbim!Dialed, Mbim!Quit
<1>4. CASE Mbim!TakeSignal
  <2>1. Head(v10) \in {"START", "CHECK", "STOP"}
    BY <1>4 DEF Mbim!TakeSignal, MbimLists
  <2>2. UNCHANGED <<v5, v13, v17, v19>>
    BY <1>4, Zenon DEF Mbim!TakeSignal, Mbim!MainOnly
  <2>3. v12' \in BOOLEAN /\ v9' \in {v9, FALSE}
    BY <1>4, <2>1, MbimSignal, Zenon DEF MbimFlags, Mbim!LinkDown
  <2>4. QED
    BY <2>2, <2>3, Zenon DEF MbimFlags
<1>5. CASE Mbim!TakeEvent
  <2>1. Head(v11) \in {"VOICE", "DATA", "DISCONNECTED"}
    BY <1>5 DEF Mbim!TakeEvent, MbimLists
  <2>2. UNCHANGED <<v5, v12, v17, v19>>
    BY <1>5, Zenon DEF Mbim!TakeEvent, Mbim!MainOnly
  <2>3. v13' \in BOOLEAN /\ v9' \in {v9, FALSE}
    BY <1>5, <2>1, MbimEvent, Zenon DEF MbimFlags, Mbim!LinkDown
  <2>4. QED
    BY <2>2, <2>3, Zenon DEF MbimFlags
<1>6. CASE Mbim!Respond \/ Mbim!NoAnswer
  <2>1. v17' \in {v17, TRUE, FALSE}
    BY <1>6, MbimEffect, Zenon DEF Mbim!Respond, Mbim!NoAnswer
  <2>2. UNCHANGED <<v5, v9, v12, v13, v19>>
    BY <1>6, Zenon DEF Mbim!Respond, Mbim!NoAnswer, Mbim!RequestSame
  <2>3. QED
    BY <2>1, <2>2, Zenon DEF MbimFlags
<1>7. QED
  BY <1>1, <1>2, <1>3, <1>4, <1>5, <1>6
     DEF Mbim!Next, Mbim!Main, Mbim!Exchange, Mbim!Clock, Mbim!Environment

LEMMA MbimWordsStay ==
  ASSUME MbimWords, MbimFlags, MbimLists, Mbim!Addressed, Mbim!Next
  PROVE  MbimWords'
<1> USE SessionAssumption, SharedAssumption DEF Mbim!mainVars, Mbim!modemVars
<1>1. CASE Mbim!RegAnswered \/ Mbim!PsAnswered \/ Mbim!AttachAnswered
  <2>1. v1 \in {"startup", "CHECK", "voice"}
    BY <1>1 DEF Mbim!RegAnswered, Mbim!PsAnswered, Mbim!AttachAnswered, Mbim!Addressed
  <2>2. UNCHANGED <<v4, v6, v14, v20>>
    BY <1>1, Zenon DEF Mbim!RegAnswered, Mbim!PsAnswered, Mbim!AttachAnswered, Mbim!TakenSame
  <2>3. \/ v1' = v1 /\ v2' \in {"ps?", "ps="}
        \/ Mbim!Registered(TRUE)
        \/ Mbim!Registered(FALSE)
    BY <1>1, Zenon DEF Mbim!RegAnswered, Mbim!PsAnswered, Mbim!AttachAnswered, Mbim!Attach, Mbim!Go
  <2>4. \/ v1' = v1 /\ v2' \in {"ps?", "ps="}
        \/ v1' = "poll" /\ v2' = "none"
        \/ v1' = "CHECK" /\ v2' \in {"connect?", "settle"}
    BY <2>1, <2>3, MbimRegistered, Zenon DEF MbimFlags
  <2>5. QED
    BY <2>2, <2>4 DEF MbimWords, Mbim!Task, Mbim!Request
<1>2. CASE Mbim!InitAnswered
  BY <1>2 DEF MbimWords, Mbim!Task, Mbim!Request, Mbim!InitAnswered, Mbim!TakenSame, Mbim!Taken, Mbim!Ok, Mbim!Again, Mbim!Go
<1>3. CASE Mbim!QueryAnswered
  BY <1>3 DEF MbimWords, Mbim!Task, Mbim!Request, Mbim!QueryAnswered, Mbim!TakenSame, Mbim!Taken, Mbim!Ok, Mbim!Go, Mbim!Note, Mbim!Told
<1>4. CASE Mbim!IpAnswered
  BY <1>4 DEF MbimWords, Mbim!Task, Mbim!Request, Mbim!IpAnswered, Mbim!TakenSame, Mbim!Taken, Mbim!Ok, Mbim!Go, Mbim!ToldAddress
<1>5. CASE Mbim!DialAnswered
  BY <1>5 DEF MbimWords, Mbim!Task, Mbim!Request, Mbim!DialAnswered, Mbim!TakenSame, Mbim!Taken, Mbim!Ok, Mbim!Go, Mbim!Note, Mbim!Told
<1>6. CASE Mbim!StopAnswered
  BY <1>6 DEF MbimWords, Mbim!Task, Mbim!Request, Mbim!StopAnswered, Mbim!TakenSame, Mbim!Taken, Mbim!Ok, Mbim!Go, Mbim!Note, Mbim!Told
<1>7. CASE Mbim!Settle
  BY <1>7 DEF MbimWords, Mbim!Task, Mbim!Request, Mbim!Settle, Mbim!MainOnly, Mbim!Return, Mbim!LinkDown, Mbim!Send
<1>8. CASE Mbim!Dialed
  BY <1>8 DEF MbimWords, Mbim!Task, Mbim!Request, Mbim!Dialed, Mbim!MainOnly, Mbim!Return
<1>9. CASE Mbim!Quit
  BY <1>9 DEF MbimWords, Mbim!Task, Mbim!Request, Mbim!Quit, Mbim!MainOnly, Mbim!LinkDown
<1>10. CASE Mbim!PollTimeout \/ Mbim!Alarm \/ Mbim!HoldOver \/ Mbim!Exited
  BY <1>10 DEF MbimWords, Mbim!Task, Mbim!Request, Mbim!PollTimeout, Mbim!MainOnly, Mbim!CheckAgain, Mbim!Send, Mbim!Alarm, Mbim!ClockSame, Mbim!HoldOver, Mbim!Exited, Mbim!vars
<1>11. CASE Mbim!ReaderLeaves \/ Mbim!Hangup \/ Mbim!Kill
  BY <1>11 DEF MbimWords, Mbim!Task, Mbim!Request, Mbim!ReaderLeaves, Mbim!LeaveLoop, Mbim!EnvSame, Mbim!Hangup, Mbim!Fault, Mbim!Kill, Mbim!OnSignal, Mbim!Send
<1>12. CASE Mbim!Register \/ Mbim!Lose \/ Mbim!Suspend
  <2>1. UNCHANGED <<v1, v2, v4, v6, v14>>
    BY <1>12, Zenon DEF Mbim!Register, Mbim!Lose, Mbim!Suspend, Mbim!EnvSame
  <2>2. v20' \in {v20, v20 - 1} /\ (v20' # v20 => v20 > 0)
    BY <1>12 DEF Mbim!Register, Mbim!Lose, Mbim!Suspend, Mbim!Fault
  <2>3. QED
    BY <2>1, <2>2 DEF MbimWords
<1>13. CASE Mbim!TakeSignal
  <2>1. Head(v10) \in {"START", "CHECK", "STOP"}
    BY <1>13 DEF Mbim!TakeSignal, MbimLists
  <2>2. UNCHANGED <<v4, v6, v14, v20>>
    BY <1>13, Zenon DEF Mbim!TakeSignal, Mbim!MainOnly
  <2>3. \/ v1' = v1 /\ v2' = v2
        \/ v1' \in {"START", "CHECK", "STOP"} /\ v2' \in {"connect=", "reg?", "settle", "connect?", "hangup", "close"}
    BY <1>13, <2>1, MbimSignal, Zenon DEF MbimFlags
  <2>4. QED
    BY <2>2, <2>3 DEF MbimWords, Mbim!Task, Mbim!Request
<1>14. CASE Mbim!TakeEvent
  <2>1. Head(v11) \in {"VOICE", "DATA", "DISCONNECTED"}
    BY <1>14 DEF Mbim!TakeEvent, MbimLists
  <2>2. UNCHANGED <<v4, v6, v14, v20>>
    BY <1>14, Zenon DEF Mbim!TakeEvent, Mbim!MainOnly
  <2>3. \/ v1' = v1 /\ v2' = v2
        \/ v1' \in {"quit", "voice"} /\ v2' \in {"none", "reg?"}
    BY <1>14, <2>1, MbimEvent, Zenon DEF MbimFlags
  <2>4. QED
    BY <2>2, <2>3 DEF MbimWords, Mbim!Task, Mbim!Request
<1>15. CASE Mbim!Respond \/ Mbim!NoAnswer
  <2>1. UNCHANGED <<v1, v2, v4, v6, v14>> /\ v20' \in {v20, v20 - 1} /\ (v20' # v20 => v20 > 0)
    BY <1>15 DEF Mbim!Respond, Mbim!NoAnswer, Mbim!RequestSame, Mbim!Fault
  <2>2. QED
    BY <2>1 DEF MbimWords
<1>16. QED
  BY <1>1, <1>2, <1>3, <1>4, <1>5, <1>6, <1>7, <1>8, <1>9, <1>10, <1>11, <1>12, <1>13, <1>14, <1>15
     DEF Mbim!Next, Mbim!Main, Mbim!Exchange, Mbim!Clock, Mbim!Environment

LEMMA MbimAnswersStay ==
  ASSUME MbimAnswers, MbimModem, MbimModem', Mbim!Addressed, Mbim!Next
  PROVE  MbimAnswers'
<1> USE SessionAssumption, SharedAssumption DEF Mbim!mainVars, Mbim!modemVars
<1>1. CASE Mbim!InitAnswered \/ Mbim!RegAnswered \/ Mbim!PsAnswered \/ Mbim!AttachAnswered \/ Mbim!QueryAnswered \/ Mbim!IpAnswered \/ Mbim!DialAnswered \/ Mbim!StopAnswered
  <2>1. v3' = <<>>
    BY <1>1 DEF Mbim!Taken, Mbim!InitAnswered, Mbim!RegAnswered, Mbim!PsAnswered, Mbim!AttachAnswered, Mbim!QueryAnswered, Mbim!IpAnswered, Mbim!DialAnswered, Mbim!StopAnswered
  <2>2. QED
    BY <2>1 DEF MbimAnswers
<1>2. CASE Mbim!Settle \/ Mbim!Dialed \/ Mbim!PollTimeout \/ Mbim!Quit
  <2>1. v3' = v3 /\ v3 = <<>>
    BY <1>2 DEF MbimAnswers, Mbim!Addressed, Mbim!Settle, Mbim!MainOnly, Mbim!Return, Mbim!LinkDown, Mbim!Send, Mbim!Dialed, Mbim!PollTimeout, Mbim!CheckAgain, Mbim!Quit
  <2>2. QED
    BY <2>1 DEF MbimAnswers
<1>3. CASE Mbim!TakeSignal \/ Mbim!TakeEvent
  <2>1. v3' = v3 /\ v3 = <<>>
    BY <1>3 DEF MbimAnswers, Mbim!Addressed, Mbim!TakeSignal, Mbim!TakeEvent, Mbim!MainOnly
  <2>2. QED
    BY <2>1 DEF MbimAnswers
<1>4. CASE Mbim!ReaderLeaves \/ Mbim!Alarm \/ Mbim!HoldOver \/ Mbim!Kill \/ Mbim!Hangup \/ Mbim!Register \/ Mbim!Lose \/ Mbim!Suspend \/ Mbim!Exited
  <2>1. v3' = v3 /\ v2' = v2
    BY <1>4, Zenon DEF Mbim!ReaderLeaves, Mbim!LeaveLoop, Mbim!EnvSame, Mbim!Alarm, Mbim!Send, Mbim!ClockSame, Mbim!HoldOver, Mbim!Kill, Mbim!Fault, Mbim!OnSignal, Mbim!Hangup, Mbim!Register, Mbim!Indicate, Mbim!Raise, Mbim!Lose, Mbim!Suspend, Mbim!Exited, Mbim!vars
  <2>2. QED
    BY <2>1 DEF MbimAnswers
<1>5. CASE Mbim!Respond
  <2>1. v2' = v2 /\ v2 \notin {"none", "settle", "dialed"}
    BY <1>5 DEF Mbim!Respond, Mbim!Asked, Mbim!RequestSame
  <2>2. PICK h \in {"ok", "error"} :
          v3' = <<[how |-> h, told |-> v16', addr |-> IF v16'.act = "activated" THEN v18' ELSE 0]>>
    BY <1>5 DEF Mbim!Respond, Mbim!Answer
  <2>3. [how |-> h, told |-> v16', addr |-> IF v16'.act = "activated" THEN v18' ELSE 0] \in Mbim!Reply
    BY DEF MbimModem, Mbim!Reply
  <2>4. QED
    BY <2>1, <2>2, <2>3 DEF MbimAnswers
<1>6. CASE Mbim!NoAnswer
  <2>1. v2' = v2 /\ v2 \notin {"none", "settle", "dialed"}
    BY <1>6 DEF Mbim!NoAnswer, Mbim!Asked, Mbim!RequestSame
  <2>2. [how |-> IF Mbim!Open THEN "timeout" ELSE "gone", told |-> v15, addr |-> 0] \in Mbim!Reply
    BY DEF MbimModem, Mbim!Reply
  <2>3. QED
    BY <1>6, <2>1, <2>2 DEF MbimAnswers, Mbim!NoAnswer
<1>7. QED
  BY <1>1, <1>2, <1>3, <1>4, <1>5, <1>6
     DEF Mbim!Next, Mbim!Main, Mbim!Exchange, Mbim!Clock, Mbim!Environment

LEMMA MbimModemStay ==
  ASSUME MbimModem, MbimAnswers, Mbim!Next
  PROVE  MbimModem'
<1> USE SessionAssumption, SharedAssumption DEF Mbim!mainVars, Mbim!modemVars
<1>1. CASE Mbim!InitAnswered \/ Mbim!IpAnswered \/ Mbim!Settle \/ Mbim!Dialed \/ Mbim!TakeSignal \/ Mbim!TakeEvent \/ Mbim!PollTimeout \/ Mbim!Quit \/ Mbim!ReaderLeaves \/ Mbim!Alarm \/ Mbim!HoldOver \/ Mbim!Kill \/ Mbim!Hangup \/ Mbim!Suspend \/ Mbim!Exited
  BY <1>1, Zenon DEF MbimModem, Mbim!TakenSame, Mbim!MainOnly, Mbim!EnvSame, Mbim!ClockSame, Mbim!vars,
     Mbim!InitAnswered, Mbim!IpAnswered, Mbim!Settle, Mbim!Dialed, Mbim!TakeSignal, Mbim!TakeEvent, Mbim!PollTimeout, Mbim!Quit, Mbim!ReaderLeaves, Mbim!Alarm, Mbim!HoldOver, Mbim!Kill, Mbim!Hangup, Mbim!Suspend, Mbim!Exited
<1>2. CASE Mbim!RegAnswered \/ Mbim!PsAnswered \/ Mbim!AttachAnswered \/ Mbim!QueryAnswered \/ Mbim!DialAnswered \/ Mbim!StopAnswered
  <2>1. v16' = v16 /\ v18' = v18
    BY <1>2, Zenon DEF Mbim!TakenSame, Mbim!RegAnswered, Mbim!PsAnswered, Mbim!AttachAnswered, Mbim!QueryAnswered, Mbim!DialAnswered, Mbim!StopAnswered
  <2>2. v15' = v15 \/ \E f \in {"reg", "ps", "act"} : v15' = [v15 EXCEPT ![f] = v3[1].told[f]]
    BY <1>2 DEF Mbim!Note, Mbim!Told, Mbim!RegAnswered, Mbim!PsAnswered, Mbim!AttachAnswered, Mbim!QueryAnswered, Mbim!DialAnswered, Mbim!StopAnswered
  <2>3. v3 # <<>> /\ v3[1].told \in Mbim!States
    <3>1. v3 # <<>>
      BY <1>2 DEF Mbim!Taken, Mbim!RegAnswered, Mbim!PsAnswered, Mbim!AttachAnswered, Mbim!QueryAnswered, Mbim!DialAnswered, Mbim!StopAnswered
    <3>2. v3[1] \in Mbim!Reply
      BY <3>1, FirstOf DEF MbimAnswers
    <3>3. QED
      BY <3>1, <3>2 DEF Mbim!Reply
  <2>4. QED
    BY <2>1, <2>2, <2>3 DEF MbimModem, Mbim!States
<1>3. CASE Mbim!Register \/ Mbim!Lose
  <2>1. v15' = v15 /\ v18' = v18
    BY <1>3, Zenon DEF Mbim!Register, Mbim!Lose, Mbim!EnvSame
  <2>2. v16' \in Mbim!States
    BY <1>3 DEF MbimModem, Mbim!States, Mbim!Register, Mbim!Lose
  <2>3. QED
    BY <2>1, <2>2 DEF MbimModem
<1>4. CASE Mbim!Respond \/ Mbim!NoAnswer
  <2>1. v15' = v15
    BY <1>4, Zenon DEF Mbim!Respond, Mbim!NoAnswer, Mbim!RequestSame
  <2>2. (v16' = v16 /\ v18' = v18) \/ Mbim!Effect
    BY <1>4, Zenon DEF Mbim!Respond, Mbim!NoAnswer
  <2>3. QED
    BY <2>1, <2>2, MbimEffect DEF MbimModem, Mbim!States
<1>5. QED
  BY <1>1, <1>2, <1>3, <1>4
     DEF Mbim!Next, Mbim!Main, Mbim!Exchange, Mbim!Clock, Mbim!Environment

LEMMA MbimAddressesStay ==
  ASSUME MbimAddresses, MbimAnswers, MbimLists, MbimFlags, Mbim!Next
  PROVE  MbimAddresses'
<1> USE SessionAssumption, SharedAssumption DEF Mbim!mainVars, Mbim!modemVars
<1>1. CASE Mbim!InitAnswered \/ Mbim!RegAnswered \/ Mbim!PsAnswered \/ Mbim!AttachAnswered \/ Mbim!QueryAnswered \/ Mbim!DialAnswered \/ Mbim!StopAnswered \/ Mbim!Dialed \/ Mbim!PollTimeout \/ Mbim!Respond \/ Mbim!NoAnswer \/ Mbim!ReaderLeaves \/ Mbim!Alarm \/ Mbim!HoldOver \/ Mbim!Kill \/ Mbim!Hangup \/ Mbim!Register \/ Mbim!Lose \/ Mbim!Suspend \/ Mbim!Exited
  BY <1>1, Zenon DEF MbimAddresses, Mbim!TakenSame, Mbim!MainOnly, Mbim!EnvSame, Mbim!ClockSame, Mbim!RequestSame, Mbim!vars,
     Mbim!InitAnswered, Mbim!RegAnswered, Mbim!PsAnswered, Mbim!AttachAnswered, Mbim!QueryAnswered, Mbim!DialAnswered, Mbim!StopAnswered, Mbim!Dialed, Mbim!PollTimeout, Mbim!Respond, Mbim!NoAnswer, Mbim!ReaderLeaves, Mbim!Alarm, Mbim!HoldOver, Mbim!Kill, Mbim!Hangup, Mbim!Register, Mbim!Lose, Mbim!Suspend, Mbim!Exited
<1>2. CASE Mbim!IpAnswered
  <2>1. v8' = v8 /\ v7' = Mbim!ToldAddress /\ v3 # <<>>
    BY <1>2 DEF Mbim!IpAnswered, Mbim!Taken, Mbim!TakenSame
  <2>2. v3[1].addr \in Addr \cup {0}
    <3>1. v3[1] \in Mbim!Reply
      BY <2>1, FirstOf DEF MbimAnswers
    <3>2. QED
      BY <3>1 DEF Mbim!Reply
  <2>3. QED
    BY <2>1, <2>2 DEF MbimAddresses, Mbim!ToldAddress
<1>3. CASE Mbim!Settle
  BY <1>3 DEF MbimAddresses, Mbim!Settle, Mbim!LinkDown
<1>4. CASE Mbim!Quit
  BY <1>4 DEF MbimAddresses, Mbim!Quit, Mbim!LinkDown
<1>5. CASE Mbim!TakeSignal
  <2>1. UNCHANGED <<v9, v7, v8>> \/ Mbim!LinkDown
    BY <1>5, Zenon DEF Mbim!TakeSignal
  <2>2. QED
    BY <2>1 DEF MbimAddresses, Mbim!LinkDown
<1>6. CASE Mbim!TakeEvent
  <2>1. Head(v11) \in {"VOICE", "DATA", "DISCONNECTED"}
    BY <1>6 DEF Mbim!TakeEvent, MbimLists
  <2>2. UNCHANGED <<v9, v7, v8>> \/ Mbim!LinkDown
    BY <1>6, <2>1, MbimEvent, Zenon DEF MbimFlags
  <2>3. QED
    BY <2>2 DEF MbimAddresses, Mbim!LinkDown
<1>7. QED
  BY <1>1, <1>2, <1>3, <1>4, <1>5, <1>6
     DEF Mbim!Next, Mbim!Main, Mbim!Exchange, Mbim!Clock, Mbim!Environment

LEMMA MbimListsStay ==
  ASSUME MbimLists, MbimFlags, Mbim!Addressed, Mbim!Next
  PROVE  MbimLists'
<1> USE SessionAssumption, SharedAssumption DEF Mbim!mainVars, Mbim!modemVars
<1>1. CASE Mbim!InitAnswered \/ Mbim!QueryAnswered \/ Mbim!IpAnswered \/ Mbim!DialAnswered \/ Mbim!StopAnswered \/ Mbim!Dialed \/ Mbim!HoldOver \/ Mbim!Respond \/ Mbim!NoAnswer \/ Mbim!Suspend \/ Mbim!Exited
  BY <1>1, Zenon DEF MbimLists, Mbim!TakenSame, Mbim!MainOnly, Mbim!EnvSame, Mbim!ClockSame, Mbim!RequestSame, Mbim!vars,
     Mbim!InitAnswered, Mbim!QueryAnswered, Mbim!IpAnswered, Mbim!DialAnswered, Mbim!StopAnswered, Mbim!Dialed, Mbim!HoldOver, Mbim!Respond, Mbim!NoAnswer, Mbim!Suspend, Mbim!Exited
<1>2. CASE Mbim!RegAnswered \/ Mbim!PsAnswered \/ Mbim!AttachAnswered
  <2>1. v1 \in {"startup", "CHECK", "voice"}
    BY <1>2 DEF Mbim!RegAnswered, Mbim!PsAnswered, Mbim!AttachAnswered, Mbim!Addressed
  <2>2. v11' = v11
    BY <1>2, Zenon DEF Mbim!RegAnswered, Mbim!PsAnswered, Mbim!AttachAnswered, Mbim!TakenSame
  <2>3. v10' = v10 \/ Mbim!Registered(TRUE) \/ Mbim!Registered(FALSE)
    BY <1>2, Zenon DEF Mbim!RegAnswered, Mbim!PsAnswered, Mbim!AttachAnswered, Mbim!Attach
  <2>4. v10' \in {v10, Append(v10, "CHECK"), Append(v10, "START")}
    BY <2>1, <2>3, MbimRegistered, Zenon DEF MbimFlags
  <2>5. QED
    BY <2>2, <2>4 DEF MbimLists
<1>3. CASE Mbim!Settle \/ Mbim!PollTimeout \/ Mbim!Quit \/ Mbim!Alarm \/ Mbim!Kill
  <2>1. v10' \in {v10, <<>>, Append(v10, "START"), Append(v10, "CHECK"), Append(v10, "STOP")} /\ v11' \in {v11, <<>>}
    BY <1>3 DEF Mbim!Send, Mbim!OnSignal, Mbim!ClockSame, Mbim!MainOnly, Mbim!Settle, Mbim!MainOnly, Mbim!Return, Mbim!LinkDown, Mbim!Send, Mbim!PollTimeout, Mbim!CheckAgain, Mbim!Quit, Mbim!Alarm, Mbim!ClockSame, Mbim!Kill, Mbim!Fault, Mbim!OnSignal
  <2>2. /\ Append(v10, "START") \in Seq({"START", "CHECK", "STOP"}) /\ Append(v10, "CHECK") \in Seq({"START", "CHECK", "STOP"})
        /\ Append(v10, "STOP") \in Seq({"START", "CHECK", "STOP"}) /\ <<>> \in Seq({"START", "CHECK", "STOP"})
        /\ <<>> \in Seq({"VOICE", "DATA", "DISCONNECTED"})
    BY DEF MbimLists
  <2>3. QED
    BY <2>1, <2>2, Zenon DEF MbimLists
<1>4. CASE Mbim!TakeSignal
  BY <1>4 DEF MbimLists, Mbim!TakeSignal
<1>5. CASE Mbim!TakeEvent
  <2>1. Head(v11) \in {"VOICE", "DATA", "DISCONNECTED"} /\ v11' = Tail(v11) /\ v11 # <<>>
    BY <1>5 DEF Mbim!TakeEvent, MbimLists
  <2>2. v10' \in {v10, Append(v10, "CHECK")}
    BY <1>5, <2>1, MbimEvent, Zenon DEF MbimFlags
  <2>3. v11' \in Seq({"VOICE", "DATA", "DISCONNECTED"})
    BY <2>1 DEF MbimLists
  <2>4. Append(v10, "CHECK") \in Seq({"START", "CHECK", "STOP"})
    BY DEF MbimLists
  <2>5. QED
    BY <2>2, <2>3, <2>4, Zenon DEF MbimLists
<1>6. CASE Mbim!ReaderLeaves \/ Mbim!Hangup
  <2>1. v10' = v10 /\ v11' = Append(v11, "DISCONNECTED")
    BY <1>6, Zenon DEF Mbim!ReaderLeaves, Mbim!Hangup, Mbim!LeaveLoop, Mbim!EnvSame
  <2>2. QED
    BY <2>1 DEF MbimLists
<1>7. CASE Mbim!Register \/ Mbim!Lose
  <2>1. v10' = v10 /\ Mbim!Indicate
    BY <1>7, Zenon DEF Mbim!Register, Mbim!Lose, Mbim!EnvSame
  <2>2. Mbim!Raise("reg", "VOICE") \in Seq({"VOICE", "DATA", "DISCONNECTED"})
        /\ Mbim!Raise("act", "DATA") \in Seq({"VOICE", "DATA", "DISCONNECTED"})
    <3>1. Mbim!Raise("reg", "VOICE") \in {<<>>, <<"VOICE">>} /\ Mbim!Raise("act", "DATA") \in {<<>>, <<"DATA">>}
      BY Zenon DEF Mbim!Raise
    <3>2. /\ <<>> \in Seq({"VOICE", "DATA", "DISCONNECTED"})
          /\ <<"VOICE">> \in Seq({"VOICE", "DATA", "DISCONNECTED"}) /\ <<"DATA">> \in Seq({"VOICE", "DATA", "DISCONNECTED"})
      OBVIOUS
    <3>3. QED
      BY <3>1, <3>2, Zenon
  <2>3. QED
    BY <2>1, <2>2, ConcatType, Zenon DEF MbimLists, Mbim!Indicate
<1>8. QED
  BY <1>1, <1>2, <1>3, <1>4, <1>5, <1>6, <1>7
     DEF Mbim!Next, Mbim!Main, Mbim!Exchange, Mbim!Clock, Mbim!Environment

\* A call begins with a dial only, and keeps its address.
MbimCalls == v16'.act = "activated" => v2 = "connect=" \/ (v16.act = "activated" /\ v18' = v18)

\* The address that main knows, is told, or has set is that of the call there is.
LEMMA MbimAddressed ==
  ASSUME Mbim!TypeOK, Mbim!Addressed, Mbim!Next
  PROVE  Mbim!Addressed'
<1> USE SessionAssumption, SharedAssumption DEF Mbim!mainVars, Mbim!modemVars
<1>1. CASE Mbim!InitAnswered
  BY <1>1 DEF Mbim!InitAnswered, Mbim!TakenSame, Mbim!Taken, Mbim!Ok, Mbim!Again, Mbim!Go, Mbim!TypeOK, Mbim!Addressed, Mbim!AddressOfCall
<1>2. CASE Mbim!RegAnswered
  BY <1>2 DEF Mbim!RegAnswered, Mbim!TakenSame, Mbim!Taken, Mbim!Ok, Mbim!Go, Mbim!Note, Mbim!Told, Mbim!Registered, Mbim!Return, Mbim!Send, Mbim!TypeOK, Mbim!Addressed, Mbim!AddressOfCall
<1>3. CASE Mbim!PsAnswered
  BY <1>3 DEF Mbim!PsAnswered, Mbim!TakenSame, Mbim!Taken, Mbim!Ok, Mbim!Go, Mbim!Note, Mbim!Told, Mbim!Registered, Mbim!Return, Mbim!Send, Mbim!Attach, Mbim!TypeOK, Mbim!Addressed, Mbim!AddressOfCall
<1>4. CASE Mbim!AttachAnswered
  BY <1>4 DEF Mbim!AttachAnswered, Mbim!TakenSame, Mbim!Taken, Mbim!Ok, Mbim!Go, Mbim!Note, Mbim!Told, Mbim!Registered, Mbim!Return, Mbim!Send, Mbim!TypeOK, Mbim!Addressed, Mbim!AddressOfCall
<1>5. CASE Mbim!QueryAnswered
  BY <1>5 DEF Mbim!QueryAnswered, Mbim!TakenSame, Mbim!Taken, Mbim!Ok, Mbim!Go, Mbim!Note, Mbim!Told, Mbim!TypeOK, Mbim!Addressed, Mbim!AddressOfCall
<1>6. CASE Mbim!IpAnswered
  BY <1>6 DEF Mbim!IpAnswered, Mbim!TakenSame, Mbim!Taken, Mbim!Ok, Mbim!Go, Mbim!ToldAddress, Mbim!TypeOK, Mbim!Addressed, Mbim!AddressOfCall
<1>7. CASE Mbim!DialAnswered
  BY <1>7 DEF Mbim!DialAnswered, Mbim!TakenSame, Mbim!Taken, Mbim!Ok, Mbim!Go, Mbim!Note, Mbim!Told, Mbim!TypeOK, Mbim!Addressed, Mbim!AddressOfCall
<1>8. CASE Mbim!StopAnswered
  BY <1>8 DEF Mbim!StopAnswered, Mbim!TakenSame, Mbim!Taken, Mbim!Ok, Mbim!Go, Mbim!Note, Mbim!Told, Mbim!TypeOK, Mbim!Addressed, Mbim!AddressOfCall
<1>9. CASE Mbim!Settle
  BY <1>9 DEF Mbim!Settle, Mbim!MainOnly, Mbim!Return, Mbim!LinkDown, Mbim!Send, Mbim!TypeOK, Mbim!Addressed, Mbim!AddressOfCall, Mbim!Ok
<1>10. CASE Mbim!Dialed
  BY <1>10 DEF Mbim!Dialed, Mbim!MainOnly, Mbim!Return, Mbim!TypeOK, Mbim!Addressed, Mbim!AddressOfCall, Mbim!Ok
<1>11. CASE Mbim!TakeSignal
  <2>1. Head(v10) \in {"START", "CHECK", "STOP"}
    BY <1>11 DEF Mbim!TakeSignal, Mbim!TypeOK
  <2>2. v1 = "poll" /\ v3' = v3 /\ v6' = v6 /\ v16' = v16 /\ v18' = v18
    BY <1>11, Zenon DEF Mbim!TakeSignal, Mbim!MainOnly
  <2>3. v5 \in BOOLEAN /\ v12 \in BOOLEAN /\ v13 \in BOOLEAN
    BY Zenon DEF Mbim!TypeOK
  <2>4. QED
    BY <1>11, <2>1, <2>2, <2>3, MbimSignal DEF Mbim!LinkDown, Mbim!TypeOK, Mbim!Addressed, Mbim!AddressOfCall, Mbim!Ok
<1>12. CASE Mbim!TakeEvent
  <2>1. Head(v11) \in {"VOICE", "DATA", "DISCONNECTED"}
    BY <1>12 DEF Mbim!TakeEvent, Mbim!TypeOK
  <2>2. v1 = "poll" /\ v3' = v3 /\ v6' = v6 /\ v16' = v16 /\ v18' = v18
    BY <1>12, Zenon DEF Mbim!TakeEvent, Mbim!MainOnly
  <2>3. v13 \in BOOLEAN
    BY Zenon DEF Mbim!TypeOK
  <2>4. \/ v1' = "quit" /\ v2' = "none" /\ Mbim!LinkDown
        \/ v1' = "voice" /\ v2' = "reg?" /\ UNCHANGED <<v9, v7, v8>>
        \/ v1' = v1 /\ v2' = v2 /\ UNCHANGED <<v9, v7, v8>>
    BY <1>12, <2>1, <2>3, MbimEvent
  <2>5. QED
    BY <2>2, <2>4 DEF Mbim!LinkDown, Mbim!TypeOK, Mbim!Addressed, Mbim!AddressOfCall, Mbim!Ok
<1>13. CASE Mbim!PollTimeout
  BY <1>13 DEF Mbim!PollTimeout, Mbim!MainOnly, Mbim!CheckAgain, Mbim!Send, Mbim!TypeOK, Mbim!Addressed, Mbim!AddressOfCall, Mbim!Ok
<1>14. CASE Mbim!Quit
  BY <1>14 DEF Mbim!Quit, Mbim!MainOnly, Mbim!LinkDown, Mbim!TypeOK, Mbim!Addressed, Mbim!AddressOfCall, Mbim!Ok
<1>15. CASE Mbim!Respond
  <2>1. UNCHANGED <<v1, v2, v6, v7, v8, v9>> /\ v3 = <<>> /\ v2 # "none"
    BY <1>15 DEF Mbim!Respond, Mbim!Asked, Mbim!RequestSame
  <2>2. PICK h \in {"ok", "error"} :
          v3' = <<[how |-> h, told |-> v16', addr |-> IF v16'.act = "activated" THEN v18' ELSE 0]>>
    BY <1>15 DEF Mbim!Respond, Mbim!Answer
  <2>3. MbimCalls
    BY <1>15, MbimEffect DEF Mbim!Respond, MbimCalls, Mbim!TypeOK, Mbim!States
  <2>4. QED
    BY <2>1, <2>2, <2>3 DEF MbimCalls, Mbim!TypeOK, Mbim!Addressed, Mbim!AddressOfCall, Mbim!Ok
<1>16. CASE Mbim!NoAnswer
  <2>1. UNCHANGED <<v1, v2, v6, v7, v8, v9>> /\ v3 = <<>> /\ v2 # "none"
    BY <1>16 DEF Mbim!NoAnswer, Mbim!Asked, Mbim!RequestSame
  <2>2. v3'[1].how # "ok"
    BY <1>16 DEF Mbim!NoAnswer
  <2>3. MbimCalls
    BY <1>16, MbimEffect DEF Mbim!NoAnswer, MbimCalls, Mbim!TypeOK, Mbim!States
  <2>4. QED
    BY <2>1, <2>2, <2>3 DEF MbimCalls, Mbim!TypeOK, Mbim!Addressed, Mbim!AddressOfCall, Mbim!Ok
<1>17. CASE Mbim!ReaderLeaves
  BY <1>17 DEF Mbim!ReaderLeaves, Mbim!LeaveLoop, Mbim!EnvSame, Mbim!TypeOK, Mbim!Addressed, Mbim!AddressOfCall, Mbim!Ok
<1>18. CASE Mbim!Alarm
  BY <1>18 DEF Mbim!Alarm, Mbim!Send, Mbim!ClockSame, Mbim!TypeOK, Mbim!Addressed, Mbim!AddressOfCall, Mbim!Ok
<1>19. CASE Mbim!HoldOver
  BY <1>19 DEF Mbim!HoldOver, Mbim!ClockSame, Mbim!TypeOK, Mbim!Addressed, Mbim!AddressOfCall, Mbim!Ok
<1>20. CASE Mbim!Kill
  BY <1>20 DEF Mbim!Kill, Mbim!Fault, Mbim!OnSignal, Mbim!Send, Mbim!TypeOK, Mbim!Addressed, Mbim!AddressOfCall, Mbim!Ok
<1>21. CASE Mbim!Hangup
  BY <1>21 DEF Mbim!Hangup, Mbim!Fault, Mbim!LeaveLoop, Mbim!EnvSame, Mbim!TypeOK, Mbim!Addressed, Mbim!AddressOfCall, Mbim!Ok
<1>22. CASE Mbim!Register
  BY <1>22 DEF Mbim!Register, Mbim!Indicate, Mbim!EnvSame, Mbim!Raise, Mbim!TypeOK, Mbim!Addressed, Mbim!AddressOfCall, Mbim!Ok
<1>23. CASE Mbim!Lose
  BY <1>23 DEF Mbim!Lose, Mbim!Fault, Mbim!Indicate, Mbim!EnvSame, Mbim!Raise, Mbim!TypeOK, Mbim!Addressed, Mbim!AddressOfCall, Mbim!Ok
<1>24. CASE Mbim!Suspend
  BY <1>24 DEF Mbim!Suspend, Mbim!Fault, Mbim!EnvSame, Mbim!TypeOK, Mbim!Addressed, Mbim!AddressOfCall, Mbim!Ok
<1>25. CASE Mbim!Exited
  BY <1>25 DEF Mbim!Exited, Mbim!vars, Mbim!TypeOK, Mbim!Addressed, Mbim!AddressOfCall, Mbim!Ok
<1>26. QED
  BY <1>1, <1>2, <1>3, <1>4, <1>5, <1>6, <1>7, <1>8, <1>9, <1>10, <1>11, <1>12, <1>13, <1>14, <1>15, <1>16, <1>17, <1>18, <1>19, <1>20, <1>21, <1>22, <1>23, <1>24, <1>25
     DEF Mbim!Next, Mbim!Main, Mbim!Exchange, Mbim!Clock, Mbim!Environment

LEMMA MbimInit == Mbim!Init => Mbim!TypeOK /\ Mbim!Addressed
<1> SUFFICES ASSUME Mbim!Init PROVE Mbim!TypeOK /\ Mbim!Addressed
  OBVIOUS
<1> USE SessionAssumption, SharedAssumption DEF Mbim!Init
<1>1. MbimFlags
  BY Zenon DEF MbimFlags
<1>2. MbimWords /\ MbimAnswers /\ MbimLists /\ MbimAddresses
  BY DEF MbimWords, MbimAnswers, MbimLists, MbimAddresses, Mbim!Task, Mbim!Request
<1>3. MbimModem
  <2>1. v18 \in Addr
    <3>1. (CHOOSE a \in Addr : TRUE) \in Addr
      OBVIOUS
    <3>2. QED
      BY <3>1
  <2>2. v15 \in Mbim!States /\ v16 \in Mbim!States
    BY DEF Mbim!States
  <2>3. QED
    BY <2>1, <2>2 DEF MbimModem
<1>4. Mbim!Addressed
  BY DEF Mbim!Addressed, Mbim!AddressOfCall
<1>5. QED
  BY <1>1, <1>2, <1>3, <1>4, MbimTypeParts

LEMMA MbimSteps ==
  ASSUME Mbim!TypeOK, Mbim!Addressed, [Mbim!Next]_(Mbim!vars)
  PROVE  Mbim!TypeOK' /\ Mbim!Addressed'
<1>1. CASE Mbim!Next
  <2>1. MbimFlags /\ MbimWords /\ MbimAnswers /\ MbimLists /\ MbimModem /\ MbimAddresses
    BY MbimTypeParts
  <2>2. MbimModem'
    BY <1>1, <2>1, MbimModemStay
  <2>3. MbimFlags' /\ MbimWords' /\ MbimAnswers' /\ MbimLists' /\ MbimAddresses'
    BY <1>1, <2>1, <2>2, MbimFlagsStay, MbimWordsStay, MbimAnswersStay, MbimListsStay, MbimAddressesStay
  <2>4. Mbim!TypeOK'
    BY <2>2, <2>3, Zenon DEF Mbim!TypeOK, MbimFlags, MbimWords, MbimAnswers, MbimLists, MbimModem, MbimAddresses
  <2>5. QED
    BY <1>1, <2>4, MbimAddressed
<1>2. CASE UNCHANGED Mbim!vars
  <2>1. Mbim!TypeOK'
    <3>1. MbimFlags /\ MbimWords /\ MbimAnswers /\ MbimLists /\ MbimModem /\ MbimAddresses
      BY MbimTypeParts
    <3>2. UNCHANGED <<v1, v2, v3, v4, v5, v6, v7, v8, v9, v15>>
      BY <1>2, Zenon DEF Mbim!vars, Mbim!mainVars
    <3>3. UNCHANGED <<v10, v11, v12, v13, v14, v16, v17, v18, v19, v20>>
      BY <1>2, Zenon DEF Mbim!vars, Mbim!modemVars
    <3>4. MbimFlags'
      BY <3>1, <3>2, <3>3, Zenon DEF MbimFlags
    <3>5. MbimWords'
      BY <3>1, <3>2, <3>3, Zenon DEF MbimWords
    <3>6. MbimAnswers' /\ MbimLists'
      BY <3>1, <3>2, <3>3, Zenon DEF MbimAnswers, MbimLists
    <3>7. MbimModem' /\ MbimAddresses'
      BY <3>1, <3>2, <3>3, Zenon DEF MbimModem, MbimAddresses
    <3>8. QED
      BY <3>4, <3>5, <3>6, <3>7, Zenon DEF Mbim!TypeOK, MbimFlags, MbimWords, MbimAnswers, MbimLists, MbimModem, MbimAddresses
  <2>2. Mbim!Addressed'
    BY <1>2 DEF Mbim!vars, Mbim!mainVars, Mbim!modemVars, Mbim!Addressed, Mbim!AddressOfCall, Mbim!Ok
  <2>3. QED
    BY <2>1, <2>2
<1>3. QED
  BY <1>1, <1>2

\* Command!LeavesProxyByte, Command!NullForEnd and Mbim!AddressOfCall: for any
\* number of calls and of faults, every number leaves quectel-mbim-proxy its byte, a
\* call returns nothing only at the end of the reader, and the address on the
\* interface is that of the call there is.
THEOREM MbimSafely == Spec => []MbimSafe
<1> DEFINE Inv == (part = "command" => CommandInv) /\ (part = "mbim" => Mbim!TypeOK /\ Mbim!Addressed)
<1>1. Init => Inv
  BY CommandInit, MbimInit DEF Init
<1>2. Inv /\ [Next]_vars => Inv'
  <2> SUFFICES ASSUME Inv, [Next]_vars PROVE Inv'
    OBVIOUS
  <2>1. ASSUME part' = "command" PROVE part = "command" /\ [Command!Next]_(Command!vars)
    BY <2>1 DEF Next, vars, Command!vars, Command!callVars, Command!netVars
  <2>2. ASSUME part' = "mbim" PROVE part = "mbim" /\ [Mbim!Next]_(Mbim!vars)
    BY <2>2 DEF Next, vars, Mbim!vars, Mbim!mainVars, Mbim!modemVars
  <2>3. QED
    BY <2>1, <2>2, CommandKeeps, MbimSteps
<1>3. Inv => MbimSafe
  BY DEF MbimSafe, CommandInv, Command!Numbers, Command!LeavesProxyByte, Mbim!Addressed
<1>4. QED
  BY <1>1, <1>2, <1>3, PTL DEF Spec
=============================================================================
