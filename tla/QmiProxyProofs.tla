--------------------------- MODULE QmiProxyProofs ---------------------------
(***************************************************************************)
(* Theorems about QmiProxy. For any clients: types, and that the queue of  *)
(* control messages moves on as long as the modem answers. For clients     *)
(* that wait for their answers: who is handed an answer, and that the      *)
(* client ids are neither lost nor shared.                                 *)
(*                                                                         *)
(* The invariant of the second half, OrderlyInv, follows each request:     *)
(* from the client that waits for it through the queue and the modem back  *)
(* to the client. The queue and the two directions of the device are one   *)
(* path, which has one control message at most; a client id is held by a   *)
(* connection, on its way to one, or about to be released.                 *)
(***************************************************************************)
EXTENDS QmiProxy, Lists

\* A list keeps its type when an element is taken out of it.
LEMMA WithoutFirstType ==
  ASSUME NEW S, NEW s \in Seq(S), NEW I \in SUBSET (1..Len(s))
  PROVE  WithoutFirst(s, I) \in Seq(S)
<1>1. CASE I = {}
  BY <1>1 DEF WithoutFirst
<1>2. CASE I # {}
  <2>1. Min(I) \in 1..Len(s)
    <3>1. I \in SUBSET Nat
      OBVIOUS
    <3>2. QED
      BY <1>2, <3>1, SmallestIndex
  <2>2. RemoveAt(s, Min(I)) \in Seq(S)
    BY <2>1, RemoveAtType
  <2>3. QED
    BY <1>2, <2>2 DEF WithoutFirst
<1>3. QED
  BY <1>1, <1>2

-----------------------------------------------------------------------------
(* Types.                                                                  *)

\* A message built from typed parts is typed.
LEMMA MsgType ==
  ASSUME NEW type \in Control \cup {"SVC", "REVOKE"}, NEW id \in 0..Ids,
         NEW tid \in Nat, NEW by \in 0..Clients
  PROVE  Msg(type, id, tid, by) \in Message
  BY DEF Msg, Message, MessageOf

\* The parts of sessions keep their types.
LEMMA SessionTyped ==
  ASSUME TypeOK, Session
  PROVE  TypeOK'
<1>0. Nothing \in Message
  BY MsgType, ProxyAssumption DEF Nothing, Control
<1>1. CASE OpenDevice
  <2>1. /\ phase' \in {"closed", "sync", "serving", "exit"}
        /\ tries' \in 0..MaxSync /\ queue' \in Seq(Entry) /\ sent' \subseteq Client \X Message
    BY <1>1, ProxyAssumption DEF OpenDevice
  <2>2. syncDone' \in BOOLEAN
    BY <1>1, Zenon DEF OpenDevice
  <2>3. QED
    BY <1>1, <2>1, <2>2 DEF OpenDevice, TypeOK, devVars, clientVars
<1>2. CASE SendSync
  <2>1. Msg("SYNC", 0, tries + 1, 0) \in Message
    BY MsgType, ProxyAssumption DEF TypeOK, Control
  <2>2. toDev' \in Seq(Message) /\ tries' \in 0..MaxSync
    BY <1>2, <2>1, ProxyAssumption DEF SendSync, TypeOK
  <2>3. QED
    BY <1>2, <2>2 DEF SendSync, TypeOK, proxyVars, clientVars
<1>3. CASE OpenServer
  BY <1>3 DEF OpenServer, TypeOK, proxyVars, devVars, clientVars
<1>4. ASSUME NEW next \in {"closed", "exit"}, EndSession(next), faults' \in 0..MaxFaults
      PROVE  TypeOK'
  BY <1>0, <1>4, ProxyAssumption DEF EndSession, TypeOK
<1>5. CASE GiveUp
  BY <1>4, <1>5 DEF GiveUp, TypeOK
<1>6. CASE DeviceLost
  <2>1. faults' \in 0..MaxFaults
    BY <1>6, ProxyAssumption DEF DeviceLost, Fault, TypeOK
  <2>2. QED
    BY <1>4, <1>6, <2>1 DEF DeviceLost
<1>7. CASE Quit
  BY <1>4, <1>7 DEF Quit, TypeOK
<1>8. QED
  BY <1>1, <1>2, <1>3, <1>5, <1>6, <1>7 DEF Session

\* SIGPIPE ends the process as SIGINT does.
LEMMA WriteFailsQuits ==
  ASSUME WriteFails
  PROVE  Quit /\ Session
BY DEF WriteFails, Quit, Session

\* The steps of the loop for a client keep the types.
LEMMA ClientStepTyped ==
  ASSUME TypeOK, NEW c \in Client, Accept(c) \/ Read(c) \/ Cleanup(c)
  PROVE  TypeOK'
<1>1. CASE Accept(c)
  <2>1. PICK f \in Fd : fdOf' = [fdOf EXCEPT ![c] = f]
    BY <1>1 DEF Accept
  <2>2. fdOf' \in [Client -> 0..Clients]
    BY <2>1, ProxyAssumption DEF TypeOK, Fd
  <2>3. QED
    BY <1>1, <2>2 DEF Accept, TypeOK, sessionVars, devVars
<1>2. CASE Read(c)
  <2>1. CASE Len(inbox[c]) = 1
    <3>0. inbox[c] \in Seq(Message) /\ fdOf[c] \in 0..Clients
      BY DEF TypeOK
    <3>1. inbox[c][1] \in Message /\ fdOf[c] \in 0..Clients
      BY <2>1, <3>0
    <3>2. inbox[c][1].type \in Control => [fd |-> fdOf[c], req |-> inbox[c][1]] \in Entry
      BY <3>1 DEF Entry, Message, MessageOf
    <3>3. toDev' \in Seq(Message) /\ queue' \in Seq(Entry)
      <4>1. toDev \in Seq(Message) /\ queue \in Seq(Entry)
        BY DEF TypeOK
      <4>2. Forward(fdOf[c], inbox[c][1])
        BY <1>2, <2>1 DEF Read
      <4>3. Append(toDev, inbox[c][1]) \in Seq(Message)
        BY <3>1, <4>1
      <4>4. inbox[c][1].type \in Control => Append(queue, [fd |-> fdOf[c], req |-> inbox[c][1]]) \in Seq(Entry)
        BY <3>2, <4>1
      <4>5. QED
        BY <4>1, <4>2, <4>3, <4>4 DEF Forward
    <3>4. QED
      BY <1>2, <3>3, SMTT(30) DEF Read, TypeOK, sessionVars
  <2>2. CASE Len(inbox[c]) # 1
    BY <1>2, <2>2 DEF Read, TypeOK, sessionVars
  <2>3. QED
    BY <2>1, <2>2
<1>3. CASE Cleanup(c)
  <2> DEFINE waiting == queue \o Releases(c)
             I == {i \in 1..Len(waiting) : waiting[i].fd = fdOf[c]}
  <2>1. Releases(c) \in Seq(Entry)
    <3>1. \A i \in 1..Len(owned[c]) : owned[c][i] \in 0..Ids
      BY ElementType, ProxyAssumption DEF TypeOK, Id
    <3>2. \A i \in 1..Len(owned[c]) : Msg("RELEASE", owned[c][i], ProxyTid, 0) \in MessageOf(Control)
      BY <3>1, ProxyAssumption DEF ProxyTid, Control, Msg, MessageOf
    <3>3. \A i \in 1..Len(owned[c]) :
            [fd |-> Server, req |-> Msg("RELEASE", owned[c][i], ProxyTid, 0)] \in Entry
      BY <3>2, ProxyAssumption DEF Entry, Server
    <3>4. Len(owned[c]) \in Nat
      BY DEF TypeOK
    <3>5. QED
      BY <3>3, <3>4 DEF Releases
  <2>2. waiting \in Seq(Entry)
    BY <2>1 DEF TypeOK
  <2>3. queue' \in Seq(Entry)
    BY <1>3, <2>2, WithoutFirstType DEF Cleanup
  <2>4. toDev' \in Seq(Message)
    <3>1. ASSUME Releases(c) # <<>> PROVE Releases(c)[1].req \in Message
      <4>1. Releases(c)[1] \in Entry
        BY <2>1, <3>1
      <4>2. QED
        BY <4>1 DEF Entry, Message, MessageOf
    <3>2. QED
      BY <1>3, <3>1 DEF Cleanup, TypeOK
  <2>5. QED
    <3>1. fdOf' \in [Client -> 0..Clients] /\ owned' \in [Client -> Seq(Id)]
      BY <1>3, ProxyAssumption DEF Cleanup, TypeOK
    <3>2. inbox' \in [Client -> Seq(Message)] /\ sent' \subseteq Client \X Message
      BY <1>3 DEF Cleanup, TypeOK
    <3>3. QED
      BY <1>3, <2>3, <2>4, <3>1, <3>2 DEF Cleanup, TypeOK, sessionVars
<1>4. QED
  BY <1>1, <1>2, <1>3

\* What the proxy hands to clients leaves them typed.
LEMMA DeliverTyped ==
  ASSUME TypeOK, NEW to \in SUBSET Client, NEW m \in FromModem, Deliver(to, m)
  PROVE  /\ sent' \subseteq Client \X Message
         /\ ask' \in [Client -> Message] /\ mine' \in [Client -> SUBSET Id]
<1>0. Nothing \in Message
  BY MsgType, ProxyAssumption DEF Nothing, Control
<1>1. m \in Message /\ (m.type = "GET" /\ m.ok => m.id \in Id)
  BY DEF FromModem
<1>2. QED
  BY <1>0, <1>1 DEF Deliver, TypeOK

\* The head of the queue is done: the queue and the device keep their types.
LEMMA PopTyped ==
  ASSUME TypeOK, queue # <<>>, Pop
  PROVE  queue' \in Seq(Entry) /\ toDev' \in Seq(Message)
<1>1. queue \in Seq(Entry) /\ toDev \in Seq(Message)
  BY DEF TypeOK
<1>2. Tail(queue) \in Seq(Entry)
  BY <1>1, HeadAndTail
<1>3. ASSUME Len(queue) > 1 PROVE queue[2].req \in Message
  <2>1. queue[2] \in Entry
    BY <1>1, <1>3
  <2>2. QED
    BY <2>1 DEF Entry, Message, MessageOf
<1>4. Len(queue) > 1 => Append(toDev, queue[2].req) \in Seq(Message)
  BY <1>1, <1>3
<1>5. QED
  BY <1>1, <1>2, <1>4 DEF Pop

\* get_client_id() and release_client_id() leave a list of ids.
LEMMA RecordTyped ==
  ASSUME TypeOK, NEW c \in Client, NEW m \in FromModem
  PROVE  Record(c, m) \in Seq(Id)
<1>1. owned[c] \in Seq(Id)
  BY DEF TypeOK
<1>2. CASE m.ok /\ m.type = "GET"
  <2>1. m.id \in Id
    BY <1>2 DEF FromModem
  <2>2. Record(c, m) = Append(owned[c], m.id)
    BY <1>2 DEF Record
  <2>3. QED
    BY <1>1, <2>1, <2>2
<1>3. CASE m.ok /\ m.type = "RELEASE"
  <2> DEFINE I == {i \in 1..Len(owned[c]) : owned[c][i] = m.id}
  <2>1. WithoutFirst(owned[c], I) \in Seq(Id)
    BY <1>1, WithoutFirstType
  <2>2. Record(c, m) = WithoutFirst(owned[c], I)
    BY <1>3 DEF Record
  <2>3. QED
    BY <2>1, <2>2
<1>4. CASE ~(m.ok /\ m.type = "GET") /\ ~(m.ok /\ m.type = "RELEASE")
  BY <1>1, <1>4 DEF Record
<1>5. QED
  BY <1>2, <1>3, <1>4

\* The steps of the loop for the device keep the types.
LEMMA DeviceStepTyped ==
  ASSUME TypeOK, FromDevInSync \/ FromDev
  PROVE  TypeOK'
<1>0. fromDev \in Seq(FromModem) /\ fromDev # <<>>
  BY DEF TypeOK, FromDevInSync, FromDev
<1>1. Head(fromDev) \in FromModem /\ Tail(fromDev) \in Seq(FromModem)
  BY <1>0, HeadAndTail
<1>2. CASE FromDevInSync
  <2>1. syncDone' \in BOOLEAN
    BY <1>2, Zenon DEF FromDevInSync
  <2>2. QED
    BY <1>1, <1>2, <2>1 DEF FromDevInSync, TypeOK, proxyVars, clientVars
<1>3. CASE FromDev
  <2> DEFINE m == Head(fromDev)
  <2>1. \E to \in SUBSET Client : Deliver(to, m)
    <3>1. CASE m.type \in Control /\ ControlAnswer(m)
      BY <3>1 DEF ControlAnswer, Asker, Connected
    <3>2. CASE m.type = "SVC" /\ Deliver(Holders(m.id), m)
      BY <3>2 DEF Holders, Connected
    <3>3. CASE m.type = "REVOKE" /\ Deliver({}, m)
      BY <3>3
    <3>4. QED
      BY <1>3, <3>1, <3>2, <3>3 DEF FromDev
  <2>2. /\ sent' \subseteq Client \X Message
        /\ ask' \in [Client -> Message] /\ mine' \in [Client -> SUBSET Id]
    BY <1>1, <2>1, DeliverTyped
  <2>3. queue' \in Seq(Entry) /\ toDev' \in Seq(Message) /\ owned' \in [Client -> Seq(Id)]
    <3>1. CASE UNCHANGED <<queue, toDev, owned>>
      BY <3>1 DEF TypeOK
    <3>2. CASE queue # <<>> /\ ControlAnswer(m)
      <4>1. queue' \in Seq(Entry) /\ toDev' \in Seq(Message)
        BY <3>2, PopTyped DEF ControlAnswer
      <4>2. owned' \in [Client -> Seq(Id)]
        <5>1. owned' = [c \in Client |-> IF c \in Asker(m) THEN Record(c, m) ELSE owned[c]]
          BY <3>2 DEF ControlAnswer
        <5>2. \A c \in Client : Record(c, m) \in Seq(Id)
          BY <1>1, RecordTyped
        <5>3. \A c \in Client : owned[c] \in Seq(Id)
          BY DEF TypeOK
        <5>4. QED
          BY <5>1, <5>2, <5>3
      <4>3. QED
        BY <4>1, <4>2
    <3>3. QED
      BY <1>3, <3>1, <3>2 DEF FromDev, ControlAnswer
  <2>4. QED
    BY <1>1, <1>3, <2>2, <2>3 DEF FromDev, TypeOK, sessionVars
<1>4. QED
  BY <1>2, <1>3

\* The modem keeps the types: what it answers has the number of the request,
\* and an id it gives out is one of its ids.
LEMMA ModemTyped ==
  ASSUME TypeOK, Modem
  PROVE  TypeOK'
<1>0. toDev \in Seq(Message) /\ toDev # <<>> /\ fromDev \in Seq(FromModem)
  BY DEF TypeOK, Modem
<1>1. Head(toDev) \in Message /\ Tail(toDev) \in Seq(Message)
  BY <1>0, HeadAndTail
<1> DEFINE m == Head(toDev)
<1>2. PICK a \in [type : {m.type}, id : 0..Ids, tid : {m.tid}, by : {m.by}, ok : BOOLEAN] :
        /\ CASE m.type = "GET" ->
                  IF alloc = Id THEN ~a.ok /\ a.id = 0 /\ UNCHANGED alloc
                  ELSE a.ok /\ a.id \in Id \ alloc /\ alloc' = alloc \cup {a.id}
             [] m.type = "RELEASE" ->
                  a.id = m.id /\ a.ok = (m.id \in alloc) /\ alloc' = alloc \ {m.id}
             [] m.type = "SYNC" -> a.ok /\ a.id = 0 /\ alloc' = {}
             [] OTHER -> a.ok /\ a.id = m.id /\ UNCHANGED alloc
        /\ \/ fromDev' = Append(fromDev, a) /\ UNCHANGED faults
           \/ m.type \in Control /\ fromDev' = fromDev /\ Fault("answer")
  BY DEF Modem
<1>3. a.type = m.type /\ a \in Message
  BY <1>1, <1>2 DEF Message, MessageOf
<1>4. alloc' \subseteq Id /\ (a.type = "GET" /\ a.ok => a.id \in Id)
  <2>1. alloc \subseteq Id
    BY DEF TypeOK
  <2>2. CASE m.type = "GET"
    BY <1>2, <1>3, <2>1, <2>2
  <2>3. CASE m.type = "RELEASE"
    BY <1>2, <1>3, <2>1, <2>3
  <2>4. CASE m.type = "SYNC"
    BY <1>2, <1>3, <2>1, <2>4
  <2>5. CASE m.type \notin {"GET", "RELEASE", "SYNC"}
    BY <1>2, <1>3, <2>1, <2>5
  <2>6. QED
    BY <2>2, <2>3, <2>4, <2>5
<1>5. a \in FromModem
  BY <1>3, <1>4 DEF FromModem
<1>6. fromDev' \in Seq(FromModem) /\ faults' \in 0..MaxFaults
  <2>1. faults \in 0..MaxFaults
    BY DEF TypeOK
  <2>2. QED
    <3>1. fromDev' \in Seq(FromModem)
      BY <1>0, <1>2, <1>5
    <3>2. UNCHANGED faults \/ (faults > 0 /\ faults' = faults - 1)
      BY <1>2 DEF Fault
    <3>3. QED
      BY <2>1, <3>1, <3>2, ProxyAssumption
<1>7. QED
  BY <1>1, <1>4, <1>6 DEF Modem, TypeOK, sessionVars, proxyVars, clientVars

\* The other steps of the environment keep the types.
LEMMA EnvironmentTyped ==
  ASSUME TypeOK, Environment
  PROVE  TypeOK'
<1>0. Nothing \in Message
  BY MsgType, ProxyAssumption DEF Nothing, Control
<1>1. CASE Modem
  BY <1>1, ModemTyped
<1>2. CASE Indication
  <2>1. PICK id \in alloc \cup {0} : fromDev' = Append(fromDev, Msg("SVC", id, 0, 0))
    BY <1>2 DEF Indication
  <2>2. id \in 0..Ids
    BY ProxyAssumption DEF TypeOK, Id
  <2>3. Msg("SVC", id, 0, 0) \in FromModem
    BY <2>2, MsgType, ProxyAssumption DEF FromModem, Msg
  <2>4. fromDev' \in Seq(FromModem)
    BY <2>1, <2>3 DEF TypeOK
  <2>5. inds' \in 0..MaxInd
    BY <1>2, ProxyAssumption DEF Indication, TypeOK
  <2>6. QED
    BY <1>2, <2>4, <2>5 DEF Indication, TypeOK, sessionVars, proxyVars, clientVars
<1>3. CASE Revoke
  <2>1. Msg("REVOKE", 0, 0, 0) \in FromModem
    BY MsgType, ProxyAssumption DEF FromModem, Msg
  <2>2. fromDev' \in Seq(FromModem)
    BY <1>3, <2>1 DEF Revoke, TypeOK
  <2>3. faults' \in 0..MaxFaults
    BY <1>3, ProxyAssumption DEF Revoke, Fault, TypeOK
  <2>4. QED
    BY <1>3, <2>2, <2>3 DEF Revoke, TypeOK, sessionVars, proxyVars, clientVars
<1>4. ASSUME NEW c \in Client, NEW type \in Control \cup {"SVC"}, NEW id \in 0..Ids, Ask(c, type, id)
      PROVE  TypeOK'
  <2> DEFINE m == Msg(type, id, asked[c] + 1, c)
  <2>1. asked[c] \in 0..MaxAsk /\ asked[c] < MaxAsk /\ asked' = [asked EXCEPT ![c] = @ + 1]
    BY <1>4 DEF Ask, TypeOK
  <2>2. asked' \in [Client -> 0..MaxAsk]
    BY <2>1, ProxyAssumption DEF TypeOK
  <2>3. m \in Message
    <3>1. asked[c] + 1 \in Nat /\ c \in 0..Clients
      BY <2>1, ProxyAssumption DEF Client
    <3>2. QED
      BY <3>1, MsgType
  <2>4. inbox' \in [Client -> Seq(Message)] /\ ask' \in [Client -> Message]
    <3>1. inbox' = [inbox EXCEPT ![c] = Append(@, m)] /\ ask' = [ask EXCEPT ![c] = m]
      BY <1>4 DEF Ask
    <3>2. QED
      BY <2>3, <3>1 DEF TypeOK
  <2>5. mine' \in [Client -> SUBSET Id]
    BY <1>4 DEF Ask, TypeOK
  <2>6. QED
    BY <1>4, <2>2, <2>4, <2>5 DEF Ask, TypeOK, sessionVars, proxyVars, devVars
<1>5. ASSUME NEW c \in Client, AskAny(c)
      PROVE  TypeOK'
  <2>1. \A id \in mine[c] : id \in 0..Ids
    BY ProxyAssumption DEF TypeOK, Id
  <2>2. QED
    BY <1>4, <1>5, <2>1, ProxyAssumption DEF AskAny, Control
<1>6. ASSUME NEW c \in Client, TimeOut(c)
      PROVE  TypeOK'
  BY <1>0, <1>6 DEF TimeOut, TypeOK, sessionVars, proxyVars, devVars
<1>7. ASSUME NEW c \in Client, Leave(c)
      PROVE  TypeOK'
  BY <1>0, <1>7 DEF Leave, TypeOK, sessionVars, proxyVars, devVars
<1>8. QED
  BY <1>1, <1>2, <1>3, <1>5, <1>6, <1>7 DEF Environment

\* The initial state is typed.
LEMMA TypeAtFirst == Init => TypeOK
<1>1. Nothing \in Message
  BY MsgType, ProxyAssumption DEF Nothing, Control
<1>2. ASSUME Init PROVE TypeOK
  <2>1. syncDone \in BOOLEAN
    BY <1>2, Zenon DEF Init
  <2>2. /\ phase \in {"closed", "sync", "serving", "exit"} /\ tries \in 0..MaxSync
        /\ queue \in Seq(Entry) /\ toDev \in Seq(Message) /\ fromDev \in Seq(FromModem)
        /\ inds \in 0..MaxInd /\ faults \in 0..MaxFaults
    BY <1>2, ProxyAssumption DEF Init
  <2>3. /\ fdOf \in [Client -> 0..Clients] /\ owned \in [Client -> Seq(Id)]
        /\ inbox \in [Client -> Seq(Message)] /\ ask \in [Client -> Message]
        /\ asked \in [Client -> 0..MaxAsk] /\ mine \in [Client -> SUBSET Id]
    BY <1>1, <1>2, ProxyAssumption DEF Init
  <2>4. QED
    BY <1>2, <2>1, <2>2, <2>3 DEF Init, TypeOK
<1>3. QED
  BY <1>2

\* Every step keeps the types.
LEMMA TypeStep == TypeOK /\ [Next]_vars => TypeOK'
<1> SUFFICES ASSUME TypeOK, [Next]_vars PROVE TypeOK'
  OBVIOUS
<1>1. CASE Session
  BY <1>1, SessionTyped
<1>2. CASE Loop
  BY <1>2, DeviceStepTyped, ClientStepTyped, SessionTyped, WriteFailsQuits DEF Loop
<1>3. CASE Environment
  BY <1>3, EnvironmentTyped
<1>4. CASE UNCHANGED vars
  BY <1>4 DEF TypeOK, vars, sessionVars, proxyVars, devVars, clientVars
<1>5. QED
  BY <1>1, <1>2, <1>3, <1>4 DEF Next, Exited

\* The proxy keeps the types of its lists and messages for any number of
\* clients, ids and requests, in any order of the steps.
THEOREM TypeCorrect == Spec => []TypeOK
  BY TypeAtFirst, TypeStep, PTL DEF Spec

-----------------------------------------------------------------------------
(* The queue moves on.                                                     *)

\* Outside a session that serves clients nothing is queued.
Idle == phase # "serving" => queue = <<>>

\* A control message stays on its way when another message joins it.
LEMMA StaysInTransit ==
  ASSUME NEW S, NEW s \in Seq(S), NEW m, ControlIn(s) # {} \/ m.type \in Control
  PROVE  ControlIn(Append(s, m)) # {}
<1>1. CASE ControlIn(s) # {}
  <2>1. PICK i \in 1..Len(s) : s[i].type \in Control
    BY <1>1 DEF ControlIn
  <2>2. i \in 1..Len(Append(s, m)) /\ Append(s, m)[i] = s[i]
    OBVIOUS
  <2>3. QED
    BY <2>1, <2>2 DEF ControlIn
<1>2. CASE m.type \in Control
  <2>1. Len(s) + 1 \in 1..Len(Append(s, m)) /\ Append(s, m)[Len(s) + 1] = m
    OBVIOUS
  <2>2. QED
    BY <1>2, <2>1 DEF ControlIn
<1>3. QED
  BY <1>1, <1>2

\* Another message is taken: the control message is still on its way.
LEMMA NotYetTaken ==
  ASSUME NEW S, NEW s \in Seq(S), s # <<>>, ControlIn(s) # {}, Head(s).type \notin Control
  PROVE  ControlIn(Tail(s)) # {}
<1>1. PICK i \in 1..Len(s) : s[i].type \in Control
  BY DEF ControlIn
<1>2. i # 1
  BY <1>1, HeadAndTail
<1>3. i - 1 \in 1..Len(Tail(s)) /\ Tail(s)[i - 1] = s[i]
  BY <1>1, <1>2, HeadAndTail
<1>4. QED
  BY <1>1, <1>3 DEF ControlIn

\* A client's message joins the queue, or a client leaves with its own.
LEMMA ClientKeepsMoving ==
  ASSUME TypeOK, Moving, NEW c \in Client, Accept(c) \/ Read(c) \/ Cleanup(c)
  PROVE  Moving'
<1> SUFFICES ASSUME queue' # <<>>
             PROVE  ControlIn(toDev)' # {} \/ ControlIn(fromDev)' # {}
  BY DEF Moving
<1>0. phase = "serving" /\ toDev \in Seq(Message) /\ fromDev' = fromDev
  BY DEF TypeOK, Accept, Read, Cleanup, devVars
<1>1. CASE Accept(c)
  BY <1>0, <1>1 DEF Accept, devVars, Moving, ControlIn
<1>2. CASE Read(c)
  <2>1. CASE UNCHANGED <<toDev, queue>>
    BY <1>0, <2>1 DEF Moving, ControlIn
  <2>2. CASE Forward(fdOf[c], inbox[c][1])
    <3> DEFINE m == inbox[c][1]
    <3>1. CASE queue = <<>>
      <4>1. toDev' = Append(toDev, m) /\ m.type \in Control
        BY <2>2, <3>1 DEF Forward
      <4>2. QED
        BY <1>0, <4>1, StaysInTransit
    <3>2. CASE queue # <<>>
      <4>1. toDev' = toDev \/ toDev' = Append(toDev, m)
        BY <2>2, <3>2 DEF Forward
      <4>2. ControlIn(toDev) # {} \/ ControlIn(fromDev) # {}
        BY <1>0, <3>2 DEF Moving
      <4>3. ControlIn(toDev) # {} => ControlIn(toDev)' # {}
        BY <1>0, <4>1, StaysInTransit
      <4>4. QED
        BY <1>0, <4>2, <4>3 DEF ControlIn
    <3>3. QED
      BY <3>1, <3>2
  <2>3. QED
    BY <1>2, <2>1, <2>2 DEF Read
<1>3. CASE Cleanup(c)
  <2>1. CASE queue # <<>>
    <3>1. toDev' = toDev
      BY <1>3, <2>1 DEF Cleanup
    <3>2. QED
      BY <1>0, <2>1, <3>1 DEF Moving, ControlIn
  <2>2. CASE queue = <<>> /\ Releases(c) # <<>>
    <3>1. toDev' = Append(toDev, Releases(c)[1].req)
      BY <1>3, <2>2 DEF Cleanup
    <3>2. Len(owned[c]) \in Nat /\ Releases(c)[1].req.type \in Control
      <4>1. Len(owned[c]) \in Nat \ {0}
        BY <2>2 DEF TypeOK, Releases
      <4>2. QED
        BY <4>1 DEF Releases, Msg, Control
    <3>3. QED
      BY <1>0, <3>1, <3>2, StaysInTransit
  <2>3. CASE queue = <<>> /\ Releases(c) = <<>>
    <3>1. queue \o Releases(c) = <<>>
      BY <2>3
    <3>2. queue' = <<>>
      BY <1>3, <3>1 DEF Cleanup, WithoutFirst
    <3>3. QED
      BY <3>2
  <2>4. QED
    BY <2>1, <2>2, <2>3
<1>4. QED
  BY <1>1, <1>2, <1>3

\* An answer sends the next message of the queue.
LEMMA DeviceKeepsMoving ==
  ASSUME TypeOK, Moving, FromDev
  PROVE  Moving'
<1> SUFFICES ASSUME queue' # <<>>
             PROVE  ControlIn(toDev)' # {} \/ ControlIn(fromDev)' # {}
  BY DEF Moving
<1> DEFINE m == Head(fromDev)
<1>0. /\ phase = "serving" /\ toDev \in Seq(Message) /\ queue \in Seq(Entry)
      /\ fromDev \in Seq(FromModem) /\ fromDev # <<>> /\ fromDev' = Tail(fromDev)
  BY DEF TypeOK, FromDev
<1>1. CASE queue # <<>> /\ Pop
  <2>1. Len(queue) > 1
    BY <1>0, <1>1, HeadAndTail DEF Pop
  <2>2. toDev' = Append(toDev, queue[2].req)
    BY <1>1, <2>1 DEF Pop
  <2>3. queue[2] \in Entry
    BY <1>0, <2>1
  <2>4. queue[2].req.type \in Control
    BY <2>3 DEF Entry, MessageOf
  <2>5. QED
    BY <1>0, <2>2, <2>4, StaysInTransit
<1>2. CASE m.type \notin Control /\ UNCHANGED <<queue, toDev>>
  <2>1. ControlIn(toDev) # {} \/ ControlIn(fromDev) # {}
    BY <1>0, <1>2 DEF Moving
  <2>2. CASE ControlIn(toDev) # {}
    BY <1>2, <2>2 DEF ControlIn
  <2>3. CASE ControlIn(fromDev) # {}
    BY <1>0, <1>2, <2>3, NotYetTaken
  <2>4. QED
    BY <2>1, <2>2, <2>3
<1>3. CASE m.type \in Control /\ ControlAnswer(m)
  <2>1. CASE queue = <<>>
    BY <1>3, <2>1 DEF ControlAnswer
  <2>2. CASE queue # <<>>
    BY <1>1, <1>3, <2>2 DEF ControlAnswer
  <2>3. QED
    BY <2>1, <2>2
<1>4. "SVC" \notin Control /\ "REVOKE" \notin Control
  BY DEF Control
<1>5. QED
  BY <1>2, <1>3, <1>4 DEF FromDev

\* The modem answers what it takes, unless an answer is lost.
LEMMA ModemKeepsMoving ==
  ASSUME TypeOK, Moving, Modem, "answer" \notin Faulty
  PROVE  Moving'
<1> SUFFICES ASSUME phase = "serving", queue # <<>>
             PROVE  ControlIn(toDev)' # {} \/ ControlIn(fromDev)' # {}
  BY DEF Moving, Modem, sessionVars, proxyVars
<1>0. toDev \in Seq(Message) /\ toDev # <<>> /\ toDev' = Tail(toDev) /\ fromDev \in Seq(FromModem)
  BY DEF TypeOK, Modem
<1>1. PICK a : a.type = Head(toDev).type /\ fromDev' = Append(fromDev, a)
  BY DEF Modem, Fault
<1>2. CASE ControlIn(fromDev) # {} \/ Head(toDev).type \in Control
  BY <1>0, <1>1, <1>2, StaysInTransit
<1>3. CASE ControlIn(toDev) # {} /\ Head(toDev).type \notin Control
  BY <1>0, <1>3, NotYetTaken
<1>4. QED
  BY <1>2, <1>3 DEF Moving

\* As long as the modem answers every control message it takes, it has one to
\* answer whenever one is queued: however clients come, leave, die or repeat
\* themselves, and although an answer to nobody's request moves the queue too.
THEOREM KeepsMoving ==
  ASSUME "answer" \notin Faulty
  PROVE  Spec => []Moving
<1> DEFINE IInv == TypeOK /\ Idle /\ Moving
<1>1. Init => IInv
  BY TypeAtFirst DEF Init, Idle, Moving
<1>2. IInv /\ [Next]_vars => IInv'
  <2> SUFFICES ASSUME TypeOK, Idle, Moving, [Next]_vars PROVE IInv'
    OBVIOUS
  <2>0. TypeOK'
    BY TypeStep
  <2>1. CASE Session
    BY <2>0, <2>1 DEF Session, OpenDevice, SendSync, OpenServer, GiveUp, DeviceLost, Quit,
                      EndSession, Idle, Moving, proxyVars
  <2>2. CASE FromDevInSync
    BY <2>0, <2>2 DEF FromDevInSync, Idle, Moving, proxyVars
  <2>3. CASE FromDev
    <3>1. Idle'
      BY <2>3 DEF FromDev, Idle, sessionVars
    <3>2. QED
      BY <2>0, <2>3, <3>1, DeviceKeepsMoving
  <2>4. ASSUME NEW c \in Client, Accept(c) \/ Read(c) \/ Cleanup(c)
        PROVE  IInv'
    <3>1. Idle'
      BY <2>4 DEF Accept, Read, Cleanup, Idle, sessionVars
    <3>2. QED
      BY <2>0, <2>4, <3>1, ClientKeepsMoving
  <2>5. CASE Modem
    <3>1. Idle'
      BY <2>5 DEF Modem, Idle, sessionVars, proxyVars
    <3>2. QED
      BY <2>0, <2>5, <3>1, ModemKeepsMoving
  <2>6. CASE Indication \/ Revoke
    <3>1. UNCHANGED <<phase, queue, toDev>>
      BY <2>6 DEF Indication, Revoke, sessionVars, proxyVars
    <3>2. PICK m : fromDev' = Append(fromDev, m)
      BY <2>6 DEF Indication, Revoke
    <3>3. fromDev \in Seq(FromModem)
      BY DEF TypeOK
    <3>4. ControlIn(fromDev) # {} => ControlIn(fromDev)' # {}
      BY <3>2, <3>3, StaysInTransit
    <3>5. QED
      BY <2>0, <3>1, <3>4 DEF Idle, Moving, ControlIn
  <2>7. CASE \E c \in Client : AskAny(c) \/ TimeOut(c) \/ Leave(c)
    <3>1. UNCHANGED <<phase, queue, toDev, fromDev>>
      BY <2>7 DEF AskAny, Ask, TimeOut, Leave, sessionVars, proxyVars, devVars
    <3>2. QED
      BY <2>0, <3>1 DEF Idle, Moving, ControlIn
  <2>8. CASE UNCHANGED vars
    BY <2>0, <2>8 DEF vars, sessionVars, proxyVars, devVars, Idle, Moving, ControlIn
  <2>9. QED
    BY <2>1, <2>2, <2>3, <2>4, <2>5, <2>6, <2>7, <2>8, WriteFailsQuits DEF Next, Loop, Environment, Exited
<1>3. QED
  BY <1>1, <1>2, PTL DEF Spec

-----------------------------------------------------------------------------
(* Clients that wait for their answers.                                    *)

\* Taking the only element x out of a list leaves the others.
LEMMA WithoutElements ==
  ASSUME NEW S, NEW s \in Seq(S), NEW x \in S, \A y \in S : AtMostOne(s, {y})
  PROVE  LET t == WithoutFirst(s, {i \in 1..Len(s) : s[i] = x})
         IN /\ ToSet(t) = ToSet(s) \ {x} /\ \A y \in S : AtMostOne(t, {y})
<1> DEFINE I == {i \in 1..Len(s) : s[i] = x}
           t == WithoutFirst(s, I)
<1>1. CASE I = {}
  <2>1. t = s
    BY <1>1 DEF WithoutFirst
  <2>2. x \notin ToSet(s)
    BY <1>1, ElementsAreIndexed
  <2>3. QED
    BY <2>1, <2>2
<1>2. CASE I # {}
  <2>1. Min(I) \in I
    <3>1. I \in SUBSET Nat
      OBVIOUS
    <3>2. QED
      BY <1>2, <3>1, SmallestIndex
  <2>2. PICK k \in 1..Len(s) : k = Min(I) /\ s[k] = x
    BY <2>1
  <2>3. PICK r \in Seq(S) : /\ r = RemoveAt(s, k) /\ Len(r) = Len(s) - 1
                            /\ \A i \in 1..Len(r) : r[i] = IF i < k THEN s[i] ELSE s[i + 1]
    BY RemovedAt
  <2>4. ToSet(r) = ToSet(s) \ {s[k]} /\ \A y \in S : AtMostOne(r, {y})
    <3>1. /\ Len(r) = Len(s) - 1
          /\ \A i \in 1..Len(r) : r[i] = IF i < k THEN s[i] ELSE s[i + 1]
      BY <2>3
    <3>2. QED
      BY <3>1, OthersAreLeft
  <2>5. t = r
    BY <1>2, <2>2, <2>3 DEF WithoutFirst
  <2>6. QED
    BY <2>2, <2>4, <2>5
<1>3. QED
  BY <1>1, <1>2

\* A list without one of its elements has no others.
LEMMA WithoutElementsOf ==
  ASSUME NEW S, NEW s \in Seq(S), NEW I \in SUBSET (1..Len(s))
  PROVE  ToSet(WithoutFirst(s, I)) \subseteq ToSet(s)
<1>1. CASE I = {}
  BY <1>1 DEF WithoutFirst
<1>2. CASE I # {}
  <2>1. Min(I) \in I
    <3>1. I \in SUBSET Nat
      OBVIOUS
    <3>2. QED
      BY <1>2, <3>1, SmallestIndex
  <2>2. PICK k \in 1..Len(s) : k = Min(I)
    BY <2>1
  <2>3. PICK r \in Seq(S) : /\ r = RemoveAt(s, k) /\ Len(r) = Len(s) - 1
                            /\ \A i \in 1..Len(r) : r[i] = IF i < k THEN s[i] ELSE s[i + 1]
    BY RemovedAt
  <2>4. Len(s) \in Nat /\ Len(r) = Len(s) - 1
    BY <2>3
  <2>5. ASSUME NEW x \in ToSet(r) PROVE x \in ToSet(s)
    <3>1. PICK i \in 1..Len(r) : x = r[i]
      BY ElementsAreIndexed
    <3>2. PICK j \in 1..Len(s) : x = s[j]
      <4>1. i \in 1..Len(s) /\ i + 1 \in 1..Len(s)
        BY <2>4
      <4>2. QED
        BY <2>3, <3>1, <4>1
    <3>3. QED
      BY <3>2, ElementsAreIndexed
  <2>6. WithoutFirst(s, I) = r
    BY <1>2, <2>2, <2>3 DEF WithoutFirst
  <2>7. QED
    BY <2>5, <2>6
<1>3. QED
  BY <1>1, <1>2

-----------------------------------------------------------------------------
(* The invariant of a session whose clients wait for their answers.        *)

\* Clients wait for the answer before they leave or ask for something else,
\* and the modem answers and keeps what it gave out; it may be unplugged.
Orderly == ~LeaveBusy /\ ~Impatient /\ Faulty \subseteq {"device"}

\* No SYNC is on its way when the proxy begins to serve.
Synced ==
  phase = "serving" => \A m \in ToSet(toDev) \cup ToSet(fromDev) : m.type # "SYNC"

ControlMessage == {m \in Message : m.type \in Control}
ServiceOf(c) == {m \in Message : m.type = "SVC" /\ m.by = c}

\* What the modem sends on its own account.
IsIndication(m) == m.type = "SVC" /\ m.by = 0 /\ m.tid = 0

\* Before the proxy serves there are no clients, and after the modem has taken
\* a SYNC no id is given out.
Before ==
  /\ phase \in {"closed", "exit"} => toDev = <<>> /\ fromDev = <<>>
  /\ phase # "serving" =>
       /\ queue = <<>>
       /\ \A c \in Client :
            fdOf[c] = 0 /\ owned[c] = <<>> /\ inbox[c] = <<>> /\ ask[c] = Nothing /\ mine[c] = {}
  /\ phase = "sync" =>
       /\ \A m \in ToSet(toDev) : m.type = "SYNC"
       /\ \A m \in ToSet(fromDev) : m.type = "SYNC" \/ IsIndication(m)
       /\ tries > 0 /\ toDev = <<>> => alloc = {}

\* A client that is in has a connection of its own, and what it waits for is
\* the one request that it may still have to hand over.
Wired ==
  \A c \in Client :
    /\ life[c] = "in" => fdOf[c] # 0
    /\ fdOf[c] # 0 => life[c] # "out"
    /\ fdOf[c] = 0 => owned[c] = <<>>
    /\ life[c] # "in" => mine[c] = {}
    /\ \A d \in Client : fdOf[c] = fdOf[d] /\ fdOf[c] # 0 => c = d
    /\ ask[c] # Nothing =>
         /\ life[c] = "in" /\ ask[c].by = c /\ ask[c].tid > 0
         /\ ask[c].type \in {"VERSION", "GET", "RELEASE", "SVC"}
    /\ inbox[c] # <<>> => ask[c] # Nothing /\ inbox[c] = <<ask[c]>>

\* A request in the queue is the proxy's own, or the one its client waits for.
OwnRelease(i) == [fd |-> Server, req |-> Msg("RELEASE", i, ProxyTid, 0)]
Waiting(c) == [fd |-> fdOf[c], req |-> ask[c]]
IsWaiting(c) == fdOf[c] # 0 /\ ask[c] # Nothing /\ inbox[c] = <<>>

Queued ==
  /\ \A e \in ToSet(queue) : \/ \E i \in Id : e = OwnRelease(i)
                             \/ \E c \in Client : e = Waiting(c) /\ IsWaiting(c)
  /\ Distinct(queue)

\* The modem has the head of the queue, or has answered it.
IsAnswer(m, q) ==
  /\ m.type = q.type /\ m.tid = q.tid /\ m.by = q.by
  /\ q.type = "RELEASE" => m.id = q.id /\ m.ok

OneOut ==
  phase = "serving" =>
    /\ AtMostOne(toDev, ControlMessage) /\ AtMostOne(fromDev, ControlMessage)
    /\ NoneOf(toDev, ControlMessage) \/ NoneOf(fromDev, ControlMessage)
    /\ queue = <<>> <=> NoneOf(toDev, ControlMessage) /\ NoneOf(fromDev, ControlMessage)
    /\ \A m \in ToSet(toDev) : m.type \in Control => m = queue[1].req
    /\ \A m \in ToSet(fromDev) : m.type \in Control => IsAnswer(m, queue[1].req)

\* A request to a service is on its way there or back, and its client waits.
Services ==
  phase = "serving" =>
    /\ \A m \in ToSet(toDev) :
         m.type \in Control \/ (m.type = "SVC" /\ m.by \in Client /\ m = ask[m.by])
    /\ \A m \in ToSet(fromDev) :
         \/ m.type \in Control \/ IsIndication(m)
         \/ /\ m.type = "SVC" /\ m.by \in Client
            /\ ask[m.by].type = "SVC" /\ m.tid = ask[m.by].tid /\ m.id = ask[m.by].id
            /\ ask[m.by] # Nothing
    /\ \A c \in Client :
         /\ AtMostOne(toDev, ServiceOf(c)) /\ AtMostOne(fromDev, ServiceOf(c))
         /\ NoneOf(toDev, ServiceOf(c)) \/ NoneOf(fromDev, ServiceOf(c))
         /\ inbox[c] # <<>> => NoneOf(toDev, ServiceOf(c)) /\ NoneOf(fromDev, ServiceOf(c))

\* The ids of a connection, and whether the modem has answered that it took
\* an id back or gave it out.
Held(c) == ToSet(owned[c])
Unheld(i) == \A c \in Client : i \notin Held(c)
TakenBack(i) == \E m \in ToSet(fromDev) : m.type = "RELEASE" /\ m.id = i
GivenOut(i) == \E m \in ToSet(fromDev) : m.type = "GET" /\ m.ok /\ m.id = i

\* The ids clients use are those of their connections; connections share none,
\* and the modem has given them out.
Holding ==
  \A c \in Client :
    /\ mine[c] \subseteq Held(c)
    /\ ask[c] # Nothing /\ ask[c].type \in {"RELEASE", "SVC"} => ask[c].id \in Held(c)
    /\ ask[c].type = "RELEASE" => ask[c].id \notin mine[c]
    /\ Distinct(owned[c])
    /\ \A d \in Client : c # d => Held(c) \cap Held(d) = {}
    /\ \A i \in Held(c) : i \in alloc \/ TakenBack(i)

\* Every id that is given out is held, on its way, or about to be released.
Books ==
  phase = "serving" =>
    /\ \A i \in Id : GivenOut(i) => i \in alloc /\ Unheld(i) /\ OwnRelease(i) \notin ToSet(queue)
    /\ \A i \in Id : TakenBack(i) => i \notin alloc
    /\ \A i \in Id : OwnRelease(i) \in ToSet(queue) => Unheld(i) /\ (i \in alloc \/ TakenBack(i))
    /\ \A i \in alloc : ~Unheld(i) \/ GivenOut(i) \/ OwnRelease(i) \in ToSet(queue)

OrderlyInv == TypeOK /\ Before /\ Wired /\ Queued /\ OneOut /\ Services /\ Holding /\ Books

\* What a connection holds are ids of the modem.
LEMMA HeldIds ==
  ASSUME TypeOK
  PROVE  \A c \in Client : Held(c) \subseteq Id
<1>1. \A c \in Client : owned[c] \in Seq(Id)
  BY DEF TypeOK
<1>2. QED
  BY <1>1, ElementsAreIndexed DEF Held

\* The invariant when no client is connected and the device is closed or just
\* opened, or has had nothing but SYNC.
LEMMA SessionOrderly ==
  ASSUME OrderlyInv, Synced', TypeOK', Session
  PROVE  OrderlyInv'
<1> USE DEF OrderlyInv
<1>0. toDev \in Seq(Message) /\ fromDev \in Seq(FromModem)
  BY DEF TypeOK
<1>1. CASE OpenDevice
  <2>1. /\ phase = "closed" /\ phase' = "sync" /\ tries' = 0 /\ queue' = <<>>
        /\ UNCHANGED <<fdOf, owned, toDev, fromDev, alloc, life, inbox, ask, mine>>
        /\ ToSet(toDev) = {} /\ ToSet(fromDev) = {}
    BY <1>1, EmptyHasNone DEF OpenDevice, devVars, clientVars, Before
  <2>2. Before'
    BY <2>1 DEF Before
  <2>3. Wired'
    BY <2>1 DEF Wired
  <2>4. Queued'
    BY <2>1, EmptyHasNone DEF Queued, Distinct
  <2>5. Holding'
    BY <2>1 DEF Holding, Held, TakenBack
  <2>6. QED
    BY <2>1, <2>2, <2>3, <2>4, <2>5 DEF OneOut, Services, Books
<1>2. CASE SendSync
  <2>1. /\ phase = "sync" /\ phase' = "sync"
        /\ UNCHANGED <<fdOf, owned, queue, fromDev, alloc, life, inbox, ask, mine>>
        /\ toDev' = Append(toDev, Msg("SYNC", 0, tries + 1, 0))
    BY <1>2 DEF SendSync, proxyVars, clientVars
  <2>2. Msg("SYNC", 0, tries + 1, 0) \in Message
    BY MsgType, ProxyAssumption DEF TypeOK, Control
  <2>3. ToSet(toDev') = ToSet(toDev) \cup {Msg("SYNC", 0, tries + 1, 0)} /\ toDev' # <<>>
    BY <1>0, <2>1, <2>2, AppendElements
  <2>4. Before'
    <3>1. /\ phase = "sync" /\ phase' = "sync"
          /\ UNCHANGED <<fdOf, owned, queue, fromDev, alloc, inbox, ask, mine>>
      BY <2>1
    <3>2. toDev' # <<>> /\ \A m \in ToSet(toDev') : m \in ToSet(toDev) \/ m.type = "SYNC"
      BY <2>3 DEF Msg
    <3>3. QED
      BY <3>1, <3>2 DEF Before
  <2>5. Wired' /\ Queued'
    BY <2>1 DEF Wired, Queued, Waiting, IsWaiting
  <2>6. Holding'
    BY <2>1 DEF Holding, Held, TakenBack
  <2>7. QED
    BY <2>1, <2>4, <2>5, <2>6 DEF OneOut, Services, Books
<1>3. CASE OpenServer
  <2>1. /\ phase = "sync" /\ phase' = "serving" /\ tries > 0
        /\ UNCHANGED <<fdOf, owned, queue, toDev, fromDev, alloc, life, inbox, ask, mine>>
    BY <1>3 DEF OpenServer, proxyVars, devVars, clientVars
  <2>2. toDev = <<>>
    BY <1>0, <2>1, EmptyHasNone DEF Before, Synced
  <2>3. alloc = {} /\ queue = <<>> /\ \A m \in ToSet(fromDev) : IsIndication(m)
    BY <2>1, <2>2 DEF Before, Synced
  <2>4. NoneOf(toDev, ControlMessage) /\ NoneOf(fromDev, ControlMessage)
    BY <2>2, <2>3, EmptyHasNone DEF NoneOf, ControlMessage, IsIndication, Control
  <2>5. \A c \in Client : NoneOf(toDev, ServiceOf(c)) /\ NoneOf(fromDev, ServiceOf(c))
    BY <2>2, <2>3, EmptyHasNone DEF NoneOf, ServiceOf, IsIndication, Client
  <2>6. /\ \A i \in 1..Len(toDev) : toDev[i] \in ToSet(toDev)
        /\ \A i \in 1..Len(fromDev) : fromDev[i] \in ToSet(fromDev)
    BY <1>0, ElementsAreIndexed
  <2>7. \A M : NoneOf(fromDev, M) => AtMostOne(fromDev, M)
    BY <2>6 DEF NoneOf, AtMostOne
  <2>8. \A M : NoneOf(toDev, M) => AtMostOne(toDev, M)
    BY <2>6 DEF NoneOf, AtMostOne
  <2>9. ToSet(toDev) = {} /\ ToSet(queue) = {}
    BY <2>2, <2>3, EmptyHasNone
  <2>10. OneOut'
    BY <2>1, <2>3, <2>4, <2>7, <2>8, <2>9 DEF OneOut, IsIndication, Control
  <2>11. Services'
    BY <2>1, <2>3, <2>5, <2>7, <2>8, <2>9 DEF Services
  <2>12. Holding' /\ Books'
    BY <2>1, <2>3, <2>9 DEF Holding, Books, Held, TakenBack, GivenOut, Unheld, IsIndication
  <2>13. Wired' /\ Queued' /\ Before'
    BY <2>1 DEF Wired, Queued, Waiting, IsWaiting, Before
  <2>14. QED
    BY <2>10, <2>11, <2>12, <2>13
<1>4. ASSUME NEW next \in {"closed", "exit"}, EndSession(next)
      PROVE  OrderlyInv'
  <2>1. /\ phase' = next /\ phase' # "serving" /\ phase' # "sync"
        /\ queue' = <<>> /\ toDev' = <<>> /\ fromDev' = <<>>
        /\ \A c \in Client : /\ fdOf'[c] = 0 /\ owned'[c] = <<>> /\ inbox'[c] = <<>>
                             /\ ask'[c] = Nothing /\ mine'[c] = {} /\ life'[c] # "in"
    BY <1>4 DEF EndSession
  <2>2. Before'
    BY <2>1 DEF Before
  <2>3. Wired'
    BY <2>1 DEF Wired
  <2>4. Queued'
    BY <2>1, EmptyHasNone DEF Queued, Distinct
  <2>5. Holding'
    BY <2>1, EmptyHasNone DEF Holding, Held, Distinct, Nothing, Msg
  <2>6. QED
    BY <2>1, <2>2, <2>3, <2>4, <2>5 DEF OneOut, Services, Books
<1>5. QED
  BY <1>1, <1>2, <1>3, <1>4 DEF Session, GiveUp, DeviceLost, Quit

\* What a client asks for, one way or another.
LEMMA AskedFor ==
  ASSUME TypeOK, NEW c \in Client, AskAny(c)
  PROVE  \E type \in {"VERSION", "GET", "RELEASE", "SVC"}, id \in 0..Ids :
           (type \in {"RELEASE", "SVC"} => id \in mine[c]) /\ Ask(c, type, id)
<1>1. mine[c] \in SUBSET Id
  BY DEF TypeOK
<1>2. CASE Ask(c, "VERSION", 0) \/ Ask(c, "GET", 0)
  <2>1. 0 \in 0..Ids
    BY ProxyAssumption
  <2>2. QED
    BY <1>2, <2>1
<1>3. ASSUME NEW id \in mine[c], Ask(c, "RELEASE", id) \/ Ask(c, "SVC", id)
      PROVE  \E type \in {"VERSION", "GET", "RELEASE", "SVC"}, i \in 0..Ids :
               (type \in {"RELEASE", "SVC"} => i \in mine[c]) /\ Ask(c, type, i)
  <2>1. id \in 0..Ids
    BY <1>1, ProxyAssumption DEF Id
  <2>2. QED
    BY <1>3, <2>1
<1>4. QED
  BY <1>2, <1>3 DEF AskAny

\* A client asks for something: it has no request anywhere.
LEMMA AskOrderly ==
  ASSUME OrderlyInv, NEW c \in Client, NEW type \in {"VERSION", "GET", "RELEASE", "SVC"},
         NEW id \in 0..Ids, type \in {"RELEASE", "SVC"} => id \in mine[c], Ask(c, type, id), TypeOK'
  PROVE  OrderlyInv'
<1> USE DEF OrderlyInv
<1>0. /\ ask \in [Client -> Message] /\ inbox \in [Client -> Seq(Message)] /\ mine \in [Client -> SUBSET Id]
      /\ asked[c] \in Nat
  <2>1. ask \in [Client -> Message] /\ inbox \in [Client -> Seq(Message)] /\ mine \in [Client -> SUBSET Id]
    BY Zenon DEF TypeOK
  <2>2. asked[c] \in 0..MaxAsk
    BY Zenon DEF TypeOK
  <2>3. QED
    BY <2>1, <2>2, ProxyAssumption
<1>1. PICK m : m = Msg(type, id, asked[c] + 1, c)
  OBVIOUS
<1>2. /\ phase = "serving" /\ phase' = "serving" /\ life[c] = "in" /\ ask[c] = Nothing
      /\ ask' = [ask EXCEPT ![c] = m] /\ inbox' = [inbox EXCEPT ![c] = Append(@, m)]
      /\ mine' = [mine EXCEPT ![c] = IF type = "RELEASE" THEN @ \ {id} ELSE @]
      /\ UNCHANGED <<fdOf, owned, queue, toDev, fromDev, alloc, life>>
  BY <1>1 DEF Ask, sessionVars, proxyVars, devVars
<1>3. m.type = type /\ m.id = id /\ m.by = c /\ m.tid > 0 /\ m # Nothing
  BY <1>0, <1>1 DEF Msg, Nothing
<1>4. /\ inbox[c] = <<>> /\ inbox'[c] = <<m>> /\ ask'[c] = m /\ fdOf[c] # 0
      /\ mine'[c] \subseteq mine[c] /\ (type = "RELEASE" => id \notin mine'[c])
      /\ \A d \in Client : d # c => ask'[d] = ask[d] /\ inbox'[d] = inbox[d] /\ mine'[d] = mine[d]
  <2>1. inbox[c] = <<>> /\ fdOf[c] # 0
    BY <1>2 DEF Wired
  <2>2. Append(<<>>, m) = <<m>>
    OBVIOUS
  <2>3. inbox'[c] = <<m>>
    BY <1>0, <1>2, <2>1, <2>2
  <2>4. QED
    BY <1>0, <1>2, <2>1, <2>3
<1> HIDE DEF OrderlyInv
<1>5. Before'
  BY <1>2 DEF Before
<1>6. Wired'
  BY <1>2, <1>3, <1>4 DEF Wired, OrderlyInv
<1>7. Queued'
  <2>1. \A d \in Client : IsWaiting(d) => d # c /\ IsWaiting(d)' /\ Waiting(d)' = Waiting(d)
    BY <1>2, <1>4 DEF IsWaiting, Waiting
  <2>2. QED
    BY <1>2, <2>1 DEF Queued, OrderlyInv
<1>8. OneOut'
  BY <1>2 DEF OneOut, OrderlyInv
<1>9. Services'
  <2>1. c # 0 /\ Nothing.by = 0
    BY DEF Client, Nothing, Msg
  <2>2. \A x \in ToSet(toDev) : x.type \in Control \/ (x.by \in Client /\ x.by # c)
    BY <1>2, <2>1 DEF Services, OrderlyInv
  <2>3. \A x \in ToSet(fromDev) : x.type \in Control \/ IsIndication(x) \/ (x.by \in Client /\ x.by # c)
    BY <1>2, <2>1 DEF Services, OrderlyInv
  <2>4. NoneOf(toDev, ServiceOf(c)) /\ NoneOf(fromDev, ServiceOf(c))
    BY <2>1, <2>2, <2>3 DEF NoneOf, ServiceOf, IsIndication, Control
  <2>5. QED
    BY <1>2, <1>4, <2>2, <2>3, <2>4 DEF Services, OrderlyInv
<1>10. Holding'
  <2>1. /\ \A d \in Client : Held(d)' = Held(d) /\ owned'[d] = owned[d]
        /\ \A i : TakenBack(i)' <=> TakenBack(i)
    BY <1>2 DEF Held, TakenBack
  <2>2. Holding
    BY Zenon DEF OrderlyInv
  <2>3. /\ mine'[c] \subseteq Held(c) /\ (type \in {"RELEASE", "SVC"} => id \in Held(c))
        /\ \A d \in Client \ {c} :
             /\ mine'[d] \subseteq Held(d)
             /\ ask'[d] # Nothing /\ ask'[d].type \in {"RELEASE", "SVC"} => ask'[d].id \in Held(d)
             /\ ask'[d].type = "RELEASE" => ask'[d].id \notin mine'[d]
    BY <1>4, <2>2 DEF Holding
  <2>4. \A d \in Client :
          /\ Distinct(owned'[d])
          /\ \A e \in Client : d # e => Held(d)' \cap Held(e)' = {}
          /\ \A i \in Held(d)' : i \in alloc' \/ TakenBack(i)'
    BY <1>2, <2>1, <2>2 DEF Holding
  <2>5. ASSUME NEW d \in Client
        PROVE  /\ mine'[d] \subseteq Held(d)
               /\ ask'[d] # Nothing /\ ask'[d].type \in {"RELEASE", "SVC"} => ask'[d].id \in Held(d)
               /\ ask'[d].type = "RELEASE" => ask'[d].id \notin mine'[d]
    <3>1. CASE d = c
      BY <1>3, <1>4, <2>3, <3>1
    <3>2. CASE d # c
      BY <2>3, <3>2
    <3>3. QED
      BY <3>1, <3>2
  <2>6. QED
    <3>1. Nothing' = Nothing
      BY DEF Nothing, Msg
    <3>2. ASSUME NEW d \in Client
          PROVE  /\ mine'[d] \subseteq Held(d)'
                 /\ ask'[d] # Nothing' /\ ask'[d].type \in {"RELEASE", "SVC"} => ask'[d].id \in Held(d)'
                 /\ ask'[d].type = "RELEASE" => ask'[d].id \notin mine'[d]
      <4>1. Held(d)' = Held(d)
        BY <2>1
      <4>2. /\ mine'[d] \subseteq Held(d)
            /\ ask'[d] # Nothing /\ ask'[d].type \in {"RELEASE", "SVC"} => ask'[d].id \in Held(d)
            /\ ask'[d].type = "RELEASE" => ask'[d].id \notin mine'[d]
        BY <2>5
      <4>3. QED
        BY <3>1, <4>1, <4>2
    <3>3. QED
      BY <2>4, <3>2, Zenon DEF Holding
<1>11. Books'
  BY <1>2 DEF Books, Held, TakenBack, GivenOut, Unheld, OrderlyInv
<1>12. QED
  BY <1>5, <1>6, <1>7, <1>8, <1>9, <1>10, <1>11 DEF OrderlyInv

\* A client leaves when it waits for nothing.
LEMMA LeaveOrderly ==
  ASSUME OrderlyInv, NEW c \in Client, ~LeaveBusy, Leave(c), TypeOK'
  PROVE  OrderlyInv'
<1>1. /\ life[c] = "in" /\ life' = [life EXCEPT ![c] = "gone"] /\ ask[c] = Nothing
      /\ ask' = [ask EXCEPT ![c] = Nothing] /\ mine' = [mine EXCEPT ![c] = {}]
      /\ UNCHANGED <<phase, tries, fdOf, owned, queue, toDev, fromDev, alloc, inbox>>
  BY DEF Leave, sessionVars, proxyVars, devVars
<1>2. ask' = ask
  BY <1>1 DEF OrderlyInv, TypeOK
<1>3. /\ life'[c] = "gone" /\ mine'[c] = {}
      /\ \A d \in Client : d # c => life'[d] = life[d] /\ mine'[d] = mine[d]
  BY <1>1 DEF OrderlyInv, TypeOK
<1>4. Before'
  BY <1>1, <1>2, <1>3 DEF OrderlyInv, Before, Wired
<1>5. Wired'
  BY <1>1, <1>2, <1>3 DEF OrderlyInv, Wired
<1>6. Queued'
  BY <1>1, <1>2 DEF OrderlyInv, Queued, IsWaiting, Waiting
<1>7. OneOut' /\ Services'
  BY <1>1, <1>2 DEF OrderlyInv, OneOut, Services
<1>8. Holding'
  BY <1>1, <1>2, <1>3 DEF OrderlyInv, Holding, Held, TakenBack
<1>9. Books'
  BY <1>1, <1>2 DEF OrderlyInv, Books, Held, TakenBack, GivenOut, Unheld
<1>10. QED
  BY <1>4, <1>5, <1>6, <1>7, <1>8, <1>9 DEF OrderlyInv

\* An unsolicited message is nobody's answer.
LEMMA IndicationOrderly ==
  ASSUME OrderlyInv, Indication, TypeOK'
  PROVE  OrderlyInv'
<1>1. PICK m : /\ IsIndication(m) /\ m \in FromModem /\ fromDev' = Append(fromDev, m)
               /\ phase \in {"sync", "serving"}
               /\ UNCHANGED <<phase, tries, fdOf, owned, queue, toDev, alloc, life, inbox, ask, mine>>
  <2>1. PICK id \in alloc \cup {0} : fromDev' = Append(fromDev, Msg("SVC", id, 0, 0))
    BY DEF Indication
  <2>2. id \in 0..Ids
    BY ProxyAssumption DEF OrderlyInv, TypeOK, Id
  <2>3. Msg("SVC", id, 0, 0) \in FromModem
    BY <2>2, MsgType, ProxyAssumption DEF FromModem, Msg
  <2>4. IsIndication(Msg("SVC", id, 0, 0))
    BY DEF IsIndication, Msg
  <2>5. /\ phase \in {"sync", "serving"}
        /\ UNCHANGED <<phase, tries, fdOf, owned, queue, toDev, alloc, life, inbox, ask, mine>>
    BY DEF Indication, sessionVars, proxyVars, clientVars
  <2>6. QED
    BY <2>1, <2>3, <2>4, <2>5
<1>2. m.type = "SVC" /\ m.by = 0 /\ m.tid = 0
  BY <1>1 DEF IsIndication
<1>3. m \notin ControlMessage /\ \A c \in Client : m \notin ServiceOf(c)
  BY <1>2 DEF ControlMessage, ServiceOf, Control, Client
<1>4. /\ \A x \in ToSet(fromDev') : x \in ToSet(fromDev) \/ x = m
      /\ ToSet(fromDev) \subseteq ToSet(fromDev')
      /\ \A M : m \notin M /\ AtMostOne(fromDev, M) => AtMostOne(fromDev', M)
      /\ \A M : m \notin M => (NoneOf(fromDev', M) <=> NoneOf(fromDev, M))
  <2>1. fromDev \in Seq(FromModem)
    BY DEF OrderlyInv, TypeOK
  <2>2. /\ ToSet(fromDev') = ToSet(fromDev) \cup {m}
        /\ \A M : AtMostOne(fromDev, M) /\ (m \in M => NoneOf(fromDev, M)) => AtMostOne(fromDev', M)
    BY <1>1, <2>1, AppendElements
  <2>3. QED
    BY <2>2 DEF NoneOf
<1>5. UNCHANGED <<phase, tries, fdOf, owned, queue, toDev, alloc, life, inbox, ask, mine>>
  BY <1>1
<1>6. Before'
  BY <1>1, <1>4, <1>5 DEF OrderlyInv, Before
<1>7. Wired' /\ Queued'
  BY <1>5 DEF OrderlyInv, Wired, Queued, IsWaiting, Waiting
<1>8. OneOut'
  <2>1. NoneOf(toDev, ControlMessage)' <=> NoneOf(toDev, ControlMessage)
    BY <1>5
  <2>2. NoneOf(fromDev, ControlMessage)' <=> NoneOf(fromDev, ControlMessage)
    BY <1>3, <1>4
  <2>3. AtMostOne(fromDev, ControlMessage) => AtMostOne(fromDev, ControlMessage)'
    BY <1>3, <1>4
  <2>4. \A x \in ToSet(fromDev') : x.type \in Control => x \in ToSet(fromDev)
    BY <1>2, <1>4 DEF Control
  <2>5. QED
    BY <1>5, <2>1, <2>2, <2>3, <2>4 DEF OrderlyInv, OneOut
<1>9. Services'
  BY <1>1, <1>3, <1>4, <1>5 DEF OrderlyInv, Services
<1>10. \A i \in Id : (TakenBack(i)' <=> TakenBack(i)) /\ (GivenOut(i)' <=> GivenOut(i))
  BY <1>2, <1>4 DEF TakenBack, GivenOut
<1>11. Holding'
  BY <1>5, <1>10, HeldIds DEF OrderlyInv, Holding, Held
<1>12. Books'
  BY <1>5, <1>10 DEF OrderlyInv, TypeOK, Books, Held, Unheld
<1>13. QED
  BY <1>6, <1>7, <1>8, <1>9, <1>11, <1>12 DEF OrderlyInv

\* A control message joins the queue, and is sent if it is the only one: the
\* modem still has no more than the head of the queue.
LEMMA SentIfIdle ==
  ASSUME OrderlyInv, phase = "serving", phase' = "serving", NEW e \in Entry, UNCHANGED <<fromDev, ask>>,
         \A c \in Client : inbox'[c] \in {<<>>, inbox[c]},
         queue' # <<>>, queue'[1] = (IF queue = <<>> THEN e ELSE queue[1]),
         toDev' = IF queue = <<>> THEN Append(toDev, e.req) ELSE toDev
  PROVE  OneOut' /\ Services'
<1>1. e.req \in ControlMessage /\ e.req \in Message /\ e.req.type \in Control
  BY DEF Entry, ControlMessage, Message, MessageOf
<1>2. \A c \in Client : e.req \notin ServiceOf(c)
  BY <1>1 DEF ServiceOf, Control
<1>3. toDev \in Seq(Message)
  BY DEF OrderlyInv, TypeOK
<1>4. CASE queue # <<>>
  <2>1. toDev' = toDev /\ queue'[1] = queue[1]
    BY <1>4
  <2>2. QED
    BY <1>4, <2>1 DEF OrderlyInv, OneOut, Services
<1>5. CASE queue = <<>>
  <2>1. NoneOf(toDev, ControlMessage) /\ NoneOf(fromDev, ControlMessage) /\ AtMostOne(toDev, ControlMessage)
        /\ AtMostOne(fromDev, ControlMessage)
    BY <1>5 DEF OrderlyInv, OneOut
  <2>2. toDev' = Append(toDev, e.req) /\ queue'[1] = e
    BY <1>5
  <2>3. /\ ToSet(toDev') = ToSet(toDev) \cup {e.req}
        /\ \A M : AtMostOne(toDev, M) /\ (e.req \in M => NoneOf(toDev, M)) => AtMostOne(toDev', M)
        /\ \A M : NoneOf(toDev, M) /\ e.req \notin M => NoneOf(toDev', M)
    BY <1>1, <1>3, <2>2, AppendElements
  <2>4. AtMostOne(toDev', ControlMessage) /\ ~NoneOf(toDev', ControlMessage)
    BY <1>1, <2>1, <2>3 DEF NoneOf
  <2>5. \A m \in ToSet(toDev) : m.type \notin Control
    <3>1. \A m \in ToSet(toDev) : m \in Message
      BY <1>3, ElementsAreIndexed
    <3>2. QED
      BY <2>1, <3>1 DEF NoneOf, ControlMessage
  <2>6. \A m \in ToSet(fromDev) : m.type \notin Control
    <3>1. fromDev \in Seq(FromModem)
      BY DEF OrderlyInv, TypeOK
    <3>2. \A m \in ToSet(fromDev) : m \in Message
      BY <3>1, ElementsAreIndexed DEF FromModem
    <3>3. QED
      BY <2>1, <3>2 DEF NoneOf, ControlMessage
  <2>7. \A m \in ToSet(toDev') : m.type \in Control => m = queue'[1].req
    BY <2>2, <2>3, <2>5
  <2>8. OneOut'
    BY <2>1, <2>4, <2>6, <2>7 DEF OneOut
  <2>9. \A c \in Client : /\ AtMostOne(toDev, ServiceOf(c)) => AtMostOne(toDev', ServiceOf(c))
                          /\ NoneOf(toDev, ServiceOf(c)) => NoneOf(toDev', ServiceOf(c))
    BY <1>2, <2>3
  <2>10. \A m \in ToSet(toDev') : m \in ToSet(toDev) \/ m.type \in Control
    BY <1>1, <2>3
  <2>11. Services'
    BY <2>9, <2>10 DEF OrderlyInv, Services
  <2>12. QED
    BY <2>8, <2>11
<1>6. QED
  BY <1>4, <1>5

\* The proxy takes the message of a client: the one the client waits for.
LEMMA ReadOrderly ==
  ASSUME OrderlyInv, NEW c \in Client, Read(c), TypeOK'
  PROVE  OrderlyInv'
<1>1. /\ phase = "serving" /\ phase' = "serving" /\ fdOf[c] # 0 /\ inbox[c] = <<ask[c]>> /\ inbox[c] # <<>>
      /\ ask[c] # Nothing /\ life[c] = "in"
      /\ ask[c].by = c /\ ask[c].tid > 0 /\ ask[c].type \in {"VERSION", "GET", "RELEASE", "SVC"}
  BY DEF OrderlyInv, Wired, Read, Connected, sessionVars
<1>2. /\ inbox' = [inbox EXCEPT ![c] = <<>>]
      /\ UNCHANGED <<fdOf, owned, fromDev, alloc, life, ask, mine>>
  BY DEF Read
<1>3. inbox'[c] = <<>> /\ \A d \in Client : d # c => inbox'[d] = inbox[d]
  BY <1>2 DEF OrderlyInv, TypeOK
<1>4. Forward(fdOf[c], ask[c])
  <2>1. Len(<<ask[c]>>) = 1 /\ <<ask[c]>>[1] = ask[c]
    OBVIOUS
  <2>2. QED
    BY <1>1, <2>1 DEF Read
<1>5. Before' /\ Wired'
  BY <1>1, <1>2, <1>3 DEF OrderlyInv, Before, Wired
<1>6. toDev \in Seq(Message) /\ queue \in Seq(Entry) /\ ask[c] \in Message
  BY DEF OrderlyInv, TypeOK
<1>7. Holding'
  BY <1>2 DEF OrderlyInv, Holding, Held, TakenBack
<1>8. \A d \in Client : IsWaiting(d) => IsWaiting(d)' /\ Waiting(d)' = Waiting(d)
  BY <1>2, <1>3 DEF IsWaiting, Waiting
<1>9. CASE ask[c].type \in Control
  <2> DEFINE e == Waiting(c)
  <2>1. queue' = Append(queue, e) /\ toDev' = IF queue = <<>> THEN Append(toDev, e.req) ELSE toDev
    BY <1>1, <1>4, <1>9 DEF Forward, Waiting
  <2>2. e \in Entry /\ e.fd # Server
    BY <1>1, <1>6, <1>9 DEF OrderlyInv, TypeOK, Entry, Waiting, Message, MessageOf, Server
  <2>3. e \notin ToSet(queue)
    <3>1. \A d \in Client : IsWaiting(d) => Waiting(d) # e
      BY <1>1 DEF IsWaiting, Waiting, OrderlyInv, Wired
    <3>2. \A i \in Id : OwnRelease(i) # e
      BY <2>2 DEF OwnRelease
    <3>3. QED
      BY <3>1, <3>2 DEF OrderlyInv, Queued
  <2>4. /\ ToSet(queue') = ToSet(queue) \cup {e} /\ queue' # <<>>
        /\ queue'[1] = (IF queue = <<>> THEN e ELSE queue[1])
        /\ \A M : AtMostOne(queue, M) /\ (e \in M => NoneOf(queue, M)) => AtMostOne(queue', M)
    <3> HIDE DEF e
    <3>1. QED
      BY <1>6, <2>1, <2>2, AppendElements
  <2>5. IsWaiting(c)' /\ e = Waiting(c)'
    BY <1>1, <1>2, <1>3 DEF IsWaiting, Waiting
  <2>6. queue' \in Seq(Entry)
    BY DEF TypeOK
  <2>7. Queued'
    <3>1. Distinct(queue')
      <4>1. \A y \in Entry : AtMostOne(queue', {y})
        BY <1>6, <2>3, <2>4, DistinctOnce DEF NoneOf, OrderlyInv, Queued
      <4>2. QED
        BY <2>6, <4>1, DistinctOnce
    <3>2. \A x \in ToSet(queue') : \/ \E i \in Id : x = OwnRelease(i)
                                   \/ \E d \in Client : x = Waiting(d)' /\ IsWaiting(d)'
      <4> HIDE DEF e
      <4>1. QED
        BY <1>8, <2>4, <2>5 DEF OrderlyInv, Queued
    <3>3. QED
      BY <3>1, <3>2 DEF Queued, OwnRelease
  <2>8. OneOut' /\ Services'
    <3> HIDE DEF e
    <3>1. \A d \in Client : inbox'[d] \in {<<>>, inbox[d]}
      BY <1>3
    <3>2. QED
      BY <1>1, <1>2, <2>1, <2>2, <2>4, <3>1, SentIfIdle
  <2>9. Books'
    <3>1. \A i \in Id : OwnRelease(i) # e
      BY <2>2 DEF OwnRelease
    <3>2. \A i \in Id : OwnRelease(i)' = OwnRelease(i) /\ (OwnRelease(i) \in ToSet(queue') <=> OwnRelease(i) \in ToSet(queue))
      <4> HIDE DEF e
      <4>1. QED
        BY <2>4, <3>1 DEF OwnRelease
    <3>3. QED
      BY <1>1, <1>2, <3>2 DEF OrderlyInv, TypeOK, Books, Unheld, Held, GivenOut, TakenBack
  <2>10. QED
    BY <1>5, <1>7, <2>7, <2>8, <2>9 DEF OrderlyInv
<1>10. CASE ask[c].type = "SVC"
  <2>1. toDev' = Append(toDev, ask[c]) /\ UNCHANGED queue
    BY <1>4, <1>10 DEF Forward, Control
  <2>2. /\ \A m \in ToSet(toDev') : m \in ToSet(toDev) \/ m = ask[c]
        /\ ToSet(toDev) \subseteq ToSet(toDev')
        /\ \A M : AtMostOne(toDev, M) /\ (ask[c] \in M => NoneOf(toDev, M)) => AtMostOne(toDev', M)
        /\ \A M : NoneOf(toDev, M) /\ ask[c] \notin M => NoneOf(toDev', M)
    <3>1. /\ ToSet(toDev') = ToSet(toDev) \cup {ask[c]}
          /\ \A M : AtMostOne(toDev, M) /\ (ask[c] \in M => NoneOf(toDev, M)) => AtMostOne(toDev', M)
          /\ \A M : NoneOf(toDev, M) /\ ask[c] \notin M => NoneOf(toDev', M)
      BY <1>6, <2>1, AppendElements
    <3>2. QED
      BY <3>1
  <2>3. ask[c] \notin ControlMessage /\ \A d \in Client : d # c => ask[c] \notin ServiceOf(d)
    BY <1>1, <1>10 DEF ControlMessage, ServiceOf, Control
  <2>4. NoneOf(toDev, ServiceOf(c)) /\ NoneOf(fromDev, ServiceOf(c))
    BY <1>1 DEF OrderlyInv, Services
  <2>5. UNCHANGED <<queue, fromDev, ask>>
    BY <1>2, <2>1
  <2>6. OneOut'
    <3>1. NoneOf(toDev', ControlMessage) <=> NoneOf(toDev, ControlMessage)
      BY <2>2, <2>3 DEF NoneOf
    <3>2. \A m \in ToSet(toDev') : m.type \in Control => m \in ToSet(toDev)
      BY <1>10, <2>2 DEF Control
    <3>3. AtMostOne(toDev', ControlMessage)
      BY <1>1, <2>2, <2>3 DEF OrderlyInv, OneOut
    <3>4. QED
      BY <1>1, <2>5, <3>1, <3>2, <3>3 DEF OrderlyInv, OneOut
  <2>7. Services'
    <3>1. \A d \in Client : AtMostOne(toDev', ServiceOf(d)) /\ (d # c => (NoneOf(toDev, ServiceOf(d)) => NoneOf(toDev', ServiceOf(d))))
      BY <1>1, <2>2, <2>3, <2>4 DEF OrderlyInv, Services
    <3>2. \A m \in ToSet(toDev') : m.type \in Control \/ (m.type = "SVC" /\ m.by \in Client /\ m = ask[m.by])
      BY <1>1, <1>10, <2>2 DEF OrderlyInv, Services
    <3>3. \A d \in Client : inbox'[d] # <<>> => d # c /\ inbox[d] # <<>>
      BY <1>3
    <3>4. QED
      BY <1>1, <2>4, <2>5, <3>1, <3>2, <3>3 DEF OrderlyInv, Services
  <2>8. Queued' /\ Books'
    BY <1>1, <1>2, <1>8, <2>5 DEF OrderlyInv, Queued, Books, Unheld, Held, GivenOut, TakenBack, OwnRelease
  <2>9. QED
    BY <1>5, <1>7, <2>6, <2>7, <2>8 DEF OrderlyInv
<1>11. QED
  BY <1>1, <1>9, <1>10 DEF Control

\* A connection begins with no ids and with a descriptor nobody has.
LEMMA AcceptOrderly ==
  ASSUME OrderlyInv, NEW c \in Client, Accept(c), TypeOK'
  PROVE  OrderlyInv'
<1>1. PICK f \in Fd : (\A d \in Client : fdOf[d] # f) /\ fdOf' = [fdOf EXCEPT ![c] = f]
  BY DEF Accept
<1>2. /\ phase = "serving" /\ phase' = "serving" /\ life[c] = "out"
      /\ life' = [life EXCEPT ![c] = "in"] /\ owned' = [owned EXCEPT ![c] = <<>>]
      /\ UNCHANGED <<queue, toDev, fromDev, alloc, inbox, ask, mine>>
  BY DEF Accept, sessionVars, devVars
<1>3. fdOf[c] = 0 /\ owned[c] = <<>> /\ ask[c] = Nothing
  BY <1>2 DEF OrderlyInv, Wired
<1>4. owned' = owned
  BY <1>2, <1>3 DEF OrderlyInv, TypeOK
<1>5. /\ fdOf'[c] = f /\ f # 0 /\ life'[c] = "in"
      /\ \A d \in Client : d # c => fdOf'[d] = fdOf[d] /\ life'[d] = life[d]
  BY <1>1, <1>2 DEF OrderlyInv, TypeOK, Fd
<1>6. Before' /\ Wired'
  BY <1>1, <1>2, <1>3, <1>4, <1>5 DEF OrderlyInv, Before, Wired
<1>7. Queued'
  <2>1. \A d \in Client : IsWaiting(d) => IsWaiting(d)' /\ Waiting(d)' = Waiting(d)
    BY <1>2, <1>3, <1>5 DEF IsWaiting, Waiting
  <2>2. QED
    BY <1>2, <2>1 DEF OrderlyInv, Queued
<1>8. OneOut' /\ Services'
  BY <1>2 DEF OrderlyInv, OneOut, Services
<1>9. Holding' /\ Books'
  BY <1>2, <1>4 DEF OrderlyInv, Holding, Books, Held, TakenBack, GivenOut, Unheld
<1>10. QED
  BY <1>6, <1>7, <1>8, <1>9 DEF OrderlyInv

\* Before there is a server the proxy takes a message from the device.
LEMMA SyncReadOrderly ==
  ASSUME OrderlyInv, FromDevInSync, TypeOK'
  PROVE  OrderlyInv'
<1>1. /\ phase = "sync" /\ phase' = "sync" /\ fromDev # <<>> /\ fromDev' = Tail(fromDev)
      /\ UNCHANGED <<tries, fdOf, owned, queue, toDev, alloc, life, inbox, ask, mine>>
  BY DEF FromDevInSync, proxyVars, clientVars
<1>2. ToSet(fromDev') \subseteq ToSet(fromDev)
  <2>1. fromDev \in Seq(FromModem)
    BY DEF OrderlyInv, TypeOK
  <2>2. ToSet(fromDev) = {Head(fromDev)} \cup ToSet(fromDev')
    BY <1>1, <2>1, TailElements
  <2>3. QED
    BY <2>2
<1>3. Before'
  BY <1>1, <1>2 DEF OrderlyInv, Before
<1>4. Wired' /\ Queued'
  BY <1>1 DEF OrderlyInv, Wired, Queued, IsWaiting, Waiting
<1>5. Holding'
  <2>1. \A c \in Client : owned'[c] = <<>> /\ ask'[c] = Nothing /\ mine'[c] = {}
    BY <1>1 DEF OrderlyInv, Before
  <2>2. QED
    BY <2>1, EmptyHasNone DEF Holding, Held, Distinct, Nothing, Msg
<1>6. QED
  BY <1>1, <1>3, <1>4, <1>5 DEF OrderlyInv, OneOut, Services, Books

\* The requests that release the ids of a connection: one for each.
LEMMA ReleasesOfHeld ==
  ASSUME TypeOK, NEW c \in Client, Distinct(owned[c])
  PROVE  /\ Releases(c) \in Seq(Entry) /\ Distinct(Releases(c))
         /\ ToSet(Releases(c)) = {OwnRelease(i) : i \in Held(c)}
<1> DEFINE r == Releases(c)
<1>1. owned[c] \in Seq(Id) /\ Len(owned[c]) \in Nat
  BY DEF TypeOK
<1>2. \A k \in 1..Len(owned[c]) : owned[c][k] \in Id
  BY <1>1
<1>3. \A i \in Id : OwnRelease(i) \in Entry
  BY ProxyAssumption DEF OwnRelease, Entry, Server, Msg, MessageOf, Control, ProxyTid, Id
<1>4. Len(r) = Len(owned[c]) /\ \A k \in 1..Len(owned[c]) : r[k] = OwnRelease(owned[c][k])
  BY <1>1 DEF Releases, OwnRelease
<1>5. r \in Seq(Entry)
  BY <1>1, <1>2, <1>3 DEF Releases, OwnRelease
<1> HIDE DEF r
<1>6. \A i, j \in Id : OwnRelease(i) = OwnRelease(j) => i = j
  BY DEF OwnRelease, Msg
<1>7. Distinct(r)
  BY <1>1, <1>2, <1>4, <1>6 DEF Distinct
<1>8. \A x \in ToSet(r) : \E i \in Held(c) : x = OwnRelease(i)
  BY <1>1, <1>4, <1>5, ElementsAreIndexed DEF Held
<1>9. \A i \in Held(c) : OwnRelease(i) \in ToSet(r)
  BY <1>1, <1>4, <1>5, ElementsAreIndexed DEF Held
<1>10. QED
  BY <1>5, <1>7, <1>8, <1>9 DEF r

\* The proxy sees that a client is gone: its ids are now the proxy's to release.
LEMMA CleanupOrderly ==
  ASSUME OrderlyInv, NEW c \in Client, Cleanup(c), TypeOK'
  PROVE  OrderlyInv'
<1>1. PICK r : r = Releases(c)
  OBVIOUS
<1>2. /\ phase = "serving" /\ phase' = "serving" /\ fdOf[c] # 0 /\ life[c] = "gone"
      /\ fdOf' = [fdOf EXCEPT ![c] = 0] /\ owned' = [owned EXCEPT ![c] = <<>>]
      /\ inbox' = [inbox EXCEPT ![c] = <<>>]
      /\ UNCHANGED <<fromDev, alloc, life, ask, mine>>
  BY DEF Cleanup, Connected, sessionVars
<1>3. ask[c] = Nothing /\ inbox[c] = <<>> /\ mine[c] = {}
  BY <1>2 DEF OrderlyInv, Wired
<1>4. /\ fdOf'[c] = 0 /\ owned'[c] = <<>> /\ inbox'[c] = <<>>
      /\ \A d \in Client : d # c => fdOf'[d] = fdOf[d] /\ owned'[d] = owned[d] /\ inbox'[d] = inbox[d]
  BY <1>2 DEF OrderlyInv, TypeOK
<1>5. /\ r \in Seq(Entry) /\ Distinct(r) /\ ToSet(r) = {OwnRelease(i) : i \in Held(c)}
  BY <1>1, ReleasesOfHeld DEF OrderlyInv, Holding
<1>6. queue \in Seq(Entry) /\ toDev \in Seq(Message) /\ queue' \in Seq(Entry)
  BY DEF OrderlyInv, TypeOK
<1>7. /\ queue \o r \in Seq(Entry) /\ ToSet(queue \o r) = ToSet(queue) \cup ToSet(r)
      /\ queue # <<>> => queue \o r # <<>> /\ (queue \o r)[1] = queue[1]
      /\ queue = <<>> => queue \o r = r
      /\ \A M : /\ AtMostOne(queue, M) /\ AtMostOne(r, M) /\ (NoneOf(queue, M) \/ NoneOf(r, M))
                => AtMostOne(queue \o r, M)
  BY <1>5, <1>6, ConcatElements
<1>8. \A x \in ToSet(queue) \cup ToSet(r) : x.fd # fdOf[c]
  <2>1. \A i \in Id : OwnRelease(i).fd # fdOf[c]
    BY <1>2 DEF OwnRelease, Server
  <2>2. \A d \in Client : IsWaiting(d) => Waiting(d).fd # fdOf[c]
    BY <1>2, <1>3 DEF IsWaiting, Waiting, OrderlyInv, Wired
  <2>3. \A x \in ToSet(r) : \E i \in Id : x = OwnRelease(i)
    BY <1>5, HeldIds DEF OrderlyInv
  <2>4. QED
    BY <2>1, <2>2, <2>3 DEF OrderlyInv, Queued
<1>9. queue' = queue \o r
  <2>1. queue' = WithoutFirst(queue \o r, {i \in 1..Len(queue \o r) : (queue \o r)[i].fd = fdOf[c]})
    BY <1>1 DEF Cleanup
  <2>2. \A i \in 1..Len(queue \o r) : (queue \o r)[i] \in ToSet(queue \o r)
    BY <1>7, ElementsAreIndexed
  <2>3. {i \in 1..Len(queue \o r) : (queue \o r)[i].fd = fdOf[c]} = {}
    BY <1>7, <1>8, <2>2
  <2>4. QED
    BY <2>1, <2>3 DEF WithoutFirst
<1>10. toDev' = IF queue = <<>> /\ r # <<>> THEN Append(toDev, r[1].req) ELSE toDev
  BY <1>1 DEF Cleanup
<1>11. ToSet(queue') = ToSet(queue) \cup {OwnRelease(i) : i \in Held(c)}
  BY <1>5, <1>7, <1>9
<1>12. Before' /\ Wired'
  BY <1>2, <1>3, <1>4 DEF OrderlyInv, Before, Wired
<1>13. \A i \in Id : OwnRelease(i) \in ToSet(queue) => i \notin Held(c)
  BY <1>2 DEF OrderlyInv, Books, Unheld
<1>14. Queued'
  <2>1. \A d \in Client : IsWaiting(d) => IsWaiting(d)' /\ Waiting(d)' = Waiting(d)
    BY <1>2, <1>3, <1>4 DEF IsWaiting, Waiting
  <2>2. \A x \in ToSet(queue') : \/ \E i \in Id : x = OwnRelease(i)
                                 \/ \E d \in Client : x = Waiting(d)' /\ IsWaiting(d)'
    BY <1>11, <2>1, HeldIds DEF OrderlyInv, Queued
  <2>3. \A y \in Entry : AtMostOne(queue, {y}) /\ AtMostOne(r, {y})
    BY <1>5, <1>6, DistinctOnce DEF OrderlyInv, Queued
  <2>4. \A y \in Entry : NoneOf(queue, {y}) \/ NoneOf(r, {y})
    <3>1. \A x \in ToSet(r) : x \notin ToSet(queue)
      BY <1>5, <1>13, HeldIds DEF OrderlyInv
    <3>2. QED
      BY <3>1 DEF NoneOf
  <2>5. Distinct(queue')
    <3>1. \A y \in Entry : AtMostOne(queue \o r, {y})
      BY <1>7, <2>3, <2>4
    <3>2. QED
      BY <1>7, <1>9, <3>1, DistinctOnce
  <2>6. QED
    BY <2>2, <2>5 DEF Queued, OwnRelease
<1>15. OneOut' /\ Services'
  <2>1. CASE r = <<>>
    <3>1. queue' = queue /\ toDev' = toDev
      BY <1>6, <1>9, <1>10, <2>1
    <3>2. \A d \in Client : inbox'[d] # <<>> => inbox[d] # <<>>
      BY <1>4
    <3>3. QED
      BY <1>2, <3>1, <3>2 DEF OrderlyInv, OneOut, Services
  <2>2. CASE r # <<>>
    <3>1. r[1] \in Entry
      BY <1>5, <2>2
    <3>2. queue' # <<>> /\ queue'[1] = IF queue = <<>> THEN r[1] ELSE queue[1]
      BY <1>7, <1>9, <2>2
    <3>3. toDev' = IF queue = <<>> THEN Append(toDev, r[1].req) ELSE toDev
      BY <1>10, <2>2
    <3>4. \A d \in Client : inbox'[d] \in {<<>>, inbox[d]}
      BY <1>4
    <3>5. QED
      BY <1>2, <3>1, <3>2, <3>3, <3>4, SentIfIdle
  <2>3. QED
    BY <2>1, <2>2
<1>16. Holding'
  <2>1. Held(c)' = {} /\ \A d \in Client : d # c => Held(d)' = Held(d)
    BY <1>4, EmptyHasNone DEF Held
  <2>2. \A d \in Client : Distinct(owned[d])'
    BY <1>4 DEF OrderlyInv, Holding, Distinct
  <2>3. \A i : TakenBack(i)' <=> TakenBack(i)
    BY <1>2 DEF TakenBack
  <2>4. \A d \in Client : mine'[d] \subseteq Held(d)'
    BY <1>2, <1>3, <2>1 DEF OrderlyInv, Holding
  <2>5. \A d \in Client : ask'[d] # Nothing /\ ask'[d].type \in {"RELEASE", "SVC"} => ask'[d].id \in Held(d)'
    BY <1>2, <1>3, <2>1 DEF OrderlyInv, Holding
  <2>6. \A d, b \in Client : d # b => Held(d)' \cap Held(b)' = {}
    BY <2>1 DEF OrderlyInv, Holding
  <2>7. \A d \in Client : \A i \in Held(d)' : i \in alloc' \/ TakenBack(i)'
    BY <1>2, <2>1, <2>3 DEF OrderlyInv, Holding
  <2>8. \A d \in Client : ask'[d].type = "RELEASE" => ask'[d].id \notin mine'[d]
    BY <1>2 DEF OrderlyInv, Holding
  <2>9. QED
    BY <2>2, <2>4, <2>5, <2>6, <2>7, <2>8 DEF Holding
<1>17. Books'
  <2>1. \A i \in Id : OwnRelease(i) \in ToSet(queue') <=> OwnRelease(i) \in ToSet(queue) \/ i \in Held(c)
    <3>1. \A i, j \in Id : OwnRelease(i) = OwnRelease(j) => i = j
      BY DEF OwnRelease, Msg
    <3>2. Held(c) \subseteq Id
      BY HeldIds DEF OrderlyInv
    <3>3. QED
      BY <1>11, <3>1, <3>2
  <2>2. \A i \in Id : OwnRelease(i)' = OwnRelease(i)
    BY DEF OwnRelease
  <2>3. \A i \in Id : (TakenBack(i)' <=> TakenBack(i)) /\ (GivenOut(i)' <=> GivenOut(i))
    BY <1>2 DEF TakenBack, GivenOut
  <2>4. Held(c)' = {} /\ \A d \in Client : d # c => Held(d)' = Held(d)
    BY <1>4, EmptyHasNone DEF Held
  <2>5. \A i \in Id : Unheld(i)' <=> Unheld(i) \/ i \in Held(c)
    BY <2>4 DEF OrderlyInv, Holding, Unheld
  <2>6. \A i \in Held(c) : i \in alloc \/ TakenBack(i)
    BY DEF OrderlyInv, Holding
  <2>7. alloc' = alloc /\ alloc \subseteq Id
    BY <1>2 DEF OrderlyInv, TypeOK
  <2>8. \A i \in Id : GivenOut(i) => i \notin Held(c)
    BY <1>2 DEF OrderlyInv, Books, Unheld
  <2>9. QED
    BY <1>2, <2>1, <2>2, <2>3, <2>5, <2>6, <2>7, <2>8 DEF OrderlyInv, Books
<1>18. QED
  BY <1>12, <1>14, <1>15, <1>16, <1>17 DEF OrderlyInv

\* What a step of the modem does: it takes the first message and answers it.
ModemAnswers(m, a) ==
  /\ toDev # <<>> /\ m = Head(toDev) /\ toDev' = Tail(toDev)
  /\ a \in FromModem /\ fromDev' = Append(fromDev, a)
  /\ a.type = m.type /\ a.tid = m.tid /\ a.by = m.by
  /\ CASE m.type = "GET" -> \/ ~a.ok /\ alloc' = alloc
                            \/ a.ok /\ a.id \in Id \ alloc /\ alloc' = alloc \cup {a.id}
       [] m.type = "RELEASE" -> a.id = m.id /\ a.ok = (m.id \in alloc) /\ alloc' = alloc \ {m.id}
       [] m.type = "SYNC" -> a.ok /\ a.id = 0 /\ alloc' = {}
       [] OTHER -> a.ok /\ a.id = m.id /\ alloc' = alloc
  /\ UNCHANGED <<phase, tries, fdOf, owned, queue, life, inbox, ask, mine>>

LEMMA ModemStep ==
  ASSUME TypeOK, Modem, "answer" \notin Faulty
  PROVE  \E m \in Message, a \in FromModem : ModemAnswers(m, a)
<1>0. toDev \in Seq(Message) /\ toDev # <<>> /\ fromDev \in Seq(FromModem)
  BY DEF TypeOK, Modem
<1>1. PICK m \in Message : m = Head(toDev)
  BY <1>0, HeadAndTail
<1>2. PICK a \in [type : {m.type}, id : 0..Ids, tid : {m.tid}, by : {m.by}, ok : BOOLEAN] :
        /\ CASE m.type = "GET" ->
                  IF alloc = Id THEN ~a.ok /\ a.id = 0 /\ UNCHANGED alloc
                  ELSE a.ok /\ a.id \in Id \ alloc /\ alloc' = alloc \cup {a.id}
             [] m.type = "RELEASE" ->
                  a.id = m.id /\ a.ok = (m.id \in alloc) /\ alloc' = alloc \ {m.id}
             [] m.type = "SYNC" -> a.ok /\ a.id = 0 /\ alloc' = {}
             [] OTHER -> a.ok /\ a.id = m.id /\ UNCHANGED alloc
        /\ fromDev' = Append(fromDev, a)
  BY <1>1 DEF Modem, Fault
<1>3. a.type = m.type /\ a.tid = m.tid /\ a.by = m.by /\ a \in Message
  BY <1>2 DEF Message, MessageOf
<1>4. CASE m.type = "GET"
  <2>1. \/ ~a.ok /\ alloc' = alloc
        \/ a.ok /\ a.id \in Id \ alloc /\ alloc' = alloc \cup {a.id}
    BY <1>2, <1>4
  <2>2. a \in FromModem
    BY <1>3, <2>1 DEF FromModem
  <2>3. QED
    BY <1>0, <1>1, <1>2, <1>3, <1>4, <2>1, <2>2 DEF ModemAnswers, Modem, sessionVars, proxyVars, clientVars
<1>5. CASE m.type # "GET"
  <2>1. a \in FromModem
    BY <1>3, <1>5 DEF FromModem
  <2>2. /\ m.type = "RELEASE" => a.id = m.id /\ a.ok = (m.id \in alloc) /\ alloc' = alloc \ {m.id}
        /\ m.type = "SYNC" => a.ok /\ a.id = 0 /\ alloc' = {}
        /\ m.type \notin {"RELEASE", "SYNC"} => a.ok /\ a.id = m.id /\ alloc' = alloc
    BY <1>2, <1>5
  <2>3. QED
    BY <1>0, <1>1, <1>2, <1>3, <1>5, <2>1, <2>2 DEF ModemAnswers, Modem, sessionVars, proxyVars, clientVars
<1>6. QED
  BY <1>4, <1>5

\* What a step of the modem does to the lists.
LEMMA ModemLists ==
  ASSUME TypeOK, NEW m \in Message, NEW a \in FromModem, ModemAnswers(m, a)
  PROVE  /\ toDev' \in Seq(Message)
         /\ ToSet(toDev) = {m} \cup ToSet(toDev') /\ ToSet(fromDev') = ToSet(fromDev) \cup {a}
         /\ \A M : AtMostOne(toDev, M) => AtMostOne(toDev', M) /\ (m \in M => NoneOf(toDev', M))
         /\ \A M : NoneOf(toDev, M) => NoneOf(toDev', M)
         /\ \A M : NoneOf(toDev', M) /\ m \notin M => NoneOf(toDev, M)
         /\ \A M : AtMostOne(fromDev, M) /\ (a \in M => NoneOf(fromDev, M)) => AtMostOne(fromDev', M)
         /\ \A M : NoneOf(fromDev, M) /\ a \notin M => NoneOf(fromDev', M)
         /\ \A M : NoneOf(fromDev', M) => NoneOf(fromDev, M) /\ a \notin M
<1>1. toDev \in Seq(Message) /\ toDev # <<>> /\ fromDev \in Seq(FromModem)
  BY DEF TypeOK, ModemAnswers
<1>2. /\ ToSet(toDev) = {m} \cup ToSet(toDev') /\ toDev' \in Seq(Message)
      /\ \A M : AtMostOne(toDev, M) => AtMostOne(toDev', M) /\ (m \in M => NoneOf(toDev', M))
      /\ \A M : NoneOf(toDev, M) => NoneOf(toDev', M)
  BY <1>1, TailElements DEF ModemAnswers
<1>3. /\ ToSet(fromDev') = ToSet(fromDev) \cup {a}
      /\ \A M : AtMostOne(fromDev, M) /\ (a \in M => NoneOf(fromDev, M)) => AtMostOne(fromDev', M)
      /\ \A M : NoneOf(fromDev, M) /\ a \notin M => NoneOf(fromDev', M)
  BY <1>1, AppendElements DEF ModemAnswers
<1>4. QED
  BY <1>2, <1>3 DEF NoneOf

\* The modem takes a SYNC: all ids are back.
LEMMA ModemSynced ==
  ASSUME OrderlyInv, phase = "sync", NEW m \in Message, NEW a \in FromModem, ModemAnswers(m, a), TypeOK'
  PROVE  OrderlyInv'
<1>1. /\ phase' = "sync" /\ UNCHANGED <<tries, fdOf, owned, queue, life, inbox, ask, mine>>
  BY DEF ModemAnswers
<1>2. ToSet(toDev) = {m} \cup ToSet(toDev') /\ ToSet(fromDev') = ToSet(fromDev) \cup {a}
  BY ModemLists DEF OrderlyInv
<1>3. m.type = "SYNC" /\ a.type = "SYNC" /\ alloc' = {}
  BY <1>2 DEF OrderlyInv, Before, ModemAnswers
<1>4. Before'
  BY <1>1, <1>2, <1>3 DEF OrderlyInv, Before
<1>5. Wired' /\ Queued'
  BY <1>1 DEF OrderlyInv, Wired, Queued, IsWaiting, Waiting
<1>6. Holding'
  <2>1. \A c \in Client : owned'[c] = <<>> /\ ask'[c] = Nothing /\ mine'[c] = {}
    BY <1>1 DEF OrderlyInv, Before
  <2>2. QED
    BY <2>1, EmptyHasNone DEF Holding, Held, Distinct, Nothing, Msg
<1>7. QED
  BY <1>1, <1>4, <1>5, <1>6 DEF OrderlyInv, OneOut, Services, Books

\* The modem takes a request to a service and answers it.
LEMMA ModemServed ==
  ASSUME OrderlyInv, phase = "serving", NEW m \in Message, NEW a \in FromModem, ModemAnswers(m, a),
         m.type \notin Control, TypeOK'
  PROVE  OrderlyInv'
<1>1. phase' = "serving" /\ UNCHANGED <<tries, fdOf, owned, queue, life, inbox, ask, mine>>
  BY DEF ModemAnswers
<1>2. ToSet(toDev) = {m} \cup ToSet(toDev') /\ ToSet(fromDev') = ToSet(fromDev) \cup {a}
  BY ModemLists DEF OrderlyInv
<1>3. m.type = "SVC" /\ m.by \in Client /\ m = ask[m.by]
  BY <1>2 DEF OrderlyInv, Services
<1>4. a.type = "SVC" /\ a.by = m.by /\ a.tid = m.tid /\ a.id = m.id /\ alloc' = alloc
  BY <1>3 DEF ModemAnswers
<1>5. a \in Message
  BY DEF FromModem
<1>6. m \notin ControlMessage /\ a \notin ControlMessage
  BY <1>3, <1>4 DEF ControlMessage, Control
<1>7. /\ m \in ServiceOf(m.by) /\ a \in ServiceOf(m.by)
      /\ \A c \in Client : c # m.by => m \notin ServiceOf(c) /\ a \notin ServiceOf(c)
  BY <1>3, <1>4, <1>5 DEF ServiceOf
<1>8. OneOut'
  <2>1. NoneOf(toDev', ControlMessage) <=> NoneOf(toDev, ControlMessage)
    BY <1>6, ModemLists DEF OrderlyInv
  <2>2. NoneOf(fromDev', ControlMessage) <=> NoneOf(fromDev, ControlMessage)
    BY <1>6, ModemLists DEF OrderlyInv
  <2>3. AtMostOne(toDev', ControlMessage) /\ AtMostOne(fromDev', ControlMessage)
    BY phase = "serving", <1>6, ModemLists DEF OrderlyInv, OneOut
  <2>4. \A x \in ToSet(fromDev') : x.type \in Control => x \in ToSet(fromDev)
    BY <1>2, <1>4 DEF Control
  <2>5. \A x \in ToSet(toDev') : x \in ToSet(toDev)
    BY <1>2
  <2>6. QED
    BY phase = "serving", <1>1, <2>1, <2>2, <2>3, <2>4, <2>5 DEF OrderlyInv, OneOut
<1>9. Services'
  <2>1. NoneOf(fromDev, ServiceOf(m.by)) /\ inbox[m.by] = <<>>
    BY <1>2, <1>3, <1>7 DEF OrderlyInv, Services, NoneOf
  <2>2. /\ AtMostOne(toDev', ServiceOf(m.by)) /\ NoneOf(toDev', ServiceOf(m.by))
        /\ AtMostOne(fromDev', ServiceOf(m.by))
    BY phase = "serving", <1>3, <1>7, <2>1, ModemLists DEF OrderlyInv, Services
  <2>3. ASSUME NEW c \in Client, c # m.by
        PROVE  /\ AtMostOne(toDev', ServiceOf(c)) /\ AtMostOne(fromDev', ServiceOf(c))
               /\ NoneOf(toDev, ServiceOf(c)) => NoneOf(toDev', ServiceOf(c))
               /\ NoneOf(fromDev, ServiceOf(c)) => NoneOf(fromDev', ServiceOf(c))
    BY phase = "serving", <1>7, <2>3, ModemLists DEF OrderlyInv, Services
  <2>4. \A c \in Client :
         /\ AtMostOne(toDev', ServiceOf(c)) /\ AtMostOne(fromDev', ServiceOf(c))
         /\ NoneOf(toDev', ServiceOf(c)) \/ NoneOf(fromDev', ServiceOf(c))
         /\ inbox'[c] # <<>> => NoneOf(toDev', ServiceOf(c)) /\ NoneOf(fromDev', ServiceOf(c))
    BY <1>1, <2>1, <2>2, <2>3 DEF OrderlyInv, Services
  <2>5. \A x \in ToSet(toDev') : x.type \in Control \/ (x.type = "SVC" /\ x.by \in Client /\ x = ask'[x.by])
    BY <1>1, <1>2 DEF OrderlyInv, Services
  <2>6. a.by \in Client /\ ask[a.by].type = "SVC" /\ a.tid = ask[a.by].tid /\ a.id = ask[a.by].id /\ ask[a.by] # Nothing
    <3>1. m # Nothing
      BY <1>3 DEF Nothing, Msg, Client
    <3>2. QED
      BY <1>3, <1>4, <3>1
  <2>7. QED
    BY <1>1, <1>2, <1>4, <2>4, <2>5, <2>6 DEF OrderlyInv, Services
<1>10. \A i \in Id : (TakenBack(i)' <=> TakenBack(i)) /\ (GivenOut(i)' <=> GivenOut(i))
  BY <1>2, <1>4 DEF TakenBack, GivenOut
<1>11. Holding'
  BY <1>1, <1>4, <1>10, HeldIds DEF OrderlyInv, Holding, Held
<1>12. Books'
  BY <1>1, <1>4, <1>10 DEF OrderlyInv, TypeOK, Books, Held, Unheld, OwnRelease
<1>13. Before' /\ Wired' /\ Queued'
  BY <1>1 DEF OrderlyInv, Before, Wired, Queued, IsWaiting, Waiting
<1>14. QED
  BY <1>8, <1>9, <1>11, <1>12, <1>13 DEF OrderlyInv

\* What is at the head of the queue when the modem has it: a request of a
\* client that waits, or a release of the proxy's own.
LEMMA HeadOfQueue ==
  ASSUME OrderlyInv, phase = "serving", NEW m \in Message, m.type \in Control,
         m \in ToSet(toDev) \/ \E q \in ToSet(fromDev) : q.type \in Control
  PROVE  /\ queue # <<>> /\ queue[1] \in ToSet(queue) /\ queue[1] \in Entry
         /\ m \in ToSet(toDev) => m = queue[1].req
         /\ \/ \E i \in Id : queue[1] = OwnRelease(i)
            \/ \E c \in Client : queue[1] = Waiting(c) /\ IsWaiting(c)
<1>1. m \in ControlMessage
  BY DEF ControlMessage
<1>2. fromDev \in Seq(FromModem) /\ queue \in Seq(Entry)
  BY DEF OrderlyInv, TypeOK
<1>3. \A q \in ToSet(fromDev) : q \in Message
  BY <1>2, ElementsAreIndexed DEF FromModem
<1>4. queue # <<>>
  BY <1>1, <1>3 DEF OrderlyInv, OneOut, NoneOf, ControlMessage
<1>5. queue[1] \in ToSet(queue) /\ queue[1] \in Entry
  BY <1>2, <1>4, HeadAndTail, ElementsAreIndexed
<1>6. QED
  BY <1>4, <1>5 DEF OrderlyInv, OneOut, Queued

\* The modem takes the control message it has and answers it.
LEMMA ModemControlled ==
  ASSUME OrderlyInv, phase = "serving", NEW m \in Message, NEW a \in FromModem, ModemAnswers(m, a),
         m.type \in Control, TypeOK'
  PROVE  OrderlyInv'
<1>1. phase' = "serving" /\ UNCHANGED <<tries, fdOf, owned, queue, life, inbox, ask, mine>>
  BY DEF ModemAnswers
<1>2. ToSet(toDev) = {m} \cup ToSet(toDev') /\ ToSet(fromDev') = ToSet(fromDev) \cup {a}
  BY ModemLists DEF OrderlyInv
<1>3. a.type = m.type /\ a.by = m.by /\ a.tid = m.tid
  BY DEF ModemAnswers
<1>4. a \in Message /\ a \in ControlMessage /\ m \in ControlMessage
  BY <1>3 DEF FromModem, ControlMessage
<1>5. \A c \in Client : m \notin ServiceOf(c) /\ a \notin ServiceOf(c)
  BY <1>3 DEF ServiceOf, Control
<1>6. NoneOf(fromDev, ControlMessage) /\ ~NoneOf(toDev, ControlMessage) /\ NoneOf(toDev', ControlMessage)
  <2>1. ~NoneOf(toDev, ControlMessage)
    BY <1>2, <1>4 DEF NoneOf
  <2>2. QED
    BY <1>4, <2>1, ModemLists DEF OrderlyInv, OneOut
<1>7. \A x \in ToSet(fromDev) : x.type \notin Control
  <2>1. fromDev \in Seq(FromModem)
    BY DEF OrderlyInv, TypeOK
  <2>2. \A x \in ToSet(fromDev) : x \in Message
    BY <2>1, ElementsAreIndexed DEF FromModem
  <2>3. QED
    BY <1>6, <2>2 DEF NoneOf, ControlMessage
<1>8. \A x \in ToSet(toDev') : x.type \notin Control
  <2>1. \A x \in ToSet(toDev') : x \in Message
    BY ModemLists, ElementsAreIndexed DEF OrderlyInv
  <2>2. QED
    BY <1>6, <2>1 DEF NoneOf, ControlMessage
<1>9. \A i \in Id : ~TakenBack(i) /\ ~GivenOut(i)
  BY <1>7 DEF TakenBack, GivenOut, Control
<1>10. /\ queue # <<>> /\ m = queue[1].req /\ queue[1] \in ToSet(queue)
       /\ \/ \E i \in Id : queue[1] = OwnRelease(i)
          \/ \E c \in Client : queue[1] = Waiting(c) /\ IsWaiting(c)
  BY <1>2, HeadOfQueue
<1>11. m.type \in {"VERSION", "GET", "RELEASE"}
  <2>1. ASSUME NEW i \in Id, queue[1] = OwnRelease(i) PROVE m.type = "RELEASE"
    BY <1>10, <2>1 DEF OwnRelease, Msg
  <2>2. ASSUME NEW c \in Client, queue[1] = Waiting(c) /\ IsWaiting(c)
        PROVE  m.type \in {"VERSION", "GET", "RELEASE"}
    BY <1>10, <2>2 DEF Waiting, IsWaiting, OrderlyInv, Wired, Control
  <2>3. QED
    BY <1>10, <2>1, <2>2
<1>12. m.type = "RELEASE" => m.id \in alloc
  <2>1. ASSUME NEW i \in Id, queue[1] = OwnRelease(i) PROVE m.id \in alloc
    <3>1. m.id = i
      BY <1>10, <2>1 DEF OwnRelease, Msg
    <3>2. QED
      BY <1>9, <1>10, <2>1, <3>1 DEF OrderlyInv, Books
  <2>2. ASSUME NEW c \in Client, queue[1] = Waiting(c) /\ IsWaiting(c), m.type = "RELEASE"
        PROVE  m.id \in alloc
    <3>1. m = ask[c] /\ ask[c] # Nothing
      BY <1>10, <2>2 DEF Waiting, IsWaiting
    <3>2. m.id \in Held(c)
      BY <2>2, <3>1 DEF OrderlyInv, Holding
    <3>3. m.id \in Id
      BY <3>2, HeldIds DEF OrderlyInv
    <3>4. QED
      BY <1>9, <3>2, <3>3 DEF OrderlyInv, Holding
  <2>3. QED
    BY <1>10, <2>1, <2>2
<1>13. IsAnswer(a, m)
  BY <1>3, <1>12 DEF IsAnswer, ModemAnswers
<1>14. OneOut'
  <2>1. AtMostOne(toDev', ControlMessage) /\ AtMostOne(fromDev', ControlMessage)
    BY phase = "serving", <1>6, ModemLists DEF OrderlyInv, OneOut
  <2>2. ~NoneOf(fromDev', ControlMessage)
    BY <1>2, <1>4 DEF NoneOf
  <2>3. QED
    BY <1>1, <1>2, <1>6, <1>7, <1>8, <1>10, <1>13, <2>1, <2>2 DEF OneOut
<1>15. Services'
  <2>1. \A c \in Client :
         /\ AtMostOne(toDev', ServiceOf(c)) /\ AtMostOne(fromDev', ServiceOf(c))
         /\ NoneOf(toDev, ServiceOf(c)) => NoneOf(toDev', ServiceOf(c))
         /\ NoneOf(fromDev, ServiceOf(c)) => NoneOf(fromDev', ServiceOf(c))
    BY phase = "serving", <1>5, ModemLists DEF OrderlyInv, Services
  <2>2. \A x \in ToSet(toDev') : x \in ToSet(toDev)
    BY <1>2
  <2>3. \A x \in ToSet(fromDev') : x \in ToSet(fromDev) \/ x.type \in Control
    BY <1>2, <1>3
  <2>4. QED
    BY <1>1, <2>1, <2>2, <2>3 DEF OrderlyInv, Services
<1>16. /\ \A i \in Id : TakenBack(i)' <=> m.type = "RELEASE" /\ i = m.id
       /\ \A i \in Id : GivenOut(i)' <=> m.type = "GET" /\ a.ok /\ i = a.id
  <2>1. m.type = "RELEASE" => a.id = m.id
    BY <1>13 DEF IsAnswer
  <2>2. QED
    BY <1>2, <1>3, <1>7, <2>1 DEF TakenBack, GivenOut, Control
<1>17. /\ m.type = "RELEASE" => alloc' = alloc \ {m.id}
       /\ m.type = "VERSION" => alloc' = alloc
       /\ m.type = "GET" /\ ~a.ok => alloc' = alloc
       /\ m.type = "GET" /\ a.ok => a.id \in Id \ alloc /\ alloc' = alloc \cup {a.id}
  <2>1. m.type = "GET" => (\/ ~a.ok /\ alloc' = alloc
                           \/ a.ok /\ a.id \in Id \ alloc /\ alloc' = alloc \cup {a.id})
    BY DEF ModemAnswers
  <2>2. m.type = "RELEASE" => alloc' = alloc \ {m.id}
    BY DEF ModemAnswers
  <2>3. m.type = "VERSION" => alloc' = alloc
    BY DEF ModemAnswers
  <2>4. QED
    BY <2>1, <2>2, <2>3
<1>18. Holding'
  <2>1. \A c \in Client : \A i \in Held(c) : i \in alloc
    BY <1>9, HeldIds DEF OrderlyInv, Holding
  <2>2. \A c \in Client : \A i \in Held(c) : i \in alloc' \/ TakenBack(i)'
    BY <1>11, <1>16, <1>17, <2>1, HeldIds DEF OrderlyInv
  <2>3. \A c \in Client : Held(c)' = Held(c)
    BY <1>1 DEF Held
  <2>4. QED
    BY <1>1, <2>2, <2>3 DEF OrderlyInv, Holding
<1>19. Books'
  <2>1. \A i \in Id : Unheld(i)' <=> Unheld(i)
    BY <1>1 DEF Unheld, Held
  <2>2. \A i \in Id : (OwnRelease(i) \in ToSet(queue))' <=> OwnRelease(i) \in ToSet(queue)
    BY <1>1 DEF OwnRelease
  <2>3. \A i \in Id : i \notin alloc => Unheld(i) /\ OwnRelease(i) \notin ToSet(queue)
    BY <1>9 DEF OrderlyInv, Holding, Books, Unheld
  <2>4. \A i \in Id : OwnRelease(i) \in ToSet(queue) => Unheld(i) /\ i \in alloc
    BY <1>9 DEF OrderlyInv, Books
  <2>5. \A i \in alloc : i \in Id /\ (~Unheld(i) \/ OwnRelease(i) \in ToSet(queue))
    BY <1>9 DEF OrderlyInv, TypeOK, Books
  <2>6. \A i \in Id : GivenOut(i)' => i \in alloc' /\ Unheld(i) /\ OwnRelease(i) \notin ToSet(queue)
    BY <1>16, <1>17, <2>3
  <2>7. \A i \in Id : TakenBack(i)' => i \notin alloc'
    BY <1>16, <1>17
  <2>8. \A i \in Id : OwnRelease(i) \in ToSet(queue) => i \in alloc' \/ TakenBack(i)'
    BY <1>11, <1>16, <1>17, <2>4
  <2>9. \A i \in alloc' : i \in Id /\ (~Unheld(i) \/ GivenOut(i)' \/ OwnRelease(i) \in ToSet(queue))
    BY <1>11, <1>16, <1>17, <2>5
  <2>10. QED
    BY <2>1, <2>2, <2>4, <2>6, <2>7, <2>8, <2>9 DEF Books
<1>20. Before' /\ Wired' /\ Queued'
  BY <1>1 DEF OrderlyInv, Before, Wired, Queued, IsWaiting, Waiting
<1>21. QED
  BY <1>14, <1>15, <1>18, <1>19, <1>20 DEF OrderlyInv

\* The modem takes what is first, whatever it is.
LEMMA ModemOrderly ==
  ASSUME OrderlyInv, Modem, "answer" \notin Faulty, TypeOK'
  PROVE  OrderlyInv'
<1>1. PICK m \in Message, a \in FromModem : ModemAnswers(m, a)
  BY ModemStep DEF OrderlyInv
<1>2. phase \in {"sync", "serving"}
  BY <1>1 DEF OrderlyInv, TypeOK, Before, ModemAnswers
<1>3. QED
  BY <1>1, <1>2, ModemSynced, ModemServed, ModemControlled

\* What is left of what the modem sent, without the first message.
LEMMA FromDevLists ==
  ASSUME TypeOK, fromDev # <<>>, fromDev' = Tail(fromDev)
  PROVE  /\ Head(fromDev) \in FromModem /\ Head(fromDev) \in Message /\ Head(fromDev) \in ToSet(fromDev)
         /\ ToSet(fromDev) = {Head(fromDev)} \cup ToSet(fromDev')
         /\ \A x \in ToSet(fromDev') : x \in Message
         /\ \A M : AtMostOne(fromDev, M) => AtMostOne(fromDev', M) /\ (Head(fromDev) \in M => NoneOf(fromDev', M))
         /\ \A M : NoneOf(fromDev, M) => NoneOf(fromDev', M)
         /\ \A M : NoneOf(fromDev', M) /\ Head(fromDev) \notin M => NoneOf(fromDev, M)
<1>1. fromDev \in Seq(FromModem)
  BY DEF TypeOK
<1>2. /\ Head(fromDev) \in FromModem /\ Head(fromDev) \in ToSet(fromDev) /\ fromDev' \in Seq(FromModem)
      /\ ToSet(fromDev) = {Head(fromDev)} \cup ToSet(fromDev')
      /\ \A M : AtMostOne(fromDev, M) => AtMostOne(fromDev', M) /\ (Head(fromDev) \in M => NoneOf(fromDev', M))
      /\ \A M : NoneOf(fromDev, M) => NoneOf(fromDev', M)
  BY <1>1, TailElements
<1>3. \A x \in ToSet(fromDev') : x \in Message
  BY <1>2, ElementsAreIndexed DEF FromModem
<1>4. Head(fromDev) \in Message
  BY <1>2 DEF FromModem
<1>5. QED
  BY <1>2, <1>3, <1>4 DEF NoneOf

\* An unsolicited message goes to whoever it is for and changes nothing.
LEMMA IndicationDelivered ==
  ASSUME OrderlyInv, FromDev, IsIndication(Head(fromDev)), TypeOK'
  PROVE  OrderlyInv' /\ ToAskerOnly'
<1>1. PICK m : m = Head(fromDev)
  OBVIOUS
<1>2. m.type = "SVC" /\ m.by = 0 /\ m.tid = 0
  BY <1>1 DEF IsIndication
<1>3. /\ phase = "serving" /\ phase' = "serving" /\ fromDev # <<>> /\ fromDev' = Tail(fromDev)
      /\ Deliver(Holders(m.id), m)
      /\ UNCHANGED <<fdOf, owned, queue, toDev, alloc, life, inbox>>
  BY <1>1, <1>2 DEF FromDev, sessionVars, Control
<1>4. \A c \in Client : ~Answers(c, m)
  BY <1>2 DEF OrderlyInv, Wired, Answers
<1>5. ask' = ask /\ mine' = mine
  BY <1>3, <1>4 DEF Deliver, OrderlyInv, TypeOK
<1>6. ToAskerOnly'
  BY <1>2, <1>3 DEF ToAskerOnly, Deliver
<1>7. m \notin ControlMessage /\ \A c \in Client : m \notin ServiceOf(c)
  BY <1>2 DEF ControlMessage, ServiceOf, Control, Client
<1>8. /\ ToSet(fromDev) = {m} \cup ToSet(fromDev')
      /\ \A M : AtMostOne(fromDev, M) => AtMostOne(fromDev', M)
      /\ \A M : NoneOf(fromDev, M) => NoneOf(fromDev', M)
      /\ \A M : NoneOf(fromDev', M) /\ m \notin M => NoneOf(fromDev, M)
  BY <1>1, <1>3, FromDevLists DEF OrderlyInv
<1>9. OneOut'
  BY <1>3, <1>7, <1>8 DEF OrderlyInv, OneOut
<1>10. Services'
  BY <1>3, <1>5, <1>8 DEF OrderlyInv, Services
<1>11. \A i \in Id : (TakenBack(i)' <=> TakenBack(i)) /\ (GivenOut(i)' <=> GivenOut(i))
  BY <1>2, <1>8 DEF TakenBack, GivenOut
<1>12. Holding'
  BY <1>3, <1>5, <1>11, HeldIds DEF OrderlyInv, Holding, Held
<1>13. Books'
  BY <1>3, <1>11 DEF OrderlyInv, TypeOK, Books, Held, Unheld, OwnRelease
<1>14. Before' /\ Wired' /\ Queued'
  BY <1>3, <1>5 DEF OrderlyInv, Before, Wired, Queued, IsWaiting, Waiting
<1>15. QED
  BY <1>6, <1>9, <1>10, <1>12, <1>13, <1>14 DEF OrderlyInv

\* An answer of a service goes to the one connection that holds its id: the
\* one that asked.
LEMMA ServiceDelivered ==
  ASSUME OrderlyInv, FromDev, NEW c \in Client, Head(fromDev).type = "SVC", Head(fromDev).by = c, TypeOK'
  PROVE  OrderlyInv' /\ ToAskerOnly'
<1>1. PICK m : m = Head(fromDev)
  OBVIOUS
<1>2. m.type = "SVC" /\ m.by = c
  BY <1>1
<1>3. /\ phase = "serving" /\ phase' = "serving" /\ fromDev # <<>> /\ fromDev' = Tail(fromDev)
      /\ Deliver(Holders(m.id), m)
      /\ UNCHANGED <<fdOf, owned, queue, toDev, alloc, life, inbox>>
  BY <1>1, <1>2 DEF FromDev, sessionVars, Control
<1>4. /\ m \in Message /\ m \in ToSet(fromDev) /\ ToSet(fromDev) = {m} \cup ToSet(fromDev')
      /\ \A M : AtMostOne(fromDev, M) => AtMostOne(fromDev', M) /\ (m \in M => NoneOf(fromDev', M))
      /\ \A M : NoneOf(fromDev, M) => NoneOf(fromDev', M)
      /\ \A M : NoneOf(fromDev', M) /\ m \notin M => NoneOf(fromDev, M)
  BY <1>1, <1>3, FromDevLists DEF OrderlyInv
<1>5. c # 0
  BY DEF Client
<1>6. ask[c].type = "SVC" /\ m.tid = ask[c].tid /\ m.id = ask[c].id /\ ask[c] # Nothing
  BY <1>2, <1>3, <1>4, <1>5 DEF OrderlyInv, Services, IsIndication, Control
<1>7. m.id \in Held(c) /\ m.id \in Id /\ fdOf[c] # 0
  <2>1. m.id \in Held(c)
    BY <1>6 DEF OrderlyInv, Holding
  <2>2. QED
    BY <1>6, <2>1, HeldIds DEF OrderlyInv, Wired
<1>8. Holders(m.id) = {c}
  <2>1. m.id # 0
    BY <1>7 DEF Id
  <2>2. \A d \in Client : (\E i \in 1..Len(owned[d]) : owned[d][i] = m.id) <=> m.id \in Held(d)
    <3>1. \A d \in Client : owned[d] \in Seq(Id)
      BY DEF OrderlyInv, TypeOK
    <3>2. QED
      BY <3>1, ElementsAreIndexed DEF Held
  <2>3. \A d \in Client : m.id \in Held(d) <=> d = c
    BY <1>7 DEF OrderlyInv, Holding
  <2>4. QED
    BY <1>7, <2>1, <2>2, <2>3 DEF Holders, Connected
<1>9. Answers(c, m)
  BY <1>2, <1>6 DEF Answers
<1>10. ask'[c] = Nothing /\ mine' = mine /\ \A d \in Client : d # c => ask'[d] = ask[d]
  BY <1>2, <1>3, <1>8, <1>9 DEF Deliver, OrderlyInv, TypeOK
<1>11. ToAskerOnly'
  BY <1>2, <1>3, <1>8 DEF ToAskerOnly, Deliver
<1>12. m \notin ControlMessage /\ m \in ServiceOf(c) /\ \A d \in Client : d # c => m \notin ServiceOf(d)
  BY <1>2, <1>4 DEF ControlMessage, ServiceOf, Control
<1>13. NoneOf(fromDev', ServiceOf(c)) /\ NoneOf(toDev, ServiceOf(c)) /\ inbox[c] = <<>>
  BY <1>3, <1>4, <1>12 DEF OrderlyInv, Services, NoneOf
<1>14. OneOut'
  BY <1>3, <1>4, <1>12 DEF OrderlyInv, OneOut
<1>15. Services'
  <2>1. \A x \in ToSet(toDev') :
         x.type \in Control \/ (x.type = "SVC" /\ x.by \in Client /\ x = ask'[x.by])
    <3>1. \A x \in ToSet(toDev) : x \in Message
      <4>1. toDev \in Seq(Message)
        BY DEF OrderlyInv, TypeOK
      <4>2. QED
        BY <4>1, ElementsAreIndexed
    <3>2. \A x \in ToSet(toDev) : x.type = "SVC" => x.by # c
      BY <1>13, <3>1 DEF NoneOf, ServiceOf
    <3>3. QED
      BY <1>3, <1>10, <3>2 DEF OrderlyInv, Services
  <2>2. \A x \in ToSet(fromDev') : x \in Message /\ (x.type = "SVC" => x.by # c)
    BY <1>3, <1>13, FromDevLists DEF OrderlyInv, NoneOf, ServiceOf
  <2>3. \A x \in ToSet(fromDev') :
         \/ x.type \in Control \/ IsIndication(x)
         \/ /\ x.type = "SVC" /\ x.by \in Client
            /\ ask'[x.by].type = "SVC" /\ x.tid = ask'[x.by].tid /\ x.id = ask'[x.by].id
            /\ ask'[x.by] # Nothing
    BY <1>3, <1>4, <1>10, <2>2 DEF OrderlyInv, Services
  <2>4. \A d \in Client :
         /\ AtMostOne(toDev', ServiceOf(d)) /\ AtMostOne(fromDev', ServiceOf(d))
         /\ NoneOf(toDev', ServiceOf(d)) \/ NoneOf(fromDev', ServiceOf(d))
         /\ inbox'[d] # <<>> => NoneOf(toDev', ServiceOf(d)) /\ NoneOf(fromDev', ServiceOf(d))
    BY <1>3, <1>4 DEF OrderlyInv, Services
  <2>5. QED
    BY <2>1, <2>3, <2>4 DEF Services
<1>16. \A i \in Id : (TakenBack(i)' <=> TakenBack(i)) /\ (GivenOut(i)' <=> GivenOut(i))
  BY <1>2, <1>4 DEF TakenBack, GivenOut
<1>17. Holding'
  <2>1. Nothing.type # "RELEASE"
    BY DEF Nothing, Msg
  <2>2. QED
    BY <1>3, <1>10, <1>16, <2>1, HeldIds DEF OrderlyInv, Holding, Held
<1>18. Books'
  BY <1>3, <1>16 DEF OrderlyInv, TypeOK, Books, Held, Unheld, OwnRelease
<1>19. Before' /\ Wired'
  BY <1>3, <1>10, <1>13 DEF OrderlyInv, Before, Wired
<1>20. Queued'
  <2>1. Waiting(c) \notin ToSet(queue)
    <3>1. queue \in Seq(Entry)
      BY DEF OrderlyInv, TypeOK
    <3>2. \A e \in ToSet(queue) : e.req.type \in Control
      <4>1. \A e \in ToSet(queue) : e \in Entry
        BY <3>1, ElementsAreIndexed
      <4>2. QED
        BY <4>1 DEF Entry, MessageOf
    <3>3. QED
      BY <1>6, <3>2 DEF Waiting, Control
  <2>2. \A d \in Client : d # c /\ IsWaiting(d) => IsWaiting(d)' /\ Waiting(d)' = Waiting(d)
    BY <1>3, <1>10 DEF IsWaiting, Waiting
  <2>3. QED
    BY <1>3, <2>1, <2>2 DEF OrderlyInv, Queued
<1>21. QED
  BY <1>11, <1>14, <1>15, <1>17, <1>18, <1>19, <1>20 DEF OrderlyInv

\* The answer to the head of the queue is there: the next one is sent.
LEMMA Popped ==
  ASSUME OrderlyInv, phase = "serving", phase' = "serving", fromDev # <<>>, fromDev' = Tail(fromDev),
         Head(fromDev).type \in Control, Pop, TypeOK'
  PROVE  /\ queue # <<>> /\ queue[1] \in Entry /\ IsAnswer(Head(fromDev), queue[1].req)
         /\ \/ \E i \in Id : queue[1] = OwnRelease(i)
            \/ \E c \in Client : queue[1] = Waiting(c) /\ IsWaiting(c)
         /\ ToSet(queue') = ToSet(queue) \ {queue[1]} /\ Distinct(queue')
         /\ OneOut'
         /\ \A x \in ToSet(toDev') : x \in ToSet(toDev) \/ x.type \in Control
         /\ \A c \in Client : /\ AtMostOne(toDev', ServiceOf(c)) /\ AtMostOne(fromDev', ServiceOf(c))
                              /\ NoneOf(toDev, ServiceOf(c)) => NoneOf(toDev', ServiceOf(c))
                              /\ NoneOf(fromDev, ServiceOf(c)) => NoneOf(fromDev', ServiceOf(c))
         /\ \A x \in ToSet(fromDev') : x \in ToSet(fromDev) /\ x.type \notin Control
         /\ \A x \in ToSet(fromDev) : x.type \in Control => x = Head(fromDev)
<1> DEFINE m == Head(fromDev)
<1>1. /\ m \in Message /\ m \in ToSet(fromDev) /\ ToSet(fromDev) = {m} \cup ToSet(fromDev')
      /\ \A x \in ToSet(fromDev') : x \in Message
      /\ \A M : AtMostOne(fromDev, M) => AtMostOne(fromDev', M) /\ (m \in M => NoneOf(fromDev', M))
      /\ \A M : NoneOf(fromDev, M) => NoneOf(fromDev', M)
  BY FromDevLists DEF OrderlyInv
<1>2. m.type \in Control /\ m \in ControlMessage
  BY <1>1 DEF ControlMessage
<1> HIDE DEF m
<1>3. /\ queue # <<>> /\ queue[1] \in Entry /\ queue[1] \in ToSet(queue)
      /\ \/ \E i \in Id : queue[1] = OwnRelease(i)
         \/ \E c \in Client : queue[1] = Waiting(c) /\ IsWaiting(c)
  BY phase = "serving", <1>1, <1>2, HeadOfQueue
<1>4. IsAnswer(m, queue[1].req)
  BY phase = "serving", <1>1, <1>2 DEF OrderlyInv, OneOut
<1>5. NoneOf(fromDev', ControlMessage) /\ NoneOf(toDev, ControlMessage) /\ AtMostOne(fromDev', ControlMessage)
      /\ AtMostOne(toDev, ControlMessage)
  <2>1. ~NoneOf(fromDev, ControlMessage)
    BY <1>1, <1>2 DEF NoneOf
  <2>2. QED
    BY phase = "serving", <1>1, <1>2, <2>1 DEF OrderlyInv, OneOut
<1>6. \A x \in ToSet(fromDev') : x.type \notin Control
  BY <1>1, <1>5 DEF NoneOf, ControlMessage
<1>7. queue \in Seq(Entry) /\ toDev \in Seq(Message)
  BY DEF OrderlyInv, TypeOK
<1>8. \A x \in ToSet(toDev) : x.type \notin Control
  BY <1>5, <1>7, ElementsAreIndexed DEF NoneOf, ControlMessage
<1>9. /\ Head(queue) = queue[1] /\ ToSet(queue) = {queue[1]} \cup ToSet(queue') /\ queue' \in Seq(Entry)
      /\ Len(queue) > 1 <=> queue' # <<>>
      /\ Len(queue) > 1 => queue'[1] = queue[2] /\ queue[2] \in ToSet(queue)
      /\ \A M : AtMostOne(queue, M) => AtMostOne(queue', M) /\ (queue[1] \in M => NoneOf(queue', M))
  <2>1. queue' = Tail(queue)
    BY DEF Pop
  <2>2. QED
    BY <1>3, <1>7, <2>1, TailElements
<1>10. Distinct(queue') /\ queue[1] \notin ToSet(queue')
  <2>1. \A y \in Entry : AtMostOne(queue, {y})
    BY <1>7, DistinctOnce DEF OrderlyInv, Queued
  <2>2. NoneOf(queue', {queue[1]}) /\ \A y \in Entry : AtMostOne(queue', {y})
    BY <1>3, <1>9, <2>1
  <2>3. QED
    BY <1>9, <2>2, DistinctOnce DEF NoneOf
<1>11. CASE Len(queue) > 1
  <2>1. PICK e \in Entry : e = queue[2]
    BY <1>7, <1>9, <1>11, ElementsAreIndexed
  <2>2. e.req \in Message /\ e.req.type \in Control /\ e.req \in ControlMessage
    BY DEF Entry, MessageOf, Message, ControlMessage
  <2>3. toDev' = Append(toDev, e.req)
    BY <1>11, <2>1 DEF Pop
  <2>4. /\ ToSet(toDev') = ToSet(toDev) \cup {e.req}
        /\ \A M : AtMostOne(toDev, M) /\ (e.req \in M => NoneOf(toDev, M)) => AtMostOne(toDev', M)
        /\ \A M : NoneOf(toDev, M) /\ e.req \notin M => NoneOf(toDev', M)
    BY <1>7, <2>2, <2>3, AppendElements
  <2>5. OneOut'
    <3>1. AtMostOne(toDev', ControlMessage) /\ ~NoneOf(toDev', ControlMessage)
      BY <1>5, <2>2, <2>4 DEF NoneOf
    <3>2. queue' # <<>> /\ queue'[1] = e
      BY <1>9, <1>11, <2>1
    <3>3. \A x \in ToSet(toDev') : x.type \in Control => x = queue'[1].req
      BY <1>8, <2>4, <3>2
    <3>4. QED
      BY <1>5, <1>6, <3>1, <3>2, <3>3 DEF OneOut
  <2>6. \A c \in Client : e.req \notin ServiceOf(c)
    BY <2>2 DEF ServiceOf, Control
  <2>7. \A c \in Client : /\ AtMostOne(toDev', ServiceOf(c)) /\ AtMostOne(fromDev', ServiceOf(c))
                          /\ NoneOf(toDev, ServiceOf(c)) => NoneOf(toDev', ServiceOf(c))
                          /\ NoneOf(fromDev, ServiceOf(c)) => NoneOf(fromDev', ServiceOf(c))
    BY phase = "serving", <1>1, <2>4, <2>6 DEF OrderlyInv, Services
  <2>8. \A x \in ToSet(toDev') : x \in ToSet(toDev) \/ x.type \in Control
    BY <2>2, <2>4
  <2>9. QED
    BY <1>1, <1>3, <1>4, <1>6, <1>9, <1>10, <2>5, <2>7, <2>8 DEF m
<1>12. CASE ~(Len(queue) > 1)
  <2>1. toDev' = toDev /\ queue' = <<>>
    BY <1>9, <1>12 DEF Pop
  <2>2. OneOut'
    BY <1>5, <1>6, <1>8, <2>1 DEF OneOut
  <2>3. \A c \in Client : /\ AtMostOne(toDev', ServiceOf(c)) /\ AtMostOne(fromDev', ServiceOf(c))
                          /\ NoneOf(toDev, ServiceOf(c)) => NoneOf(toDev', ServiceOf(c))
                          /\ NoneOf(fromDev, ServiceOf(c)) => NoneOf(fromDev', ServiceOf(c))
    BY phase = "serving", <1>1, <2>1 DEF OrderlyInv, Services
  <2>4. QED
    BY <1>1, <1>3, <1>4, <1>6, <1>9, <1>10, <2>1, <2>2, <2>3 DEF m
<1>13. QED
  BY <1>11, <1>12

\* After the answer to the head nothing is in transit that says that an id was
\* taken back or given out.
LEMMA NothingInTransit ==
  ASSUME \A x \in ToSet(fromDev') : x.type \notin Control
  PROVE  \A i : ~TakenBack(i)' /\ ~GivenOut(i)'
BY DEF TakenBack, GivenOut, Control

\* The answer to a release of the proxy's own goes to nobody.
LEMMA OwnReleaseAnswered ==
  ASSUME OrderlyInv, FromDev, NEW i \in Id, queue # <<>>, queue[1] = OwnRelease(i),
         Head(fromDev).type \in Control, TypeOK'
  PROVE  OrderlyInv' /\ ToAskerOnly'
<1>1. PICK m : m = Head(fromDev)
  OBVIOUS
<1>2. /\ phase = "serving" /\ phase' = "serving" /\ fromDev # <<>> /\ fromDev' = Tail(fromDev)
      /\ Pop /\ Deliver(Asker(m), m)
      /\ owned' = [c \in Client |-> IF c \in Asker(m) THEN Record(c, m) ELSE owned[c]]
      /\ UNCHANGED <<fdOf, alloc, life, inbox>>
  BY <1>1 DEF FromDev, sessionVars, Control, ControlAnswer
<1>3. Asker(m) = {}
  BY DEF Asker, Connected, OwnRelease, Server
<1>4. ask' = ask /\ mine' = mine /\ owned' = owned /\ sent' = {}
  BY <1>2, <1>3 DEF Deliver, OrderlyInv, TypeOK
<1>5. /\ IsAnswer(m, OwnRelease(i).req)
      /\ ToSet(queue') = ToSet(queue) \ {OwnRelease(i)} /\ Distinct(queue')
      /\ OneOut'
      /\ \A x \in ToSet(toDev') : x \in ToSet(toDev) \/ x.type \in Control
      /\ \A c \in Client : /\ AtMostOne(toDev', ServiceOf(c)) /\ AtMostOne(fromDev', ServiceOf(c))
                           /\ NoneOf(toDev, ServiceOf(c)) => NoneOf(toDev', ServiceOf(c))
                           /\ NoneOf(fromDev, ServiceOf(c)) => NoneOf(fromDev', ServiceOf(c))
      /\ \A x \in ToSet(fromDev') : x \in ToSet(fromDev) /\ x.type \notin Control
      /\ \A x \in ToSet(fromDev) : x.type \in Control => x = m
  BY <1>1, <1>2, Popped
<1>6. m.type = "RELEASE" /\ m.id = i /\ m \in ToSet(fromDev)
  <2>1. OwnRelease(i).req.type = "RELEASE" /\ OwnRelease(i).req.id = i
    BY DEF OwnRelease, Msg
  <2>2. QED
    BY <1>1, <1>2, <1>5, <2>1, FromDevLists DEF IsAnswer, OrderlyInv
<1>7. Services'
  BY <1>2, <1>4, <1>5 DEF OrderlyInv, Services
<1>8. OwnRelease(i) \in ToSet(queue)
  <2>1. queue \in Seq(Entry)
    BY DEF OrderlyInv, TypeOK
  <2>2. QED
    BY <2>1, HeadAndTail, ElementsAreIndexed
<1>9. /\ \A j \in Id : TakenBack(j) <=> j = i
      /\ \A j \in Id : ~GivenOut(j)
  BY <1>5, <1>6 DEF TakenBack, GivenOut, Control
<1>10. \A j : ~TakenBack(j)' /\ ~GivenOut(j)'
  BY <1>5, NothingInTransit
<1>11. Unheld(i) /\ i \notin alloc
  BY <1>2, <1>8, <1>9 DEF OrderlyInv, Books
<1>12. Holding'
  <2>1. \A c \in Client : \A j \in Held(c) : j \in alloc
    BY <1>9, <1>11, HeldIds DEF OrderlyInv, Holding, Unheld
  <2>2. \A c \in Client : Held(c)' = Held(c)
    BY <1>4 DEF Held
  <2>3. QED
    BY <1>2, <1>4, <2>1, <2>2 DEF OrderlyInv, Holding
<1>13. Books'
  <2>1. \A j \in Id : Unheld(j)' <=> Unheld(j)
    BY <1>4 DEF Unheld, Held
  <2>2. \A j \in Id : j # i => OwnRelease(j) # OwnRelease(i)
    BY DEF OwnRelease, Msg
  <2>3. \A j \in Id : OwnRelease(j)' = OwnRelease(j)
    BY DEF OwnRelease
  <2>4. \A j \in Id : OwnRelease(j) \in ToSet(queue') <=> OwnRelease(j) \in ToSet(queue) /\ j # i
    BY <1>5, <2>2
  <2>5. QED
    BY <1>2, <1>9, <1>10, <1>11, <2>1, <2>3, <2>4 DEF OrderlyInv, TypeOK, Books
<1>14. Queued'
  <2>1. \A c \in Client : IsWaiting(c) => IsWaiting(c)' /\ Waiting(c)' = Waiting(c)
    BY <1>2, <1>4 DEF IsWaiting, Waiting
  <2>2. \A x \in ToSet(queue') : \/ \E j \in Id : x = OwnRelease(j)
                                 \/ \E c \in Client : x = Waiting(c)' /\ IsWaiting(c)'
    BY <1>5, <2>1 DEF OrderlyInv, Queued
  <2>3. QED
    BY <1>5, <2>2 DEF Queued, OwnRelease
<1>15. Before' /\ Wired' /\ ToAskerOnly'
  BY <1>2, <1>4 DEF OrderlyInv, Before, Wired, ToAskerOnly
<1>16. QED
  BY <1>5, <1>7, <1>12, <1>13, <1>14, <1>15 DEF OrderlyInv

\* The answer to a client's control message: the proxy and the client both
\* take note of an id that was given out, or taken back.
LEMMA ClientAnswered ==
  ASSUME OrderlyInv, FromDev, NEW c \in Client, queue # <<>>, queue[1] = Waiting(c), IsWaiting(c),
         Head(fromDev).type \in Control, TypeOK'
  PROVE  OrderlyInv' /\ ToAskerOnly'
<1>1. PICK m : m = Head(fromDev)
  OBVIOUS
<1>2. /\ phase = "serving" /\ phase' = "serving" /\ fromDev # <<>> /\ fromDev' = Tail(fromDev)
      /\ Pop /\ Deliver(Asker(m), m)
      /\ owned' = [d \in Client |-> IF d \in Asker(m) THEN Record(d, m) ELSE owned[d]]
      /\ UNCHANGED <<fdOf, alloc, life, inbox>>
  BY <1>1 DEF FromDev, sessionVars, Control, ControlAnswer
<1>3. /\ IsAnswer(m, ask[c])
      /\ ToSet(queue') = ToSet(queue) \ {Waiting(c)} /\ Distinct(queue')
      /\ OneOut'
      /\ \A x \in ToSet(toDev') : x \in ToSet(toDev) \/ x.type \in Control
      /\ \A d \in Client : /\ AtMostOne(toDev', ServiceOf(d)) /\ AtMostOne(fromDev', ServiceOf(d))
                           /\ NoneOf(toDev, ServiceOf(d)) => NoneOf(toDev', ServiceOf(d))
                           /\ NoneOf(fromDev, ServiceOf(d)) => NoneOf(fromDev', ServiceOf(d))
      /\ \A x \in ToSet(fromDev') : x \in ToSet(fromDev) /\ x.type \notin Control
      /\ \A x \in ToSet(fromDev) : x.type \in Control => x = m
  <2>1. queue[1].req = ask[c]
    BY DEF Waiting
  <2>2. QED
    BY <1>1, <1>2, <2>1, Popped
<1>4. /\ m \in FromModem /\ m \in ToSet(fromDev) /\ m.type \in Control
      /\ m.type = ask[c].type /\ m.tid = ask[c].tid /\ m.by = c /\ ask[c] # Nothing
      /\ m.type = "RELEASE" => m.id = ask[c].id /\ m.ok
  BY <1>1, <1>2, <1>3, FromDevLists DEF IsAnswer, IsWaiting, OrderlyInv, Wired
<1>5. fdOf[c] # 0 /\ inbox[c] = <<>> /\ life[c] = "in"
  BY DEF IsWaiting, OrderlyInv, Wired
<1>6. Asker(m) = {c}
  <2>1. Matches(queue[1], m)
    BY <1>4 DEF Matches, Waiting
  <2>2. \A d \in Client : fdOf[d] = fdOf[c] <=> d = c
    BY <1>5 DEF OrderlyInv, Wired
  <2>3. QED
    BY <1>5, <2>1, <2>2 DEF Asker, Connected, Waiting
<1>7. /\ ask'[c] = Nothing /\ owned'[c] = Record(c, m) /\ sent' = {<<c, m>>}
      /\ mine'[c] = IF m.type = "GET" /\ m.ok THEN mine[c] \cup {m.id} ELSE mine[c]
      /\ \A d \in Client : d # c => ask'[d] = ask[d] /\ owned'[d] = owned[d] /\ mine'[d] = mine[d]
  BY <1>2, <1>4, <1>6 DEF Deliver, Answers
<1>8. \A j \in Id : OwnRelease(j) \in ToSet(queue') <=> OwnRelease(j) \in ToSet(queue)
  <2>1. \A j \in Id : OwnRelease(j) # Waiting(c)
    BY <1>5 DEF OwnRelease, Waiting, Server
  <2>2. QED
    BY <1>3, <2>1
<1>9. \A j : ~TakenBack(j)' /\ ~GivenOut(j)'
  BY <1>3, NothingInTransit
<1>10. /\ \A j \in Id : TakenBack(j) <=> m.type = "RELEASE" /\ j = m.id
       /\ \A j \in Id : GivenOut(j) <=> m.type = "GET" /\ m.ok /\ j = m.id
  BY <1>3, <1>4 DEF TakenBack, GivenOut, Control
<1>11. owned[c] \in Seq(Id) /\ Distinct(owned[c]) /\ Held(c) \subseteq Id
  BY HeldIds DEF OrderlyInv, TypeOK, Holding
<1>12. /\ m.type = "GET" /\ m.ok => m.id \in Id /\ m.id \in alloc /\ Unheld(m.id) /\ OwnRelease(m.id) \notin ToSet(queue)
       /\ m.type = "RELEASE" => m.id \in Held(c) /\ m.id \notin alloc /\ m.id \notin mine[c]
  <2>1. CASE m.type = "GET" /\ m.ok
    <3>1. m.id \in Id
      BY <1>4, <2>1 DEF FromModem
    <3>2. QED
      BY <1>2, <1>10, <2>1, <3>1 DEF OrderlyInv, Books
  <2>2. CASE m.type = "RELEASE"
    <3>1. m.id \in Held(c) /\ m.id \notin mine[c]
      BY <1>4, <2>2 DEF OrderlyInv, Holding
    <3>2. QED
      BY <1>2, <1>10, <1>11, <2>2, <3>1 DEF OrderlyInv, Books
  <2>3. QED
    BY <2>1, <2>2
<1>13. /\ Held(c)' = IF m.type = "GET" /\ m.ok THEN Held(c) \cup {m.id}
                     ELSE IF m.type = "RELEASE" THEN Held(c) \ {m.id} ELSE Held(c)
       /\ Distinct(owned'[c])
       /\ \A d \in Client : d # c => Held(d)' = Held(d)
  <2>0. \A d \in Client : d # c => Held(d)' = Held(d)
    BY <1>7 DEF Held
  <2>1. CASE m.type = "GET" /\ m.ok
    <3>1. owned'[c] = Append(owned[c], m.id)
      BY <1>7, <2>1 DEF Record
    <3>2. /\ m.id \in Id /\ m.id \notin Held(c)
      BY <1>12, <2>1 DEF Unheld
    <3>3. /\ ToSet(owned'[c]) = ToSet(owned[c]) \cup {m.id} /\ owned'[c] \in Seq(Id)
          /\ \A M : AtMostOne(owned[c], M) /\ (m.id \in M => NoneOf(owned[c], M)) => AtMostOne(owned'[c], M)
      BY <1>11, <3>1, <3>2, AppendElements
    <3>4. \A y \in Id : AtMostOne(owned[c], {y})
      BY <1>11, DistinctOnce
    <3>5. NoneOf(owned[c], {m.id})
      BY <3>2 DEF NoneOf, Held
    <3>6. \A y \in Id : AtMostOne(owned'[c], {y})
      BY <3>3, <3>4, <3>5
    <3>7. QED
      BY <2>0, <2>1, <3>3, <3>6, DistinctOnce DEF Held
  <2>2. CASE m.type = "RELEASE"
    <3>1. owned'[c] = WithoutFirst(owned[c], {i \in 1..Len(owned[c]) : owned[c][i] = m.id})
      BY <1>4, <1>7, <2>2 DEF Record
    <3>2. m.id \in Id
      BY <1>11, <1>12, <2>2
    <3>3. \A y \in Id : AtMostOne(owned[c], {y})
      BY <1>11, DistinctOnce
    <3>4. ToSet(owned'[c]) = ToSet(owned[c]) \ {m.id} /\ \A y \in Id : AtMostOne(owned'[c], {y})
      <4>1. PICK s \in Seq(Id) : s = owned[c]
        BY <1>11
      <4>2. PICK x \in Id : x = m.id
        BY <3>2
      <4>3. \A y \in Id : AtMostOne(s, {y})
        BY <3>3, <4>1
      <4>4. LET t == WithoutFirst(s, {i \in 1..Len(s) : s[i] = x})
            IN  ToSet(t) = ToSet(s) \ {x} /\ \A y \in Id : AtMostOne(t, {y})
        BY <4>3, WithoutElements
      <4>5. QED
        BY <3>1, <4>1, <4>2, <4>4
    <3>5. owned'[c] \in Seq(Id)
      BY DEF TypeOK
    <3>6. QED
      BY <2>0, <2>2, <3>4, <3>5, DistinctOnce DEF Held
  <2>3. CASE ~(m.type = "GET" /\ m.ok) /\ m.type # "RELEASE"
    <3>1. owned'[c] = owned[c]
      BY <1>7, <2>3 DEF Record
    <3>2. QED
      BY <1>11, <2>0, <2>3, <3>1 DEF Held
  <2>4. QED
    BY <2>1, <2>2, <2>3
<1>14. Services'
  <2>1. \A x \in ToSet(toDev) : x.type = "SVC" => x # ask[c]
    BY <1>4 DEF Control
  <2>2. \A x \in ToSet(toDev') :
         x.type \in Control \/ (x.type = "SVC" /\ x.by \in Client /\ x = ask'[x.by])
    BY <1>2, <1>3, <1>7, <2>1 DEF OrderlyInv, Services
  <2>3. ask[c].type # "SVC"
    BY <1>4 DEF Control
  <2>4. \A x \in ToSet(fromDev') :
         \/ x.type \in Control \/ IsIndication(x)
         \/ /\ x.type = "SVC" /\ x.by \in Client
            /\ ask'[x.by].type = "SVC" /\ x.tid = ask'[x.by].tid /\ x.id = ask'[x.by].id
            /\ ask'[x.by] # Nothing
    BY <1>2, <1>3, <1>7, <2>3 DEF OrderlyInv, Services
  <2>5. QED
    BY <1>2, <1>3, <2>2, <2>4 DEF OrderlyInv, Services
<1>15. \A d \in Client : \A j \in Held(d)' : j \in alloc
  <2>1. ASSUME NEW d \in Client, NEW j \in Held(d)' PROVE j \in alloc
    <3>1. CASE j \in Held(d)
      <4>1. j \in Id /\ (j \in alloc \/ TakenBack(j))
        BY <3>1, HeldIds DEF OrderlyInv, Holding
      <4>2. CASE TakenBack(j)
        <5>1. m.type = "RELEASE" /\ j = m.id
          BY <1>10, <4>1, <4>2
        <5>2. d = c
          BY <1>12, <3>1, <5>1 DEF OrderlyInv, Holding
        <5>3. QED
          BY <1>13, <2>1, <5>1, <5>2
      <4>3. QED
        BY <4>1, <4>2
    <3>2. CASE j \notin Held(d)
      <4>1. d = c /\ m.type = "GET" /\ m.ok /\ j = m.id
        BY <1>13, <2>1, <3>2
      <4>2. QED
        BY <1>12, <4>1
    <3>3. QED
      BY <3>1, <3>2
  <2>2. QED
    BY <2>1
<1>16. Holding'
  <2>1. \A d \in Client : mine'[d] \subseteq Held(d)'
    BY <1>7, <1>12, <1>13 DEF OrderlyInv, Holding
  <2>2. \A d \in Client : ask'[d] # Nothing /\ ask'[d].type \in {"RELEASE", "SVC"} => ask'[d].id \in Held(d)'
    BY <1>7, <1>13 DEF OrderlyInv, Holding
  <2>3. \A d \in Client : ask'[d].type = "RELEASE" => ask'[d].id \notin mine'[d]
    BY <1>7 DEF OrderlyInv, Holding, Nothing, Msg
  <2>4. \A d \in Client : Distinct(owned'[d])
    BY <1>7, <1>13 DEF OrderlyInv, Holding
  <2>5. \A d, b \in Client : d # b => Held(d)' \cap Held(b)' = {}
    BY <1>12, <1>13 DEF OrderlyInv, Holding, Unheld
  <2>6. \A d \in Client : \A i \in Held(d)' : i \in alloc' \/ TakenBack(i)'
    BY <1>2, <1>15
  <2>7. QED
    BY <2>1, <2>2, <2>3, <2>4, <2>5, <2>6 DEF Holding
<1>17. Books'
  <2>1. \A j \in Id : OwnRelease(j)' = OwnRelease(j)
    BY DEF OwnRelease
  <2>2. \A j \in Id : OwnRelease(j) \in ToSet(queue) => Unheld(j) /\ j \in alloc
    BY <1>2, <1>10, <1>12 DEF OrderlyInv, Books, Unheld
  <2>3. \A j \in Id : OwnRelease(j) \in ToSet(queue) => Unheld(j)'
    BY <1>12, <1>13, <2>2 DEF Unheld
  <2>4. \A j \in alloc : j \in Id /\ (~Unheld(j) \/ (m.type = "GET" /\ m.ok /\ j = m.id) \/ OwnRelease(j) \in ToSet(queue))
    BY <1>2, <1>10 DEF OrderlyInv, TypeOK, Books
  <2>5. \A j \in alloc : ~Unheld(j)' \/ OwnRelease(j) \in ToSet(queue)
    <3>1. ASSUME NEW j \in alloc, ~Unheld(j) PROVE ~Unheld(j)'
      <4>1. PICK d \in Client : j \in Held(d)
        BY <3>1 DEF Unheld
      <4>2. j \in Held(d)'
        BY <1>12, <1>13, <4>1
      <4>3. QED
        BY <4>2 DEF Unheld
    <3>2. m.type = "GET" /\ m.ok => ~Unheld(m.id)'
      BY <1>13 DEF Unheld
    <3>3. QED
      BY <2>4, <3>1, <3>2
  <2>6. QED
    BY <1>2, <1>8, <1>9, <2>1, <2>2, <2>3, <2>4, <2>5 DEF Books
<1>18. Queued'
  <2>1. \A d \in Client : d # c /\ IsWaiting(d) => IsWaiting(d)' /\ Waiting(d)' = Waiting(d)
    BY <1>2, <1>7 DEF IsWaiting, Waiting
  <2>2. \A x \in ToSet(queue') : \/ \E j \in Id : x = OwnRelease(j)
                                 \/ \E d \in Client : x = Waiting(d)' /\ IsWaiting(d)'
    BY <1>3, <2>1 DEF OrderlyInv, Queued
  <2>3. QED
    BY <1>3, <2>2 DEF Queued, OwnRelease
<1>19. Before'
  BY <1>2 DEF Before
<1>20. Wired'
  BY <1>2, <1>5, <1>7 DEF OrderlyInv, Wired
<1>21. ToAskerOnly'
  BY <1>4, <1>7 DEF ToAskerOnly
<1>22. QED
  BY <1>3, <1>14, <1>16, <1>17, <1>18, <1>19, <1>20, <1>21 DEF OrderlyInv

\* Whatever the modem sent: the answer to the head of the queue, the answer of
\* a service, or a message on its own account.
LEMMA FromDevOrderly ==
  ASSUME OrderlyInv, FromDev, TypeOK'
  PROVE  OrderlyInv' /\ ToAskerOnly'
<1>1. phase = "serving" /\ fromDev # <<>> /\ fromDev' = Tail(fromDev)
  BY DEF FromDev
<1>2. Head(fromDev) \in Message /\ Head(fromDev) \in ToSet(fromDev)
  BY <1>1, FromDevLists DEF OrderlyInv
<1>3. CASE Head(fromDev).type \in Control
  BY <1>1, <1>2, <1>3, HeadOfQueue, OwnReleaseAnswered, ClientAnswered
<1>4. CASE IsIndication(Head(fromDev))
  BY <1>4, IndicationDelivered
<1>5. CASE Head(fromDev).type = "SVC" /\ Head(fromDev).by \in Client
  BY <1>5, ServiceDelivered
<1>6. QED
  BY <1>1, <1>2, <1>3, <1>4, <1>5 DEF OrderlyInv, Services

\* Every step keeps the invariant, if SYNC is over when the proxy serves.
LEMMA OrderlyStep ==
  ASSUME Orderly, OrderlyInv, ToAskerOnly, Synced', [Next]_vars
  PROVE  OrderlyInv' /\ ToAskerOnly'
<1>1. TypeOK'
  BY TypeStep DEF OrderlyInv
<1>2. CASE Session
  <2>1. ToAskerOnly'
    BY <1>2 DEF Session, OpenDevice, SendSync, OpenServer, GiveUp, DeviceLost, Quit, EndSession, ToAskerOnly
  <2>2. QED
    BY <1>1, <1>2, <2>1, SessionOrderly
<1>3. CASE FromDevInSync
  <2>1. ToAskerOnly'
    BY <1>3 DEF FromDevInSync, ToAskerOnly
  <2>2. QED
    BY <1>1, <1>3, <2>1, SyncReadOrderly
<1>4. CASE FromDev
  BY <1>1, <1>4, FromDevOrderly
<1>5. ASSUME NEW c \in Client, Accept(c) \/ Read(c) \/ Cleanup(c)
      PROVE  OrderlyInv' /\ ToAskerOnly'
  <2>1. ToAskerOnly'
    BY <1>5 DEF Accept, Read, Cleanup, ToAskerOnly
  <2>2. QED
    BY <1>1, <1>5, <2>1, AcceptOrderly, ReadOrderly, CleanupOrderly
<1>6. CASE Modem
  <2>1. ToAskerOnly'
    BY <1>6 DEF Modem, ToAskerOnly
  <2>2. "answer" \notin Faulty
    BY DEF Orderly
  <2>3. QED
    BY <1>1, <1>6, <2>1, <2>2, ModemOrderly
<1>7. CASE Indication
  <2>1. ToAskerOnly'
    BY <1>7 DEF Indication, ToAskerOnly
  <2>2. QED
    BY <1>1, <1>7, <2>1, IndicationOrderly
<1>8. CASE Revoke
  BY <1>8 DEF Revoke, Fault, Orderly
<1>9. ASSUME NEW c \in Client, AskAny(c)
      PROVE  OrderlyInv' /\ ToAskerOnly'
  <2>1. ToAskerOnly'
    BY <1>9 DEF AskAny, Ask, ToAskerOnly
  <2>3. PICK type \in {"VERSION", "GET", "RELEASE", "SVC"}, id \in 0..Ids :
          (type \in {"RELEASE", "SVC"} => id \in mine[c]) /\ Ask(c, type, id)
    BY <1>9, AskedFor DEF OrderlyInv
  <2>4. QED
    BY <1>1, <2>1, <2>3, AskOrderly
<1>10. ASSUME NEW c \in Client, TimeOut(c) PROVE FALSE
  BY <1>10 DEF TimeOut, Orderly
<1>11. ASSUME NEW c \in Client, Leave(c)
       PROVE  OrderlyInv' /\ ToAskerOnly'
  <2>1. ToAskerOnly' /\ ~LeaveBusy
    BY <1>11 DEF Leave, ToAskerOnly, Orderly
  <2>2. QED
    BY <1>1, <1>11, <2>1, LeaveOrderly
<1>12. CASE UNCHANGED vars /\ ToAskerOnly
  <2>1. /\ UNCHANGED <<phase, tries, fdOf, owned, queue, toDev, fromDev, alloc, life, inbox, ask, mine, sent>>
    BY <1>12 DEF vars, sessionVars, proxyVars, devVars, clientVars
  <2>2. Before' /\ Wired' /\ Queued'
    BY <2>1 DEF OrderlyInv, Before, Wired, Queued, IsWaiting, Waiting
  <2>3. OneOut' /\ Services' /\ ToAskerOnly'
    BY <2>1 DEF OrderlyInv, OneOut, Services, ToAskerOnly
  <2>4. Holding' /\ Books'
    BY <2>1 DEF OrderlyInv, Holding, Books, Held, TakenBack, GivenOut, Unheld
  <2>5. QED
    BY <1>1, <2>2, <2>3, <2>4 DEF OrderlyInv
<1>13. QED
  BY <1>2, <1>3, <1>4, <1>5, <1>6, <1>7, <1>8, <1>9, <1>10, <1>11, <1>12,
     WriteFailsQuits
     DEF Next, Loop, Environment, Exited

LEMMA OrderlyAtFirst ==
  Init => OrderlyInv /\ ToAskerOnly
<1> SUFFICES ASSUME Init PROVE OrderlyInv /\ ToAskerOnly
  OBVIOUS
<1>1. TypeOK
  BY TypeAtFirst
<1>2. /\ phase = "closed" /\ toDev = <<>> /\ fromDev = <<>> /\ queue = <<>> /\ sent = {}
      /\ \A c \in Client : /\ fdOf[c] = 0 /\ owned[c] = <<>> /\ inbox[c] = <<>>
                           /\ ask[c] = Nothing /\ mine[c] = {} /\ life[c] = "out"
  BY DEF Init
<1>3. Before /\ Wired /\ ToAskerOnly
  BY <1>2 DEF Before, Wired, ToAskerOnly
<1>4. Queued
  BY <1>2, EmptyHasNone DEF Queued, Distinct
<1>5. Holding
  BY <1>2, EmptyHasNone DEF Holding, Held, Distinct, Nothing, Msg
<1>6. QED
  BY <1>1, <1>2, <1>3, <1>4, <1>5 DEF OrderlyInv, OneOut, Services, Books

\* What the invariant says of the queue and of the ids is what the runs check.
LEMMA OrderlyIsInStep ==
  OrderlyInv => InStep
<1> SUFFICES ASSUME OrderlyInv, phase = "serving" PROVE InStep
  BY DEF InStep
<1>1. toDev \in Seq(Message) /\ fromDev \in Seq(FromModem) /\ queue \in Seq(Entry)
  BY DEF OrderlyInv, TypeOK
<1>2. \A s \in Seq(Message) :
        /\ NoneOf(s, ControlMessage) => ControlIn(s) = {}
        /\ ~NoneOf(s, ControlMessage) /\ AtMostOne(s, ControlMessage) => \E i : ControlIn(s) = {i}
  <2> SUFFICES ASSUME NEW s \in Seq(Message)
               PROVE  /\ NoneOf(s, ControlMessage) => ControlIn(s) = {}
                      /\ ~NoneOf(s, ControlMessage) /\ AtMostOne(s, ControlMessage)
                         => \E i : ControlIn(s) = {i}
    OBVIOUS
  <2>1. \A i \in 1..Len(s) : i \in ControlIn(s) <=> s[i] \in ControlMessage
    BY ElementType DEF ControlIn, ControlMessage
  <2>2. ControlIn(s) \subseteq 1..Len(s)
    BY DEF ControlIn
  <2>3. NoneOf(s, ControlMessage) => ControlIn(s) = {}
    BY <2>1, <2>2, ElementsAreIndexed DEF NoneOf
  <2>4. ASSUME ~NoneOf(s, ControlMessage), AtMostOne(s, ControlMessage)
        PROVE  \E i : ControlIn(s) = {i}
    <3>1. PICK i \in 1..Len(s) : s[i] \in ControlMessage
      BY <2>4, ElementsAreIndexed DEF NoneOf
    <3>2. ControlIn(s) = {i}
      BY <2>1, <2>2, <2>4, <3>1 DEF AtMostOne
    <3>3. QED
      BY <3>2
  <2>5. QED
    BY <2>3, <2>4
<1>3. fromDev \in Seq(Message)
  BY <1>1 DEF FromModem
<1>4. \A i : Cardinality({i}) = 1
  BY FS_Singleton
<1>5. Cardinality({}) = 0
  BY FS_EmptySet
<1>6. Cardinality(ControlIn(toDev)) + Cardinality(ControlIn(fromDev)) = (IF queue = <<>> THEN 0 ELSE 1)
  <2>1. CASE queue = <<>>
    <3>1. NoneOf(toDev, ControlMessage) /\ NoneOf(fromDev, ControlMessage)
      BY <2>1 DEF OrderlyInv, OneOut
    <3>2. Cardinality(ControlIn(fromDev)) = 0 /\ Cardinality(ControlIn(toDev)) = 0
      BY <1>1, <1>2, <1>3, <1>5, <3>1
    <3>3. QED
      BY <2>1, <3>2
  <2>2. CASE queue # <<>> /\ NoneOf(toDev, ControlMessage)
    <3>1. ~NoneOf(fromDev, ControlMessage) /\ AtMostOne(fromDev, ControlMessage)
      BY <2>2 DEF OrderlyInv, OneOut
    <3>2. Cardinality(ControlIn(fromDev)) = 1 /\ Cardinality(ControlIn(toDev)) = 0
      BY <1>1, <1>2, <1>3, <1>4, <1>5, <2>2, <3>1
    <3>3. QED
      BY <2>2, <3>2
  <2>3. CASE queue # <<>> /\ ~NoneOf(toDev, ControlMessage)
    <3>1. NoneOf(fromDev, ControlMessage) /\ AtMostOne(toDev, ControlMessage)
      BY <2>3 DEF OrderlyInv, OneOut
    <3>2. Cardinality(ControlIn(fromDev)) = 0 /\ Cardinality(ControlIn(toDev)) = 1
      BY <1>1, <1>2, <1>3, <1>4, <1>5, <2>3, <3>1
    <3>3. QED
      BY <2>3, <3>2
  <2>4. QED
    BY <2>1, <2>2, <2>3
<1>7. \A i \in ControlIn(toDev) : toDev[i] = queue[1].req
  BY <1>1, ElementsAreIndexed DEF OrderlyInv, OneOut, ControlIn
<1>8. \A i \in ControlIn(fromDev) : Matches(queue[1], fromDev[i]) /\ fromDev[i].by = queue[1].req.by
  BY <1>3, ElementsAreIndexed DEF OrderlyInv, OneOut, ControlIn, Matches, IsAnswer
<1>9. QED
  BY <1>6, <1>7, <1>8 DEF InStep

LEMMA OrderlyKeepsIds ==
  OrderlyInv => IdsKept
<1> SUFFICES ASSUME OrderlyInv PROVE OneHolder /\ NoIdLost
  BY DEF IdsKept
<1>1. \A c \in Client : owned[c] \in Seq(Id)
  BY DEF OrderlyInv, TypeOK
<1>2. fromDev \in Seq(FromModem) /\ queue \in Seq(Entry) /\ alloc \subseteq Id
  BY DEF OrderlyInv, TypeOK
<1>3. ASSUME NEW c \in Client, NEW i \in 1..Len(owned[c])
      PROVE  /\ \A d \in Client : \A j \in 1..Len(owned[d]) : owned[d][j] = owned[c][i] => c = d /\ i = j
             /\ \/ owned[c][i] \in alloc
                \/ \E k \in 1..Len(fromDev) : fromDev[k].type = "RELEASE" /\ fromDev[k].id = owned[c][i]
  <2>1. owned[c][i] \in Held(c)
    BY <1>1, ElementsAreIndexed DEF Held
  <2>2. ASSUME NEW d \in Client, NEW j \in 1..Len(owned[d]), owned[d][j] = owned[c][i]
        PROVE  c = d /\ i = j
    <3>1. owned[d][j] \in Held(d)
      BY <1>1, ElementsAreIndexed DEF Held
    <3>2. c = d
      BY <2>1, <2>2, <3>1 DEF OrderlyInv, Holding
    <3>3. QED
      BY <2>2, <3>2 DEF OrderlyInv, Holding, Distinct
  <2>3. owned[c][i] \in alloc \/ TakenBack(owned[c][i])
    BY <2>1 DEF OrderlyInv, Holding
  <2>4. TakenBack(owned[c][i]) =>
          \E k \in 1..Len(fromDev) : fromDev[k].type = "RELEASE" /\ fromDev[k].id = owned[c][i]
    BY <1>2, ElementsAreIndexed DEF TakenBack
  <2>5. QED
    BY <2>2, <2>3, <2>4
<1>4. ASSUME phase = "serving", NEW i \in alloc
      PROVE  Accounted(i)
  <2>1. i \in Id /\ (~Unheld(i) \/ GivenOut(i) \/ OwnRelease(i) \in ToSet(queue))
    BY <1>2, <1>4 DEF OrderlyInv, Books
  <2>2. CASE ~Unheld(i)
    BY <1>1, <2>2, ElementsAreIndexed DEF Unheld, Held, Accounted
  <2>3. CASE GivenOut(i)
    BY <1>2, <2>3, ElementsAreIndexed DEF GivenOut, Accounted
  <2>4. CASE OwnRelease(i) \in ToSet(queue)
    <3>1. PICK k \in 1..Len(queue) : queue[k] = OwnRelease(i)
      BY <1>2, <2>4, ElementsAreIndexed
    <3>2. queue[k].req.type = "RELEASE" /\ queue[k].req.id = i
      BY <3>1 DEF OwnRelease, Msg
    <3>3. QED
      BY <3>2 DEF Accounted
  <2>5. QED
    BY <2>1, <2>2, <2>3, <2>4
<1>5. QED
  BY <1>3, <1>4 DEF OneHolder, NoIdLost

\* With clients that wait for their answers, the modem never has more than the
\* one control message at the head of the queue, and what it answers is the
\* answer to that one: recv_qmi_from_dev() may take it for it.
THEOREM KeepsInStep ==
  ASSUME Orderly
  PROVE  Spec /\ []Synced => []InStep
BY OrderlyAtFirst, OrderlyStep, OrderlyIsInStep, PTL DEF Spec

\* With clients that wait for their answers, no connection is handed what
\* another one asked for: not a control message, and not one of a service.
THEOREM AnswersTheAsker ==
  ASSUME Orderly
  PROVE  Spec /\ []Synced => []ToAskerOnly
BY OrderlyAtFirst, OrderlyStep, PTL DEF Spec

\* With clients that wait for their answers, the books of the proxy and of the
\* modem on client ids agree: no id has two holders or one the modem does not
\* know of, and none is lost when connections come and go.
THEOREM KeepsIds ==
  ASSUME Orderly
  PROVE  Spec /\ []Synced => []IdsKept
BY OrderlyAtFirst, OrderlyStep, OrderlyKeepsIds, PTL DEF Spec

-----------------------------------------------------------------------------
(* When the first SYNC is answered at once, none is on its way later.      *)

\* One message is left, on its way there or back.
OneLeft ==
  \/ toDev = <<>> /\ (fromDev = <<>> \/ Tail(fromDev) = <<>>)
  \/ fromDev = <<>> /\ Tail(toDev) = <<>>

\* No client asks for SYNC, and the one SYNC is answered before the proxy serves.
NoSync(s) == \A m \in ToSet(s) : m.type # "SYNC"
OneSync ==
  /\ phase \in {"closed", "exit"} => toDev = <<>> /\ fromDev = <<>>
  /\ phase = "sync" /\ (tries = 0 \/ syncDone) => toDev = <<>> /\ fromDev = <<>>
  /\ phase = "sync" /\ tries = 0 => ~syncDone
  /\ phase = "sync" => OneLeft
  /\ phase = "serving" => NoSync(toDev) /\ NoSync(fromDev)
  /\ \A c \in Client : NoSync(inbox[c])
  /\ \A e \in ToSet(queue) : e.req.type # "SYNC"
  /\ inds = 0

\* A message at the end of a list, or the first one gone.
LEMMA StillNoSync ==
  ASSUME NEW S, NEW s \in Seq(S)
  PROVE  /\ \A m \in S : NoSync(s) /\ m.type # "SYNC" => NoSync(Append(s, m))
         /\ s # <<>> /\ NoSync(s) => NoSync(Tail(s)) /\ Head(s).type # "SYNC"
         /\ \A i \in 1..Len(s) : NoSync(s) => s[i].type # "SYNC"
         /\ NoSync(<<>>)
<1>1. ASSUME NEW m \in S, NoSync(s), m.type # "SYNC" PROVE NoSync(Append(s, m))
  <2>1. ToSet(Append(s, m)) = ToSet(s) \cup {m}
    BY AppendElements
  <2>2. QED
    BY <1>1, <2>1 DEF NoSync
<1>2. ASSUME s # <<>>, NoSync(s) PROVE NoSync(Tail(s)) /\ Head(s).type # "SYNC"
  <2>1. ToSet(s) = {Head(s)} \cup ToSet(Tail(s))
    BY <1>2, TailElements
  <2>2. QED
    BY <1>2, <2>1 DEF NoSync
<1>3. QED
  BY <1>1, <1>2, ElementsAreIndexed, EmptyHasNone DEF NoSync

\* The queue has no SYNC, nor has what is sent of it.
LEMMA ClientsWithoutSync ==
  ASSUME TypeOK, OneSync, NEW c \in Client, Read(c) \/ Cleanup(c), TypeOK'
  PROVE  OneSync'
<1>1. queue \in Seq(Entry) /\ toDev \in Seq(Message) /\ inbox[c] \in Seq(Message) /\ queue' \in Seq(Entry)
  BY DEF TypeOK
<1>2. /\ phase = "serving" /\ phase' = "serving" /\ fromDev' = fromDev /\ inds' = inds
      /\ inbox' = [inbox EXCEPT ![c] = <<>>]
  BY DEF Read, Cleanup, sessionVars
<1>3. \A d \in Client : NoSync(inbox'[d])
  <2>1. \A d \in Client : inbox'[d] \in {<<>>, inbox[d]}
    BY <1>2 DEF TypeOK
  <2>2. QED
    BY <2>1, EmptyHasNone DEF OneSync, NoSync
<1>4. CASE Read(c)
  <2>1. CASE Len(inbox[c]) = 1
    <3>1. PICK m \in Message : m = inbox[c][1]
      BY <1>1, <2>1
    <3>2. m.type # "SYNC"
      <4>1. inbox[c][1] \in ToSet(inbox[c])
        BY <1>1, <2>1, ElementsAreIndexed
      <4>2. QED
        BY <3>1, <4>1 DEF OneSync, NoSync
    <3>3. Forward(fdOf[c], m)
      BY <1>4, <2>1, <3>1 DEF Read
    <3>4. NoSync(Append(toDev, m))
      BY <1>1, <1>2, <3>2, StillNoSync DEF OneSync
    <3>5. toDev' \in {toDev, Append(toDev, m)}
      BY <3>3 DEF Forward
    <3>6. queue' \in {queue, Append(queue, [fd |-> fdOf[c], req |-> m])}
      BY <3>3 DEF Forward
    <3>7. m.type \in Control => \A e \in ToSet(queue') : e.req.type # "SYNC"
      <4>1. CASE m.type \in Control
        <5>1. PICK e \in Entry : e = [fd |-> fdOf[c], req |-> m]
          BY <4>1 DEF Entry, TypeOK, Message, MessageOf
        <5>2. ToSet(Append(queue, e)) = ToSet(queue) \cup {e} /\ e.req.type # "SYNC"
          BY <1>1, <3>2, <5>1, AppendElements
        <5>3. QED
          BY <3>6, <5>1, <5>2 DEF OneSync
      <4>2. QED
        BY <4>1
    <3>8. m.type \notin Control => queue' = queue
      BY <3>2, <3>3 DEF Forward
    <3>9. NoSync(toDev')
      BY <1>2, <3>4, <3>5 DEF OneSync
    <3>10. \A e \in ToSet(queue') : e.req.type # "SYNC"
      BY <3>7, <3>8 DEF OneSync
    <3>11. NoSync(fromDev') /\ inds' = 0
      BY <1>2 DEF OneSync
    <3>12. QED
      BY <1>2, <1>3, <3>9, <3>10, <3>11 DEF OneSync
  <2>2. CASE Len(inbox[c]) # 1
    BY <1>2, <1>3, <1>4, <2>2 DEF Read, OneSync
  <2>3. QED
    BY <2>1, <2>2
<1>5. CASE Cleanup(c)
  <2>1. PICK r : r = Releases(c)
    OBVIOUS
  <2>2. r \in Seq(Entry) /\ \A i \in 1..Len(r) : r[i].req.type = "RELEASE"
    <3>1. owned[c] \in Seq(Id) /\ Len(owned[c]) \in Nat
      BY DEF TypeOK
    <3>2. \A k \in 1..Len(owned[c]) : owned[c][k] \in Id
      BY <3>1
    <3>3. \A i \in Id : OwnRelease(i) \in Entry /\ OwnRelease(i).req.type = "RELEASE"
      BY ProxyAssumption DEF OwnRelease, Entry, Server, Msg, MessageOf, Control, ProxyTid, Id
    <3>4. Len(Releases(c)) = Len(owned[c]) /\ \A k \in 1..Len(owned[c]) : Releases(c)[k] = OwnRelease(owned[c][k])
      BY <3>1 DEF Releases, OwnRelease
    <3>5. Releases(c) \in Seq(Entry)
      BY <3>1, <3>2, <3>3 DEF Releases, OwnRelease
    <3>6. QED
      BY <2>1, <3>2, <3>3, <3>4, <3>5
  <2>3. \A e \in ToSet(r) : e.req.type # "SYNC"
    BY <2>2, ElementsAreIndexed
  <2>4. PICK all \in Seq(Entry) : all = queue \o r /\ ToSet(all) = ToSet(queue) \cup ToSet(r)
    <3>1. queue \o r \in Seq(Entry) /\ ToSet(queue \o r) = ToSet(queue) \cup ToSet(r)
      BY <1>1, <2>2, ConcatElements
    <3>2. QED
      BY <3>1, Zenon
  <2>5. ToSet(queue') \subseteq ToSet(all)
    <3>1. queue' = WithoutFirst(all, {i \in 1..Len(all) : all[i].fd = fdOf[c]})
      BY <1>5, <2>1, <2>4 DEF Cleanup
    <3>2. \A I \in SUBSET (1..Len(all)) : ToSet(WithoutFirst(all, I)) \subseteq ToSet(all)
      BY WithoutElementsOf
    <3>3. QED
      BY <3>1, <3>2
  <2>6. \A e \in ToSet(queue') : e.req.type # "SYNC"
    BY <2>3, <2>4, <2>5 DEF OneSync
  <2>7. NoSync(toDev')
    <3>1. CASE queue = <<>> /\ r # <<>>
      <4>1. PICK e \in Entry : e = r[1] /\ e.req.type # "SYNC"
        BY <2>2, <3>1, HeadAndTail
      <4>2. e.req \in Message /\ toDev' = Append(toDev, e.req)
        BY <1>5, <2>1, <3>1, <4>1 DEF Cleanup, Entry, Message, MessageOf
      <4>3. QED
        BY <1>1, <1>2, <4>1, <4>2, StillNoSync DEF OneSync
    <3>2. CASE ~(queue = <<>> /\ r # <<>>)
      BY <1>2, <1>5, <2>1, <3>2 DEF Cleanup, OneSync
    <3>3. QED
      BY <3>1, <3>2
  <2>8. QED
    BY <1>2, <1>3, <2>6, <2>7 DEF OneSync
<1>6. QED
  BY <1>4, <1>5

\* The loop and the modem pass on what is no SYNC.
LEMMA DeviceWithoutSync ==
  ASSUME TypeOK, OneSync, FromDevInSync \/ FromDev \/ Modem, TypeOK'
  PROVE  OneSync'
<1>1. /\ queue \in Seq(Entry) /\ toDev \in Seq(Message) /\ fromDev \in Seq(FromModem)
      /\ queue' \in Seq(Entry) /\ toDev' \in Seq(Message)
  BY DEF TypeOK
<1>2. CASE FromDevInSync
  <2>1. /\ phase = "sync" /\ phase' = "sync" /\ fromDev # <<>> /\ fromDev' = Tail(fromDev)
        /\ UNCHANGED <<tries, queue, toDev, inbox, inds>>
    BY <1>2 DEF FromDevInSync, proxyVars, clientVars
  <2>2. OneLeft /\ tries # 0
    BY <2>1 DEF OneSync
  <2>3. toDev = <<>> /\ Tail(fromDev) = <<>>
    BY <2>1, <2>2 DEF OneLeft
  <2>4. OneLeft'
    BY <2>1, <2>3 DEF OneLeft
  <2>5. QED
    BY <2>1, <2>2, <2>3, <2>4 DEF OneSync
<1>3. CASE FromDev
  <2>1. /\ phase = "serving" /\ phase' = "serving" /\ fromDev # <<>> /\ fromDev' = Tail(fromDev)
        /\ UNCHANGED <<inbox, inds>>
    BY <1>3 DEF FromDev, sessionVars
  <2>2. NoSync(fromDev')
    BY <1>1, <2>1, StillNoSync DEF OneSync
  <2>3. NoSync(toDev') /\ \A e \in ToSet(queue') : e.req.type # "SYNC"
    <3>1. CASE UNCHANGED <<queue, toDev>>
      BY <2>1, <3>1 DEF OneSync
    <3>2. CASE queue # <<>> /\ Pop
      <4>1. ToSet(queue) = {Head(queue)} \cup ToSet(queue')
        BY <1>1, <3>2, TailElements DEF Pop
      <4>2. CASE Len(queue) > 1
        <5>1. PICK e \in Entry : e = queue[2] /\ e \in ToSet(queue)
          BY <1>1, <3>2, <4>2, TailElements, ElementsAreIndexed
        <5>2. e.req.type # "SYNC" /\ e.req \in Message
          BY <5>1 DEF OneSync, Entry, Message, MessageOf
        <5>3. toDev' = Append(toDev, e.req)
          BY <3>2, <4>2, <5>1 DEF Pop
        <5>4. QED
          BY <1>1, <2>1, <4>1, <5>2, <5>3, StillNoSync DEF OneSync
      <4>3. CASE ~(Len(queue) > 1)
        BY <2>1, <3>2, <4>1, <4>3 DEF Pop, OneSync
      <4>4. QED
        BY <4>2, <4>3
    <3>3. QED
      BY <1>3, <3>1, <3>2 DEF FromDev, ControlAnswer
  <2>4. QED
    BY <2>1, <2>2, <2>3 DEF OneSync
<1>4. CASE Modem
  <2>1. PICK m \in Message : m = Head(toDev)
    BY <1>1, <1>4, HeadAndTail DEF Modem
  <2>2. /\ toDev # <<>> /\ toDev' = Tail(toDev)
        /\ UNCHANGED <<phase, tries, syncDone, queue, inbox, inds>>
    BY <1>4 DEF Modem, sessionVars, proxyVars, clientVars
  <2>3. PICK a : a.type = m.type /\ (fromDev' = Append(fromDev, a) \/ fromDev' = fromDev)
    BY <1>4, <2>1 DEF Modem
  <2>4. fromDev' \in Seq(FromModem)
    BY DEF TypeOK
  <2>5. CASE phase = "sync"
    <3>1. ~(tries = 0 \/ syncDone) /\ OneLeft
      BY <2>2, <2>5 DEF OneSync
    <3>2. fromDev = <<>> /\ toDev' = <<>>
      BY <2>2, <3>1 DEF OneLeft
    <3>3. fromDev' = <<>> \/ Tail(fromDev') = <<>>
      <4>1. Tail(Append(<<>>, a)) = <<>>
        OBVIOUS
      <4>2. QED
        BY <2>3, <3>2, <4>1
    <3>4. OneLeft'
      BY <3>2, <3>3 DEF OneLeft
    <3>5. QED
      BY <2>2, <2>5, <3>1, <3>4 DEF OneSync
  <2>6. CASE phase = "serving"
    <3>1. m.type # "SYNC" /\ NoSync(toDev')
      BY <1>1, <2>1, <2>2, <2>6, StillNoSync DEF OneSync
    <3>2. NoSync(fromDev')
      <4>1. CASE fromDev' = fromDev
        BY <2>6, <4>1 DEF OneSync
      <4>2. CASE fromDev' = Append(fromDev, a) /\ fromDev' # fromDev
        <5>1. \A x \in ToSet(fromDev') : x \in ToSet(fromDev) \/ x = a
          <6>1. fromDev \in Seq(FromModem \cup {a})
            BY <1>1
          <6>2. QED
            BY <4>2, <6>1, AppendElements
        <5>2. QED
          BY <2>3, <2>6, <3>1, <5>1 DEF OneSync, NoSync
      <4>3. QED
        BY <2>3, <4>1, <4>2
    <3>3. QED
      BY <2>2, <2>6, <3>1, <3>2 DEF OneSync
  <2>7. QED
    BY <2>2, <2>5, <2>6 DEF OneSync, TypeOK
<1>5. QED
  BY <1>2, <1>3, <1>4

\* The proxy of the runs makes one SYNC request, and the modem of the runs has
\* nothing to say on its own account: then what comes first is the answer, and
\* no SYNC is on its way when the proxy serves, whatever else happens.
THEOREM SyncFirst ==
  ASSUME MaxSync = 1, MaxInd = 0
  PROVE  Spec => []Synced
<1> DEFINE Inv == TypeOK /\ OneSync
<1>1. Init => Inv
  <2> SUFFICES ASSUME Init PROVE Inv
    OBVIOUS
  <2>1. TypeOK
    BY TypeAtFirst
  <2>2. /\ phase = "closed" /\ toDev = <<>> /\ fromDev = <<>> /\ queue = <<>> /\ inds = 0
        /\ \A c \in Client : inbox[c] = <<>>
    BY DEF Init
  <2>3. QED
    BY <2>1, <2>2, EmptyHasNone DEF OneSync, NoSync
<1>2. Inv /\ [Next]_vars => Inv'
  <2> SUFFICES ASSUME TypeOK, OneSync, [Next]_vars PROVE OneSync'
    BY TypeStep
  <2>0. TypeOK'
    BY TypeStep
  <2>1. CASE OpenDevice
    <3>1. /\ phase = "closed" /\ phase' = "sync" /\ syncDone' = FALSE /\ tries' = 0 /\ queue' = <<>>
          /\ UNCHANGED <<toDev, fromDev, inbox, inds>>
      BY <2>1 DEF OpenDevice, devVars, clientVars
    <3>2. QED
      BY <3>1, EmptyHasNone DEF OneSync, OneLeft
  <2>2. CASE SendSync
    <3>1. /\ phase = "sync" /\ phase' = "sync" /\ tries < MaxSync /\ tries' = tries + 1
          /\ ~syncDone /\ ~syncDone'
          /\ toDev' = Append(toDev, Msg("SYNC", 0, tries + 1, 0))
          /\ UNCHANGED <<queue, fromDev, inbox, inds>>
      BY <2>2, Zenon DEF SendSync, proxyVars, clientVars
    <3>2. tries = 0 /\ tries' # 0
      BY <3>1 DEF TypeOK
    <3>3. toDev = <<>> /\ fromDev = <<>>
      BY <3>1, <3>2 DEF OneSync
    <3>4. Tail(toDev') = <<>>
      BY <3>1, <3>3
    <3>5. OneLeft'
      BY <3>1, <3>3, <3>4 DEF OneLeft
    <3>6. QED
      BY <3>1, <3>2, <3>5 DEF OneSync
  <2>3. CASE OpenServer
    <3>1. /\ phase = "sync" /\ phase' = "serving" /\ syncDone
          /\ UNCHANGED <<queue, toDev, fromDev, inbox, inds>>
      BY <2>3 DEF OpenServer, proxyVars, devVars, clientVars
    <3>2. QED
      BY <3>1, EmptyHasNone DEF OneSync, NoSync
  <2>4. CASE GiveUp \/ DeviceLost \/ Quit
    <3>1. /\ phase' \in {"closed", "exit"} /\ toDev' = <<>> /\ fromDev' = <<>> /\ queue' = <<>>
          /\ inds' = inds /\ \A c \in Client : inbox'[c] = <<>>
      BY <2>4 DEF GiveUp, DeviceLost, Quit, EndSession
    <3>2. QED
      BY <3>1, EmptyHasNone DEF OneSync, NoSync
  <2>5. CASE FromDevInSync \/ FromDev \/ Modem
    BY <2>0, <2>5, DeviceWithoutSync
  <2>6. ASSUME NEW c \in Client, Accept(c) PROVE OneSync'
    <3>1. phase' = phase /\ phase = "serving" /\ UNCHANGED <<queue, toDev, fromDev, inbox, inds>>
      BY <2>6 DEF Accept, sessionVars, devVars
    <3>2. QED
      BY <3>1 DEF OneSync
  <2>7. ASSUME NEW c \in Client, Read(c) \/ Cleanup(c) PROVE OneSync'
    BY <2>0, <2>7, ClientsWithoutSync
  <2>8. CASE Indication
    BY <2>8 DEF Indication, OneSync
  <2>9. CASE Revoke
    <3>1. PICK m \in FromModem : m.type = "REVOKE" /\ fromDev' = Append(fromDev, m)
      <4>1. Msg("REVOKE", 0, 0, 0) \in FromModem /\ Msg("REVOKE", 0, 0, 0).type = "REVOKE"
        BY MsgType, ProxyAssumption DEF FromModem, Msg
      <4>2. QED
        BY <2>9, <4>1 DEF Revoke
    <3>2. phase = "serving" /\ UNCHANGED <<phase, queue, toDev, inbox, inds>>
      BY <2>9 DEF Revoke, sessionVars, proxyVars, clientVars
    <3>3. fromDev \in Seq(FromModem)
      BY DEF TypeOK
    <3>4. NoSync(fromDev')
      BY <3>1, <3>2, <3>3, StillNoSync DEF OneSync
    <3>5. QED
      BY <3>2, <3>4 DEF OneSync
  <2>10. ASSUME NEW c \in Client, AskAny(c) PROVE OneSync'
    <3>1. PICK m \in Message : m.type # "SYNC" /\ inbox' = [inbox EXCEPT ![c] = Append(@, m)]
      <4>1. PICK type \in {"VERSION", "GET", "RELEASE", "SVC"}, id \in 0..Ids : Ask(c, type, id)
        BY <2>10, AskedFor
      <4>2. asked[c] + 1 \in Nat /\ c \in 0..Clients
        <5>1. asked[c] \in 0..MaxAsk
          BY Zenon DEF TypeOK
        <5>2. QED
          BY <5>1, ProxyAssumption DEF Client
      <4>3. Msg(type, id, asked[c] + 1, c) \in Message /\ Msg(type, id, asked[c] + 1, c).type # "SYNC"
        BY <4>1, <4>2, MsgType DEF Msg, Control
      <4>4. inbox' = [inbox EXCEPT ![c] = Append(@, Msg(type, id, asked[c] + 1, c))]
        BY <4>1 DEF Ask
      <4>5. QED
        BY <4>3, <4>4
    <3>2. UNCHANGED <<phase, tries, syncDone, queue, toDev, fromDev, inds>>
      BY <2>10 DEF AskAny, Ask, sessionVars, proxyVars, devVars
    <3>3. inbox[c] \in Seq(Message)
      BY DEF TypeOK
    <3>4. NoSync(Append(inbox[c], m))
      BY <3>1, <3>3, StillNoSync DEF OneSync
    <3>5. \A d \in Client : NoSync(inbox'[d])
      BY <3>1, <3>4 DEF OneSync, TypeOK
    <3>6. QED
      BY <3>2, <3>5 DEF OneSync, OneLeft
  <2>11. ASSUME NEW c \in Client, TimeOut(c) \/ Leave(c) PROVE OneSync'
    <3>1. UNCHANGED <<phase, tries, syncDone, queue, toDev, fromDev, inbox, inds>>
      BY <2>11 DEF TimeOut, Leave, sessionVars, proxyVars, devVars
    <3>2. QED
      BY <3>1 DEF OneSync, OneLeft
  <2>12. CASE UNCHANGED vars
    <3>1. UNCHANGED <<phase, tries, syncDone, queue, toDev, fromDev, inbox, inds>>
      BY <2>12 DEF vars, sessionVars, proxyVars, devVars, clientVars
    <3>2. QED
      BY <3>1 DEF OneSync, OneLeft
  <2>13. QED
    BY <2>1, <2>2, <2>3, <2>4, <2>5, <2>6, <2>7, <2>8, <2>9, <2>10, <2>11, <2>12,
       WriteFailsQuits
       DEF Next, Session, Loop, Environment, Exited
<1>3. Inv => Synced
  BY DEF OneSync, NoSync, Synced
<1>4. QED
  BY <1>1, <1>2, <1>3, PTL DEF Spec
=============================================================================
