------------------------------ MODULE QmiProxy ------------------------------
(***************************************************************************)
(* quectel-qmi-proxy: one process that opens the QMI device of the modem   *)
(* and shares it between several connection managers, its clients. It      *)
(* forwards the messages of a service by client id; the control messages,  *)
(* which all have the client id 0, go to the modem one at a time through a *)
(* queue (qmi_proxy_ctl_msg), and the answer belongs to the head of the    *)
(* queue. When a client leaves, the proxy releases its ids itself.         *)
(*                                                                         *)
(* The loop of the proxy is one thread: what it does for one descriptor is *)
(* one action. Clients and the modem are the environment. A write to a     *)
(* connection that its client has closed raises SIGPIPE, which is not      *)
(* handled: it ends the process.                                           *)
(***************************************************************************)
EXTENDS Integers, FiniteSets, SequencesExt

CONSTANTS
  Clients,     \* number of clients; each connects once
  Ids,         \* number of client ids of the modem
  LeaveBusy,   \* a client may leave while it waits for an answer
  Impatient,   \* a client may give up a request and make another
  Faulty,      \* the faults that happen
  MaxSync,     \* SYNC requests of a session, 60 in the code
  MaxAsk,      \* bound on the requests of a client
  MaxInd,      \* bound on the unsolicited messages of the modem
  MaxFaults    \* bound on the faults

ASSUME ProxyAssumption ==
  /\ Clients \in Nat \ {0} /\ Ids \in Nat \ {0} /\ MaxSync \in Nat \ {0}
  /\ MaxAsk \in Nat /\ MaxInd \in Nat /\ MaxFaults \in Nat
  /\ LeaveBusy \in BOOLEAN /\ Impatient \in BOOLEAN
  /\ Faulty \subseteq {"device", "answer", "revoke"}

Client == 1..Clients
Id == 1..Ids

\* File descriptors of connections; 0 is qmi_proxy_server_fd, the owner of
\* the requests of the proxy itself, and the descriptor of nobody.
Fd == 1..Clients
Server == 0

\* A request, or the answer to it. by, which client made it (0: the proxy),
\* is not in the message: it tells in the model whose answer an answer is.
Control == {"SYNC", "VERSION", "GET", "RELEASE"}
MessageOf(types) == [type : types, id : 0..Ids, tid : Nat, by : 0..Clients, ok : BOOLEAN]
Message == MessageOf(Control \cup {"SVC", "REVOKE"})
Msg(type, id, tid, by) == [type |-> type, id |-> id, tid |-> tid, by |-> by, ok |-> TRUE]
Nothing == Msg("SVC", 0, 0, 0)

\* The transaction number of the proxy's own requests, 255 in the code.
ProxyTid == 0

VARIABLES
  phase,       \* the session with the device: closed, sync, serving, exit
  syncDone,    \* qmi_sync_done
  tries,       \* SYNC requests made
  fdOf,        \* qmi_proxy_connection: the descriptor of each client, 0: none
  owned,       \* the client_qnode list of each connection: ids
  queue,       \* qmi_proxy_ctl_msg
  toDev,       \* written to the device, not yet read by the modem
  fromDev,     \* written by the modem, not yet read by the proxy
  alloc,       \* the ids the modem has given out
  life,        \* of a client: out (not yet connected), in, gone
  inbox,       \* what a client has written and the proxy has not read
  ask,         \* the request a client waits for
  asked,       \* requests a client has made
  mine,        \* the ids a client believes to have
  sent,        \* what the proxy wrote to clients in its last step
  inds, faults

devVars == <<toDev, fromDev, alloc, inds>>
clientVars == <<life, inbox, ask, asked, mine>>
sessionVars == <<phase, syncDone, tries>>
proxyVars == <<fdOf, owned, queue>>
vars == <<sessionVars, proxyVars, devVars, clientVars, sent, faults>>

\* A queued message; what the modem sends: it gives out ids from 1 on.
Entry == [fd : 0..Clients, req : MessageOf(Control)]
FromModem == {m \in Message : m.type = "GET" /\ m.ok => m.id \in Id}

TypeOK ==
  /\ phase \in {"closed", "sync", "serving", "exit"} /\ syncDone \in BOOLEAN /\ tries \in 0..MaxSync
  /\ fdOf \in [Client -> 0..Clients]
  /\ owned \in [Client -> Seq(Id)]
  /\ queue \in Seq(Entry)
  /\ toDev \in Seq(Message) /\ fromDev \in Seq(FromModem)
  /\ alloc \subseteq Id
  /\ life \in [Client -> {"out", "in", "gone"}]
  /\ inbox \in [Client -> Seq(Message)]
  /\ ask \in [Client -> Message]
  /\ asked \in [Client -> 0..MaxAsk]
  /\ mine \in [Client -> SUBSET Id]
  /\ sent \subseteq Client \X Message
  /\ inds \in 0..MaxInd /\ faults \in 0..MaxFaults

Init ==
  /\ phase = "closed" /\ syncDone = FALSE /\ tries = 0
  /\ fdOf = [c \in Client |-> 0] /\ owned = [c \in Client |-> <<>>] /\ queue = <<>>
  /\ toDev = <<>> /\ fromDev = <<>> /\ alloc = {} /\ inds = MaxInd
  /\ life = [c \in Client |-> "out"] /\ inbox = [c \in Client |-> <<>>]
  /\ ask = [c \in Client |-> Nothing] /\ asked = [c \in Client |-> 0] /\ mine = [c \in Client |-> {}]
  /\ sent = {} /\ faults = MaxFaults

\* A list without the first of its elements with an index in I.
WithoutFirst(list, I) == IF I = {} THEN list ELSE RemoveAt(list, Min(I))

Fault(kind) == kind \in Faulty /\ faults > 0 /\ faults' = faults - 1
Connected == {c \in Client : fdOf[c] # 0}

-----------------------------------------------------------------------------
(* Sessions: main() and qmi_proxy_init().                                  *)

\* The device is opened and the thread with the loop begins with empty lists.
OpenDevice ==
  /\ phase = "closed"
  /\ phase' = "sync" /\ syncDone' = FALSE /\ tries' = 0
  /\ queue' = <<>> /\ sent' = {}
  /\ UNCHANGED <<fdOf, owned, devVars, clientVars, faults>>

\* A SYNC every second until something has come from the device.
SendSync ==
  /\ phase = "sync" /\ tries < MaxSync /\ ~syncDone
  /\ tries' = tries + 1
  /\ toDev' = Append(toDev, Msg("SYNC", 0, tries + 1, 0))
  /\ sent' = {}
  /\ UNCHANGED <<phase, syncDone, proxyVars, fromDev, alloc, inds, clientVars, faults>>

OpenServer ==
  /\ phase = "sync" /\ tries > 0 /\ syncDone
  /\ phase' = "serving" /\ sent' = {}
  /\ UNCHANGED <<syncDone, tries, proxyVars, devVars, clientVars, faults>>

\* The thread closes the connections without releasing their ids; what was
\* on its way to or from the device is lost with its descriptor.
EndSession(next) ==
  /\ phase' = next
  /\ fdOf' = [c \in Client |-> 0] /\ owned' = [c \in Client |-> <<>>] /\ queue' = <<>>
  /\ toDev' = <<>> /\ fromDev' = <<>>
  /\ life' = [c \in Client |-> IF life[c] = "in" THEN "gone" ELSE life[c]]
  /\ inbox' = [c \in Client |-> <<>>]
  /\ ask' = [c \in Client |-> Nothing] /\ mine' = [c \in Client |-> {}]
  /\ sent' = {}
  /\ UNCHANGED <<syncDone, tries, alloc, inds, asked>>

\* No answer to any SYNC: the thread is cancelled and the device closed.
GiveUp ==
  /\ phase = "sync" /\ tries = MaxSync /\ ~syncDone
  /\ EndSession("closed") /\ UNCHANGED faults

DeviceLost == phase \in {"sync", "serving"} /\ Fault("device") /\ EndSession("closed")

\* SIGINT, at any time.
Quit == phase # "exit" /\ EndSession("exit") /\ UNCHANGED faults

-----------------------------------------------------------------------------
(* The loop: clients.                                                      *)

\* accept_qmi_connection(): the kernel gives the lowest free descriptor.
Accept(c) ==
  /\ phase = "serving" /\ life[c] = "out"
  /\ LET free == {f \in Fd : \A d \in Client : fdOf[d] # f}
     IN \E f \in free : (\A g \in free : f <= g) /\ fdOf' = [fdOf EXCEPT ![c] = f]
  /\ life' = [life EXCEPT ![c] = "in"]
  /\ owned' = [owned EXCEPT ![c] = <<>>]
  /\ sent' = {}
  /\ UNCHANGED <<sessionVars, queue, devVars, inbox, ask, asked, mine, faults>>

\* Variant: a control message is sent at once, whatever is outstanding.
ForwardAtOnce(fd, m) ==
  /\ toDev' = Append(toDev, m)
  /\ queue' = IF m.type \in Control THEN Append(queue, [fd |-> fd, req |-> m]) ELSE queue

\* Variant: a message to a service waits behind the control messages, too.
ForwardInOrder(fd, m) ==
  /\ toDev' = IF queue = <<>> THEN Append(toDev, m) ELSE toDev
  /\ queue' = IF m.type \in Control \/ queue # <<>> THEN Append(queue, [fd |-> fd, req |-> m]) ELSE queue

\* recv_qmi_from_client(): a control message is sent if it is the only one.
\* A SYNC of a client is dropped.
Forward(fd, m) ==
  IF m.type = "SYNC" THEN UNCHANGED <<toDev, queue>>
  ELSE IF m.type \in Control
  THEN /\ toDev' = IF queue = <<>> THEN Append(toDev, m) ELSE toDev
       /\ queue' = Append(queue, [fd |-> fd, req |-> m])
  ELSE toDev' = Append(toDev, m) /\ UNCHANGED queue

\* What is there is read at once; the socket is a stream, and two messages
\* are taken for one of a wrong length.
Read(c) ==
  /\ phase = "serving" /\ c \in Connected /\ inbox[c] # <<>>
  /\ IF Len(inbox[c]) = 1 THEN Forward(fdOf[c], inbox[c][1]) ELSE UNCHANGED <<toDev, queue>>
  /\ inbox' = [inbox EXCEPT ![c] = <<>>]
  /\ sent' = {}
  /\ UNCHANGED <<sessionVars, fdOf, owned, fromDev, alloc, inds, life, ask, asked, mine, faults>>

\* Variant: the ids of a client that leaves are not released.
ReleasesNone(c) == <<>>

\* The requests of the proxy that release the ids of a connection.
Releases(c) ==
  [i \in 1..Len(owned[c]) |->
    [fd |-> Server, req |-> Msg("RELEASE", owned[c][i], ProxyTid, 0)]]

\* cleanup_qmi_connection(): the releases join the queue, the first is sent
\* if the queue was empty; then the first message of the client leaves the
\* queue, even when it is the one that the modem is answering.
Cleanup(c) ==
  /\ phase = "serving" /\ c \in Connected /\ life[c] = "gone"
  /\ LET releases == Releases(c)
     IN /\ toDev' = IF queue = <<>> /\ releases # <<>> THEN Append(toDev, releases[1].req) ELSE toDev
        /\ queue' = LET waiting == queue \o releases
                    IN WithoutFirst(waiting, {i \in 1..Len(waiting) : waiting[i].fd = fdOf[c]})
  /\ fdOf' = [fdOf EXCEPT ![c] = 0] /\ owned' = [owned EXCEPT ![c] = <<>>]
  /\ inbox' = [inbox EXCEPT ![c] = <<>>]
  /\ sent' = {}
  /\ UNCHANGED <<sessionVars, fromDev, alloc, inds, life, ask, asked, mine, faults>>

-----------------------------------------------------------------------------
(* The loop: messages of the device, recv_qmi_from_dev().                  *)

\* Clients take the answer with the type and the number of their request.
Answers(c, m) == ask[c] # Nothing /\ m.type = ask[c].type /\ m.tid = ask[c].tid

Deliver(to, m) ==
  /\ sent' = {<<c, m>> : c \in to}
  /\ ask' = [c \in Client |-> IF c \in to /\ Answers(c, m) THEN Nothing ELSE ask[c]]
  /\ mine' = [c \in Client |->
       IF c \in to /\ Answers(c, m) /\ m.type = "GET" /\ m.ok THEN mine[c] \cup {m.id} ELSE mine[c]]

\* Before there is a server, any message is taken for the answer to SYNC.
FromDevInSync ==
  /\ phase = "sync" /\ fromDev # <<>>
  /\ syncDone' = TRUE
  /\ fromDev' = Tail(fromDev)
  /\ sent' = {}
  /\ UNCHANGED <<phase, tries, proxyVars, toDev, alloc, inds, clientVars, faults>>

Matches(e, m) == e.req.tid = m.tid /\ e.req.type = m.type

\* Variant: the next message in the queue waits for another answer.
PopOnly ==
  /\ queue' = Tail(queue)
  /\ UNCHANGED toDev

\* The head of the queue is done, and the next one is sent.
Pop ==
  /\ queue' = Tail(queue)
  /\ toDev' = IF Len(queue) > 1 THEN Append(toDev, queue[2].req) ELSE toDev

\* Variant: the result of an answer is not looked at.
RecordUnchecked(c, m) ==
  CASE m.type = "GET"     -> Append(owned[c], m.id)
    [] m.type = "RELEASE" -> WithoutFirst(owned[c], {i \in 1..Len(owned[c]) : owned[c][i] = m.id})
    [] OTHER              -> owned[c]

\* Variant: a released id stays with its connection.
RecordGetOnly(c, m) ==
  IF m.ok /\ m.type = "GET" THEN Append(owned[c], m.id) ELSE owned[c]

\* get_client_id(), release_client_id(): the ids of a connection.
Record(c, m) ==
  CASE m.ok /\ m.type = "GET"     -> Append(owned[c], m.id)
    [] m.ok /\ m.type = "RELEASE" -> WithoutFirst(owned[c], {i \in 1..Len(owned[c]) : owned[c][i] = m.id})
    [] OTHER                      -> owned[c]

\* Variant: an answer goes to every connection.
AskerAll(m) == IF Matches(queue[1], m) /\ queue[1].fd # Server THEN Connected ELSE {}

\* The connection that the answer m is for.
Asker(m) ==
  IF Matches(queue[1], m) THEN {c \in Connected : fdOf[c] = queue[1].fd} ELSE {}

\* Variant: an answer that is not the head's leaves the queue alone.
ControlAnswerStrict(m) ==
  IF queue = <<>> \/ ~Matches(queue[1], m)
  THEN Deliver({}, m) /\ UNCHANGED <<queue, toDev, owned>>
  ELSE /\ Deliver(Asker(m), m)
       /\ owned' = [c \in Client |-> IF c \in Asker(m) THEN Record(c, m) ELSE owned[c]]
       /\ Pop

\* An answer to a control message removes the head of the queue, also when
\* it is not the answer to it.
ControlAnswer(m) ==
  IF queue = <<>>
  THEN Deliver({}, m) /\ UNCHANGED <<queue, toDev, owned>>
  ELSE /\ Deliver(Asker(m), m)
       /\ owned' = [c \in Client |-> IF c \in Asker(m) THEN Record(c, m) ELSE owned[c]]
       /\ Pop

\* The connections with an id; the id 0 stands for all of them.
Holders(id) ==
  {c \in Connected : \E i \in 1..Len(owned[c]) : id = 0 \/ owned[c][i] = id}

\* The connections that the proxy writes the message m to.
Receivers(m) ==
  CASE m.type \in Control -> IF queue = <<>> THEN {} ELSE Asker(m)
    [] m.type = "SVC"     -> Holders(m.id)
    [] OTHER              -> {}

\* write() to a client that left since poll().
Breaks(m) == \E c \in Receivers(m) : life[c] = "gone"
WriteFails ==
  /\ phase = "serving" /\ fromDev # <<>> /\ Breaks(Head(fromDev))
  /\ EndSession("exit") /\ UNCHANGED faults

\* The test for a revoked client id, :395, compares the service of a control
\* message, 0, with the flag of an indication, 2: REVOKE is ignored.
FromDev ==
  /\ phase = "serving" /\ fromDev # <<>> /\ ~Breaks(Head(fromDev))
  /\ LET m == Head(fromDev)
     IN \/ m.type \in Control /\ ControlAnswer(m)
        \/ m.type = "SVC" /\ Deliver(Holders(m.id), m) /\ UNCHANGED <<queue, toDev, owned>>
        \/ m.type = "REVOKE" /\ Deliver({}, m) /\ UNCHANGED <<queue, toDev, owned>>
  /\ fromDev' = Tail(fromDev)
  /\ UNCHANGED <<sessionVars, fdOf, alloc, inds, life, inbox, asked, faults>>

-----------------------------------------------------------------------------
(* The modem.                                                              *)

\* It takes requests in order. SYNC takes all client ids back.
Modem ==
  /\ toDev # <<>>
  /\ LET m == Head(toDev)
     IN \E a \in [type : {m.type}, id : 0..Ids, tid : {m.tid}, by : {m.by}, ok : BOOLEAN] :
          /\ CASE m.type = "GET" ->
                    IF alloc = Id THEN ~a.ok /\ a.id = 0 /\ UNCHANGED alloc
                    ELSE a.ok /\ a.id \in Id \ alloc /\ alloc' = alloc \cup {a.id}
               [] m.type = "RELEASE" ->
                    a.id = m.id /\ a.ok = (m.id \in alloc) /\ alloc' = alloc \ {m.id}
               [] m.type = "SYNC" -> a.ok /\ a.id = 0 /\ alloc' = {}
               [] OTHER -> a.ok /\ a.id = m.id /\ UNCHANGED alloc
          /\ \/ fromDev' = Append(fromDev, a) /\ UNCHANGED faults
             \/ m.type \in Control /\ fromDev' = fromDev /\ Fault("answer")
  /\ toDev' = Tail(toDev)
  /\ sent' = {}
  /\ UNCHANGED <<sessionVars, proxyVars, inds, clientVars>>

Indication ==
  /\ phase \in {"sync", "serving"} /\ inds > 0 /\ inds' = inds - 1
  /\ \E id \in alloc \cup {0} : fromDev' = Append(fromDev, Msg("SVC", id, 0, 0))
  /\ sent' = {}
  /\ UNCHANGED <<sessionVars, proxyVars, toDev, alloc, clientVars, faults>>

Revoke ==
  /\ phase = "serving" /\ Fault("revoke")
  /\ alloc' = {}
  /\ fromDev' = Append(fromDev, Msg("REVOKE", 0, 0, 0))
  /\ sent' = {}
  /\ UNCHANGED <<sessionVars, proxyVars, toDev, inds, clientVars>>

-----------------------------------------------------------------------------
(* The clients: QmiWwanInit(), QmiWwanDeInit() and requests to a service.  *)

Ask(c, type, id) ==
  /\ phase = "serving" /\ life[c] = "in" /\ ask[c] = Nothing /\ asked[c] < MaxAsk
  /\ LET m == Msg(type, id, asked[c] + 1, c)
     IN ask' = [ask EXCEPT ![c] = m] /\ inbox' = [inbox EXCEPT ![c] = Append(@, m)]
  /\ asked' = [asked EXCEPT ![c] = @ + 1]
  /\ mine' = [mine EXCEPT ![c] = IF type = "RELEASE" THEN @ \ {id} ELSE @]
  /\ sent' = {}
  /\ UNCHANGED <<sessionVars, proxyVars, devVars, life, faults>>

AskAny(c) ==
  \/ Ask(c, "VERSION", 0)
  \/ Ask(c, "GET", 0)
  \/ \E id \in mine[c] : Ask(c, "RELEASE", id) \/ Ask(c, "SVC", id)

TimeOut(c) ==
  /\ Impatient /\ life[c] = "in" /\ ask[c] # Nothing
  /\ ask' = [ask EXCEPT ![c] = Nothing]
  /\ sent' = {}
  /\ UNCHANGED <<sessionVars, proxyVars, devVars, life, inbox, asked, mine, faults>>

\* The client closes its socket, or dies.
Leave(c) ==
  /\ life[c] = "in" /\ (LeaveBusy \/ ask[c] = Nothing)
  /\ life' = [life EXCEPT ![c] = "gone"]
  /\ ask' = [ask EXCEPT ![c] = Nothing] /\ mine' = [mine EXCEPT ![c] = {}]
  /\ sent' = {}
  /\ UNCHANGED <<sessionVars, proxyVars, devVars, inbox, asked, faults>>

-----------------------------------------------------------------------------
Session == OpenDevice \/ SendSync \/ OpenServer \/ GiveUp \/ DeviceLost \/ Quit
Loop == FromDevInSync \/ FromDev \/ WriteFails \/ \E c \in Client : Accept(c) \/ Read(c) \/ Cleanup(c)
Environment == Modem \/ Indication \/ Revoke
               \/ \E c \in Client : AskAny(c) \/ TimeOut(c) \/ Leave(c)
Exited == phase = "exit" /\ UNCHANGED vars

Next == Session \/ Loop \/ Environment \/ Exited

Spec == Init /\ [][Next]_vars

\* The loop runs and the modem takes and answers what it is sent.
FairSpec ==
  /\ Spec /\ WF_vars(FromDev \/ WriteFails) /\ WF_vars(Modem)
  /\ \A c \in Client : WF_vars(Read(c) \/ Cleanup(c))

-----------------------------------------------------------------------------
(* Properties.                                                             *)

ControlIn(s) == {i \in 1..Len(s) : s[i].type \in Control}

\* While a control message is queued the modem has one to answer, so that
\* the queue, which has no time-out, moves on: also after clients left while
\* it was their request that the modem was answering.
Moving ==
  phase = "serving" /\ queue # <<>> =>
    ControlIn(toDev) # {} \/ ControlIn(fromDev) # {}

\* The modem never has more than the one request at the head of the queue.
InStep ==
  phase = "serving" =>
    /\ Cardinality(ControlIn(toDev)) + Cardinality(ControlIn(fromDev)) = (IF queue = <<>> THEN 0 ELSE 1)
    /\ \A i \in ControlIn(toDev) : toDev[i] = queue[1].req
    /\ \A i \in ControlIn(fromDev) : Matches(queue[1], fromDev[i]) /\ fromDev[i].by = queue[1].req.by

\* An answer goes to the client that asked, and to no other.
ToAskerOnly == \A p \in sent : p[2].by \in {0, p[1]}

\* An id has one holder, and the modem keeps it for it.
OneHolder ==
  \A c \in Client : \A i \in 1..Len(owned[c]) :
    /\ \A d \in Client : \A j \in 1..Len(owned[d]) : owned[d][j] = owned[c][i] => c = d /\ i = j
    /\ \/ owned[c][i] \in alloc
       \/ \E k \in 1..Len(fromDev) : fromDev[k].type = "RELEASE" /\ fromDev[k].id = owned[c][i]

\* An id the modem has given out is held by a connection, on its way to one,
\* or about to be released or reset by the proxy: none is lost.
Accounted(i) ==
  \/ \E c \in Client : \E k \in 1..Len(owned[c]) : owned[c][k] = i
  \/ \E k \in 1..Len(fromDev) : fromDev[k].type = "GET" /\ fromDev[k].id = i
  \/ \E k \in 1..Len(queue) : queue[k].req.type = "RELEASE" /\ queue[k].req.id = i
NoIdLost == phase = "serving" => \A i \in alloc : Accounted(i)

\* The books of the proxy on client ids agree with the modem's, both ways.
IdsKept == OneHolder /\ NoIdLost

\* A client that waits gets its answer.
Answered == \A c \in Client : ask[c] # Nothing ~> ask[c] = Nothing

\* A request to a service is answered, also when the control queue does not
\* move because the modem did not answer one of its messages.
ServiceFlows == \A c \in Client : ask[c].type = "SVC" /\ ask[c] # Nothing ~> ask[c] = Nothing

\* The ids of a client that left are released.
Released ==
  \A i \in Id : (phase = "serving" /\ i \in alloc /\ \A c \in Client : life[c] # "in")
                ~> (i \notin alloc \/ phase # "serving" \/ \E c \in Client : life[c] = "in")

\* The queue empties although clients leave, die and repeat their requests.
Drains == queue # <<>> ~> queue = <<>>

\* "ERROR: ctl rsp tid:%d, type:%d - ctl req %d, %d" (quectel-qmi-proxy.c:356):
\* the control answer that comes while the queue is not empty is the one to
\* its head.
AnswersHead ==
  phase = "serving" /\ queue # <<>> /\ fromDev # <<>> /\ Head(fromDev).type \in Control
    => Matches(queue[1], Head(fromDev))
=============================================================================
