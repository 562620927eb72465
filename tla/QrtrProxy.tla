------------------------------ MODULE QrtrProxy -----------------------------
(***************************************************************************)
(* quectel-qrtr-proxy: lets connection managers, which speak QMI, use a    *)
(* modem that speaks QRTR. It answers control messages itself and keeps    *)
(* the client ids; each id has a port of this node, and a message of a     *)
(* service goes from the port to the server that the modem announced.      *)
(*                                                                         *)
(* One thread runs the loop, and what it does for one descriptor is one    *)
(* action; main() waits for the first server and opens the socket. A write *)
(* to a connection that its client has closed raises SIGPIPE, which is not *)
(* handled: it ends the process.                                           *)
(***************************************************************************)
EXTENDS Integers, FiniteSets, SequencesExt

CONSTANTS
  Clients,     \* number of clients; each connects once
  Service,     \* the services of the modem
  Ids,         \* the largest client id, 239 in the code
  Byte,        \* the largest port that a uint8_t of port_bitmap can record
  Ports,       \* the largest port, 4079 in the code
  MaxAsk,      \* bound on the requests of a client
  MaxRestarts, \* bound on the restarts of a service in the modem
  MaxFaults    \* bound on losses of the device

Client == 1..Clients
Addr == 0..MaxRestarts

\* A QRTR_PROXY_CLINET: a client id, its service and its port.
Holding == [svc : Service, id : 0..Ids, port : 1..Ports]

\* QMI messages of clients: id 0 in a control message; by and n tell whose
\* request it is. QRTR messages: a port of this node, an address of the modem.
Qmi(type, svc, id, by, n) == [type |-> type, svc |-> svc, id |-> id, by |-> by, n |-> n]
Qrtr(type, svc, addr, port, by, n, confirm) ==
  [type |-> type, svc |-> svc, addr |-> addr, port |-> port, by |-> by, n |-> n, confirm |-> confirm]
Request ==
  [type : {"VERSION", "GET", "RELEASE", "SVC"}, svc : Service, id : 0..Ids, by : 0..Clients, n : 0..MaxAsk]
Packet ==
  [type : {"HELLO", "NEW_SERVER", "DEL_SERVER", "DEL_CLIENT", "DATA", "RESUME_TX"}, svc : Service, addr : Addr,
   port : 1..Ports, by : 0..Clients, n : 0..MaxAsk, confirm : BOOLEAN]
AnyService == CHOOSE s \in Service : TRUE
Nothing == Qmi("VERSION", AnyService, 0, 0, 0)

VARIABLES
  phase,       \* closed, hello (no server yet), serving, dead
  life,        \* of a client: out (not yet connected), in, gone
  open,        \* qrtr_proxy_connection: the clients with a connection
  holds,       \* client_qnode: what each connection holds
  ids, ports,  \* client_bitmap, port_bitmap
  servers,     \* qrtr_server_list
  toDev, fromDev,
  at,          \* where the modem serves each service
  work,        \* requests the modem has not answered
  blocked,     \* ports the modem does not send to before RESUME_TX
  restarts, faults,
  inbox,       \* what a client has written and the proxy has not read
  ask,         \* the request a client waits for
  asked,       \* requests a client has made
  mine,        \* the ids a client knows
  taken        \* answers clients took for the answer to their request, last step

proxyVars == <<open, holds, ids, ports, servers>>
modemVars == <<at, work, blocked, restarts>>
clientVars == <<life, inbox, ask, asked, mine>>
vars == <<phase, proxyVars, toDev, fromDev, modemVars, faults, clientVars, taken>>

TypeOK ==
  /\ phase \in {"closed", "hello", "serving", "dead"}
  /\ life \in [Client -> {"out", "in", "gone"}] /\ open \subseteq Client
  /\ holds \in [Client -> Seq(Holding)]
  /\ ids \subseteq 1..Ids /\ ports \subseteq 1..Byte
  /\ servers \in Seq([svc : Service, addr : Addr])
  /\ toDev \in Seq(Packet) /\ fromDev \in Seq(Packet) /\ work \subseteq Packet
  /\ at \in [Service -> Addr] /\ blocked \subseteq 1..Ports
  /\ restarts \in 0..MaxRestarts /\ faults \in 0..MaxFaults
  /\ inbox \in [Client -> Seq(Request)] /\ ask \in [Client -> Request]
  /\ mine \in [Client -> SUBSET (1..Ids)] /\ asked \in [Client -> 0..MaxAsk]
  /\ taken \subseteq Client \X Packet

Init ==
  /\ phase = "closed" /\ open = {} /\ holds = [c \in Client |-> <<>>]
  /\ ids = {} /\ ports = {} /\ servers = <<>>
  /\ toDev = <<>> /\ fromDev = <<>>
  /\ at = [s \in Service |-> 0] /\ work = {} /\ blocked = {}
  /\ restarts = MaxRestarts /\ faults = MaxFaults
  /\ life = [c \in Client |-> "out"] /\ inbox = [c \in Client |-> <<>>]
  /\ ask = [c \in Client |-> Nothing] /\ asked = [c \in Client |-> 0]
  /\ mine = [c \in Client |-> {}] /\ taken = {}

-----------------------------------------------------------------------------
(* Client ids and ports.                                                   *)

\* find_qrtr_service(): the first one in the list.
Found(svc) == {i \in 1..Len(servers) : servers[i].svc = svc}
Server(svc) == servers[Min(Found(svc))]

\* Variant: the next id is the number of ids in use.
FreeIdCount == IF Cardinality(ids) = Ids THEN 0 ELSE Cardinality(ids) + 1

\* alloc_client_id(): 0 when there is none.
FreeId == IF 1..Ids \subseteq ids THEN 0 ELSE Min((1..Ids) \ ids)

\* alloc_port_id(): beyond Byte the bitmap does not record that it is taken.
FreePort == Min((1..Ports) \ ports)

\* Variant: the bitmap records every port.
AllocWide(c, svc) ==
  /\ holds' = [holds EXCEPT ![c] = Append(@, [svc |-> svc, id |-> FreeId, port |-> FreePort])]
  /\ ids' = ids \cup ({FreeId} \ {0})
  /\ ports' = ports \cup {FreePort}

\* alloc_qrtr_client_id(): what has no id gets a port and a place in the list
\* all the same.
Alloc(c, svc) ==
  /\ holds' = [holds EXCEPT ![c] = Append(@, [svc |-> svc, id |-> FreeId, port |-> FreePort])]
  /\ ids' = ids \cup ({FreeId} \ {0})
  /\ ports' = ports \cup ({FreePort} \cap (1..Byte))

DelClient(h) ==
  Qrtr("DEL_CLIENT", h.svc, IF Found(h.svc) = {} THEN 0 ELSE Server(h.svc).addr, h.port, 0, 0, FALSE)

\* Variant: the port of a released id is not given back.
ReleasedIdOnly(gone) ==
  /\ toDev' = toDev \o [i \in 1..Len(gone) |-> DelClient(gone[i])]
  /\ ids' = ids \ {gone[i].id : i \in 1..Len(gone)}
  /\ ports' = ports

\* release_qrtr_client_id(), for each of gone.
Released(gone) ==
  /\ toDev' = toDev \o [i \in 1..Len(gone) |-> DelClient(gone[i])]
  /\ ids' = ids \ {gone[i].id : i \in 1..Len(gone)}
  /\ ports' = ports \ {gone[i].port : i \in 1..Len(gone)}

-----------------------------------------------------------------------------
(* main(), qrtr_proxy_init() and the end of qrtr_proxy_loop().             *)

OpenDevice ==
  /\ phase = "closed"
  /\ phase' = "hello" /\ open' = {} /\ servers' = <<>>
  /\ toDev' = <<Qrtr("HELLO", AnyService, 0, 1, 0, 0, FALSE)>> /\ fromDev' = <<>>
  /\ taken' = {}
  /\ UNCHANGED <<holds, ids, ports, modemVars, faults, clientVars>>

\* qrtr_sync_done: some server is known, looked at once a second.
OpenServer ==
  /\ phase = "hello" /\ servers # <<>>
  /\ phase' = "serving" /\ taken' = {}
  /\ UNCHANGED <<proxyVars, toDev, fromDev, modemVars, faults, clientVars>>

\* Ten seconds without one: the thread is cancelled.
GiveUp ==
  /\ phase = "hello" /\ servers = <<>>
  /\ phase' = "closed" /\ toDev' = <<>> /\ fromDev' = <<>> /\ taken' = {}
  /\ UNCHANGED <<proxyVars, modemVars, faults, clientVars>>

\* Every connection is cleaned up, and what was on its way is lost. The
\* bitmaps are for the life of the process.
DeviceLost ==
  /\ phase \in {"hello", "serving"} /\ faults > 0 /\ faults' = faults - 1
  /\ phase' = "closed" /\ open' = {} /\ holds' = [c \in Client |-> <<>>]
  /\ LET all == UNION {ToSet(holds[c]) : c \in open}
     IN ids' = ids \ {h.id : h \in all} /\ ports' = ports \ {h.port : h \in all}
  /\ toDev' = <<>> /\ fromDev' = <<>> /\ taken' = {}
  /\ work' = {} /\ blocked' = {}
  /\ life' = [c \in Client |-> IF c \in open THEN "gone" ELSE life[c]]
  /\ inbox' = [c \in Client |-> <<>>]
  /\ ask' = [c \in Client |-> Nothing] /\ mine' = [c \in Client |-> {}]
  /\ UNCHANGED <<servers, at, restarts, asked>>

\* SIGPIPE: the process ends before it sends or confirms anything more, and its
\* lists and the connections go with it.
Killed ==
  /\ phase' = "dead" /\ open' = {} /\ holds' = [c \in Client |-> <<>>]
  /\ ids' = {} /\ ports' = {} /\ servers' = <<>>
  /\ toDev' = <<>> /\ fromDev' = <<>> /\ work' = {} /\ taken' = {}
  /\ life' = [c \in Client |-> IF c \in open THEN "gone" ELSE life[c]]
  /\ inbox' = [c \in Client |-> <<>>]
  /\ ask' = [c \in Client |-> Nothing] /\ mine' = [c \in Client |-> {}]
  /\ UNCHANGED <<at, blocked, restarts, faults, asked>>

-----------------------------------------------------------------------------
(* Connections: accept_qrtr_connection(), cleanup_qrtr_connection().       *)

Accept(c) ==
  /\ phase = "serving" /\ life[c] = "out"
  /\ life' = [life EXCEPT ![c] = "in"] /\ open' = open \cup {c}
  /\ taken' = {}
  /\ UNCHANGED <<phase, holds, ids, ports, servers, toDev, fromDev, modemVars, faults, inbox, ask, asked, mine>>

Cleanup(c) ==
  /\ phase = "serving" /\ c \in open /\ life[c] = "gone"
  /\ Released(holds[c])
  /\ open' = open \ {c} /\ holds' = [holds EXCEPT ![c] = <<>>]
  /\ inbox' = [inbox EXCEPT ![c] = <<>>] /\ taken' = {}
  /\ UNCHANGED <<phase, servers, fromDev, modemVars, faults, life, ask, asked, mine>>

-----------------------------------------------------------------------------
(* recv_qmi_from_client().                                                 *)

\* What a client does with the answer it waits for.
TakeAnswer(c, m, id) ==
  /\ ask' = [ask EXCEPT ![c] = IF m = @ THEN Nothing ELSE @]
  /\ mine' = [mine EXCEPT ![c] = IF m = ask[c] /\ m.type = "GET" THEN @ \cup ({id} \ {0}) ELSE @]

\* GET_CLIENT_ID: without a server for the service there is no id.
Get(c, m) ==
  /\ IF Found(m.svc) = {} THEN UNCHANGED <<holds, ids, ports>> ELSE Alloc(c, m.svc)
  /\ TakeAnswer(c, m, IF Found(m.svc) = {} THEN 0 ELSE FreeId)
  /\ UNCHANGED toDev

\* The first of a connection's holdings that a request is about, 0 for none.
Named(c, m) == SelectInSeq(holds[c], LAMBDA h : h.svc = m.svc /\ h.id = m.id)

Release(c, m) ==
  LET which == Named(c, m)
  IN /\ IF which = 0 THEN UNCHANGED <<toDev, holds, ids, ports>>
        ELSE /\ Released(<<holds[c][which]>>)
             /\ holds' = [holds EXCEPT ![c] = RemoveAt(@, which)]
     /\ TakeAnswer(c, m, 0)

\* A message of a service goes out of the port of its id.
Send(c, m) ==
  LET which == Named(c, m)
  IN /\ toDev' = IF which = 0 \/ Found(m.svc) = {} THEN toDev
                 ELSE Append(toDev, Qrtr("DATA", m.svc, Server(m.svc).addr, holds[c][which].port, m.by, m.n, FALSE))
     /\ UNCHANGED <<holds, ids, ports, ask, mine>>

\* What is there is read at once, and two messages are one of a wrong length.
Take(c) ==
  /\ LET m == Head(inbox[c])
     IN IF Len(inbox[c]) > 1 THEN UNCHANGED <<toDev, holds, ids, ports, ask, mine>>
        ELSE \/ m.type = "GET" /\ Get(c, m)
             \/ m.type = "RELEASE" /\ Release(c, m)
             \/ m.type = "VERSION" /\ TakeAnswer(c, m, 0) /\ UNCHANGED <<toDev, holds, ids, ports>>
             \/ m.type = "SVC" /\ Send(c, m)
  /\ inbox' = [inbox EXCEPT ![c] = <<>>] /\ taken' = {}
  /\ UNCHANGED <<phase, open, servers, fromDev, modemVars, faults, life, asked>>

\* The proxy itself answers what is not for a service.
Answers(c) == Len(inbox[c]) = 1 /\ Head(inbox[c]).type # "SVC"

\* The client may have left since poll() reported its message.
Read(c) ==
  /\ phase = "serving" /\ c \in open /\ inbox[c] # <<>>
  /\ IF life[c] = "gone" /\ Answers(c) THEN Killed ELSE Take(c)

-----------------------------------------------------------------------------
(* recv_qrtr_from_dev().                                                   *)

\* handle_server_change(): a removed server stays in the list, for what is
\* taken out is the new entry that was just made.
ServerChange(m) ==
  servers' = IF m.type = "NEW_SERVER" THEN Append(servers, [svc |-> m.svc, addr |-> m.addr]) ELSE servers

\* Variant: a message goes to every connection.
ReceiversAll(m) == open

\* Variant: the port of the modem is compared.
ReceiversBySource(m) == {c \in open : \E i \in 1..Len(holds[c]) : holds[c][i].port = m.addr}

Receivers(m) == {c \in open : \E i \in 1..Len(holds[c]) : holds[c][i].port = m.port}

\* A client takes a message of the service with the number of its request.
Matches(c, m) == ask[c].type = "SVC" /\ ask[c].svc = m.svc /\ ask[c].n = m.n

\* Variant: confirm_rx is not looked at.
ResumeNever(m) == toDev

Resume(m) ==
  IF m.confirm THEN Append(toDev, Qrtr("RESUME_TX", m.svc, m.addr, m.port, 0, 0, FALSE)) ELSE toDev

Data(m) ==
  LET to == {c \in Receivers(m) : Matches(c, m)}
  IN /\ taken' = {<<c, m>> : c \in to}
     /\ ask' = [c \in Client |-> IF c \in to THEN Nothing ELSE ask[c]]
     /\ toDev' = Resume(m)

Pass(m) ==
  /\ \/ m.type = "HELLO" /\ toDev' = Append(toDev, m) /\ taken' = {} /\ UNCHANGED <<servers, ask>>
     \/ m.type \in {"NEW_SERVER", "DEL_SERVER"} /\ ServerChange(m) /\ taken' = {} /\ UNCHANGED <<toDev, ask>>
     \/ m.type = "DATA" /\ Data(m) /\ UNCHANGED servers
  /\ fromDev' = Tail(fromDev)
  /\ UNCHANGED <<phase, open, holds, ids, ports, modemVars, faults, life, inbox, asked, mine>>

\* The message goes to its receivers before it is confirmed.
Breaks(m) == m.type = "DATA" /\ \E c \in Receivers(m) : life[c] = "gone"

FromDev ==
  /\ phase \in {"hello", "serving"} /\ fromDev # <<>>
  /\ LET m == Head(fromDev) IN IF Breaks(m) THEN Killed ELSE Pass(m)

-----------------------------------------------------------------------------
(* The modem.                                                              *)

Announce(type, svc, addr) == Qrtr(type, svc, addr, 1, 0, 0, FALSE)

\* It takes messages in order: a HELLO is answered with its servers, and what
\* is for a server that is gone is lost.
Modem ==
  /\ toDev # <<>>
  /\ LET m == Head(toDev)
     IN /\ fromDev' = IF m.type = "HELLO"
                      THEN fromDev \o SetToSeq({Announce("NEW_SERVER", s, at[s]) : s \in Service})
                      ELSE fromDev
        /\ work' = CASE m.type = "DATA" /\ m.addr = at[m.svc] -> work \cup {m}
                     [] m.type = "DEL_CLIENT" -> {w \in work : w.port # m.port}
                     [] OTHER -> work
        /\ blocked' = IF m.type \in {"RESUME_TX", "DEL_CLIENT"} THEN blocked \ {m.port} ELSE blocked
  /\ toDev' = Tail(toDev) /\ taken' = {}
  /\ UNCHANGED <<phase, proxyVars, at, restarts, faults, clientVars>>

\* It may ask for a confirmation, and sends nothing to the port before it.
Answer(m) ==
  /\ m \in work /\ m.port \notin blocked
  /\ work' = work \ {m}
  /\ \E confirm \in BOOLEAN :
       /\ fromDev' = Append(fromDev, [m EXCEPT !.confirm = confirm])
       /\ blocked' = IF confirm THEN blocked \cup {m.port} ELSE blocked
  /\ taken' = {}
  /\ UNCHANGED <<phase, proxyVars, toDev, at, restarts, faults, clientVars>>

\* A service starts again, at another address.
Restart(svc) ==
  /\ phase \in {"hello", "serving"} /\ restarts > 0 /\ restarts' = restarts - 1
  /\ at' = [at EXCEPT ![svc] = @ + 1]
  /\ work' = {w \in work : w.svc # svc}
  /\ fromDev' = fromDev \o <<Announce("DEL_SERVER", svc, at[svc]), Announce("NEW_SERVER", svc, at[svc] + 1)>>
  /\ taken' = {}
  /\ UNCHANGED <<phase, proxyVars, toDev, blocked, faults, clientVars>>

-----------------------------------------------------------------------------
(* The clients.                                                            *)

Ask(c, type, svc, id) ==
  /\ phase = "serving" /\ life[c] = "in" /\ asked[c] < MaxAsk
  /\ LET m == Qmi(type, svc, id, c, asked[c] + 1)
     IN ask' = [ask EXCEPT ![c] = m] /\ inbox' = [inbox EXCEPT ![c] = Append(@, m)]
  /\ asked' = [asked EXCEPT ![c] = @ + 1]
  /\ mine' = [mine EXCEPT ![c] = IF type = "RELEASE" THEN @ \ {id} ELSE @]
  /\ taken' = {}
  /\ UNCHANGED <<phase, proxyVars, toDev, fromDev, modemVars, faults, life>>

\* A request that timed out is followed by another.
AskAny(c) ==
  \E svc \in Service :
    \/ Ask(c, "VERSION", svc, 0)
    \/ Ask(c, "GET", svc, 0)
    \/ \E id \in mine[c] : Ask(c, "RELEASE", svc, id) \/ Ask(c, "SVC", svc, id)

Leave(c) ==
  /\ life[c] = "in"
  /\ life' = [life EXCEPT ![c] = "gone"]
  /\ ask' = [ask EXCEPT ![c] = Nothing] /\ mine' = [mine EXCEPT ![c] = {}]
  /\ taken' = {}
  /\ UNCHANGED <<phase, proxyVars, toDev, fromDev, modemVars, faults, inbox, asked>>

-----------------------------------------------------------------------------
Session == OpenDevice \/ OpenServer \/ GiveUp \/ DeviceLost
Loop == FromDev \/ \E c \in Client : Accept(c) \/ Cleanup(c) \/ Read(c)
Work == \E m \in work : Answer(m)
Environment == Modem \/ Work \/ (\E s \in Service : Restart(s))
               \/ \E c \in Client : AskAny(c) \/ Leave(c)
Idle == (phase = "dead" \/ \A c \in Client : life[c] = "gone") /\ UNCHANGED vars

Next == Session \/ Loop \/ Environment \/ Idle

Spec == Init /\ [][Next]_vars

\* The loop runs and the modem takes and answers what it is sent.
Fair ==
  /\ WF_vars(FromDev) /\ WF_vars(Modem) /\ WF_vars(Work)
  /\ \A c \in Client : WF_vars(Read(c) \/ Cleanup(c))

FairSpec == Spec /\ Fair

-----------------------------------------------------------------------------
(* Properties.                                                             *)

Held(c) == ToSet(holds[c])

\* What has a client id has it and its port alone, although the bitmap of the
\* ports cannot record the ones above 255 and what got no id has a port too.
OwnPort ==
  /\ \A c \in Client : \A h \in Held(c) : \A d \in Client : \A k \in Held(d) :
       h.id # 0 /\ (h.id = k.id \/ h.port = k.port) => c = d /\ h = k
  /\ \A c \in Client : \A i, j \in 1..Len(holds[c]) : holds[c][i].id # 0 /\ holds[c][i] = holds[c][j] => i = j

\* The bitmaps, which outlive the sessions, say what the connections hold.
Recorded ==
  LET all == UNION {Held(c) : c \in open}
  IN ids = {h.id : h \in all} \ {0} /\ ports = {h.port : h \in all} \cap (1..Byte)

\* The answer a client takes for its own is its own, or was for the client
\* that had its port before.
ToHolder ==
  \A p \in taken : p[2].by = p[1] \/ \A h \in Held(p[2].by) : h.port # p[2].port

\* What these rest on. Connections and what they hold go together; requests are
\* the client's own and about ids it was given; a recorded port has one holder,
\* an id has one, whose port is recorded; and what holds no id leaves as many ports
\* that can be recorded as there are ids.
Connections == (phase # "serving" => open = {}) /\ \A c \in Client \ open : holds[c] = <<>>
OwnRequests ==
  \A c \in Client : \A i \in 1..Len(inbox[c]) :
    inbox[c][i].by = c /\ (inbox[c][i].type \in {"RELEASE", "SVC"} => inbox[c][i].id # 0)
FromRecorded(m) == m.type = "DATA" => m.by \in Client /\ m.port <= Byte
FromHolders ==
  /\ \A i \in 1..Len(toDev) : FromRecorded(toDev[i])
  /\ \A i \in 1..Len(fromDev) : FromRecorded(fromDev[i])
  /\ \A m \in work : FromRecorded(m)
OneHolder ==
  \A c, d \in Client : \A h \in Held(c), k \in Held(d) :
    /\ (h.id # 0 /\ h.id = k.id) \/ (h.port <= Byte /\ h.port = k.port) => c = d /\ h = k
    /\ h.id # 0 => h.port <= Byte
HeldOnce == \A c \in Client : \A i, j \in 1..Len(holds[c]) : holds[c][i].id # 0 /\ holds[c][i] = holds[c][j] => i = j
WithoutId == {p \in 1..Byte : \E c \in Client : \E h \in Held(c) : h.id = 0 /\ h.port = p}
Room == Cardinality(WithoutId) <= Byte - Ids
Restarted == \A s \in Service : at[s] + restarts <= MaxRestarts
HolderInv ==
  /\ TypeOK /\ Connections /\ OwnRequests /\ FromHolders /\ OneHolder /\ HeldOnce /\ Room /\ Recorded /\ Restarted

\* The modem is not left waiting for the confirmation of what it sent, whether a
\* client has the port, or had it and is cleaned up; only the end of the process
\* before it confirms, when the client closed the connection, leaves it waiting.
Blocked(p) == phase # "dead" /\ p \in blocked
Flows == \A p \in 1..Ports : Blocked(p) ~> ~Blocked(p)

\* A request is answered if it came as one message and went to the server
\* that the modem has.
Waits(c, n) ==
  /\ ask[c].n = n /\ inbox[c] = <<ask[c]>> /\ restarts = 0
  /\ Found(ask[c].svc) # {} /\ Server(ask[c].svc).addr = at[ask[c].svc]
  /\ ask[c].type = "SVC" => \E h \in Held(c) : h.id = ask[c].id /\ h.svc = ask[c].svc
Served(c, n) == ask[c].n # n
Answered == \A c \in Client, n \in 1..MaxAsk : Waits(c, n) ~> Served(c, n)
=============================================================================
