------------------------------ MODULE AtcProxy ------------------------------
(***************************************************************************)
(* quectel-atc-proxy.c: connection managers share the AT channel of a      *)
(* modem. One thread polls the connections and runs what one of them sent, *)
(* and the reader of atchannel.c gives every line to the connection of the *)
(* command that runs, when that is known, and to all of them else.         *)
(*                                                                         *)
(* That connection is looked up under the descriptor in pollfds[nevents],  *)
(* one past the entries of the round: a descriptor of an earlier round     *)
(* with more connections, or nothing. An answer stands for the lines of    *)
(* one command; a connection is its descriptor, the lowest that is free.   *)
(***************************************************************************)
EXTENDS Integers, Sequences, FiniteSets, SequencesExt

CONSTANTS
  Fds,       \* descriptors of clients are 1..Fds
  MaxAsk,    \* bound on the requests
  MaxFaults  \* bound on time-outs, departures and losses of the device

VARIABLES
  phase,    \* init, serve (there is a server), dead
  backlog,  \* a client waits for accept()
  conn,     \* atc_proxy_connection, the descriptors in the order of the list
  life,     \* of a descriptor: free, here, left (by its client)
  inbox,    \* what the client sent and nobody has read
  slots,    \* pollfds after the two that are always there
  width,    \* nevents of the round, of clients
  round,    \* the indices of slots that are ready and not handled, 0 for the
            \* server, each with what poll() said of it
  current,  \* current_client_fd, 0 for NULL
  call,     \* at_send_command(): none, wait, woken
  toModem, fromDev,
  n,        \* requests sent
  asking,   \* the client waits for an answer
  owed,     \* its requests that it has heard no answer of
  departed, \* a client has left, or lost its connection
  faults

pollVars == <<conn, life, slots, width, round>>
callVars == <<current, call, toModem, fromDev>>
askVars == <<n, asking, owed>>
vars == <<phase, backlog, pollVars, inbox, callVars, askVars, departed, faults>>

Fd == 1..Fds
Ask == [by : Fd, n : 1..MaxAsk]

TypeOK ==
  /\ phase \in {"init", "serve", "dead"} /\ backlog \in BOOLEAN
  /\ conn \in Seq(Fd) /\ IsInjective(conn) /\ life \in [Fd -> {"free", "here", "left"}]
  /\ inbox \in [Fd -> Seq(Ask)] /\ slots \in [1..Fds + 1 -> 0..Fds] /\ width \in 0..Fds
  /\ round \subseteq [at : 0..Fds, on : {"in", "hup"}]
  /\ current \in 0..Fds /\ call \in {"none", "wait", "woken"}
  /\ toModem \in Seq(Ask) /\ fromDev \in Seq(Ask)
  /\ n \in 0..MaxAsk /\ asking \in [Fd -> BOOLEAN] /\ owed \in [Fd -> SUBSET (1..MaxAsk)]
  /\ departed \in BOOLEAN /\ faults \in 0..MaxFaults
  /\ ToSet(conn) = {c \in Fd : life[c] # "free"}

Init ==
  /\ phase = "init" /\ backlog = FALSE /\ conn = <<>> /\ life = [c \in Fd |-> "free"]
  /\ inbox = [c \in Fd |-> <<>>] /\ slots = [i \in 1..Fds + 1 |-> 0] /\ width = 0 /\ round = {}
  /\ current = 0 /\ call = "none" /\ toModem = <<>> /\ fromDev = <<>>
  /\ n = 0 /\ asking = [c \in Fd |-> FALSE] /\ owed = [c \in Fd |-> {}]
  /\ departed = FALSE /\ faults = MaxFaults

Fault == faults > 0 /\ faults' = faults - 1

\* main(): the server is made after the commands of atc_proxy_init(), when
\* there is nobody yet to hear them.
OpenServer ==
  /\ phase = "init" /\ phase' = "serve"
  /\ UNCHANGED <<backlog, pollVars, inbox, callVars, askVars, departed, faults>>

\* The device hangs up: at_close() ends the command, and all connections go.
DeviceLost ==
  /\ phase = "serve" /\ Fault /\ phase' = "init" /\ departed' = TRUE
  /\ backlog' = FALSE /\ conn' = <<>> /\ life' = [c \in Fd |-> "free"] /\ inbox' = [c \in Fd |-> <<>>]
  /\ round' = {} /\ current' = 0 /\ call' = "none" /\ toModem' = <<>> /\ fromDev' = <<>>
  /\ asking' = [c \in Fd |-> FALSE] /\ owed' = [c \in Fd |-> {}]
  /\ UNCHANGED <<slots, width, n>>

-----------------------------------------------------------------------------
(* atc_proxy_loop().                                                       *)

Idle == phase = "serve" /\ call = "none"

\* What poll() tells of a connection.
Told(c) == IF life[c] = "left" THEN {"hup"} ELSE IF inbox[c] # <<>> THEN {"in"} ELSE {}
Ready ==
  (IF backlog THEN {[at |-> 0, on |-> "in"]} ELSE {})
  \cup {e \in [at : 1..Len(conn), on : {"in", "hup"}] : e.on \in Told(conn[e.at])}
Poll ==
  /\ Idle /\ round = {}
  /\ slots' = [i \in DOMAIN slots |-> IF i <= Len(conn) THEN conn[i] ELSE slots[i]]
  /\ width' = Len(conn)
  /\ round' = Ready /\ round' # {}
  /\ UNCHANGED <<phase, backlog, conn, life, inbox, callVars, askVars, departed, faults>>

\* The entries are handled in their order, the server first.
First == CHOOSE e \in round : \A f \in round : e.at <= f.at
Pending == Idle /\ round # {}
Is(fd, on) == First.on = on /\ fd = IF First.at = 0 THEN 0 ELSE slots[First.at]
Rest == round \ {First}

\* accept_atc_connection()
Accept ==
  /\ Pending /\ Is(0, "in") /\ round' = Rest /\ backlog' = FALSE
  /\ \E c \in Fd :
       /\ life[c] = "free" /\ \A d \in 1..c - 1 : life[d] # "free"
       /\ life' = [life EXCEPT ![c] = "here"] /\ conn' = Append(conn, c)
  /\ UNCHANGED <<phase, inbox, slots, width, callVars, askVars, departed, faults>>

\* cleanup_atc_connection()
Cleanup(c) ==
  /\ life' = [life EXCEPT ![c] = "free"] /\ conn' = RemoveFirst(conn, c)
  /\ inbox' = [inbox EXCEPT ![c] = <<>>]
  /\ UNCHANGED <<phase, backlog, slots, width, callVars, askVars, departed, faults>>

Hup(c) == Pending /\ Is(c, "hup") /\ round' = Rest /\ Cleanup(c)

\* A read() fails of a client that left with something it had not read; the
\* rest of the round is given up.
ReadFails(c) == Pending /\ Is(c, "in") /\ life[c] = "left" /\ round' = {} /\ Cleanup(c)

\* Variant: what came with the first command is thrown away.
WrittenFirst(c) == <<Head(inbox[c])>>

\* All that is there is one command for at_send_command().
Written(c) == inbox[c]

Stale == IF slots[width + 1] \in ToSet(conn) THEN slots[width + 1] ELSE 0

Read(c) ==
  /\ Pending /\ Is(c, "in") /\ round' = Rest
  /\ current' = Stale /\ call' = "wait"
  /\ toModem' = toModem \o Written(c) /\ inbox' = [inbox EXCEPT ![c] = <<>>]
  /\ UNCHANGED <<phase, backlog, conn, life, slots, width, fromDev, askVars, departed, faults>>

\* at_send_command() gives up after 15 seconds, or returns.
Expire ==
  /\ call = "wait" /\ Fault /\ call' = "woken"
  /\ UNCHANGED <<phase, backlog, pollVars, inbox, current, toModem, fromDev, askVars, departed>>
Return ==
  /\ call = "woken" /\ call' = "none" /\ current' = 0
  /\ UNCHANGED <<phase, backlog, pollVars, inbox, toModem, fromDev, askVars, departed, faults>>

-----------------------------------------------------------------------------
(* onUnsolicited(), in the thread of the reader.                           *)

\* Variant: who came last hears it.
ReceiversLast == IF conn = <<>> THEN {} ELSE {Last(conn)}

Receivers == IF current # 0 THEN {current} ELSE ToSet(conn)

\* A client takes the end of any answer for that of its own. A write to one
\* that has left ends the process (SIGPIPE).
Line ==
  /\ phase = "serve" /\ fromDev # <<>> /\ fromDev' = Tail(fromDev)
  /\ IF \E c \in Receivers : life[c] = "left"
     THEN phase' = "dead" /\ UNCHANGED <<asking, owed, call>>
     ELSE /\ asking' = [c \in Fd |-> asking[c] /\ c \notin Receivers]
          /\ owed' = [c \in Fd |-> IF c \in Receivers /\ Head(fromDev).by = c
                                   THEN owed[c] \ {Head(fromDev).n} ELSE owed[c]]
          /\ call' = IF call = "wait" THEN "woken" ELSE call
          /\ UNCHANGED phase
  /\ UNCHANGED <<backlog, pollVars, inbox, current, toModem, n, departed, faults>>

-----------------------------------------------------------------------------
(* The modem and the clients.                                              *)

ProxySame == UNCHANGED <<phase, pollVars, current, call>>

\* The modem answers one command after the other.
Respond ==
  /\ toModem # <<>> /\ toModem' = Tail(toModem) /\ fromDev' = Append(fromDev, Head(toModem))
  /\ ProxySame /\ UNCHANGED <<backlog, inbox, askVars, departed, faults>>

Connect ==
  /\ phase = "serve" /\ ~backlog /\ \E c \in Fd : life[c] = "free"
  /\ backlog' = TRUE
  /\ ProxySame /\ UNCHANGED <<inbox, toModem, fromDev, askVars, departed, faults>>

Send(c) ==
  /\ life[c] = "here" /\ ~asking[c] /\ n < MaxAsk
  /\ n' = n + 1 /\ asking' = [asking EXCEPT ![c] = TRUE] /\ owed' = [owed EXCEPT ![c] = @ \cup {n'}]
  /\ inbox' = [inbox EXCEPT ![c] = Append(@, [by |-> c, n |-> n'])]
  /\ ProxySame /\ UNCHANGED <<backlog, toModem, fromDev, departed, faults>>

Leave(c) ==
  /\ life[c] = "here" /\ Fault /\ life' = [life EXCEPT ![c] = "left"] /\ departed' = TRUE
  /\ asking' = [asking EXCEPT ![c] = FALSE] /\ owed' = [owed EXCEPT ![c] = {}]
  /\ UNCHANGED <<phase, backlog, conn, inbox, slots, width, round, callVars, n>>

Loop == Poll \/ Accept \/ (\E c \in Fd : Hup(c) \/ ReadFails(c) \/ Read(c)) \/ Return
Client == Connect \/ \E c \in Fd : Send(c) \/ Leave(c)
Done == phase = "dead" \/ (n = MaxAsk /\ Idle /\ round = {})
Live == Loop \/ Expire \/ Line \/ Respond \/ Client \/ OpenServer \/ DeviceLost
Next == (phase # "dead" /\ Live) \/ (Done /\ UNCHANGED vars)

Spec == Init /\ [][Next]_vars

\* The threads run and the modem answers.
FairSpec == Spec /\ WF_vars(Loop) /\ WF_vars(Line) /\ WF_vars(Respond)

-----------------------------------------------------------------------------
(* Properties.                                                             *)

\* As long as nobody leaves, pollfds[nevents] is of no connection: what a
\* client was not answered yet is under way, and nothing of it goes to others
\* alone.
InFlight ==
  ~departed => \A c \in Fd : \A k \in owed[c] :
    [by |-> c, n |-> k] \in ToSet(inbox[c]) \cup ToSet(toModem) \cup ToSet(fromDev)

\* What InFlight rests on. As long as nobody leaves connections are only added,
\* so that pollfds[nevents] was never written and all clients hear each line.
AllHere ==
  /\ \A c \in Fd : life[c] # "left"
  /\ \A e \in round : e.on = "in"
  /\ width <= Len(conn) /\ \A i \in width + 1..Fds + 1 : slots[i] = 0
  /\ current = 0
  /\ \A c \in Fd : owed[c] # {} => life[c] = "here"
InFlightInv == TypeOK /\ (~departed => AllHere)

\* A client hears the answer of each of its requests, those included that
\* were sent behind one that was cut short by another's answer.
Waits(c) == owed[c] # {}
Served(c) == owed[c] = {} \/ departed
Answered == \A c \in Fd : Waits(c) ~> Served(c)
=============================================================================
