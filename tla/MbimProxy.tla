------------------------------ MODULE MbimProxy -----------------------------
(***************************************************************************)
(* quectel-mbim-proxy: shares the MBIM device of a modem between several   *)
(* connection managers. A client is a slot, and the number of the slot is  *)
(* put above the 24 bits of the transaction number of its requests, so     *)
(* that the number of an answer tells whose it is. Opening and closing are *)
(* answered by the proxy itself; what has the number 0 goes to everybody.  *)
(*                                                                         *)
(* The process has one thread; what it does for one descriptor is one      *)
(* action. The modem answers in any order. Clients are quectel-CM.         *)
(***************************************************************************)
EXTENDS Integers, Sequences, FiniteSets

CONSTANTS
  Clients,     \* number of clients; each connects once
  Slots,       \* CM_MAX_CLIENT
  Tids,        \* TID_MASK: transaction numbers of a client are 1..Tids
  PipeKills,   \* SIGPIPE has its default action
  MaxAsk,      \* bound on the requests of a client
  MaxNews      \* bound on indications and losses of the device together

Client == 1..Clients

\* A message of a client, by whom it was sent, and the slot bits of its number.
Command == {"OPEN", "COMMAND"}
Message == [type : Command \cup {"INDICATE"}, slot : 0..Slots, tid : 0..Tids, by : 0..Clients, n : 0..MaxAsk]
Nothing == [type |-> "COMMAND", slot |-> 0, tid |-> 0, by |-> 0, n |-> 0]

\* The proxy's own MBIM_OPEN_MSG; a number that is not zero and has no slot.
OwnOpen == [type |-> "OPEN", slot |-> 0, tid |-> 1, by |-> 0, n |-> 0]
Indicate == [type |-> "INDICATE", slot |-> 0, tid |-> 0, by |-> 0, n |-> 0]

VARIABLES
  phase,       \* closed, opening, serving, dead
  slot,        \* cm_clients: the client in each slot, 0: none
  life,        \* of a client: out (not yet connected), in, gone
  inbox,       \* what a client has written and the proxy has not read
  work,        \* the requests the modem has not answered
  fromDev,     \* written by the modem, not yet read by the proxy
  ask,         \* the request a client waits for
  asked,       \* requests a client has made
  taken,       \* answers clients took for the answer to their request, last step
  news

clientVars == <<life, inbox, ask, asked>>
vars == <<phase, slot, clientVars, work, fromDev, taken, news>>

TypeOK ==
  /\ phase \in {"closed", "opening", "serving", "dead"}
  /\ slot \in [1..Slots -> 0..Clients]
  /\ life \in [Client -> {"out", "in", "gone"}]
  /\ inbox \in [Client -> Seq(Message)]
  /\ work \subseteq Message /\ fromDev \in Seq(Message)
  /\ ask \in [Client -> Message] /\ asked \in [Client -> 0..MaxAsk]
  /\ taken \subseteq Client \X Message
  /\ news \in 0..MaxNews

Init ==
  /\ phase = "closed" /\ slot = [s \in 1..Slots |-> 0]
  /\ life = [c \in Client |-> "out"] /\ inbox = [c \in Client |-> <<>>]
  /\ ask = [c \in Client |-> Nothing] /\ asked = [c \in Client |-> 0]
  /\ work = {} /\ fromDev = <<>> /\ taken = {}
  /\ news = MaxNews

Connected == {slot[s] : s \in 1..Slots} \ {0}
SlotOf(c) == CHOOSE s \in 1..Slots : slot[s] = c

-----------------------------------------------------------------------------
(* main() and the ends of proxy_loop().                                    *)

OpenDevice ==
  /\ phase = "closed"
  /\ phase' = "opening" /\ slot' = [s \in 1..Slots |-> 0]
  /\ work' = work \cup {OwnOpen}
  /\ taken' = {}
  /\ UNCHANGED <<clientVars, fromDev, news>>

\* The descriptors are closed, and what was on its way is lost with them.
EndSession(next) ==
  /\ phase' = next
  /\ slot' = [s \in 1..Slots |-> 0]
  /\ life' = [c \in Client |-> IF c \in Connected THEN "gone" ELSE life[c]]
  /\ inbox' = [c \in Client |-> <<>>] /\ ask' = [c \in Client |-> Nothing]
  /\ work' = {} /\ fromDev' = <<>> /\ taken' = {}
  /\ UNCHANGED <<asked>>

\* poll() waits ten seconds for the answer to MBIM_OPEN_MSG.
OpenTimesOut == phase = "opening" /\ fromDev = <<>> /\ EndSession("closed") /\ UNCHANGED news

DeviceLost ==
  /\ phase \in {"opening", "serving"} /\ news > 0
  /\ news' = news - 1 /\ EndSession("closed")

\* The server is made when MBIM_OPEN_DONE reports success; before, other
\* messages are ignored.
OpenDone ==
  /\ phase = "opening" /\ fromDev # <<>>
  /\ IF Head(fromDev).type # "OPEN" THEN phase' = phase /\ UNCHANGED <<slot, clientVars, work>>
     ELSE \/ phase' = "serving" /\ UNCHANGED <<slot, clientVars, work>>
          \/ phase' = "closed" /\ work' = {} /\ UNCHANGED <<slot, clientVars>>
  /\ fromDev' = Tail(fromDev) /\ taken' = {}
  /\ UNCHANGED news

-----------------------------------------------------------------------------
(* Clients: handle_client_connect(), _request(), _disconnect().            *)

LowestFree(s) == slot[s] = 0 /\ \A r \in 1..(s - 1) : slot[r] # 0

\* Without a free slot the connection is closed at once.
Accept(c) ==
  /\ phase = "serving" /\ life[c] = "out"
  /\ \/ /\ \E s \in 1..Slots : LowestFree(s) /\ slot' = [slot EXCEPT ![s] = c]
        /\ life' = [life EXCEPT ![c] = "in"]
     \/ /\ \A s \in 1..Slots : slot[s] # 0
        /\ life' = [life EXCEPT ![c] = "gone"] /\ UNCHANGED slot
  /\ taken' = {}
  /\ UNCHANGED <<phase, inbox, ask, asked, work, fromDev, news>>

\* write() to a connection its client has closed.
Breaks(c) == PipeKills /\ life[c] = "gone"

\* A client takes what has the number of its request for the answer.
Answers(c, tid) == ask[c] # Nothing /\ tid = ask[c].tid

Deliver(to, m) ==
  /\ taken' = {<<c, m>> : c \in {d \in to : Answers(d, m.tid)}}
  /\ ask' = [c \in Client |-> IF c \in to /\ Answers(c, m.tid) THEN Nothing ELSE ask[c]]

\* Variant: the number of a request goes to the modem as the client chose it.
TagNone(m, c) == m

\* TransactionId | (client_idx << TID_SHIFT)
Tag(m, c) == [m EXCEPT !.slot = SlotOf(c)]

\* The socket is a stream, and what is there is read as one message: the
\* modem takes the first, and what follows it is lost.
Read(c) ==
  /\ phase = "serving" /\ c \in Connected /\ inbox[c] # <<>>
  /\ LET m == Head(inbox[c])
     IN IF m.type = "OPEN"
        THEN IF Breaks(c) THEN EndSession("dead")
             ELSE /\ Deliver({c}, m)
                  /\ inbox' = [inbox EXCEPT ![c] = <<>>]
                  /\ UNCHANGED <<phase, slot, life, asked, work, fromDev>>
        ELSE /\ work' = work \cup {Tag(m, c)}
             /\ inbox' = [inbox EXCEPT ![c] = <<>>]
             /\ taken' = {}
             /\ UNCHANGED <<phase, slot, life, ask, asked, fromDev>>
  /\ UNCHANGED news

\* poll() reports the end of the connection before what may still be there.
Disconnect(c) ==
  /\ phase = "serving" /\ c \in Connected /\ life[c] = "gone"
  /\ slot' = [slot EXCEPT ![SlotOf(c)] = 0]
  /\ inbox' = [inbox EXCEPT ![c] = <<>>] /\ taken' = {}
  /\ UNCHANGED <<phase, life, ask, asked, work, fromDev, news>>

-----------------------------------------------------------------------------
(* Messages of the device: handle_device_response().                       *)

\* Variant: the slot is not looked at, so everybody gets every answer.
SenderAll(m) == Connected

\* "try to find the sender"; 0 goes to all.
Sender(m) ==
  IF m.tid = 0 THEN Connected ELSE {c \in Connected : SlotOf(c) = m.slot}

FromDev ==
  /\ phase = "serving" /\ fromDev # <<>>
  /\ LET m == Head(fromDev)
         to == Sender(m)
     IN IF \E c \in to : Breaks(c) THEN EndSession("dead")
        ELSE /\ Deliver(to, m)
             /\ fromDev' = Tail(fromDev)
             /\ UNCHANGED <<phase, slot, life, inbox, asked, work>>
  /\ UNCHANGED news

-----------------------------------------------------------------------------
(* The modem.                                                              *)

Answer(m) ==
  /\ m \in work
  /\ work' = work \ {m} /\ fromDev' = Append(fromDev, m)
  /\ taken' = {}
  /\ UNCHANGED <<phase, slot, clientVars, news>>

Indication ==
  /\ phase = "serving" /\ news > 0
  /\ news' = news - 1 /\ fromDev' = Append(fromDev, Indicate)
  /\ taken' = {}
  /\ UNCHANGED <<phase, slot, clientVars, work>>

-----------------------------------------------------------------------------
(* The clients: mbim_send_command() and the end of mbim_read_thread().     *)

\* Variant: the numbers go on beyond 24 bits.
NumberOn(k) == [slot |-> 0, tid |-> k]

\* "quectel-mbim-proxy need 0xFF000000 to indicat client"
Number(k) == [slot |-> 0, tid |-> ((k - 1) % Tids) + 1]

\* A client opens first. A request that timed out is followed by another.
Ask(c) ==
  /\ phase = "serving" /\ life[c] = "in" /\ asked[c] < MaxAsk
  /\ LET k == asked[c] + 1
         m == [type |-> IF k = 1 THEN "OPEN" ELSE "COMMAND", slot |-> Number(k).slot,
               tid |-> Number(k).tid, by |-> c, n |-> k]
     IN /\ ask' = [ask EXCEPT ![c] = m]
        /\ inbox' = [inbox EXCEPT ![c] = Append(@, m)]
        /\ asked' = [asked EXCEPT ![c] = k]
  /\ taken' = {}
  /\ UNCHANGED <<phase, slot, life, work, fromDev, news>>

Leave(c) ==
  /\ life[c] = "in"
  /\ life' = [life EXCEPT ![c] = "gone"] /\ ask' = [ask EXCEPT ![c] = Nothing]
  /\ taken' = {}
  /\ UNCHANGED <<phase, slot, inbox, asked, work, fromDev, news>>

-----------------------------------------------------------------------------
Session == OpenDevice \/ OpenTimesOut \/ DeviceLost \/ OpenDone
Loop == FromDev \/ \E c \in Client : Accept(c) \/ Read(c) \/ Disconnect(c)
Work == \E m \in work : Answer(m)
Environment == Work \/ Indication \/ \E c \in Client : Ask(c) \/ Leave(c)
Stopped == (phase = "dead" \/ \A c \in Client : life[c] = "gone") /\ UNCHANGED vars

Next == Session \/ Loop \/ Environment \/ Stopped

Spec == Init /\ [][Next]_vars

\* The loop runs and the modem answers.
Fair ==
  /\ WF_vars(FromDev) /\ WF_vars(Work)
  /\ \A c \in Client : WF_vars(Read(c) \/ Disconnect(c))

FairSpec == Spec /\ Fair

-----------------------------------------------------------------------------
(* Properties.                                                             *)

\* The answer a client takes for its own is its own, or the late answer to a
\* client that left and whose slot it has: handle_device_response() never
\* gives the answer of a client that is there to another one.
ToHolder == \A p \in taken : p[2].by \in {0, p[1]} \/ life[p[2].by] = "gone"

\* What ToHolder rests on: slots are filled only while there is a server; a
\* client writes requests of its own, with numbers that are not 0; and the
\* slot in a number is that of its client until the client leaves.
EmptySlots == phase \in {"closed", "opening"} => \A s \in 1..Slots : slot[s] = 0
OwnInbox == \A c \in Client : \A i \in 1..Len(inbox[c]) : inbox[c][i].by = c
Numbered == \A c \in Client : ask[c] # Nothing => ask[c].tid # 0
Routed(m) == m.by # 0 => life[m.by] = "gone" \/ (m.slot # 0 /\ slot[m.slot] = m.by)
Routable == (\A m \in work : Routed(m)) /\ \A i \in 1..Len(fromDev) : Routed(fromDev[i])
HolderInv == TypeOK /\ EmptySlots /\ OwnInbox /\ Numbered /\ Routable

\* A request that reached the proxy as one message is answered, whatever
\* other clients ask and whenever they leave, unless the client gives it up or
\* its connection ends: with the device, or with the process by a SIGPIPE.
Waits(c, n) == ask[c].n = n /\ inbox[c] = <<ask[c]>>
Served(c, n) == ask[c].n # n
Answered == \A c \in Client, n \in 1..MaxAsk : Waits(c, n) ~> Served(c, n)
=============================================================================
