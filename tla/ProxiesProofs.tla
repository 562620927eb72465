---------------------------- MODULE ProxiesProofs ----------------------------
(***************************************************************************)
(* Theorems about the proxies for MBIM, QRTR and AT, for any number of     *)
(* clients. The variables v1, v2, ... are those of the proxy that runs, in *)
(* the order that MCProxies gives.                                         *)
(***************************************************************************)
EXTENDS MCProxies, Lists

-----------------------------------------------------------------------------
(* quectel-mbim-proxy. slot is v2, life v3, inbox v4, work v5, fromDev v6, *)
(* ask v7, asked v8, taken v9.                                             *)

\* A client with a connection is in its slot.
LEMMA InItsSlot ==
  ASSUME Mbim!TypeOK, NEW c \in Mbim!Connected
  PROVE  c \in Mbim!Client /\ Mbim!SlotOf(c) \in 1..Slots /\ v2[Mbim!SlotOf(c)] = c
<1>1. \E s \in 1..Slots : v2[s] = c
  BY DEF Mbim!Connected
<1>2. Mbim!SlotOf(c) \in 1..Slots /\ v2[Mbim!SlotOf(c)] = c
  BY <1>1 DEF Mbim!SlotOf
<1>3. c \in 0..MbimClients /\ c # 0
  BY <1>2 DEF Mbim!TypeOK, Mbim!Connected
<1>4. QED
  BY <1>2, <1>3, MbimAssumption DEF Mbim!Client

\* The proxy's own messages are messages that are nobody's.
LEMMA OwnMessages ==
  /\ Mbim!OwnOpen \in Mbim!Message /\ Mbim!OwnOpen.by = 0
  /\ Mbim!Indicate \in Mbim!Message /\ Mbim!Indicate.by = 0
  /\ Mbim!Nothing \in Mbim!Message /\ Mbim!Nothing.by = 0
  BY MbimAssumption DEF Mbim!OwnOpen, Mbim!Indicate, Mbim!Nothing, Mbim!Message, Mbim!Command

\* What a message is: who sent it is nobody or a client.
LEMMA SentBy ==
  ASSUME NEW m \in Mbim!Message
  PROVE  /\ m.by \in 0..MbimClients /\ (m.by # 0 => m.by \in Mbim!Client)
         /\ m.slot \in 0..Slots /\ (m.slot # 0 => m.slot \in 1..Slots)
         /\ m.tid \in 0..Tids
  BY MbimAssumption DEF Mbim!Message, Mbim!Client

\* Clients stop waiting, or go on waiting for the same.
LEMMA Delivered ==
  ASSUME Mbim!TypeOK, Mbim!Numbered, NEW to \in SUBSET Mbim!Client, NEW m \in Mbim!Message,
         Mbim!Deliver(to, m)
  PROVE  /\ v7' \in [Mbim!Client -> Mbim!Message] /\ v9' \subseteq Mbim!Client \X Mbim!Message
         /\ Mbim!Numbered'
         /\ \A p \in v9' : p[1] \in to /\ p[2] = m /\ m.tid # 0
<1>1. v7' = [c \in Mbim!Client |-> IF c \in to /\ Mbim!Answers(c, m.tid) THEN Mbim!Nothing ELSE v7[c]]
  BY DEF Mbim!Deliver
<1>2. v7 \in [Mbim!Client -> Mbim!Message]
  BY DEF Mbim!TypeOK
<1>3. v7' \in [Mbim!Client -> Mbim!Message]
  BY <1>1, <1>2, OwnMessages
<1>4. Mbim!Numbered'
  BY <1>1 DEF Mbim!Numbered
<1>5. v9' = {<<c, m>> : c \in {d \in to : Mbim!Answers(d, m.tid)}}
  BY DEF Mbim!Deliver
<1>6. v9' \subseteq Mbim!Client \X Mbim!Message
  BY <1>5
<1>7. ASSUME NEW p \in v9' PROVE p[1] \in to /\ p[2] = m /\ m.tid # 0
  <2>1. PICK c \in to : Mbim!Answers(c, m.tid) /\ p = <<c, m>>
    BY <1>5, <1>7
  <2>2. m.tid # 0
    BY <2>1 DEF Mbim!Answers, Mbim!Numbered
  <2>3. QED
    BY <2>1, <2>2
<1>8. QED
  BY <1>3, <1>4, <1>6, <1>7

\* What a message of the modem says of its client does not change while slots
\* and connections do not.
LEMMA StaysRoutable ==
  ASSUME Mbim!Routable, UNCHANGED <<v2, v3, v5, v6>>
  PROVE  Mbim!Routable'
  BY DEF Mbim!Routable, Mbim!Routed

\* The end of a session: nothing is on its way any more.
LEMMA MbimEnds ==
  ASSUME Mbim!HolderInv, NEW next \in {"closed", "dead"}, Mbim!EndSession(next), v10' \in 0..MaxNews
  PROVE  Mbim!HolderInv' /\ v9' = {}
<1>1. Mbim!TypeOK
  BY DEF Mbim!HolderInv
<1>2. /\ v1' = next /\ v2' = [s \in 1..Slots |-> 0]
      /\ v3' = [c \in Mbim!Client |-> IF c \in Mbim!Connected THEN "gone" ELSE v3[c]]
      /\ v4' = [c \in Mbim!Client |-> <<>>] /\ v7' = [c \in Mbim!Client |-> Mbim!Nothing]
      /\ v5' = {} /\ v6' = <<>> /\ v9' = {} /\ v8' = v8
  BY DEF Mbim!EndSession
<1>3. Mbim!TypeOK'
  <2>1. <<>> \in Seq(Mbim!Message)
    OBVIOUS
  <2>2. 0 \in 0..MbimClients
    BY MbimAssumption
  <2>3. v3' \in [Mbim!Client -> {"out", "in", "gone"}] /\ v4' \in [Mbim!Client -> Seq(Mbim!Message)]
    BY <1>1, <1>2, <2>1 DEF Mbim!TypeOK
  <2>4. QED
    BY <1>1, <1>2, <2>1, <2>2, <2>3, OwnMessages DEF Mbim!TypeOK
<1>4. Mbim!EmptySlots'
  BY <1>2 DEF Mbim!EmptySlots
<1>5. Mbim!OwnInbox'
  BY <1>2 DEF Mbim!OwnInbox
<1>6. Mbim!Numbered'
  BY <1>2 DEF Mbim!Numbered
<1>7. Mbim!Routable'
  BY <1>2 DEF Mbim!Routable
<1>8. QED
  BY <1>2, <1>3, <1>4, <1>5, <1>6, <1>7 DEF Mbim!HolderInv

\* main() and qmi_proxy_init(): the device is opened and the answer awaited.
LEMMA MbimSession ==
  ASSUME Mbim!HolderInv, Mbim!Session
  PROVE  Mbim!HolderInv' /\ v9' = {}
<1>1. Mbim!TypeOK /\ Mbim!EmptySlots /\ Mbim!OwnInbox /\ Mbim!Numbered /\ Mbim!Routable
  BY DEF Mbim!HolderInv
<1>2. CASE Mbim!OpenDevice
  <2>1. Mbim!TypeOK'
    <3>1. v2' \in [1..Slots -> 0..MbimClients]
      BY <1>2, MbimAssumption DEF Mbim!OpenDevice
    <3>2. QED
      BY <1>1, <1>2, <3>1, OwnMessages DEF Mbim!OpenDevice, Mbim!clientVars, Mbim!TypeOK
  <2>2. Mbim!EmptySlots' /\ Mbim!OwnInbox' /\ Mbim!Numbered'
    BY <1>1, <1>2 DEF Mbim!OpenDevice, Mbim!clientVars, Mbim!EmptySlots, Mbim!OwnInbox, Mbim!Numbered
  <2>3. ASSUME NEW m \in Mbim!Message, Mbim!Routed(m) PROVE Mbim!Routed(m)'
    BY <1>1, <1>2, <2>3, SentBy DEF Mbim!OpenDevice, Mbim!clientVars, Mbim!EmptySlots, Mbim!Routed
  <2>4. Mbim!Routable'
    <3>1. \A m \in v5 : m \in Mbim!Message
      BY <1>1 DEF Mbim!TypeOK
    <3>2. \A i \in 1..Len(v6) : v6[i] \in Mbim!Message
      BY <1>1, ElementType DEF Mbim!TypeOK
    <3>3. v5' = v5 \cup {Mbim!OwnOpen} /\ v6' = v6
      BY <1>2 DEF Mbim!OpenDevice
    <3>4. Mbim!Routed(Mbim!OwnOpen)'
      BY OwnMessages DEF Mbim!Routed, Mbim!OwnOpen
    <3>5. QED
      BY <1>1, <2>3, <3>1, <3>2, <3>3, <3>4 DEF Mbim!Routable
  <2>5. QED
    BY <1>2, <2>1, <2>2, <2>4 DEF Mbim!HolderInv, Mbim!OpenDevice
<1>3. CASE Mbim!OpenTimesOut \/ Mbim!DeviceLost
  <2>1. v10' \in 0..MaxNews
    BY <1>1, <1>3, MbimAssumption DEF Mbim!TypeOK, Mbim!OpenTimesOut, Mbim!DeviceLost
  <2>2. Mbim!EndSession("closed")
    BY <1>3 DEF Mbim!OpenTimesOut, Mbim!DeviceLost
  <2>3. QED
    BY <2>1, <2>2, MbimEnds
<1>4. CASE Mbim!OpenDone
  <2>1. /\ v6 \in Seq(Mbim!Message) /\ v6 # <<>> /\ v6' = Tail(v6) /\ v5' \in {v5, {}}
        /\ v1' \in {"opening", "serving", "closed"} /\ v1 = "opening" /\ v9' = {}
        /\ UNCHANGED <<v2, v3, v4, v7, v8, v10>>
    BY <1>1, <1>4 DEF Mbim!TypeOK, Mbim!OpenDone, Mbim!clientVars
  <2>2. /\ v6' \in Seq(Mbim!Message) /\ Len(v6) \in Nat /\ Len(v6') = Len(v6) - 1
        /\ \A i \in 1..Len(v6) - 1 : v6'[i] = v6[i + 1]
    BY <2>1, HeadAndTail
  <2>3. Mbim!TypeOK'
    BY <1>1, <2>1, <2>2 DEF Mbim!TypeOK
  <2>4. Mbim!EmptySlots' /\ Mbim!OwnInbox' /\ Mbim!Numbered'
    BY <1>1, <2>1 DEF Mbim!EmptySlots, Mbim!OwnInbox, Mbim!Numbered
  <2>5. Mbim!Routable'
    BY <1>1, <2>1, <2>2 DEF Mbim!Routable, Mbim!Routed
  <2>6. QED
    BY <2>1, <2>3, <2>4, <2>5 DEF Mbim!HolderInv
<1>5. QED
  BY <1>2, <1>3, <1>4 DEF Mbim!Session

\* handle_client_connect(): the slot that is taken was free, and no message
\* was the client's before.
LEMMA MbimAccept ==
  ASSUME Mbim!HolderInv, NEW c \in Mbim!Client, Mbim!Accept(c)
  PROVE  Mbim!HolderInv' /\ v9' = {}
<1>1. Mbim!TypeOK /\ Mbim!EmptySlots /\ Mbim!OwnInbox /\ Mbim!Numbered /\ Mbim!Routable
  BY DEF Mbim!HolderInv
<1>2. /\ v1 = "serving" /\ v3[c] = "out" /\ v9' = {}
      /\ UNCHANGED <<v1, v4, v7, v8, v5, v6, v10>>
      /\ \E life \in {"in", "gone"} : v3' = [v3 EXCEPT ![c] = life]
      /\ (v2' = v2 \/ \E s \in 1..Slots : v2[s] = 0 /\ v2' = [v2 EXCEPT ![s] = c])
  <2>1. v1 = "serving" /\ v3[c] = "out" /\ v9' = {} /\ UNCHANGED <<v1, v4, v7, v8, v5, v6, v10>>
    BY DEF Mbim!Accept
  <2>2. \/ /\ \E s \in 1..Slots : v2[s] = 0 /\ v2' = [v2 EXCEPT ![s] = c]
           /\ v3' = [v3 EXCEPT ![c] = "in"]
        \/ v3' = [v3 EXCEPT ![c] = "gone"] /\ v2' = v2
    <3>1. \A s : Mbim!LowestFree(s) => v2[s] = 0
      BY DEF Mbim!LowestFree
    <3>2. QED
      BY <3>1, Zenon DEF Mbim!Accept
  <2>3. QED
    BY <2>1, <2>2, Zenon
<1>3. c \in 0..MbimClients
  BY MbimAssumption DEF Mbim!Client
<1>4. v3' \in [Mbim!Client -> {"out", "in", "gone"}] /\ v2' \in [1..Slots -> 0..MbimClients]
  BY <1>1, <1>2, <1>3 DEF Mbim!TypeOK
<1>5. Mbim!TypeOK'
  BY <1>1, <1>2, <1>4 DEF Mbim!TypeOK
<1>6. Mbim!EmptySlots' /\ Mbim!OwnInbox' /\ Mbim!Numbered'
  BY <1>1, <1>2 DEF Mbim!EmptySlots, Mbim!OwnInbox, Mbim!Numbered
<1>7. ASSUME NEW m \in Mbim!Message, Mbim!Routed(m) PROVE Mbim!Routed(m)'
  <2>1. CASE m.by # 0
    <3>1. m.by \in Mbim!Client /\ m.slot \in 0..Slots
      BY <2>1, SentBy
    <3>2. CASE v3[m.by] = "gone"
      <4>1. v3'[m.by] = "gone"
        BY <1>1, <1>2, <3>1, <3>2 DEF Mbim!TypeOK
      <4>2. QED
        BY <4>1 DEF Mbim!Routed
    <3>3. CASE m.slot # 0 /\ v2[m.slot] = m.by
      <4>1. m.slot \in 1..Slots
        BY <3>3, SentBy
      <4>2. v2'[m.slot] = m.by
        BY <1>1, <1>2, <2>1, <3>3, <4>1 DEF Mbim!TypeOK
      <4>3. QED
        BY <3>3, <4>2 DEF Mbim!Routed
    <3>4. QED
      BY <1>7, <2>1, <3>2, <3>3 DEF Mbim!Routed
  <2>2. QED
    BY <2>1 DEF Mbim!Routed
<1>8. Mbim!Routable'
  <2>1. (\A m \in v5 : m \in Mbim!Message) /\ \A i \in 1..Len(v6) : v6[i] \in Mbim!Message
    BY <1>1, ElementType DEF Mbim!TypeOK
  <2>2. QED
    BY <1>1, <1>2, <1>7, <2>1 DEF Mbim!Routable
<1>9. QED
  BY <1>2, <1>5, <1>6, <1>8 DEF Mbim!HolderInv

\* handle_client_disconnect(): the messages of the slot's client are those of
\* one that left; the slots of others stay.
LEMMA MbimDisconnect ==
  ASSUME Mbim!HolderInv, NEW c \in Mbim!Client, Mbim!Disconnect(c)
  PROVE  Mbim!HolderInv' /\ v9' = {}
<1>1. Mbim!TypeOK /\ Mbim!EmptySlots /\ Mbim!OwnInbox /\ Mbim!Numbered /\ Mbim!Routable
  BY DEF Mbim!HolderInv
<1>2. /\ v1 = "serving" /\ v3[c] = "gone" /\ c \in Mbim!Connected /\ v9' = {}
      /\ UNCHANGED <<v1, v3, v7, v8, v5, v6, v10>>
      /\ v2' = [v2 EXCEPT ![Mbim!SlotOf(c)] = 0]
      /\ v4' = [v4 EXCEPT ![c] = <<>>]
  BY DEF Mbim!Disconnect
<1>3. Mbim!SlotOf(c) \in 1..Slots /\ v2[Mbim!SlotOf(c)] = c
  BY <1>1, <1>2, InItsSlot
<1>4. v2' \in [1..Slots -> 0..MbimClients]
  BY <1>1, <1>2, <1>3, MbimAssumption DEF Mbim!TypeOK
<1>5. v4' \in [Mbim!Client -> Seq(Mbim!Message)]
  <2>1. <<>> \in Seq(Mbim!Message)
    OBVIOUS
  <2>2. QED
    BY <1>1, <1>2, <2>1 DEF Mbim!TypeOK
<1>6. Mbim!TypeOK'
  BY <1>1, <1>2, <1>4, <1>5 DEF Mbim!TypeOK
<1>7. Mbim!EmptySlots' /\ Mbim!Numbered'
  BY <1>1, <1>2 DEF Mbim!EmptySlots, Mbim!Numbered
<1>8. Mbim!OwnInbox'
  BY <1>1, <1>2 DEF Mbim!OwnInbox, Mbim!TypeOK
<1>9. ASSUME NEW m \in Mbim!Message, Mbim!Routed(m) PROVE Mbim!Routed(m)'
  <2>1. m.by # 0 => m.by \in Mbim!Client /\ m.slot \in 0..Slots
    BY SentBy
  <2>2. m.slot # 0 => m.slot \in 1..Slots
    BY SentBy
  <2>3. CASE m.by # c
    BY <1>1, <1>2, <1>3, <1>9, <2>1, <2>2, <2>3 DEF Mbim!Routed, Mbim!TypeOK
  <2>4. CASE m.by = c
    BY <1>2, <2>4 DEF Mbim!Routed
  <2>5. QED
    BY <2>3, <2>4
<1>10. Mbim!Routable'
  <2>1. (\A m \in v5 : m \in Mbim!Message) /\ \A i \in 1..Len(v6) : v6[i] \in Mbim!Message
    BY <1>1, ElementType DEF Mbim!TypeOK
  <2>2. QED
    BY <1>1, <1>2, <1>9, <2>1 DEF Mbim!Routable
<1>11. QED
  BY <1>2, <1>6, <1>7, <1>8, <1>10 DEF Mbim!HolderInv

\* handle_client_request(): a request goes to the modem with the slot of its
\* client; MBIM_OPEN and what follows it are answered here.
LEMMA MbimRead ==
  ASSUME Mbim!HolderInv, NEW c \in Mbim!Client, Mbim!Read(c)
  PROVE  Mbim!HolderInv' /\ Mbim!ToHolder'
<1> DEFINE m == Head(v4[c])
<1>1. Mbim!TypeOK /\ Mbim!EmptySlots /\ Mbim!OwnInbox /\ Mbim!Numbered /\ Mbim!Routable
  BY DEF Mbim!HolderInv
<1>2. v1 = "serving" /\ c \in Mbim!Connected /\ v4[c] # <<>> /\ v10' = v10
  BY DEF Mbim!Read
<1>3. v4[c] \in Seq(Mbim!Message)
  BY <1>1 DEF Mbim!TypeOK
<1>4. m \in Mbim!Message /\ m.by = c
  <2>1. m = v4[c][1] /\ 1 \in 1..Len(v4[c]) /\ m \in Mbim!Message
    BY <1>2, <1>3, HeadAndTail
  <2>2. v4[c][1].by = c
    BY <1>1, <2>1 DEF Mbim!OwnInbox
  <2>3. QED
    BY <2>1, <2>2
<1>5. CASE Mbim!EndSession("dead")
  <2>1. v10' \in 0..MaxNews
    BY <1>1, <1>2 DEF Mbim!TypeOK
  <2>2. QED
    BY <1>5, <2>1, MbimEnds DEF Mbim!ToHolder
<1>6. <<>> \in Seq(Mbim!Message)
  OBVIOUS
<1>7. CASE /\ Mbim!Deliver({c}, m) /\ v4' = [v4 EXCEPT ![c] = <<>>]
           /\ UNCHANGED <<v1, v2, v3, v8, v5, v6>>
  <2>1. /\ v7' \in [Mbim!Client -> Mbim!Message] /\ v9' \subseteq Mbim!Client \X Mbim!Message
        /\ Mbim!Numbered' /\ \A p \in v9' : p[1] = c /\ p[2] = m
    <3>1. {c} \in SUBSET Mbim!Client
      OBVIOUS
    <3>2. QED
      BY <1>1, <1>4, <1>7, <3>1, Delivered
  <2>2. v4' \in [Mbim!Client -> Seq(Mbim!Message)] /\ Mbim!OwnInbox'
    BY <1>1, <1>6, <1>7 DEF Mbim!TypeOK, Mbim!OwnInbox
  <2>3. Mbim!TypeOK'
    BY <1>1, <1>2, <1>7, <2>1, <2>2 DEF Mbim!TypeOK
  <2>4. Mbim!EmptySlots' /\ Mbim!Routable'
    BY <1>1, <1>7, StaysRoutable DEF Mbim!EmptySlots
  <2>5. Mbim!ToHolder'
    BY <1>4, <2>1 DEF Mbim!ToHolder
  <2>6. QED
    BY <2>1, <2>2, <2>3, <2>4, <2>5 DEF Mbim!HolderInv
<1>8. CASE /\ v5' = v5 \cup {Mbim!Tag(m, c)} /\ v4' = [v4 EXCEPT ![c] = <<>>] /\ v9' = {}
           /\ UNCHANGED <<v1, v2, v3, v7, v8, v6>>
  <2>1. Mbim!SlotOf(c) \in 1..Slots /\ v2[Mbim!SlotOf(c)] = c
    BY <1>1, <1>2, InItsSlot
  <2>2. /\ Mbim!Tag(m, c) \in Mbim!Message /\ Mbim!Tag(m, c).by = c
        /\ Mbim!Tag(m, c).slot = Mbim!SlotOf(c)
    <3>1. Mbim!SlotOf(c) \in 0..Slots
      BY <2>1, MbimAssumption
    <3>2. QED
      BY <1>4, <3>1 DEF Mbim!Tag, Mbim!Message
  <2>3. v4' \in [Mbim!Client -> Seq(Mbim!Message)] /\ Mbim!OwnInbox'
    BY <1>1, <1>6, <1>8 DEF Mbim!TypeOK, Mbim!OwnInbox
  <2>4. Mbim!TypeOK'
    BY <1>1, <1>2, <1>8, <2>2, <2>3 DEF Mbim!TypeOK
  <2>5. Mbim!EmptySlots' /\ Mbim!Numbered'
    BY <1>1, <1>8 DEF Mbim!EmptySlots, Mbim!Numbered
  <2>6. Mbim!Routed(Mbim!Tag(m, c))
    BY <2>1, <2>2 DEF Mbim!Routed
  <2>7. Mbim!Routable'
    BY <1>1, <1>8, <2>6 DEF Mbim!Routable, Mbim!Routed
  <2>8. QED
    BY <1>8, <2>3, <2>4, <2>5, <2>7 DEF Mbim!HolderInv, Mbim!ToHolder
<1>9. QED
  BY <1>5, <1>7, <1>8 DEF Mbim!Read

\* handle_device_response(): the client in the slot of an answer is the one
\* that asked, unless that one left.
LEMMA MbimFromDev ==
  ASSUME Mbim!HolderInv, Mbim!FromDev
  PROVE  Mbim!HolderInv' /\ Mbim!ToHolder'
<1> DEFINE m == Head(v6)
           to == Mbim!Sender(m)
<1>1. Mbim!TypeOK /\ Mbim!EmptySlots /\ Mbim!OwnInbox /\ Mbim!Numbered /\ Mbim!Routable
  BY DEF Mbim!HolderInv
<1>2. v1 = "serving" /\ v6 # <<>> /\ v6 \in Seq(Mbim!Message) /\ v10' = v10
  BY <1>1 DEF Mbim!FromDev, Mbim!TypeOK
<1>3. /\ m \in Mbim!Message /\ m = v6[1] /\ Len(v6) \in Nat \ {0}
      /\ Tail(v6) \in Seq(Mbim!Message) /\ Len(Tail(v6)) = Len(v6) - 1
      /\ \A i \in 1..Len(v6) - 1 : Tail(v6)[i] = v6[i + 1]
  BY <1>2, HeadAndTail
<1>4. CASE Mbim!EndSession("dead")
  <2>1. v10' \in 0..MaxNews
    BY <1>1, <1>2 DEF Mbim!TypeOK
  <2>2. QED
    BY <1>4, <2>1, MbimEnds DEF Mbim!ToHolder
<1>5. CASE /\ Mbim!Deliver(to, m) /\ v6' = Tail(v6)
           /\ UNCHANGED <<v1, v2, v3, v4, v8, v5>>
  <2>1. to \in SUBSET Mbim!Client /\ to \subseteq Mbim!Connected
    BY <1>1, InItsSlot DEF Mbim!Sender
  <2>2. /\ v7' \in [Mbim!Client -> Mbim!Message] /\ v9' \subseteq Mbim!Client \X Mbim!Message
        /\ Mbim!Numbered' /\ \A p \in v9' : p[1] \in to /\ p[2] = m /\ m.tid # 0
    BY <1>1, <1>3, <1>5, <2>1, Delivered
  <2>3. Mbim!TypeOK'
    BY <1>1, <1>2, <1>3, <1>5, <2>2 DEF Mbim!TypeOK
  <2>4. Mbim!EmptySlots' /\ Mbim!OwnInbox'
    BY <1>1, <1>5 DEF Mbim!EmptySlots, Mbim!OwnInbox
  <2>5. Mbim!Routable'
    BY <1>1, <1>3, <1>5 DEF Mbim!Routable, Mbim!Routed
  <2>6. Mbim!Routed(m)
    BY <1>1, <1>3 DEF Mbim!Routable
  <2>7. Mbim!ToHolder'
    <3>1. SUFFICES ASSUME NEW p \in v9' PROVE p[2].by \in {0, p[1]} \/ v3'[p[2].by] = "gone"
      BY DEF Mbim!ToHolder
    <3>2. p[1] \in to /\ p[2] = m /\ m.tid # 0
      BY <2>2
    <3>3. p[1] \in Mbim!Connected /\ Mbim!SlotOf(p[1]) = m.slot
      BY <3>2 DEF Mbim!Sender
    <3>4. v2[m.slot] = p[1]
      BY <1>1, <3>3, InItsSlot
    <3>5. QED
      BY <1>5, <2>6, <3>2, <3>4 DEF Mbim!Routed
  <2>8. QED
    BY <2>2, <2>3, <2>4, <2>5, <2>7 DEF Mbim!HolderInv
<1>6. QED
  BY <1>4, <1>5 DEF Mbim!FromDev

\* The modem: what it sends was on its way before, or is nobody's.
LEMMA MbimModem ==
  ASSUME Mbim!HolderInv, Mbim!Work \/ Mbim!Indication
  PROVE  Mbim!HolderInv' /\ v9' = {}
<1>1. Mbim!TypeOK /\ Mbim!EmptySlots /\ Mbim!OwnInbox /\ Mbim!Numbered /\ Mbim!Routable
  BY DEF Mbim!HolderInv
<1>2. \E m \in Mbim!Message :
        /\ Mbim!Routed(m) /\ v6' = Append(v6, m) /\ v5' \subseteq v5 /\ v9' = {}
        /\ v10' \in 0..MaxNews /\ UNCHANGED <<v1, v2, v3, v4, v7, v8>>
  <2>1. CASE Mbim!Indication
    <3>1. Mbim!Routed(Mbim!Indicate)
      BY OwnMessages DEF Mbim!Routed
    <3>2. v10' \in 0..MaxNews
      BY <1>1, <2>1, MbimAssumption DEF Mbim!TypeOK, Mbim!Indication
    <3>3. QED
      BY <2>1, <3>1, <3>2, OwnMessages DEF Mbim!Indication, Mbim!clientVars
  <2>2. ASSUME NEW m \in v5, Mbim!Answer(m)
        PROVE  /\ m \in Mbim!Message /\ Mbim!Routed(m) /\ v6' = Append(v6, m) /\ v5' \subseteq v5
               /\ v9' = {} /\ v10' \in 0..MaxNews /\ UNCHANGED <<v1, v2, v3, v4, v7, v8>>
    BY <1>1, <2>2 DEF Mbim!Answer, Mbim!clientVars, Mbim!TypeOK, Mbim!Routable
  <2>3. QED
    BY <2>1, <2>2, Zenon DEF Mbim!Work
<1>3. PICK m \in Mbim!Message :
        /\ Mbim!Routed(m) /\ v6' = Append(v6, m) /\ v5' \subseteq v5 /\ v9' = {}
        /\ v10' \in 0..MaxNews /\ UNCHANGED <<v1, v2, v3, v4, v7, v8>>
  BY <1>2
<1>4. v6 \in Seq(Mbim!Message) /\ v6' \in Seq(Mbim!Message)
  BY <1>1, <1>3 DEF Mbim!TypeOK
<1>5. Mbim!TypeOK'
  BY <1>1, <1>3, <1>4 DEF Mbim!TypeOK
<1>6. Mbim!EmptySlots' /\ Mbim!OwnInbox' /\ Mbim!Numbered'
  BY <1>1, <1>3 DEF Mbim!EmptySlots, Mbim!OwnInbox, Mbim!Numbered
<1>7. Mbim!Routable'
  <2>1. \A i \in 1..Len(v6') : v6'[i] = m \/ (i \in 1..Len(v6) /\ v6'[i] = v6[i])
    BY <1>3, <1>4
  <2>2. QED
    BY <1>1, <1>3, <2>1 DEF Mbim!Routable, Mbim!Routed
<1>8. QED
  BY <1>3, <1>5, <1>6, <1>7 DEF Mbim!HolderInv

\* mbim_send_command(): the numbers of requests begin with 1, also after 24
\* bits of them.
LEMMA MbimAsk ==
  ASSUME Mbim!HolderInv, NEW c \in Mbim!Client, Mbim!Ask(c)
  PROVE  Mbim!HolderInv' /\ v9' = {}
<1> DEFINE k == v8[c] + 1
           m == [type |-> IF k = 1 THEN "OPEN" ELSE "COMMAND", slot |-> Mbim!Number(k).slot,
                 tid |-> Mbim!Number(k).tid, by |-> c, n |-> k]
<1>1. Mbim!TypeOK /\ Mbim!EmptySlots /\ Mbim!OwnInbox /\ Mbim!Numbered /\ Mbim!Routable
  BY DEF Mbim!HolderInv
<1>2. /\ v8[c] < MaxAsk /\ v7' = [v7 EXCEPT ![c] = m] /\ v4' = [v4 EXCEPT ![c] = Append(@, m)]
      /\ v8' = [v8 EXCEPT ![c] = k] /\ v9' = {} /\ UNCHANGED <<v1, v2, v3, v5, v6, v10>>
  BY DEF Mbim!Ask
<1>3. k \in 1..MaxAsk
  <2>1. v8[c] \in 0..MaxAsk
    BY <1>1 DEF Mbim!TypeOK
  <2>2. QED
    BY <1>2, <2>1, MbimAssumption
<1>4. Mbim!Number(k).slot = 0 /\ Mbim!Number(k).tid \in 1..Tids
  <2>1. (k - 1) % Tids \in 0..Tids - 1
    BY <1>3, MbimAssumption
  <2>2. QED
    BY <2>1, MbimAssumption DEF Mbim!Number
<1>5. m \in Mbim!Message /\ m.by = c /\ m.tid # 0
  <2>1. m.type \in {"OPEN", "COMMAND"} /\ c \in 0..MbimClients /\ k \in 0..MaxAsk
    BY <1>3, MbimAssumption DEF Mbim!Client
  <2>2. Mbim!Number(k).slot \in 0..Slots /\ Mbim!Number(k).tid \in 0..Tids /\ Mbim!Number(k).tid # 0
    BY <1>4, MbimAssumption
  <2>3. QED
    BY <2>1, <2>2 DEF Mbim!Message, Mbim!Command
<1> HIDE DEF m, k
<1>6. v4[c] \in Seq(Mbim!Message) /\ Append(v4[c], m) \in Seq(Mbim!Message)
  BY <1>1, <1>5 DEF Mbim!TypeOK
<1>7. Mbim!TypeOK'
  <2>1. v4' \in [Mbim!Client -> Seq(Mbim!Message)] /\ v7' \in [Mbim!Client -> Mbim!Message]
    BY <1>1, <1>2, <1>5, <1>6 DEF Mbim!TypeOK
  <2>2. k \in 0..MaxAsk
    BY <1>3, MbimAssumption
  <2>3. v8' \in [Mbim!Client -> 0..MaxAsk]
    BY <1>1, <1>2, <2>2 DEF Mbim!TypeOK
  <2>4. QED
    BY <1>1, <1>2, <2>1, <2>3 DEF Mbim!TypeOK
<1>8. Mbim!OwnInbox'
  <2>1. \A i \in 1..Len(Append(v4[c], m)) : Append(v4[c], m)[i].by = c
    <3>1. \A i \in 1..Len(v4[c]) : v4[c][i].by = c
      BY <1>1 DEF Mbim!OwnInbox
    <3>2. \A i \in 1..Len(Append(v4[c], m)) :
            Append(v4[c], m)[i] = m \/ (i \in 1..Len(v4[c]) /\ Append(v4[c], m)[i] = v4[c][i])
      BY <1>5, <1>6
    <3>3. QED
      BY <1>5, <3>1, <3>2
  <2>2. QED
    BY <1>1, <1>2, <2>1 DEF Mbim!OwnInbox, Mbim!TypeOK
<1>9. Mbim!Numbered'
  BY <1>1, <1>2, <1>5 DEF Mbim!Numbered, Mbim!TypeOK
<1>10. Mbim!EmptySlots' /\ Mbim!Routable'
  BY <1>1, <1>2, StaysRoutable DEF Mbim!EmptySlots
<1>11. QED
  BY <1>2, <1>7, <1>8, <1>9, <1>10 DEF Mbim!HolderInv

\* A client that leaves is one whose messages may go to anybody.
LEMMA MbimLeave ==
  ASSUME Mbim!HolderInv, NEW c \in Mbim!Client, Mbim!Leave(c)
  PROVE  Mbim!HolderInv' /\ v9' = {}
<1>1. Mbim!TypeOK /\ Mbim!EmptySlots /\ Mbim!OwnInbox /\ Mbim!Numbered /\ Mbim!Routable
  BY DEF Mbim!HolderInv
<1>2. /\ v3' = [v3 EXCEPT ![c] = "gone"] /\ v7' = [v7 EXCEPT ![c] = Mbim!Nothing] /\ v9' = {}
      /\ UNCHANGED <<v1, v2, v4, v8, v5, v6, v10>>
  BY DEF Mbim!Leave
<1>3. Mbim!TypeOK'
  <2>1. v7' \in [Mbim!Client -> Mbim!Message]
    BY <1>1, <1>2, OwnMessages DEF Mbim!TypeOK
  <2>2. QED
    BY <1>1, <1>2, <2>1 DEF Mbim!TypeOK
<1>4. Mbim!EmptySlots' /\ Mbim!OwnInbox' /\ Mbim!Numbered'
  BY <1>1, <1>2 DEF Mbim!EmptySlots, Mbim!OwnInbox, Mbim!Numbered, Mbim!TypeOK
<1>5. ASSUME NEW m \in Mbim!Message, Mbim!Routed(m) PROVE Mbim!Routed(m)'
  BY <1>1, <1>2, <1>5, SentBy DEF Mbim!Routed, Mbim!TypeOK
<1>6. Mbim!Routable'
  <2>1. (\A m \in v5 : m \in Mbim!Message) /\ \A i \in 1..Len(v6) : v6[i] \in Mbim!Message
    BY <1>1, ElementType DEF Mbim!TypeOK
  <2>2. QED
    BY <1>1, <1>2, <1>5, <2>1 DEF Mbim!Routable
<1>7. QED
  BY <1>2, <1>3, <1>4, <1>6 DEF Mbim!HolderInv

LEMMA MbimInit ==
  ASSUME Mbim!Init
  PROVE  Mbim!HolderInv /\ Mbim!ToHolder
<1>1. <<>> \in Seq(Mbim!Message) /\ 0 \in 0..MbimClients /\ 0 \in 0..MaxAsk
  BY MbimAssumption
<1>2. Mbim!TypeOK
  BY <1>1, MbimAssumption, OwnMessages DEF Mbim!Init, Mbim!TypeOK
<1>3. Mbim!EmptySlots /\ Mbim!OwnInbox /\ Mbim!Numbered /\ Mbim!Routable /\ Mbim!ToHolder
  BY DEF Mbim!Init, Mbim!EmptySlots, Mbim!OwnInbox, Mbim!Numbered, Mbim!Routable, Mbim!ToHolder
<1>4. QED
  BY <1>2, <1>3 DEF Mbim!HolderInv

LEMMA MbimNext ==
  ASSUME Mbim!HolderInv, Mbim!ToHolder, Mbim!Next \/ UNCHANGED mbim
  PROVE  Mbim!HolderInv' /\ Mbim!ToHolder'
<1>1. CASE UNCHANGED mbim
  BY <1>1 DEF mbim, Mbim!HolderInv, Mbim!TypeOK, Mbim!EmptySlots, Mbim!OwnInbox, Mbim!Numbered, Mbim!Routable,
              Mbim!Routed, Mbim!ToHolder
<1>2. CASE Mbim!Stopped
  <2>1. UNCHANGED mbim
    BY <1>2 DEF mbim, Mbim!Stopped, Mbim!vars, Mbim!clientVars
  <2>2. QED
    BY <1>1, <2>1
<1>3. ASSUME Mbim!HolderInv' /\ v9' = {} PROVE Mbim!HolderInv' /\ Mbim!ToHolder'
  BY <1>3 DEF Mbim!ToHolder
<1>4. CASE Mbim!Session
  BY <1>3, <1>4, MbimSession
<1>5. CASE Mbim!Loop
  BY <1>3, <1>5, MbimFromDev, MbimAccept, MbimRead, MbimDisconnect DEF Mbim!Loop
<1>6. CASE Mbim!Environment
  BY <1>3, <1>6, MbimModem, MbimAsk, MbimLeave DEF Mbim!Environment
<1>7. QED
  BY <1>1, <1>2, <1>4, <1>5, <1>6 DEF Mbim!Next

-----------------------------------------------------------------------------
(* quectel-atc-proxy. conn is v3, life v4, inbox v5, slots v6, width v7,   *)
(* round v8, current v9, call v10, toModem v11, fromDev v12, asking v14,   *)
(* owed v15, departed v16.                                                 *)

\* AtcProxy and Lists take these operators from the same module.
LEMMA SameOperators ==
  /\ \A s : Atc!ToSet(s) = ToSet(s)
  /\ \A s, x : Atc!RemoveFirst(s, x) = RemoveFirst(s, x)
  /\ \A f : Atc!IsInjective(f) <=> IsInjective(f)
<1>1. \A s : Atc!ToSet(s) = ToSet(s)
  BY DEF Atc!ToSet, ToSet
<1>2. ASSUME NEW s, NEW x PROVE Atc!RemoveFirst(s, x) = RemoveFirst(s, x)
  BY DEF Atc!RemoveFirst, RemoveFirst, Atc!RemoveAt, RemoveAt, Atc!SelectInSeq, SelectInSeq, Atc!Min, Min
<1>3. \A f : Atc!IsInjective(f) <=> IsInjective(f)
  BY DEF Atc!IsInjective, IsInjective
<1>4. QED
  BY <1>1, <1>2, <1>3

\* The list of connections has room in pollfds: each descriptor is there once.
LEMMA FewConnections ==
  ASSUME Atc!TypeOK
  PROVE  Len(v3) \in 0..Fds
<1>1. v3 \in Seq(Atc!Fd) /\ IsInjective(v3) /\ Atc!Fd = 1..Fds
  BY SameOperators DEF Atc!TypeOK, Atc!Fd
<1>2. Len(v3) \in Nat /\ v3 \in [1..Len(v3) -> 1..Fds]
  <2>1. v3 \in Seq(1..Fds)
    BY <1>1
  <2>2. QED
    BY <2>1, IndexedBy
<1>3. v3 \in Injection(1..Len(v3), 1..Fds)
  BY <1>1, <1>2 DEF Injection
<1>4. IsFiniteSet(1..Fds) /\ Cardinality(1..Fds) = Fds
  BY FS_Interval, AtcAssumption
<1>5. Cardinality(1..Len(v3)) <= Fds
  BY <1>3, <1>4, FS_Injection
<1>6. Cardinality(1..Len(v3)) = Len(v3)
  BY <1>2, FS_Interval
<1>7. QED
  BY <1>2, <1>5, <1>6, AtcAssumption

\* A request that is not answered is with the proxy or the modem.
UnderWay(c, k) == [by |-> c, n |-> k] \in Atc!ToSet(v5[c]) \cup Atc!ToSet(v11) \cup Atc!ToSet(v12)
AtcInv == Atc!InFlightInv /\ Atc!InFlight

LEMMA InFlightIs ==
  Atc!InFlight <=> (~v16 => \A c \in Atc!Fd : \A k \in v15[c] : UnderWay(c, k))
  BY DEF Atc!InFlight, UnderWay

\* A step after which some client has left: only the types are to be shown.
LEMMA AtcDeparted ==
  ASSUME Atc!TypeOK', v16' = TRUE
  PROVE  AtcInv'
  BY DEF AtcInv, Atc!InFlightInv, Atc!InFlight

\* What is left to show of any other step.
LEMMA AtcKeeps ==
  ASSUME AtcInv, Atc!TypeOK', v16' = v16, ~v16 => Atc!AllHere',
         ~v16 => \A c \in Atc!Fd : \A k \in v15'[c] : UnderWay(c, k)'
  PROVE  AtcInv'
  BY DEF AtcInv, Atc!InFlightInv, Atc!InFlight, UnderWay

\* Fault, as the time-outs, losses and departures are counted.
LEMMA AtcFault ==
  ASSUME Atc!TypeOK, Atc!Fault
  PROVE  v17' \in 0..AtcFaults
  BY AtcAssumption DEF Atc!TypeOK, Atc!Fault

\* The entry that is handled is one of the round.
LEMMA FirstOfRound ==
  ASSUME Atc!TypeOK, v8 # {}
  PROVE  Atc!First \in v8
<1> DEFINE T == {e.at : e \in v8}
<1>1. T \in SUBSET Nat /\ T # {}
  BY AtcAssumption DEF Atc!TypeOK
<1>2. Min(T) \in T /\ \A i \in T : Min(T) <= i
  BY <1>1, SmallestIndex
<1>3. \E e \in v8 : \A f \in v8 : e.at <= f.at
  BY <1>2
<1>4. QED
  BY <1>3, Zenon DEF Atc!First

LEMMA AtcInit ==
  ASSUME Atc!Init
  PROVE  AtcInv
<1>1. Atc!TypeOK
  <2>1. \A S : <<>> \in Seq(S)
    OBVIOUS
  <2>2. Atc!ToSet(v3) = {} /\ Atc!IsInjective(v3)
    BY DEF Atc!Init, Atc!ToSet, Atc!IsInjective
  <2>3. v6 \in [1..Fds + 1 -> 0..Fds] /\ 0 \in 0..Fds /\ 0 \in 0..AtcAsk /\ v17 \in 0..AtcFaults
    BY AtcAssumption DEF Atc!Init
  <2>4. QED
    BY <2>1, <2>2, <2>3 DEF Atc!Init, Atc!TypeOK
<1>2. Atc!AllHere
  <2>1. v7 <= Len(v3)
    BY DEF Atc!Init
  <2>2. QED
    BY <2>1 DEF Atc!Init, Atc!AllHere
<1>3. Atc!InFlight
  BY DEF Atc!Init, Atc!InFlight
<1>4. QED
  BY <1>1, <1>2, <1>3 DEF AtcInv, Atc!InFlightInv

\* The device hangs up: all connections are closed.
LEMMA AtcDeviceLost ==
  ASSUME AtcInv, Atc!DeviceLost
  PROVE  AtcInv'
<1>1. Atc!TypeOK
  BY DEF AtcInv, Atc!InFlightInv
<1>2. \A S : <<>> \in Seq(S)
  OBVIOUS
<1>3. Atc!ToSet(v3') = {} /\ Atc!IsInjective(v3') /\ v3' = <<>>
  BY DEF Atc!DeviceLost, Atc!ToSet, Atc!IsInjective
<1>4. v17' \in 0..AtcFaults
  BY <1>1, AtcFault DEF Atc!DeviceLost
<1>5. 0 \in 0..Fds
  BY AtcAssumption
<1>6. Atc!TypeOK'
  BY <1>1, <1>2, <1>3, <1>4, <1>5 DEF Atc!DeviceLost, Atc!TypeOK
<1>7. QED
  BY <1>6, AtcDeparted DEF Atc!DeviceLost

\* main(): the server is made. Nothing else changes.
LEMMA AtcOpenServer ==
  ASSUME AtcInv, Atc!OpenServer
  PROVE  AtcInv'
<1>1. v1' = "serve" /\ UNCHANGED <<v2, v3, v4, v5, v6, v7, v8, v9, v10, v11, v12, v13, v14, v15, v16, v17>>
  BY DEF Atc!OpenServer, Atc!pollVars, Atc!callVars, Atc!askVars
<1>2. Atc!TypeOK' /\ (~v16 => Atc!AllHere')
  BY <1>1 DEF AtcInv, Atc!InFlightInv, Atc!TypeOK, Atc!AllHere
<1>3. ~v16 => \A c \in Atc!Fd : \A k \in v15'[c] : UnderWay(c, k)'
  BY <1>1 DEF AtcInv, Atc!InFlight, UnderWay
<1>4. QED
  BY <1>1, <1>2, <1>3, AtcKeeps

\* A round begins: pollfds holds the connections and nothing of its own behind
\* them.
LEMMA AtcPoll ==
  ASSUME AtcInv, Atc!Poll
  PROVE  AtcInv'
<1>1. Atc!TypeOK /\ (~v16 => Atc!AllHere)
  BY DEF AtcInv, Atc!InFlightInv
<1>2. /\ v6' = [i \in DOMAIN v6 |-> IF i <= Len(v3) THEN v3[i] ELSE v6[i]]
      /\ v7' = Len(v3) /\ v8' = Atc!Ready
      /\ UNCHANGED <<v1, v2, v3, v4, v5, v9, v10, v11, v12, v13, v14, v15, v16, v17>>
  BY DEF Atc!Poll, Atc!callVars, Atc!askVars
<1>3. Len(v3) \in 0..Fds /\ v3 \in Seq(1..Fds)
  BY <1>1, FewConnections DEF Atc!TypeOK, Atc!Fd
<1>4. v6' \in [1..Fds + 1 -> 0..Fds]
  <2>1. \A i \in 1..Fds + 1 : i <= Len(v3) => v3[i] \in 0..Fds
    BY <1>3, AtcAssumption
  <2>2. QED
    BY <1>1, <1>2, <2>1 DEF Atc!TypeOK
<1>5. v8' \subseteq [at : 0..Fds, on : {"in", "hup"}]
  <2>1. \A i \in 1..Len(v3) : i \in 0..Fds
    BY <1>3, AtcAssumption
  <2>2. 0 \in 0..Fds
    BY AtcAssumption
  <2>3. QED
    BY <1>2, <2>1, <2>2 DEF Atc!Ready
<1>6. Atc!TypeOK'
  BY <1>1, <1>2, <1>3, <1>4, <1>5 DEF Atc!TypeOK
<1>7. ASSUME ~v16 PROVE Atc!AllHere'
  <2>1. Atc!AllHere
    BY <1>1, <1>7
  <2>2. \A c \in Atc!Fd : "hup" \notin Atc!Told(c)
    BY <2>1 DEF Atc!Told, Atc!AllHere
  <2>3. \A i \in 1..Len(v3) : v3[i] \in Atc!Fd
    BY <1>3, ElementType DEF Atc!Fd
  <2>4. \A e \in v8' : e.on = "in"
    BY <1>2, <2>2, <2>3 DEF Atc!Ready
  <2>5. \A i \in v7' + 1..Fds + 1 : v6'[i] = 0
    <3>1. ASSUME NEW i \in Len(v3) + 1..Fds + 1 PROVE v6'[i] = 0
      <4>1. i \in 1..Fds + 1 /\ ~(i <= Len(v3)) /\ i \in v7 + 1..Fds + 1
        BY <1>1, <1>3, <2>1, AtcAssumption DEF Atc!AllHere, Atc!TypeOK
      <4>2. DOMAIN v6 = 1..Fds + 1
        BY <1>1 DEF Atc!TypeOK
      <4>3. v6'[i] = v6[i]
        BY <1>2, <4>1, <4>2
      <4>4. QED
        BY <2>1, <4>1, <4>3 DEF Atc!AllHere
    <3>2. QED
      BY <1>2, <3>1
  <2>6. v7' <= Len(v3')
    BY <1>2, <1>3
  <2>7. QED
    BY <1>2, <2>1, <2>4, <2>5, <2>6 DEF Atc!AllHere
<1>8. ~v16 => \A c \in Atc!Fd : \A k \in v15'[c] : UnderWay(c, k)'
  BY <1>2 DEF AtcInv, Atc!InFlight, UnderWay
<1>9. QED
  BY <1>2, <1>6, <1>7, <1>8, AtcKeeps

\* accept_atc_connection(): the list gets longer; pollfds stays.
LEMMA AtcAccept ==
  ASSUME AtcInv, Atc!Accept
  PROVE  AtcInv'
<1>1. Atc!TypeOK /\ (~v16 => Atc!AllHere)
  BY DEF AtcInv, Atc!InFlightInv
<1>2. PICK c \in Atc!Fd : v4[c] = "free" /\ v4' = [v4 EXCEPT ![c] = "here"] /\ v3' = Append(v3, c)
  BY DEF Atc!Accept
<1>3. /\ v8' = Atc!Rest /\ v2' = FALSE
      /\ UNCHANGED <<v1, v5, v6, v7, v9, v10, v11, v12, v13, v14, v15, v16, v17>>
  BY DEF Atc!Accept, Atc!callVars, Atc!askVars
<1>4. v3 \in Seq(Atc!Fd) /\ IsInjective(v3) /\ ToSet(v3) = {d \in Atc!Fd : v4[d] # "free"}
  BY <1>1, SameOperators DEF Atc!TypeOK
<1>5. v3' \in Seq(Atc!Fd) /\ ToSet(v3') = ToSet(v3) \cup {c} /\ Len(v3') = Len(v3) + 1 /\ Len(v3) \in Nat
  BY <1>2, <1>4, AppendElements
<1>6. ToSet(v3') = {d \in Atc!Fd : v4'[d] # "free"}
  BY <1>1, <1>2, <1>4, <1>5 DEF Atc!TypeOK
<1>7. IsInjective(v3')
  <2>1. /\ DOMAIN v3' = 1..Len(v3) + 1 /\ DOMAIN v3 = 1..Len(v3) /\ v3'[Len(v3) + 1] = c
        /\ \A i \in 1..Len(v3) : v3'[i] = v3[i]
    BY <1>2, <1>4, <1>5
  <2>2. \A i \in 1..Len(v3) : v3[i] # c
    BY <1>2, <1>4, ElementsAreIndexed
  <2>3. QED
    BY <1>4, <1>5, <2>1, <2>2 DEF IsInjective
<1>8. Atc!TypeOK'
  <2>1. v8' \subseteq [at : 0..Fds, on : {"in", "hup"}] /\ v4' \in [Atc!Fd -> {"free", "here", "left"}]
    BY <1>1, <1>2, <1>3 DEF Atc!TypeOK, Atc!Rest
  <2>2. Atc!IsInjective(v3') /\ Atc!ToSet(v3') = ToSet(v3')
    BY <1>7, SameOperators
  <2>3. QED
    BY <1>1, <1>3, <1>5, <1>6, <2>1, <2>2 DEF Atc!TypeOK
<1>9. ASSUME ~v16 PROVE Atc!AllHere'
  <2>1. Atc!AllHere
    BY <1>1, <1>9
  <2>2. v7 \in Nat
    BY <1>1, AtcAssumption DEF Atc!TypeOK
  <2>3. v7' <= Len(v3')
    BY <1>3, <1>5, <2>1, <2>2 DEF Atc!AllHere
  <2>4. \A e \in v8' : e.on = "in"
    BY <1>3, <2>1 DEF Atc!AllHere, Atc!Rest
  <2>5. \A d \in Atc!Fd : v4'[d] # "left" /\ (v4[d] = "here" => v4'[d] = "here")
    BY <1>1, <1>2, <2>1 DEF Atc!AllHere, Atc!TypeOK
  <2>6. QED
    BY <1>3, <2>1, <2>3, <2>4, <2>5 DEF Atc!AllHere
<1>10. ~v16 => \A d \in Atc!Fd : \A k \in v15'[d] : UnderWay(d, k)'
  BY <1>3 DEF AtcInv, Atc!InFlight, UnderWay
<1>11. QED
  BY <1>3, <1>8, <1>9, <1>10, AtcKeeps

\* cleanup_atc_connection(), of a client that has left.
LEMMA AtcCleanup ==
  ASSUME AtcInv, NEW c \in Atc!Fd, Atc!Cleanup(c), v8' \subseteq v8, v16
  PROVE  AtcInv'
<1>1. Atc!TypeOK
  BY DEF AtcInv, Atc!InFlightInv
<1>2. /\ v4' = [v4 EXCEPT ![c] = "free"] /\ v3' = RemoveFirst(v3, c) /\ v5' = [v5 EXCEPT ![c] = <<>>]
      /\ UNCHANGED <<v1, v2, v6, v7, v9, v10, v11, v12, v13, v14, v15, v16, v17>>
  BY SameOperators DEF Atc!Cleanup, Atc!callVars, Atc!askVars
<1>3. v3 \in Seq(Atc!Fd) /\ IsInjective(v3) /\ ToSet(v3) = {d \in Atc!Fd : v4[d] # "free"}
  BY <1>1, SameOperators DEF Atc!TypeOK
<1>4. v3' \in Seq(Atc!Fd) /\ IsInjective(v3') /\ ToSet(v3') = ToSet(v3) \ {c}
  BY <1>2, <1>3, RemovedFirst
<1>5. ToSet(v3') = {d \in Atc!Fd : v4'[d] # "free"}
  BY <1>1, <1>2, <1>3, <1>4 DEF Atc!TypeOK
<1>6. Atc!TypeOK'
  <2>1. Atc!IsInjective(v3') /\ Atc!ToSet(v3') = ToSet(v3')
    BY <1>4, SameOperators
  <2>2. <<>> \in Seq(Atc!Ask)
    OBVIOUS
  <2>3. v5' \in [Atc!Fd -> Seq(Atc!Ask)] /\ v4' \in [Atc!Fd -> {"free", "here", "left"}]
    BY <1>1, <1>2, <2>2 DEF Atc!TypeOK
  <2>4. QED
    BY <1>1, <1>2, <1>4, <1>5, <2>1, <2>3 DEF Atc!TypeOK
<1>7. v16' = TRUE
  BY <1>1, <1>2 DEF Atc!TypeOK
<1>8. QED
  BY <1>6, <1>7, AtcDeparted

\* What a client wrote goes to the modem as one command, and the connection in
\* pollfds[nevents] is none.
LEMMA AtcRead ==
  ASSUME AtcInv, NEW c \in Atc!Fd, Atc!Read(c)
  PROVE  AtcInv'
<1>1. Atc!TypeOK /\ (~v16 => Atc!AllHere)
  BY DEF AtcInv, Atc!InFlightInv
<1>2. /\ v8' = Atc!Rest /\ v9' = Atc!Stale /\ v10' = "wait" /\ v11' = v11 \o v5[c]
      /\ v5' = [v5 EXCEPT ![c] = <<>>]
      /\ UNCHANGED <<v1, v2, v3, v4, v6, v7, v12, v13, v14, v15, v16, v17>>
  BY DEF Atc!Read, Atc!Written, Atc!askVars
<1>3. v11 \in Seq(Atc!Ask) /\ v5[c] \in Seq(Atc!Ask) /\ v11' \in Seq(Atc!Ask)
  BY <1>1, <1>2 DEF Atc!TypeOK
<1>4. ToSet(v11') = ToSet(v11) \cup ToSet(v5[c])
  BY <1>2, <1>3, ConcatElements
<1>5. v7 + 1 \in 1..Fds + 1 /\ v6[v7 + 1] \in 0..Fds
  BY <1>1, AtcAssumption DEF Atc!TypeOK
<1>6. Atc!TypeOK'
  <2>1. v9' \in 0..Fds
    BY <1>2, <1>5, AtcAssumption DEF Atc!Stale
  <2>2. <<>> \in Seq(Atc!Ask)
    OBVIOUS
  <2>3. v5' \in [Atc!Fd -> Seq(Atc!Ask)]
    BY <1>1, <1>2, <2>2 DEF Atc!TypeOK
  <2>4. v8' \subseteq [at : 0..Fds, on : {"in", "hup"}]
    BY <1>1, <1>2 DEF Atc!TypeOK, Atc!Rest
  <2>5. QED
    BY <1>1, <1>2, <1>3, <2>1, <2>3, <2>4 DEF Atc!TypeOK
<1>7. ASSUME ~v16 PROVE Atc!AllHere'
  <2>1. Atc!AllHere
    BY <1>1, <1>7
  <2>2. v6[v7 + 1] = 0
    <3>1. v7 + 1 \in v7 + 1..Fds + 1
      BY <1>1, <1>5, AtcAssumption DEF Atc!TypeOK
    <3>2. QED
      BY <2>1, <3>1 DEF Atc!AllHere
  <2>3. v9' = 0
    BY <1>2, <2>2 DEF Atc!Stale
  <2>4. \A e \in v8' : e.on = "in"
    BY <1>2, <2>1 DEF Atc!AllHere, Atc!Rest
  <2>5. QED
    BY <1>2, <2>1, <2>3, <2>4 DEF Atc!AllHere
<1>8. ASSUME ~v16, NEW d \in Atc!Fd, NEW k \in v15'[d] PROVE UnderWay(d, k)'
  <2>1. [by |-> d, n |-> k] \in ToSet(v5[d]) \cup ToSet(v11) \cup ToSet(v12)
    BY <1>2, <1>8, SameOperators DEF AtcInv, Atc!InFlight
  <2>2. d # c => v5'[d] = v5[d]
    BY <1>1, <1>2 DEF Atc!TypeOK
  <2>3. [by |-> d, n |-> k] \in ToSet(v5'[d]) \cup ToSet(v11') \cup ToSet(v12')
    BY <1>2, <1>4, <2>1, <2>2
  <2>4. QED
    BY <2>3, SameOperators DEF UnderWay
<1>9. QED
  BY <1>2, <1>6, <1>7, <1>8, AtcKeeps

\* A command that timed out or was answered returns.
LEMMA AtcReturn ==
  ASSUME AtcInv, Atc!Expire \/ Atc!Return
  PROVE  AtcInv'
<1>1. Atc!TypeOK /\ (~v16 => Atc!AllHere)
  BY DEF AtcInv, Atc!InFlightInv
<1>2. /\ v10' \in {"woken", "none"} /\ (v9' = v9 \/ v9' = 0)
      /\ UNCHANGED <<v1, v2, v3, v4, v5, v6, v7, v8, v11, v12, v13, v14, v15, v16>>
  BY DEF Atc!Expire, Atc!Return, Atc!pollVars, Atc!askVars
<1>3. v17' \in 0..AtcFaults
  BY <1>1, AtcFault DEF Atc!Expire, Atc!Return, Atc!TypeOK
<1>4. v9' \in 0..Fds
  BY <1>1, <1>2, AtcAssumption DEF Atc!TypeOK
<1>5. Atc!TypeOK'
  BY <1>1, <1>2, <1>3, <1>4 DEF Atc!TypeOK
<1>6. ~v16 => Atc!AllHere'
  BY <1>1, <1>2 DEF Atc!AllHere
<1>7. ~v16 => \A c \in Atc!Fd : \A k \in v15'[c] : UnderWay(c, k)'
  BY <1>2 DEF AtcInv, Atc!InFlight, UnderWay
<1>8. QED
  BY <1>2, <1>5, <1>6, <1>7, AtcKeeps

\* onUnsolicited(): while nobody leaves, a line is heard by all, and so by the
\* client that it answers.
LEMMA AtcLine ==
  ASSUME AtcInv, Atc!Line
  PROVE  AtcInv'
<1>1. Atc!TypeOK /\ (~v16 => Atc!AllHere)
  BY DEF AtcInv, Atc!InFlightInv
<1>2. /\ v12 # <<>> /\ v12' = Tail(v12) /\ v12 \in Seq(Atc!Ask)
      /\ UNCHANGED <<v2, v3, v4, v5, v6, v7, v8, v9, v11, v13, v16, v17>>
  BY <1>1 DEF Atc!Line, Atc!pollVars, Atc!TypeOK
<1>3. v12' \in Seq(Atc!Ask) /\ ToSet(v12) = {Head(v12)} \cup ToSet(v12')
  BY <1>2, TailElements
<1>4. CASE v1' = "dead" /\ UNCHANGED <<v14, v15, v10>> /\ \E c \in Atc!Receivers : v4[c] = "left"
  <2>1. Atc!TypeOK'
    BY <1>1, <1>2, <1>3, <1>4 DEF Atc!TypeOK
  <2>2. CASE v16
    <3>1. v16' = TRUE
      BY <1>1, <1>2, <2>2 DEF Atc!TypeOK
    <3>2. QED
      BY <2>1, <3>1, AtcDeparted
  <2>3. CASE ~v16
    <3>1. Atc!AllHere
      BY <1>1, <2>3
    <3>2. Atc!Receivers = ToSet(v3) /\ ToSet(v3) \subseteq Atc!Fd
      BY <1>1, <3>1, SameOperators DEF Atc!AllHere, Atc!Receivers, Atc!TypeOK
    <3>3. QED
      BY <1>4, <3>1, <3>2 DEF Atc!AllHere
  <2>4. QED
    BY <2>2, <2>3
<1>5. CASE /\ v14' = [c \in Atc!Fd |-> v14[c] /\ c \notin Atc!Receivers]
           /\ v15' = [c \in Atc!Fd |-> IF c \in Atc!Receivers /\ Head(v12).by = c
                                       THEN v15[c] \ {Head(v12).n} ELSE v15[c]]
           /\ v10' = (IF v10 = "wait" THEN "woken" ELSE v10) /\ v1' = v1
  <2>1. v14' \in [Atc!Fd -> BOOLEAN]
    BY <1>5
  <2>2. v15' \in [Atc!Fd -> SUBSET (1..AtcAsk)] /\ \A c \in Atc!Fd : v15'[c] \subseteq v15[c]
    BY <1>1, <1>5 DEF Atc!TypeOK
  <2>3. v10' \in {"none", "wait", "woken"}
    BY <1>1, <1>5 DEF Atc!TypeOK
  <2>4. Atc!TypeOK'
    BY <1>1, <1>2, <1>3, <1>5, <2>1, <2>2, <2>3 DEF Atc!TypeOK
  <2>5. ASSUME ~v16 PROVE Atc!AllHere'
    <3>1. Atc!AllHere
      BY <1>1, <2>5
    <3>2. QED
      BY <1>2, <2>2, <3>1 DEF Atc!AllHere
  <2>6. ASSUME ~v16, NEW c \in Atc!Fd, NEW k \in v15'[c] PROVE UnderWay(c, k)'
    <3>1. k \in v15[c] /\ Atc!AllHere
      BY <1>1, <2>2, <2>6
    <3>2. [by |-> c, n |-> k] \in ToSet(v5[c]) \cup ToSet(v11) \cup ToSet(v12)
      BY <2>6, <3>1, SameOperators DEF AtcInv, Atc!InFlight
    <3>3. c \in Atc!Receivers
      <4>1. v4[c] = "here" /\ v9 = 0
        BY <3>1 DEF Atc!AllHere
      <4>2. c \in Atc!ToSet(v3)
        BY <1>1, <4>1 DEF Atc!TypeOK
      <4>3. QED
        BY <4>1, <4>2 DEF Atc!Receivers
    <3>4. [by |-> c, n |-> k] # Head(v12)
      BY <1>5, <2>6, <3>3
    <3>5. [by |-> c, n |-> k] \in ToSet(v5'[c]) \cup ToSet(v11') \cup ToSet(v12')
      BY <1>2, <1>3, <3>2, <3>4
    <3>6. QED
      BY <3>5, SameOperators DEF UnderWay
  <2>7. QED
    BY <1>2, <2>4, <2>5, <2>6, AtcKeeps
<1>6. QED
  BY <1>4, <1>5 DEF Atc!Line

\* The modem answers the first command it was sent.
LEMMA AtcRespond ==
  ASSUME AtcInv, Atc!Respond
  PROVE  AtcInv'
<1>1. Atc!TypeOK /\ (~v16 => Atc!AllHere)
  BY DEF AtcInv, Atc!InFlightInv
<1>2. /\ v11 # <<>> /\ v11' = Tail(v11) /\ v12' = Append(v12, Head(v11))
      /\ v11 \in Seq(Atc!Ask) /\ v12 \in Seq(Atc!Ask)
      /\ UNCHANGED <<v1, v2, v3, v4, v5, v6, v7, v8, v9, v10, v13, v14, v15, v16, v17>>
  BY <1>1 DEF Atc!Respond, Atc!ProxySame, Atc!pollVars, Atc!askVars, Atc!TypeOK
<1>3. /\ v11' \in Seq(Atc!Ask) /\ ToSet(v11) = {Head(v11)} \cup ToSet(v11') /\ Head(v11) \in Atc!Ask
  BY <1>2, TailElements
<1>4. v12' \in Seq(Atc!Ask) /\ ToSet(v12') = ToSet(v12) \cup {Head(v11)}
  BY <1>2, <1>3, AppendElements
<1>5. Atc!TypeOK'
  BY <1>1, <1>2, <1>3, <1>4 DEF Atc!TypeOK
<1>6. ~v16 => Atc!AllHere'
  BY <1>1, <1>2 DEF Atc!AllHere
<1>7. ASSUME ~v16, NEW c \in Atc!Fd, NEW k \in v15'[c] PROVE UnderWay(c, k)'
  <2>1. [by |-> c, n |-> k] \in ToSet(v5[c]) \cup ToSet(v11) \cup ToSet(v12)
    BY <1>2, <1>7, SameOperators DEF AtcInv, Atc!InFlight
  <2>2. [by |-> c, n |-> k] \in ToSet(v5'[c]) \cup ToSet(v11') \cup ToSet(v12')
    BY <1>2, <1>3, <1>4, <2>1
  <2>3. QED
    BY <2>2, SameOperators DEF UnderWay
<1>8. QED
  BY <1>2, <1>5, <1>6, <1>7, AtcKeeps

\* Clients connect, send and leave.
LEMMA AtcClient ==
  ASSUME AtcInv, Atc!Client
  PROVE  AtcInv'
<1>1. Atc!TypeOK /\ (~v16 => Atc!AllHere)
  BY DEF AtcInv, Atc!InFlightInv
<1>2. CASE Atc!Connect
  <2>1. v2' = TRUE /\ UNCHANGED <<v1, v3, v4, v5, v6, v7, v8, v9, v10, v11, v12, v13, v14, v15, v16, v17>>
    BY <1>2 DEF Atc!Connect, Atc!ProxySame, Atc!pollVars, Atc!askVars
  <2>2. Atc!TypeOK' /\ (~v16 => Atc!AllHere')
    BY <1>1, <2>1 DEF Atc!TypeOK, Atc!AllHere
  <2>3. ~v16 => \A c \in Atc!Fd : \A k \in v15'[c] : UnderWay(c, k)'
    BY <2>1 DEF AtcInv, Atc!InFlight, UnderWay
  <2>4. QED
    BY <2>1, <2>2, <2>3, AtcKeeps
<1>3. ASSUME NEW c \in Atc!Fd, Atc!Send(c) PROVE AtcInv'
  <2> DEFINE m == [by |-> c, n |-> v13 + 1]
  <2>1. /\ v4[c] = "here" /\ v13 < AtcAsk /\ v13' = v13 + 1 /\ v14' = [v14 EXCEPT ![c] = TRUE]
        /\ v15' = [v15 EXCEPT ![c] = @ \cup {v13'}] /\ v5' = [v5 EXCEPT ![c] = Append(@, m)]
        /\ UNCHANGED <<v1, v2, v3, v4, v6, v7, v8, v9, v10, v11, v12, v16, v17>>
    BY <1>3 DEF Atc!Send, Atc!ProxySame, Atc!pollVars
  <2>2. v13' \in 1..AtcAsk /\ v13' \in 0..AtcAsk
    BY <1>1, <2>1, AtcAssumption DEF Atc!TypeOK
  <2>3. m \in Atc!Ask /\ m = [by |-> c, n |-> v13']
    BY <2>1, <2>2 DEF Atc!Ask
  <2> HIDE DEF m
  <2>4. /\ v5[c] \in Seq(Atc!Ask) /\ Append(v5[c], m) \in Seq(Atc!Ask)
        /\ ToSet(Append(v5[c], m)) = ToSet(v5[c]) \cup {m}
    BY <1>1, <2>3, AppendElements DEF Atc!TypeOK
  <2>5. v5' \in [Atc!Fd -> Seq(Atc!Ask)] /\ v5'[c] = Append(v5[c], m) /\ \A d \in Atc!Fd \ {c} : v5'[d] = v5[d]
    BY <1>1, <2>1, <2>4 DEF Atc!TypeOK
  <2>6. /\ v15' \in [Atc!Fd -> SUBSET (1..AtcAsk)] /\ v15'[c] = v15[c] \cup {v13'}
        /\ \A d \in Atc!Fd \ {c} : v15'[d] = v15[d]
    BY <1>1, <2>1, <2>2 DEF Atc!TypeOK
  <2>7. Atc!TypeOK'
    BY <1>1, <2>1, <2>2, <2>5, <2>6 DEF Atc!TypeOK
  <2>8. ASSUME ~v16 PROVE Atc!AllHere'
    BY <1>1, <2>1, <2>6, <2>8 DEF Atc!AllHere
  <2>9. ASSUME ~v16, NEW d \in Atc!Fd, NEW k \in v15'[d] PROVE UnderWay(d, k)'
    <3>1. k \in v15[d] => [by |-> d, n |-> k] \in ToSet(v5[d]) \cup ToSet(v11) \cup ToSet(v12)
      BY <2>9, SameOperators DEF AtcInv, Atc!InFlight
    <3>2. [by |-> d, n |-> k] \in ToSet(v5'[d]) \cup ToSet(v11') \cup ToSet(v12')
      BY <2>1, <2>3, <2>4, <2>5, <2>6, <2>9, <3>1
    <3>3. QED
      BY <3>2, SameOperators DEF UnderWay
  <2>10. QED
    BY <2>1, <2>7, <2>8, <2>9, AtcKeeps
<1>4. ASSUME NEW c \in Atc!Fd, Atc!Leave(c) PROVE AtcInv'
  <2>1. /\ v4[c] = "here" /\ v4' = [v4 EXCEPT ![c] = "left"] /\ v16' = TRUE
        /\ v14' = [v14 EXCEPT ![c] = FALSE] /\ v15' = [v15 EXCEPT ![c] = {}]
        /\ UNCHANGED <<v1, v2, v3, v5, v6, v7, v8, v9, v10, v11, v12, v13>>
    BY <1>4 DEF Atc!Leave, Atc!callVars
  <2>2. v17' \in 0..AtcFaults
    BY <1>1, <1>4, AtcFault DEF Atc!Leave
  <2>3. Atc!ToSet(v3') = {d \in Atc!Fd : v4'[d] # "free"}
    BY <1>1, <2>1 DEF Atc!TypeOK
  <2>4. Atc!TypeOK'
    BY <1>1, <2>1, <2>2, <2>3 DEF Atc!TypeOK
  <2>5. QED
    BY <2>1, <2>4, AtcDeparted
<1>5. QED
  BY <1>2, <1>3, <1>4 DEF Atc!Client

LEMMA AtcNext ==
  ASSUME AtcInv, Atc!Next \/ UNCHANGED atc
  PROVE  AtcInv'
<1>1. CASE UNCHANGED atc
  BY <1>1 DEF atc, AtcInv, Atc!InFlightInv, Atc!TypeOK, Atc!AllHere, Atc!InFlight
<1>2. CASE Atc!Done /\ UNCHANGED Atc!vars
  <2>1. UNCHANGED atc
    BY <1>2 DEF atc, Atc!vars, Atc!pollVars, Atc!callVars, Atc!askVars
  <2>2. QED
    BY <1>1, <2>1
<1>3. Atc!TypeOK /\ (~v16 => Atc!AllHere) /\ v16 \in BOOLEAN
  BY DEF AtcInv, Atc!InFlightInv, Atc!TypeOK
<1>4. ASSUME NEW c \in Atc!Fd, Atc!Hup(c) PROVE AtcInv'
  <2>1. Atc!Cleanup(c) /\ v8' \subseteq v8 /\ v8 # {} /\ Atc!First.on = "hup"
    BY <1>4 DEF Atc!Hup, Atc!Pending, Atc!Rest, Atc!Is
  <2>2. v16
    <3>1. Atc!First \in v8
      BY <1>3, <2>1, FirstOfRound
    <3>2. ~Atc!AllHere
      BY <2>1, <3>1 DEF Atc!AllHere
    <3>3. QED
      BY <1>3, <3>2
  <2>3. QED
    BY <2>1, <2>2, AtcCleanup
<1>5. ASSUME NEW c \in Atc!Fd, Atc!ReadFails(c) PROVE AtcInv'
  <2>1. Atc!Cleanup(c) /\ v8' \subseteq v8 /\ v4[c] = "left"
    BY <1>5 DEF Atc!ReadFails
  <2>2. v16
    BY <1>3, <2>1 DEF Atc!AllHere
  <2>3. QED
    BY <2>1, <2>2, AtcCleanup
<1>6. CASE Atc!Loop
  BY <1>4, <1>5, <1>6, AtcPoll, AtcAccept, AtcRead, AtcReturn DEF Atc!Loop
<1>7. CASE Atc!Live
  BY <1>6, <1>7, AtcReturn, AtcLine, AtcRespond, AtcClient, AtcOpenServer, AtcDeviceLost DEF Atc!Live
<1>8. QED
  BY <1>1, <1>2, <1>7 DEF Atc!Next

-----------------------------------------------------------------------------
(* quectel-qrtr-proxy. open is v3, holds v4, ids v5, ports v6, servers v7, *)
(* toDev v8, fromDev v9, at v10, work v11, blocked v12, inbox v15, ask v16,*)
(* mine v18, taken v19.                                                    *)

LEMMA SameOperatorsQrtr ==
  /\ \A s : Qrtr!ToSet(s) = ToSet(s)
  /\ \A S : Qrtr!Min(S) = Min(S)
  /\ \A s, i : Qrtr!RemoveAt(s, i) = RemoveAt(s, i)
  /\ \A f : Qrtr!IsInjective(f) <=> IsInjective(f)
  /\ \A S : Qrtr!Cardinality(S) = Cardinality(S)
<1>1. \A s : Qrtr!ToSet(s) = ToSet(s)
  BY DEF Qrtr!ToSet, ToSet
<1>2. \A S : Qrtr!Min(S) = Min(S)
  BY DEF Qrtr!Min, Min
<1>3. \A s, i : Qrtr!RemoveAt(s, i) = RemoveAt(s, i)
  BY DEF Qrtr!RemoveAt, RemoveAt
<1>4. \A f : Qrtr!IsInjective(f) <=> IsInjective(f)
  BY DEF Qrtr!IsInjective, IsInjective
<1>5. \A S : Qrtr!Cardinality(S) = Cardinality(S)
  BY DEF Qrtr!Cardinality, Cardinality
<1>6. QED
  BY <1>1, <1>2, <1>3, <1>4, <1>5

\* What a connection holds is what is at the indices of its list.
LEMMA HeldAre ==
  ASSUME Qrtr!TypeOK, NEW c \in Qrtr!Client
  PROVE  /\ v4[c] \in Seq(Qrtr!Holding) /\ Len(v4[c]) \in Nat
         /\ \A i \in 1..Len(v4[c]) : v4[c][i] \in Qrtr!Held(c)
         /\ \A h \in Qrtr!Held(c) :
              /\ h \in Qrtr!Holding /\ h.svc \in Service /\ h.id \in 0..Ids /\ h.port \in 1..Ports
              /\ \E i \in 1..Len(v4[c]) : h = v4[c][i]
<1>1. v4[c] \in Seq(Qrtr!Holding) /\ Qrtr!Held(c) = ToSet(v4[c])
  BY SameOperatorsQrtr DEF Qrtr!TypeOK, Qrtr!Held
<1>2. /\ Len(v4[c]) \in Nat
      /\ \A i \in 1..Len(v4[c]) : v4[c][i] \in Qrtr!Held(c)
      /\ \A h \in Qrtr!Held(c) : h \in Qrtr!Holding /\ \E i \in 1..Len(v4[c]) : h = v4[c][i]
  BY <1>1, ElementsAreIndexed
<1>3. QED
  BY <1>1, <1>2 DEF Qrtr!Holding

\* find_qrtr_service() finds an entry of the list.
LEMMA ServerFound ==
  ASSUME Qrtr!TypeOK, NEW svc \in Service, Qrtr!Found(svc) # {}
  PROVE  Qrtr!Server(svc).addr \in Qrtr!Addr
<1>1. v7 \in Seq([svc : Service, addr : Qrtr!Addr]) /\ Len(v7) \in Nat
  BY DEF Qrtr!TypeOK
<1>2. Qrtr!Found(svc) \in SUBSET Nat /\ Qrtr!Found(svc) \subseteq 1..Len(v7)
  BY <1>1 DEF Qrtr!Found
<1>3. Min(Qrtr!Found(svc)) \in 1..Len(v7)
  BY <1>2, SmallestIndex
<1>4. Qrtr!Server(svc) \in [svc : Service, addr : Qrtr!Addr]
  BY <1>1, <1>3, SameOperatorsQrtr, ElementType DEF Qrtr!Server
<1>5. QED
  BY <1>4

\* alloc_client_id() gives an id that is free, or 0 when all are taken.
LEMMA FreeIdIs ==
  ASSUME Qrtr!TypeOK
  PROVE  /\ Qrtr!FreeId \in 0..Ids
         /\ Qrtr!FreeId # 0 => Qrtr!FreeId \in 1..Ids /\ Qrtr!FreeId \notin v5
         /\ Qrtr!FreeId = 0 => v5 = 1..Ids
<1>1. v5 \subseteq 1..Ids
  BY DEF Qrtr!TypeOK
<1>2. CASE 1..Ids \subseteq v5
  <2>1. Qrtr!FreeId = 0 /\ v5 = 1..Ids
    BY <1>1, <1>2 DEF Qrtr!FreeId
  <2>2. QED
    BY <2>1, QrtrAssumption
<1>3. CASE ~(1..Ids \subseteq v5)
  <2>1. (1..Ids) \ v5 \in SUBSET Nat /\ (1..Ids) \ v5 # {}
    BY <1>3
  <2>2. Min((1..Ids) \ v5) \in (1..Ids) \ v5
    BY <2>1, SmallestIndex
  <2>3. Qrtr!FreeId = Min((1..Ids) \ v5)
    BY <1>3, SameOperatorsQrtr DEF Qrtr!FreeId
  <2>4. QED
    BY <2>2, <2>3, QrtrAssumption
<1>4. QED
  BY <1>2, <1>3

\* alloc_port_id() gives a port that is not recorded, and one that can be
\* recorded if there is one.
LEMMA FreePortIs ==
  ASSUME Qrtr!TypeOK
  PROVE  /\ Qrtr!FreePort \in 1..Ports /\ Qrtr!FreePort \notin v6
         /\ ~(1..Byte \subseteq v6) => Qrtr!FreePort <= Byte
<1>1. v6 \subseteq 1..Byte
  BY DEF Qrtr!TypeOK
<1>2. Ports \in (1..Ports) \ v6 /\ (1..Ports) \ v6 \in SUBSET Nat
  BY <1>1, QrtrAssumption
<1>3. /\ Min((1..Ports) \ v6) \in (1..Ports) \ v6
      /\ \A i \in (1..Ports) \ v6 : Min((1..Ports) \ v6) <= i
  BY <1>2, SmallestIndex
<1>4. Qrtr!FreePort = Min((1..Ports) \ v6)
  BY SameOperatorsQrtr DEF Qrtr!FreePort
<1>5. ASSUME NEW q \in 1..Byte, q \notin v6 PROVE Qrtr!FreePort <= Byte
  <2>1. q \in (1..Ports) \ v6
    BY <1>5, QrtrAssumption
  <2>2. Qrtr!FreePort <= q /\ Qrtr!FreePort \in 1..Ports
    BY <1>3, <1>4, <2>1
  <2>3. QED
    BY <2>2, QrtrAssumption
<1>6. QED
  BY <1>3, <1>4, <1>5

\* The ports of those that hold an id.
WithId == {p \in 1..Byte : \E c \in Qrtr!Client : \E h \in Qrtr!Held(c) : h.id # 0 /\ h.port = p}

\* The bitmaps, read off what connections hold.
LEMMA BitmapsAre ==
  ASSUME Qrtr!HolderInv
  PROVE  /\ \A i : i \in v5 <=> i # 0 /\ \E c \in Qrtr!Client : \E h \in Qrtr!Held(c) : h.id = i
         /\ v6 = WithId \cup Qrtr!WithoutId
<1>1. Qrtr!TypeOK /\ Qrtr!Connections /\ Qrtr!Recorded
  BY DEF Qrtr!HolderInv
<1> DEFINE All == UNION {Qrtr!Held(c) : c \in v3}
<1>2. \A c \in Qrtr!Client : Qrtr!Held(c) # {} => c \in v3
  <2>1. \A c \in Qrtr!Client : v4[c] = <<>> => Qrtr!Held(c) = {}
    BY SameOperatorsQrtr, EmptyHasNone DEF Qrtr!Held
  <2>2. QED
    BY <1>1, <2>1 DEF Qrtr!Connections
<1>3. v3 \subseteq Qrtr!Client
  BY <1>1 DEF Qrtr!TypeOK
<1>4. \A h : h \in All <=> \E c \in Qrtr!Client : h \in Qrtr!Held(c)
  BY <1>2, <1>3
<1>5. v5 = {h.id : h \in All} \ {0} /\ v6 = {h.port : h \in All} \cap (1..Byte)
  BY <1>1 DEF Qrtr!Recorded
<1> HIDE DEF All
<1>6. \A i : i \in v5 <=> i # 0 /\ \E c \in Qrtr!Client : \E h \in Qrtr!Held(c) : h.id = i
  BY <1>4, <1>5
<1>7. \A p : p \in v6 <=> p \in 1..Byte /\ \E c \in Qrtr!Client : \E h \in Qrtr!Held(c) : h.port = p
  BY <1>4, <1>5
<1>8. v6 = WithId \cup Qrtr!WithoutId
  BY <1>7 DEF WithId, Qrtr!WithoutId
<1>9. QED
  BY <1>6, <1>8

\* There are as many ports with an id as ids in use.
LEMMA OnePortPerId ==
  ASSUME Qrtr!HolderInv
  PROVE  /\ IsFiniteSet(v5) /\ IsFiniteSet(WithId) /\ IsFiniteSet(Qrtr!WithoutId)
         /\ Cardinality(WithId) = Cardinality(v5)
<1>1. Qrtr!TypeOK /\ Qrtr!OneHolder
  BY DEF Qrtr!HolderInv
<1>2. IsFiniteSet(1..Ids) /\ IsFiniteSet(1..Byte)
  BY FS_Interval, QrtrAssumption
<1>3. IsFiniteSet(v5) /\ IsFiniteSet(WithId) /\ IsFiniteSet(Qrtr!WithoutId)
  BY <1>1, <1>2, FS_Subset DEF Qrtr!TypeOK, WithId, Qrtr!WithoutId
<1> DEFINE Of(i, p) == \E c \in Qrtr!Client : \E h \in Qrtr!Held(c) : h.id = i /\ h.port = p
           f == [i \in v5 |-> CHOOSE p \in WithId : Of(i, p)]
<1>4. ASSUME NEW i \in v5 PROVE f[i] \in WithId /\ Of(i, f[i])
  <2>1. PICK c \in Qrtr!Client : \E h \in Qrtr!Held(c) : h.id = i
    BY <1>4, BitmapsAre
  <2>2. PICK h \in Qrtr!Held(c) : h.id = i
    BY <2>1
  <2>3. h.id # 0 /\ h.port \in 1..Byte
    <3>1. i # 0
      BY <1>4, BitmapsAre
    <3>2. h.port <= Byte /\ h.port \in 1..Ports
      BY <1>1, <2>2, <3>1, HeldAre DEF Qrtr!OneHolder
    <3>3. QED
      BY <2>2, <3>1, <3>2, QrtrAssumption
  <2>4. h.port \in WithId /\ Of(i, h.port)
    BY <2>2, <2>3 DEF WithId
  <2>5. QED
    BY <2>4
<1>5. ASSUME NEW i \in v5, NEW j, NEW p, Of(i, p), Of(j, p), p \in 1..Byte PROVE i = j
  BY <1>1, <1>5 DEF Qrtr!OneHolder
<1>6. ASSUME NEW i \in v5, NEW p, NEW q, Of(i, p), Of(i, q) PROVE p = q
  <2>1. i # 0
    BY <1>6, BitmapsAre
  <2>2. QED
    BY <1>1, <1>6, <2>1 DEF Qrtr!OneHolder
<1>7. ASSUME NEW p \in WithId PROVE \E i \in v5 : f[i] = p
  <2>1. PICK c \in Qrtr!Client : \E h \in Qrtr!Held(c) : h.id # 0 /\ h.port = p
    BY <1>7 DEF WithId
  <2>2. PICK h \in Qrtr!Held(c) : h.id # 0 /\ h.port = p
    BY <2>1
  <2>3. h.id \in v5 /\ Of(h.id, p)
    BY <2>2, BitmapsAre
  <2>4. QED
    BY <1>4, <1>6, <2>3
<1>8. f \in [v5 -> WithId]
  BY <1>4
<1>9. \A i, j \in v5 : f[i] = f[j] => i = j
  <2>1. SUFFICES ASSUME NEW i \in v5, NEW j \in v5, f[i] = f[j] PROVE i = j
    OBVIOUS
  <2>2. Of(i, f[i]) /\ Of(j, f[i]) /\ f[i] \in 1..Byte
    BY <1>4, <2>1 DEF WithId
  <2>3. QED
    BY <1>5, <2>2
<1> HIDE DEF f
<1>10. f \in Surjection(v5, WithId) /\ f \in Injection(v5, WithId)
  BY <1>7, <1>8, <1>9 DEF Surjection, Injection, IsInjective
<1>11. Cardinality(WithId) = Cardinality(v5)
  BY <1>3, <1>10, FS_Surjection
<1>12. QED
  BY <1>3, <1>11

\* So long as there is an id there is a port that can be recorded.
LEMMA IdGetsRecordedPort ==
  ASSUME Qrtr!HolderInv, Qrtr!FreeId # 0
  PROVE  Qrtr!FreePort \in 1..Byte
<1>1. Qrtr!TypeOK /\ Qrtr!Room
  BY DEF Qrtr!HolderInv
<1>2. /\ IsFiniteSet(1..Ids) /\ Cardinality(1..Ids) = Ids
      /\ IsFiniteSet(1..Byte) /\ Cardinality(1..Byte) = Byte
  <2>1. \A n \in Nat : IsFiniteSet(1..n) /\ Cardinality(1..n) = n
    BY FS_Interval
  <2>2. QED
    BY <2>1, QrtrAssumption
<1>3. v5 \subseteq 1..Ids /\ v5 # 1..Ids
  BY <1>1, FreeIdIs DEF Qrtr!TypeOK
<1>4. Cardinality(v5) \in Nat /\ Cardinality(v5) < Ids
  <2>1. Cardinality(v5) <= Ids /\ Cardinality(v5) # Ids
    BY <1>2, <1>3, FS_Subset
  <2>2. Cardinality(v5) \in Nat
    BY OnePortPerId, FS_CardinalityType
  <2>3. QED
    BY <2>1, <2>2, QrtrAssumption
<1>5. Cardinality(v6) < Byte
  <2>1. v6 = WithId \cup Qrtr!WithoutId
    BY BitmapsAre
  <2>2. /\ IsFiniteSet(WithId \cap Qrtr!WithoutId)
        /\ Cardinality(v6) = Cardinality(WithId) + Cardinality(Qrtr!WithoutId)
                             - Cardinality(WithId \cap Qrtr!WithoutId)
    BY <2>1, OnePortPerId, FS_Union, FS_Intersection
  <2>3. Cardinality(WithId \cap Qrtr!WithoutId) \in Nat /\ Cardinality(Qrtr!WithoutId) \in Nat
    BY <2>2, OnePortPerId, FS_CardinalityType
  <2>4. Cardinality(WithId) = Cardinality(v5) /\ Cardinality(Qrtr!WithoutId) <= Byte - Ids
    <3>1. Cardinality(Qrtr!WithoutId) <= Byte - Ids
      BY <1>1, SameOperatorsQrtr DEF Qrtr!Room
    <3>2. QED
      BY <3>1, OnePortPerId
  <2>5. QED
    BY <1>4, <2>2, <2>3, <2>4, QrtrAssumption
<1>6. ~(1..Byte \subseteq v6)
  <2>1. v6 \subseteq 1..Byte
    BY <1>1 DEF Qrtr!TypeOK
  <2>2. v6 # 1..Byte
    BY <1>2, <1>5, QrtrAssumption
  <2>3. QED
    BY <2>1, <2>2
<1>7. QED
  BY <1>1, <1>6, FreePortIs, QrtrAssumption

\* What is held, as one property.
Holdings == Qrtr!OneHolder /\ Qrtr!HeldOnce /\ Qrtr!Room /\ Qrtr!Recorded

\* A step that leaves the lists and the bitmaps alone.
LEMMA SameHoldings ==
  ASSUME Holdings, UNCHANGED <<v3, v4, v5, v6>>
  PROVE  Holdings'
<1>1. Qrtr!OneHolder' /\ Qrtr!HeldOnce'
  BY DEF Holdings, Qrtr!OneHolder, Qrtr!HeldOnce, Qrtr!Held
<1>2. Qrtr!WithoutId' = Qrtr!WithoutId
  BY DEF Qrtr!WithoutId, Qrtr!Held
<1>3. Qrtr!Room'
  BY <1>2 DEF Holdings, Qrtr!Room
<1>4. Qrtr!Recorded'
  BY DEF Holdings, Qrtr!Recorded, Qrtr!Held
<1>5. QED
  BY <1>1, <1>3, <1>4 DEF Holdings

\* The bitmaps in terms of what each client holds, for a state where only
\* connections hold something.
LEMMA RecordedIf ==
  ASSUME NEW I, NEW P, NEW open \in SUBSET Qrtr!Client, NEW H,
         \A c \in Qrtr!Client \ open : H[c] = {},
         \A i : i \in I <=> i # 0 /\ \E c \in Qrtr!Client : \E h \in H[c] : h.id = i,
         \A p : p \in P <=> p \in 1..Byte /\ \E c \in Qrtr!Client : \E h \in H[c] : h.port = p
  PROVE  LET all == UNION {H[c] : c \in open}
         IN I = {h.id : h \in all} \ {0} /\ P = {h.port : h \in all} \cap (1..Byte)
<1> DEFINE all == UNION {H[c] : c \in open}
<1>1. \A h : h \in all <=> \E c \in Qrtr!Client : h \in H[c]
  OBVIOUS
<1> HIDE DEF all
<1>2. \A i : i \in I <=> i \in {h.id : h \in all} \ {0}
  BY <1>1
<1>3. \A p : p \in P <=> p \in {h.port : h \in all} \cap (1..Byte)
  BY <1>1
<1>4. I = {h.id : h \in all} \ {0} /\ P = {h.port : h \in all} \cap (1..Byte)
  BY <1>2, <1>3
<1>5. QED
  BY <1>4 DEF all

\* Less is held, and the bitmaps lose what is not held any more.
LEMMA LessHeld ==
  ASSUME Qrtr!HolderInv, v3' \in SUBSET Qrtr!Client,
         \A c \in Qrtr!Client : Qrtr!Held(c)' \subseteq Qrtr!Held(c),
         \A c \in Qrtr!Client \ v3' : Qrtr!Held(c)' = {},
         Qrtr!HeldOnce',
         \A i : i \in v5' <=> i \in v5 /\ \A c \in Qrtr!Client : \A h \in Qrtr!Held(c) \ Qrtr!Held(c)' : h.id # i,
         \A p : p \in v6' <=> p \in v6 /\ \A c \in Qrtr!Client : \A h \in Qrtr!Held(c) \ Qrtr!Held(c)' : h.port # p
  PROVE  Holdings'
<1>1. Qrtr!TypeOK /\ Qrtr!OneHolder /\ Qrtr!Room
  BY DEF Qrtr!HolderInv
<1>2. Qrtr!OneHolder'
  BY <1>1 DEF Qrtr!OneHolder
<1>3. Qrtr!Room'
  <2>1. Qrtr!WithoutId' \in SUBSET Qrtr!WithoutId
    BY DEF Qrtr!WithoutId
  <2>2. /\ Cardinality(Qrtr!WithoutId') <= Cardinality(Qrtr!WithoutId)
        /\ Cardinality(Qrtr!WithoutId') \in Nat /\ Cardinality(Qrtr!WithoutId) \in Nat
    BY <2>1, OnePortPerId, FS_Subset, FS_CardinalityType
  <2>3. Cardinality(Qrtr!WithoutId) <= Byte - Ids
    BY <1>1, SameOperatorsQrtr DEF Qrtr!Room
  <2>4. Cardinality(Qrtr!WithoutId') <= Byte - Ids
    BY <2>2, <2>3, QrtrAssumption
  <2>5. QED
    BY <2>4, SameOperatorsQrtr DEF Qrtr!Room
<1>4. ASSUME NEW i
      PROVE  i \in v5' <=> i # 0 /\ \E c \in Qrtr!Client : \E h \in Qrtr!Held(c)' : h.id = i
  <2>1. ASSUME i \in v5' PROVE i # 0 /\ \E c \in Qrtr!Client : \E h \in Qrtr!Held(c)' : h.id = i
    BY <2>1, BitmapsAre
  <2>2. ASSUME i # 0, NEW c \in Qrtr!Client, NEW h \in Qrtr!Held(c)', h.id = i PROVE i \in v5'
    <3>1. h \in Qrtr!Held(c)
      OBVIOUS
    <3>2. i \in v5
      BY <2>2, <3>1, BitmapsAre
    <3>3. ASSUME NEW d \in Qrtr!Client, NEW k \in Qrtr!Held(d) \ Qrtr!Held(d)', k.id = i PROVE FALSE
      BY <1>1, <2>2, <3>1, <3>3 DEF Qrtr!OneHolder
    <3>4. QED
      BY <3>2, <3>3
  <2>3. QED
    BY <2>1, <2>2
<1>5. ASSUME NEW p
      PROVE  p \in v6' <=> p \in 1..Byte /\ \E c \in Qrtr!Client : \E h \in Qrtr!Held(c)' : h.port = p
  <2>0. \A q : q \in v6 <=> q \in 1..Byte /\ \E c \in Qrtr!Client : \E h \in Qrtr!Held(c) : h.port = q
    BY BitmapsAre DEF WithId, Qrtr!WithoutId
  <2>1. ASSUME p \in v6'
        PROVE  p \in 1..Byte /\ \E c \in Qrtr!Client : \E h \in Qrtr!Held(c)' : h.port = p
    BY <2>0, <2>1
  <2>2. ASSUME p \in 1..Byte, NEW c \in Qrtr!Client, NEW h \in Qrtr!Held(c)', h.port = p PROVE p \in v6'
    <3>1. h \in Qrtr!Held(c)
      OBVIOUS
    <3>2. p \in v6
      BY <2>0, <2>2, <3>1
    <3>3. ASSUME NEW d \in Qrtr!Client, NEW k \in Qrtr!Held(d) \ Qrtr!Held(d)', k.port = p PROVE FALSE
      BY <1>1, <2>2, <3>1, <3>3 DEF Qrtr!OneHolder
    <3>4. QED
      BY <3>2, <3>3
  <2>3. QED
    BY <2>1, <2>2
<1>6. Qrtr!Recorded'
  <2> DEFINE H == [c \in Qrtr!Client |-> Qrtr!Held(c)']
             all == UNION {H[c] : c \in v3'}
  <2>1. \A c \in Qrtr!Client : H[c] = Qrtr!Held(c)'
    OBVIOUS
  <2> HIDE DEF H
  <2>2. v5' = {h.id : h \in all} \ {0} /\ v6' = {h.port : h \in all} \cap (1..Byte)
    <3>1. \A c \in Qrtr!Client \ v3' : H[c] = {}
      BY <2>1
    <3>2. \A i : i \in v5' <=> i # 0 /\ \E c \in Qrtr!Client : \E h \in H[c] : h.id = i
      BY <1>4, <2>1
    <3>3. \A p : p \in v6' <=> p \in 1..Byte /\ \E c \in Qrtr!Client : \E h \in H[c] : h.port = p
      BY <1>5, <2>1
    <3>4. QED
      BY <3>1, <3>2, <3>3, RecordedIf
  <2>3. all = UNION {Qrtr!Held(c)' : c \in v3'}
    BY <2>1
  <2>4. QED
    BY <2>2, <2>3 DEF Qrtr!Recorded
<1>7. QED
  BY <1>2, <1>3, <1>6 DEF Holdings

\* alloc_qrtr_client_id(): an id is nobody else's, and neither is a port that
\* can be recorded.
LEMMA AllocHolds ==
  ASSUME Qrtr!HolderInv, NEW c \in v3, NEW svc \in Service, Qrtr!Alloc(c, svc), v3' = v3
  PROVE  /\ Holdings' /\ v4' \in [Qrtr!Client -> Seq(Qrtr!Holding)]
         /\ v5' \subseteq 1..Ids /\ v6' \subseteq 1..Byte
         /\ \A d \in Qrtr!Client \ v3' : v4'[d] = v4[d]
<1>1. Qrtr!TypeOK /\ Qrtr!OneHolder /\ Qrtr!HeldOnce /\ Qrtr!Room /\ Qrtr!Connections
  BY DEF Qrtr!HolderInv
<1>2. c \in Qrtr!Client /\ v3 \subseteq Qrtr!Client
  BY <1>1 DEF Qrtr!TypeOK
<1>3. PICK new : new = [svc |-> svc, id |-> Qrtr!FreeId, port |-> Qrtr!FreePort]
  OBVIOUS
<1>4. /\ new.id = Qrtr!FreeId /\ new.port = Qrtr!FreePort /\ new \in Qrtr!Holding
      /\ new.id \in 0..Ids /\ new.port \in 1..Ports
  BY <1>1, <1>3, FreeIdIs, FreePortIs DEF Qrtr!Holding
<1>5. /\ v4' = [v4 EXCEPT ![c] = Append(@, new)]
      /\ v5' = v5 \cup ({new.id} \ {0}) /\ v6' = v6 \cup ({new.port} \cap (1..Byte))
  BY <1>3, <1>4 DEF Qrtr!Alloc
<1>6. /\ new.id \notin v5 /\ new.port \notin v6
      /\ (new.id # 0 => new.port \in 1..Byte) /\ (new.id = 0 => v5 = 1..Ids)
  <2>1. 0 \notin v5
    BY <1>1 DEF Qrtr!TypeOK
  <2>2. new.id # 0 => new.id \notin v5
    BY <1>1, <1>4, FreeIdIs
  <2>3. QED
    BY <1>1, <1>4, <2>1, <2>2, FreeIdIs, FreePortIs, IdGetsRecordedPort
<1>7. /\ v4[c] \in Seq(Qrtr!Holding) /\ Append(v4[c], new) \in Seq(Qrtr!Holding)
      /\ ToSet(Append(v4[c], new)) = ToSet(v4[c]) \cup {new}
  BY <1>1, <1>2, <1>4, AppendElements, HeldAre
<1>8. v4' \in [Qrtr!Client -> Seq(Qrtr!Holding)] /\ v4'[c] = Append(v4[c], new)
  BY <1>1, <1>2, <1>5, <1>7 DEF Qrtr!TypeOK
<1>9. /\ Qrtr!Held(c)' = Qrtr!Held(c) \cup {new}
      /\ \A d \in Qrtr!Client \ {c} : v4'[d] = v4[d] /\ Qrtr!Held(d)' = Qrtr!Held(d)
  BY <1>1, <1>2, <1>5, <1>7, <1>8, SameOperatorsQrtr DEF Qrtr!Held, Qrtr!TypeOK
<1>10. v5' \subseteq 1..Ids /\ v6' \subseteq 1..Byte
  <2>1. v5 \subseteq 1..Ids /\ v6 \subseteq 1..Byte
    BY <1>1 DEF Qrtr!TypeOK
  <2>2. {new.id} \ {0} \subseteq 1..Ids
    BY <1>4, QrtrAssumption
  <2>3. {new.port} \cap (1..Byte) \subseteq 1..Byte
    OBVIOUS
  <2>4. QED
    BY <1>5, <2>1, <2>2, <2>3, Zenon
<1>11. \A d \in Qrtr!Client : \A h \in Qrtr!Held(d) :
         /\ h.id \in 0..Ids /\ h.port \in 1..Ports
         /\ ~(new.id # 0 /\ h.id = new.id) /\ ~(new.port <= Byte /\ h.port = new.port)
  <2>1. SUFFICES ASSUME NEW d \in Qrtr!Client, NEW h \in Qrtr!Held(d)
                 PROVE  /\ h.id \in 0..Ids /\ h.port \in 1..Ports
                        /\ ~(new.id # 0 /\ h.id = new.id) /\ ~(new.port <= Byte /\ h.port = new.port)
    OBVIOUS
  <2>2. h.id \in 0..Ids /\ h.port \in 1..Ports
    BY <1>1, HeldAre
  <2>3. ~(new.id # 0 /\ h.id = new.id)
    BY <1>6, BitmapsAre
  <2>4. ~(new.port <= Byte /\ h.port = new.port)
    <3>1. h.port <= Byte => h.port \in v6
      BY <2>2, BitmapsAre, QrtrAssumption DEF WithId, Qrtr!WithoutId
    <3>2. QED
      BY <1>6, <3>1
  <2>5. QED
    BY <2>2, <2>3, <2>4
<1>12. Qrtr!OneHolder'
  <2>1. SUFFICES ASSUME NEW d \in Qrtr!Client, NEW e \in Qrtr!Client,
                        NEW h \in Qrtr!Held(d)', NEW k \in Qrtr!Held(e)'
                 PROVE  /\ (h.id # 0 /\ h.id = k.id) \/ (h.port <= Byte /\ h.port = k.port) => d = e /\ h = k
                        /\ h.id # 0 => h.port <= Byte
    BY DEF Qrtr!OneHolder
  <2>2. h \in Qrtr!Held(d) \/ (d = c /\ h = new)
    BY <1>9
  <2>3. k \in Qrtr!Held(e) \/ (e = c /\ k = new)
    BY <1>9
  <2>4. new.id # 0 => new.port <= Byte
    BY <1>6, QrtrAssumption
  <2>5. CASE h \in Qrtr!Held(d) /\ k \in Qrtr!Held(e)
    BY <1>1, <2>5 DEF Qrtr!OneHolder
  <2>6. CASE h \in Qrtr!Held(d) /\ e = c /\ k = new
    <3>1. h.id # 0 => h.port <= Byte
      BY <1>1, <2>6 DEF Qrtr!OneHolder
    <3>2. QED
      BY <1>11, <2>6, <3>1
  <2>7. CASE k \in Qrtr!Held(e) /\ d = c /\ h = new
    BY <1>11, <2>4, <2>7
  <2>8. CASE d = c /\ h = new /\ e = c /\ k = new
    BY <2>4, <2>8
  <2>9. QED
    BY <2>2, <2>3, <2>5, <2>6, <2>7, <2>8
<1>13. Qrtr!HeldOnce'
  <2>1. SUFFICES ASSUME NEW d \in Qrtr!Client, NEW i \in 1..Len(v4'[d]), NEW j \in 1..Len(v4'[d]),
                        v4'[d][i].id # 0, v4'[d][i] = v4'[d][j]
                 PROVE  i = j
    BY DEF Qrtr!HeldOnce
  <2>2. CASE d # c
    BY <1>1, <1>9, <2>1, <2>2 DEF Qrtr!HeldOnce
  <2>3. CASE d = c
    <3>1. /\ Len(v4'[c]) = Len(v4[c]) + 1 /\ Len(v4[c]) \in Nat
          /\ v4'[c][Len(v4[c]) + 1] = new /\ \A n \in 1..Len(v4[c]) : v4'[c][n] = v4[c][n]
      BY <1>4, <1>7, <1>8
    <3>2. \A n \in 1..Len(v4[c]) : v4[c][n] = new => new.id = 0
      BY <1>1, <1>2, <1>11, HeldAre
    <3>3. CASE i \in 1..Len(v4[c]) /\ j \in 1..Len(v4[c])
      BY <1>1, <1>2, <2>1, <2>3, <3>1, <3>3 DEF Qrtr!HeldOnce
    <3>4. v4'[c][i].id # 0 /\ v4'[c][i] = v4'[c][j] /\ i \in 1..Len(v4[c]) + 1 /\ j \in 1..Len(v4[c]) + 1
      BY <2>1, <2>3, <3>1
    <3>5. CASE i = Len(v4[c]) + 1 /\ j \in 1..Len(v4[c])
      BY <3>1, <3>2, <3>4, <3>5
    <3>6. CASE j = Len(v4[c]) + 1 /\ i \in 1..Len(v4[c])
      BY <3>1, <3>2, <3>4, <3>6
    <3>7. QED
      BY <3>1, <3>3, <3>4, <3>5, <3>6
  <2>4. QED
    BY <2>2, <2>3
<1>14. Qrtr!Room'
  <2>1. Cardinality(Qrtr!WithoutId) <= Byte - Ids
    BY <1>1, SameOperatorsQrtr DEF Qrtr!Room
  <2>2. CASE new.id # 0
    <3>1. Qrtr!WithoutId' = Qrtr!WithoutId
      BY <1>2, <1>9, <2>2 DEF Qrtr!WithoutId
    <3>2. QED
      BY <2>1, <3>1, SameOperatorsQrtr DEF Qrtr!Room
  <2>3. CASE new.id = 0
    <3>1. Cardinality(1..Ids) = Ids /\ IsFiniteSet(1..Byte) /\ Cardinality(1..Byte) = Byte
      <4>1. \A n \in Nat : IsFiniteSet(1..n) /\ Cardinality(1..n) = n
        BY FS_Interval
      <4>2. QED
        BY <4>1, QrtrAssumption
    <3>2. Cardinality(WithId) = Ids
      BY <1>6, <2>3, <3>1, OnePortPerId
    <3>3. WithId \subseteq 1..Byte /\ (1..Byte) \cap WithId = WithId
      BY DEF WithId
    <3>4. IsFiniteSet((1..Byte) \ WithId) /\ Cardinality((1..Byte) \ WithId) = Byte - Ids
      <4>1. /\ IsFiniteSet((1..Byte) \ WithId)
            /\ Cardinality((1..Byte) \ WithId) = Cardinality(1..Byte) - Cardinality((1..Byte) \cap WithId)
        BY <3>1, FS_Difference
      <4>2. QED
        BY <3>1, <3>2, <3>3, <4>1
    <3>5. Qrtr!WithoutId' \in SUBSET ((1..Byte) \ WithId)
      <4>1. SUFFICES ASSUME NEW p \in Qrtr!WithoutId' PROVE p \in (1..Byte) \ WithId
        OBVIOUS
      <4>2. p \in 1..Byte
        BY DEF Qrtr!WithoutId
      <4>3. PICK d \in Qrtr!Client : \E h \in Qrtr!Held(d)' : h.id = 0 /\ h.port = p
        BY DEF Qrtr!WithoutId
      <4>4. PICK h \in Qrtr!Held(d)' : h.id = 0 /\ h.port = p
        BY <4>3
      <4>5. ASSUME NEW e \in Qrtr!Client, NEW k \in Qrtr!Held(e), k.id # 0, k.port = p PROVE FALSE
        <5>1. k \in Qrtr!Held(e)'
          BY <1>9
        <5>2. QED
          BY <1>12, <4>2, <4>4, <4>5, <5>1, QrtrAssumption DEF Qrtr!OneHolder
      <4>6. QED
        BY <4>2, <4>5 DEF WithId
    <3>6. Cardinality(Qrtr!WithoutId') <= Byte - Ids
      BY <3>4, <3>5, FS_Subset
    <3>7. QED
      BY <3>6, SameOperatorsQrtr DEF Qrtr!Room
  <2>4. QED
    BY <2>2, <2>3
<1>15. Qrtr!Recorded'
  <2> DEFINE H == [d \in Qrtr!Client |-> Qrtr!Held(d)']
             all == UNION {H[d] : d \in v3'}
  <2>1. \A d \in Qrtr!Client : H[d] = Qrtr!Held(d)'
    OBVIOUS
  <2>2. \A i : i \in v5' <=> i # 0 /\ \E d \in Qrtr!Client : \E h \in Qrtr!Held(d)' : h.id = i
    BY <1>2, <1>5, <1>9, BitmapsAre
  <2>3. \A p : p \in v6' <=> p \in 1..Byte /\ \E d \in Qrtr!Client : \E h \in Qrtr!Held(d)' : h.port = p
    <3>1. \A q : q \in v6 <=> q \in 1..Byte /\ \E d \in Qrtr!Client : \E h \in Qrtr!Held(d) : h.port = q
      BY BitmapsAre DEF WithId, Qrtr!WithoutId
    <3>2. QED
      BY <1>2, <1>5, <1>9, <3>1
  <2>4. \A d \in Qrtr!Client \ v3' : Qrtr!Held(d)' = {}
    <3>1. \A d \in Qrtr!Client : v4[d] = <<>> => Qrtr!Held(d) = {}
      BY SameOperatorsQrtr, EmptyHasNone DEF Qrtr!Held
    <3>2. QED
      BY <1>1, <1>2, <1>9, <3>1 DEF Qrtr!Connections
  <2> HIDE DEF H
  <2>5. v5' = {h.id : h \in all} \ {0} /\ v6' = {h.port : h \in all} \cap (1..Byte)
    <3>1. \A d \in Qrtr!Client \ v3' : H[d] = {}
      BY <2>1, <2>4
    <3>2. \A i : i \in v5' <=> i # 0 /\ \E d \in Qrtr!Client : \E h \in H[d] : h.id = i
      BY <2>1, <2>2
    <3>3. \A p : p \in v6' <=> p \in 1..Byte /\ \E d \in Qrtr!Client : \E h \in H[d] : h.port = p
      BY <2>1, <2>3
    <3>4. v3' \in SUBSET Qrtr!Client
      BY <1>2
    <3>5. QED
      BY <3>1, <3>2, <3>3, <3>4, RecordedIf
  <2>6. all = UNION {Qrtr!Held(d)' : d \in v3'}
    BY <1>2, <2>1
  <2>7. QED
    BY <2>5, <2>6 DEF Qrtr!Recorded
<1>16. QED
  BY <1>2, <1>8, <1>9, <1>10, <1>12, <1>13, <1>14, <1>15 DEF Holdings

-----------------------------------------------------------------------------
(* The steps of quectel-qrtr-proxy.                                        *)

LEMMA QrtrConstants ==
  /\ Qrtr!AnyService \in Service /\ Qrtr!Nothing \in Qrtr!Request
  /\ 0 \in Qrtr!Addr /\ 1 \in 1..Ports /\ Qrtr!Client = 1..QrtrClients
<1>1. Qrtr!AnyService \in Service
  BY QrtrAssumption DEF Qrtr!AnyService
<1>2. QED
  BY <1>1, QrtrAssumption, MbimAssumption
     DEF Qrtr!Nothing, Qrtr!Qmi, Qrtr!Request, Qrtr!Addr, Qrtr!Client

\* A list of QRTR messages whose data are of requests out of recorded ports.
RecordedList(s) == s \in Seq(Qrtr!Packet) /\ \A i \in 1..Len(s) : Qrtr!FromRecorded(s[i])

LEMMA RecordedLists ==
  /\ RecordedList(<<>>)
  /\ \A s, t : RecordedList(s) /\ RecordedList(t) => RecordedList(s \o t)
  /\ \A s : \A p \in Qrtr!Packet :
       RecordedList(s) /\ Qrtr!FromRecorded(p) => RecordedList(Append(s, p))
  /\ \A s : RecordedList(s) /\ s # <<>> =>
       Head(s) \in Qrtr!Packet /\ Qrtr!FromRecorded(Head(s)) /\ RecordedList(Tail(s))
<1>1. RecordedList(<<>>)
  BY DEF RecordedList
<1>2. ASSUME NEW s, NEW t, RecordedList(s), RecordedList(t) PROVE RecordedList(s \o t)
  <2>1. /\ s \o t \in Seq(Qrtr!Packet) /\ Len(s \o t) = Len(s) + Len(t)
        /\ \A i \in 1..Len(s) : (s \o t)[i] = s[i]
        /\ \A i \in 1..Len(t) : (s \o t)[Len(s) + i] = t[i]
        /\ Len(s) \in Nat /\ Len(t) \in Nat
    BY <1>2, ConcatIndices DEF RecordedList
  <2>2. ASSUME NEW i \in 1..Len(s \o t) PROVE Qrtr!FromRecorded((s \o t)[i])
    <3>1. CASE i \in 1..Len(s)
      BY <1>2, <2>1, <3>1 DEF RecordedList
    <3>2. CASE i \notin 1..Len(s)
      <4>1. i - Len(s) \in 1..Len(t) /\ i = Len(s) + (i - Len(s))
        BY <2>1, <3>2
      <4>2. (s \o t)[i] = t[i - Len(s)]
        BY <2>1, <4>1
      <4>3. QED
        BY <1>2, <4>1, <4>2 DEF RecordedList
    <3>3. QED
      BY <3>1, <3>2
  <2>3. QED
    BY <2>1, <2>2 DEF RecordedList
<1>3. ASSUME NEW s, NEW p \in Qrtr!Packet, RecordedList(s), Qrtr!FromRecorded(p)
      PROVE  RecordedList(Append(s, p))
  <2>1. /\ Append(s, p) \in Seq(Qrtr!Packet) /\ Len(Append(s, p)) = Len(s) + 1 /\ Len(s) \in Nat
        /\ \A i \in 1..Len(s) : Append(s, p)[i] = s[i]
        /\ Append(s, p)[Len(s) + 1] = p
    BY <1>3 DEF RecordedList
  <2>2. ASSUME NEW i \in 1..Len(Append(s, p)) PROVE Qrtr!FromRecorded(Append(s, p)[i])
    BY <1>3, <2>1 DEF RecordedList
  <2>3. QED
    BY <2>1, <2>2 DEF RecordedList
<1>4. ASSUME NEW s, RecordedList(s), s # <<>>
      PROVE  Head(s) \in Qrtr!Packet /\ Qrtr!FromRecorded(Head(s)) /\ RecordedList(Tail(s))
  <2>1. /\ Head(s) \in Qrtr!Packet /\ Head(s) = s[1] /\ Tail(s) \in Seq(Qrtr!Packet)
        /\ Len(s) \in Nat \ {0} /\ Len(Tail(s)) = Len(s) - 1
        /\ \A i \in 1..Len(s) - 1 : Tail(s)[i] = s[i + 1]
    BY <1>4, HeadAndTail DEF RecordedList
  <2>2. \A i \in 1..Len(Tail(s)) : Qrtr!FromRecorded(Tail(s)[i])
    BY <1>4, <2>1 DEF RecordedList
  <2>3. Qrtr!FromRecorded(Head(s))
    BY <1>4, <2>1 DEF RecordedList
  <2>4. QED
    BY <2>1, <2>2, <2>3 DEF RecordedList
<1>5. QED
  BY <1>1, <1>2, <1>3, <1>4

\* What is on its way comes from holders of ports.
LEMMA OnTheWay ==
  ASSUME Qrtr!TypeOK
  PROVE  Qrtr!FromHolders <=>
           RecordedList(v8) /\ RecordedList(v9) /\ \A m \in v11 : Qrtr!FromRecorded(m)
  BY DEF Qrtr!TypeOK, Qrtr!FromHolders, RecordedList

\* A message that is no data is of no port's holder.
LEMMA ControlPacket ==
  ASSUME NEW type \in {"HELLO", "NEW_SERVER", "DEL_SERVER", "DEL_CLIENT", "RESUME_TX"},
         NEW svc \in Service, NEW addr \in Qrtr!Addr, NEW port \in 1..Ports
  PROVE  /\ Qrtr!Qrtr(type, svc, addr, port, 0, 0, FALSE) \in Qrtr!Packet
         /\ Qrtr!FromRecorded(Qrtr!Qrtr(type, svc, addr, port, 0, 0, FALSE))
<1>1. 0 \in 0..QrtrClients /\ 0 \in 0..MaxAsk
  BY QrtrAssumption, MbimAssumption
<1>2. QED
  BY <1>1 DEF Qrtr!Qrtr, Qrtr!Packet, Qrtr!FromRecorded

\* release_qrtr_client_id() tells the modem, for each one released.
LEMMA ReleasedTells ==
  ASSUME Qrtr!TypeOK, Qrtr!FromHolders, NEW gone \in Seq(Qrtr!Holding), Qrtr!Released(gone)
  PROVE  RecordedList(v8')
<1> DEFINE told == [i \in 1..Len(gone) |-> Qrtr!DelClient(gone[i])]
<1>1. ASSUME NEW h \in Qrtr!Holding
      PROVE  Qrtr!DelClient(h) \in Qrtr!Packet /\ Qrtr!FromRecorded(Qrtr!DelClient(h))
  <2>1. h.svc \in Service /\ h.port \in 1..Ports
    BY DEF Qrtr!Holding
  <2>2. PICK addr \in Qrtr!Addr : addr = IF Qrtr!Found(h.svc) = {} THEN 0 ELSE Qrtr!Server(h.svc).addr
    BY <2>1, ServerFound, QrtrConstants
  <2>3. Qrtr!DelClient(h) = Qrtr!Qrtr("DEL_CLIENT", h.svc, addr, h.port, 0, 0, FALSE)
    BY <2>2 DEF Qrtr!DelClient
  <2>4. QED
    BY <2>1, <2>3, ControlPacket
<1>2. \A i \in 1..Len(gone) : gone[i] \in Qrtr!Holding
  BY ElementType
<1>3. \A i \in 1..Len(gone) : told[i] \in Qrtr!Packet /\ Qrtr!FromRecorded(told[i])
  BY <1>1, <1>2
<1>4. Len(gone) \in Nat /\ DOMAIN told = 1..Len(gone) /\ told \in [1..Len(gone) -> Qrtr!Packet]
  BY <1>3
<1> HIDE DEF told
<1>5. told \in Seq(Qrtr!Packet) /\ Len(told) = Len(gone)
  BY <1>4
<1>6. RecordedList(told) /\ RecordedList(v8)
  BY <1>3, <1>5, OnTheWay DEF RecordedList
<1>7. v8' = v8 \o told
  BY DEF Qrtr!Released, told
<1>8. QED
  BY <1>6, <1>7, RecordedLists

\* qrtr_proxy_init() and main(): opening the device and the socket, giving up.
LEMMA QrtrSession ==
  ASSUME Qrtr!HolderInv, Qrtr!OpenDevice \/ Qrtr!OpenServer \/ Qrtr!GiveUp
  PROVE  Qrtr!HolderInv' /\ v19' = {}
<1>1. Qrtr!TypeOK /\ Qrtr!Connections /\ Qrtr!OwnRequests /\ Qrtr!FromHolders /\ Qrtr!Restarted /\ Holdings
  BY DEF Qrtr!HolderInv, Holdings
<1>2. /\ v1' \in {"closed", "hello", "serving", "dead"} /\ v19' = {}
      /\ v3' = v3 /\ (v1' = "serving" \/ v3 = {})
      /\ v7' \in Seq([svc : Service, addr : Qrtr!Addr])
      /\ RecordedList(v8') /\ RecordedList(v9')
      /\ UNCHANGED <<v2, v4, v5, v6, v10, v11, v12, v13, v14, v15, v16, v17, v18>>
  <2>1. CASE Qrtr!OpenDevice
    <3>1. RecordedList(<<Qrtr!Qrtr("HELLO", Qrtr!AnyService, 0, 1, 0, 0, FALSE)>>)
      <4> DEFINE hello == Qrtr!Qrtr("HELLO", Qrtr!AnyService, 0, 1, 0, 0, FALSE)
      <4>1. hello \in Qrtr!Packet /\ Qrtr!FromRecorded(hello)
        BY ControlPacket, QrtrConstants
      <4> HIDE DEF hello
      <4>2. <<hello>> \in Seq(Qrtr!Packet) /\ Len(<<hello>>) = 1 /\ <<hello>>[1] = hello
        BY <4>1
      <4>3. RecordedList(<<hello>>)
        BY <4>1, <4>2 DEF RecordedList
      <4>4. QED
        BY <4>3 DEF hello
    <3>2. v3 = {} /\ v3' = {}
      BY <1>1, <2>1 DEF Qrtr!OpenDevice, Qrtr!Connections
    <3>3. QED
      BY <2>1, <3>1, <3>2, RecordedLists DEF Qrtr!OpenDevice, Qrtr!modemVars, Qrtr!clientVars
  <2>2. CASE Qrtr!OpenServer
    BY <1>1, <2>2, OnTheWay DEF Qrtr!OpenServer, Qrtr!proxyVars, Qrtr!modemVars, Qrtr!clientVars, Qrtr!TypeOK
  <2>3. CASE Qrtr!GiveUp
    BY <1>1, <2>3, RecordedLists
       DEF Qrtr!GiveUp, Qrtr!proxyVars, Qrtr!modemVars, Qrtr!clientVars, Qrtr!TypeOK, Qrtr!Connections
  <2>4. QED
    BY <2>1, <2>2, <2>3
<1>3. Qrtr!TypeOK'
  BY <1>1, <1>2 DEF Qrtr!TypeOK, RecordedList
<1>4. Qrtr!Connections' /\ Qrtr!OwnRequests' /\ Qrtr!Restarted'
  BY <1>1, <1>2 DEF Qrtr!Connections, Qrtr!OwnRequests, Qrtr!Restarted
<1>5. Qrtr!FromHolders'
  BY <1>1, <1>2, OnTheWay DEF Qrtr!FromHolders, RecordedList
<1>6. Holdings'
  BY <1>1, <1>2, SameHoldings
<1>7. QED
  BY <1>2, <1>3, <1>4, <1>5, <1>6 DEF Qrtr!HolderInv, Holdings

\* The end of qrtr_proxy_loop(): every connection is cleaned up.
LEMMA QrtrDeviceLost ==
  ASSUME Qrtr!HolderInv, Qrtr!DeviceLost
  PROVE  Qrtr!HolderInv' /\ v19' = {}
<1>1. Qrtr!TypeOK /\ Qrtr!Connections /\ Qrtr!Restarted
  BY DEF Qrtr!HolderInv
<1> DEFINE all == UNION {Qrtr!Held(c) : c \in v3}
<1>2. /\ v1' = "closed" /\ v3' = {} /\ v4' = [c \in Qrtr!Client |-> <<>>]
      /\ v5' = v5 \ {h.id : h \in all} /\ v6' = v6 \ {h.port : h \in all}
      /\ v8' = <<>> /\ v9' = <<>> /\ v19' = {} /\ v11' = {} /\ v12' = {}
      /\ v2' = [c \in Qrtr!Client |-> IF c \in v3 THEN "gone" ELSE v2[c]]
      /\ v15' = [c \in Qrtr!Client |-> <<>>]
      /\ v16' = [c \in Qrtr!Client |-> Qrtr!Nothing] /\ v18' = [c \in Qrtr!Client |-> {}]
      /\ v14 > 0 /\ v14' = v14 - 1
      /\ UNCHANGED <<v7, v10, v13, v17>>
  BY DEF Qrtr!DeviceLost, Qrtr!Held
<1>3. Qrtr!TypeOK'
  <2>1. v4' \in [Qrtr!Client -> Seq(Qrtr!Holding)] /\ v15' \in [Qrtr!Client -> Seq(Qrtr!Request)]
    BY <1>2
  <2>2. v2' \in [Qrtr!Client -> {"out", "in", "gone"}]
    BY <1>1, <1>2 DEF Qrtr!TypeOK
  <2>3. v16' \in [Qrtr!Client -> Qrtr!Request] /\ v18' \in [Qrtr!Client -> SUBSET (1..Ids)]
    BY <1>2, QrtrConstants
  <2>4. v14' \in 0..MaxFaults
    BY <1>1, <1>2, QrtrAssumption DEF Qrtr!TypeOK
  <2>5. /\ v5' \subseteq 1..Ids /\ v6' \subseteq 1..Byte
        /\ v8' \in Seq(Qrtr!Packet) /\ v9' \in Seq(Qrtr!Packet)
    <3>1. v5 \subseteq 1..Ids /\ v6 \subseteq 1..Byte
      BY <1>1 DEF Qrtr!TypeOK
    <3>2. \A S, T, U : S \subseteq U => S \ T \subseteq U
      OBVIOUS
    <3>3. v8' \in Seq(Qrtr!Packet) /\ v9' \in Seq(Qrtr!Packet)
      BY <1>2
    <3>4. QED
      BY <1>2, <3>1, <3>2, <3>3, Zenon
  <2>6. QED
    BY <1>1, <1>2, <2>1, <2>2, <2>3, <2>4, <2>5 DEF Qrtr!TypeOK
<1>4. Qrtr!Connections' /\ Qrtr!Restarted'
  BY <1>1, <1>2 DEF Qrtr!Connections, Qrtr!Restarted
<1>5. Qrtr!OwnRequests'
  <2>1. \A c \in Qrtr!Client : v15'[c] = <<>> /\ Len(<<>>) = 0
    BY <1>2
  <2>2. QED
    BY <2>1 DEF Qrtr!OwnRequests
<1>6. Qrtr!FromHolders'
  BY <1>2 DEF Qrtr!FromHolders
<1>7. Holdings'
  <2>1. \A c \in Qrtr!Client : v4'[c] = <<>> /\ Qrtr!Held(c)' = {}
    <3>1. \A c \in Qrtr!Client : v4'[c] = <<>>
      BY <1>2
    <3>2. QED
      BY <3>1, SameOperatorsQrtr, EmptyHasNone DEF Qrtr!Held
  <2>2. Qrtr!HeldOnce'
    BY <2>1 DEF Qrtr!HeldOnce
  <2>3. \A h : h \in all <=> \E c \in Qrtr!Client : h \in Qrtr!Held(c)
    <3>1. \A c \in Qrtr!Client : v4[c] = <<>> => Qrtr!Held(c) = {}
      BY SameOperatorsQrtr, EmptyHasNone DEF Qrtr!Held
    <3>2. v3 \subseteq Qrtr!Client
      BY <1>1 DEF Qrtr!TypeOK
    <3>3. QED
      BY <1>1, <3>1, <3>2 DEF Qrtr!Connections
  <2> HIDE DEF all
  <2>4. \A i : i \in v5' <=> i \in v5 /\ \A c \in Qrtr!Client : \A h \in Qrtr!Held(c) \ Qrtr!Held(c)' : h.id # i
    BY <1>2, <2>1, <2>3
  <2>5. \A p : p \in v6' <=> p \in v6 /\ \A c \in Qrtr!Client : \A h \in Qrtr!Held(c) \ Qrtr!Held(c)' : h.port # p
    BY <1>2, <2>1, <2>3
  <2>6. v3' \in SUBSET Qrtr!Client
    BY <1>2
  <2>7. QED
    BY <2>1, <2>2, <2>4, <2>5, <2>6, LessHeld
<1>8. QED
  BY <1>2, <1>3, <1>4, <1>5, <1>6, <1>7 DEF Qrtr!HolderInv, Holdings

\* SIGPIPE: nothing is held by a process that is gone.
LEMMA QrtrKilled ==
  ASSUME Qrtr!HolderInv, Qrtr!Killed
  PROVE  Qrtr!HolderInv' /\ v19' = {}
<1>1. Qrtr!TypeOK /\ Qrtr!Connections /\ Qrtr!Restarted /\ Qrtr!Recorded
  BY DEF Qrtr!HolderInv
<1> DEFINE all == UNION {Qrtr!Held(c) : c \in v3}
<1>2. /\ v1' = "dead" /\ v3' = {} /\ v4' = [c \in Qrtr!Client |-> <<>>]
      /\ v5' = {} /\ v6' = {} /\ v7' = <<>>
      /\ v8' = <<>> /\ v9' = <<>> /\ v19' = {} /\ v11' = {}
      /\ v2' = [c \in Qrtr!Client |-> IF c \in v3 THEN "gone" ELSE v2[c]]
      /\ v15' = [c \in Qrtr!Client |-> <<>>]
      /\ v16' = [c \in Qrtr!Client |-> Qrtr!Nothing] /\ v18' = [c \in Qrtr!Client |-> {}]
      /\ UNCHANGED <<v10, v12, v13, v14, v17>>
  BY DEF Qrtr!Killed
<1>3. Qrtr!TypeOK'
  <2>1. v4' \in [Qrtr!Client -> Seq(Qrtr!Holding)] /\ v15' \in [Qrtr!Client -> Seq(Qrtr!Request)]
    BY <1>2
  <2>2. v2' \in [Qrtr!Client -> {"out", "in", "gone"}]
    BY <1>1, <1>2 DEF Qrtr!TypeOK
  <2>3. v16' \in [Qrtr!Client -> Qrtr!Request] /\ v18' \in [Qrtr!Client -> SUBSET (1..Ids)]
    BY <1>2, QrtrConstants
  <2>4. /\ v7' \in Seq([svc : Service, addr : Qrtr!Addr])
        /\ v8' \in Seq(Qrtr!Packet) /\ v9' \in Seq(Qrtr!Packet)
    BY <1>2
  <2>5. QED
    BY <1>1, <1>2, <2>1, <2>2, <2>3, <2>4 DEF Qrtr!TypeOK
<1>4. Qrtr!Connections' /\ Qrtr!Restarted'
  BY <1>1, <1>2 DEF Qrtr!Connections, Qrtr!Restarted
<1>5. Qrtr!OwnRequests'
  <2>1. \A c \in Qrtr!Client : v15'[c] = <<>> /\ Len(<<>>) = 0
    BY <1>2
  <2>2. QED
    BY <2>1 DEF Qrtr!OwnRequests
<1>6. Qrtr!FromHolders'
  BY <1>2 DEF Qrtr!FromHolders
<1>7. Holdings'
  <2>1. \A c \in Qrtr!Client : v4'[c] = <<>> /\ Qrtr!Held(c)' = {}
    <3>1. \A c \in Qrtr!Client : v4'[c] = <<>>
      BY <1>2
    <3>2. QED
      BY <3>1, SameOperatorsQrtr, EmptyHasNone DEF Qrtr!Held
  <2>2. Qrtr!HeldOnce'
    BY <2>1 DEF Qrtr!HeldOnce
  <2>3. v3 \subseteq Qrtr!Client
    BY <1>1 DEF Qrtr!TypeOK
  <2>4. v5 = {h.id : h \in all} \ {0} /\ v6 = {h.port : h \in all} \cap (1..Byte)
    BY <1>1 DEF Qrtr!Recorded
  <2>5. \A h \in all : \E c \in Qrtr!Client : h \in Qrtr!Held(c) \ Qrtr!Held(c)'
    BY <2>1, <2>3
  <2> HIDE DEF all
  <2>6. \A i : i \in v5' <=> i \in v5 /\ \A c \in Qrtr!Client : \A h \in Qrtr!Held(c) \ Qrtr!Held(c)' : h.id # i
    BY <1>2, <2>4, <2>5
  <2>7. \A p : p \in v6' <=> p \in v6 /\ \A c \in Qrtr!Client : \A h \in Qrtr!Held(c) \ Qrtr!Held(c)' : h.port # p
    BY <1>2, <2>4, <2>5
  <2>8. v3' \in SUBSET Qrtr!Client
    BY <1>2
  <2>9. QED
    BY <2>1, <2>2, <2>6, <2>7, <2>8, LessHeld
<1>8. QED
  BY <1>2, <1>3, <1>4, <1>5, <1>6, <1>7 DEF Qrtr!HolderInv, Holdings

\* accept_qrtr_connection(): a connection that holds nothing.
LEMMA QrtrAccept ==
  ASSUME Qrtr!HolderInv, NEW c \in Qrtr!Client, Qrtr!Accept(c)
  PROVE  Qrtr!HolderInv' /\ v19' = {}
<1>1. Qrtr!TypeOK /\ Qrtr!Connections /\ Qrtr!OwnRequests /\ Qrtr!FromHolders /\ Qrtr!Restarted /\ Qrtr!OneHolder /\ Qrtr!HeldOnce
  BY DEF Qrtr!HolderInv
<1>2. /\ v1 = "serving" /\ v2' = [v2 EXCEPT ![c] = "in"] /\ v3' = v3 \cup {c} /\ v19' = {}
      /\ UNCHANGED <<v1, v4, v5, v6, v7, v8, v9, v10, v11, v12, v13, v14, v15, v16, v17, v18>>
  BY DEF Qrtr!Accept, Qrtr!modemVars
<1>3. Qrtr!TypeOK'
  <2>1. v2' \in [Qrtr!Client -> {"out", "in", "gone"}] /\ v3' \subseteq Qrtr!Client
    BY <1>1, <1>2 DEF Qrtr!TypeOK
  <2>2. QED
    BY <1>1, <1>2, <2>1 DEF Qrtr!TypeOK
<1>4. Qrtr!Connections' /\ Qrtr!OwnRequests' /\ Qrtr!Restarted' /\ Qrtr!FromHolders'
  BY <1>1, <1>2 DEF Qrtr!Connections, Qrtr!OwnRequests, Qrtr!Restarted, Qrtr!FromHolders
<1>5. Holdings'
  <2>1. \A d \in Qrtr!Client : Qrtr!Held(d)' = Qrtr!Held(d)
    BY <1>2 DEF Qrtr!Held
  <2>2. Qrtr!HeldOnce'
    BY <1>1, <1>2 DEF Qrtr!HeldOnce
  <2>3. \A d \in Qrtr!Client : v4[d] = <<>> => Qrtr!Held(d) = {}
    BY SameOperatorsQrtr, EmptyHasNone DEF Qrtr!Held
  <2>4. v3' \in SUBSET Qrtr!Client /\ \A d \in Qrtr!Client \ v3' : Qrtr!Held(d)' = {}
    BY <1>1, <1>2, <2>1, <2>3 DEF Qrtr!Connections, Qrtr!TypeOK
  <2>5. QED
    BY <1>2, <2>1, <2>2, <2>4, LessHeld
<1>6. QED
  BY <1>2, <1>3, <1>4, <1>5 DEF Qrtr!HolderInv, Holdings

\* cleanup_qrtr_connection(): all that the connection holds is released.
LEMMA QrtrCleanup ==
  ASSUME Qrtr!HolderInv, NEW c \in Qrtr!Client, Qrtr!Cleanup(c)
  PROVE  Qrtr!HolderInv' /\ v19' = {}
<1>1. Qrtr!TypeOK /\ Qrtr!Connections /\ Qrtr!OwnRequests /\ Qrtr!FromHolders /\ Qrtr!Restarted /\ Qrtr!HeldOnce
  BY DEF Qrtr!HolderInv
<1>2. /\ Qrtr!Released(v4[c]) /\ v3' = v3 \ {c} /\ v4' = [v4 EXCEPT ![c] = <<>>]
      /\ v15' = [v15 EXCEPT ![c] = <<>>] /\ v19' = {}
      /\ UNCHANGED <<v1, v2, v7, v9, v10, v11, v12, v13, v14, v16, v17, v18>>
  BY DEF Qrtr!Cleanup, Qrtr!modemVars
<1>3. v4[c] \in Seq(Qrtr!Holding) /\ RecordedList(v8')
  BY <1>1, <1>2, HeldAre, ReleasedTells
<1>4. /\ v5' = v5 \ {v4[c][i].id : i \in 1..Len(v4[c])} /\ v6' = v6 \ {v4[c][i].port : i \in 1..Len(v4[c])}
  BY <1>2 DEF Qrtr!Released
<1>5. Qrtr!TypeOK'
  <2>1. v4' \in [Qrtr!Client -> Seq(Qrtr!Holding)] /\ v15' \in [Qrtr!Client -> Seq(Qrtr!Request)]
    BY <1>1, <1>2 DEF Qrtr!TypeOK
  <2>2. v5' \subseteq 1..Ids /\ v6' \subseteq 1..Byte /\ v3' \subseteq Qrtr!Client
    BY <1>1, <1>2, <1>4 DEF Qrtr!TypeOK
  <2>3. QED
    BY <1>1, <1>2, <1>3, <2>1, <2>2 DEF Qrtr!TypeOK, RecordedList
<1>6. /\ v4'[c] = <<>> /\ v15'[c] = <<>>
      /\ \A d \in Qrtr!Client \ {c} : v4'[d] = v4[d] /\ v15'[d] = v15[d]
  BY <1>1, <1>2 DEF Qrtr!TypeOK
<1>7. Qrtr!Connections' /\ Qrtr!OwnRequests' /\ Qrtr!Restarted'
  BY <1>1, <1>2, <1>6 DEF Qrtr!Connections, Qrtr!OwnRequests, Qrtr!Restarted
<1>8. Qrtr!FromHolders'
  BY <1>1, <1>2, <1>3, OnTheWay DEF Qrtr!FromHolders, RecordedList
<1>9. Holdings'
  <2>1. Qrtr!Held(c)' = {} /\ \A d \in Qrtr!Client \ {c} : Qrtr!Held(d)' = Qrtr!Held(d)
    BY <1>6, SameOperatorsQrtr, EmptyHasNone DEF Qrtr!Held
  <2>2. Qrtr!HeldOnce'
    BY <1>1, <1>6 DEF Qrtr!HeldOnce
  <2>3. \A d \in Qrtr!Client : v4[d] = <<>> => Qrtr!Held(d) = {}
    BY SameOperatorsQrtr, EmptyHasNone DEF Qrtr!Held
  <2>4. v3' \in SUBSET Qrtr!Client /\ \A d \in Qrtr!Client \ v3' : Qrtr!Held(d)' = {}
    BY <1>1, <1>2, <2>1, <2>3 DEF Qrtr!Connections, Qrtr!TypeOK
  <2>5. \A h : h \in Qrtr!Held(c) <=> \E i \in 1..Len(v4[c]) : h = v4[c][i]
    BY <1>1, HeldAre
  <2>6. \A i : i \in v5' <=> i \in v5 /\ \A d \in Qrtr!Client : \A h \in Qrtr!Held(d) \ Qrtr!Held(d)' : h.id # i
    BY <1>4, <2>1, <2>5
  <2>7. \A p : p \in v6' <=> p \in v6 /\ \A d \in Qrtr!Client : \A h \in Qrtr!Held(d) \ Qrtr!Held(d)' : h.port # p
    BY <1>4, <2>1, <2>5
  <2>8. QED
    BY <2>1, <2>2, <2>4, <2>6, <2>7, LessHeld
<1>10. QED
  BY <1>2, <1>5, <1>7, <1>8, <1>9 DEF Qrtr!HolderInv, Holdings

\* The holding that a request names is one of the client's.
LEMMA NamedIs ==
  ASSUME Qrtr!TypeOK, NEW c \in Qrtr!Client, NEW m
  PROVE  \/ Qrtr!Named(c, m) = 0
         \/ /\ Qrtr!Named(c, m) \in 1..Len(v4[c])
            /\ v4[c][Qrtr!Named(c, m)].svc = m.svc /\ v4[c][Qrtr!Named(c, m)].id = m.id
<1> DEFINE I == {i \in 1..Len(v4[c]) : v4[c][i].svc = m.svc /\ v4[c][i].id = m.id}
<1>1. Qrtr!Named(c, m) = IF I # {} THEN Min(I) ELSE 0
  BY SameOperatorsQrtr DEF Qrtr!Named, Qrtr!SelectInSeq
<1>2. Len(v4[c]) \in Nat
  BY HeldAre
<1>3. I \in SUBSET Nat
  BY <1>2
<1> HIDE DEF I
<1>4. I # {} => Min(I) \in I
  BY <1>3, SmallestIndex
<1>5. QED
  BY <1>1, <1>4 DEF I

\* release_qrtr_client_id() takes out the one that has the id.
LEMMA ReleaseHolds ==
  ASSUME Qrtr!HolderInv, NEW c \in v3, NEW k \in 1..Len(v4[c]), v4[c][k].id # 0,
         Qrtr!Released(<<v4[c][k]>>), v4' = [v4 EXCEPT ![c] = Qrtr!RemoveAt(@, k)], v3' = v3
  PROVE  /\ Holdings' /\ v4' \in [Qrtr!Client -> Seq(Qrtr!Holding)]
         /\ v5' \subseteq 1..Ids /\ v6' \subseteq 1..Byte /\ RecordedList(v8')
         /\ \A d \in Qrtr!Client \ v3' : v4'[d] = v4[d]
<1>1. Qrtr!TypeOK /\ Qrtr!HeldOnce /\ Qrtr!Connections /\ Qrtr!FromHolders
  BY DEF Qrtr!HolderInv
<1>2. c \in Qrtr!Client /\ v3 \subseteq Qrtr!Client
  BY <1>1 DEF Qrtr!TypeOK
<1>3. PICK gone \in Qrtr!Holding : gone = v4[c][k]
  BY <1>1, <1>2, HeldAre, ElementType
<1>4. Qrtr!Released(<<gone>>) /\ <<gone>> \in Seq(Qrtr!Holding) /\ Len(<<gone>>) = 1 /\ <<gone>>[1] = gone
  BY <1>3
<1>5. RecordedList(v8')
  BY <1>1, <1>4, ReleasedTells
<1>6. v5' = v5 \ {gone.id} /\ v6' = v6 \ {gone.port}
  BY <1>4 DEF Qrtr!Released
<1>7. \A i \in 1..Len(v4[c]) : v4[c][i] = v4[c][k] => i = k
  BY <1>1, <1>2 DEF Qrtr!HeldOnce
<1>8. PICK t \in Seq(Qrtr!Holding) :
        /\ t = RemoveAt(v4[c], k) /\ ToSet(t) = ToSet(v4[c]) \ {gone}
        /\ \A i, j \in 1..Len(t) : i # j =>
             \E a, b \in 1..Len(v4[c]) : a # b /\ t[i] = v4[c][a] /\ t[j] = v4[c][b]
  <2>1. v4[c] \in Seq(Qrtr!Holding)
    BY <1>1, <1>2, HeldAre
  <2>2. \E t \in Seq(Qrtr!Holding) :
          /\ t = RemoveAt(v4[c], k) /\ ToSet(t) = ToSet(v4[c]) \ {v4[c][k]}
          /\ \A i, j \in 1..Len(t) : i # j =>
               \E a, b \in 1..Len(v4[c]) : a # b /\ t[i] = v4[c][a] /\ t[j] = v4[c][b]
    <3>1. PICK s \in Seq(Qrtr!Holding) : s = v4[c]
      BY <2>1
    <3>2. k \in 1..Len(s) /\ \A i \in 1..Len(s) : s[i] = s[k] => i = k
      BY <1>7, <3>1
    <3>3. \E t \in Seq(Qrtr!Holding) :
            /\ t = RemoveAt(s, k) /\ ToSet(t) = ToSet(s) \ {s[k]}
            /\ \A i, j \in 1..Len(t) : i # j =>
                 \E a, b \in 1..Len(s) : a # b /\ t[i] = s[a] /\ t[j] = s[b]
      BY <3>2, RemovedOnce
    <3>4. QED
      BY <3>1, <3>3
  <2>3. QED
    BY <1>3, <2>2
<1>9. v4' = [v4 EXCEPT ![c] = t]
  BY <1>8, SameOperatorsQrtr
<1>10. /\ v4' \in [Qrtr!Client -> Seq(Qrtr!Holding)] /\ v4'[c] = t
       /\ \A d \in Qrtr!Client \ {c} : v4'[d] = v4[d]
  BY <1>1, <1>2, <1>9 DEF Qrtr!TypeOK
<1>11. /\ Qrtr!Held(c)' = Qrtr!Held(c) \ {gone} /\ gone \in Qrtr!Held(c)
       /\ \A d \in Qrtr!Client \ {c} : Qrtr!Held(d)' = Qrtr!Held(d)
  BY <1>1, <1>2, <1>3, <1>8, <1>10, SameOperatorsQrtr, HeldAre DEF Qrtr!Held
<1>12. Qrtr!HeldOnce'
  <2>1. SUFFICES ASSUME NEW d \in Qrtr!Client, NEW i \in 1..Len(v4'[d]), NEW j \in 1..Len(v4'[d]),
                        v4'[d][i].id # 0, v4'[d][i] = v4'[d][j]
                 PROVE  i = j
    BY DEF Qrtr!HeldOnce
  <2>2. CASE d # c
    BY <1>1, <1>10, <2>1, <2>2 DEF Qrtr!HeldOnce
  <2>3. CASE d = c
    <3>1. SUFFICES ASSUME i # j PROVE FALSE
      OBVIOUS
    <3>2. PICK a \in 1..Len(v4[c]), b \in 1..Len(v4[c]) : a # b /\ t[i] = v4[c][a] /\ t[j] = v4[c][b]
      BY <1>8, <1>10, <2>1, <2>3, <3>1
    <3>3. QED
      BY <1>1, <1>2, <1>10, <2>1, <2>3, <3>2 DEF Qrtr!HeldOnce
  <2>4. QED
    BY <2>2, <2>3
<1>13. \A d \in Qrtr!Client \ v3' : Qrtr!Held(d)' = {} /\ v4'[d] = v4[d]
  <2>1. \A d \in Qrtr!Client : v4[d] = <<>> => Qrtr!Held(d) = {}
    BY SameOperatorsQrtr, EmptyHasNone DEF Qrtr!Held
  <2>2. QED
    BY <1>1, <1>10, <1>11, <2>1 DEF Qrtr!Connections
<1>14. Holdings'
  <2>1. \A i : i \in v5' <=> i \in v5 /\ \A d \in Qrtr!Client : \A h \in Qrtr!Held(d) \ Qrtr!Held(d)' : h.id # i
    BY <1>2, <1>6, <1>11
  <2>2. \A p : p \in v6' <=> p \in v6 /\ \A d \in Qrtr!Client : \A h \in Qrtr!Held(d) \ Qrtr!Held(d)' : h.port # p
    BY <1>2, <1>6, <1>11
  <2>3. /\ \A d \in Qrtr!Client : Qrtr!Held(d)' \subseteq Qrtr!Held(d)
        /\ v3' \in SUBSET Qrtr!Client
    BY <1>2, <1>11
  <2>4. QED
    BY <1>12, <1>13, <2>1, <2>2, <2>3, LessHeld
<1>15. v5' \subseteq 1..Ids /\ v6' \subseteq 1..Byte
  BY <1>1, <1>6 DEF Qrtr!TypeOK
<1>16. QED
  BY <1>5, <1>10, <1>13, <1>14, <1>15

\* What a client asks for is its own request, and for its own id.
LEMMA QrtrInbox ==
  ASSUME Qrtr!TypeOK, Qrtr!OwnRequests, NEW c \in Qrtr!Client, v15[c] # <<>>
  PROVE  /\ Head(v15[c]) \in Qrtr!Request /\ Head(v15[c]).by = c
         /\ Head(v15[c]).type \in {"RELEASE", "SVC"} => Head(v15[c]).id # 0
<1>1. v15[c] \in Seq(Qrtr!Request)
  BY DEF Qrtr!TypeOK
<1>2. Head(v15[c]) \in Qrtr!Request /\ Head(v15[c]) = v15[c][1] /\ 1 \in 1..Len(v15[c])
  BY <1>1, HeadAndTail
<1>3. QED
  BY <1>2 DEF Qrtr!OwnRequests

\* Taking an answer leaves types alone.
LEMMA AnswerTaken ==
  ASSUME Qrtr!TypeOK, NEW c \in Qrtr!Client, NEW m, NEW id \in 0..Ids, Qrtr!TakeAnswer(c, m, id)
  PROVE  v16' \in [Qrtr!Client -> Qrtr!Request] /\ v18' \in [Qrtr!Client -> SUBSET (1..Ids)]
<1>1. v16' = [v16 EXCEPT ![c] = IF m = v16[c] THEN Qrtr!Nothing ELSE v16[c]]
  BY DEF Qrtr!TakeAnswer, Qrtr!TypeOK
<1>2. v16' \in [Qrtr!Client -> Qrtr!Request]
  BY <1>1, QrtrConstants DEF Qrtr!TypeOK
<1>3. v18' = [v18 EXCEPT ![c] = IF m = v16[c] /\ m.type = "GET" THEN v18[c] \cup ({id} \ {0}) ELSE v18[c]]
  BY DEF Qrtr!TakeAnswer, Qrtr!TypeOK
<1>4. v18[c] \in SUBSET (1..Ids) /\ {id} \ {0} \in SUBSET (1..Ids) /\ v18 \in [Qrtr!Client -> SUBSET (1..Ids)]
  BY QrtrAssumption DEF Qrtr!TypeOK
<1>5. v18[c] \cup ({id} \ {0}) \in SUBSET (1..Ids)
  BY <1>4
<1>6. v18' \in [Qrtr!Client -> SUBSET (1..Ids)]
  BY <1>3, <1>4, <1>5
<1>7. QED
  BY <1>2, <1>6

\* recv_qmi_from_client(): what each kind of message does to the holdings, to
\* what the modem is sent and to what clients know.
LEMMA QrtrMessage ==
  ASSUME Qrtr!HolderInv, NEW c \in v3, NEW m \in Qrtr!Request, v3' = v3,
         m.by = c, m.type \in {"RELEASE", "SVC"} => m.id # 0,
         \/ UNCHANGED <<v8, v4, v5, v6, v16, v18>>
         \/ m.type = "GET" /\ Qrtr!Get(c, m)
         \/ m.type = "RELEASE" /\ Qrtr!Release(c, m)
         \/ Qrtr!TakeAnswer(c, m, 0) /\ UNCHANGED <<v8, v4, v5, v6>>
         \/ m.type = "SVC" /\ Qrtr!Send(c, m)
  PROVE  /\ Holdings' /\ RecordedList(v8')
         /\ v4' \in [Qrtr!Client -> Seq(Qrtr!Holding)] /\ v5' \subseteq 1..Ids /\ v6' \subseteq 1..Byte
         /\ v16' \in [Qrtr!Client -> Qrtr!Request] /\ v18' \in [Qrtr!Client -> SUBSET (1..Ids)]
         /\ \A d \in Qrtr!Client \ v3' : v4'[d] = v4[d]
<1>1. Qrtr!TypeOK /\ Qrtr!FromHolders /\ Qrtr!OneHolder /\ Holdings
  BY DEF Qrtr!HolderInv, Holdings
<1>2. c \in Qrtr!Client /\ m.svc \in Service /\ 0 \in 0..Ids /\ RecordedList(v8)
  <2>1. m.svc \in Service /\ 0 \in 0..Ids
    BY QrtrAssumption DEF Qrtr!Request
  <2>2. QED
    BY <1>1, <2>1, OnTheWay DEF Qrtr!TypeOK
<1>3. UNCHANGED <<v4, v5, v6>> => /\ Holdings' /\ v4' \in [Qrtr!Client -> Seq(Qrtr!Holding)]
                                  /\ v5' \subseteq 1..Ids /\ v6' \subseteq 1..Byte
                                  /\ \A d \in Qrtr!Client \ v3' : v4'[d] = v4[d]
  BY <1>1, SameHoldings DEF Qrtr!TypeOK
<1>4. UNCHANGED <<v16, v18>> =>
        v16' \in [Qrtr!Client -> Qrtr!Request] /\ v18' \in [Qrtr!Client -> SUBSET (1..Ids)]
  BY <1>1 DEF Qrtr!TypeOK
<1>5. CASE UNCHANGED <<v8, v4, v5, v6, v16, v18>>
  BY <1>2, <1>3, <1>4, <1>5
<1>6. CASE m.type = "GET" /\ Qrtr!Get(c, m)
  <2>1. PICK id \in 0..Ids : Qrtr!TakeAnswer(c, m, id)
    BY <1>1, <1>2, <1>6, FreeIdIs DEF Qrtr!Get
  <2>2. v8' = v8 /\ (UNCHANGED <<v4, v5, v6>> \/ Qrtr!Alloc(c, m.svc))
    BY <1>6 DEF Qrtr!Get
  <2>3. QED
    BY <1>1, <1>2, <1>3, <2>1, <2>2, AnswerTaken, AllocHolds
<1>7. CASE m.type = "RELEASE" /\ Qrtr!Release(c, m)
  <2>1. Qrtr!TakeAnswer(c, m, 0)
    BY <1>7 DEF Qrtr!Release
  <2>2. CASE Qrtr!Named(c, m) = 0
    <3>1. UNCHANGED <<v8, v4, v5, v6>>
      BY <1>7, <2>2 DEF Qrtr!Release
    <3>2. QED
      BY <1>1, <1>2, <1>3, <2>1, <3>1, AnswerTaken
  <2>3. CASE Qrtr!Named(c, m) # 0
    <3>1. PICK k \in 1..Len(v4[c]) : k = Qrtr!Named(c, m) /\ v4[c][k].id # 0
      BY <1>1, <1>2, <1>7, <2>3, NamedIs
    <3>2. Qrtr!Released(<<v4[c][k]>>) /\ v4' = [v4 EXCEPT ![c] = Qrtr!RemoveAt(@, k)]
      BY <1>7, <2>3, <3>1 DEF Qrtr!Release
    <3>3. QED
      BY <1>1, <1>2, <2>1, <3>1, <3>2, AnswerTaken, ReleaseHolds
  <2>4. QED
    BY <2>2, <2>3
<1>8. CASE Qrtr!TakeAnswer(c, m, 0) /\ UNCHANGED <<v8, v4, v5, v6>>
  BY <1>1, <1>2, <1>3, <1>8, AnswerTaken
<1>9. CASE m.type = "SVC" /\ Qrtr!Send(c, m)
  <2>1. UNCHANGED <<v4, v5, v6, v16, v18>>
    BY <1>9 DEF Qrtr!Send
  <2>2. CASE v8' = v8
    BY <1>2, <1>3, <1>4, <2>1, <2>2
  <2>3. CASE v8' # v8
    <3>1. Qrtr!Named(c, m) # 0 /\ Qrtr!Found(m.svc) # {}
      BY <1>9, <2>3 DEF Qrtr!Send
    <3>2. PICK k \in 1..Len(v4[c]) : k = Qrtr!Named(c, m) /\ v4[c][k].id # 0
      BY <1>1, <1>2, <1>9, <3>1, NamedIs
    <3>3. PICK p : p = Qrtr!Qrtr("DATA", m.svc, Qrtr!Server(m.svc).addr, v4[c][k].port, m.by, m.n, FALSE)
      OBVIOUS
    <3>4. v8' = Append(v8, p)
      BY <1>9, <3>1, <3>2, <3>3 DEF Qrtr!Send
    <3>5. v4[c][k].port \in 1..Ports /\ v4[c][k].port <= Byte
      BY <1>1, <1>2, <3>2, HeldAre DEF Qrtr!OneHolder
    <3>6. Qrtr!Server(m.svc).addr \in Qrtr!Addr
      BY <1>1, <1>2, <3>1, ServerFound
    <3>7. m.by \in 0..QrtrClients /\ m.n \in 0..MaxAsk
      BY DEF Qrtr!Request
    <3>8. p \in Qrtr!Packet
      BY <1>2, <3>3, <3>5, <3>6, <3>7 DEF Qrtr!Qrtr, Qrtr!Packet
    <3>9. Qrtr!FromRecorded(p)
      BY <1>2, <3>3, <3>5 DEF Qrtr!Qrtr, Qrtr!FromRecorded
    <3>10. RecordedList(v8')
      BY <1>2, <3>4, <3>8, <3>9, RecordedLists
    <3>11. QED
      BY <1>3, <1>4, <2>1, <3>10
  <2>4. QED
    BY <2>2, <2>3
<1>10. QED
  BY <1>5, <1>6, <1>7, <1>8, <1>9

LEMMA QrtrRead ==
  ASSUME Qrtr!HolderInv, NEW c \in Qrtr!Client, Qrtr!Read(c)
  PROVE  Qrtr!HolderInv' /\ v19' = {}
<1> SUFFICES ASSUME v1 = "serving", c \in v3, v15[c] # <<>>, Qrtr!Take(c)
             PROVE  Qrtr!HolderInv' /\ v19' = {}
  BY QrtrKilled DEF Qrtr!Read
<1>1. Qrtr!TypeOK /\ Qrtr!Connections /\ Qrtr!OwnRequests /\ Qrtr!FromHolders /\ Qrtr!Restarted
  BY DEF Qrtr!HolderInv
<1>2. /\ v1 = "serving" /\ c \in v3 /\ v15[c] # <<>>
      /\ v15' = [v15 EXCEPT ![c] = <<>>] /\ v19' = {}
      /\ UNCHANGED <<v1, v2, v3, v7, v9, v10, v11, v12, v13, v14, v17>>
  BY DEF Qrtr!Take, Qrtr!modemVars
<1>3. PICK m \in Qrtr!Request : m = Head(v15[c]) /\ m.by = c /\ (m.type \in {"RELEASE", "SVC"} => m.id # 0)
  BY <1>1, <1>2, QrtrInbox
<1>4. \/ UNCHANGED <<v8, v4, v5, v6, v16, v18>>
      \/ m.type = "GET" /\ Qrtr!Get(c, m)
      \/ m.type = "RELEASE" /\ Qrtr!Release(c, m)
      \/ Qrtr!TakeAnswer(c, m, 0) /\ UNCHANGED <<v8, v4, v5, v6>>
      \/ m.type = "SVC" /\ Qrtr!Send(c, m)
  BY <1>3 DEF Qrtr!Take
<1>5. /\ Holdings' /\ RecordedList(v8')
      /\ v4' \in [Qrtr!Client -> Seq(Qrtr!Holding)] /\ v5' \subseteq 1..Ids /\ v6' \subseteq 1..Byte
      /\ v16' \in [Qrtr!Client -> Qrtr!Request] /\ v18' \in [Qrtr!Client -> SUBSET (1..Ids)]
      /\ \A d \in Qrtr!Client \ v3' : v4'[d] = v4[d]
  BY <1>2, <1>3, <1>4, QrtrMessage
<1>6. v15' \in [Qrtr!Client -> Seq(Qrtr!Request)]
  BY <1>1, <1>2 DEF Qrtr!TypeOK
<1>7. Qrtr!TypeOK'
  BY <1>1, <1>2, <1>5, <1>6 DEF Qrtr!TypeOK, RecordedList
<1>8. Qrtr!Connections' /\ Qrtr!Restarted'
  BY <1>1, <1>2, <1>5 DEF Qrtr!Connections, Qrtr!Restarted
<1>9. Qrtr!OwnRequests'
  <2>1. v15'[c] = <<>> /\ \A d \in Qrtr!Client \ {c} : v15'[d] = v15[d]
    BY <1>1, <1>2 DEF Qrtr!TypeOK
  <2>2. QED
    BY <1>1, <2>1 DEF Qrtr!OwnRequests
<1>10. Qrtr!FromHolders'
  BY <1>1, <1>2, <1>5, OnTheWay DEF Qrtr!FromHolders, RecordedList
<1>11. QED
  BY <1>2, <1>5, <1>7, <1>8, <1>9, <1>10 DEF Qrtr!HolderInv, Holdings

\* recv_qrtr_from_dev(): the answer goes to who has the port, and that is one
\* connection alone if the port is recorded.
LEMMA QrtrFromDev ==
  ASSUME Qrtr!HolderInv, Qrtr!FromDev
  PROVE  Qrtr!HolderInv' /\ Qrtr!ToHolder'
<1>0. CASE Qrtr!Killed
  BY <1>0, QrtrKilled DEF Qrtr!ToHolder
<1> SUFFICES ASSUME v9 # <<>>, Qrtr!Pass(Head(v9))
             PROVE  Qrtr!HolderInv' /\ Qrtr!ToHolder'
  BY <1>0 DEF Qrtr!FromDev
<1>1. /\ Qrtr!TypeOK /\ Qrtr!Connections /\ Qrtr!OwnRequests /\ Qrtr!FromHolders /\ Qrtr!Restarted
      /\ Qrtr!OneHolder /\ Holdings
  BY DEF Qrtr!HolderInv, Holdings
<1>2. PICK m : m = Head(v9)
  OBVIOUS
<1>3. /\ v9 # <<>> /\ v9' = Tail(v9)
      /\ UNCHANGED <<v1, v2, v3, v4, v5, v6, v10, v11, v12, v13, v14, v15, v17, v18>>
  BY DEF Qrtr!Pass, Qrtr!modemVars
<1>4. \/ m.type = "HELLO" /\ v8' = Append(v8, m) /\ v19' = {} /\ UNCHANGED <<v7, v16>>
      \/ m.type \in {"NEW_SERVER", "DEL_SERVER"} /\ Qrtr!ServerChange(m) /\ v19' = {} /\ UNCHANGED <<v8, v16>>
      \/ m.type = "DATA" /\ Qrtr!Data(m) /\ UNCHANGED v7
  BY <1>2 DEF Qrtr!Pass
<1>5. /\ m \in Qrtr!Packet /\ Qrtr!FromRecorded(m) /\ RecordedList(v9')
      /\ RecordedList(v8) /\ RecordedList(v9)
  BY <1>1, <1>2, <1>3, OnTheWay, RecordedLists
<1>6. m.svc \in Service /\ m.addr \in Qrtr!Addr /\ m.port \in 1..Ports
  BY <1>5 DEF Qrtr!Packet
<1>7. v7' \in Seq([svc : Service, addr : Qrtr!Addr])
  <2>1. PICK e \in [svc : Service, addr : Qrtr!Addr] : e = [svc |-> m.svc, addr |-> m.addr]
    BY <1>6
  <2>2. v7 \in Seq([svc : Service, addr : Qrtr!Addr])
    BY <1>1 DEF Qrtr!TypeOK
  <2>3. v7' = v7 \/ v7' = Append(v7, e)
    BY <1>4, <2>1 DEF Qrtr!ServerChange
  <2>4. Append(v7, e) \in Seq([svc : Service, addr : Qrtr!Addr])
    BY <2>2, AppendElements
  <2>5. QED
    BY <2>2, <2>3, <2>4
<1>8. RecordedList(v8')
  <2>1. CASE v8' = v8
    BY <1>5, <2>1
  <2>2. CASE v8' = Append(v8, m)
    BY <1>5, <2>2, RecordedLists
  <2>3. CASE v8' = Append(v8, Qrtr!Qrtr("RESUME_TX", m.svc, m.addr, m.port, 0, 0, FALSE))
    BY <1>5, <1>6, <2>3, ControlPacket, RecordedLists
  <2>4. QED
    BY <1>4, <2>1, <2>2, <2>3 DEF Qrtr!Data, Qrtr!Resume
<1>9. v16' \in [Qrtr!Client -> Qrtr!Request]
  <2>1. v16' = v16 \/ \E to : v16' = [c \in Qrtr!Client |-> IF c \in to THEN Qrtr!Nothing ELSE v16[c]]
    BY <1>4 DEF Qrtr!Data
  <2>2. QED
    BY <1>1, <2>1, QrtrConstants DEF Qrtr!TypeOK
<1>10. \A p \in v19' : /\ p \in Qrtr!Client \X Qrtr!Packet /\ p[2] = m /\ m.type = "DATA"
                       /\ p[1] \in v3 /\ \E i \in 1..Len(v4[p[1]]) : v4[p[1]][i].port = m.port
  <2>1. CASE v19' = {}
    BY <2>1
  <2>2. CASE m.type = "DATA" /\ Qrtr!Data(m)
    <3>1. v19' = {<<c, m>> : c \in {d \in Qrtr!Receivers(m) : Qrtr!Matches(d, m)}}
      BY <2>2 DEF Qrtr!Data
    <3>2. \A c \in Qrtr!Receivers(m) : c \in Qrtr!Client /\ c \in v3 /\ \E i \in 1..Len(v4[c]) : v4[c][i].port = m.port
      BY <1>1 DEF Qrtr!Receivers, Qrtr!TypeOK
    <3>3. QED
      BY <1>5, <2>2, <3>1, <3>2
  <2>3. QED
    BY <1>4, <2>1, <2>2
<1>11. Qrtr!TypeOK'
  <2>1. v19' \subseteq Qrtr!Client \X Qrtr!Packet
    BY <1>10
  <2>2. QED
    BY <1>1, <1>3, <1>5, <1>7, <1>8, <1>9, <2>1 DEF Qrtr!TypeOK, RecordedList
<1>12. Qrtr!Connections' /\ Qrtr!Restarted' /\ Qrtr!OwnRequests'
  BY <1>1, <1>3 DEF Qrtr!Connections, Qrtr!Restarted, Qrtr!OwnRequests
<1>13. Qrtr!FromHolders'
  BY <1>1, <1>3, <1>5, <1>8, OnTheWay DEF Qrtr!FromHolders, RecordedList
<1>14. Holdings'
  BY <1>1, <1>3, SameHoldings
<1>15. Qrtr!ToHolder'
  <2>1. SUFFICES ASSUME NEW p \in v19', NEW h \in Qrtr!Held(p[2].by)', h.port = p[2].port PROVE p[2].by = p[1]
    BY DEF Qrtr!ToHolder
  <2>2. /\ p[2] = m /\ p[1] \in Qrtr!Client /\ m.by \in Qrtr!Client /\ m.port <= Byte
    BY <1>5, <1>10 DEF Qrtr!FromRecorded
  <2>3. h \in Qrtr!Held(m.by) /\ h.port = m.port
    BY <1>3, <2>1, <2>2 DEF Qrtr!Held
  <2>4. PICK i \in 1..Len(v4[p[1]]) : v4[p[1]][i].port = m.port
    BY <1>10
  <2>5. v4[p[1]][i] \in Qrtr!Held(p[1])
    BY <1>1, <2>2, HeldAre
  <2>6. QED
    BY <1>1, <2>2, <2>3, <2>4, <2>5 DEF Qrtr!OneHolder
<1>16. QED
  BY <1>11, <1>12, <1>13, <1>14, <1>15 DEF Qrtr!HolderInv, Holdings

\* A step of the modem leaves to the proxy what it holds.
LEMMA QrtrByModem ==
  ASSUME Qrtr!HolderInv, v19' = {},
         RecordedList(v8'), RecordedList(v9'),
         v11' \subseteq Qrtr!Packet, \A m \in v11' : Qrtr!FromRecorded(m),
         v10' \in [Service -> Qrtr!Addr], v12' \subseteq 1..Ports, v13' \in 0..MaxRestarts,
         \A s \in Service : v10'[s] + v13' <= MaxRestarts,
         UNCHANGED <<v1, v2, v3, v4, v5, v6, v7, v14, v15, v16, v17, v18>>
  PROVE  Qrtr!HolderInv' /\ v19' = {}
<1>1. Qrtr!TypeOK /\ Qrtr!Connections /\ Qrtr!OwnRequests /\ Holdings
  BY DEF Qrtr!HolderInv, Holdings
<1>2. Qrtr!TypeOK'
  BY <1>1 DEF Qrtr!TypeOK, RecordedList
<1>3. Qrtr!Connections' /\ Qrtr!OwnRequests' /\ Qrtr!Restarted'
  BY <1>1 DEF Qrtr!Connections, Qrtr!OwnRequests, Qrtr!Restarted
<1>4. Qrtr!FromHolders'
  BY DEF Qrtr!FromHolders, RecordedList
<1>5. Holdings'
  BY <1>1, SameHoldings
<1>6. QED
  BY <1>2, <1>3, <1>4, <1>5 DEF Qrtr!HolderInv, Holdings

\* A HELLO is answered with a list of the servers.
LEMMA ServersAnnounced ==
  ASSUME Qrtr!TypeOK
  PROVE  RecordedList(Qrtr!SetToSeq({Qrtr!Announce("NEW_SERVER", s, v10[s]) : s \in Service}))
<1> DEFINE T == {Qrtr!Announce("NEW_SERVER", s, v10[s]) : s \in Service}
           f == [s \in Service |-> Qrtr!Announce("NEW_SERVER", s, v10[s])]
<1>1. f \in Surjection(Service, T)
  BY DEF Surjection
<1>2. IsFiniteSet(T)
  BY <1>1, FS_Surjection, QrtrAssumption
<1>3. \A p \in T : p \in Qrtr!Packet /\ Qrtr!FromRecorded(p)
  <2>1. \A s \in Service : v10[s] \in Qrtr!Addr
    BY DEF Qrtr!TypeOK
  <2>2. ASSUME NEW s \in Service
        PROVE  /\ Qrtr!Announce("NEW_SERVER", s, v10[s]) \in Qrtr!Packet
               /\ Qrtr!FromRecorded(Qrtr!Announce("NEW_SERVER", s, v10[s]))
    BY <2>1, ControlPacket, QrtrConstants DEF Qrtr!Announce
  <2>3. QED
    BY <2>2
<1> HIDE DEF T, f
<1>4. Qrtr!SetToSeq(T) = SetToSeq(T)
  BY DEF Qrtr!SetToSeq, SetToSeq, Qrtr!Cardinality, Cardinality, Qrtr!IsInjective, IsInjective
<1>5. SetToSeq(T) \in Seq(T)
  BY <1>2, SetAsList
<1>6. RecordedList(SetToSeq(T))
  <2>1. PICK s \in Seq(T) : s = SetToSeq(T)
    BY <1>5
  <2>2. \A i \in 1..Len(s) : s[i] \in T
    BY ElementType
  <2>3. s \in Seq(Qrtr!Packet)
    BY <1>3, <2>2
  <2>4. QED
    BY <1>3, <2>1, <2>2, <2>3 DEF RecordedList
<1>7. QED
  BY <1>4, <1>6 DEF T

LEMMA QrtrModem ==
  ASSUME Qrtr!HolderInv, Qrtr!Modem
  PROVE  Qrtr!HolderInv' /\ v19' = {}
<1>1. Qrtr!TypeOK /\ Qrtr!FromHolders /\ Qrtr!Restarted
  BY DEF Qrtr!HolderInv
<1>2. PICK m : m = Head(v8)
  OBVIOUS
<1>3. /\ v8 # <<>> /\ v8' = Tail(v8) /\ v19' = {}
      /\ UNCHANGED <<v1, v2, v3, v4, v5, v6, v7, v10, v13, v14, v15, v16, v17, v18>>
  BY DEF Qrtr!Modem, Qrtr!proxyVars, Qrtr!clientVars
<1>4. /\ RecordedList(v8) /\ RecordedList(v9) /\ RecordedList(v8')
      /\ m \in Qrtr!Packet /\ Qrtr!FromRecorded(m) /\ \A w \in v11 : Qrtr!FromRecorded(w)
  BY <1>1, <1>2, <1>3, OnTheWay, RecordedLists
<1>5. RecordedList(v9')
  <2>1. \/ v9' = v9
        \/ v9' = v9 \o Qrtr!SetToSeq({Qrtr!Announce("NEW_SERVER", s, v10[s]) : s \in Service})
    BY <1>2 DEF Qrtr!Modem
  <2>2. QED
    BY <1>1, <1>4, <2>1, ServersAnnounced, RecordedLists
<1>6. v11' \subseteq v11 \cup {m}
  <2>1. v11' = CASE m.type = "DATA" /\ m.addr = v10[m.svc] -> v11 \cup {m}
                 [] m.type = "DEL_CLIENT" -> {w \in v11 : w.port # m.port}
                 [] OTHER -> v11
    BY <1>2 DEF Qrtr!Modem
  <2>2. m.type = "DATA" => m.type # "DEL_CLIENT"
    OBVIOUS
  <2>3. v11' = v11 \cup {m} \/ v11' = {w \in v11 : w.port # m.port} \/ v11' = v11
    BY <2>1, <2>2, Zenon
  <2>4. QED
    BY <2>3
<1>7. v11' \subseteq Qrtr!Packet /\ \A w \in v11' : Qrtr!FromRecorded(w)
  BY <1>1, <1>4, <1>6 DEF Qrtr!TypeOK
<1>8. v12' \subseteq 1..Ports
  <2>1. v12' = v12 \/ v12' = v12 \ {m.port}
    BY <1>2 DEF Qrtr!Modem
  <2>2. QED
    BY <1>1, <2>1 DEF Qrtr!TypeOK
<1>9. /\ v10' \in [Service -> Qrtr!Addr] /\ v13' \in 0..MaxRestarts
      /\ \A s \in Service : v10'[s] + v13' <= MaxRestarts
  BY <1>1, <1>3 DEF Qrtr!TypeOK, Qrtr!Restarted
<1>10. QED
  BY <1>3, <1>4, <1>5, <1>7, <1>8, <1>9, QrtrByModem

LEMMA QrtrAnswer ==
  ASSUME Qrtr!HolderInv, NEW m \in v11, Qrtr!Answer(m)
  PROVE  Qrtr!HolderInv' /\ v19' = {}
<1>1. Qrtr!TypeOK /\ Qrtr!FromHolders /\ Qrtr!Restarted
  BY DEF Qrtr!HolderInv
<1>2. /\ v11' = v11 \ {m} /\ v19' = {}
      /\ UNCHANGED <<v1, v2, v3, v4, v5, v6, v7, v8, v10, v13, v14, v15, v16, v17, v18>>
  BY DEF Qrtr!Answer, Qrtr!proxyVars, Qrtr!clientVars
<1>3. PICK confirm \in BOOLEAN : /\ v9' = Append(v9, [m EXCEPT !.confirm = confirm])
                                 /\ v12' = IF confirm THEN v12 \cup {m.port} ELSE v12
  BY DEF Qrtr!Answer
<1>4. /\ RecordedList(v8) /\ RecordedList(v9)
      /\ m \in Qrtr!Packet /\ \A w \in v11 : Qrtr!FromRecorded(w)
  BY <1>1, OnTheWay DEF Qrtr!TypeOK
<1>5. PICK a : a = [m EXCEPT !.confirm = confirm]
  OBVIOUS
<1>6. a \in Qrtr!Packet /\ Qrtr!FromRecorded(a) /\ m.port \in 1..Ports
  BY <1>4, <1>5 DEF Qrtr!Packet, Qrtr!FromRecorded
<1>7. RecordedList(v9')
  BY <1>3, <1>4, <1>5, <1>6, RecordedLists
<1>8. v11' \subseteq Qrtr!Packet /\ (\A w \in v11' : Qrtr!FromRecorded(w)) /\ v12' \subseteq 1..Ports
  BY <1>1, <1>2, <1>3, <1>4, <1>6 DEF Qrtr!TypeOK
<1>9. /\ v10' \in [Service -> Qrtr!Addr] /\ v13' \in 0..MaxRestarts
      /\ \A s \in Service : v10'[s] + v13' <= MaxRestarts
  BY <1>1, <1>2 DEF Qrtr!TypeOK, Qrtr!Restarted
<1>10. QED
  BY <1>2, <1>4, <1>7, <1>8, <1>9, QrtrByModem

LEMMA QrtrRestart ==
  ASSUME Qrtr!HolderInv, NEW svc \in Service, Qrtr!Restart(svc)
  PROVE  Qrtr!HolderInv' /\ v19' = {}
<1>1. Qrtr!TypeOK /\ Qrtr!FromHolders /\ Qrtr!Restarted
  BY DEF Qrtr!HolderInv
<1>2. /\ v13 > 0 /\ v13' = v13 - 1 /\ v10' = [v10 EXCEPT ![svc] = @ + 1]
      /\ v11' = {w \in v11 : w.svc # svc} /\ v19' = {}
      /\ v9' = v9 \o <<Qrtr!Announce("DEL_SERVER", svc, v10[svc]), Qrtr!Announce("NEW_SERVER", svc, v10[svc] + 1)>>
      /\ UNCHANGED <<v1, v2, v3, v4, v5, v6, v7, v8, v12, v14, v15, v16, v17, v18>>
  BY DEF Qrtr!Restart, Qrtr!proxyVars, Qrtr!clientVars
<1>3. v10[svc] \in Qrtr!Addr /\ v10[svc] + 1 \in Qrtr!Addr
  <2>1. v10[svc] \in 0..MaxRestarts /\ v13 \in 0..MaxRestarts /\ v10[svc] + v13 <= MaxRestarts
    BY <1>1 DEF Qrtr!TypeOK, Qrtr!Addr, Qrtr!Restarted
  <2>2. QED
    BY <1>2, <2>1, QrtrAssumption DEF Qrtr!Addr
<1>4. v10' \in [Service -> Qrtr!Addr]
  BY <1>1, <1>2, <1>3 DEF Qrtr!TypeOK
<1>5. v13' \in 0..MaxRestarts /\ \A s \in Service : v10'[s] + v13' <= MaxRestarts
  <2>1. v13 \in 0..MaxRestarts /\ \A s \in Service : v10[s] \in 0..MaxRestarts
    BY <1>1 DEF Qrtr!TypeOK, Qrtr!Addr
  <2>2. \A s \in Service : v10'[s] = IF s = svc THEN v10[s] + 1 ELSE v10[s]
    BY <1>1, <1>2 DEF Qrtr!TypeOK
  <2>3. QED
    BY <1>1, <1>2, <2>1, <2>2, QrtrAssumption DEF Qrtr!Restarted
<1>6. RecordedList(v9')
  <2>1. PICK p, q : p = Qrtr!Announce("DEL_SERVER", svc, v10[svc]) /\ q = Qrtr!Announce("NEW_SERVER", svc, v10[svc] + 1)
    OBVIOUS
  <2>2. p \in Qrtr!Packet /\ Qrtr!FromRecorded(p) /\ q \in Qrtr!Packet /\ Qrtr!FromRecorded(q)
    BY <1>3, <2>1, ControlPacket, QrtrConstants DEF Qrtr!Announce
  <2>3. <<p, q>> \in Seq(Qrtr!Packet) /\ Len(<<p, q>>) = 2 /\ <<p, q>>[1] = p /\ <<p, q>>[2] = q
    BY <2>2
  <2>4. RecordedList(<<p, q>>)
    BY <2>2, <2>3 DEF RecordedList
  <2>5. RecordedList(v9)
    BY <1>1, OnTheWay
  <2>6. QED
    BY <1>2, <2>1, <2>4, <2>5, RecordedLists
<1>7. /\ RecordedList(v8') /\ v11' \subseteq Qrtr!Packet /\ (\A w \in v11' : Qrtr!FromRecorded(w))
      /\ v12' \subseteq 1..Ports
  BY <1>1, <1>2, OnTheWay DEF Qrtr!TypeOK
<1>8. QED
  BY <1>2, <1>4, <1>5, <1>6, <1>7, QrtrByModem

\* A request of a client is its own, and names an id it knows.
LEMMA QrtrAsk ==
  ASSUME Qrtr!HolderInv, NEW c \in Qrtr!Client, Qrtr!AskAny(c)
  PROVE  Qrtr!HolderInv' /\ v19' = {}
<1>1. Qrtr!TypeOK /\ Qrtr!Connections /\ Qrtr!OwnRequests /\ Qrtr!FromHolders /\ Qrtr!Restarted /\ Holdings
  BY DEF Qrtr!HolderInv, Holdings
<1>2. PICK type \in {"VERSION", "GET", "RELEASE", "SVC"}, svc \in Service, id \in 0..Ids :
        Qrtr!Ask(c, type, svc, id) /\ (type \in {"RELEASE", "SVC"} => id # 0)
  <2>1. PICK svc \in Service :
          \/ Qrtr!Ask(c, "VERSION", svc, 0)
          \/ Qrtr!Ask(c, "GET", svc, 0)
          \/ \E id \in v18[c] : Qrtr!Ask(c, "RELEASE", svc, id) \/ Qrtr!Ask(c, "SVC", svc, id)
    BY DEF Qrtr!AskAny
  <2>2. 0 \in 0..Ids /\ \A id \in v18[c] : id \in 0..Ids /\ id # 0
    <3>1. v18[c] \subseteq 1..Ids
      BY <1>1 DEF Qrtr!TypeOK
    <3>2. QED
      BY <3>1, QrtrAssumption
  <2>3. QED
    BY <2>1, <2>2
<1>3. PICK m : m = Qrtr!Qmi(type, svc, id, c, v17[c] + 1)
  OBVIOUS
<1>4. /\ v17[c] < MaxAsk
      /\ v16' = [v16 EXCEPT ![c] = m] /\ v15' = [v15 EXCEPT ![c] = Append(@, m)]
      /\ v17' = [v17 EXCEPT ![c] = @ + 1]
      /\ v18' = [v18 EXCEPT ![c] = IF type = "RELEASE" THEN @ \ {id} ELSE @] /\ v19' = {}
      /\ UNCHANGED <<v1, v2, v3, v4, v5, v6, v7, v8, v9, v10, v11, v12, v13, v14>>
  BY <1>2, <1>3 DEF Qrtr!Ask, Qrtr!proxyVars, Qrtr!modemVars
<1>5. v17[c] + 1 \in 0..MaxAsk /\ v17[c] \in 0..MaxAsk
  BY <1>1, <1>4, MbimAssumption DEF Qrtr!TypeOK
<1>6. m \in Qrtr!Request /\ m.by = c /\ (m.type \in {"RELEASE", "SVC"} => m.id # 0)
  <2>1. c \in 0..QrtrClients
    BY QrtrAssumption DEF Qrtr!Client
  <2>2. QED
    BY <1>2, <1>3, <1>5, <2>1 DEF Qrtr!Qmi, Qrtr!Request
<1>7. v15[c] \in Seq(Qrtr!Request) /\ Append(v15[c], m) \in Seq(Qrtr!Request)
  <2>1. v15[c] \in Seq(Qrtr!Request)
    BY <1>1 DEF Qrtr!TypeOK
  <2>2. QED
    BY <1>6, <2>1, AppendElements
<1>8. /\ v15' \in [Qrtr!Client -> Seq(Qrtr!Request)] /\ v15'[c] = Append(v15[c], m)
      /\ \A d \in Qrtr!Client \ {c} : v15'[d] = v15[d]
  BY <1>1, <1>4, <1>7 DEF Qrtr!TypeOK
<1>9. Qrtr!TypeOK'
  <2>1. v16' \in [Qrtr!Client -> Qrtr!Request]
    BY <1>1, <1>4, <1>6 DEF Qrtr!TypeOK
  <2>2. v17' \in [Qrtr!Client -> 0..MaxAsk]
    BY <1>1, <1>4, <1>5 DEF Qrtr!TypeOK
  <2>3. v18' \in [Qrtr!Client -> SUBSET (1..Ids)]
    BY <1>1, <1>4 DEF Qrtr!TypeOK
  <2>4. QED
    BY <1>1, <1>4, <1>8, <2>1, <2>2, <2>3 DEF Qrtr!TypeOK
<1>10. Qrtr!Connections' /\ Qrtr!Restarted' /\ Qrtr!FromHolders'
  BY <1>1, <1>4 DEF Qrtr!Connections, Qrtr!Restarted, Qrtr!FromHolders
<1>11. Qrtr!OwnRequests'
  <2>1. SUFFICES ASSUME NEW d \in Qrtr!Client, NEW i \in 1..Len(v15'[d])
                 PROVE  /\ v15'[d][i].by = d
                        /\ v15'[d][i].type \in {"RELEASE", "SVC"} => v15'[d][i].id # 0
    BY DEF Qrtr!OwnRequests
  <2>2. CASE d # c
    BY <1>1, <1>8, <2>1, <2>2 DEF Qrtr!OwnRequests
  <2>3. CASE d = c
    <3>1. /\ Len(v15'[c]) = Len(v15[c]) + 1 /\ Len(v15[c]) \in Nat
          /\ v15'[c][Len(v15[c]) + 1] = m /\ \A n \in 1..Len(v15[c]) : v15'[c][n] = v15[c][n]
      BY <1>6, <1>7, <1>8
    <3>2. i \in 1..Len(v15[c]) \/ i = Len(v15[c]) + 1
      BY <2>1, <2>3, <3>1
    <3>3. CASE i \in 1..Len(v15[c])
      BY <1>1, <2>3, <3>1, <3>3 DEF Qrtr!OwnRequests
    <3>4. CASE i = Len(v15[c]) + 1
      BY <1>6, <2>3, <3>1, <3>4
    <3>5. QED
      BY <3>2, <3>3, <3>4
  <2>4. QED
    BY <2>2, <2>3
<1>12. Holdings'
  BY <1>1, <1>4, SameHoldings
<1>13. QED
  BY <1>4, <1>9, <1>10, <1>11, <1>12 DEF Qrtr!HolderInv, Holdings

LEMMA QrtrLeave ==
  ASSUME Qrtr!HolderInv, NEW c \in Qrtr!Client, Qrtr!Leave(c)
  PROVE  Qrtr!HolderInv' /\ v19' = {}
<1>1. Qrtr!TypeOK /\ Qrtr!Connections /\ Qrtr!OwnRequests /\ Qrtr!FromHolders /\ Qrtr!Restarted /\ Holdings
  BY DEF Qrtr!HolderInv, Holdings
<1>2. /\ v2' = [v2 EXCEPT ![c] = "gone"] /\ v16' = [v16 EXCEPT ![c] = Qrtr!Nothing]
      /\ v18' = [v18 EXCEPT ![c] = {}] /\ v19' = {}
      /\ UNCHANGED <<v1, v3, v4, v5, v6, v7, v8, v9, v10, v11, v12, v13, v14, v15, v17>>
  BY DEF Qrtr!Leave, Qrtr!proxyVars, Qrtr!modemVars
<1>3. Qrtr!TypeOK'
  <2>1. v2' \in [Qrtr!Client -> {"out", "in", "gone"}]
    BY <1>1, <1>2 DEF Qrtr!TypeOK
  <2>2. v16' \in [Qrtr!Client -> Qrtr!Request] /\ v18' \in [Qrtr!Client -> SUBSET (1..Ids)]
    BY <1>1, <1>2, QrtrConstants DEF Qrtr!TypeOK
  <2>3. QED
    BY <1>1, <1>2, <2>1, <2>2 DEF Qrtr!TypeOK
<1>4. Qrtr!Connections' /\ Qrtr!OwnRequests' /\ Qrtr!Restarted' /\ Qrtr!FromHolders'
  BY <1>1, <1>2 DEF Qrtr!Connections, Qrtr!OwnRequests, Qrtr!Restarted, Qrtr!FromHolders
<1>5. Holdings'
  BY <1>1, <1>2, SameHoldings
<1>6. QED
  BY <1>2, <1>3, <1>4, <1>5 DEF Qrtr!HolderInv, Holdings

QrtrInv == Qrtr!HolderInv /\ Qrtr!ToHolder

LEMMA QrtrInit ==
  ASSUME Qrtr!Init
  PROVE  QrtrInv
<1>1. \A c \in Qrtr!Client : v4[c] = <<>> /\ v15[c] = <<>> /\ Qrtr!Held(c) = {}
  BY SameOperatorsQrtr, EmptyHasNone DEF Qrtr!Init, Qrtr!Held
<1>2. Qrtr!TypeOK
  <2>1. v4 \in [Qrtr!Client -> Seq(Qrtr!Holding)] /\ v15 \in [Qrtr!Client -> Seq(Qrtr!Request)]
    BY DEF Qrtr!Init
  <2>2. v16 \in [Qrtr!Client -> Qrtr!Request] /\ v10 \in [Service -> Qrtr!Addr]
    BY QrtrConstants DEF Qrtr!Init
  <2>3. v13 \in 0..MaxRestarts /\ v14 \in 0..MaxFaults
    BY QrtrAssumption DEF Qrtr!Init
  <2>4. v17 \in [Qrtr!Client -> 0..MaxAsk]
    BY MbimAssumption DEF Qrtr!Init
  <2>5. QED
    BY <2>1, <2>2, <2>3, <2>4 DEF Qrtr!Init, Qrtr!TypeOK
<1>3. Qrtr!Connections /\ Qrtr!OwnRequests /\ Qrtr!FromHolders /\ Qrtr!ToHolder
  BY <1>1 DEF Qrtr!Init, Qrtr!Connections, Qrtr!OwnRequests, Qrtr!FromHolders, Qrtr!ToHolder
<1>4. Qrtr!Restarted
  BY QrtrAssumption DEF Qrtr!Init, Qrtr!Restarted
<1>5. Qrtr!OneHolder /\ Qrtr!HeldOnce
  BY <1>1 DEF Qrtr!OneHolder, Qrtr!HeldOnce
<1>6. Qrtr!Room
  <2>1. Qrtr!WithoutId = {}
    BY <1>1 DEF Qrtr!WithoutId
  <2>2. Cardinality({}) = 0
    BY FS_EmptySet
  <2>3. QED
    BY <2>1, <2>2, SameOperatorsQrtr, QrtrAssumption DEF Qrtr!Room
<1>7. Qrtr!Recorded
  <2>1. UNION {Qrtr!Held(c) : c \in v3} = {}
    BY DEF Qrtr!Init
  <2>2. QED
    BY <2>1 DEF Qrtr!Init, Qrtr!Recorded
<1>8. QED
  BY <1>2, <1>3, <1>4, <1>5, <1>6, <1>7 DEF QrtrInv, Qrtr!HolderInv

LEMMA QrtrNext ==
  ASSUME QrtrInv, Qrtr!Next \/ UNCHANGED qrtr
  PROVE  QrtrInv'
<1>1. Qrtr!HolderInv
  BY DEF QrtrInv
<1>2. ASSUME v19' = {} PROVE Qrtr!ToHolder'
  BY <1>2 DEF Qrtr!ToHolder
<1>3. CASE Qrtr!Session
  BY <1>1, <1>2, <1>3, QrtrSession, QrtrDeviceLost DEF Qrtr!Session, QrtrInv
<1>4. CASE Qrtr!Loop
  BY <1>1, <1>2, <1>4, QrtrFromDev, QrtrAccept, QrtrCleanup, QrtrRead DEF Qrtr!Loop, QrtrInv
<1>5. CASE Qrtr!Environment
  BY <1>1, <1>2, <1>5, QrtrModem, QrtrAnswer, QrtrRestart, QrtrAsk, QrtrLeave DEF Qrtr!Environment, Qrtr!Work, QrtrInv
<1>6. ASSUME UNCHANGED qrtr PROVE QrtrInv'
  <2>1. UNCHANGED <<v1, v2, v3, v4, v5, v6, v7, v8, v9, v10, v11, v12, v13, v14, v15, v16, v17, v18, v19>>
    BY <1>6 DEF qrtr
  <2>2. Qrtr!TypeOK /\ Qrtr!Connections /\ Qrtr!OwnRequests /\ Qrtr!FromHolders /\ Qrtr!Restarted /\ Holdings
    BY <1>1 DEF Qrtr!HolderInv, Holdings
  <2>3. Qrtr!TypeOK'
    BY <2>1, <2>2 DEF Qrtr!TypeOK
  <2>4. Qrtr!Connections' /\ Qrtr!OwnRequests' /\ Qrtr!FromHolders' /\ Qrtr!Restarted'
    BY <2>1, <2>2 DEF Qrtr!Connections, Qrtr!OwnRequests, Qrtr!FromHolders, Qrtr!Restarted
  <2>5. Holdings'
    BY <2>1, <2>2, SameHoldings
  <2>6. Qrtr!ToHolder'
    BY <2>1 DEF QrtrInv, Qrtr!ToHolder, Qrtr!Held
  <2>7. QED
    BY <2>3, <2>4, <2>5, <2>6 DEF QrtrInv, Qrtr!HolderInv, Holdings
<1>7. CASE Qrtr!Idle
  <2>1. UNCHANGED qrtr
    BY <1>7 DEF Qrtr!Idle, Qrtr!vars, Qrtr!proxyVars, Qrtr!modemVars, Qrtr!clientVars, qrtr
  <2>2. QED
    BY <1>6, <2>1
<1>8. QED
  BY <1>3, <1>4, <1>5, <1>6, <1>7 DEF Qrtr!Next

\* An id and its port have one holder.
LEMMA QrtrOwnPort ==
  ASSUME Qrtr!HolderInv
  PROVE  Qrtr!OwnPort /\ Qrtr!Recorded
<1>1. Qrtr!OneHolder /\ Qrtr!HeldOnce /\ Qrtr!Recorded
  BY DEF Qrtr!HolderInv
<1>2. \A c \in Qrtr!Client : \A h \in Qrtr!Held(c) : \A d \in Qrtr!Client : \A k \in Qrtr!Held(d) :
        h.id # 0 /\ (h.id = k.id \/ h.port = k.port) => c = d /\ h = k
  BY <1>1 DEF Qrtr!OneHolder
<1>3. QED
  BY <1>1, <1>2 DEF Qrtr!OwnPort, Qrtr!HeldOnce

-----------------------------------------------------------------------------
(* The proxies together: the invariant of the one that runs.               *)

ProxiesInv ==
  /\ proxy \in {"mbim", "qrtr", "atc"}
  /\ proxy = "mbim" => Mbim!HolderInv /\ Mbim!ToHolder
  /\ proxy = "qrtr" => QrtrInv
  /\ proxy = "atc" => AtcInv

LEMMA ProxiesInit == Init => ProxiesInv
BY MbimInit, QrtrInit, AtcInit DEF Init, ProxiesInv

LEMMA ProxiesNext == ProxiesInv /\ [Next]_vars => ProxiesInv'
<1> SUFFICES ASSUME ProxiesInv, [Next]_vars PROVE ProxiesInv'
  OBVIOUS
<1>1. proxy' = proxy /\ proxy \in {"mbim", "qrtr", "atc"}
  BY DEF ProxiesInv, Next, vars
<1>2. CASE proxy = "mbim"
  <2>1. Mbim!Next \/ UNCHANGED mbim
    BY <1>2 DEF Next, vars, mbim
  <2>2. QED
    BY <1>1, <1>2, <2>1, MbimNext DEF ProxiesInv
<1>3. CASE proxy = "qrtr"
  <2>1. Qrtr!Next \/ UNCHANGED qrtr
    BY <1>3 DEF Next, vars, qrtr
  <2>2. QED
    BY <1>1, <1>3, <2>1, QrtrNext DEF ProxiesInv
<1>4. CASE proxy = "atc"
  <2>1. Atc!Next \/ UNCHANGED atc
    BY <1>4 DEF Next, vars, atc
  <2>2. QED
    BY <1>1, <1>4, <2>1, AtcNext DEF ProxiesInv
<1>5. QED
  BY <1>1, <1>2, <1>3, <1>4

\* Each proxy keeps its invariant: HolderInv of MbimProxy and of QrtrProxy,
\* InFlightInv of AtcProxy.
THEOREM KeepsProxiesInv == Spec => []ProxiesInv
<1>1. Init => ProxiesInv
  BY ProxiesInit
<1>2. ProxiesInv /\ [Next]_vars => ProxiesInv'
  BY ProxiesNext
<1>3. QED
  BY <1>1, <1>2, PTL DEF Spec

\* The state of quectel-mbim-proxy, of quectel-qrtr-proxy and of
\* quectel-atc-proxy stays in its type.
THEOREM TypeCorrect == Spec => []TypeOK
<1>1. ProxiesInv => TypeOK
  BY DEF ProxiesInv, TypeOK, QrtrInv, AtcInv, Mbim!HolderInv, Qrtr!HolderInv, Atc!InFlightInv
<1>2. QED
  BY <1>1, KeepsProxiesInv, PTL

\* handle_device_response() of quectel-mbim-proxy gives the answer of a client
\* that is there to that client, for every number of clients and of slots: the
\* TransactionId that the modem sees has the number of the slot, and a slot is
\* given to another client only when its client has left.
THEOREM MbimAnswersHolder == Spec => []MbimToHolder
<1>1. ProxiesInv => MbimToHolder
  BY DEF ProxiesInv, MbimToHolder
<1>2. QED
  BY <1>1, KeepsProxiesInv, PTL

\* recv_qrtr_from_dev() gives an answer to who holds the port, client ids and
\* their ports have one holder, and the bitmaps record what is held, although
\* alloc_port_id() hands out ports that a bitmap of 256 cannot record.
THEOREM QrtrAnswersHolder == Spec => []QrtrToHolder
<1>1. ProxiesInv => QrtrToHolder
  BY QrtrOwnPort DEF ProxiesInv, QrtrToHolder, QrtrInv
<1>2. QED
  BY <1>1, KeepsProxiesInv, PTL

\* quectel-atc-proxy loses no command before somebody leaves: one whose answer a
\* client waits for is in its socket, on the way to the modem, in the modem or
\* answered and not yet handed round.
THEOREM AtcKeepsCommands == Spec => []AtcInFlight
<1>1. ProxiesInv => AtcInFlight
  BY DEF ProxiesInv, AtcInFlight, AtcInv
<1>2. QED
  BY <1>1, KeepsProxiesInv, PTL
=============================================================================
