-------------------------- MODULE QmiCommandProofs --------------------------
(***************************************************************************)
(* Proofs about QmiCommand, for every number of calls, every width of the  *)
(* transaction numbers and every bound on faults: the slot is type correct *)
(* and never dangling, and the layer implements QmiRpc.                    *)
(***************************************************************************)
EXTENDS QmiCommand, TLAPS

-----------------------------------------------------------------------------
(* Type correctness.                                                       *)

\* The transaction numbers start at 1 and fit their field.
CounterOK == \A c \in Channel : counter[c] \in 0..Tids(c)

\* The request of a call is a request, not NULL.
HasRequest == InCall => req \in Request

\* A wait has a slice left.
HasSlice == pc \in {"wait", "expired"} => slices > 0

Typed == TypeOK /\ CounterOK /\ HasRequest /\ HasSlice

\* The number of the next request is one of its field and not 0.
LEMMA NextTidType ==
  ASSUME NEW c \in Channel, counter[c] \in 0..Tids(c)
  PROVE  NextTid(c) \in 1..Tids(c) /\ Tids(c) \in Nat
BY TidAssumption DEF NextTid, Tids, Channel

\* The program starts in a typed state.
LEMMA InitTyped == Init => Typed
<1> SUFFICES ASSUME Init PROVE Typed
  OBVIOUS
<1>1. CounterOK /\ HasRequest /\ HasSlice
  BY TidAssumption DEF Init, CounterOK, HasRequest, HasSlice, Channel, Tids, InCall
<1>2. TypeOK
  <2>1. sent \in [Channel -> Nat] /\ counter \in [Channel -> Nat]
    BY DEF Init
  <2>2. slices \in 0..Slices /\ faults \in 0..MaxFaults
    BY BoundAssumption DEF Init
  <2>3. QED
    BY <2>1, <2>2 DEF Init, TypeOK
<1>3. QED
  BY <1>1, <1>2 DEF Typed

\* A fault leaves the bound on faults in its range.
LEMMA FaultType ==
  ASSUME faults \in 0..MaxFaults, Fault
  PROVE  faults' \in 0..MaxFaults
BY BoundAssumption DEF Fault

\* Composing a request keeps every variable in its type.
LEMMA ComposeTyped ==
  ASSUME Typed, NEW s \in Asked, Compose(s)
  PROVE  Typed'
<1> DEFINE c == ChannelOf(s)
<1> DEFINE r == [service |-> s, n |-> sent[c] + 1, tid |-> NextTid(c)]
<1>1. s \in Service /\ c \in Channel
  BY ServiceAssumption DEF ChannelOf, Channel
<1>2. NextTid(c) \in 1..Tids(c) /\ Tids(c) \in Nat
  BY <1>1, NextTidType DEF Typed, CounterOK
<1>3. sent[c] \in Nat
  BY <1>1 DEF Typed, TypeOK
<1> HIDE DEF c
<1>4. r \in Request
  BY <1>1, <1>2, <1>3 DEF Request
<1>5. /\ pc' = "composed" /\ req' = r /\ live' = live \cup {r}
      /\ counter' = [counter EXCEPT ![c] = NextTid(c)]
      /\ sent' = [sent EXCEPT ![c] = sent[c] + 1]
      /\ modem' \subseteq modem /\ line' \subseteq line
      /\ UNCHANGED <<slices, result, got, sreq, sresp, qth, raised, answered, revoked, faults>>
  BY DEF Compose, c
<1> HIDE DEF r
<1>6. TypeOK'
  BY <1>1, <1>2, <1>3, <1>4, <1>5 DEF Typed, TypeOK
<1>7. CounterOK'
  BY <1>1, <1>2, <1>5 DEF Typed, TypeOK, CounterOK, Tids
<1>8. QED
  BY <1>4, <1>5, <1>6, <1>7 DEF Typed, HasRequest, HasSlice

\* The other steps of the main thread keep every variable in its type.
LEMMA MainTyped ==
  ASSUME Typed,
         Send \/ SendFails \/ SliceExpires \/ Reacquire \/ SpuriousWakeup \/ Resume \/ QuitRequest
  PROVE  Typed'
<1> USE DEF slotVars, tidVars, netVars
<1>1. UNCHANGED <<req, counter>>
  BY DEF Send, SendFails, SliceExpires, Reacquire, SpuriousWakeup, Resume, QuitRequest
<1>2. CounterOK' /\ HasRequest'
  BY <1>1 DEF Typed, CounterOK, Tids, HasRequest, InCall, Send, SendFails, SliceExpires, Reacquire,
              SpuriousWakeup, Resume, QuitRequest
<1>a. HasSlice'
  BY BoundAssumption DEF Typed, TypeOK, HasSlice, Send, SendFails, SliceExpires, Reacquire,
                         SpuriousWakeup, Resume, QuitRequest
<1>3. faults' \in 0..MaxFaults
  BY FaultType DEF Typed, TypeOK, Send, SendFails, SliceExpires, Reacquire, SpuriousWakeup,
                   Resume, QuitRequest
<1>4. slices' \in 0..Slices
  BY BoundAssumption DEF Typed, TypeOK, HasSlice, Send, SendFails, SliceExpires, Reacquire,
                         SpuriousWakeup, Resume, QuitRequest
<1>5. TypeOK'
  <2>1. CASE Send
    BY <2>1, <1>3, <1>4 DEF Typed, HasRequest, InCall, TypeOK, Send, Register
  <2>2. CASE SendFails
    BY <2>2, <1>3 DEF Typed, HasRequest, InCall, TypeOK, SendFails, Register
  <2>3. CASE SliceExpires \/ SpuriousWakeup \/ QuitRequest
    BY <2>3, <1>3 DEF Typed, TypeOK, SliceExpires, SpuriousWakeup, QuitRequest
  <2>4. CASE Reacquire
    BY <2>4, <1>4 DEF Typed, TypeOK, Reacquire
  <2>5. CASE Resume
    BY <2>5 DEF Typed, TypeOK, Resume
  <2>6. QED
    BY <2>1, <2>2, <2>3, <2>4, <2>5
<1>6. QED
  BY <1>2, <1>a, <1>5 DEF Typed

\* Giving up the pending request keeps the slot and the main thread typed.
LEMMA ReceiveNullTyped ==
  ASSUME Typed, ReceiveNull
  PROVE  /\ pc' \in {"idle", "composed", "wait", "expired", "woken", "quit"}
         /\ sreq' \in Request \cup {None} /\ sresp' \in Request \cup {None}
         /\ live' \subseteq Request
         /\ InCall' <=> InCall
         /\ pc' \in {"wait", "expired"} => pc' = pc
BY DEF Typed, TypeOK, ReceiveNull, Signal, InCall, slotVars

\* A message read by the QMI thread is an answer to a request, or none is
\* kept: an indication bears no transaction number of a request.
LEMMA KeptIsAnswer ==
  ASSUME Typed, NEW m \in line, IsResponse(m)
  PROVE  m.kind = "answer" /\ m.req \in Request /\ sreq \in Request
<1>1. sreq \in Request
  BY DEF Typed, TypeOK, IsResponse
<1>2. m \in Message
  BY DEF Typed, TypeOK
<1>3. m.kind = "answer" \/ m.req.tid = 0
  BY <1>2 DEF Message
<1>4. sreq.tid # 0 /\ sreq.tid = m.req.tid
  BY <1>1 DEF IsResponse, Request
<1>5. QED
  BY <1>1, <1>2, <1>3, <1>4 DEF Message

\* The steps of the QMI thread keep every variable in its type.
LEMMA ThreadTyped ==
  ASSUME Typed, QmiThread
  PROVE  Typed'
<1> USE DEF callVars, slotVars, tidVars, netVars
<1>1. ASSUME NEW m \in line, Receive(m), TakeAnswer(m)
      PROVE  Typed'
  <2>1. m.req \in Request
    BY <1>1, KeptIsAnswer DEF TakeAnswer
  <2>2. QED
    BY <1>1, <2>1 DEF Typed, TypeOK, CounterOK, Tids, HasRequest, HasSlice, InCall, Receive, TakeAnswer, Signal
<1>2. ASSUME NEW m \in line, Receive(m), TakeOther(m)
      PROVE  Typed'
  <2>1. EventOf(m) \subseteq {"RESET", "VOICE", "DATA"}
    BY DEF EventOf
  <2>2. raised' \subseteq {"RESET", "VOICE", "DATA"} /\ line' \subseteq Message
    BY <1>2, <2>1 DEF Typed, TypeOK, Receive, TakeOther
  <2>3. UNCHANGED <<pc, slotVars, req, slices, result, got, tidVars, qth, modem, answered, revoked, faults>>
    BY <1>2 DEF Receive, TakeOther
  <2>4. QED
    BY <2>2, <2>3 DEF Typed, TypeOK, CounterOK, Tids, HasRequest, HasSlice, InCall
<1>3. CASE Abort
  BY <1>3, ReceiveNullTyped DEF Typed, TypeOK, CounterOK, Tids, HasRequest, HasSlice, Abort
<1>4. CASE TakeStop
  BY <1>4 DEF Typed, TypeOK, CounterOK, Tids, HasRequest, HasSlice, InCall, TakeStop
<1>5. CASE Close
  BY <1>5, FaultType DEF Typed, TypeOK, CounterOK, Tids, HasRequest, HasSlice, InCall, Close
<1>6. CASE Leave
  BY <1>6, ReceiveNullTyped DEF Typed, TypeOK, CounterOK, Tids, HasRequest, HasSlice, Leave
<1>7. QED
  BY <1>1, <1>2, <1>3, <1>4, <1>5, <1>6 DEF QmiThread, Receive

\* The modem sends messages only.
LEMMA ModemTyped ==
  ASSUME Typed, Modem
  PROVE  Typed'
<1> USE DEF callVars, slotVars, tidVars
<1>1. ASSUME NEW r \in modem, Answer(r)
      PROVE  Typed'
  <2>1. [kind |-> "answer", req |-> r] \in Message
    BY DEF Typed, TypeOK, Message
  <2>2. QED
    BY <1>1, <2>1 DEF Typed, TypeOK, CounterOK, Tids, HasRequest, HasSlice, InCall, Answer
<1>2. ASSUME NEW s \in Asked, Indication(s)
      PROVE  Typed'
  <2>1. [kind |-> "indication", req |-> [service |-> s, n |-> 0, tid |-> 0]] \in Message
    BY ServiceAssumption DEF Message
  <2>2. QED
    BY <1>2, <2>1 DEF Typed, TypeOK, CounterOK, Tids, HasRequest, HasSlice, InCall, Indication
<1>3. QED
  BY <1>1, <1>2 DEF Modem

\* Every step keeps every variable in its type.
LEMMA TypedStep == Typed /\ [Next]_vars => Typed'
<1> SUFFICES ASSUME Typed, [Next]_vars PROVE Typed'
  OBVIOUS
<1>1. CASE UNCHANGED vars
  BY <1>1 DEF vars, callVars, slotVars, tidVars, netVars, Typed, TypeOK, CounterOK, Tids, HasRequest, HasSlice,
              InCall
<1>2. CASE Next
  BY <1>1, <1>2, ComposeTyped, MainTyped, ThreadTyped, ModemTyped DEF Next, MainThread, Finished
<1>3. QED
  BY <1>1, <1>2

\* The type invariant of the command layer holds for any number of calls and
\* any width of the transaction numbers (QMIThread.c:94-131, 615-735).
THEOREM TypeCorrect == Spec => []TypeOK
<1>1. Init => Typed
  BY InitTyped
<1>2. Typed /\ [Next]_vars => Typed'
  BY TypedStep
<1>3. Typed => TypeOK
  BY DEF Typed
<1>4. QED
  BY <1>1, <1>2, <1>3, PTL DEF Spec

-----------------------------------------------------------------------------
(* Events and aborted calls.                                               *)

\* A reset on its way to the QMI thread was reported.
Reported == \A m \in line : m.kind = "indication" /\ m.req.service = "CTL" => revoked

\* No reset is reported by an answer or by another service (QMIThread.c:698-733).
THEOREM ResetsAreReported == Spec => []ResetsReported
<1> DEFINE I == Reported /\ ResetsReported
<1>1. Init => I
  BY DEF Init, Reported, ResetsReported
<1>2. I /\ [Next]_vars => I'
  <2> SUFFICES ASSUME I, [Next]_vars PROVE I'
    OBVIOUS
  <2>1. ASSUME line' \subseteq line, UNCHANGED <<raised, revoked>>
        PROVE  I'
    BY <2>1 DEF Reported, ResetsReported
  <2>2. ASSUME NEW s \in Asked, Compose(s)
        PROVE  I'
    BY <2>1, <2>2 DEF Compose
  <2>3. CASE Send \/ SendFails \/ SliceExpires \/ Reacquire \/ SpuriousWakeup \/ Resume \/ QuitRequest
    BY <2>1, <2>3 DEF netVars, Send, SendFails, SliceExpires, Reacquire, SpuriousWakeup, Resume, QuitRequest
  <2>4. CASE Abort \/ TakeStop \/ Close \/ Leave
    BY <2>1, <2>4 DEF netVars, Abort, TakeStop, Close, Leave
  <2>5. ASSUME NEW m \in line, Receive(m)
        PROVE  I'
    <3>1. "RESET" \in EventOf(m) => m.kind = "indication" /\ m.req.service = "CTL"
      BY DEF EventOf
    <3>2. line' \subseteq line /\ revoked' = revoked /\ raised' \subseteq raised \cup EventOf(m)
      BY <2>5 DEF Receive, TakeAnswer, TakeOther
    <3>3. QED
      BY <3>1, <3>2 DEF Reported, ResetsReported
  <2>6. ASSUME NEW r \in modem, Answer(r)
        PROVE  I'
    BY <2>6 DEF Answer, Reported, ResetsReported
  <2>7. ASSUME NEW s \in Asked, Indication(s)
        PROVE  I'
    <3> DEFINE i == [kind |-> "indication", req |-> [service |-> s, n |-> 0, tid |-> 0]]
    <3>1. i.req.service = s
      OBVIOUS
    <3> HIDE DEF i
    <3>2. line' = line \cup {i} /\ raised' = raised /\ revoked' = (revoked \/ s = "CTL")
      BY <2>7 DEF Indication, i
    <3>3. QED
      BY <3>1, <3>2 DEF Reported, ResetsReported
  <2>8. CASE UNCHANGED vars
    BY <2>1, <2>8 DEF vars, netVars
  <2>9. QED
    BY <2>2, <2>3, <2>4, <2>5, <2>6, <2>7, <2>8 DEF Next, MainThread, QmiThread, Modem, Finished
<1>3. I => ResetsReported
  OBVIOUS
<1> HIDE DEF I
<1>4. QED
  BY <1>1, <1>2, <1>3, PTL DEF Spec

\* Something else than the answer may end a call.
Excused == qth # "running" \/ faults < MaxFaults

\* A wait that ended without an answer was excused.
WokenExcused == pc = "woken" /\ sresp = None => Excused

\* A call is aborted or unsent only when the QMI thread stops or after a fault
\* (QMIThread.c:652-669, QmiWwanCM.c:353-360).
THEOREM AbortsAreForStop == Spec => []AbortedForStop
<1> DEFINE I == WokenExcused /\ AbortedForStop
<1>1. Init => I
  BY DEF Init, WokenExcused, AbortedForStop
<1>2. Typed /\ I /\ [Next]_vars => I'
  <2> SUFFICES ASSUME Typed, I, [Next]_vars PROVE I'
    OBVIOUS
  <2> USE DEF callVars, slotVars, tidVars, netVars
  <2>a. faults \in 0..MaxFaults /\ MaxFaults \in Nat
    BY BoundAssumption DEF Typed, TypeOK
  <2>b. Excused => Excused'
    BY <2>a DEF Excused, Next, MainThread, QmiThread, Modem, Finished, vars, Fault, Compose, Send, SendFails,
      SliceExpires, Reacquire, SpuriousWakeup, Resume, QuitRequest, Receive, Abort, TakeStop, Close,
      Leave, Answer, Indication
  <2>1. CASE SendFails \/ SpuriousWakeup
    <3>1. Excused'
      BY <2>1, <2>a DEF SendFails, SpuriousWakeup, Fault, Open, Excused
    <3>2. QED
      BY <3>1 DEF Excused, WokenExcused, AbortedForStop
  <2>2. CASE Send \/ SliceExpires \/ Reacquire \/ Resume \/ QuitRequest
    BY <2>2, <2>b DEF WokenExcused, AbortedForStop, Send, SliceExpires, Reacquire, Resume, QuitRequest, Excused
  <2>3. CASE Abort \/ Leave
    BY <2>3 DEF Abort, Leave, Excused, WokenExcused, AbortedForStop
  <2>4. CASE TakeStop \/ Close
    BY <2>4 DEF TakeStop, Close, Excused, WokenExcused, AbortedForStop
  <2>5. ASSUME NEW m \in line, Receive(m)
        PROVE  I'
    <3>1. CASE TakeAnswer(m)
      <4>1. m.req # None
        BY <3>1, KeptIsAnswer DEF TakeAnswer, None, Request
      <4>2. sresp' = m.req /\ UNCHANGED <<result, qth, faults>>
        BY <2>5, <3>1 DEF Receive, TakeAnswer
      <4>3. QED
        BY <4>1, <4>2 DEF WokenExcused, AbortedForStop
    <3>2. CASE TakeOther(m)
      BY <2>5, <3>2, <2>b DEF Receive, TakeOther, WokenExcused, AbortedForStop, Excused
    <3>3. QED
      BY <2>5, <3>1, <3>2 DEF Receive
  <2>6. ASSUME NEW s \in Asked, Compose(s)
        PROVE  I'
    BY <2>6 DEF Compose, WokenExcused, AbortedForStop
  <2>7. CASE Modem
    BY <2>7 DEF Modem, Answer, Indication, WokenExcused, AbortedForStop, Excused
  <2>8. CASE UNCHANGED vars
    BY <2>8 DEF vars, WokenExcused, AbortedForStop, Excused
  <2>9. QED
    BY <2>1, <2>2, <2>3, <2>4, <2>5, <2>6, <2>7, <2>8 DEF Next, MainThread, QmiThread, Finished
<1>3. I => AbortedForStop
  OBVIOUS
<1> HIDE DEF I
<1>4. Init => Typed
  BY InitTyped
<1>5. Typed /\ [Next]_vars => Typed'
  BY TypedStep
<1>6. QED
  BY <1>1, <1>2, <1>3, <1>4, <1>5, PTL DEF Spec

-----------------------------------------------------------------------------
(* The slot, and which answer is taken for the answer to which request.    *)

\* The transaction number that was given d requests ago.
Back(c, d) == IF d < counter[c] THEN counter[c] - d ELSE counter[c] - d + Tids(c)

\* A request whose answer may still come: one of the last Late + 1, whose
\* transaction number is the one given that many requests ago.
InWindow(r) ==
  LET c == ChannelOf(r.service)
  IN r.n <= sent[c] /\ sent[c] - r.n <= Late /\ r.tid = Back(c, sent[c] - r.n)

Numbered ==
  /\ \A r \in modem : InWindow(r)
  /\ \A m \in line : m.kind = "answer" => InWindow(m.req)
  /\ InCall => /\ req.n = sent[ChannelOf(req.service)]
               /\ req.tid = counter[ChannelOf(req.service)]

\* Nothing is registered or answered before it was composed.
Made ==
  /\ sreq # None => sreq.n <= sent[ChannelOf(sreq.service)]
  /\ \A r \in answered : r.n <= sent[ChannelOf(r.service)]

\* The registered request is allocated, and so is the one to be registered.
Allocated ==
  /\ NotDangling
  /\ pc = "composed" => req \in live /\ sreq # req

\* In a wait the slot holds this call's request, or its answer, or neither.
OwnSlot ==
  /\ \A m \in line : m.kind = "answer" => m.req \in answered
  /\ pc \in {"wait", "expired", "woken"} => /\ sreq \in {None, req}
                                            /\ sresp \in {None} \cup ({req} \cap answered)

\* The modem answers a call once.
Once ==
  /\ \A r \in modem, q \in modem : CallOf(r) = CallOf(q) => r = q
  /\ \A r \in modem, q \in answered : CallOf(r) # CallOf(q)
  /\ pc = "composed" => \A r \in modem \cup answered : CallOf(r) # CallOf(req)

Slot == Numbered /\ Made /\ Allocated /\ OwnSlot /\ Once

\* An answer within the window that bears the number of the request of the
\* current call is the answer to it: the numbers repeat after more than Late
\* requests only.
LEMMA NoConfusion ==
  ASSUME Typed, Numbered, InCall,
         NEW m \in line, m.kind = "answer", m.req \in Request,
         m.req.service = req.service, m.req.tid = req.tid
  PROVE  m.req = req
<1> DEFINE c == ChannelOf(req.service)
<1>1. req \in Request /\ c \in Channel
  BY DEF Typed, HasRequest, ChannelOf, Channel
<1>2. /\ sent[c] \in Nat /\ counter[c] \in Nat /\ Tids(c) \in Nat /\ Late \in Nat /\ Late < Tids(c)
      /\ m.req.n \in Nat /\ req.tid \in Nat \ {0}
  BY <1>1, TidAssumption DEF Typed, TypeOK, Tids, Request
<1>3. /\ m.req.n <= sent[c] /\ sent[c] - m.req.n <= Late
      /\ m.req.tid = Back(c, sent[c] - m.req.n)
      /\ req.n = sent[c] /\ req.tid = counter[c]
  BY DEF Numbered, InWindow
<1> HIDE DEF c
<1>4. m.req.n = sent[c]
  <2> DEFINE d == sent[c] - m.req.n
  <2>1. d \in Nat /\ d < Tids(c)
    BY <1>2, <1>3
  <2>2. counter[c] = Back(c, d)
    BY <1>3
  <2> HIDE DEF d
  <2>3. d = 0
    BY <1>2, <2>1, <2>2 DEF Back
  <2>4. QED
    BY <1>2, <2>3 DEF d
<1>5. m.req.n = req.n
  BY <1>3, <1>4
<1>6. \A a \in Request, b \in Request : a.service = b.service /\ a.n = b.n /\ a.tid = b.tid => a = b
  BY DEF Request
<1>7. QED
  BY <1>1, <1>5, <1>6

\* A step that composes nothing keeps every window and every number.
LEMMA WindowKept ==
  ASSUME UNCHANGED tidVars, NEW r
  PROVE  InWindow(r)' <=> InWindow(r)
BY DEF tidVars, InWindow, Back, Tids

\* A window that is still in time moves by one with the next request.
LEMMA WindowMoves ==
  ASSUME Typed, NEW c \in Channel, NEW r \in Request, InWindow(r),
         sent' = [sent EXCEPT ![c] = sent[c] + 1],
         counter' = [counter EXCEPT ![c] = NextTid(c)],
         ChannelOf(r.service) = c => sent[c] + 1 - r.n <= Late
  PROVE  InWindow(r)'
<1> DEFINE e == ChannelOf(r.service)
<1>1. e \in Channel
  BY DEF ChannelOf, Channel
<1>2. /\ sent \in [Channel -> Nat] /\ counter \in [Channel -> Nat] /\ r.n \in Nat
      /\ \A x \in Channel : Tids(x) \in Nat /\ Late < Tids(x) /\ counter[x] <= Tids(x)
      /\ Late \in Nat
  BY TidAssumption DEF Typed, TypeOK, CounterOK, Tids, Request, Channel
<1>3. r.n <= sent[e] /\ sent[e] - r.n <= Late /\ r.tid = Back(e, sent[e] - r.n)
  BY DEF InWindow
<1>4. e = c => sent[c] + 1 - r.n <= Late
  OBVIOUS
<1>5. InWindow(r)' <=> /\ r.n <= sent'[e] /\ sent'[e] - r.n <= Late
                       /\ r.tid = IF sent'[e] - r.n < counter'[e]
                                  THEN counter'[e] - (sent'[e] - r.n)
                                  ELSE counter'[e] - (sent'[e] - r.n) + Tids(e)
  BY DEF InWindow, Back, Tids
<1> HIDE DEF e
<1>6. CASE e # c
  <2>1. sent'[e] = sent[e] /\ counter'[e] = counter[e]
    BY <1>1, <1>2, <1>6
  <2>2. QED
    BY <1>3, <1>5, <2>1 DEF Back
<1>7. CASE e = c
  <2>1. sent'[e] = sent[e] + 1 /\ counter'[e] = NextTid(e)
    BY <1>1, <1>2, <1>7
  <2>2. QED
    BY <1>1, <1>2, <1>3, <1>4, <1>5, <1>7, <2>1 DEF Back, NextTid
<1>8. QED
  BY <1>6, <1>7

\* Composing keeps the facts about the slot: the new request is newer than
\* every other one.
LEMMA ComposeSlot ==
  ASSUME Typed, Slot, NEW s \in Asked, Compose(s)
  PROVE  Slot'
<1> DEFINE c == ChannelOf(s)
<1> DEFINE r == [service |-> s, n |-> sent[c] + 1, tid |-> NextTid(c)]
<1>1. c \in Channel /\ ChannelOf(r.service) = c
  BY DEF ChannelOf, Channel
<1>2. sent \in [Channel -> Nat] /\ counter \in [Channel -> Nat]
  BY DEF Typed, TypeOK
<1>3. /\ pc' = "composed" /\ req' = r /\ live' = live \cup {r}
      /\ counter' = [counter EXCEPT ![c] = NextTid(c)]
      /\ sent' = [sent EXCEPT ![c] = sent[c] + 1]
      /\ UNCHANGED <<sreq, sresp, answered>>
  BY DEF Compose
<1>4. modem' \subseteq modem /\ \A q \in modem' : InTime(q, c)
  <2>1. modem' = {q \in modem : InTime(q, c)}
    BY DEF Compose
  <2>2. QED
    BY <2>1
<1>5. line' \subseteq line /\ \A m \in line' : m.kind = "answer" => InTime(m.req, c)
  <2>1. line' = {m \in line : m.kind = "answer" => InTime(m.req, c)}
    BY DEF Compose
  <2>2. QED
    BY <2>1
<1>6. modem \subseteq Request /\ \A m \in line : m.kind = "answer" => m.req \in Request
  BY DEF Typed, TypeOK, Message
<1>7. r.n = sent'[c] /\ r.tid = counter'[c] /\ r.n = sent[c] + 1 /\ r.service = s
  BY <1>1, <1>2, <1>3
<1>8. \A e \in Channel : sent[e] <= sent'[e] /\ sent'[e] \in Nat /\ sent[e] \in Nat
  BY <1>1, <1>2, <1>3
<1> HIDE DEF r
<1>9. Numbered'
  <2>1. \A q \in modem' : InWindow(q)'
    <3> SUFFICES ASSUME NEW q \in modem' PROVE InWindow(q)'
      OBVIOUS
    <3>1. q \in Request /\ InWindow(q) /\ InTime(q, c)
      BY <1>4, <1>6 DEF Slot, Numbered
    <3> HIDE DEF c
    <3>2. QED
      BY <1>1, <1>3, <3>1, WindowMoves DEF InTime
  <2>2. \A m \in line' : m.kind = "answer" => InWindow(m.req)'
    <3> SUFFICES ASSUME NEW m \in line', m.kind = "answer" PROVE InWindow(m.req)'
      OBVIOUS
    <3>1. m.req \in Request /\ InWindow(m.req) /\ InTime(m.req, c)
      BY <1>5, <1>6 DEF Slot, Numbered
    <3> DEFINE q == m.req
    <3> HIDE DEF c, q
    <3>2. InWindow(q)'
      BY <1>1, <1>3, <3>1, WindowMoves DEF InTime, q
    <3>3. QED
      BY <3>2 DEF q
  <2>3. req'.n = sent'[ChannelOf(req'.service)] /\ req'.tid = counter'[ChannelOf(req'.service)]
    BY <1>1, <1>3, <1>7
  <2>4. QED
    BY <2>1, <2>2, <2>3 DEF Numbered
<1>10. \A q : ChannelOf(q.service) \in Channel
  BY DEF ChannelOf, Channel
<1>11. Made'
  <2>1. \A q \in Request : q.n <= sent[ChannelOf(q.service)] => q.n <= sent'[ChannelOf(q.service)]
    BY <1>8, <1>10 DEF Request
  <2>2. answered \subseteq Request /\ sreq \in Request \cup {None}
    BY DEF Typed, TypeOK
  <2>3. QED
    BY <1>3, <2>1, <2>2 DEF Slot, Made
<1>12. sreq # None => sreq # r
  <2>1. sreq # None => sreq.n <= sent[ChannelOf(sreq.service)]
    BY DEF Slot, Made
  <2>2. QED
    BY <1>1, <1>7, <1>8, <2>1
<1>13. r # None
  BY <1>1, <1>7, <1>8 DEF None
<1>14. Allocated'
  BY <1>3, <1>12, <1>13 DEF Slot, Allocated, NotDangling
<1>15. OwnSlot'
  BY <1>3, <1>5 DEF Slot, OwnSlot
<1>16. Once'
  <2>1. ASSUME NEW q \in modem \cup answered
        PROVE  CallOf(q) # CallOf(r)
    <3>1. q.n <= sent[ChannelOf(q.service)] /\ q # None
      BY DEF Slot, Numbered, InWindow, Made, Typed, TypeOK, Request, None
    <3>2. CallOf(q) = CallOf(r) => ChannelOf(q.service) = c /\ q.n = r.n
      BY <1>1, <1>13, <3>1 DEF CallOf, r
    <3>3. QED
      BY <1>1, <1>7, <1>8, <3>1, <3>2
  <2>2. QED
    BY <1>3, <1>4, <2>1 DEF Slot, Once
<1>17. QED
  BY <1>9, <1>11, <1>14, <1>15, <1>16 DEF Slot

\* A step that composes nothing and neither adds to what may be answered nor
\* begins a call keeps the numbers.
LEMMA NumberedKept ==
  ASSUME Numbered, UNCHANGED tidVars, UNCHANGED req, InCall' => InCall,
         \A r \in modem' : InWindow(r),
         \A m \in line' : m.kind = "answer" => InWindow(m.req)
  PROVE  Numbered'
<1>1. \A r \in modem' : InWindow(r)'
  BY WindowKept
<1>2. \A m \in line' : m.kind = "answer" => InWindow(m.req)'
  BY WindowKept
<1>3. InCall' => /\ req'.n = sent'[ChannelOf(req'.service)]
                 /\ req'.tid = counter'[ChannelOf(req'.service)]
  BY DEF Numbered, tidVars
<1>4. QED
  BY <1>1, <1>2, <1>3 DEF Numbered

\* The request of a call that is registered is in the window.
LEMMA RequestInWindow ==
  ASSUME Typed, Numbered, InCall
  PROVE  InWindow(req)
<1> DEFINE c == ChannelOf(req.service)
<1>1. req \in Request /\ c \in Channel
  BY DEF Typed, HasRequest, ChannelOf, Channel
<1>2. sent[c] \in Nat /\ counter[c] \in Nat /\ Late \in Nat /\ req.tid \in Nat \ {0}
  BY <1>1, TidAssumption DEF Typed, TypeOK, Request
<1>3. req.n = sent[c] /\ req.tid = counter[c]
  BY DEF Numbered
<1>4. InWindow(req) <=> req.n <= sent[c] /\ sent[c] - req.n <= Late /\ req.tid = Back(c, sent[c] - req.n)
  BY DEF InWindow
<1> HIDE DEF c
<1>5. QED
  BY <1>2, <1>3, <1>4 DEF Back

\* The other steps of the main thread keep the facts about the slot.
LEMMA MainSlot ==
  ASSUME Typed, Slot,
         Send \/ SendFails \/ SliceExpires \/ Reacquire \/ SpuriousWakeup \/ Resume \/ QuitRequest
  PROVE  Slot'
<1> USE DEF slotVars, netVars
<1>1. UNCHANGED <<req, tidVars, line, answered, live>>
  BY DEF Send, SendFails, SliceExpires, Reacquire, SpuriousWakeup, Resume, QuitRequest
<1>2. InCall' => InCall
  BY DEF InCall, Send, SendFails, SliceExpires, Reacquire, SpuriousWakeup, Resume, QuitRequest
<1>3. modem' = modem \/ (pc = "composed" /\ modem' = modem \cup {req})
  BY DEF Send, SendFails, SliceExpires, Reacquire, SpuriousWakeup, Resume, QuitRequest
<1>4. \/ UNCHANGED <<sreq, sresp>>
      \/ pc = "composed" /\ sreq' = req /\ sresp' = None
  BY DEF Send, SendFails, Register, SliceExpires, Reacquire, SpuriousWakeup, Resume, QuitRequest
<1>5. pc' # "composed"
  BY DEF Send, SendFails, SliceExpires, Reacquire, SpuriousWakeup, Resume, QuitRequest
<1>6. Numbered'
  <2>1. pc = "composed" => InWindow(req)
    BY RequestInWindow DEF Slot, InCall
  <2>2. \A r \in modem' : InWindow(r)
    BY <1>3, <2>1 DEF Slot, Numbered
  <2>3. \A m \in line' : m.kind = "answer" => InWindow(m.req)
    BY <1>1 DEF Slot, Numbered
  <2>4. QED
    BY <1>1, <1>2, <2>2, <2>3, NumberedKept DEF Slot
<1>7. Made'
  <2>1. pc = "composed" => req.n <= sent[ChannelOf(req.service)]
    BY RequestInWindow DEF Slot, InCall, InWindow
  <2>2. sreq' # None => sreq'.n <= sent[ChannelOf(sreq'.service)]
    BY <1>4, <2>1 DEF Slot, Made
  <2>3. QED
    BY <1>1, <2>2 DEF Slot, Made, tidVars
<1>8. Allocated'
  BY <1>1, <1>4, <1>5 DEF Slot, Allocated, NotDangling
<1>9. OwnSlot'
  <2>1. pc' \in {"wait", "expired", "woken"} => pc \in {"wait", "expired", "woken"} \/ (sreq' = req /\ sresp' = None)
    <3>1. CASE Send
      BY <3>1 DEF Send, Register
    <3>2. CASE SendFails \/ Resume \/ QuitRequest
      BY <3>2 DEF SendFails, Resume, QuitRequest
    <3>3. CASE SliceExpires \/ Reacquire \/ SpuriousWakeup
      BY <3>3 DEF SliceExpires, Reacquire, SpuriousWakeup
    <3>4. QED
      BY <3>1, <3>2, <3>3
  <2>2. pc \in {"wait", "expired", "woken"} => UNCHANGED <<sreq, sresp>>
    BY <1>4
  <2>3. QED
    BY <1>1, <2>1, <2>2 DEF Slot, OwnSlot
<1>10. Once'
  BY <1>1, <1>3, <1>5 DEF Slot, Once
<1>11. QED
  BY <1>6, <1>7, <1>8, <1>9, <1>10 DEF Slot

\* Giving up the pending request keeps the facts about the slot.
LEMMA NullSlot ==
  ASSUME Typed, Slot, ReceiveNull, UNCHANGED <<req, tidVars, netVars>>
  PROVE  Slot'
<1>1. /\ pc' = pc \/ (pc = "wait" /\ pc' = "woken")
      /\ UNCHANGED slotVars \/ (live' = live \ {sreq} /\ sreq' = None /\ sresp' = None)
  BY DEF ReceiveNull, Signal
<1>2. UNCHANGED <<req, sent, counter, modem, line, answered>>
  BY DEF tidVars, netVars
<1>3. Numbered'
  BY <1>1, <1>2, NumberedKept DEF Slot, Numbered, InCall
<1>4. Made'
  BY <1>1, <1>2 DEF Slot, Made, slotVars
<1>5. Allocated'
  <2>1. pc = "composed" => req # None
    BY DEF Typed, HasRequest, InCall, Request, None
  <2>2. pc' = "composed" => pc = "composed"
    BY <1>1
  <2>3. QED
    BY <1>1, <1>2, <2>1, <2>2 DEF Slot, Allocated, NotDangling, slotVars
<1>6. OwnSlot'
  BY <1>1, <1>2 DEF Slot, OwnSlot, slotVars
<1>7. Once'
  BY <1>1, <1>2 DEF Slot, Once
<1>8. QED
  BY <1>3, <1>4, <1>5, <1>6, <1>7 DEF Slot

\* An answer that is taken is kept for the call that waits for it.
LEMMA AnswerSlot ==
  ASSUME Typed, Slot, NEW m \in line, Receive(m), TakeAnswer(m)
  PROVE  Slot'
<1>1. /\ m.kind = "answer" /\ m.req \in Request /\ sreq \in Request
      /\ sreq.service = m.req.service /\ sreq.tid = m.req.tid
  BY KeptIsAnswer DEF TakeAnswer, IsResponse
<1>2. /\ pc' = IF pc = "wait" THEN "woken" ELSE pc
      /\ live' = live \ {sreq} /\ sreq' = None /\ sresp' = m.req
      /\ line' \subseteq line
      /\ UNCHANGED <<req, tidVars, modem, answered>>
  BY DEF Receive, TakeAnswer, Signal
<1>3. Numbered'
  BY <1>2, NumberedKept DEF Slot, Numbered, InCall
<1>4. Made'
  BY <1>2 DEF Slot, Made, tidVars
<1>5. Allocated'
  <2>1. pc = "composed" => req # None
    BY DEF Typed, HasRequest, InCall, Request, None
  <2>2. pc' = "composed" => pc = "composed"
    BY <1>2
  <2>3. QED
    BY <1>2, <2>1, <2>2 DEF Slot, Allocated, NotDangling
<1>6. OwnSlot'
  <2>1. pc \in {"wait", "expired", "woken"} => m.req = req
    <3> SUFFICES ASSUME pc \in {"wait", "expired", "woken"} PROVE m.req = req
      OBVIOUS
    <3>1. sreq # None
      BY <1>1 DEF None, Request
    <3>2. sreq = req
      BY <3>1 DEF Slot, OwnSlot
    <3>3. QED
      BY <1>1, <3>2, NoConfusion DEF Slot, InCall
  <2>2. m.req \in answered
    BY <1>1 DEF Slot, OwnSlot
  <2>3. QED
    BY <1>2, <2>1, <2>2 DEF Slot, OwnSlot
<1>7. Once'
  BY <1>2 DEF Slot, Once
<1>8. QED
  BY <1>3, <1>4, <1>5, <1>6, <1>7 DEF Slot

\* The steps of the QMI thread keep the facts about the slot.
LEMMA ThreadSlot ==
  ASSUME Typed, Slot, QmiThread
  PROVE  Slot'
<1>1. ASSUME NEW m \in line, Receive(m), TakeOther(m)
      PROVE  Slot'
  <2>1. line' \subseteq line /\ UNCHANGED <<pc, req, slotVars, tidVars, modem, answered>>
    BY <1>1 DEF Receive, TakeOther
  <2>2. Numbered'
    BY <2>1, NumberedKept DEF Slot, Numbered, InCall
  <2>3. QED
    BY <2>1, <2>2 DEF Slot, Made, Allocated, NotDangling, OwnSlot, Once, slotVars, tidVars
<1>2. CASE TakeStop \/ Close
  <2>1. UNCHANGED <<pc, req, slotVars, tidVars, netVars>>
    BY <1>2 DEF TakeStop, Close, callVars
  <2>2. UNCHANGED <<modem, line, answered>>
    BY <2>1 DEF netVars
  <2>3. Numbered'
    BY <2>1, <2>2, NumberedKept DEF Slot, Numbered, InCall
  <2>4. QED
    BY <2>1, <2>2, <2>3 DEF Slot, Made, Allocated, NotDangling, OwnSlot, Once, slotVars, tidVars
<1>3. CASE Abort \/ Leave
  BY <1>3, NullSlot DEF Abort, Leave
<1>4. QED
  BY <1>1, <1>2, <1>3, AnswerSlot DEF QmiThread, Receive

\* The steps of the modem keep the facts about the slot.
LEMMA ModemSlot ==
  ASSUME Typed, Slot, Modem
  PROVE  Slot'
<1>1. ASSUME NEW r \in modem, Answer(r)
      PROVE  Slot'
  <2> DEFINE a == [kind |-> "answer", req |-> r]
  <2>1. /\ modem' = modem \ {r} /\ answered' = answered \cup {r}
        /\ line' = line \cup {a}
        /\ UNCHANGED <<pc, req, slotVars, tidVars>>
    BY <1>1 DEF Answer, callVars
  <2>2. a.req = r /\ a.kind = "answer"
    OBVIOUS
  <2>3. InWindow(r) /\ r.n <= sent[ChannelOf(r.service)]
    BY DEF Slot, Numbered, InWindow
  <2> HIDE DEF a
  <2>4. Numbered'
    BY <2>1, <2>2, <2>3, NumberedKept DEF Slot, Numbered, InCall
  <2>5. Made'
    BY <2>1, <2>3 DEF Slot, Made, tidVars, slotVars
  <2>6. Allocated' /\ OwnSlot'
    BY <2>1, <2>2 DEF Slot, Allocated, NotDangling, OwnSlot, slotVars
  <2>7. Once'
    BY <2>1 DEF Slot, Once
  <2>8. QED
    BY <2>4, <2>5, <2>6, <2>7 DEF Slot
<1>2. ASSUME NEW s \in Asked, Indication(s)
      PROVE  Slot'
  <2> DEFINE i == [kind |-> "indication", req |-> [service |-> s, n |-> 0, tid |-> 0]]
  <2>1. line' = line \cup {i} /\ UNCHANGED <<pc, req, slotVars, tidVars, modem, answered>>
    BY <1>2 DEF Indication, callVars
  <2>2. i.kind = "indication"
    OBVIOUS
  <2> HIDE DEF i
  <2>3. Numbered'
    BY <2>1, <2>2, NumberedKept DEF Slot, Numbered, InCall
  <2>4. QED
    BY <2>1, <2>2, <2>3 DEF Slot, Made, Allocated, NotDangling, OwnSlot, Once, slotVars, tidVars
<1>3. QED
  BY <1>1, <1>2 DEF Modem

\* The program starts with an empty slot.
LEMMA InitSlot == Init => Slot
BY DEF Init, Slot, Numbered, Made, Allocated, NotDangling, OwnSlot, Once, InCall

\* Every step keeps the facts about the slot.
LEMMA SlotStep == Typed /\ Slot /\ [Next]_vars => Slot'
<1> SUFFICES ASSUME Typed, Slot, [Next]_vars PROVE Slot'
  OBVIOUS
<1>1. CASE UNCHANGED vars
  <2>1. UNCHANGED <<pc, req, slotVars, tidVars, modem, line, answered>>
    BY <1>1 DEF vars, callVars, netVars
  <2>2. Numbered'
    BY <2>1, NumberedKept DEF Slot, Numbered, InCall
  <2>3. QED
    BY <2>1, <2>2 DEF Slot, Made, Allocated, NotDangling, OwnSlot, Once, slotVars, tidVars
<1>2. CASE Next
  BY <1>1, <1>2, ComposeSlot, MainSlot, ThreadSlot, ModemSlot DEF Next, MainThread, Finished
<1>3. QED
  BY <1>1, <1>2

\* s_pRequest never points to a freed buffer, for any interleaving of answers,
\* aborts, time-outs and late messages (QMIThread.c:644-697).
THEOREM NeverDangling == Spec => []NotDangling
<1>1. Init => Typed /\ Slot
  BY InitTyped, InitSlot
<1>2. Typed /\ Slot /\ [Next]_vars => (Typed /\ Slot)'
  BY TypedStep, SlotStep
<1>3. Slot => NotDangling
  BY DEF Slot, Allocated
<1>4. QED
  BY <1>1, <1>2, <1>3, PTL DEF Spec

-----------------------------------------------------------------------------
(* The command layer implements QmiRpc.                                    *)

\* The abstract state, by name.
made == {i \in Channel \X (1..MaxCalls) : i[2] <= sent[i[1]]}
open == IF InCall THEN CallOf(req) ELSE NoCall
replied == {CallOf(r) : r \in answered}
rpcVars == <<made, open, replied, CallOf(got)>>

\* The bound on the calls.
CallBound == \A c \in Channel : sent[c] <= MaxCalls

\* The call of a request, and that of none.
LEMMA CallOfRequest ==
  ASSUME NEW r \in Request
  PROVE  /\ CallOf(r) = <<ChannelOf(r.service), r.n>>
         /\ CallOf(r) # NoCall
         /\ ChannelOf(r.service) \in Channel
<1>1. r # None
  BY DEF Request, None
<1>2. ChannelOf(r.service) \in {"CTL", "MUX"}
  BY DEF ChannelOf
<1>3. NoCall = <<"none", 0>>
  BY DEF NoCall, CallOf, None
<1>4. CallOf(r) = <<ChannelOf(r.service), r.n>>
  BY <1>1 DEF CallOf
<1>5. QED
  BY <1>2, <1>3, <1>4 DEF Channel

\* A composed or replied request is one of the calls made.
LEMMA RequestMade ==
  ASSUME CallBound, Typed, NEW r \in Request, r.n <= sent[ChannelOf(r.service)]
  PROVE  CallOf(r) \in made
<1> DEFINE c == ChannelOf(r.service)
<1>1. CallOf(r) = <<c, r.n>> /\ c \in Channel
  BY CallOfRequest
<1>2. sent[c] \in Nat /\ sent[c] <= MaxCalls /\ r.n \in Nat \ {0} /\ MaxCalls \in Nat
  BY <1>1, BoundAssumption DEF Typed, TypeOK, CallBound, Request
<1>3. r.n <= sent[c]
  OBVIOUS
<1> HIDE DEF c
<1>4. r.n \in 1..MaxCalls
  BY <1>2, <1>3
<1>5. QED
  BY <1>1, <1>3, <1>4 DEF made

\* Composing a request makes a call that was not made before.
LEMMA ComposeCalls ==
  ASSUME Typed, Slot, CallBound, NEW s \in Asked, Compose(s)
  PROVE  Rpc!Call /\ CallBound'
<1> DEFINE c == ChannelOf(s)
<1> DEFINE r == [service |-> s, n |-> sent[c] + 1, tid |-> NextTid(c)]
<1>1. s \in Service /\ c \in Channel /\ NextTid(c) \in Nat \ {0}
  BY ServiceAssumption, NextTidType DEF Typed, CounterOK, ChannelOf, Channel
<1>2. sent \in [Channel -> Nat] /\ MaxCalls \in Nat /\ sent["CTL"] + sent["MUX"] < MaxCalls
  BY BoundAssumption DEF Typed, TypeOK, Compose
<1>3. /\ pc = "idle" /\ pc' = "composed" /\ req' = r
      /\ sent' = [sent EXCEPT ![c] = sent[c] + 1]
      /\ UNCHANGED <<answered, got>>
  BY DEF Compose
<1>4. r \in Request
  BY <1>1, <1>2 DEF Request
<1>5. CallOf(r) = <<c, sent[c] + 1>>
  BY <1>4, CallOfRequest
<1> HIDE DEF c, r
<1>6. \A e \in Channel : sent[e] < MaxCalls /\ sent[e] \in Nat
  BY <1>2 DEF Channel
<1>7. CallBound'
  BY <1>1, <1>2, <1>3, <1>6 DEF CallBound
<1>8. <<c, sent[c] + 1>> \in (Channel \X (1..MaxCalls)) \ made
  BY <1>1, <1>2, <1>6 DEF made
<1>9. made' = made \cup {<<c, sent[c] + 1>>}
  <2>1. ASSUME NEW i \in Channel \X (1..MaxCalls)
        PROVE  i[2] <= sent'[i[1]] <=> i[2] <= sent[i[1]] \/ i = <<c, sent[c] + 1>>
    <3>1. i[1] \in Channel /\ i[2] \in Nat /\ i = <<i[1], i[2]>>
      OBVIOUS
    <3>2. CASE i[1] = c
      BY <1>1, <1>2, <1>3, <1>6, <3>1, <3>2
    <3>3. CASE i[1] # c
      BY <1>1, <1>2, <1>3, <3>1, <3>3
    <3>4. QED
      BY <3>2, <3>3
  <2>2. QED
    BY <1>8, <2>1 DEF made
<1>10. open = NoCall /\ open' = <<c, sent[c] + 1>>
  BY <1>3, <1>5 DEF open, InCall
<1>11. replied' = replied /\ CallOf(got)' = CallOf(got)
  BY <1>3 DEF replied, CallOf
<1>12. QED
  BY <1>7, <1>8, <1>9, <1>10, <1>11 DEF Rpc!Call, made, open, replied

\* An answer of the modem is the first one to its call.
LEMMA AnswerAnswers ==
  ASSUME Typed, Slot, CallBound, NEW r \in modem, Answer(r)
  PROVE  Rpc!Answer
<1>1. r \in Request /\ r.n <= sent[ChannelOf(r.service)]
  BY DEF Typed, TypeOK, Slot, Numbered, InWindow
<1>2. CallOf(r) \in made
  BY <1>1, RequestMade
<1>3. CallOf(r) \notin replied
  BY DEF Slot, Once, replied
<1>4. answered' = answered \cup {r} /\ UNCHANGED <<sent, pc, req, got>>
  BY DEF Answer, tidVars, callVars
<1>5. replied' = replied \cup {CallOf(r)}
  BY <1>4 DEF replied, CallOf
<1>6. made' = made /\ open' = open /\ CallOf(got)' = CallOf(got)
  BY <1>4 DEF made, open, InCall, CallOf
<1>7. QED
  BY <1>2, <1>3, <1>5, <1>6 DEF Rpc!Answer, made, open, replied

\* A call returns its own answer or none.
LEMMA CallReturns ==
  ASSUME Typed, Slot, UNCHANGED <<sent, answered>>,
         InCall, pc' = "idle", got' \in {None} \cup ({req} \cap answered)
  PROVE  Rpc!Return
<1>1. req \in Request
  BY DEF Typed, HasRequest
<1>2. open = CallOf(req) /\ open # NoCall /\ open' = NoCall
  BY <1>1, CallOfRequest DEF open, InCall
<1>3. CallOf(got)' \in {NoCall} \cup ({open} \cap replied)
  <2>1. CallOf(got)' = CallOf(got')
    BY DEF CallOf
  <2>2. got' = None => CallOf(got') = NoCall
    BY DEF NoCall
  <2>3. got' # None => got' = req /\ req \in answered
    OBVIOUS
  <2>4. QED
    BY <1>2, <2>1, <2>2, <2>3 DEF replied
<1>4. made' = made /\ replied' = replied
  BY DEF made, replied, CallOf
<1>5. QED
  BY <1>2, <1>3, <1>4 DEF Rpc!Return, made, open, replied

\* What neither begins nor ends a call, nor answers one, is not seen.
LEMMA Stutters ==
  ASSUME UNCHANGED <<sent, answered, req, got>>, InCall' <=> InCall
  PROVE  UNCHANGED Rpc!rpcVars
<1>1. made' = made /\ open' = open /\ replied' = replied /\ CallOf(got)' = CallOf(got)
  BY DEF made, open, replied, CallOf
<1>2. QED
  BY <1>1 DEF Rpc!rpcVars, made, open, replied

\* Every step implements a step of QmiRpc or is not seen there.
LEMMA StepImplements ==
  ASSUME Typed, Slot, CallBound, [Next]_vars
  PROVE  [Rpc!Next]_(Rpc!rpcVars) /\ CallBound'
<1> USE DEF slotVars, tidVars, netVars, callVars
<1>1. ASSUME NEW s \in Asked, Compose(s)
      PROVE  Rpc!Call /\ CallBound'
  BY <1>1, ComposeCalls
<1>2. ASSUME NEW r \in modem, Answer(r)
      PROVE  Rpc!Answer /\ UNCHANGED sent
  BY <1>2, AnswerAnswers DEF Answer
<1>3. CASE SendFails
  <2>1. UNCHANGED <<sent, answered>> /\ pc = "composed" /\ pc' = "idle" /\ got' = None
    BY <1>3 DEF SendFails
  <2>2. Rpc!Return /\ UNCHANGED sent
    BY <2>1, CallReturns DEF InCall
  <2>3. QED
    BY <2>2 DEF Rpc!Next, CallBound
<1>4. CASE Reacquire
  <2>1. UNCHANGED <<sent, answered, req>> /\ pc = "expired"
    BY <1>4 DEF Reacquire
  <2>2. \/ pc' = "wait" /\ UNCHANGED got
        \/ pc' = "idle" /\ got' = None
    BY <1>4 DEF Reacquire
  <2>3. (Rpc!Return \/ UNCHANGED Rpc!rpcVars) /\ UNCHANGED sent
    BY <2>1, <2>2, CallReturns, Stutters DEF InCall
  <2>4. QED
    BY <2>3 DEF Rpc!Next, CallBound
<1>5. CASE Resume
  <2>1. UNCHANGED <<sent, answered>> /\ pc = "woken" /\ pc' = "idle" /\ got' = sresp
    BY <1>5 DEF Resume
  <2>2. got' \in {None} \cup ({req} \cap answered)
    BY <2>1 DEF Slot, OwnSlot
  <2>3. Rpc!Return /\ UNCHANGED sent
    BY <2>1, <2>2, CallReturns DEF InCall
  <2>4. QED
    BY <2>3 DEF Rpc!Next, CallBound
<1>6. CASE Send \/ SliceExpires \/ SpuriousWakeup \/ QuitRequest
  <2>1. UNCHANGED <<sent, answered, req, got>> /\ (InCall' <=> InCall)
    BY <1>6 DEF Send, SliceExpires, SpuriousWakeup, QuitRequest, InCall
  <2>2. QED
    BY <2>1, Stutters DEF CallBound
<1>7. CASE QmiThread
  <2>1. UNCHANGED <<sent, answered, req, got>>
    BY <1>7 DEF QmiThread, Receive, Abort, TakeStop, Close, Leave
  <2>2. pc' = pc \/ (pc = "wait" /\ pc' = "woken")
    BY <1>7 DEF QmiThread, Receive, TakeAnswer, TakeOther, Abort, TakeStop, Close, Leave, ReceiveNull, Signal
  <2>3. InCall' <=> InCall
    BY <2>2 DEF InCall
  <2>4. QED
    BY <2>1, <2>3, Stutters DEF CallBound
<1>8. ASSUME NEW s \in Asked, Indication(s)
      PROVE  UNCHANGED Rpc!rpcVars /\ UNCHANGED sent
  <2>1. UNCHANGED <<sent, answered, req, got>> /\ (InCall' <=> InCall)
    BY <1>8 DEF Indication, InCall
  <2>2. QED
    BY <2>1, Stutters
<1>9. CASE UNCHANGED vars
  <2>1. UNCHANGED <<sent, answered, req, got>> /\ (InCall' <=> InCall)
    BY <1>9 DEF vars, InCall
  <2>2. QED
    BY <2>1, Stutters DEF CallBound
<1>10. CASE MainThread
  BY <1>1, <1>3, <1>4, <1>5, <1>6, <1>10 DEF MainThread, Rpc!Next
<1>11. CASE Modem
  BY <1>2, <1>8, <1>11 DEF Modem, Rpc!Next, CallBound
<1>12. QED
  BY <1>7, <1>9, <1>10, <1>11 DEF Next, Finished

\* The program starts in the initial state of QmiRpc.
LEMMA InitImplements == Init => Rpc!Init /\ CallBound
<1> SUFFICES ASSUME Init PROVE Rpc!Init /\ CallBound
  OBVIOUS
<1>1. CallBound
  BY BoundAssumption DEF Init, CallBound
<1>2. made = {}
  BY DEF Init, made
<1>3. open = NoCall /\ replied = {} /\ CallOf(got) = NoCall
  BY DEF Init, open, replied, InCall, NoCall
<1>4. QED
  BY <1>1, <1>2, <1>3 DEF Rpc!Init, made, open, replied

\* A call returns the modem's answer to this very call or none, for every
\* interleaving of the two threads with late answers (QMIThread.c:615-697).
THEOREM ImplementsRpc == Spec => RpcSpec
<1>1. Init => Typed /\ Slot /\ CallBound /\ Rpc!Init
  BY InitTyped, InitSlot, InitImplements
<1>2. Typed /\ Slot /\ CallBound /\ [Next]_vars
      => (Typed /\ Slot /\ CallBound)' /\ [Rpc!Next]_(Rpc!rpcVars)
  BY TypedStep, SlotStep, StepImplements
<1>3. QED
  BY <1>1, <1>2, PTL DEF Spec, RpcSpec, Rpc!Spec

=============================================================================
