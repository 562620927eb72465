----------------------------- MODULE QmiCommand -----------------------------
(***************************************************************************)
(* The command layer of quectel-CM: one slot for a pending request         *)
(* (s_pRequest, s_pResponse), a mutex and a condition variable between the *)
(* main thread, which sends and waits (QmiThreadSendQMITimeout()), and the *)
(* QMI thread, which receives (QmiThreadRecvQMI(), QmiWwanThread()).       *)
(*                                                                         *)
(* The main thread holds the mutex from the registration of its request to *)
(* the wait, and QmiThreadRecvQMI() holds it throughout, so each of them   *)
(* is one step. The wait is cut into slices (pthread_cond_timeout_np()):   *)
(* at the end of a slice the main thread has left the condition variable   *)
(* but does not have the mutex yet.                                        *)
(***************************************************************************)
EXTENDS Integers, FiniteSets

CONSTANTS
  Asked,            \* the services in use
  MuxTids, CtlTids, \* transaction numbers of the two kinds of message
  Late,             \* an answer is lost or read before this many more requests
  Slices,           \* slices of a wait
  MaxCalls,         \* bound on the calls
  MaxFaults         \* bound on failed writes, hang-ups and spurious wake-ups

ASSUME TidAssumption ==
  MuxTids \in Nat /\ CtlTids \in Nat /\ Late \in Nat /\ Late < MuxTids /\ Late < CtlTids
ASSUME BoundAssumption ==
  Slices \in Nat \ {0} /\ MaxCalls \in Nat /\ MaxFaults \in Nat

\* The services asked, and the two counters of transaction numbers.
Service == {"CTL", "NAS", "WDS", "DMS"}
ASSUME ServiceAssumption == Asked \subseteq Service
Channel == {"CTL", "MUX"}
ChannelOf(s) == IF s = "CTL" THEN "CTL" ELSE "MUX"
Tids(c) == IF c = "CTL" THEN CtlTids ELSE MuxTids

\* A request; n, its number on its channel, tells calls apart in the model.
Request == [service : Service, n : Nat \ {0}, tid : Nat \ {0}]
None == [service |-> "none", n |-> 0, tid |-> 0]
CallOf(r) == <<IF r = None THEN "none" ELSE ChannelOf(r.service), r.n>>

\* What the modem sends: answers, and indications, whose number is 0.
Message == [kind : {"answer"}, req : Request]
           \cup [kind : {"indication"}, req : [service : Service, n : {0}, tid : {0}]]

VARIABLES
  pc,          \* the main thread: between calls or where it is in one
  req,         \* its request
  slices,      \* slices left
  result, got, \* how the last call returned, and the answer it returned
  sreq, sresp, \* s_pRequest, s_pResponse
  live,        \* the requests whose buffer is allocated
  sent,        \* requests composed on each channel
  counter,     \* the two static TransactionId
  qth,         \* the QMI thread: running, stopping, closed, gone
  raised,      \* the events it has sent to the main thread
  modem,       \* requests the modem has not answered
  answered,    \* requests it has answered
  line,        \* messages on their way to the QMI thread
  revoked,     \* the modem has reported a reset
  faults

callVars == <<pc, req, slices, result, got>>
slotVars == <<sreq, sresp, live>>
tidVars  == <<sent, counter>>
netVars  == <<modem, answered, line, revoked>>
vars == <<callVars, slotVars, tidVars, qth, raised, netVars, faults>>

TypeOK ==
  /\ pc \in {"idle", "composed", "wait", "expired", "woken", "quit"}
  /\ req \in Request \cup {None} /\ got \in Request \cup {None}
  /\ slices \in 0..Slices
  /\ result \in {"none", "answer", "timeout", "aborted", "unsent"}
  /\ sreq \in Request \cup {None} /\ sresp \in Request \cup {None}
  /\ live \subseteq Request
  /\ sent \in [Channel -> Nat] /\ counter \in [Channel -> Nat]
  /\ qth \in {"running", "stopping", "closed", "gone"}
  /\ raised \subseteq {"RESET", "VOICE", "DATA"}
  /\ modem \subseteq Request /\ answered \subseteq Request
  /\ line \subseteq Message
  /\ revoked \in BOOLEAN
  /\ faults \in 0..MaxFaults

Init ==
  /\ pc = "idle" /\ req = None /\ slices = 0 /\ result = "none" /\ got = None
  /\ sreq = None /\ sresp = None /\ live = {}
  /\ sent = [c \in Channel |-> 0] /\ counter = [c \in Channel |-> 0]
  /\ qth = "running" /\ raised = {}
  /\ modem = {} /\ answered = {} /\ line = {} /\ revoked = FALSE
  /\ faults = MaxFaults

Fault == faults > 0 /\ faults' = faults - 1
Open  == qth \in {"running", "stopping"}

-----------------------------------------------------------------------------
(* The main thread.                                                        *)

\* Variant: the counter does not wrap below the width of the field, which is
\* then truncated: every Tids-th request has the number 0 that indications have.
NextTidTruncated(c) == (counter[c] + 1) % Tids(c)

\* GetQMUXTransactionId(), GetQCTLTransactionId(): 0 is left out.
NextTid(c) == IF counter[c] + 1 > Tids(c) THEN 1 ELSE counter[c] + 1

\* The answer of q is still in time when the next request of channel c is made.
InTime(q, c) == ChannelOf(q.service) = c => sent[c] + 1 - q.n <= Late

\* ComposeQMUXMsg(), ComposeQCTLMsg(). What is not answered or read by now is
\* lost when it is older than the assumption allows.
Compose(s) ==
  /\ pc = "idle" /\ sent["CTL"] + sent["MUX"] < MaxCalls
  /\ LET c == ChannelOf(s)
         n == sent[c] + 1
         r == [service |-> s, n |-> n, tid |-> NextTid(c)]
     IN /\ req' = r
        /\ live' = live \cup {r}
        /\ counter' = [counter EXCEPT ![c] = r.tid]
        /\ sent' = [sent EXCEPT ![c] = n]
        /\ modem' = {q \in modem : InTime(q, c)}
        /\ line' = {m \in line : m.kind = "answer" => InTime(m.req, c)}
  /\ pc' = "composed"
  /\ UNCHANGED <<slices, result, got, sreq, sresp, qth, raised, answered, revoked, faults>>

\* The request becomes the pending one.
Register == sreq' = req /\ sresp' = None

\* The request is written to the device; the wait begins.
Send ==
  /\ pc = "composed" /\ Open
  /\ Register
  /\ modem' = modem \cup {req}
  /\ pc' = "wait" /\ slices' = Slices
  /\ UNCHANGED <<req, result, got, live, tidVars, qth, raised, answered, line, revoked, faults>>

\* It cannot be written: no device, no client id, a full or broken channel. It
\* stays registered.
SendFails ==
  /\ pc = "composed" /\ ((~Open /\ UNCHANGED faults) \/ Fault)
  /\ Register
  /\ pc' = "idle" /\ result' = "unsent" /\ got' = None
  /\ UNCHANGED <<req, slices, live, tidVars, qth, raised, netVars>>

\* pthread_cond_timedwait() gives up and goes for the mutex.
SliceExpires ==
  /\ pc = "wait"
  /\ pc' = "expired"
  /\ UNCHANGED <<req, slices, result, got, slotVars, tidVars, qth, raised, netVars, faults>>

\* Variant: the slices are not counted.
ReacquireUncounted ==
  /\ pc = "expired"
  /\ pc' = "wait"
  /\ UNCHANGED <<req, slices, result, got, slotVars, tidVars, qth, raised, netVars, faults>>

\* and has it: the next slice, or ETIMEDOUT. The request stays registered,
\* and whether it was answered meanwhile is not looked at.
Reacquire ==
  /\ pc = "expired"
  /\ slices' = slices - 1
  /\ IF slices > 1 THEN pc' = "wait" /\ UNCHANGED <<result, got>>
                   ELSE pc' = "idle" /\ result' = "timeout" /\ got' = None
  /\ UNCHANGED <<req, slotVars, tidVars, qth, raised, netVars, faults>>

\* pthread_cond_timedwait() returns 0 though nobody signalled.
SpuriousWakeup ==
  /\ pc = "wait" /\ Fault
  /\ pc' = "woken"
  /\ UNCHANGED <<req, slices, result, got, slotVars, tidVars, qth, raised, netVars>>

\* The wait ends with 0: the response, or -EINVAL without one.
Resume ==
  /\ pc = "woken"
  /\ pc' = "idle"
  /\ got' = sresp
  /\ result' = IF sresp = None THEN "aborted" ELSE "answer"
  /\ UNCHANGED <<req, slices, slotVars, tidVars, qth, raised, netVars, faults>>

\* The main thread has sent RIL_REQUEST_QUIT and makes no more calls.
QuitRequest ==
  /\ pc = "idle"
  /\ pc' = "quit"
  /\ UNCHANGED <<req, slices, result, got, slotVars, tidVars, qth, raised, netVars, faults>>

-----------------------------------------------------------------------------
(* The QMI thread.                                                         *)

\* pthread_cond_signal(): nothing when nobody waits.
Signal == pc' = IF pc = "wait" THEN "woken" ELSE pc

\* Variant: the transaction numbers are not compared.
IsResponseAnyTid(m) == sreq # None /\ sreq.service = m.req.service

\* is_response(): service (and client) and transaction number.
IsResponse(m) ==
  sreq # None /\ sreq.service = m.req.service /\ sreq.tid = m.req.tid

\* The pending request is freed and its answer kept.
TakeAnswer(m) ==
  /\ IsResponse(m)
  /\ live' = live \ {sreq}
  /\ sreq' = None /\ sresp' = m.req
  /\ Signal
  /\ UNCHANGED raised

\* Variant: a message is told by its number alone, 0x0024 is the number of
\* QMICTL_REVOKE_CLIENT_ID_IND and of QMINAS_SERVING_SYSTEM_IND.
EventOfAnyType(m) ==
  CASE m.req.service = "CTL" -> IF m.kind = "indication" THEN {"RESET"} ELSE {}
    [] m.req.service = "NAS" -> {"RESET"}
    [] m.req.service = "WDS" -> {"DATA"}
    [] OTHER -> {}

\* The event of a message nobody waits for. Indications and answers of NAS
\* and WDS bear the same message number, so that a late answer counts as an
\* indication; no answer of CTL bears the number of the reset report.
EventOf(m) ==
  CASE m.req.service = "CTL" -> IF m.kind = "indication" THEN {"RESET"} ELSE {}
    [] m.req.service = "NAS" -> {"VOICE"}
    [] m.req.service = "WDS" -> {"DATA"}
    [] OTHER -> {}

TakeOther(m) ==
  /\ ~IsResponse(m)
  /\ raised' = raised \cup EventOf(m)
  /\ UNCHANGED <<pc, slotVars>>

\* QmiThreadRecvQMI() with a message.
Receive(m) ==
  /\ Open /\ m \in line
  /\ line' = line \ {m}
  /\ TakeAnswer(m) \/ TakeOther(m)
  /\ UNCHANGED <<req, slices, result, got, tidVars, qth, modem, answered, revoked, faults>>

\* Variant: the aborted request is freed but stays registered.
ReceiveNullKeep ==
  IF sreq = None THEN UNCHANGED <<pc, slotVars>>
  ELSE live' = live \ {sreq} /\ sresp' = None /\ Signal /\ UNCHANGED sreq

\* QmiThreadRecvQMI(NULL): the pending request is given up.
ReceiveNull ==
  IF sreq = None THEN UNCHANGED <<pc, slotVars>>
  ELSE live' = live \ {sreq} /\ sreq' = None /\ sresp' = None /\ Signal

\* Variant: the thread also gives up requests when nobody asked it to stop.
AbortAlways ==
  /\ Open /\ line = {}
  /\ ReceiveNull
  /\ UNCHANGED <<req, slices, result, got, tidVars, qth, raised, netVars, faults>>

\* A silent second after SIG_EVENT_STOP.
Abort ==
  /\ qth = "stopping" /\ line = {}
  /\ ReceiveNull
  /\ UNCHANGED <<req, slices, result, got, tidVars, qth, raised, netVars, faults>>

\* SIG_EVENT_STOP comes from the signal handler, at any time.
TakeStop ==
  /\ qth = "running"
  /\ qth' = "stopping"
  /\ UNCHANGED <<callVars, slotVars, tidVars, raised, netVars, faults>>

\* RIL_REQUEST_QUIT, or the device hangs up: the device is closed,
Close ==
  /\ Open /\ ((pc = "quit" /\ UNCHANGED faults) \/ Fault)
  /\ qth' = "closed"
  /\ UNCHANGED <<callVars, slotVars, tidVars, raised, netVars>>

\* and the request that may be pending is given up.
Leave ==
  /\ qth = "closed"
  /\ qth' = "gone"
  /\ ReceiveNull
  /\ UNCHANGED <<req, slices, result, got, tidVars, raised, netVars, faults>>

-----------------------------------------------------------------------------
(* The modem.                                                              *)

Answer(r) ==
  /\ r \in modem
  /\ modem' = modem \ {r} /\ answered' = answered \cup {r}
  /\ line' = line \cup {[kind |-> "answer", req |-> r]}
  /\ UNCHANGED <<callVars, slotVars, tidVars, qth, raised, revoked, faults>>

Indication(s) ==
  /\ line' = line \cup {[kind |-> "indication", req |-> [service |-> s, n |-> 0, tid |-> 0]]}
  /\ revoked' = (revoked \/ s = "CTL")
  /\ UNCHANGED <<callVars, slotVars, tidVars, qth, raised, modem, answered, faults>>

-----------------------------------------------------------------------------
MainThread == (\E s \in Asked : Compose(s)) \/ Send \/ SendFails \/ SliceExpires
              \/ Reacquire \/ SpuriousWakeup \/ Resume \/ QuitRequest
QmiThread == (\E m \in line : Receive(m)) \/ Abort \/ TakeStop \/ Close \/ Leave
Modem == (\E r \in modem : Answer(r)) \/ (\E s \in Asked : Indication(s))

Finished == pc = "quit" /\ qth = "gone" /\ UNCHANGED vars

Next == MainThread \/ QmiThread \/ Modem \/ Finished

Spec == Init /\ [][Next]_vars

\* A call goes on by itself: the thread is scheduled and its waits are timed.
FairSpec == Spec /\ WF_vars(Send \/ SendFails \/ SliceExpires \/ Reacquire \/ Resume)

-----------------------------------------------------------------------------
InCall == pc \in {"composed", "wait", "expired", "woken"}

NoCall == CallOf(None)

Rpc == INSTANCE QmiRpc WITH
         Id       <- Channel \X (1..MaxCalls),
         made     <- {i \in Channel \X (1..MaxCalls) : i[2] <= sent[i[1]]},
         open     <- IF InCall THEN CallOf(req) ELSE NoCall,
         answered <- {CallOf(r) : r \in answered},
         got      <- CallOf(got),
         NoId     <- NoCall

\* A call returns the modem's answer to this call or none, whatever arrives
\* late, is aborted, or times out in between.
RpcSpec == Rpc!Spec

\* Every call returns, also when the modem is silent and a signal was lost.
RpcReturns == Rpc!Returns

\* s_pRequest never points to a buffer that was freed: nothing is freed
\* twice by an answer, an abort and the end of the thread.
NotDangling == sreq # None => sreq \in live

\* A call of a running program fails for its answer only: without a fault
\* no other call than one of a stopping QMI thread is aborted or unsent.
AbortedForStop ==
  result \in {"aborted", "unsent"} => qth # "running" \/ faults < MaxFaults

\* The main thread is only told of a reset that the modem reported: it ends
\* the session for it.
ResetsReported == "RESET" \in raised => revoked

\* "main may be wating qmi response" (main.c:367), therefore the signal
\* handler also tells the QMI thread to stop. While the main thread waits for
\* an answer and the QMI thread stops, its request is there to be given up:
\* QmiThreadRecvQMI(NULL) wakes nobody without one.
StopReachesWait == pc = "wait" /\ qth # "running" => sreq = req
=============================================================================
