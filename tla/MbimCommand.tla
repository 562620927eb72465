----------------------------- MODULE MbimCommand -----------------------------
(***************************************************************************)
(* The command layer for MBIM modems: mbim_send_command() of the main      *)
(* thread, mbim_recv_command() and mbim_read_thread().                     *)
(*                                                                         *)
(* Unlike the QMI layer (QmiCommand) the pending request belongs to the    *)
(* caller, which takes it back itself, and an answer does not take it      *)
(* away; the reader that is told to stop does not give a request up but    *)
(* closes the device. The main thread holds mbim_command_mutex from        *)
(* writing to waiting, the reader for a whole message.                     *)
(***************************************************************************)
EXTENDS Integers

CONSTANTS
  Wrap,      \* 0xFFFFFF, the last number that leaves the proxy its byte
  Late,      \* an answer is lost or read before this many more requests
  Slices,    \* slices of a wait
  MaxCalls,  \* bound on the calls
  MaxFaults  \* bound on failed writes and hang-ups

\* n, the number of the call, tells calls apart in the model.
Request == [n : 0..MaxCalls, tid : 0..(MaxCalls + 1)]
None == [n |-> 0, tid |-> 0]

VARIABLES
  pc,        \* main: idle, composed, checked, wait, expired, woken, quit
  req,       \* its request
  slices,    \* slices left
  result, got,
  sreq,      \* mbim_pRequest
  sresp,     \* mbim_pResponse
  n, tid,    \* calls made, TransactionId
  reader,    \* running, stopping, closed (mbim_fd is -1), gone (s_tid_reader is 0)
  modem, line, \* requests it has, and answers on the way to the reader, in any order
  answered,
  faults

callVars == <<pc, req, slices, result, got, sreq>>
netVars == <<modem, line, answered>>
vars == <<callVars, sresp, n, tid, reader, netVars, faults>>

TypeOK ==
  /\ pc \in {"idle", "composed", "checked", "wait", "expired", "woken", "quit"}
  /\ req \in Request /\ slices \in 0..Slices /\ got \in Request
  /\ result \in {"none", "answer", "timeout", "null", "unsent"}
  /\ sreq \in Request /\ sresp \in Request
  /\ n \in 0..MaxCalls /\ tid \in 1..(MaxCalls + 1)
  /\ reader \in {"running", "stopping", "closed", "gone"}
  /\ modem \subseteq Request /\ answered \subseteq Request /\ line \subseteq answered
  /\ faults \in 0..MaxFaults
  /\ sreq # None <=> pc \in {"wait", "expired", "woken"}

Init ==
  /\ pc = "idle" /\ req = None /\ slices = 0 /\ result = "none" /\ got = None
  /\ sreq = None /\ sresp = None /\ n = 0 /\ tid = 1
  /\ reader = "running" /\ modem = {} /\ line = {} /\ answered = {} /\ faults = MaxFaults

Fault == faults > 0 /\ faults' = faults - 1
Open == reader \in {"running", "stopping"}

-----------------------------------------------------------------------------
(* The main thread.                                                        *)

\* compose_*_command(): TransactionId++. What is not answered or read by now
\* is lost when it is older than the assumption allows.
Compose ==
  /\ pc = "idle" /\ n < MaxCalls
  /\ n' = n + 1 /\ tid' = tid + 1
  /\ req' = [n |-> n + 1, tid |-> tid]
  /\ modem' = {r \in modem : n + 1 - r.n <= Late}
  /\ line' = {r \in line : n + 1 - r.n <= Late}
  /\ pc' = "composed"
  /\ UNCHANGED <<slices, result, got, sreq, sresp, reader, answered, faults>>

\* mbim_pRequest = mbim_pResponse = NULL
TakenBack == sreq' = None /\ sresp' = None

Unsent ==
  /\ pc' = "idle" /\ result' = "unsent" /\ got' = None /\ TakenBack
  /\ UNCHANGED <<slices, n, reader, netVars>>

\* -ENODEV or -EINVAL without the mutex.
Check ==
  /\ pc = "composed"
  /\ IF Open THEN pc' = "checked" /\ UNCHANGED <<slices, result, got, sreq, sresp, n, reader, netVars>>
             ELSE Unsent
  /\ UNCHANGED <<req, tid, faults>>


\* The number that does not fit any more, compared for equality.
Beyond == req.tid = Wrap + 1

\* Variant: the numbers go on.
NumberedOn == req

\* A new round of numbers begins with 1.
Numbered == IF Beyond THEN [req EXCEPT !.tid = 1] ELSE req

\* write() and the wait; the device may have been closed after the check.
Send ==
  /\ pc = "checked"
  /\ req' = Numbered /\ tid' = (IF Beyond THEN 2 ELSE tid)
  /\ \/ /\ Open /\ UNCHANGED faults
        /\ sreq' = req' /\ sresp' = None /\ modem' = modem \cup {req'}
        /\ pc' = "wait" /\ slices' = Slices
        /\ UNCHANGED <<result, got, n, reader, line, answered>>
     \/ (~Open /\ UNCHANGED faults) /\ Unsent
     \/ Fault /\ Unsent

\* A slice of pthread_cond_timeout_np() is over; then main has the mutex again.
SliceExpires ==
  /\ pc = "wait" /\ pc' = "expired"
  /\ UNCHANGED <<req, slices, result, got, sreq, sresp, n, tid, reader, netVars, faults>>

\* Variant: the slices are not counted.
CountedNot == UNCHANGED slices

Counted == slices' = slices - 1

Reacquire ==
  /\ pc = "expired"
  /\ Counted
  /\ IF slices > 1 THEN pc' = "wait" /\ UNCHANGED <<result, got, sreq, sresp>>
     ELSE pc' = "idle" /\ result' = "timeout" /\ got' = None /\ TakenBack
  /\ UNCHANGED <<req, n, tid, reader, netVars, faults>>

\* Woken: the response, or 8888 when there is none.
Resume ==
  /\ pc = "woken" /\ pc' = "idle"
  /\ got' = sresp /\ result' = (IF sresp = None THEN "null" ELSE "answer")
  /\ TakenBack
  /\ UNCHANGED <<req, slices, n, tid, reader, netVars, faults>>

QuitRequest ==
  /\ pc = "idle" /\ pc' = "quit"
  /\ UNCHANGED <<req, slices, result, got, sreq, sresp, n, tid, reader, netVars, faults>>

-----------------------------------------------------------------------------
(* The reader thread.                                                      *)

Signal == pc' = IF pc = "wait" THEN "woken" ELSE pc

\* Variant: the number is not compared.
ForAny(m) == sreq # None

ForPending(m) == sreq # None /\ sreq.tid = m.tid

\* An answer to nobody is no indication: it is dropped.
Receive(m) ==
  /\ Open /\ line' = line \ {m}
  /\ IF ForPending(m) THEN sresp' = m /\ Signal ELSE UNCHANGED <<sresp, pc>>
  /\ UNCHANGED <<req, slices, result, got, sreq, n, tid, reader, modem, answered, faults>>

\* Variant: the one that waits is woken, as the QMI layer does.
OnStopWake == Signal

OnStop == UNCHANGED pc

TakeStop ==
  /\ reader = "running" /\ reader' = "stopping" /\ OnStop
  /\ UNCHANGED <<req, slices, result, got, sreq, sresp, n, tid, netVars, faults>>

\* RIL_REQUEST_QUIT, a second of silence after SIG_EVENT_STOP, a hang-up.
Close ==
  /\ \/ reader = "stopping" /\ line = {} /\ UNCHANGED faults
     \/ reader = "running" /\ ((pc = "quit" /\ UNCHANGED faults) \/ Fault)
  /\ reader' = "closed"
  /\ UNCHANGED <<callVars, sresp, n, tid, netVars>>

\* mbim_recv_command(NULL)
Leave ==
  /\ reader = "closed" /\ reader' = "gone"
  /\ Signal
  /\ UNCHANGED <<req, slices, result, got, sreq, sresp, n, tid, netVars, faults>>

Answer(r) ==
  /\ r \in modem
  /\ modem' = modem \ {r} /\ answered' = answered \cup {r} /\ line' = line \cup {r}
  /\ UNCHANGED <<callVars, sresp, n, tid, reader, faults>>

Finished == pc = "quit" /\ reader = "gone" /\ UNCHANGED vars

MainThread == Compose \/ Check \/ Send \/ SliceExpires \/ Reacquire \/ Resume \/ QuitRequest
Reader == (\E m \in line : Receive(m)) \/ TakeStop \/ Close \/ Leave
Next == MainThread \/ Reader \/ (\E r \in modem : Answer(r)) \/ Finished

Spec == Init /\ [][Next]_vars

\* A call goes on by itself, and so does the end of the reader.
Goes == Check \/ Send \/ SliceExpires \/ Reacquire \/ Resume
FairSpec == Spec /\ WF_vars(Goes) /\ WF_vars(Leave)

-----------------------------------------------------------------------------
InCall == pc \in {"composed", "checked", "wait", "expired", "woken"}

Rpc == INSTANCE QmiRpc WITH
         Id <- 1..MaxCalls, NoId <- 0,
         made <- 1..n, open <- IF InCall THEN req.n ELSE 0,
         answered <- {r.n : r \in answered}, got <- got.n

\* A call returns the modem's answer to it or none, across a wrap of the
\* numbers and answers that come late.
RpcSpec == Rpc!Spec

\* Every call returns, although nobody is woken when main is between slices.
RpcReturns == Rpc!Returns

\* What is written leaves the byte free that quectel-mbim-proxy uses for the
\* number of the client.
LeavesProxyByte == \A r \in modem \cup answered : r.tid \in 1..Wrap

\* A call only returns without answer or error when the reader has left.
NullForEnd == result = "null" => reader = "gone"

\* What they rest on. Until the device is closed every call takes the number
\* after the one before, or 1 after Wrap; so of the requests that are not
\* older than Late, the one with the number of the call is the call's.
Sent == pc \in {"wait", "expired", "woken"}
Numbers ==
  /\ InCall => n > 0 /\ req.n = n /\ req.tid > 0 /\ req.tid = tid - 1
  /\ pc \in {"wait", "expired"} => slices > 0
  /\ tid <= n + 1
  /\ Open => tid <= Wrap + (IF pc \in {"composed", "checked"} THEN 2 ELSE 1)
  /\ sreq = IF Sent THEN req ELSE None
  /\ \A r \in modem \cup answered : r.n \in 1..n /\ r.tid \in 1..Wrap
InFlight(r) ==
  /\ n - r.n <= Late
  /\ r.tid \in {tid - 1 - (n - r.n), tid - 1 - (n - r.n) + Wrap}
  /\ r.n = n => pc \notin {"composed", "checked"}
Matched ==
  /\ Open => \A r \in modem \cup line : InFlight(r)
  /\ sresp # None => sresp = sreq /\ sresp \in answered
  /\ pc = "woken" => sresp # None \/ reader = "gone"
=============================================================================
