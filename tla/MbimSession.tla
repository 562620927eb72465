----------------------------- MODULE MbimSession -----------------------------
(***************************************************************************)
(* A session of quectel-CM with an MBIM modem: the request functions of    *)
(* mbim-cm.c, the filter of its reader for indications, and the parts of   *)
(* main.c that differ for these modems, with one v4 connection.            *)
(*                                                                         *)
(* A request is two steps: the modem answers, and main takes the answer    *)
(* over and notes the states it told (mbim_update_state(), which is not    *)
(* under the mutex). The reader compares indications with the states that  *)
(* are noted. What a single exchange returns is shown in MbimCommand.      *)
(***************************************************************************)
EXTENDS Integers, Sequences

CONSTANTS
  Addr,      \* the addresses of the network
  Opens,     \* tries to open the device
  MaxFaults  \* bound on the signals and on the faults of modem and network

VARIABLES
  task, at,  \* what the main thread is at, and the request of it
  answer,    \* what the modem answered to it, and how: <<>> none yet
  tries,     \* times the device was opened
  attached, status, addr, ip, link,  \* as in AtcSession
  sig, events, alarm, hold,
  reader,    \* up, stopping, gone
  known,     \* oldRegisterState, oldPacketServiceState, oldActivationState
  modem,     \* the states in the modem
  opened,    \* the modem's MBIM function is open
  maddr,     \* the address of its call
  killed, faults

mainVars  == <<task, at, answer, tries, attached, status, addr, ip, link, known>>
modemVars == <<modem, opened, maddr>>
vars == <<mainVars, sig, events, alarm, hold, reader, modemVars, killed, faults>>

\* RegisterState: home or not; PacketServiceState; ActivationState.
States == [reg : {"unknown", "searching", "home"}, ps : {"unknown", "detached", "attached"},
           act : {"unknown", "deactivated", "activated"}]

Task == {"init", "startup", "poll", "voice", "START", "CHECK", "STOP", "quit", "exited"}
Request == {"none", "open", "caps", "reg?", "ps?", "ps=", "connect?", "connect=", "hangup", "ip?",
            "settle", "dialed", "close"}

Reply == [how : {"ok", "error", "timeout", "gone"}, told : States, addr : Addr \cup {0}]

TypeOK ==
  /\ task \in Task /\ at \in Request /\ answer \in Seq(Reply) /\ Len(answer) <= 1 /\ tries \in 0..Opens
  /\ attached \in BOOLEAN /\ status \in {"UNKNOW", "DISCONNECTED", "CONNECTED"}
  /\ addr \in Addr \cup {0} /\ ip \in Addr \cup {0} /\ link \in BOOLEAN
  /\ sig \in Seq({"START", "CHECK", "STOP"}) /\ events \in Seq({"VOICE", "DATA", "DISCONNECTED"})
  /\ alarm \in BOOLEAN /\ hold \in BOOLEAN /\ reader \in {"up", "stopping", "gone"}
  /\ known \in States /\ modem \in States /\ opened \in BOOLEAN /\ maddr \in Addr
  /\ killed \in BOOLEAN /\ faults \in 0..MaxFaults
  /\ at \in {"none", "settle", "dialed"} => answer = <<>>

Init ==
  /\ task = "init" /\ at = "open" /\ answer = <<>> /\ tries = 1
  /\ attached = FALSE /\ status = "UNKNOW" /\ addr = 0 /\ ip = 0 /\ link = FALSE
  /\ sig = <<>> /\ events = <<>> /\ alarm = FALSE /\ hold = FALSE /\ reader = "up"
  /\ known = [reg |-> "unknown", ps |-> "unknown", act |-> "unknown"]
  /\ \E r \in {"searching", "home"}, c \in {"deactivated", "activated"} :
       /\ c = "activated" => r = "home"
       /\ modem = [reg |-> r, ps |-> IF c = "activated" THEN "attached" ELSE "detached", act |-> c]
  /\ opened = FALSE /\ maddr = (CHOOSE a \in Addr : TRUE) /\ killed = FALSE /\ faults = MaxFaults

-----------------------------------------------------------------------------
(* The modem's part in a request.                                          *)

Fault == faults > 0 /\ faults' = faults - 1
Open == reader # "gone"

\* The modem answers, with the states it has; it can fail for no reason, and
\* it does when it is not open. NOT_OPENED is noted in mbim_open_state, which
\* nobody reads.
Asked == at \notin {"none", "settle", "dialed"} /\ answer = <<>>
Answer(how) == answer' = <<[how |-> how, told |-> modem', addr |-> IF modem'.act = "activated" THEN maddr' ELSE 0]>>

\* What the request does in the modem.
Effect ==
  CASE at = "open" -> opened' = TRUE /\ UNCHANGED <<modem, maddr>>
    [] at = "close" -> opened' = FALSE /\ modem' = [modem EXCEPT !.act = "deactivated"] /\ UNCHANGED maddr
    [] at = "ps=" /\ modem.reg = "home" -> modem' = [modem EXCEPT !.ps = "attached"] /\ UNCHANGED <<opened, maddr>>
    [] at = "connect=" /\ modem.ps = "attached" /\ modem.act = "deactivated" ->
         modem' = [modem EXCEPT !.act = "activated"] /\ maddr' \in Addr /\ UNCHANGED opened
    [] at = "hangup" -> modem' = [modem EXCEPT !.act = "deactivated"] /\ UNCHANGED <<opened, maddr>>
    [] OTHER -> UNCHANGED modemVars

\* MBIM_STATUS of a request that cannot be done now.
Possible ==
  /\ opened \/ at = "open"
  /\ at = "ps=" => modem.reg = "home"
  /\ at = "connect=" => modem.ps = "attached"

RequestSame == UNCHANGED <<task, at, tries, attached, status, addr, ip, link, known, sig, alarm, hold, reader, killed>>

Respond ==
  /\ Asked /\ Open
  /\ \/ Possible /\ Effect /\ Answer("ok") /\ UNCHANGED faults
     \/ ~Possible /\ UNCHANGED modemVars /\ Answer("error") /\ UNCHANGED faults
     \/ Fault /\ UNCHANGED modemVars /\ Answer("error")
  /\ UNCHANGED events /\ RequestSame

\* No answer in time, which may still have been done, or the channel is gone.
NoAnswer ==
  /\ Asked
  /\ \/ Open /\ Possible /\ Fault /\ Effect
     \/ ~Open /\ UNCHANGED <<modemVars, faults>>
  /\ answer' = <<[how |-> IF Open THEN "timeout" ELSE "gone", told |-> known, addr |-> 0]>>
  /\ UNCHANGED events /\ RequestSame

-----------------------------------------------------------------------------
(* Main takes the answer.                                                  *)

Taken == answer # <<>> /\ answer' = <<>>
Ok == answer[1].how = "ok"
Again == answer[1].how = "timeout" /\ tries < Opens
Told == answer[1].told

Go(c) == at' = c /\ UNCHANGED task
Return == task' = "poll" /\ at' = "none"
Send(s) == sig' = Append(sig, s)

\* mbim_update_state() after the state of a field was assigned.
Note(f) == known' = IF Ok THEN [known EXCEPT ![f] = Told[f]] ELSE known

TakenSame == UNCHANGED <<ip, events, alarm, reader, modemVars, killed, faults>>

\* mbim_init(): OPEN is repeated when it times out only; capabilities,
\* services and radio stand for the requests after it. A failure ends the
\* process.
InitAnswered ==
  /\ task = "init" /\ Taken
  /\ \/ Ok /\ at = "open" /\ Go("caps") /\ UNCHANGED tries
     \/ Ok /\ at = "caps" /\ task' = "startup" /\ at' = "reg?" /\ UNCHANGED tries
     \/ Again /\ at = "open" /\ tries' = tries + 1 /\ Go("open")
     \/ ~Ok /\ ~(Again /\ at = "open") /\ task' = "exited" /\ at' = "none" /\ UNCHANGED tries
  /\ UNCHANGED <<attached, status, addr, link, known, sig, hold>> /\ TakenSame

\* After requestRegistrationState(): as in AtcSession, but a call that is
\* there at start-up is kept.
Registered(a) ==
  /\ attached' = a
  /\ CASE task = "startup" -> Return /\ Send("CHECK") /\ UNCHANGED hold
       [] task = "CHECK" -> Go(IF status # "DISCONNECTED" THEN "connect?" ELSE "settle") /\ UNCHANGED <<sig, hold>>
       [] task = "voice" -> /\ Return /\ hold' = (a /\ hold)
                            /\ IF a /\ status = "DISCONNECTED" THEN Send("START") ELSE UNCHANGED sig

RegAnswered ==
  /\ at = "reg?" /\ Taken /\ Note("reg")
  /\ IF Ok /\ Told.reg = "home" THEN attached' = FALSE /\ Go("ps?") /\ UNCHANGED <<sig, hold>>
     ELSE Registered(FALSE)
  /\ UNCHANGED <<tries, status, addr, link>> /\ TakenSame

\* Variant: nobody asks the modem to attach.
AttachNot == Registered(FALSE)

\* MBIMPacketServiceActionAttach
Attach == attached' = FALSE /\ Go("ps=") /\ UNCHANGED <<sig, hold>>

\* An error leaves *pPSAttachedState as the registration set it.
PsAnswered ==
  /\ at = "ps?" /\ Taken /\ Note("ps")
  /\ IF ~Ok THEN Registered(TRUE)
     ELSE IF Told.ps = "attached" THEN Registered(TRUE) ELSE Attach
  /\ UNCHANGED <<tries, status, addr, link>> /\ TakenSame

\* The answer notes the new state, the caller is not told of it.
AttachAnswered ==
  /\ at = "ps=" /\ Taken /\ Note("ps") /\ Registered(FALSE)
  /\ UNCHANGED <<tries, status, addr, link>> /\ TakenSame

\* requestQueryDataCall(): an error counts as disconnected.
QueryAnswered ==
  /\ at = "connect?" /\ Taken /\ Note("act")
  /\ status' = IF Ok /\ Told.act = "activated" THEN "CONNECTED" ELSE "DISCONNECTED"
  /\ Go(IF status' = "CONNECTED" /\ addr = 0 THEN "ip?" ELSE "settle")
  /\ UNCHANGED <<tries, attached, addr, link, sig, hold>> /\ TakenSame

\* Variant: an address once told is kept.
ToldFirst == IF Ok /\ addr = 0 THEN answer[1].addr ELSE addr

ToldAddress == IF Ok /\ answer[1].addr # 0 THEN answer[1].addr ELSE addr

\* mbim_ip_config(): 0 also when there is no address in the answer, which
\* keeps the one there was. check_ipv4_address() asks nothing more.
IpAnswered ==
  /\ at = "ip?" /\ Taken
  /\ addr' = ToldAddress
  /\ status' = IF Ok THEN "CONNECTED" ELSE IF task = "CHECK" THEN "DISCONNECTED" ELSE status
  /\ Go(IF task = "CHECK" THEN "settle" ELSE "dialed")
  /\ UNCHANGED <<tries, attached, link, known, sig, hold>> /\ TakenSame

\* requestSetupDataCall()
DialAnswered ==
  /\ at = "connect=" /\ Taken /\ Note("act")
  /\ Go(IF Ok THEN "ip?" ELSE "dialed")
  /\ UNCHANGED <<tries, attached, status, addr, link, sig, hold>> /\ TakenSame

\* SIG_EVENT_STOP: hang up, link down, mbim_deinit().
StopAnswered ==
  /\ task = "STOP" /\ Taken
  /\ IF at = "hangup" THEN Note("act") /\ Go("close") ELSE task' = "quit" /\ at' = "none" /\ UNCHANGED known
  /\ UNCHANGED <<tries, attached, status, addr, link, sig, hold>> /\ TakenSame

-----------------------------------------------------------------------------
(* Main by itself.                                                         *)

MainOnly == UNCHANGED <<answer, tries, known, reader, modemVars, killed, faults>>

\* usbnet_link_change(); the address that was asked for is set when the link
\* comes up (update_ip_address_by_qmi()).
LinkDown == IF link THEN link' = FALSE /\ addr' = 0 /\ ip' = 0 ELSE UNCHANGED <<link, addr, ip>>

Settle ==
  /\ at = "settle" /\ Return
  /\ IF status = "CONNECTED" THEN link' = TRUE /\ ip' = (IF link THEN ip ELSE addr) /\ UNCHANGED <<addr, sig>>
                             ELSE LinkDown /\ Send("START")
  /\ UNCHANGED <<attached, status, events, alarm, hold>> /\ MainOnly

Dialed ==
  /\ at = "dialed" /\ Return
  /\ hold' = (status = "DISCONNECTED") /\ alarm' = (status = "DISCONNECTED")
  /\ UNCHANGED <<attached, status, addr, ip, link, sig, events>> /\ MainOnly

TakeSignal ==
  /\ task = "poll" /\ sig # <<>> /\ sig' = Tail(sig)
  /\ CASE Head(sig) = "START" ->
            IF ~attached \/ hold \/ status = "CONNECTED" THEN alarm' = (attached /\ hold) /\ UNCHANGED <<task, at>>
            ELSE task' = "START" /\ at' = "connect=" /\ alarm' = FALSE
       [] Head(sig) = "CHECK" ->
            /\ task' = "CHECK" /\ alarm' = FALSE
            /\ at' = IF ~attached THEN "reg?" ELSE IF status = "DISCONNECTED" THEN "settle" ELSE "connect?"
       [] Head(sig) = "STOP" ->
            task' = "STOP" /\ alarm' = FALSE /\ at' = IF status = "CONNECTED" THEN "hangup" ELSE "close"
  /\ IF Head(sig) = "STOP" THEN LinkDown ELSE UNCHANGED <<link, addr, ip>>
  /\ UNCHANGED <<attached, status, events, hold>> /\ MainOnly

TakeEvent ==
  /\ task = "poll" /\ events # <<>> /\ events' = Tail(events)
  /\ CASE Head(events) = "DISCONNECTED" -> task' = "quit" /\ at' = "none" /\ LinkDown /\ UNCHANGED <<sig, hold>>
       [] Head(events) = "VOICE" -> task' = "voice" /\ at' = "reg?" /\ UNCHANGED <<sig, hold, link, addr, ip>>
       [] Head(events) = "DATA" -> /\ hold' = (status = "CONNECTED" \/ hold) /\ Send("CHECK")
                                   /\ UNCHANGED <<task, at, link, addr, ip>>
  /\ UNCHANGED <<attached, status, alarm>> /\ MainOnly

\* Variant: poll() has no time-out.
CheckAgainNot == FALSE

\* poll() timed out.
CheckAgain == task = "poll" /\ sig = <<>> /\ events = <<>>

PollTimeout ==
  /\ CheckAgain /\ Send("CHECK")
  /\ UNCHANGED <<task, at, attached, status, addr, ip, link, events, alarm, hold>> /\ MainOnly

\* The process ends with the reader.
Quit ==
  /\ task = "quit" /\ reader = "gone" /\ task' = "exited" /\ LinkDown
  /\ sig' = <<>> /\ events' = <<>>
  /\ UNCHANGED <<at, attached, status, alarm, hold>> /\ MainOnly

-----------------------------------------------------------------------------
(* The clock, the signal handler, the reader and the modem.                *)

ClockSame == UNCHANGED <<mainVars, events, reader, modemVars, killed, faults>>
Alarm == alarm /\ alarm' = FALSE /\ hold' = FALSE /\ Send("START") /\ ClockSame
HoldOver == hold /\ hold' = FALSE /\ UNCHANGED <<sig, alarm>> /\ ClockSame

\* Variant: a signal that comes in the middle of a request is dropped.
OnSignalIdle ==
  IF task = "poll" THEN Send("STOP") /\ reader' = (IF reader = "up" THEN "stopping" ELSE reader)
                   ELSE UNCHANGED <<sig, reader>>

\* ql_sigaction(): a STOP for main, and one for the reader.
OnSignal == Send("STOP") /\ reader' = IF reader = "up" THEN "stopping" ELSE reader

Kill ==
  /\ ~killed /\ Fault /\ killed' = TRUE /\ OnSignal
  /\ UNCHANGED <<mainVars, events, alarm, hold, modemVars>>

EnvSame == UNCHANGED <<mainVars, sig, alarm, hold, killed>>

\* mbim_read_thread() tells main when it ends.
LeaveLoop == reader' = "gone" /\ events' = Append(events, "DISCONNECTED")

\* RIL_REQUEST_QUIT, or a second of silence after mbim_deinit().
QuitAsked == reader = "stopping" \/ (reader = "up" /\ task = "quit")
ReaderLeaves == QuitAsked /\ LeaveLoop /\ EnvSame /\ UNCHANGED <<modemVars, faults>>

\* The device hangs up.
Hangup == reader = "up" /\ Fault /\ LeaveLoop /\ EnvSame /\ UNCHANGED modemVars

\* An indication raises an event only when its state is not the noted one.
Raise(f, e) == IF opened /\ Open /\ modem'[f] # known[f] THEN <<e>> ELSE <<>>
Indicate == events' = events \o Raise("reg", "VOICE") \o Raise("act", "DATA")

\* The network takes the modem in; it lets it go, or ends its call.
Register ==
  /\ modem.reg = "searching"
  /\ modem' = [modem EXCEPT !.reg = "home"]
  /\ Indicate /\ EnvSame /\ UNCHANGED <<reader, opened, maddr, faults>>
Lose ==
  /\ Fault
  /\ \/ modem.reg = "home" /\ modem' = [reg |-> "searching", ps |-> "detached", act |-> "deactivated"]
     \/ modem.act = "activated" /\ modem' = [modem EXCEPT !.act = "deactivated"]
  /\ Indicate /\ EnvSame /\ UNCHANGED <<reader, opened, maddr>>

\* The modem loses its MBIM state in a suspend of the host.
Suspend ==
  /\ opened /\ Fault /\ opened' = FALSE
  /\ EnvSame /\ UNCHANGED <<events, reader, modem, maddr>>

Main ==
  \/ InitAnswered \/ RegAnswered \/ PsAnswered \/ AttachAnswered \/ QueryAnswered \/ IpAnswered
  \/ DialAnswered \/ StopAnswered \/ Settle \/ Dialed \/ TakeSignal \/ TakeEvent \/ PollTimeout \/ Quit
Exchange == Respond \/ NoAnswer
Clock == Alarm \/ HoldOver
Environment == task # "exited" /\ (Kill \/ Hangup \/ Register \/ Lose \/ Suspend)
Exited == task = "exited" /\ UNCHANGED vars
Next == Main \/ Exchange \/ ReaderLeaves \/ (task # "exited" /\ Clock) \/ Environment \/ Exited

Spec == Init /\ [][Next]_vars

\* Every request has a time-out, the clock runs, the reader polls its pipe.
ClockRuns == task # "exited" /\ Clock
FairSpec == Spec /\ WF_vars(Main \/ Exchange) /\ WF_vars(ReaderLeaves) /\ WF_vars(ClockRuns)

-----------------------------------------------------------------------------
(* Properties.                                                             *)

\* The address on the interface is that of the call the modem has.
AddressOfCall == link /\ ip # 0 /\ modem.act = "activated" => ip = maddr

\* What it rests on: the link is up, or is about to be taken down, with the
\* session connected; a dial is for a session that is not; a query is for one
\* that has been connected or was just started; the address that main knows, or
\* is told, is that of the call there is.
Addressed ==
  /\ task \in {"poll", "quit", "exited"} => at = "none"
  /\ task = "init" => at \in {"open", "caps"}
  /\ task = "STOP" => at \in {"hangup", "close"}
  /\ at \in {"reg?", "ps?", "ps="} => task \in {"startup", "CHECK", "voice"}
  /\ link => status = "CONNECTED" \/ at = "settle"
  /\ at = "connect=" => status # "CONNECTED" /\ ~link
  /\ at = "connect?" => status # "DISCONNECTED"
  /\ status = "UNKNOW" => addr = 0
  /\ status = "CONNECTED" /\ addr # 0 /\ modem.act = "activated" => addr = maddr
  /\ at = "ip?" /\ answer # <<>> => (Ok /\ modem.act = "activated" => answer[1].addr = maddr)
  /\ AddressOfCall

\* An error of the second query of requestRegistrationState() makes main take
\* the modem for attached; it then never asks it to attach.
Misled == attached /\ modem.ps # "attached"

Usable == ~Misled /\ reader = "up" /\ ~killed /\ opened /\ modem.reg = "home" /\ task \notin {"quit", "exited"}

\* Once the network keeps the modem, main attaches, is told of it and
\* connects, although indications are dropped that tell what an answer
\* already noted.
Connected == attached /\ status = "CONNECTED" /\ link /\ modem.act = "activated"
Connects == <>[]Usable => <>[]Connected

\* A signal ends the process, whatever it waits for.
Killed == killed
Ended == task = "exited"
Ends == Killed ~> Ended
=============================================================================
