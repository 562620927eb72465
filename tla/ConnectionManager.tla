-------------------------- MODULE ConnectionManager --------------------------
(***************************************************************************)
(* The connection manager of the cellular modem, quectel-CM                *)
(* (feeds/lorawan-gateway/quectel-cm/src/main.c), driving a QMI modem.     *)
(*                                                                         *)
(* Three parties share the state:                                          *)
(*   - the main thread, a loop that polls two socket pairs and runs one    *)
(*     handler per signal number or device event;                          *)
(*   - the QMI thread, which reads the modem and the main thread's         *)
(*     control messages, and aborts a pending request when it stops;       *)
(*   - the signal handler, which runs at any moment and only writes to the *)
(*     socket pairs.                                                       *)
(* The modem, the network and the clock are the environment. A handler     *)
(* blocks on the modem at every request, so each request is a step of its  *)
(* own and everything else may happen between two of them.                 *)
(***************************************************************************)
EXTENDS Integers, Sequences

CONSTANTS
  Enabled,      \* the families the user asked for (profile->enable_ipv4/6)
  Addr,         \* the addresses the network assigns; 0 is no address
  AllowTime,    \* allow_time[]: ticks to wait after the n-th failed dial
  NetHold,      \* ticks of the hold-off after a change of the call list
  PollTime,     \* ticks of poll()'s timeout
  Credentials,  \* a user name and a password are configured
  InitAuth,     \* the configured authentication mode (profile->auth)
  NetAuth,      \* the mode the network accepts, when credentials are used
  MayReset,     \* the modem may report that it resets
  MaySuspend,   \* the modem may report a call as suspended
  MaxFaults     \* bound on the faults of modem, network and transport

Family == {"v4", "v6"}

ASSUME EnabledAssumption == Enabled \subseteq Family /\ Enabled # {}
ASSUME AddrAssumption == Addr \subseteq Nat \ {0}
ASSUME TimeAssumption ==
  /\ AllowTime \in Seq(Nat \ {0})
  /\ Len(AllowTime) > 0
  /\ NetHold \in Nat
  /\ PollTime \in Nat \ {0}
ASSUME AuthAssumption ==
  /\ Credentials \in BOOLEAN
  /\ InitAuth \in 0..3
  /\ NetAuth \in 0..3
ASSUME BoundAssumption ==
  MayReset \in BOOLEAN /\ MaySuspend \in BOOLEAN /\ MaxFaults \in Nat

VARIABLES
  pc,           \* where the main thread is
  fam,          \* the family the running handler is at
  attached,     \* PSAttachedState == 1
  status,       \* IPv4ConnectionStatus, IPv6ConnectionStatus
  handle,       \* WdsConnectionIPv4Handle, WdsConnectionIPv6Handle # 0
  addr,         \* profile->ipv4.Address, profile->ipv6.Address
  auth, oldAuth,\* profile->auth and the mode to restore
  fails,        \* SetupCallFail, up to the length of allow_time[]
  link,         \* s_link, the families it has up; {"unset"} is its -1
  iface,        \* the addresses the network interface carries
  doNotExit,    \* g_donot_exit_when_modem_hangup
  sig,          \* signal_control_fd: from signal handler and main to main
  toDev,        \* qmidevice_control_fd, main to QMI thread
  events,       \* qmidevice_control_fd, QMI thread to main
  evReady,      \* this round of poll() found the event socket readable
  pipes,        \* the socket pairs exist
  qth,          \* the QMI thread: none, running, stopping or gone
  hold,         \* ticks until SetupCallAllowTime
  alarm,        \* ticks until SIGALRM; 0 is no alarm
  idle,         \* ticks until poll() times out
  mAttached,    \* the modem is attached to the packet service
  mCall,        \* the address of each family's call in the modem; 0: no call
  killed,       \* SIGINT or SIGTERM was sent to the process
  faults,       \* faults the environment may still cause
  noId,         \* the services the session has no client id of: qmiclientId[] is 0
  unanswered,   \* not the program's: of the registration the modem was not asked
                \* yet, or did not answer the last time
  unclear       \* not the program's: a check ended without knowing of an enabled
                \* family whether it is up, and none since found all of them down

mainVars  == <<pc, fam, attached, status, handle, addr, auth, oldAuth, fails,
               link, iface, evReady, noId, unanswered, unclear>>
pipeVars  == <<sig, toDev, events, pipes>>
timeVars  == <<hold, alarm, idle>>
modemVars == <<mAttached, mCall>>
vars == <<mainVars, doNotExit, pipeVars, qth, timeVars, modemVars, killed, faults>>

Status == {"UNKNOW", "DISCONNECTED", "CONNECTED", "SUSPENDED"}
Signo  == {"START", "CHECK", "STOP"}
Event  == {"DISCONNECTED", "VOICE", "DATA", "RESET"}

\* Program points of the main thread, by the handler they belong to.
InStart  == {"dial", "redial", "getip", "dialed"}
InCheck  == {"reg", "query", "local", "compare", "drop", "settle"}
InStop   == {"hangup", "stopped"}
InLoop   == {"poll", "signal", "event", "voice"} \cup InStart \cup InCheck \cup InStop
Outside  == {"detect", "return", "sleep"}
Point    == InLoop \cup Outside \cup {"startup", "setup", "quit", "exited"}

TypeOK ==
  /\ pc \in Point
  /\ fam \in Family
  /\ attached \in BOOLEAN
  /\ status \in [Family -> Status]
  /\ handle \in [Family -> BOOLEAN]
  /\ addr \in [Family -> Addr \cup {0}]
  /\ auth \in 0..3 /\ oldAuth \in 0..3
  /\ fails \in 0..Len(AllowTime)
  /\ link \in SUBSET (Family \cup {"unset"})
  /\ iface \in [Family -> Addr \cup {0}]
  /\ doNotExit \in BOOLEAN
  /\ sig \in Seq(Signo)
  /\ toDev \in Seq({"STOP", "QUIT"})
  /\ events \in Seq(Event)
  /\ evReady \in BOOLEAN /\ pipes \in BOOLEAN
  /\ qth \in {"none", "running", "stopping", "gone"}
  /\ hold \in Nat /\ alarm \in Nat /\ idle \in 0..PollTime
  /\ mAttached \in BOOLEAN
  /\ mCall \in [Family -> Addr \cup {0}]
  /\ killed \in BOOLEAN
  /\ faults \in 0..MaxFaults
  /\ noId \in SUBSET (Enabled \cup {"nas"})
  /\ unanswered \in BOOLEAN
  /\ unclear \in BOOLEAN

-----------------------------------------------------------------------------
(* The environment's part in a request.                                    *)

\* A fault that the environment is still allowed to cause.
Fault == faults > 0 /\ faults' = faults - 1

\* The modem can answer: the QMI thread has the device open.
Reachable == qth \in {"running", "stopping"}

\* A request gets to service s of the modem: "ctl" (control, without client ids),
\* "nas" (registration) or the data service of a family. A request of a service
\* without a client id is refused before it is sent (-ENODEV).
Reaches(s) == Reachable /\ s \notin noId

\* A request is answered with what the modem says.
Answered(s) == Reaches(s) /\ UNCHANGED faults

\* A request fails: no device, no client id, aborted by the stopping QMI
\* thread (QmiThreadRecvQMI(NULL)), or a lost message and a timeout.
Aborted(s) == (qth # "running" \/ s \in noId) /\ UNCHANGED faults
Failed(s)  == Aborted(s) \/ (Reaches(s) /\ Fault)

\* Indications of the modem, passed to main by the QMI thread.
Indicate(es) == events' = IF Reachable THEN events \o es ELSE events

-----------------------------------------------------------------------------
(* Bookkeeping of the main thread.                                         *)

SendSigno(s) == sig' = Append(sig, s)

\* v4 first, then v6 at `again', then on to `finish'.
NextFamily(again, finish) ==
  IF fam = "v4" THEN pc' = again /\ fam' = "v6"
                ELSE pc' = finish /\ fam' = "v4"

IsUp(f)  == f \in Enabled /\ status[f] = "CONNECTED"
NeedDial == \E f \in Enabled : status[f] = "DISCONNECTED"

\* Variant: the mask is compared as "some family is up", not bit by bit.
LinkChangeOnOff(new) ==
  IF (new = {}) = (link = {}) /\ link # {"unset"} THEN UNCHANGED <<link, addr, iface>>
  ELSE /\ link' = new
       /\ addr' = [f \in Family |-> IF f \in new THEN addr[f] ELSE 0]
       /\ iface' = [f \in Family |->
                      IF new = {} THEN 0
                      ELSE IF addr'[f] # 0 THEN addr'[f] ELSE iface[f]]

\* usbnet_link_change(): nothing when the mask is what it was; otherwise the
\* addresses of the families that are down are forgotten, and the interface
\* gets the addresses that are left, or is flushed.
LinkChange(new) ==
  IF new = link THEN UNCHANGED <<link, addr, iface>>
  ELSE /\ link' = new
       /\ addr' = [f \in Family |-> IF f \in new THEN addr[f] ELSE 0]
       /\ iface' = [f \in Family |->
                      IF new = {} THEN 0
                      ELSE IF addr'[f] # 0 THEN addr'[f] ELSE iface[f]]

-----------------------------------------------------------------------------
(* Process and session life cycle.                                         *)

Init ==
  /\ pc = "detect" /\ fam = "v4"
  /\ attached = FALSE
  /\ status = [f \in Family |-> "UNKNOW"]
  /\ handle = [f \in Family |-> FALSE]
  /\ addr = [f \in Family |-> 0]
  /\ auth = InitAuth /\ oldAuth = InitAuth
  /\ fails = 0
  /\ link = {"unset"}
  /\ iface = [f \in Family |-> 0]
  /\ doNotExit = FALSE
  /\ sig = <<>> /\ toDev = <<>> /\ events = <<>>
  /\ evReady = FALSE /\ pipes = FALSE
  /\ qth = "none"
  /\ hold = 0 /\ alarm = 0 /\ idle = PollTime
  /\ mAttached \in BOOLEAN
  /\ mCall = [f \in Family |-> 0]
  /\ killed = FALSE
  /\ faults = MaxFaults
  /\ noId = {} /\ unanswered = TRUE
  /\ unclear = FALSE

\* quectel_CM() finds a modem and enters qmi_main(): a session begins with
\* fresh local state, fresh socket pairs and a new QMI thread. The handles,
\* the link mask and a pending alarm are process-wide and survive.
OpenSession ==
  /\ pc = "detect"
  /\ pc' = "startup"
  /\ doNotExit' = FALSE
  /\ attached' = FALSE
  /\ status' = [f \in Family |-> "UNKNOW"]
  /\ fails' = 0 /\ hold' = 0
  /\ sig' = <<>> /\ toDev' = <<>> /\ events' = <<>> /\ pipes' = TRUE
  /\ qth' = "running"
  /\ unanswered' = TRUE
  /\ UNCHANGED <<fam, handle, addr, auth, oldAuth, link, iface, evReady,
                 alarm, idle, modemVars, killed, noId, unclear, faults>>

\* quectel_CM() finds no modem.
NoDevice ==
  /\ pc = "detect" /\ Fault
  /\ pc' = "return"
  /\ UNCHANGED <<fam, attached, status, handle, addr, auth, oldAuth, fails, link,
                 iface, evReady, doNotExit, pipeVars, qth, timeVars, modemVars,
                 killed, noId, unanswered, unclear>>

\* QmiWwanInit() asks for a client id of each service, anew in each session. It
\* returns success also when one is refused or its answer is lost: the service
\* then has none until the end of the session.
ClientIds ==
  /\ pc = "startup"
  /\ \/ Answered("ctl") /\ noId' = {}
     \/ Failed("ctl") /\ noId' \in SUBSET (Enabled \cup {"nas"}) \ {{}}
  /\ pc' = "setup"
  /\ UNCHANGED <<fam, attached, status, handle, addr, auth, oldAuth, fails, link, iface,
                 evReady, doNotExit, pipeVars, qth, timeVars, modemVars,
                 killed, unanswered, unclear>>

\* requestRegistrationState(): the program counts as not attached before it asks,
\* so it does when it gets no answer.
AskRegistration ==
  \/ Answered("nas") /\ attached' = mAttached /\ unanswered' = FALSE
  \/ Failed("nas") /\ attached' = FALSE /\ unanswered' = TRUE

\* The set-up requests up to the loop; of their results only the registration
\* state is kept. The first check is sent when they are done.
Startup ==
  /\ pc = "setup"
  /\ AskRegistration
  /\ SendSigno("CHECK")
  /\ pc' = "poll"
  /\ UNCHANGED <<fam, status, handle, addr, auth, oldAuth, fails, link, iface,
                 evReady, doNotExit, toDev, events, pipes, qth, timeVars,
                 modemVars, killed, noId, unclear>>

\* qmi_main() returns early when the device cannot be opened or initialised,
\* without joining the QMI thread; main() then leaves the process.
StartupFails ==
  /\ pc = "startup" /\ Failed("ctl")
  /\ pc' = "return"
  /\ UNCHANGED <<fam, attached, status, handle, addr, auth, oldAuth, fails, link,
                 iface, evReady, doNotExit, pipeVars, qth, timeVars, modemVars,
                 killed, noId, unanswered, unclear>>

\* Variant: the QMI thread is not joined.
QuitWithoutJoin ==
  /\ pc = "quit"
  /\ LinkChange({})
  /\ sig' = <<>> /\ toDev' = <<>> /\ events' = <<>> /\ pipes' = FALSE
  /\ pc' = "return"
  /\ UNCHANGED <<fam, attached, status, handle, auth, oldAuth, fails, evReady,
                 doNotExit, qth, timeVars, modemVars,
                 killed, noId, unanswered, unclear, faults>>

\* __main_quit: the QMI thread is joined and the socket pairs are closed.
Quit ==
  /\ pc = "quit" /\ qth = "gone"
  /\ LinkChange({})
  /\ qth' = "none"
  /\ sig' = <<>> /\ toDev' = <<>> /\ events' = <<>> /\ pipes' = FALSE
  /\ pc' = "return"
  /\ UNCHANGED <<fam, attached, status, handle, auth, oldAuth, fails, evReady,
                 doNotExit, timeVars, modemVars,
                 killed, noId, unanswered, unclear, faults>>

\* main(): another session only when the modem reported a reset, after 3 s.
Return ==
  /\ pc \in {"return", "sleep"}
  /\ pc' = IF ~doNotExit THEN "exited"
           ELSE IF pc = "return" THEN "sleep" ELSE "detect"
  /\ UNCHANGED <<fam, attached, status, handle, addr, auth, oldAuth, fails, link,
                 iface, evReady, doNotExit, pipeVars, qth, timeVars, modemVars,
                 killed, noId, unanswered, unclear, faults>>

-----------------------------------------------------------------------------
(* The loop: poll() looks at both sockets; within one round the signal     *)
(* socket is served first, then the event socket if poll() saw it ready.   *)

Poll ==
  /\ pc = "poll"
  /\ sig # <<>> \/ events # <<>>
  /\ evReady' = (events # <<>>)
  /\ pc' = IF sig # <<>> THEN "signal" ELSE "event"
  /\ idle' = PollTime
  /\ UNCHANGED <<fam, attached, status, handle, addr, auth, oldAuth, fails, link,
                 iface, doNotExit, pipeVars, qth, hold, alarm, modemVars,
                 killed, noId, unanswered, unclear, faults>>

\* Variant: the time-out of poll() is ignored.
PollTimeoutIgnored ==
  /\ pc = "poll" /\ sig = <<>> /\ events = <<>> /\ idle = 0
  /\ idle' = PollTime
  /\ UNCHANGED <<mainVars, doNotExit, pipeVars, qth, hold, alarm, modemVars, killed, faults>>

\* Nothing for 15 s: check.
PollTimeout ==
  /\ pc = "poll" /\ sig = <<>> /\ events = <<>> /\ idle = 0
  /\ SendSigno("CHECK")
  /\ idle' = PollTime
  /\ UNCHANGED <<mainVars, doNotExit, toDev, events, pipes, qth, hold, alarm,
                 modemVars, killed, faults>>

\* A signal number is read: every one of them cancels the alarm.
TakeSignal(s) ==
  /\ pc = "signal" /\ Head(sig) = s
  /\ sig' = Tail(sig)
  /\ UNCHANGED <<fam, attached, status, handle, addr, auth, oldAuth, fails, link,
                 iface, evReady, doNotExit, toDev, events, pipes, qth, hold, idle,
                 modemVars, killed, noId, unanswered, unclear, faults>>

\* Variant: the hold-off does not set the alarm again.
TakeStartNoAlarm ==
  /\ TakeSignal("START")
  /\ alarm' = 0
  /\ pc' = IF attached /\ hold = 0 THEN "dial" ELSE "event"

\* SIG_EVENT_START: not before the packet service is attached, and not before
\* the hold-off is over.
TakeStart ==
  /\ TakeSignal("START")
  /\ alarm' = IF attached THEN hold ELSE 0
  /\ pc' = IF attached /\ hold = 0 THEN "dial" ELSE "event"

TakeCheck ==
  /\ TakeSignal("CHECK")
  /\ alarm' = 0
  /\ pc' = IF attached THEN "query" ELSE "reg"

TakeStop ==
  /\ TakeSignal("STOP")
  /\ alarm' = 0
  /\ pc' = "hangup"

NoEvent ==
  /\ pc = "event" /\ ~evReady
  /\ pc' = "poll"
  /\ UNCHANGED <<fam, attached, status, handle, addr, auth, oldAuth, fails, link,
                 iface, evReady, doNotExit, pipeVars, qth, timeVars, modemVars,
                 killed, noId, unanswered, unclear, faults>>

TakeEvent(e) ==
  /\ pc = "event" /\ evReady /\ Head(events) = e
  /\ events' = Tail(events)
  /\ evReady' = FALSE
  /\ UNCHANGED <<fam, attached, status, handle, auth, oldAuth, fails, pipes, qth,
                 alarm, idle, modemVars, killed, noId, unanswered, unclear, faults>>

\* RIL_INDICATE_DEVICE_DISCONNECTED
TakeDisconnected ==
  /\ TakeEvent("DISCONNECTED")
  /\ LinkChange({})
  /\ pc' = "quit"
  /\ UNCHANGED <<doNotExit, sig, toDev, hold>>

\* RIL_UNSOL_RESPONSE_VOICE_NETWORK_STATE_CHANGED: ask for the registration.
TakeVoice ==
  /\ TakeEvent("VOICE")
  /\ pc' = "voice"
  /\ UNCHANGED <<addr, link, iface, doNotExit, sig, toDev, hold>>

\* RIL_UNSOL_DATA_CALL_LIST_CHANGED
TakeData ==
  /\ TakeEvent("DATA")
  /\ hold' = IF \E f \in Family : status[f] = "CONNECTED" THEN NetHold ELSE hold
  /\ SendSigno("CHECK")
  /\ pc' = "poll"
  /\ UNCHANGED <<addr, link, iface, doNotExit, toDev>>

\* Variant: the QMI thread is not told to quit.
TakeResetNoQuit ==
  /\ TakeEvent("RESET")
  /\ doNotExit' = TRUE
  /\ pc' = "quit"
  /\ UNCHANGED <<addr, link, iface, sig, toDev, hold>>

\* MODEM_REPORT_RESET_EVENT
TakeReset ==
  /\ TakeEvent("RESET")
  /\ toDev' = Append(toDev, "QUIT")
  /\ doNotExit' = TRUE
  /\ pc' = "quit"
  /\ UNCHANGED <<addr, link, iface, sig, hold>>

\* The rest of the registration event: dial when attached, otherwise forget
\* the hold-off.
VoiceRegistration ==
  /\ pc = "voice"
  /\ AskRegistration
  /\ hold' = IF attached' THEN hold ELSE 0
  /\ IF attached' /\ NeedDial THEN SendSigno("START") ELSE UNCHANGED sig
  /\ pc' = "poll"
  /\ UNCHANGED <<fam, status, handle, addr, auth, oldAuth, fails, link, iface,
                 evReady, doNotExit, toDev, events, pipes, qth, alarm, idle,
                 modemVars, killed, noId, unclear>>

-----------------------------------------------------------------------------
(* SIG_EVENT_START: requestSetupDataCall() and requestGetIPAddress() for   *)
(* each enabled family that is not connected.                              *)

DialUnchanged ==
  UNCHANGED <<attached, link, iface, evReady, doNotExit, sig, toDev, pipes, qth,
              idle, mAttached, killed, noId, unanswered, unclear>>

DialSkip ==
  /\ pc = "dial" /\ (fam \notin Enabled \/ status[fam] = "CONNECTED")
  /\ NextFamily("dial", "dialed")
  /\ DialUnchanged
  /\ UNCHANGED <<status, handle, addr, auth, oldAuth, fails, events, hold, alarm, mCall, faults>>

Dialing == pc \in {"dial", "redial"} /\ fam \in Enabled /\ status[fam] # "CONNECTED"

\* The network takes the call: it is attached and the authentication fits.
Accepts == mAttached /\ (Credentials => auth = NetAuth)

\* The modem brings the call up, or has it up already, and says so.
BringUp ==
  /\ IF mCall[fam] # 0 THEN UNCHANGED mCall
     ELSE \E a \in Addr : mCall' = [mCall EXCEPT ![fam] = a]
  /\ Indicate(<<"DATA">>)

\* Variant: the handle in the modem's answer is not kept.
DialOkNoHandle ==
  /\ Dialing /\ Accepts /\ Answered(fam)
  /\ BringUp
  /\ pc' = "getip"
  /\ DialUnchanged
  /\ UNCHANGED <<fam, status, handle, addr, auth, oldAuth, fails, hold, alarm>>

DialOk ==
  /\ Dialing /\ Accepts /\ Answered(fam)
  /\ BringUp
  /\ handle' = [handle EXCEPT ![fam] = TRUE]
  /\ pc' = "getip"
  /\ DialUnchanged
  /\ UNCHANGED <<fam, status, addr, auth, oldAuth, fails, hold, alarm>>

\* Variant: the retry always uses CHAP.
AfterDialErrorChap(positive) ==
  /\ IF pc = "dial" /\ fam = "v4" /\ Credentials /\ positive
     THEN /\ oldAuth' = auth /\ auth' = 2
          /\ pc' = "redial" /\ UNCHANGED fam
     ELSE /\ auth' = IF pc = "redial" THEN oldAuth ELSE auth
          /\ UNCHANGED oldAuth
          /\ NextFamily("dial", "dialed")
  /\ DialUnchanged
  /\ UNCHANGED <<status, handle, addr, fails, hold, alarm>>

\* A positive error of the v4 dial with credentials is retried once with the
\* other authentication mode; a second error restores the first mode.
AfterDialError(positive) ==
  /\ IF pc = "dial" /\ fam = "v4" /\ Credentials /\ positive
     THEN /\ oldAuth' = auth /\ auth' = (IF auth = 1 THEN 2 ELSE 1)
          /\ pc' = "redial" /\ UNCHANGED fam
     ELSE /\ auth' = IF pc = "redial" THEN oldAuth ELSE auth
          /\ UNCHANGED oldAuth
          /\ NextFamily("dial", "dialed")
  /\ DialUnchanged
  /\ UNCHANGED <<status, handle, addr, fails, hold, alarm>>

\* The modem rejects the dial (a positive QMI error).
DialRejected ==
  /\ Dialing /\ Reaches(fam)
  /\ (~Accepts /\ UNCHANGED faults) \/ Fault
  /\ AfterDialError(TRUE)
  /\ UNCHANGED <<events, mCall>>

\* The answer does not come in 120 s (ETIMEDOUT, positive); the modem may
\* have brought the call up all the same.
DialTimeout ==
  /\ Dialing /\ Reaches(fam) /\ Accepts /\ Fault
  /\ BringUp
  /\ AfterDialError(TRUE)

\* The request is refused locally or aborted by the QMI thread (-ENODEV,
\* -EINVAL).
DialAborted ==
  /\ Dialing /\ Aborted(fam)
  /\ AfterDialError(FALSE)
  /\ UNCHANGED <<events, mCall>>

\* requestGetIPAddress(): profile's address is cleared first; the modem is
\* only asked when there is a handle.
GetIPOk ==
  /\ \/ ~handle[fam] /\ UNCHANGED faults /\ addr' = [addr EXCEPT ![fam] = 0]
     \/ handle[fam] /\ mCall[fam] # 0 /\ Answered(fam) /\ addr' = [addr EXCEPT ![fam] = mCall[fam]]
GetIPErr ==
  /\ handle[fam]
  /\ Failed(fam) \/ (mCall[fam] = 0 /\ Answered(fam))
  /\ addr' = [addr EXCEPT ![fam] = 0]

GetIP ==
  /\ pc = "getip"
  /\ \/ GetIPOk /\ status' = [status EXCEPT ![fam] = "CONNECTED"]
     \/ GetIPErr /\ UNCHANGED status
  /\ NextFamily("dial", "dialed")
  /\ DialUnchanged
  /\ UNCHANGED <<handle, auth, oldAuth, fails, events, hold, alarm, mCall>>

\* Variant: the number of failed dials is not bounded by the table.
DialedUnbounded ==
  /\ pc = "dialed"
  /\ IF NeedDial
     THEN LET n == IF fails < Len(AllowTime) THEN fails + 1 ELSE Len(AllowTime)
          IN /\ fails' = fails + 1
             /\ alarm' = AllowTime[n] /\ hold' = AllowTime[n]
     ELSE IF \E f \in Family : status[f] = "CONNECTED"
     THEN fails' = 0 /\ hold' = 0 /\ UNCHANGED alarm
     ELSE UNCHANGED <<fails, hold, alarm>>
  /\ pc' = "event"
  /\ DialUnchanged
  /\ UNCHANGED <<fam, status, handle, addr, auth, oldAuth, events, mCall, faults>>

\* Still a family to dial: back off. All connected: no hold-off.
Dialed ==
  /\ pc = "dialed"
  /\ IF NeedDial
     THEN LET n == IF fails < Len(AllowTime) THEN fails + 1 ELSE Len(AllowTime)
          IN /\ fails' = n
             /\ alarm' = AllowTime[n] /\ hold' = AllowTime[n]
     ELSE IF \E f \in Family : status[f] = "CONNECTED"
     THEN fails' = 0 /\ hold' = 0 /\ UNCHANGED alarm
     ELSE UNCHANGED <<fails, hold, alarm>>
  /\ pc' = "event"
  /\ DialUnchanged
  /\ UNCHANGED <<fam, status, handle, addr, auth, oldAuth, events, mCall, faults>>

-----------------------------------------------------------------------------
(* SIG_EVENT_CHECK: bring registration and call status up to date, verify  *)
(* the local v4 address, tell the interface, and ask for a dial.           *)

CheckUnchanged ==
  UNCHANGED <<auth, oldAuth, fails, evReady, doNotExit, toDev, pipes, qth,
              timeVars, mAttached, killed, noId>>

Registration ==
  /\ pc = "reg"
  /\ AskRegistration
  /\ pc' = "query"
  /\ CheckUnchanged
  /\ UNCHANGED <<fam, status, handle, addr, link, iface, sig, events, mCall, unclear>>

QuerySkip ==
  /\ pc = "query" /\ (fam \notin Enabled \/ status[fam] = "DISCONNECTED")
  /\ status' = [status EXCEPT ![fam] = "DISCONNECTED"]
  /\ NextFamily("query", "settle")
  /\ CheckUnchanged
  /\ UNCHANGED <<attached, handle, addr, link, iface, sig, events, mCall, faults, unanswered, unclear>>

Querying == pc = "query" /\ fam \in Enabled /\ status[fam] # "DISCONNECTED"

\* Variant: DISCONNECTED drops the handles of both families.
QueryOkBothHandles(s) ==
  /\ Querying /\ Reaches(fam)
  /\ CASE s = "SUSPENDED"    -> MaySuspend /\ mCall[fam] # 0 /\ Fault
       [] s = "CONNECTED"    -> mCall[fam] # 0 /\ UNCHANGED faults
       [] s = "DISCONNECTED" -> (mCall[fam] = 0 /\ UNCHANGED faults) \/ (mCall[fam] # 0 /\ Fault)
  /\ status' = [status EXCEPT ![fam] = s]
  /\ handle' = IF s = "DISCONNECTED" THEN [f \in Family |-> FALSE] ELSE handle
  /\ IF fam = "v4" /\ s = "CONNECTED" THEN pc' = "local" /\ UNCHANGED fam
                                      ELSE NextFamily("query", "settle")
  /\ CheckUnchanged
  /\ UNCHANGED <<attached, addr, link, iface, sig, events, mCall, unanswered, unclear>>

\* requestQueryDataCall() is answered: DISCONNECTED also drops the handle. A
\* call that is up may be reported as neither connected nor disconnected, or as
\* one to be reconfigured (ReconfigReqd), which counts as disconnected.
QueryOk(s) ==
  /\ Querying /\ Reaches(fam)
  /\ CASE s = "SUSPENDED"    -> MaySuspend /\ mCall[fam] # 0 /\ Fault
       [] s = "CONNECTED"    -> mCall[fam] # 0 /\ UNCHANGED faults
       [] s = "DISCONNECTED" -> (mCall[fam] = 0 /\ UNCHANGED faults) \/ (mCall[fam] # 0 /\ Fault)
  /\ status' = [status EXCEPT ![fam] = s]
  /\ handle' = IF s = "DISCONNECTED" THEN [handle EXCEPT ![fam] = FALSE] ELSE handle
  /\ IF fam = "v4" /\ s = "CONNECTED" THEN pc' = "local" /\ UNCHANGED fam
                                      ELSE NextFamily("query", "settle")
  /\ CheckUnchanged
  /\ UNCHANGED <<attached, addr, link, iface, sig, events, mCall, unanswered, unclear>>

\* No answer: v4 counts as disconnected, v6 keeps its status.
QueryErr ==
  /\ Querying /\ Failed(fam)
  /\ status' = IF fam = "v4" THEN [status EXCEPT ![fam] = "DISCONNECTED"] ELSE status
  /\ NextFamily("query", "settle")
  /\ CheckUnchanged
  /\ UNCHANGED <<attached, handle, addr, link, iface, sig, events, mCall, unanswered, unclear>>

\* A connected v4 call without an address: ask for it.
LocalAddress ==
  /\ pc = "local"
  /\ \/ addr[fam] # 0 /\ pc' = "compare" /\ UNCHANGED <<fam, status, addr, faults>>
     \/ addr[fam] = 0 /\ GetIPOk /\ pc' = "compare" /\ UNCHANGED <<fam, status>>
     \/ /\ addr[fam] = 0 /\ GetIPErr
        /\ status' = [status EXCEPT ![fam] = "DISCONNECTED"]
        /\ NextFamily("query", "settle")
  /\ CheckUnchanged
  /\ UNCHANGED <<attached, handle, link, iface, sig, events, mCall, unanswered, unclear>>

\* Variant: a different address is taken over silently.
CompareAddressAccept ==
  /\ pc = "compare"
  /\ \/ GetIPOk /\ NextFamily("query", "settle")
     \/ GetIPErr /\ pc' = "drop" /\ UNCHANGED fam
  /\ CheckUnchanged
  /\ UNCHANGED <<attached, status, handle, link, iface, sig, events, mCall, unanswered, unclear>>

\* check_ipv4_address(): the modem's address replaces profile's and must be
\* the same.
CompareAddress ==
  /\ pc = "compare"
  /\ \/ GetIPOk /\ addr'[fam] = addr[fam] /\ NextFamily("query", "settle")
     \/ GetIPOk /\ addr'[fam] # addr[fam] /\ pc' = "drop" /\ UNCHANGED fam
     \/ GetIPErr /\ pc' = "drop" /\ UNCHANGED fam
  /\ CheckUnchanged
  /\ UNCHANGED <<attached, status, handle, link, iface, sig, events, mCall, unanswered, unclear>>

\* requestDeactivateDefaultPDP(): nothing without a handle; without an answer
\* the handle stays and the modem may or may not have ended the call.
Deactivate ==
  \/ ~handle[fam] /\ UNCHANGED <<handle, mCall, events, faults>>
  \/ /\ handle[fam] /\ Answered(fam)
     /\ mCall' = [mCall EXCEPT ![fam] = 0]
     /\ handle' = [handle EXCEPT ![fam] = FALSE]
     /\ Indicate(<<"DATA">>)
  \/ /\ handle[fam] /\ Failed(fam)
     /\ UNCHANGED handle
     /\ \/ UNCHANGED <<mCall, events>>
        \/ Reaches(fam) /\ mCall' = [mCall EXCEPT ![fam] = 0] /\ Indicate(<<"DATA">>)

\* The addresses differ: hang up.
DropCall ==
  /\ pc = "drop"
  /\ Deactivate
  /\ status' = [status EXCEPT ![fam] = "DISCONNECTED"]
  /\ NextFamily("query", "settle")
  /\ CheckUnchanged
  /\ UNCHANGED <<attached, addr, link, iface, sig, unanswered, unclear>>

\* Whether a check that ends knows of every enabled family. The status of one is
\* unknown when its first query failed, and suspended when the modem says so.
NoteUnclear ==
  unclear' = IF \A f \in Family : status[f] = "DISCONNECTED" THEN FALSE
             ELSE unclear \/ \E f \in Enabled : status[f] \notin {"CONNECTED", "DISCONNECTED"}

\* Variant: the link is never taken down by a check.
SettleKeepsLink ==
  /\ pc = "settle"
  /\ LET up == {f \in Family : status[f] = "CONNECTED"}
     IN IF up # {} THEN LinkChange(up) ELSE UNCHANGED <<link, addr, iface>>
  /\ IF NeedDial THEN SendSigno("START") ELSE UNCHANGED sig
  /\ NoteUnclear
  /\ pc' = "event"
  /\ CheckUnchanged
  /\ UNCHANGED <<fam, attached, status, handle, events, mCall, faults, unanswered>>

\* Variant: a check does not ask for a dial.
SettleNoStart ==
  /\ pc = "settle"
  /\ LET up == {f \in Family : status[f] = "CONNECTED"}
     IN IF up # {} \/ \A f \in Family : status[f] = "DISCONNECTED"
        THEN LinkChange(up)
        ELSE UNCHANGED <<link, addr, iface>>
  /\ NoteUnclear
  /\ pc' = "event"
  /\ CheckUnchanged
  /\ UNCHANGED <<fam, attached, status, handle, sig, events, mCall, faults, unanswered>>

\* Both down: link down; one of them up: the mask of those that are up. Ask
\* for a dial when an enabled family is down.
Settle ==
  /\ pc = "settle"
  /\ LET up == {f \in Family : status[f] = "CONNECTED"}
     IN IF up # {} \/ \A f \in Family : status[f] = "DISCONNECTED"
        THEN LinkChange(up)
        ELSE UNCHANGED <<link, addr, iface>>
  /\ IF NeedDial THEN SendSigno("START") ELSE UNCHANGED sig
  /\ NoteUnclear
  /\ pc' = "event"
  /\ CheckUnchanged
  /\ UNCHANGED <<fam, attached, status, handle, events, mCall, faults, unanswered>>

-----------------------------------------------------------------------------
(* SIG_EVENT_STOP: hang up what is connected, take the link down, send the *)
(* QMI thread away.                                                        *)

HangUp ==
  /\ pc = "hangup"
  /\ IF IsUp(fam) THEN Deactivate ELSE UNCHANGED <<handle, mCall, events, faults>>
  /\ NextFamily("hangup", "stopped")
  /\ UNCHANGED <<attached, status, addr, auth, oldAuth, fails, link, iface, evReady,
                 doNotExit, sig, toDev, pipes, qth, timeVars, mAttached,
                 killed, noId, unanswered, unclear>>

\* Variant: the QMI thread is not sent away.
StoppedNoQuit ==
  /\ pc = "stopped"
  /\ LinkChange({})
  /\ pc' = "quit"
  /\ UNCHANGED <<fam, attached, status, handle, auth, oldAuth, fails, evReady,
                 doNotExit, sig, toDev, events, pipes, qth, timeVars, modemVars,
                 killed, noId, unanswered, unclear, faults>>

Stopped ==
  /\ pc = "stopped"
  /\ LinkChange({})
  /\ toDev' = Append(toDev, "QUIT")
  /\ pc' = "quit"
  /\ UNCHANGED <<fam, attached, status, handle, auth, oldAuth, fails, evReady,
                 doNotExit, sig, events, pipes, qth, timeVars, modemVars,
                 killed, noId, unanswered, unclear, faults>>

-----------------------------------------------------------------------------
(* The QMI thread, QmiWwanThread().                                        *)

\* A control message: STOP makes it abort pending requests from now on, QUIT
\* ends it.
QmiThreadControl ==
  /\ Reachable /\ toDev # <<>>
  /\ toDev' = Tail(toDev)
  /\ IF Head(toDev) = "STOP" THEN qth' = "stopping" /\ UNCHANGED events
     ELSE qth' = "gone" /\ events' = Append(events, "DISCONNECTED")
  /\ UNCHANGED <<mainVars, doNotExit, sig, pipes, timeVars, modemVars, killed, faults>>

\* The device hangs up: its calls are gone and the thread ends.
QmiThreadHangup ==
  /\ Reachable /\ Fault
  /\ qth' = "gone"
  /\ events' = Append(events, "DISCONNECTED")
  /\ mCall' = [f \in Family |-> 0]
  /\ UNCHANGED <<mainVars, doNotExit, sig, toDev, pipes, timeVars, mAttached, killed>>

-----------------------------------------------------------------------------
(* The signal handler ql_sigaction(), and time.                            *)

\* SIGINT or SIGTERM: writes to sockets that are not open are lost.
SigStop ==
  /\ ~killed
  /\ killed' = TRUE
  /\ doNotExit' = FALSE
  /\ IF pipes THEN sig' = Append(sig, "STOP") /\ toDev' = Append(toDev, "STOP")
              ELSE UNCHANGED <<sig, toDev>>
  /\ UNCHANGED <<mainVars, events, pipes, qth, timeVars, modemVars, faults>>

Down(t) == IF t > 0 THEN t - 1 ELSE 0

\* One tick of the clock; the alarm expires into SIG_EVENT_START.
Tick ==
  /\ pc # "exited"
  /\ hold > 0 \/ alarm > 0 \/ (pc = "poll" /\ idle > 0)
  /\ hold' = Down(hold) /\ alarm' = Down(alarm)
  /\ idle' = IF pc = "poll" THEN Down(idle) ELSE idle
  /\ sig' = IF alarm = 1 /\ pipes THEN Append(sig, "START") ELSE sig
  /\ UNCHANGED <<mainVars, doNotExit, toDev, events, pipes, qth, modemVars, killed, faults>>

-----------------------------------------------------------------------------
(* The modem and the network.                                              *)

EnvUnchanged ==
  UNCHANGED <<mainVars, doNotExit, sig, toDev, pipes, qth, timeVars, killed>>

\* The network ends a call.
CallLost(f) ==
  /\ mCall[f] # 0 /\ Fault
  /\ mCall' = [mCall EXCEPT ![f] = 0]
  /\ Indicate(<<"DATA">>)
  /\ EnvUnchanged /\ UNCHANGED mAttached

\* The network gives a call another address.
AddressChange(f, a) ==
  /\ mCall[f] \notin {0, a} /\ Fault
  /\ mCall' = [mCall EXCEPT ![f] = a]
  /\ EnvUnchanged /\ UNCHANGED <<events, mAttached>>

\* The packet service is attached or lost; its calls go with it.
Attach ==
  /\ ~mAttached /\ mAttached' = TRUE
  /\ Indicate(<<"VOICE">>)
  /\ EnvUnchanged /\ UNCHANGED <<mCall, faults>>
Detach ==
  /\ mAttached /\ mAttached' = FALSE /\ Fault
  /\ mCall' = [f \in Family |-> 0]
  /\ Indicate(IF \E f \in Family : mCall[f] # 0 THEN <<"VOICE", "DATA">> ELSE <<"VOICE">>)
  /\ EnvUnchanged

\* The modem reports that it resets (QMICTL_REVOKE_CLIENT_ID_IND).
ModemReset ==
  /\ MayReset /\ Reachable /\ pc \in InLoop /\ Fault
  /\ mCall' = [f \in Family |-> 0]
  /\ Indicate(<<"RESET">>)
  /\ EnvUnchanged /\ UNCHANGED mAttached

\* An answer that comes after its request was given up: those of the packet
\* status and of the serving system bear the numbers of the indications and
\* are taken for them (QmiCommand).
LateAnswer ==
  /\ Reachable /\ pc \in InLoop /\ Fault
  /\ Indicate(<<"DATA">>) \/ Indicate(<<"VOICE">>)
  /\ EnvUnchanged /\ UNCHANGED modemVars

-----------------------------------------------------------------------------
Session == OpenSession \/ NoDevice \/ ClientIds \/ Startup \/ StartupFails \/ Quit \/ Return
Loop == Poll \/ PollTimeout \/ TakeStart \/ TakeCheck \/ TakeStop \/ NoEvent
        \/ TakeDisconnected \/ TakeVoice \/ TakeData \/ TakeReset \/ VoiceRegistration
Start == DialSkip \/ DialOk \/ DialRejected \/ DialTimeout \/ DialAborted \/ GetIP \/ Dialed
Check == Registration \/ QuerySkip \/ (\E s \in Status \ {"UNKNOW"} : QueryOk(s)) \/ QueryErr
         \/ LocalAddress \/ CompareAddress \/ DropCall \/ Settle
Stop == HangUp \/ Stopped

MainThread == Session \/ Loop \/ Start \/ Check \/ Stop
QmiThread == QmiThreadControl
Environment ==
  /\ pc # "exited"
  /\ \/ QmiThreadHangup \/ SigStop \/ Attach \/ Detach \/ ModemReset \/ LateAnswer
     \/ \E f \in Family : CallLost(f) \/ \E a \in Addr : AddressChange(f, a)

\* The process has left main(); nothing happens any more.
Exited == pc = "exited" /\ UNCHANGED vars

Next == MainThread \/ QmiThread \/ Tick \/ Environment \/ Exited

Spec == Init /\ [][Next]_vars

\* Every request has a timeout, poll() has one, and the clock runs: the
\* program's own threads never stop for good. Nothing is assumed of the
\* network, the modem or the user.
FairSpec == Spec /\ WF_vars(MainThread) /\ WF_vars(QmiThread) /\ WF_vars(Tick)

-----------------------------------------------------------------------------
(* Safety.                                                                 *)

\* The modem has announced a change of its registration, and main has yet to ask.
Announced == pc = "voice" \/ \E i \in DOMAIN events : events[i] = "VOICE"

\* Between two handlers, when an enabled family is down, a dial is on its way: an
\* alarm is set or a signal number is queued. Every signal number read cancels the
\* alarm (alarm(0)), so each handler has to leave one of the two behind. There is
\* none while the program counts as not attached; and then the modem is not
\* attached either, or has announced that it is, unless it has left the last
\* question unanswered (or its thread is gone): only then nothing but the time-out
\* of poll() is left to get the session going.
PendingRedial ==
  pc \in {"poll", "event", "voice"} /\ NeedDial =>
    \/ alarm > 0 \/ sig # <<>>
    \/ ~attached /\ (mAttached => Announced \/ unanswered \/ ~Reachable)

\* Between two checks, a family whose link is up is not known to be down:
\* only a check finds a call lost, and it takes the link down with it.
Settled == pc \in {"poll", "signal", "event", "voice"} \cup InStart
LinkBacked == Settled => \A f \in link \cap Family : status[f] # "DISCONNECTED"

\* A connected family whose link is up carries on the interface the address
\* the program has for it: usbnet_link_change() only reconfigures the
\* interface when the mask changes, so every new address must come with a
\* new mask.
InterfaceAddress ==
  Settled => \A f \in link \cap Family : status[f] = "CONNECTED" => iface[f] = addr[f]

\* A call that counts as connected can be hung up: the program has its
\* handle, without which requestDeactivateDefaultPDP() does nothing.
Releasable ==
  pc \in InLoop \ InStop => \A f \in Enabled : status[f] = "CONNECTED" => handle[f]

\* What the program shows of a connection has something behind it: the link a
\* call, the address the call's, and the call a handle. A family neither
\* connected nor disconnected may spoil all three: with the other one down the
\* check leaves the link as it is (neither condition of main.c:740-749), and such a
\* family is dialled although its call may be up.
Backed == unclear \/ (LinkBacked /\ InterfaceAddress /\ Releasable)

\* Between two sessions no QMI thread of the old one runs and its sockets are
\* closed, so no event of it can reach the next session.
SessionsApart ==
  pc \in {"detect", "sleep"} => qth = "none" /\ ~pipes /\ events = <<>> /\ sig = <<>>

-----------------------------------------------------------------------------
(* Liveness.                                                               *)

\* Nothing stands in the way of a call, as far as the program is concerned.
Serviceable == pc \in InLoop /\ qth = "running" /\ mAttached /\ ~killed

\* The session has the client ids without which family f cannot be connected. It
\* asks for them once: a session that missed one never connects the family.
Served(f) == Serviceable /\ noId \cap {"nas", f} = {}

\* Once the network stays usable, every enabled family is connected and its
\* link is up for good, whatever was lost, delayed or refused before.
Reconnects ==
  \A f \in Enabled : <>[]Served(f) => <>[](status[f] = "CONNECTED" /\ f \in link)

\* A connected call without a handle is one that a dial of an earlier session brought
\* up and whose answer was lost: requestGetIPAddress() asks for nothing then.
Inherited(f) == status[f] = "CONNECTED" /\ ~handle[f]

\* and the interface carries the v4 address the network assigned, unless the call is
\* one that an earlier session left up without having its handle.
AddressConverges ==
  "v4" \in Enabled =>
    (<>[](Served("v4") /\ ~Inherited("v4")) => <>[](mCall["v4"] # 0 /\ iface["v4"] = mCall["v4"]))

\* A stop signal that reached a session's socket ends the process, also when
\* the main thread waits for the modem.
StopExits == (\E i \in DOMAIN sig : sig[i] = "STOP") ~> (pc = "exited")

\* It does whenever the modem reports no reset.
StopExitsUnlessReset == [](\A i \in DOMAIN events : events[i] # "RESET") => StopExits

\* A reset of the modem does not end the process: a new session begins,
\* unless the user asked for the end meanwhile.
ResetRestarts == (pc = "quit" /\ doNotExit) ~> (pc = "startup" \/ killed)

=============================================================================
