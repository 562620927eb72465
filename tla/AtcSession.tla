------------------------------ MODULE AtcSession -----------------------------
(***************************************************************************)
(* A session of quectel-CM with a modem that is driven by AT commands      *)
(* (atc.c), and the parts of main.c that differ for such modems: the main  *)
(* loop with one v4 connection, the DHCP client, the reader thread         *)
(* atc_read_thread() and the modem.                                        *)
(*                                                                         *)
(* The request functions of atc.c are sequences of AT commands. A command  *)
(* is one step: what AtChannel shows of it is that it is answered, refused *)
(* with ERROR, not answered, or answered with a line that was reported     *)
(* unasked, whose own line then comes as a report. Everything else may     *)
(* happen between two commands.                                            *)
(***************************************************************************)
EXTENDS Integers, Sequences

CONSTANTS
  Addr,      \* the addresses of the network
  Odd,       \* an address that a line of another form was read as
  MaxFaults  \* bound on the signals and on the faults of modem, network and line

Rat == {"gsm", "lte"}

VARIABLES
  task,      \* what the main thread is at
  at,        \* the command it is about to send, or its next step
  attached,  \* PSAttachedState == 1
  copsAct,   \* cops_act of the running requestRegistrationState()
  status,    \* IPv4ConnectionStatus
  addr,      \* profile->ipv4.Address
  ip,        \* profile->udhcpc_ip, the address of the interface
  link,      \* s_link # 0
  sig,       \* signal_control_fd
  events,    \* qmidevice_control_fd, to main
  alarm,     \* an alarm() is set
  hold,      \* SetupCallAllowTime lies ahead
  doNotExit, \* g_donot_exit_when_modem_hangup
  reader,    \* the reader thread: up, stopping, gone
  up,        \* the device is there
  reboot,    \* the modem was told to restart
  nat,       \* the modem's NAT setting is the one wanted
  asr,       \* asr_style_atc, and the modem is of that kind
  reg,       \* where the modem is registered
  pdp,       \* the modem's PDP context is active (asr)
  net,       \* the modem's network device: down, coming, up
  maddr,     \* the address of the context
  old,       \* the call was there before the session
  missed,    \* failed: a request of the start-up about that call, or the call was still
             \* coming up then ("call"); the first commands, or the device ("end")
  killed, faults

mainVars  == <<task, at, attached, copsAct, status, addr, ip, link>>
timeVars  == <<alarm, hold>>
modemVars == <<up, reboot, nat, asr, reg, pdp, net, maddr, old>>
vars == <<mainVars, sig, events, timeVars, doNotExit, reader, modemVars, missed, killed, faults>>

Task == {"detect", "init", "startup", "poll", "voice", "START", "CHECK", "STOP", "quit", "exited"}
Command == {"none", "cops", "creg", "netdev", "ctl?", "act?", "deact", "getip", "compare",
            "settle", "dhcp", "cgact?", "activate", "bind", "status", "dialed"}

TypeOK ==
  /\ task \in Task /\ at \in Command
  /\ attached \in BOOLEAN /\ copsAct \in Rat \cup {"none"}
  /\ status \in {"UNKNOW", "DISCONNECTED", "CONNECTED"}
  /\ addr \in Addr \cup {0, Odd} /\ ip \in Addr \cup {0} /\ link \in BOOLEAN
  /\ sig \in Seq({"START", "CHECK", "STOP"}) /\ events \in Seq({"VOICE", "DATA", "DISCONNECTED"})
  /\ alarm \in BOOLEAN /\ hold \in BOOLEAN /\ doNotExit \in BOOLEAN
  /\ reader \in {"up", "stopping", "gone"}
  /\ up \in BOOLEAN /\ reboot \in BOOLEAN /\ nat \in BOOLEAN /\ asr \in BOOLEAN
  /\ reg \in Rat \cup {"none"} /\ pdp \in BOOLEAN /\ net \in {"down", "coming", "up"}
  /\ maddr \in Addr /\ old \in BOOLEAN /\ missed \subseteq {"call", "end"} /\ killed \in BOOLEAN
  /\ faults \in 0..MaxFaults
  /\ reader # "gone" => up

\* The process may find a call of an earlier one, or of the time before the
\* device was plugged in again.
Init ==
  /\ task = "detect" /\ at = "none" /\ attached = FALSE /\ copsAct = "none"
  /\ status = "UNKNOW" /\ addr = 0 /\ ip = 0 /\ link = FALSE
  /\ sig = <<>> /\ events = <<>> /\ alarm = FALSE /\ hold = FALSE /\ doNotExit = FALSE
  /\ reader = "gone" /\ up = TRUE /\ reboot = FALSE
  /\ nat \in BOOLEAN /\ asr \in BOOLEAN /\ reg \in {"none", "lte"} /\ maddr = (CHOOSE a \in Addr : TRUE)
  /\ old \in BOOLEAN /\ pdp = old /\ net = IF old THEN "up" ELSE "down"
  /\ old => reg # "none"
  /\ missed = {} /\ killed = FALSE /\ faults = MaxFaults

-----------------------------------------------------------------------------
(* What becomes of a command.                                              *)

Fault == faults > 0 /\ faults' = faults - 1
Open == reader # "gone"

Answered == Open /\ UNCHANGED faults
\* No answer in time, or the channel is closed or closes.
NoAnswer == (~Open /\ UNCHANGED faults) \/ (Open /\ Fault)
\* The modem answers with ERROR although it could do it.
Refused == Open /\ Fault
Failed == NoAnswer
\* A report is taken for the line of the answer, and that line for a report.
Displaced(e) == Open /\ Fault /\ events' = Append(events, e)

\* The modem has a call, with the address maddr.
HasCall == net = "up" /\ (asr => pdp)
StillOld == old' = (old /\ net' # "down" /\ (asr => pdp'))
HasAddress == IF asr THEN pdp ELSE net = "up"

\* Main goes on with a command, or back to poll().
Go(c) == at' = c /\ UNCHANGED task
Return == task' = "poll" /\ at' = "none"

Send(s) == sig' = Append(sig, s)

EnvSame == UNCHANGED <<doNotExit, reader, up, reboot, nat, asr, reg, maddr, killed>>

-----------------------------------------------------------------------------
(* The session: main(), quectel_CM(), qmi_main(), atc_init().              *)

\* at_open() in the reader thread, and RIL_INDICATE_DEVICE_CONNECTED.
Detect ==
  /\ task = "detect"
  /\ IF up THEN /\ task' = "init" /\ reader' = "up" /\ doNotExit' = FALSE
                /\ attached' = FALSE /\ status' = "UNKNOW" /\ hold' = FALSE
                /\ missed' = (missed \ {"call"}) \cup (IF net = "coming" THEN {"call"} ELSE {})
                /\ old' = (net # "down" /\ (asr => pdp))
     ELSE /\ task' = IF doNotExit THEN "detect" ELSE "exited"
          /\ UNCHANGED <<reader, doNotExit, attached, status, hold, missed, old>>
  /\ UNCHANGED <<at, copsAct, addr, ip, link, sig, events, alarm, up, reboot, nat, asr,
                 reg, pdp, net, maddr, killed, faults>>

\* Variant: the restart of the modem is taken for an end.
RebootEnds == doNotExit' = doNotExit

\* The restart was asked for: the session ends and another one begins.
RebootAsked == doNotExit' = TRUE

Starts == task' = "startup" /\ at' = "cops"

\* The NAT setting is not the wanted one: it is set, and takes effect with a restart
\* of the modem. An ERROR to the restart is not looked at; without an answer the
\* modem may have obeyed and the program does not expect it.
SetNat ==
  /\ ~nat /\ Starts
  /\ \/ Answered /\ nat' = TRUE /\ reboot' = TRUE /\ RebootAsked /\ UNCHANGED missed
     \/ Refused /\ nat' = TRUE /\ RebootAsked /\ UNCHANGED <<reboot, missed>>
     \/ /\ Failed /\ nat' \in BOOLEAN /\ reboot' \in {reboot, nat' /\ Open}
        /\ missed' = (IF reboot' THEN missed \cup {"end"} ELSE missed) /\ UNCHANGED doNotExit

\* atc_init(). When the handshake or the question for the setting is not answered
\* the process ends; when the question or the setting is refused the setting stays.
AtcInit ==
  /\ task = "init"
  /\ \/ nat /\ Answered /\ Starts /\ UNCHANGED <<reboot, nat, doNotExit, missed>>
     \/ Refused /\ Starts /\ UNCHANGED <<reboot, nat, doNotExit, missed>>
     \/ SetNat
     \/ /\ Failed /\ task' = "exited" /\ missed' = missed \cup {"end"}
        /\ UNCHANGED <<at, reboot, nat, doNotExit>>
  /\ UNCHANGED <<attached, copsAct, status, addr, ip, link, sig, events, timeVars, reader, up,
                 asr, reg, pdp, net, maddr, old, killed>>

\* usbnet_link_change(0)
LinkDown == IF link THEN link' = FALSE /\ addr' = 0 /\ ip' = 0 ELSE UNCHANGED <<link, addr, ip>>

\* The reader thread is joined, the socket pairs are closed.
Quit ==
  /\ task = "quit" /\ reader = "gone"
  /\ LinkDown
  /\ task' = (IF doNotExit THEN "detect" ELSE "exited") /\ sig' = <<>> /\ events' = <<>>
  /\ UNCHANGED <<at, attached, copsAct, status, timeVars, doNotExit, reader, modemVars,
                 missed, killed, faults>>

-----------------------------------------------------------------------------
(* requestRegistrationState(): the access technology, then the             *)
(* registration in it.                                                     *)

\* What follows it: at start-up the call is queried; in the VOICE event and
\* in a check main goes on as in ConnectionManager.
Query == IF asr THEN "ctl?" ELSE "netdev"

Registered(a) ==
  /\ attached' = a
  /\ CASE task = "startup" -> Go(Query) /\ UNCHANGED <<sig, hold>>
       [] task = "CHECK" -> Go(IF status # "DISCONNECTED" THEN Query ELSE "settle") /\ UNCHANGED <<sig, hold>>
       [] task = "voice" -> /\ Return
                            /\ hold' = (a /\ hold)
                            /\ IF a /\ status = "DISCONNECTED" THEN Send("START") ELSE UNCHANGED sig

RegSame == UNCHANGED <<status, addr, ip, link, alarm, missed, pdp, net, old>> /\ EnvSame

Cops ==
  /\ at = "cops"
  /\ \/ /\ Answered /\ reg # "none" /\ copsAct' = reg /\ Go("creg") /\ UNCHANGED <<attached, sig, hold>>
     \/ Answered /\ reg = "none" /\ copsAct' = "none" /\ Registered(FALSE)
     \/ Failed /\ copsAct' = "none" /\ Registered(FALSE)
  /\ UNCHANGED events /\ RegSame

\* Variant: the registration is only asked for in LTE.
StateOfLte == reg = "lte"

\* AT+CGREG? or AT+CEREG?, whichever fits the technology AT+COPS? told.
StateOf == reg = copsAct

\* The fields of a report are not those of an answer: its state is read out
\* of another field.
Creg ==
  /\ at = "creg"
  /\ \/ Answered /\ Registered(StateOf) /\ UNCHANGED events
     \/ Failed /\ Registered(FALSE) /\ UNCHANGED events
     \/ Displaced("VOICE") /\ \E a \in BOOLEAN : Registered(a)
  /\ UNCHANGED copsAct /\ RegSame

-----------------------------------------------------------------------------
(* requestQueryDataCall(), requestGetIPAddress() and                       *)
(* requestDeactivateDefaultPDP(), at start-up, in a check and at the end.  *)

\* Variant: a call that is found at start-up is kept.
FoundKept(s) ==
  /\ status' = s
  /\ IF task = "startup" THEN Return /\ Send("CHECK")
     ELSE Go(IF s = "CONNECTED" THEN (IF addr = 0 THEN "getip" ELSE "compare") ELSE "settle") /\ UNCHANGED sig

\* The state the query found; it never fails. A call that is found at
\* start-up is hung up, so that the modem reports the link to the host.
Found(s) ==
  /\ status' = s
  /\ IF task = "startup"
     THEN IF s = "CONNECTED" THEN Go("deact") /\ UNCHANGED sig ELSE Return /\ Send("CHECK")
     ELSE Go(IF s = "CONNECTED" THEN (IF addr = 0 THEN "getip" ELSE "compare") ELSE "settle") /\ UNCHANGED sig

Missed == missed' = IF task = "startup" THEN missed \cup {"call"} ELSE missed

QuerySame == UNCHANGED <<attached, copsAct, addr, ip, link, timeVars, pdp, net, old>> /\ EnvSame

\* The address of a line of another form is not zero.
QueryNetdev ==
  /\ at = "netdev"
  /\ \/ Answered /\ Found(IF HasCall THEN "CONNECTED" ELSE "DISCONNECTED") /\ UNCHANGED <<events, missed>>
     \/ Failed /\ Found("DISCONNECTED") /\ Missed /\ UNCHANGED events
     \/ Displaced("DATA") /\ Found("CONNECTED") /\ UNCHANGED missed
  /\ QuerySame

QueryCtl ==
  /\ at = "ctl?"
  /\ \/ Answered /\ net = "up" /\ Go("act?") /\ UNCHANGED <<status, sig, missed>>
     \/ Answered /\ net # "up" /\ Found("DISCONNECTED") /\ UNCHANGED missed
     \/ Failed /\ Found("DISCONNECTED") /\ Missed
  /\ UNCHANGED events /\ QuerySame

QueryAct ==
  /\ at = "act?"
  /\ \/ Answered /\ Found(IF pdp THEN "CONNECTED" ELSE "DISCONNECTED") /\ UNCHANGED missed
     \/ Failed /\ Found("DISCONNECTED") /\ Missed
  /\ UNCHANGED events /\ QuerySame

\* The answer of requestGetIPAddress(): the address, or 0 for -1, which
\* keeps the one there was.
GetIP(a) ==
  \/ Answered /\ a = (IF HasAddress THEN maddr ELSE 0) /\ UNCHANGED events
  \/ Failed /\ a = 0 /\ UNCHANGED events
  \/ ~asr /\ Displaced("DATA") /\ a = Odd

Keep(a) == addr' = IF a # 0 THEN a ELSE addr

GetIPSame ==
  UNCHANGED <<attached, copsAct, ip, link, sig, timeVars, pdp, net, old, missed>> /\ EnvSame

\* After a dial, or for a connected call without an address.
GetIPAddress ==
  /\ at = "getip"
  /\ \E a \in Addr \cup {0, Odd} :
       /\ GetIP(a) /\ Keep(a)
       /\ IF task = "START" THEN status' = (IF a # 0 THEN "CONNECTED" ELSE status) /\ Go("dialed")
          ELSE IF a # 0 THEN UNCHANGED status /\ Go("compare")
          ELSE status' = "DISCONNECTED" /\ Go("settle")
  /\ GetIPSame

\* Variant: the address the modem has is not compared with the interface's.
SameAny(a) == TRUE

\* check_ipv4_address(): for these modems the address of the interface counts.
SameAddress(a) == a = ip

Compare ==
  /\ at = "compare"
  /\ \/ ip = 0 /\ Go("settle") /\ UNCHANGED <<addr, events, faults>>
     \/ /\ ip # 0
        /\ \E a \in Addr \cup {0, Odd} :
             /\ GetIP(a) /\ Keep(a)
             /\ Go(IF a # 0 /\ SameAddress(a) THEN "settle" ELSE "deact")
  /\ UNCHANGED status /\ GetIPSame

\* Nothing looks at the answer; a context that was activated stays active.
Deactivate ==
  /\ at = "deact"
  /\ \/ Answered /\ net' = "down" /\ UNCHANGED missed
     \/ Failed /\ net' \in {net, "down"} /\ Missed
     \/ Refused /\ UNCHANGED net /\ Missed
  /\ UNCHANGED pdp /\ StillOld
  /\ CASE task = "startup" -> Return /\ Send("CHECK") /\ UNCHANGED <<status, link, addr, ip>>
       [] task = "CHECK" -> Go("settle") /\ status' = "DISCONNECTED" /\ UNCHANGED <<sig, link, addr, ip>>
       [] task = "STOP" -> task' = "quit" /\ at' = "none" /\ LinkDown /\ UNCHANGED <<sig, status>>
  /\ UNCHANGED <<attached, copsAct, events, timeVars, doNotExit, reader, up, reboot, nat, asr, reg,
                 maddr, killed>>

-----------------------------------------------------------------------------
(* The end of a check, and the DHCP client.                                *)

MainOnly == UNCHANGED <<attached, copsAct, timeVars, events, modemVars, doNotExit, reader, missed, killed>>

\* usbnet_link_change(), and a dial for what is down.
Settle ==
  /\ at = "settle"
  /\ IF status = "CONNECTED"
     THEN /\ link' = TRUE /\ UNCHANGED <<addr, ip, sig>>
          /\ IF link THEN Return ELSE Go("dhcp")
     ELSE LinkDown /\ Send("START") /\ Return
  /\ MainOnly /\ UNCHANGED <<status, faults>>

\* ifc_get_addr()
Lease == maddr

\* udhcpc_start(): the client is waited for; what it got is read back from
\* the interface, nothing when it failed.
Dhcp ==
  /\ at = "dhcp"
  /\ \/ HasCall /\ ip' = Lease /\ UNCHANGED faults
     \/ ~HasCall /\ ip' = 0 /\ UNCHANGED faults
     \/ Fault /\ ip' = 0
  /\ Return
  /\ MainOnly /\ UNCHANGED <<status, link, addr, sig>>

-----------------------------------------------------------------------------
(* requestSetupDataCall(). It fails only when a command is not answered:   *)
(* after ERROR it returns 0, and the address tells whether there is a call.*)

SetupSame ==
  /\ UNCHANGED <<attached, copsAct, status, addr, ip, link, sig, timeVars, missed>> /\ EnvSame

Context ==
  /\ at = "cgact?"
  /\ \/ Answered /\ Go(IF pdp THEN "bind" ELSE "activate")
     \/ Refused /\ Go("getip")
     \/ NoAnswer /\ Go("dialed")
  /\ UNCHANGED <<events, pdp, net, old>> /\ SetupSame

Activate ==
  /\ at = "activate"
  /\ \/ Answered /\ reg # "none" /\ pdp' = TRUE /\ Go("bind")
     \/ (Refused \/ (Answered /\ reg = "none")) /\ UNCHANGED pdp /\ Go("getip")
     \/ NoAnswer /\ pdp' \in {pdp, reg # "none"} /\ Go("dialed")
  /\ UNCHANGED <<events, net, old>> /\ SetupSame

\* goto _error with err == 0
OnError == Go("getip")

CanBind == net = "down" /\ (IF asr THEN pdp ELSE reg # "none")
Bound == IF asr THEN "up" ELSE "coming"

\* AT+QNETDEVCTL: the others may yet be busy with the call when they answer.
\* A device that is up already may be refused. The DATA event is for modems
\* that do not report the call.
Bind ==
  /\ at = "bind"
  /\ \/ Answered /\ (CanBind \/ net # "down") /\ net' = (IF net = "up" THEN net ELSE Bound)
        /\ IF asr THEN events' = Append(events, "DATA") /\ Go("getip") ELSE Go("status") /\ UNCHANGED events
     \/ (Refused \/ (Answered /\ ~CanBind /\ net # "coming")) /\ OnError /\ UNCHANGED <<events, net>>
     \/ NoAnswer /\ net' \in {net} \cup (IF CanBind /\ Open THEN {Bound} ELSE {})
        /\ Go("dialed") /\ UNCHANGED events
  /\ UNCHANGED <<pdp, old>> /\ SetupSame

\* AT+QNETDEVSTATUS until it is not refused, 15 times at most.
Status ==
  /\ at = "status"
  /\ \/ /\ Answered /\ net' = (IF net = "coming" THEN "up" ELSE net)
        /\ events' = Append(events, "DATA") /\ Go("getip")
     \/ Refused /\ UNCHANGED net /\ events' = Append(events, "DATA") /\ Go("getip")
     \/ NoAnswer /\ UNCHANGED <<net, events>> /\ Go("dialed")
  /\ UNCHANGED <<pdp, old>> /\ SetupSame

\* The time to wait after a dial is modelled in ConnectionManager.
Dialed ==
  /\ at = "dialed"
  /\ hold' = (status = "DISCONNECTED") /\ alarm' = (status = "DISCONNECTED")
  /\ Return
  /\ UNCHANGED <<attached, copsAct, status, addr, ip, link, sig, events, modemVars, doNotExit,
                 reader, missed, killed, faults>>

-----------------------------------------------------------------------------
(* The loop: of the two sockets poll() may find either ready first; both   *)
(* are served within a round.                                              *)

LoopSame ==
  /\ UNCHANGED <<attached, copsAct, status, modemVars, reader, missed, killed, faults>>

TakeSignal ==
  /\ task = "poll" /\ sig # <<>>
  /\ sig' = Tail(sig)
  /\ CASE Head(sig) = "START" ->
            IF ~attached \/ hold \/ status = "CONNECTED"
            THEN Return /\ alarm' = (attached /\ hold) /\ UNCHANGED <<link, addr, ip>>
            ELSE task' = "START" /\ at' = (IF asr THEN "cgact?" ELSE "bind")
                 /\ alarm' = FALSE /\ UNCHANGED <<link, addr, ip>>
       [] Head(sig) = "CHECK" ->
            /\ task' = "CHECK" /\ alarm' = FALSE /\ UNCHANGED <<link, addr, ip>>
            /\ at' = IF ~attached THEN "cops" ELSE IF status = "DISCONNECTED" THEN "settle" ELSE Query
       [] Head(sig) = "STOP" ->
            /\ alarm' = FALSE
            /\ IF status = "CONNECTED" THEN task' = "STOP" /\ at' = "deact" /\ UNCHANGED <<link, addr, ip>>
               ELSE task' = "quit" /\ at' = "none" /\ LinkDown
  /\ UNCHANGED <<events, hold, doNotExit>> /\ LoopSame

TakeEvent ==
  /\ task = "poll" /\ events # <<>>
  /\ events' = Tail(events)
  /\ CASE Head(events) = "DISCONNECTED" -> task' = "quit" /\ at' = "none" /\ LinkDown /\ UNCHANGED <<sig, hold>>
       [] Head(events) = "VOICE" -> task' = "voice" /\ at' = "cops" /\ UNCHANGED <<sig, hold, link, addr, ip>>
       [] Head(events) = "DATA" -> /\ hold' = (status = "CONNECTED" \/ hold) /\ Send("CHECK")
                                   /\ UNCHANGED <<task, at, link, addr, ip>>
  /\ UNCHANGED <<alarm, doNotExit>> /\ LoopSame

PollTimeout ==
  /\ task = "poll" /\ sig = <<>> /\ events = <<>>
  /\ Send("CHECK")
  /\ UNCHANGED <<task, at, events, timeVars, doNotExit, link, addr, ip>> /\ LoopSame

\* alarm() never goes off before the time to wait is over.
Alarm ==
  /\ alarm /\ alarm' = FALSE /\ hold' = FALSE
  /\ sig' = IF task \in {"detect", "exited"} THEN sig ELSE Append(sig, "START")
  /\ UNCHANGED <<mainVars, events, doNotExit, reader, modemVars, missed, killed, faults>>

HoldOver ==
  /\ hold /\ hold' = FALSE
  /\ UNCHANGED <<mainVars, sig, events, alarm, doNotExit, reader, modemVars, missed, killed, faults>>

\* SIGINT or SIGTERM: to main, and to the reader, which leaves when the modem
\* was silent for a second.
Kill ==
  /\ ~killed /\ Fault /\ killed' = TRUE /\ doNotExit' = FALSE
  /\ sig' = IF task \in {"detect", "exited"} THEN sig ELSE Append(sig, "STOP")
  /\ reader' = IF reader = "up" THEN "stopping" ELSE reader
  /\ UNCHANGED <<mainVars, events, timeVars, modemVars, missed>>

-----------------------------------------------------------------------------
(* The reader thread and the modem.                                        *)

Closed == reader' = "gone" /\ events' = Append(events, "DISCONNECTED")
Rest == UNCHANGED <<mainVars, sig, timeVars, doNotExit, killed>>

\* RIL_REQUEST_QUIT, or silence after SIG_EVENT_STOP.
ReaderLeaves ==
  /\ reader = "stopping" \/ (reader = "up" /\ task = "quit")
  /\ Closed
  /\ Rest /\ UNCHANGED <<modemVars, missed, faults>>

\* at_close() on a hang-up of the device: it is unplugged, or restarts.
Hangup ==
  /\ up /\ IF reboot THEN UNCHANGED <<missed, faults>> ELSE Fault /\ missed' = missed \cup {"end"}
  /\ up' = FALSE /\ reboot' = FALSE
  /\ IF Open THEN Closed ELSE UNCHANGED <<reader, events>>
  /\ IF reboot THEN pdp' = FALSE /\ net' = "down" ELSE UNCHANGED <<pdp, net>>
  /\ StillOld /\ Rest /\ UNCHANGED <<nat, asr, reg, maddr>>

Plug ==
  /\ ~up /\ up' = TRUE
  /\ Rest /\ UNCHANGED <<missed, reader, events, reboot, nat, asr, reg, pdp, net, maddr, old, faults>>

Urc(e) == events' = IF Open THEN Append(events, e) ELSE events

Register(r) ==
  /\ up /\ r # reg /\ reg' = r
  /\ IF r = "none" THEN pdp' = FALSE /\ net' = "down" ELSE UNCHANGED <<pdp, net>>
  /\ (IF reg = "none" THEN UNCHANGED faults ELSE Fault)
  /\ Urc("VOICE")
  /\ StillOld /\ Rest /\ UNCHANGED <<missed, reader, up, reboot, nat, asr, maddr>>

\* A call that comes late; a call that is lost, which not every modem reports;
\* another address.
CallUp ==
  /\ net = "coming" /\ net' = "up" /\ Urc("DATA")
  /\ Rest /\ UNCHANGED <<missed, reader, up, reboot, nat, asr, reg, pdp, maddr, old, faults>>
CallLost ==
  /\ net # "down" /\ Fault
  /\ \/ net' = "down" /\ UNCHANGED pdp
     \/ asr /\ pdp' = FALSE /\ UNCHANGED net
  /\ Urc("DATA") \/ UNCHANGED events
  /\ StillOld /\ Rest /\ UNCHANGED <<missed, reader, up, reboot, nat, asr, reg, maddr>>
NewAddress ==
  /\ net = "up" /\ Fault /\ maddr' \in Addr \ {maddr}
  /\ Rest /\ UNCHANGED <<missed, events, reader, up, reboot, nat, asr, reg, pdp, net, old>>

Main ==
  \/ Detect \/ AtcInit \/ Quit \/ Cops \/ Creg \/ QueryNetdev \/ QueryCtl \/ QueryAct
  \/ GetIPAddress \/ Compare \/ Deactivate \/ Settle \/ Dhcp
  \/ Context \/ Activate \/ Bind \/ Status \/ Dialed
  \/ TakeSignal \/ TakeEvent \/ PollTimeout
Modem == task # "exited" /\ (Hangup \/ Plug \/ (\E r \in Rat \cup {"none"} : Register(r)) \/ CallUp \/ CallLost \/ NewAddress)
Clock == task # "exited" /\ (Alarm \/ HoldOver)
Exited == task = "exited" /\ UNCHANGED vars
Next == Main \/ ReaderLeaves \/ Modem \/ Clock \/ (task # "exited" /\ Kill) \/ Exited

Spec == Init /\ [][Next]_vars

\* Every AT command has a time-out and the clock runs; nothing is assumed of
\* the modem.
FairSpec == Spec /\ WF_vars(Main) /\ WF_vars(Clock)

-----------------------------------------------------------------------------
(* Properties.                                                             *)

\* The interface is only brought up for a call of this session, unless the
\* request that asks for an older one, or that ends it, failed, or the older one
\* was still coming up: the modem would not tell the host about a link it takes
\* for up.
FreshCall == link /\ "call" \notin missed => ~old

\* Nothing ends the process but a signal or a failure; the restart that it
\* asked the modem for itself does not.
KeepsRunning == task = "exited" => killed \/ "end" \in missed

Usable == reader = "up" /\ reg # "none" /\ ~killed /\ task \notin {"detect", "init", "quit", "exited"}

\* Once the modem stays registered, main knows it for good, although reports
\* are taken for answers and the technology changes between two commands, and
\* the call is up, with the link, and with the address of the modem on the
\* interface or none at all: a DHCP that failed is not repeated.
Connected ==
  /\ attached \/ at # "none"
  /\ status = "CONNECTED" /\ link /\ HasCall /\ ip \in {0, maddr}
Connects == <>[]Usable => <>[]Connected

\* What the proof of FreshCall and KeepsRunning needs.
HungUp == \E i \in DOMAIN events : events[i] = "DISCONNECTED"
Stops == \E i \in DOMAIN sig : sig[i] = "STOP"

\* What main may be doing in each of its tasks.
Doing ==
  /\ task \in {"detect", "init", "poll", "quit", "exited"} => at = "none"
  /\ task = "startup" => at \in {"cops", "creg", "netdev", "ctl?", "act?", "deact"}
  /\ task = "voice" => at \in {"cops", "creg"}
  /\ task = "START" => at \in {"cgact?", "activate", "bind", "status", "getip", "dialed"}
  /\ task = "CHECK" => at \in {"cops", "creg", "netdev", "ctl?", "act?", "getip", "compare", "deact",
                              "settle", "dhcp"}
  /\ task = "STOP" => at = "deact"
  /\ at \in {"ctl?", "act?"} => asr

\* The link is only up after a start-up that found the older call and ended it.
StartsUp ==
  /\ old => net # "down" /\ (asr => pdp)
  /\ pdp => reg # "none"
  /\ task = "detect" => reader = "gone" /\ events = <<>> /\ sig = <<>>
  /\ task \in {"init", "startup"} /\ net = "coming" => "call" \in missed
  /\ task \in {"detect", "init", "startup", "exited"} => ~link
  /\ task \notin {"detect", "init", "startup", "exited"} /\ "call" \notin missed => ~old

\* While there was neither a signal nor a failure, only the restart ends a session.
Lives ==
  ~killed /\ "end" \notin missed =>
    /\ task \notin {"STOP", "exited"} /\ reader # "stopping" /\ ~Stops
    /\ ~up \/ task = "quit" \/ HungUp => doNotExit
    /\ HungUp => task \notin {"detect", "init"}
    /\ reboot => doNotExit /\ ~HungUp /\ task \notin {"detect", "init", "quit"}
AtInv == TypeOK /\ Doing /\ StartsUp /\ Lives
=============================================================================
