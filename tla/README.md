# Formal model of the gateway's connection software

TLA+ modules, model-checking runs and machine-checked proofs about the programs
under `feeds/lorawan-gateway/` of the reComputer gateway firmware. The centre is
`quectel-cm`, the cellular connection manager: it is by far the largest program
of the repository (about 23 700 lines of C), and the one with threads, signals,
time-outs, retries and a peer that loses and reorders messages. In what follows
`main.c`, `QMIThread.c` etc. are the files of
`src/feeds/lorawan-gateway/quectel-cm/src/`.

Contents: 1 inventory, 2 modules, 3 runs, 4 fairness, 5 proofs, 6 assumptions
and limits, 7 disagreements found, 8 plan.

## 1. Inventory

| Component | State | Operations | Interacts with | What is hard | What makes it correct |
|---|---|---|---|---|---|
| **Connection manager** `main.c` | session locals (attachment, a status per family, failed dials, hold-off), process-wide `s_link`, `g_donot_exit_when_modem_hangup`, socket pairs, the alarm | `qmi_main()`: poll loop, handlers of START, CHECK, STOP and of five device events; `ql_sigaction()`; `main()`'s restart loop | device thread by socket pair, modem by requests, interface by `udhcpc_*` | signal handler at any moment, `alarm(0)` at each signal number, requests that block for up to 120 s, restarts | a dial is always pending when needed; link, interface and address agree; calls can be hung up; a stop exits, a reset restarts |
| **Command layer** `QMIThread.c:94-131, 615-735`, `util.c:111-135` | `s_pRequest`, `s_pResponse`, mutex and condition, two transaction counters | send and wait, receive, abort | main thread / device thread / modem | late answers, numbers that wrap, lost wake-ups, abort against answer | a call returns its own answer or none; no dangling request; every call returns |
| **Request functions** `QMIThread.c` | `WdsConnectionIPv4Handle`, `...IPv6Handle`, `profile->ipv4/ipv6` | registration, dial, query, address, hang-up, start-up requests | command layer | errors that leave half of the state changed | handle and call agree |
| **Device threads** `QmiWwanCM.c`, `GobiNetCM.c` | device descriptor, client ids, `wait_for_request_quit` | open, init, read, stop, quit | socket pair, device, proxies | stop and quit while a request is pending | the main thread is never left waiting; one DISCONNECTED at the end |
| **MBIM manager** `mbim-cm.c` | its own pending request, session and registration state, reader thread | open, the MBIM requests, indications | `main.c` through `request_ops` | numbers that wrap, time-outs, indications against answers | a call returns its own answer or none; an indication that is dropped told nothing new |
| **AT manager** `atc.c`, `atchannel.c`, `at_tok.c` | command in progress, response lines, reader thread | send command, read line, classify | modem tty | time-outs, unsolicited lines between the lines of an answer, a restart it asks for itself | a line belongs to the command that asked, or is reported |
| **QMI proxy** `quectel-qmi-proxy.c` | connections, client ids, queue of CTL messages | accept, close, forward both ways, release ids | several connection managers, modem | a client leaves with a message outstanding | answers reach the client that asked; ids are released |
| **MBIM proxy** `quectel-mbim-proxy.c` | client slots | rewrite of transaction numbers | as above | slot reuse | as above |
| **AT proxy** `quectel-atc-proxy.c` | connections, current client, `pollfds` | run a command for a client, unsolicited lines | `atchannel.c` | the client of a command is looked up in the wrong entry | no command or line is lost |
| **QRTR proxy** `quectel-qrtr-proxy.c` | servers, client ids, ports, two bitmaps | as the QMI proxy, and flow control | QRTR over MHI | services that restart, ports used again | as above; the modem is never left blocked |
| **Start-up** `QMIThread.c`, `QmiWwanCM.c`, `qmap_bridge_mode.c` | QMAP mode, mux id, version, format, profile index | client ids, data format, SIM, PIN, profiles | modem, driver | a second start after a reset with the variables of the first | both sides frame data alike; other profiles stay as they are |
| **Detection** `device.c`, `main.c:280-345` | the modem found, the programs that hold it | search of sysfs, `kill_brothers()` | kernel, other instances | devices that come and go meanwhile | the right modem, one user |
| **Network card** `udhcpc*.c`, `util.c`, `qmap_bridge_mode.c` | cards, addresses, `link_state`, `/etc/resolv.conf` | start, stop, DHCP and its fall-backs | other instances through shared files | read-modify-write without locks | the card has the call's address; other calls stay up |
| **lte-serve** | miss counter, command line | relaunch every 20 s, reset after 5 misses | `quectel-CM`, GPIO, procd | reloads and deaths at any moment | at most one instance; a reset only when it is down |
| **multi-wan** `mwan3.user` | a state file per interface | hotplug events | ubus | concurrent runs | the last report is the last state |
| **rs485-module** `main.rs` | serial port, Modbus context, MQTT client and its bounded channel | connect, publish, receive, poll, reload | broker, serial bus | awaiting one's own event loop; a poll that is given up | nothing read is lost; every request is answered |
| **ups-module** `main.rs` | queue of edges | run the configured commands | GPIO | edges while commands run | out of scope |
| **OTA** `bin/ota`, `ota-progress-daemon`, `ota-start`, `flash.js` | download files, pid file, two locks | check, download, cancel, progress, upgrade | shell runs started by the web page | runs in any order; files without a lock | no upgrade from a partial file; a cancel stays one |
| **wifi-module** | checksum of the last file | poll media, apply | uci | repeated failure | out of scope |
| ubus-serve, lora, hardware-info, LuCI views | configuration files | request handlers, forms | uci, ubus | none concurrent | out of scope |
| packet forwarder, Basic Station, ChirpStack | third-party programs, patched or packaged here | ubus reports | | | out of scope |

The list of hazards, each at its line, is kept in `PROJECT.json`.

## 2. Modules

| Module | Stands for |
|---|---|
| `ConnectionManager` | `qmi_main()`, `main()`, `ql_sigaction()`, the request functions it calls, the part of the device thread it sees, and the modem, network and clock as environment |
| `MCConnectionManager` | back-off tables for TLC |
| `QmiRpc` | abstract: what the command layer promises |
| `QmiCommand` | the command layer, with both threads and the modem |
| `QmiProxy` | `quectel-qmi-proxy.c`: one modem shared by several connection managers, with the clients and the modem as environment |
| `MbimProxy`, `QrtrProxy`, `AtcProxy` | the other three proxies, each with its clients and the modem |
| `MCProxies` | one run for these three |
| `AtChannel` | `atchannel.c`: one command, the reader and the lines |
| `AtcSession` | `atc.c` and the loop of `main.c` for AT modems |
| `MbimCommand` | the request slot, the wait and the reader of `mbim-cm.c`; implements `QmiRpc` |
| `MbimSession` | the requests and indications of `mbim-cm.c` and the loop of `main.c` for MBIM |
| `QmiRegistration` | what `QMIThread.c` makes of the networks the modem is on, and the call it dials |
| `QmiSetup` | a QMI session from the detection of QMAP to the loop, its end and its repetition |
| `CmStart` | the search for a modem by two programs, `kill_brothers()`, the loop of `main()` |
| `NetCard` | `usbnet_link_change()` of two programs that share a USB card and `resolv.conf` |
| `LteServe` | the scripts of lte-serve and procd |
| `OtaUpdate` | `bin/ota` |
| `Rs485Bridge` | `rs485-module` |
| `MCComponents` | one run for the parts from `AtChannel` on |
| `ConnectionManagerProofs` | theorems about `ConnectionManager` |
| `QmiCommandProofs` | theorems about `QmiCommand` |
| `QmiProxyProofs` | theorems about `QmiProxy`: for any clients, and for clients that wait for their answers |
| `ProxiesProofs` | theorems about the three proxies of `MCProxies` |
| `ComponentsProofs` | theorems about parts of `MCComponents`: `MbimCommand`, `MbimSession`, `OtaUpdate`, `Rs485Bridge`, and the steps of `QmiRegistration` |
| `QmiStartProofs` | theorems about `QmiRegistration` and `QmiSetup` in `MCComponents` |
| `ModemProofs` | theorems about `CmStart`, `NetCard`, `LteServe`, `AtChannel` and `AtcSession` in `MCComponents`, and the types of all its parts |
| `Lists` | lemmas about sequences for the proofs about proxies |

### ConnectionManager

`pc` is where the main thread is. A handler is cut at every request to the
modem, since anything may happen while it waits: the START handler is
`dial`/`redial` → `getip` per family → `dialed`; CHECK is `reg` → `query` →
`local` → `compare` → `drop` per family → `settle`; STOP is `hangup` per family
→ `stopped`. What follows a request up to the next one is part of its action.
`fam` is the family of the `if` block reached. `Poll` keeps what `poll()`
saw (`evReady`), because within one round the signal socket is served before
the event socket. `sig`, `toDev` and `events` are the three directions of the
socket pairs and are real queues. `status`, `handle`, `addr`, `auth`, `fails`,
`hold` (`SetupCallAllowTime`), `link` (`s_link`) and `doNotExit` are the
program's variables of those names; `iface` is what `udhcpc_start()` and
`udhcpc_stop()` leave on the interface.

Variables that survive a session in C (`handle`, `link`, `iface`, the alarm,
the authentication mode) survive here; the locals of `qmi_main()` start afresh in
`OpenSession`. The device thread appears with its control messages
(`QmiThreadControl`) and its end (`QmiThreadHangup`).

A request is answered (`Answered`), refused or aborted because its service has no client id or
the device thread stops or is gone (`Aborted`), or fails or times out (`Fault`, bounded by `MaxFaults`).
`noId` is the services without a client id: `QmiWwanInit()` asks for each once a session (`ClientIds`) and
returns success also when one fails (`QmiWwanCM.c:238-253`); `QmiWwanSendQMI()` then refuses each request of that
service (`Reaches`). Of the registration the program counts as not attached before it asks, and stays so
when it is not answered (`AskRegistration`, `QMIThread.c:1458`); `unanswered` notes that. A dial
whose answer is lost may have brought the call up (`DialTimeout`). The
environment may lose calls, change addresses, attach and detach, hang up the
device, report a reset (`MayReset`) and report a call as suspended
(`MaySuspend`) or as one to be reconfigured, which the program takes for disconnected (`ReconfigReqd`).
`LateAnswer` is the event that `QmiCommand` shows to follow
from an answer nobody waits for any more. `unclear` is not a variable of the program: it notes
that a check ended without knowing of an enabled family whether it is up (section 6).

### QmiCommand

The main thread holds the mutex from the registration of a request to the wait,
and the receiver holds it throughout, so each is one step. The wait is what is
not atomic: `pthread_cond_timeout_np()` waits in slices, and at the end of one the thread
has left the condition variable but does not have the mutex (`expired`).
A signal is lost there; `Reacquire` goes on to the next slice without looking.
`line` is a set: messages may overtake each other. A request carries a number `n` that the program
does not see and that tells calls apart in the model. Buffers are tracked in
`live` to state that none is freed twice.

`QmiRpc` is one call at a time, answered at most once, returned with the answer
to this very call or with nothing. The refinement mapping (`Rpc` in `QmiCommand`)
maps the state of the slot to the call that is open and the message handed
over to the call it answers.

### QmiProxy

The loop of the proxy is one thread that serves one descriptor after the other;
what it does for one descriptor is one action: `Accept`, `Read` (with `Forward`
for `recv_qmi_from_client()`), `Cleanup`, `FromDev` (`recv_qmi_from_dev()`).
`FromDevInSync` is the same function before there is a server. The
session is `main()` and `qmi_proxy_init()`: `OpenDevice`, `SendSync`,
`OpenServer`, `GiveUp`, and its end in `DeviceLost` and `Quit`; `WriteFails` is its end by SIGPIPE, which the program
does not ignore, when a message is for a client that has closed its connection and is not cleaned up yet (`Breaks`).

`queue` is `qmi_proxy_ctl_msg`, `owned` the ids on the list of each connection,
`fdOf` its descriptor; the kernel gives the lowest free one, so that the
descriptor of a client that left comes back with the next. `toDev` and
`fromDev` are what has been written and not yet read at either end of the device, `alloc` the
ids the modem has given out, `inbox`, `ask` and `mine` what a client has written, waits for and
believes to own. A message carries `by`, the client that made the request, which is not in the
real message: the properties need it to say whose answer an answer is. `sent` is
what the proxy wrote to clients in its last step.

Clients are connection managers: they number their control requests from 1 each,
make one request at a time, may give up (`TimeOut`, which is the time-out of
`QmiCommand`) and may leave, between requests or in the middle of one.

### MbimProxy, QrtrProxy, AtcProxy

As in `QmiProxy` one action is what the loop does for one descriptor, and a message carries
the client that made it for the sake of the properties. `MbimProxy`: `slot` is
`cm_clients`; a request carries the number of the slot above its own number and an
answer is routed by it, so a slot given to a new client before the last answer came routes that
answer to it. `PipeKills` says whether a write to a client that left ends the process; it is TRUE in the
run, for none of the proxies ignores SIGPIPE (`Proxies` was checked once with FALSE, for one started
with the signal ignored). `QrtrProxy` ends in `Killed` when the client an answer or a message is for has
closed its connection: before it confirms that message to the modem, which stays blocked then. `Flows` is
therefore about a proxy that runs. `AtcProxy` leaves failing writes out.
`QrtrProxy`: `holds` is the list of ids of each connection, `ids` and
`ports` the two bitmaps, of which the second is made of bytes and so cannot record a port above 255
(`Byte`); `servers` is what the modem announced, and `blocked` the ports the modem
sends nothing to before a RESUME_TX.
`AtcProxy`: `round` is what is left of the entries `poll()` reported, taken in the order of `pollfds`
(`First`); `slots` and `width` are `pollfds` and `nevents`, kept with what earlier
rounds left in it, because `quectel-atc-proxy.c:377` reads one entry past the round's.

### AtChannel, AtcSession, MbimCommand, MbimSession

`AtChannel` has the caller, the reader and the thread that closes the device; each action is what
one of them does under `cm_command_mutex`. The wait for the response is `pthread_cond_timeout_np()`, in
slices as in `QmiCommand`: `SliceEnds`, `NextSlice` and, after the last, `Expire`. A signal between two slices
is lost, and the command then runs into its time-out although its answer is there; `missed` notes that, for
the properties. (It is what `QC_stop` shows of the QMI calls.) A line knows which command it answers, which
only the properties look at. `AtcSession` takes a command as one step with the outcomes that
`AtChannel` shows: answered, refused, not answered, or answered by a line that was
reported unasked. Between two commands anything may happen: the modem registers,
calls come up and go, the reader reports. The actions are named for the commands of
each request function. `AtcInit` has what may become of the restart for NAT: answered; refused, which the code does not
look at (`atc.c:97-99`), so that it expects a restart all the same; and not answered, in which case the modem may have
obeyed and the program does not expect it.

`MbimCommand` is to `MbimSession` what `QmiCommand` is to `ConnectionManager`. Its slot
belongs to the caller, which takes it back itself; answers may overtake one another on their way to
the reader (`line` is a set). It is checked against the same `QmiRpc`. In `MbimSession` a request is two steps,
`Respond` of the modem and the action that takes the answer over and notes its states; the
reader drops an indication that tells what is noted, between the two.

### QmiRegistration, QmiSetup

`QmiRegistration` reads the TLVs of one answer in any order into `is_lte`, `s_is_cdma`, the country
code and the attach state, and dials from them; answers may fail and the statics stay.
`QmiSetup` goes through the requests of a start in their order. It models
the modem's formats, client ids, profiles and PIN tries, and the driver's mux ids. A reset
starts again with the program's variables, a relaunch with fresh ones.

### CmStart, NetCard

`CmStart`: two programs, two USB devices, whose card comes before their channel, and the devices of
PCIe and SIPA. One step is a look at one device, or at one brother. `NetCard`: two
programs whose data calls share a USB card; one step is one ioctl, one
write to sysfs or one use of `/etc/resolv.conf`. The variables `crossed`, `raced` and `full` note
that a case occurred which a property leaves out.

### LteServe, OtaUpdate, Rs485Bridge

`LteServe`: `loop` is where the script is, `init` the init script with procd; `stop` is
two steps, because procd kills the script only after `stop_service()` has killed
the programs. `quectel-reset.sh` is a process of its own (`reset`) and outlives a script
that dies. `OtaUpdate`: a process of `bin/ota` for each call, one step for each command that
touches a file, and the curl of a download. `Rs485Bridge`: `pc` is where the task
awaits; `chan` is the channel to the MQTT event loop, which only a poll inside `select!`
(`Send`) empties, and `put` a publish that waits for room. The subscription takes room in the
channel like a message; it is number 0 of `taken` and `got`.

### MCProxies, MCComponents

Programs that do not interact need no product of their states. `MCProxies` and
`MCComponents` choose at the start which program a behaviour is of, use one set of
variables `v1`, `v2`, ... for all of them, each module's in the order of its declarations, and state
the fairness that the module states. A property such as `AtSafe` is the conjunction of what the modules
state for a purpose, each for its own part; a temporal one is stated once over
what each part waits for. The parts' constants are those of `MCComponents`, so that a theorem about
a part is one for all their values.

## 3. Runs

Two workers; times from a small machine.

| Run | Question | States |
|---|---|---|
| `CM_v4` | type, a dial is pending when one is needed, link, interface address, handle: one family, two faults, two addresses, two back-off steps, suspended calls | 4.4 M |
| `CM_dual` | link, interface address and handle with both families | 8.7 M |
| `CM_live` | a family with its client ids reconnects, also when the first authentication mode is refused, address converges, stop exits, a reset ends the session completely and begins a new one | 0.20 M |
| `CM_stop_reset` | violation: a stop and a reset together | |
| `QC_calls` | type, freed buffers, aborts, resets, the refinement, every call returns | 1.6 M |
| `QC_stop` | violation: the abort at a stop is lost between slices | |
| `QP_orderly` | clients that leave between requests, the device lost once: one control message at the modem at a time, answers to the client that asked, one holder per id, no id lost, every request answered, ids released | 0.13 M |
| `QP_crash` | clients that leave or give up in the middle of requests, revoked ids: the control queue never stops | 0.40 M |
| `QP_lost` | a control message the modem does not answer: requests to services go on | 0.46 M |
| `QP_mismatch` | violation: an answer that is not the one to the head of the queue | |
| `Proxies` | the MBIM, QRTR and AT proxies: answers to their owners, requests answered, flow control released while the proxy runs | 0.23 M |
| `Components` | the other parts, each alone: see the table below | 0.90 M |

What the properties of `Components` join:

| Property | Parts | Says |
|---|---|---|
| `AtSafe` | `AtChannel`, `AtcSession` | a command returns its own line; a displaced line is reported; no wake-up is lost but between two slices of a wait; the link is up for this session's call only; the restart for NAT does not end the process |
| `MbimSafe` | `MbimCommand`, `MbimSession` | numbers leave the proxy's byte free; nothing is returned only at the reader's end; the address is that of the call |
| `QmiSafe` | `QmiRegistration`, `QmiSetup` | the call fits the technology in any order of TLVs; formats and mux ids agree; only the own profile is written; one try of the PIN per start; ids are given back |
| `ModemSafe` | `CmStart`, `NetCard`, `LteServe` | the right modem and one user; the card has the call's address and others keep theirs; one program, with the current settings, and no reset under it |
| `OtaSafe` | `OtaUpdate` | images are whole, a cancel stays one, the page learns of the end |
| `Kept` | `Rs485Bridge` | nothing read is lost, repeated or put out of order |
| `Steps` | `MbimCommand`, `QmiRegistration` | MBIM commands implement `QmiRpc`; no dial on an old attach state |
| `Connects` | `AtcSession`, `MbimSession`, `CmStart`, `QmiSetup`, `Rs485Bridge` | each connects, starts up, or finds its modem again, once the environment allows it |
| `Ends` | `MbimCommand`, `MbimSession`, `LteServe`, `OtaUpdate`, `Rs485Bridge` | what was begun ends |

Bounds. `MaxFaults` bounds what the environment does against the program; one fault is a lost call, a
lost message, a changed address, a suspension or a hang-up. Two faults let one
hit while the program recovers from another, which is where link, address and handle
could come apart. Runs of liveness use one fault: after the last one the
environment is quiet, and what matters is that recovery from any state that one fault leads
to ends. (The same properties were checked once with two faults on a smaller
instance, without back-off growth, credentials, hold-off or suspension: 1.5 M states, no error.) A tick stands for the smallest wait; `allow_time[]` keeps its
shape (growing, last entry repeated) in `Backoff2`. `PollTime = 1` makes the 15 s check
frequent, the worst case for the alarm, which every signal number cancels.
`NetHold = 1` is the 1000 ms of `main.c:828`. Two addresses are enough to
tell old from new. In `QmiCommand` transaction numbers have two values, so
they wrap within three calls; `Late = 1` is the largest that the proof's assumption
`Late < Tids` admits; two slices make the lost wake-up possible both in and
after a slice; two services share or do not share a counter.

In `QmiProxy` two clients and two ids are the least for which an answer or an id can
go to the wrong one; four requests let a client get, use, release and get an id again.
In `QP_crash` one id and two requests per client suffice: a client may leave with
one request at the modem and another in the queue while the other client waits
behind it and the ids of the first join the queue. `MaxSync = 1` keeps the
answers to further SYNC requests out of the routine runs; `QP_crash` was checked once
with two (1.4 M states, no error, 5 minutes), and the theorem `KeepsMoving` covers any number.

Bounds of the other modules. `Proxies`: three clients for two slots of the MBIM proxy, so that one slot is
used again; four ports of which the bitmap can record three, standing for 4079 and 255; a service that restarts
once; three descriptors for the AT proxy, since its stale entry needs a round with more connections
than the next. `Components`: two addresses and one fault for each session, which then is quiet;
transaction numbers that wrap after two; two starts of `QmiSetup`, the second after a
reset or a relaunch, and three tries of a PIN; two programs in `CmStart` and `NetCard`; three changes of what
is up, the least for one to come between two of another's; `MAX_DNS` 4 instead of 16, of which the user has
two lines; a reset after three misses instead of five; two downloads and one check, cancel or
upgrade that overlaps them; a channel of two instead of ten, which the
subscription and one message fill; two lost connections; one respawn instead of five.
`Cmti` is FALSE in `Components`, since `atc.c` never asks the modem for such
reports; with TRUE a line of two parts may cut a response.

Deadlock is checked in all runs but `Components`, several parts of which stop: a download ends, procd gives
up, a process exits. In the others the only terminal states stutter
explicitly (`Exited`, `Finished`, `Stopped`, `Done`).

Every property of a passing run has a mutant: a variant of one definition, in
the module next to the original (`\* Variant: ...`), which changes the code's behaviour the
way a plausible slip would and makes the property fail.

## 4. Fairness

`ConnectionManager!FairSpec`: weak fairness of the main thread, of the device
thread's control messages and of the clock. Both threads are blocked only in `poll()` with data
waiting or a time-out, or in a request, which has a time-out of its own (`QmiCommand`,
`RpcReturns`); the clock runs. Nothing is assumed of modem, network or user:
the liveness properties say "once the network stays usable" where they need to.
`QmiCommand!FairSpec`: weak fairness of the steps of a call in progress; none
of the receiver or of the modem, so a call returns by its time-out at the latest.

`QmiProxy!FairSpec`: weak fairness of the loop for what is ready to be read
(`FromDev`, and `Read` or `Cleanup` of each client): it only blocks in `poll()`. And of `Modem`: it takes and answers requests
in order. That is an assumption about the modem, without which nothing can be
said about a queue that has no time-out; where a client asks again it is the client's choice
and no fairness is assumed. `QP_lost` drops one answer. The other proxies assume the same of their
loop and modem; none assumes that clients come, ask or leave.

`AtcSession`, `MbimSession`: the main thread goes on, since each command has a time-out, and the clock runs; the
MBIM reader polls its pipe. Nothing of the modem or the network: `Connects` has the premise that the
network keeps the modem for good. `MbimCommand`: a call in progress goes on. `QmiSetup`: each
request ends, and a card does not initialise for ever. `CmStart`: each program's own steps; that one handles
SIGTERM is not assumed, for it may be waiting for its modem. `LteServe`: the script, the reset script
and procd each go on; no program is assumed to stay alive. `OtaUpdate`: the shells go on and a
curl ends, by its own limits or its connection's. `Rs485Bridge`: the task runs, procd respawns, and a
broker that can be reached accepts a connection. Only the sending of a
queued request has strong fairness: `select!` takes it or the serial line, whichever is ready first, choosing
at random if both are, so that a line that is busy again and again does not keep it back for ever.
`NetCard`, `AtChannel` and `QmiRegistration` state no liveness.

## 5. Proofs

Checked by TLAPS for all values of the constants that the modules' assumptions
admit.

`ConnectionManagerProofs`: `TypeCorrect`, `RedialIsPending`, `SessionsStayApart` and, further below, `StaysBacked`.
The inductive invariant is

    IInv == TypeOK /\ Queued /\ Piped /\ DialPending /\ WillAsk /\ SessionsApart /\ Restarting

`PendingRedial` says that a dial is on its way whenever a family is down, or else why not: the program counts as not
attached, and the modem is not attached either, has announced a change, or has left the last question unanswered, after
which nothing but the time-out of `poll()` is left. `DialPending` (the program counts as attached) and `WillAsk` (it
does not) are its two halves, and neither is inductive. A handler reads a signal number and so
cancels the alarm; that it leaves a new one or a number behind depends on where it
is, `Queued` says that what `poll()` saw is still queued when it is read, and
`Piped` that the socket pairs exist while the loop runs. Settling a check with a
family down queues a START; a START refused by the hold-off sets the alarm to the
rest of the hold-off, which is not 0; a failed dial sets it from `allow_time[]`, whose
entries are positive. `SessionsApart` needs `Restarting`, that the restart
flag is set only after the old session's thread was joined.

`QmiCommandProofs`: `TypeCorrect`, `ResetsAreReported`, `AbortsAreForStop`,
`NeverDangling` and `ImplementsRpc` (`Spec => RpcSpec`). The heart is
`NoConfusion`: an answer that may still arrive belongs to one of the last
`Late + 1` requests of its counter (`InWindow`, where `Back(c, d)` is the number given `d`
requests ago), and since `Late` is less than the number of transaction numbers,
equal numbers mean equal requests. `WindowMoves` shows that the next request
moves the window by one, over the wrap from the largest number to 1. With it, `OwnSlot`: during a
wait the slot holds this call's request, or its answer, or neither. `Once` (the modem answers a call once,
which is an assumption of the model about the modem) gives the step `Rpc!Answer`.

`QmiProxyProofs`: `TypeCorrect` and `KeepsMoving`, for any number of clients that leave,
die or repeat requests at any moment. The invariant of `KeepsMoving` is `TypeOK /\ Idle /\ Moving`, where
`Idle` says that the queue is empty unless clients are served. A step keeps it since
it either leaves a control message where it was on its way (`StaysInTransit`), or
moves it from the modem's input to its output, or takes an answer and writes the
new head (`PopTyped`, `DeviceKeepsMoving`), or finds the queue empty and writes
what it puts there. That the mismatching answer removes the head is used in the proof: a
queue whose head was never written, left behind by `Cleanup`, moves only by that. The theorem
assumes `"answer" \notin Faulty`. `SmallestIndex` in `Lists`, that a set of indices has a least
element, carries `WithoutFirst`, the removal of the first matching entry.

The second half of `QmiProxyProofs`: `KeepsInStep`, `AnswersTheAsker` and `KeepsIds`, for clients that wait for their
answers and leave only when they wait for nothing, with no fault but the loss of the device (`Orderly`), and a proxy that serves only once the answer to its SYNC has come
(`[]Synced`); `SyncFirst` shows that the latter follows when the proxy sends one SYNC and the modem reports
nothing on its own account first (`MaxSync = 1`, `MaxInd = 0`), as in `QP_orderly`. The three properties
need each other. `OrderlyInv` follows a request along one path, queue, `toDev`, `fromDev`, client, on which
there is one control message of the proxy at most and on which the message is the client's that waits for it;
and it accounts for each id that the modem gave out: a connection holds it, or an answer brings it, or a
release of it is on the path. That an id has one such place gives `ToAskerOnly` for the services, and that the
message at the modem is the head of the queue gives it for the control messages. `WriteFailsQuits` and, in
`ProxiesProofs`, `QrtrKilled` show that the end by SIGPIPE keeps the invariants: it leaves nothing behind that they speak of.

In `ConnectionManagerProofs`, `StaysBacked` (`ASSUME ~MayReset PROVE Spec => []Backed`). A check visits the
families one after the other and settles the link at its end, so the invariant distinguishes the families that
the check has visited (`Visited`). It says that a call which is up has a handle unless it counts as down, that
before the first check nothing is dialled, that the interface has a connected family's address from the time the
comparison is made, and that what a handler does to a family it does at that family's turn (`AtFamily`).
The invariant was found by failures: with both families and one of them suspended it does not hold, which is
the exception `unclear` of section 6.

`ProxiesProofs`: `TypeCorrect`, `MbimAnswersHolder`, `QrtrAnswersHolder`, `AtcKeepsCommands`, for any number
of clients, slots, ids and ports with `Ids <= Byte < Ports` (239, 255 and 4079 in the code).
- MBIM (`HolderInv` of `MbimProxy`): a request that is at the modem, or whose answer has not been read, has the slot
  that its client still has, unless it has left.
- QRTR (`HolderInv` of `QrtrProxy`): what decides is that a client with an id has a port that the bitmap
  records, since a port beyond `Byte` may be given out twice. `alloc_port_id()` also serves requests for which no id was
  left, so recorded ports can be taken by holdings without one. `Room` bounds these: there are never more than `Byte - Ids`, for
  one is made only when all ids are taken, each of which has a recorded port of its own
  (`OnePortPerId`, a bijection). So while an id is free, a recorded port is free (`IdGetsRecordedPort`).
  The rest says whose requests are on their way and what the bitmaps record (`BitmapsAre`).
- AT (`InFlightInv` of `AtcProxy`): while nobody has left, `pollfds` has no entry of an earlier round beyond the
  present ones, no report of a hang-up, and the proxy never has a current client that is not there.

`ComponentsProofs`: `ImplementsCalls`, `MbimSafely`, `UpdatesSafely`, `KeepsOrder`. Each is about `Spec` of
`MCComponents`, and follows from an inductive invariant of the part that runs.
- `MbimCommand` (`CommandInv`): `Numbers` and `Matched`. As long as the device is open each call takes the number
  after the last one, or 1 after `Wrap`. The code compares for equality with `Wrap + 1`, so a number
  beyond it would stay. A call that is given up before it is numbered leaves such a number, but only when the device
  is closed, and then nothing is sent any more (hence `Open =>`). `InFlight` says which number a request has that was made
  `n - r.n` calls ago, up to one round; because `Late < Wrap`, the one with the caller's number is the caller's. This
  gives the steps of `QmiRpc` (`CommandSteps`), and that a woken caller finds its answer or a reader that left.
- `MbimSession`: `TypeOK` and `Addressed`. A link that is up belongs to a session that counts as connected, or main
  is about to settle the link; a dial is made only for a session that does not count as connected and has its link down, so
  a new address of the modem meets no old one on the interface; what an answer with an address tells is the address of the
  call there is, or the call has ended meanwhile.
- `OtaUpdate` (`OtaInv`): who holds the lock, and how far its curl is (`Holding`); what a curl writes to is its own file or
  gone, and whole when the curl has ended well (`AllThere`); the page is told to wait only while there is a download
  (`Waited`); and of what a cancel was for, each download is past putting an image in place, or the cancel still waits for
  it or removes its file (`Cancelling`).
- `Rs485Bridge` (`Rs485Inv`): `Kept` as an equation between `taken` and `got`, `chan` and `out` in this order,
  for each way in which the task can leave an `await`.
- `QmiRegistration` (`Cleared`): a query that failed leaves a 9x07 not attached, so that the next dial has an answer before it
  (`Steps`).

`QmiStartProofs`: `QmiSafely`, for any number of starts, resets, profiles and faults and any set of country codes.
- `QmiRegistration` (`RegistrationInv`): `DialFits` says nothing of an answer that is half read, so `Read` says what the
  statics may be for the TLVs that are left: the status of a network that serves has set `is_lte` or `s_is_cdma` as soon
  as it is no longer in `todo`, and the two are never set together. `HomeCode` rests on the digit that
  a zero borrows in `Less` being given back (`LessOf`, `DecodesDigits`).
- `QmiSetup` (`SetupInv`). `FewIds`: the ids of a start are of the services it needs, and while nothing was refused each is
  held or still on the list. `Framed`: after the format was agreed without a failure, `rawIP` and the version of QMAP are
  those the modem has; a GobiNet driver skips that request, so its format is right from the start. `Muxed`: the data
  services are bound to the mux id of the card from their request on; `Numbered` leaves out a second start of a card with
  several interfaces in the low range, whose id `MuxOf` takes from the one before. `Tried`: no start has used more than one
  try of the card's PIN, and one that has not come to the PIN none. `Found`: the index is that of the own profile before
  settings are written, even after the list was read again.

`ModemProofs`: `ModemSafely`, `AtSafely` and `TypeCorrect`, each about `Spec` of `MCComponents`.
- `LteServe` (`LteInv`): a program is started only where none was found (`Launched`), and a stop leaves none behind
  unless one slipped in between its halves (`Stopped`). A program has the settings there are unless it is about to be
  stopped (`Fresh`), and lte-serve waits as long as its reset script has the pin set (`Waits`).
- `CmStart` (`StartInv`): a program that still looks has neither modem nor channel (`Searching`), and between the younger
  program's `open()` and its look at the older one, the older one counts as late (`Opening`).
- `NetCard` (`CardInv`): `Configured`, `LinkKept` and `LinesKept` speak of a program that has gone through
  `udhcpc_start()`. `CardOf`, `LinkOf` and `LinesOf` say the same for each step before, as far as it has come, and
  `Reached` which steps the options lead to. Two programs share the USB card and `resolv.conf`, so each part is also shown to
  survive the other's steps, by the card that belongs to one only and by `crossed`, `raced` and `full` for what is shared.
- `AtChannel` (`ChannelInv`). The channel has no numbers; what ties an answer to its command is only that there is one command
  at a time. `Asked` says so: while no command timed out, the command that waits is in exactly one of three places, the
  modem's input, its work, or the line, and there with its data before its final line and nothing of another command around
  it. `Rested`: a command that ended in time left nothing on its way. A handshake that is repeated because its answer was
  late sets both aside until it is answered and the pause of half a second after it is over. `OwnAnswer`, `Displaced` and `Awaited` follow; of a wait whose signal was lost between two slices (`missed`), `Awaited`
says nothing, for such a wait is for what has come. The theorem is for `~Cmti`:
  `atc.c` never asks for reports of received messages (`AT+CNMI`). With them the reader takes the line after the report for
  the text of the message, and that may be the final line, so that the command runs into its time-out.
- `AtcSession` (`AtInv`): what each step of the loop still has to do (`Doing`); the
  link comes up only after a start-up that found the older call and ended it, unless that call was still coming up then
  (`StartsUp`); with neither signal nor failure only the restart ends a session (`Lives`).
- `TypeCorrect` takes together the inductive invariants of the eleven parts, those of `ComponentsProofs` and
  `QmiStartProofs` included: several of the types (a queue that has room, a step that exists for the options) hold only
  because of them.

The assumptions on the constants that are more than a type: `Late < Wrap` (`CommandAssumption`), since a round has
16777215 numbers, and the main thread makes one request at a time, each of which waits for its answer for seconds; a
country code has three digits (`RegistrationAssumption`); there is one start and room for one profile at
least (`SetupAssumption`); and a handshake is tried once at least (`ChannelAssumption`; `HANDSHAKE_RETRY_COUNT` is 8).

Every invariant and every step property that a run checks is proved, in so far as the code promises it (the three
violations of section 7 aside). Only model-checked is liveness: `Reconnects`, `AddressConverges`, `StopExitsUnlessReset`,
`ResetRestarts`, `RpcReturns`, `Answered`, `Released`, `Drains`, `ServiceFlows`, `Flows`, `Connects` and `Ends`; TLAPS has no
backend for `ENABLED` and so for fairness. What recursive or folded definitions compute for every input would need
induction over data, which is out of the provers' reach as well; the proofs use functions and sets instead.

## 6. Assumptions and limits

- `ConnectionManager` is the loop for QMI: branches of `main.c` for MBIM and AT (`profile->request_ops != &qmi_request_ops`) are not
  taken; loopback is off; `REBOOT_SIM_CARD_...` and `USE_IPC_MSG_STATUS_IND` are not compiled in.
- In it the start-up requests are two steps, the client ids and, of the rest, the registration; `QmiSetup` has them one by one.
  `deinit` is taken to leave calls alone.
- `Reconnects` and `AddressConverges` are stated for each family whose client id, and that of NAS, the session got
  (`Served`). A session that missed one dials on without it and never connects that family; nothing in the code ends
  it, and no document says whether it should. A failed query of the registration is not excluded: the 15 s time-out of `poll()` repeats it.
- `AddressConverges` leaves out a call that counts as connected without a handle (`Inherited`): a dial whose answer was
  lost in a session that a reset ended left it up. The next session finds it connected and, without a handle, asks for no
  address (`QMIThread.c:1988-1995`), so the interface stays without one. It takes two faults.
- The modem's calls are those of this process: none is up at first; a dial of
  a call that is up may succeed.
- A query of a call that is up answers CONNECTED, or SUSPENDED when
  `MaySuspend`; the other two values of the status are treated alike by the code.
- `Backed` is `LinkBacked`, `InterfaceAddress` and `Releasable`, except while `unclear`: from the end of a
  check that left an enabled family neither connected nor disconnected (suspended, or never answered) until both
  count as disconnected. Such a family and one that is down make neither condition of `main.c:740-749` true, so
  the link is not updated, and the family is dialled although its call may be up. No document says what should
  happen then.
- `Backed` is checked and proved without resets. With a reset and three faults, a
  stale alarm of the old session can start a dial before the first check, whose
  answer is lost, and the check that follows finds the call connected without a
  handle.
- When only v6 is up, `udhcpc_start()` leaves an old v4 address on the interface; `iface`
  does the same.
- `QmiCommand`: an answer is lost or read before `Late` more requests were made
  on its counter, with `Late` less than 65535 (255 for CTL); the modem
  answers a request at most once; the device thread is the one of
  `QmiWwanCM.c` without the merge of split answers. The failure of `malloc()` is not
  modelled, nor the race of `poll()` with a descriptor closed meanwhile.
- `QmiProxy`: services are left out of client ids, which makes one space of ids
  out of one per service; a message of a service for all ids is sent once to a connection, and
  the code sends it once per id; the transaction number 255 of the proxy's own requests is 0 in the
  model, which no client uses; the modem takes and answers requests in order. The merge of split
  packets, writes that fail otherwise than by SIGPIPE and the limit of 66 descriptors are not modelled.
- `QP_orderly` and the theorems about orderly clients in `QmiProxyProofs` assume that clients leave only when they wait for nothing and
  that the first SYNC is answered before clients are served. With clients that leave in the middle, the answer of one
  request may meet another (section 7), and `InStep`, `NoIdLost` (in `IdsKept`) and `Answered` fail.
- Signal handlers do not interrupt each other in the model; `killed` allows
  one stop signal.
- `MbimProxy`: an answer to a client that left may reach the one that has its slot (`MbimToHolder` allows
  that and nothing else); the modem answers every request, in any order.
- `QrtrProxy`: requests are answered if they came as one message and their service did not
  restart; `qrtr.c` is not modelled. A proxy that SIGPIPE ended stays ended, and a port the modem had blocked stays blocked.
- `AtcProxy`: the properties hold as long as nobody leaves. When a client leaves, its descriptor is
  given to the next while `pollfds` still has it, and the answer may go there alone.
- `AtChannel`: after a command timed out its late final line may be taken for the next one's,
  until the next handshake; `AtSafe` is stated for the time before and after. A command whose signal came between two
  slices of its wait is left out of `Awaited` (`missed`).
- `AtcSession`: a DHCP that failed is not repeated, so `Connects` asks for the modem's
  address or none.
- `MbimSession`: when the second query of `requestRegistrationState()` fails (`mbim-cm.c:2270`), the modem
  counts as attached and is not asked to attach; `Connects` leaves that case out. Only v4.
- `QmiRegistration`: the networks of an answer are at most two; names of networks are left out.
- `QmiSetup`: `ProfileSet` and `IdsInUse` are stated for starts in which no request failed. A failed
  `GET_PROFILE_LIST` answer without its list is a crash of the program (`crashed`).
- `CmStart`: names without a directory in sysfs (CentOS 2.6) and the build with CONFIG_QRTR are left out. Two
  programs that start at once may both hold a channel (`late`).
- `NetCard`: routes, the MTU, VLAN names and tags of which one is the prefix of another are left out; the
  address of a family that ended alone stays on the card. `LinkKept` leaves out a hang-up that reads `link_state`
  before another program goes up and takes the USB card down after (`crossed`), `LinesKept` a write of `resolv.conf`
  between another's read and write (`raced`) and a file of more lines than `dns_info` holds (`full`), of which any `MaxDns` may be kept. The order of the lines is
  left out.
- `LteServe`: a program that is started between the two halves of a stop goes on with the old
  settings (`slipped`); a PIN without an APN makes the command line longer with each look, until it
  cannot be executed (`Longest`).
- `OtaUpdate`: the directory `/var/run/ota` exists, pids are not used again, a server's certificate is good. A cancel that
  meets another call, or comes before a download has named its curl, may leave the image (`overlap`).
- `Rs485Bridge`: a publish into a full channel waits for a poll of the event loop that only the same task would make
  (`Wedged`, `main.rs:470`), and a Modbus device that says nothing is waited for without a limit; `Connects` and `Ends` leave both
  out. A poll of the event loop is one step: what one that `select!` drops half-way has done is up to the MQTT library.

What a property leaves out is in the model all the same, and mostly because the code goes wrong there: `late`, `crossed`, `raced`,
`full`, `slipped`, `orphan`, `Longest`, `overlap`, `Misled`, `Wedged`, `everFailed`. The list of hazards says for each which
property covers it, which part no property covers, and where that is all of it.

Not modelled: the GobiNet thread, which speaks the same protocol through a driver that is
not in the repository; `mwan3.user`, whose calls are made by mwan3; the UPS monitor and the Wi-Fi script, each one
loop with nothing beside it; ubus-serve, the LoRa tool, hardware-info and the LuCI views, which read and write
configuration without state of their own; patches and packages of third-party programs; message layouts, printing and option parsers.

## 7. Disagreements found

1. `CM_stop_reset`: `main.c:837` sets the restart flag that the signal handler has
   cleared. If a stop signal and a reset report meet, the process starts a new session instead of
   exiting; usage text `main.c:382` describes SIGINT as the way to hang up.
2. `QC_stop`: "main may be wating qmi response" (`main.c:367`). The abort meant to wake the
   main thread is lost when it falls between two slices of the wait
   (`util.c:120-129`), and later aborts find nothing to give up: the stop then takes the
   full time-out. The AT channel waits in the same way and may miss an answer (`missed` in `AtChannel`).

3. `QP_mismatch`: "ERROR: ctl rsp tid:%d, type:%d - ctl req %d, %d"
   (`quectel-qmi-proxy.c:356`). `cleanup_qmi_connection()` takes the request of a client that leaves
   out of the queue although the modem is answering it. The next request is sent
   at once, the orphaned answer removes it from the queue, and its own
   answer is dropped: another client waits in vain, and if it asked for an id, the id is lost
   until the next SYNC.

Observed without a property, as no document says otherwise: the branch at
`quectel-qmi-proxy.c:395` compares the service of a control message with a flag and is never
taken, so that revoked client ids stay on the lists of their connections and
may later be given to others. `lte-serve` reads `lte_config.LTE.enable`, while the web page
writes `lte_config.cellular.enabled` and `99_lte_serve` `lte_config.cellular.enable`, so that the
switch of the page has no effect.

## 8. Plan

Done: all modules of section 2; theorems for every invariant and step property of the runs, with the refinements of
`QmiRpc` by `QmiCommand` and by `MbimCommand`.

Next, in this order:

1. The proxy and the command layer together: every client sees a modem of
   its own, so that `QmiRpc` holds per client of an orderly `QmiProxy`.
2. The v6 connection of `MbimSession`; `qrtr.c`; the merge of split answers.
