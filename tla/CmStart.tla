------------------------------- MODULE CmStart -------------------------------
(***************************************************************************)
(* How quectel-CM comes by its modem: main() and quectel_CM(), the search  *)
(* of sysfs in device.c, and kill_brothers(), which ends the programs that *)
(* hold the same channel already. Two programs run; devices come and go,   *)
(* their network card before their channel.                                *)
(*                                                                         *)
(* One step is a look at one device. A session is one step to open the     *)
(* channel and one to end. The names without a directory of CentOS 2.6 and *)
(* the build with CONFIG_QRTR are left out.                                *)
(***************************************************************************)
EXTENDS Integers, Sequences, FiniteSets

CONSTANTS MaxResets  \* bound on the devices that go

Program == {1, 2}  \* in the order of their pids
Usb == {1, 2}      \* the USB devices, in the order of readdir()
Pcie == 3          \* the device of mhidevice_detect()
Sipa == 4          \* that of atdevice_detect()

VARIABLES
  opt,     \* -i, -s, the proxy and the devices of PCIe, see Init
  dev,     \* the USB devices: class, model, and how much of one is there
  at,      \* where a program is
  pos,     \* the device it looks at
  found,   \* the device it has found, how to talk to it, and its interface for AT
  rndis,   \* RDNIS_MODEL
  again,   \* g_donot_exit_when_modem_hangup
  signalled, \* a program was sent SIGTERM
  resets,
  late     \* a program opened its channel after a younger one had looked for holders

programs == <<at, pos, found, again, signalled>>
vars == <<opt, dev, programs, rndis, resets, late>>

Class == {"vendor", "mbim", "ecm", "rndis", "none"}
Model == {"EG915Q", "EC200U", "EC25", "foreign"}
Nothing == [of |-> 0, class |-> "none", by |-> "none", port |-> 0]

TypeOK ==
  /\ dev \in [Usb -> [class : Class, model : Model, there : 0..2]]
  /\ at \in [Program -> {"off", "look", "pcie", "scan", "kill", "open", "session", "sleep", "exit"}]
  /\ pos \in [Program -> Usb]
  /\ found \in [Program -> [of : 0..Sipa, class : Class, by : {"none", "qmi", "mbim", "at", "qrtr"},
                           port : 0..5]]
  /\ rndis \in [Program -> BOOLEAN] /\ again \in [Program -> BOOLEAN]
  /\ signalled \in [Program -> BOOLEAN] /\ late \in [Program -> BOOLEAN]
  /\ resets \in 0..MaxResets

Plain == [want |-> 0, apn |-> TRUE, alone |-> TRUE, both |-> FALSE, mhi |-> "none", sipa |-> FALSE]

\* want: the card of -i, 0 for any; alone: no proxy, and the driver has no QMAP for
\* more than one call; mhi: what is under /sys/bus/mhi_q or mhi; both: the
\* modem has a tty at the interface of its other mode too.
Init ==
  /\ \E k \in {<<"vendor", "EC25">>, <<"mbim", "EC25">>, <<"ecm", "EC200U">>, <<"rndis", "EG915Q">>},
        o \in {<<"none", "foreign">>, <<"vendor", "foreign">>, <<"rndis", "foreign">>, <<"vendor", "EC25">>},
        first \in Usb :
       /\ o[1] = "none" => first = 1
       /\ k[1] \in {"mbim", "ecm"} => o[1] = "none"
       /\ dev = [i \in Usb |-> IF i = first THEN [class |-> k[1], model |-> k[2], there |-> 0]
                               ELSE [class |-> o[1], model |-> o[2], there |-> 2]]
       /\ \/ opt = [Plain EXCEPT !.both = k[1] = "rndis"]
          \/ o[2] = "EC25" /\ first = 1 /\ opt = [Plain EXCEPT !.want = 1]
          \/ k[1] = "mbim" /\ opt = [Plain EXCEPT !.apn = FALSE]
          \/ /\ k[1] = "vendor" /\ o[1] = "none"
             /\ opt \in {[Plain EXCEPT !.alone = FALSE], [Plain EXCEPT !.sipa = TRUE]}
                        \cup {[Plain EXCEPT !.mhi = m] : m \in {"qmi", "mbim", "qrtr"}}
  /\ at = [p \in Program |-> "off"] /\ pos = [p \in Program |-> 1]
  /\ found = [p \in Program |-> Nothing] /\ rndis = [p \in Program |-> FALSE]
  /\ again = [p \in Program |-> FALSE] /\ signalled = [p \in Program |-> FALSE]
  /\ resets = 0 /\ late = [p \in Program |-> FALSE]

Goto(p, s) == at' = [at EXCEPT ![p] = s]
IsModem(d) == d.model # "foreign"

(* The devices                                                             *)

\* A device is recognised: its card, then its channel. One that goes for a reset may come
\* back in the other mode of AT+QCFG="usbnet".
Probe(i) ==
  /\ dev[i].there < 2 /\ dev[i].class # "none"
  /\ \E c \in Class :
       /\ c = dev[i].class \/ (dev[i].there = 0 /\ dev[i].model = "EG915Q" /\ c = "ecm")
       /\ dev' = [dev EXCEPT ![i].class = c, ![i].there = @ + 1]
  /\ UNCHANGED <<opt, programs, rndis, resets, late>>
Gone(i) ==
  /\ dev[i].there = 2 /\ IsModem(dev[i]) /\ resets < MaxResets
  /\ dev' = [dev EXCEPT ![i].there = 0] /\ resets' = resets + 1
  /\ UNCHANGED <<opt, programs, rndis, late>>

(* The search                                                              *)

\* get_driver_type().
DriverType(d) ==
  CASE d.class = "vendor" -> "qmi" [] d.class = "mbim" -> "mbim"
    [] d.class \in {"ecm", "rndis"} -> "at" [] OTHER -> "none"

\* The interface of the AT port, -1 for a product that is not known.
AtInterface(d, r) ==
  CASE d.model = "EC200U" -> 2
    [] d.model = "EG915Q" -> IF r THEN 5 ELSE 3
    [] OTHER -> -1
RightInterface(d) == AtInterface(d, d.class = "rndis")

\* Variant: a card of a modem's class will do.
AnyChannel(d, r) ==
  d.there = 2 /\ DriverType(d) # "none" /\ (DriverType(d) = "at" => AtInterface(d, r) # -1)

\* There is a channel: cdc-wdm or qcqmi, or a tty at the interface.
Channel(d, r) ==
  /\ d.there = 2
  /\ CASE DriverType(d) \in {"qmi", "mbim"} -> IsModem(d)
       [] DriverType(d) = "at" ->
            AtInterface(d, r) # -1 /\ (opt.both \/ AtInterface(d, r) = RightInterface(d))
       [] OTHER -> FALSE

Launch(p) ==
  /\ at[p] = "off" /\ Goto(p, "look") /\ pos' = [pos EXCEPT ![p] = 1]
  /\ UNCHANGED <<opt, dev, found, again, signalled, rndis, resets, late>>

\* qmidevice_detect(), one device: its card is the one asked for and it has a channel, or
\* the next one is looked at, and PCIe after the last.
Look(p) ==
  LET i == pos[p]
      d == dev[i]
      mine == d.there > 0 /\ d.class # "none" /\ opt.want \in {0, i}
      r == rndis[p] \/ (mine /\ d.class = "rndis")
      taken == mine /\ Channel(d, r)
  IN /\ at[p] = "look"
     /\ rndis' = [rndis EXCEPT ![p] = r]
     /\ IF taken
        THEN /\ found' = [found EXCEPT ![p] =
                  [of |-> i, class |-> d.class, by |-> DriverType(d),
                   port |-> IF DriverType(d) = "at" THEN AtInterface(d, r) ELSE 0]]
             /\ Goto(p, "scan") /\ UNCHANGED pos
        ELSE /\ IF i = 1 THEN pos' = [pos EXCEPT ![p] = 2] /\ UNCHANGED at
                ELSE Goto(p, "pcie") /\ UNCHANGED pos
             /\ UNCHANGED found
     /\ UNCHANGED <<opt, dev, again, signalled, resets, late>>

\* mhidevice_detect(), then atdevice_detect(), then the end of this try: a program that is
\* to outlive a reset tries again.
LookPcie(p) ==
  /\ at[p] = "pcie"
  /\ IF opt.mhi # "none"
     THEN found' = [found EXCEPT ![p] = [Nothing EXCEPT !.of = Pcie, !.by = opt.mhi]] /\ Goto(p, "scan")
     ELSE IF opt.sipa
     THEN found' = [found EXCEPT ![p] = [Nothing EXCEPT !.of = Sipa, !.by = "at"]] /\ Goto(p, "scan")
     ELSE Goto(p, IF again[p] THEN "sleep" ELSE "exit") /\ UNCHANGED found
  /\ UNCHANGED <<opt, dev, pos, again, signalled, rndis, resets, late>>

(* The session                                                             *)

Holds(p) == at[p] = "session"
\* is_brother_process(): an older program has the channel open.
Brothers(p) == {q \in Program : q < p /\ Holds(q) /\ found[q].of = found[p].of}

\* Variant: a program that is told to end is not waited for.
ScanOnly(p) ==
  /\ at[p] = "scan" /\ Goto(p, "open") /\ again' = [again EXCEPT ![p] = FALSE]
  /\ signalled' = [q \in Program |-> signalled[q] \/ (opt.alone /\ q \in Brothers(p))]
  /\ UNCHANGED <<opt, dev, pos, found, rndis, resets, late>>

\* quectel_CM(): MBIM is not begun without -s and QRTR not at all. The flag is reset
\* and kill_brothers() looks for the programs to end.
Scan(p) ==
  /\ at[p] = "scan"
  /\ IF found[p].by = "qrtr" \/ (found[p].by = "mbim" /\ ~opt.apn)
     THEN /\ Goto(p, IF found[p].by = "qrtr" /\ again[p] THEN "sleep" ELSE "exit")
          /\ found' = [found EXCEPT ![p] = Nothing] /\ UNCHANGED again
     ELSE /\ Goto(p, IF opt.alone /\ Brothers(p) # {} THEN "kill" ELSE "open")
          /\ again' = [again EXCEPT ![p] = FALSE] /\ UNCHANGED found
  /\ UNCHANGED <<opt, dev, pos, signalled, rndis, resets, late>>

\* SIGTERM to the older program, again each second: a session has it queued, and any other
\* program will not try again. One that does not end gets SIGKILL.
Term(p) ==
  /\ at[p] = "kill"
  /\ \E q \in Program :
       /\ q < p /\ ~signalled[q] /\ at[q] # "exit"
       /\ signalled' = [signalled EXCEPT ![q] = TRUE] /\ again' = [again EXCEPT ![q] = FALSE]
       /\ IF at[q] = "sleep" THEN Goto(q, "exit") ELSE UNCHANGED at
  /\ UNCHANGED <<opt, dev, pos, found, rndis, resets, late>>
Kill(p) ==
  /\ at[p] = "kill"
  /\ \E q \in Program :
       /\ q < p /\ signalled[q] /\ at[q] # "exit" /\ Goto(q, "exit")
       /\ found' = [found EXCEPT ![q] = Nothing]
  /\ UNCHANGED <<opt, dev, pos, again, signalled, rndis, resets, late>>
Killed(p) ==
  /\ at[p] = "kill" /\ \A q \in Program : q < p => at[q] = "exit"
  /\ Goto(p, "open")
  /\ UNCHANGED <<opt, dev, pos, found, again, signalled, rndis, resets, late>>

\* The thread of the session opens the channel, if it is still there.
Open(p) ==
  /\ at[p] = "open"
  /\ IF found[p].of \in Usb /\ dev[found[p].of].there < 2
     THEN /\ Goto(p, "exit") /\ found' = [found EXCEPT ![p] = Nothing] /\ UNCHANGED late
     ELSE /\ Goto(p, "session") /\ UNCHANGED found
          /\ late' = [late EXCEPT ![p] = \E q \in Program : q > p /\ at[q] \in {"kill", "open", "session"}]
  /\ UNCHANGED <<opt, dev, pos, again, signalled, rndis, resets>>

\* The device goes; a modem that has reported its reset is waited for, whatever
\* signal was queued.
HangUp(p) ==
  /\ at[p] = "session" /\ found[p].of \in Usb /\ dev[found[p].of].there < 2
  /\ \E reset \in BOOLEAN :
       again' = [again EXCEPT ![p] = reset] /\ Goto(p, IF reset THEN "sleep" ELSE "exit")
  /\ found' = [found EXCEPT ![p] = Nothing] /\ signalled' = [signalled EXCEPT ![p] = FALSE]
  /\ UNCHANGED <<opt, dev, pos, rndis, resets, late>>

\* ql_sigaction() ends a session.
Stop(p) ==
  /\ at[p] = "session" /\ signalled[p] /\ Goto(p, "exit")
  /\ found' = [found EXCEPT ![p] = Nothing]
  /\ UNCHANGED <<opt, dev, pos, again, signalled, rndis, resets, late>>

\* Variant: the search ends where it ended the last time.
WakeAtEnd(p) ==
  /\ at[p] = "sleep" /\ Goto(p, "look")
  /\ UNCHANGED <<opt, dev, pos, found, again, signalled, rndis, resets, late>>

\* main(): sleep(3), and another try.
Wake(p) ==
  /\ at[p] = "sleep" /\ Goto(p, "look") /\ pos' = [pos EXCEPT ![p] = 1]
  /\ UNCHANGED <<opt, dev, found, again, signalled, rndis, resets, late>>

Run(p) ==
  \/ Look(p) \/ LookPcie(p) \/ Scan(p) \/ Term(p) \/ Kill(p) \/ Killed(p) \/ Open(p)
  \/ HangUp(p) \/ Wake(p)
Runs == \E p \in Program : Run(p)
Next ==
  \/ Runs
  \/ \E p \in Program : Launch(p) \/ Stop(p)
  \/ \E i \in Usb : Probe(i) \/ Gone(i)

Spec == Init /\ [][Next]_vars
\* Fairness: a process that runs gets the processor; that it handles SIGTERM is not
\* assumed, since it may wait for its modem.
FairSpec == Spec /\ \A p \in Program : WF_vars(Run(p))

-----------------------------------------------------------------------------
\* The program never takes a network card that is no modem's, or another one than
\* -i names, and for a modem with AT commands it takes the port of the mode the
\* modem is in, unless an RNDIS device was seen that it is not (RDNIS_MODEL stays).
RightModem ==
  \A p \in Program : LET f == found[p] IN f.of \in Usb =>
    /\ IsModem(dev[f.of]) /\ opt.want \in {0, f.of}
    /\ f.by = "at" /\ (rndis[p] => f.class = "rndis") =>
         f.port = RightInterface([dev[f.of] EXCEPT !.class = f.class])

\* Without a proxy two programs hold one channel only if the older one opened it after
\* the younger had looked for the holders to end.
OneUser ==
  \A p, q \in Program :
    opt.alone /\ q < p /\ Holds(p) /\ Holds(q) /\ found[p].of = found[q].of => late[q]

\* What the proof of the two needs: a program that looks has nothing, and the
\* older one counts as late from the younger one's opening on.
Options ==
  opt \in [want : 0..2, apn : BOOLEAN, alone : BOOLEAN, both : BOOLEAN,
          mhi : {"none", "qmi", "mbim", "qrtr"}, sipa : BOOLEAN]
Searching ==
  \A p \in Program : at[p] \in {"off", "look", "pcie", "sleep"} => found[p].of = 0
Opening ==
  \A p, q \in Program :
    opt.alone /\ q < p /\ Holds(q) /\ at[p] \in {"open", "session"}
      /\ found[p].of = found[q].of => late[q]
StartInv == TypeOK /\ Options /\ RightModem /\ Searching /\ Opening

\* For the run: a program that waits for its modem after a reset has it again, or has
\* ended, once a modem that it would take stays.
Ready == \E i \in Usb : opt.want \in {0, i} /\ Channel(dev[i], FALSE) /\ Channel(dev[i], TRUE)
Found == \A p \in Program : at[p] \in {"off", "session", "exit"}
=============================================================================
