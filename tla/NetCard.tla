------------------------------- MODULE NetCard -------------------------------
(***************************************************************************)
(* The network card of a data call: what usbnet_link_change() does to it   *)
(* (udhcpc.c, util.c and the bridge in qmap_bridge_mode.c). With QMAP one  *)
(* program runs for each data call; each has a card of its own over the    *)
(* USB card, and they share that one, the driver's link_state and          *)
(* /etc/resolv.conf. One step is one command or one use of a file.         *)
(*                                                                         *)
(* An address stands for the settings of a call, DNS servers included.     *)
(* Routes and the MTU are left out.                                        *)
(***************************************************************************)
EXTENDS Integers, FiniteSets

CONSTANTS
  Addr,       \* addresses the network gives
  MaxDns,     \* MAX_DNS
  MaxCalls,   \* bound on the changes of what is up
  MaxFaults   \* bound on the leases that are not obtained

Program == {1, 2}
None == [v4 |-> 0, v6 |-> 0]
Call == [v4 : Addr \cup {0}, v6 : {0, 1}]

VARIABLES
  opt,     \* the driver and the options, see Init
  pc,      \* where udhcpc_start() or udhcpc_stop() of a program is
  call,    \* profile->ipv4 and ipv6
  lease,   \* profile->udhcpc_ip
  card,    \* a program's card: up, its addresses, the one of the bridge
  usbUp,   \* the USB card, when it is another one
  linkOn,  \* the driver's link_state: the data calls that are on
  raw,     \* the driver's raw_ip
  resolv,  \* the lines of /etc/resolv.conf
  kept,    \* dns_info: the lines a program read and will write again
  calls, faults,
  crossed, \* a link went on while another program took the USB card down
  raced,   \* resolv.conf was written between a read and a write of another
  full     \* resolv.conf had more lines to keep than dns_info holds

cards == <<lease, card, usbUp, linkOn, raw>>
dns == <<resolv, kept, raced, full>>
vars == <<opt, pc, call, cards, dns, calls, faults, crossed>>

User == {[of |-> 0, fam |-> 4, dns |-> 1], [of |-> 0, fam |-> 4, dns |-> 2]}
Line == [of : {0} \cup Program, fam : {4, 6}, dns : Addr \cup {1, 2}]

TypeOK ==
  /\ pc \in [Program -> {"idle", "on", "usb", "up", "bridge", "lease", "rawip", "again",
                         "static", "ipv6", "off", "last", "usbdown", "flush",
                         "read4", "write4", "read6", "write6", "reread6", "rewrite6"}]
  /\ call \in [Program -> Call] /\ lease \in [Program -> Addr \cup {0}]
  /\ card \in [Program -> [up : BOOLEAN, v4 : Addr \cup {0}, v6 : {0, 1}, bridge : Addr \cup {0}]]
  /\ usbUp \in BOOLEAN /\ linkOn \subseteq Program /\ raw \in BOOLEAN
  /\ resolv \subseteq Line /\ kept \in [Program -> SUBSET Line]
  /\ calls \in 0..MaxCalls /\ faults \in 0..MaxFaults
  /\ crossed \in BOOLEAN /\ raced \in BOOLEAN /\ full \in BOOLEAN

Plain == [ops |-> "qmi", qmap |-> FALSE, noDhcp |-> FALSE, script |-> TRUE, fits |-> TRUE,
          bridge |-> FALSE, linkState |-> FALSE]

\* qmap: two programs, each with a qmapnet_adapter over the USB card; script: there is
\* a default.script for udhcpc; fits: the driver has the modem's format from
\* the beginning; bridge: bridge_mode is on; linkState: there is a link_state.
Init ==
  /\ \E ops \in {"qmi", "mbim", "atc"}, b \in BOOLEAN :
       opt \in {[Plain EXCEPT !.ops = ops, !.script = b],
                [Plain EXCEPT !.fits = FALSE, !.script = b, !.linkState = b],
                [Plain EXCEPT !.ops = ops, !.noDhcp = TRUE],
                [Plain EXCEPT !.qmap = TRUE, !.linkState = TRUE, !.noDhcp = ~b, !.bridge = b]}
  /\ pc = [p \in Program |-> "idle"] /\ call = [p \in Program |-> None]
  /\ lease = [p \in Program |-> 0]
  /\ card = [p \in Program |-> [up |-> FALSE, v4 |-> 0, v6 |-> 0, bridge |-> 0]]
  /\ usbUp = FALSE /\ linkOn = {} /\ raw = opt.fits
  /\ resolv = User /\ kept = [p \in Program |-> {}]
  /\ calls = 0 /\ faults = MaxFaults
  /\ crossed = FALSE /\ raced = FALSE /\ full = FALSE

Goto(p, at) == pc' = [pc EXCEPT ![p] = at]
\* The kernel forgets the IPv6 addresses of a card that goes down.
Down(c) == [c EXCEPT !.up = FALSE, !.v6 = 0]

\* usbnet_link_change(): the families that are up change, and those that stay keep
\* their settings.
LinkChange(p) ==
  /\ pc[p] = "idle" /\ calls < MaxCalls /\ (opt.qmap \/ p = 1)
  /\ \E c \in Call :
       /\ <<c.v4 = 0, c.v6 = 0>> # <<call[p].v4 = 0, call[p].v6 = 0>>
       /\ \A f \in {"v4", "v6"} : 0 \in {c[f], call[p][f]} \/ c[f] = call[p][f]
       /\ \A q \in Program \ {p} : c.v4 = 0 \/ c.v4 # call[q].v4
       /\ call' = [call EXCEPT ![p] = c]
       /\ Goto(p, IF c = None THEN "off" ELSE "on")
  /\ calls' = calls + 1
  /\ UNCHANGED <<opt, cards, dns, faults, crossed>>

(* udhcpc_start()                                                          *)

\* ql_set_driver_link_state(), on.
LinkStateOn(p) ==
  /\ pc[p] = "on" /\ Goto(p, IF opt.qmap THEN "usb" ELSE "up")
  /\ linkOn' = IF opt.linkState THEN linkOn \cup {p} ELSE linkOn
  /\ crossed' = (crossed \/ \E q \in Program : pc[q] = "usbdown")
  /\ UNCHANGED <<opt, call, lease, card, usbUp, raw, dns, calls, faults>>

\* With QMAP: the USB card up, and a card that is up goes down first.
UsbCardUp(p) ==
  /\ pc[p] = "usb" /\ Goto(p, "up")
  /\ usbUp' = TRUE
  /\ card' = [card EXCEPT ![p] = Down(@)]
  /\ UNCHANGED <<opt, call, lease, linkOn, raw, dns, calls, faults, crossed>>

\* Then the card, and what comes for IPv4.
CardUp(p) ==
  /\ pc[p] = "up"
  /\ Goto(p, CASE opt.bridge -> "bridge"
               [] ~opt.bridge /\ call[p].v4 = 0 -> "ipv6"
               [] ~opt.bridge /\ call[p].v4 # 0 ->
                    IF opt.noDhcp \/ opt.ops = "mbim" THEN "static" ELSE "lease")
  /\ card' = [card EXCEPT ![p].up = TRUE]
  /\ UNCHANGED <<opt, call, lease, usbUp, linkOn, raw, dns, calls, faults, crossed>>

\* ql_bridge_mode_detect(): the driver gets the address, and the rest is left to
\* the host behind the bridge.
BridgeMode(p) ==
  /\ pc[p] = "bridge" /\ Goto(p, "idle")
  /\ card' = [card EXCEPT ![p].bridge = call[p].v4]
  /\ UNCHANGED <<opt, call, lease, usbUp, linkOn, raw, dns, calls, faults, crossed>>

\* Packets pass: the modem answers DHCP.
Passes(p) ==
  /\ card[p].up /\ raw
  /\ opt.qmap => usbUp
  /\ opt.linkState => p \in linkOn

\* busybox udhcpc -f -n -q -t 5: its script takes the address of the card away at the
\* beginning and sets the one of the lease.
Udhcpc(p) ==
  \E lost \in BOOLEAN :
    /\ lost => Passes(p) /\ faults > 0
    /\ faults' = IF lost THEN faults - 1 ELSE faults
    /\ card' = IF ~opt.script THEN card
               ELSE [card EXCEPT ![p].v4 = IF Passes(p) /\ ~lost THEN call[p].v4 ELSE 0]

\* The first try, and udhcpc_ip for the AT commands, which is all of IPv4 for them.
Dhcp(p) ==
  /\ pc[p] = "lease" /\ Udhcpc(p)
  /\ lease' = IF opt.ops = "atc" THEN [lease EXCEPT ![p] = card'[p].v4] ELSE lease
  /\ Goto(p, IF opt.ops = "qmi" THEN "rawip" ELSE "ipv6")
  /\ UNCHANGED <<opt, call, usbUp, linkOn, raw, dns, calls, crossed>>

\* Variant: the card stays down after the change of its format.
RawIpLeavesDown(p) ==
  /\ pc[p] = "rawip"
  /\ IF card[p].v4 = call[p].v4 \/ raw \/ opt.qmap
     THEN Goto(p, IF card[p].v4 = call[p].v4 THEN "ipv6" ELSE "static") /\ UNCHANGED <<card, raw>>
     ELSE raw' = TRUE /\ Goto(p, "again") /\ card' = [card EXCEPT ![p] = Down(@)]
  /\ UNCHANGED <<opt, call, lease, usbUp, linkOn, dns, calls, faults, crossed>>

\* ql_raw_ip_mode_check(): the address is not the call's, and the driver
\* strips Ethernet headers the modem does not send.
RawIpModeCheck(p) ==
  /\ pc[p] = "rawip"
  /\ IF card[p].v4 = call[p].v4 \/ raw \/ opt.qmap
     THEN Goto(p, IF card[p].v4 = call[p].v4 THEN "ipv6" ELSE "static") /\ UNCHANGED <<card, raw>>
     ELSE /\ raw' = TRUE /\ Goto(p, "again")
          /\ card' = [card EXCEPT ![p] = [Down(@) EXCEPT !.up = TRUE]]
  /\ UNCHANGED <<opt, call, lease, usbUp, linkOn, dns, calls, faults, crossed>>

\* The second try, and the address of the call when it is still not there.
DhcpAgain(p) ==
  /\ pc[p] = "again" /\ Udhcpc(p)
  /\ Goto(p, IF card'[p].v4 = call[p].v4 THEN "ipv6" ELSE "static")
  /\ UNCHANGED <<opt, call, lease, usbUp, linkOn, raw, dns, calls, crossed>>

\* update_ipv4_address() and update_ipv6_address(): the addresses of the family go
\* before the new one is added.
SetIpv4(p, a) == card' = [card EXCEPT ![p].v4 = a]
SetIpv6(p, a) == card' = [card EXCEPT ![p].v6 = a]

\* update_ip_address_by_qmi() for IPv4.
Static(p) ==
  /\ pc[p] = "static" /\ Goto(p, "read4")
  /\ SetIpv4(p, call[p].v4)
  /\ UNCHANGED <<opt, call, lease, usbUp, linkOn, raw, dns, calls, faults, crossed>>

\* update_ip_address_by_qmi() for IPv6, which is not asked for with DHCP.
Ipv6(p) ==
  /\ pc[p] = "ipv6"
  /\ IF call[p].v6 = 0 THEN Goto(p, "idle") /\ UNCHANGED card
     ELSE Goto(p, "read6") /\ SetIpv6(p, call[p].v6)
  /\ UNCHANGED <<opt, call, lease, usbUp, linkOn, raw, dns, calls, faults, crossed>>

\* The calls of update_resolv_conf(): udhcpc_start() does the one of IPv6 again.
Update == {[fam |-> 4, read |-> "read4", write |-> "write4", next |-> "ipv6"],
           [fam |-> 6, read |-> "read6", write |-> "write6", next |-> "reread6"],
           [fam |-> 6, read |-> "reread6", write |-> "rewrite6", next |-> "idle"]}

\* dns_info holds MaxDns lines; which ones of a longer file is left open.
Remember(p, lines) ==
  /\ full' = (full \/ Cardinality(lines) > MaxDns)
  /\ \E some \in SUBSET lines :
       /\ IF Cardinality(lines) > MaxDns THEN Cardinality(some) = MaxDns ELSE some = lines
       /\ kept' = [kept EXCEPT ![p] = some]

\* Variant: the tag of a line is the card only.
ReadOfCard(p) ==
  \E u \in Update :
    LET rest == {l \in resolv : l.of # p} IN
    /\ pc[p] = u.read /\ Goto(p, u.write) /\ Remember(p, rest)
    /\ UNCHANGED <<opt, call, cards, resolv, raced, calls, faults, crossed>>

\* Its first half: the lines without the program's tag are read, as many as
\* dns_info holds.
ReadResolv(p) ==
  \E u \in Update :
    LET rest == {l \in resolv : <<l.of, l.fam>> # <<p, u.fam>>} IN
    /\ pc[p] = u.read /\ Goto(p, u.write) /\ Remember(p, rest)
    /\ UNCHANGED <<opt, call, cards, resolv, raced, calls, faults, crossed>>

\* The line of a program's call.
LineOf(p, fam) == [of |-> p, fam |-> fam, dns |-> IF fam = 4 THEN call[p].v4 ELSE call[p].v6]

\* The second half: the program's line, and those it has read.
WriteResolv(p) ==
  \E u \in Update :
    /\ pc[p] = u.write /\ Goto(p, u.next)
    /\ resolv' = kept[p] \cup {LineOf(p, u.fam)}
    /\ kept' = [kept EXCEPT ![p] = {}]
    /\ raced' = (raced \/ \E q \in Program \ {p}, o \in Update : pc[q] = o.write)
    /\ UNCHANGED <<opt, call, cards, full, calls, faults, crossed>>

(* udhcpc_stop()                                                           *)

\* ql_set_driver_link_state(), off.
LinkStateOff(p) ==
  /\ pc[p] = "off" /\ Goto(p, IF opt.linkState /\ opt.qmap THEN "last" ELSE "flush")
  /\ linkOn' = linkOn \ {p}
  /\ UNCHANGED <<opt, call, lease, card, usbUp, raw, dns, calls, faults, crossed>>

\* Variant: link_state is not read again.
LastLinkAny(p) ==
  pc[p] = "last" /\ Goto(p, "usbdown") /\ UNCHANGED <<opt, call, cards, dns, calls, faults, crossed>>

\* It reads link_state again: the last one takes the USB card down.
LastLink(p) ==
  /\ pc[p] = "last" /\ Goto(p, IF linkOn = {} THEN "usbdown" ELSE "flush")
  /\ UNCHANGED <<opt, call, cards, dns, calls, faults, crossed>>

UsbCardDown(p) ==
  /\ pc[p] = "usbdown" /\ Goto(p, "flush")
  /\ usbUp' = FALSE
  /\ UNCHANGED <<opt, call, lease, card, linkOn, raw, dns, calls, faults, crossed>>

Flush(p) ==
  /\ pc[p] = "flush" /\ Goto(p, "idle")
  /\ lease' = [lease EXCEPT ![p] = 0]
  /\ card' = [card EXCEPT ![p] = [Down(@) EXCEPT !.v4 = 0]]
  /\ UNCHANGED <<opt, call, usbUp, linkOn, raw, dns, calls, faults, crossed>>

Start(p) ==
  \/ LinkStateOn(p) \/ UsbCardUp(p) \/ CardUp(p) \/ BridgeMode(p) \/ Dhcp(p)
  \/ RawIpModeCheck(p) \/ DhcpAgain(p) \/ Static(p) \/ Ipv6(p)
  \/ ReadResolv(p) \/ WriteResolv(p)
Stop(p) == LinkStateOff(p) \/ LastLink(p) \/ UsbCardDown(p) \/ Flush(p)
Next == \E p \in Program : LinkChange(p) \/ Start(p) \/ Stop(p)
Spec == Init /\ [][Next]_vars

-----------------------------------------------------------------------------
Done(p) == pc[p] = "idle" /\ call[p] # None

\* Whatever DHCP and its script do, and whatever format the driver began with, the
\* card of a QMI or MBIM call is up with the call's address of each family it
\* has at the end; with AT commands the program knows the address that is set.
\* (The address of a family that ended alone stays until the card goes down.)
Configured ==
  \A p \in Program : Done(p) =>
    /\ card[p].up
    /\ opt.bridge => card[p].bridge = call[p].v4
    /\ ~opt.bridge /\ call[p].v6 # 0 => card[p].v6 = call[p].v6
    /\ ~opt.bridge /\ call[p].v4 # 0 =>
         card[p].v4 = IF opt.ops = "atc" /\ ~opt.noDhcp THEN lease[p] ELSE call[p].v4

\* A program that hangs up does not cut the call of another one: the driver
\* has the other's link on and the USB card is up, unless the other turned its
\* link on after the program had read that none was.
LinkKept ==
  ~crossed => \A p \in Program : Done(p) /\ opt.linkState =>
    p \in linkOn /\ (opt.qmap => usbUp)

\* A program takes only its own lines of a family out of resolv.conf, and has
\* the servers of its call in it, unless two programs write it at once or it
\* is longer than dns_info.
LinesKept ==
  ~raced /\ ~full =>
    /\ User \subseteq resolv
    /\ \A p \in Program : Done(p) /\ ~opt.bridge =>
         /\ call[p].v6 # 0 => LineOf(p, 6) \in resolv
         /\ call[p].v4 # 0 /\ (opt.noDhcp \/ opt.ops = "mbim") => LineOf(p, 4) \in resolv

\* What the proof of the three needs: the same for the steps before the last, and how the
\* steps are reached.
Writing6 == {"read6", "write6", "reread6", "rewrite6"}
Writing4 == {"read4", "write4"}
Trying == {"lease", "rawip", "again"}
IsUp(p) == pc[p] \in Trying \cup Writing4 \cup Writing6 \cup {"bridge", "static", "ipv6"} \/ Done(p)
HasV4(p) == pc[p] \in Writing4 \cup Writing6 \cup {"ipv6"} \/ Done(p)
HasV6(p) == pc[p] \in Writing6 \/ Done(p)
Options ==
  /\ opt.ops \in {"qmi", "mbim", "atc"}
  /\ {opt.qmap, opt.noDhcp, opt.script, opt.fits, opt.bridge, opt.linkState} \subseteq BOOLEAN
  /\ opt.bridge => opt.ops # "atc"
Reached ==
  \A p \in Program :
    /\ pc[p] \in {"off", "last", "usbdown", "flush"} => call[p] = None
    /\ pc[p] = "bridge" => opt.bridge
    /\ pc[p] \in Trying \cup Writing4 \cup Writing6 \cup {"static", "ipv6"} => ~opt.bridge
    /\ pc[p] \in Trying \cup Writing4 \cup {"static"} => call[p].v4 # 0
    /\ pc[p] \in Writing6 => call[p].v6 # 0
    /\ pc[p] \in Trying => ~opt.noDhcp /\ opt.ops # "mbim"
    /\ pc[p] \in {"rawip", "again", "static"} => opt.ops # "atc" \/ opt.noDhcp
CardOf ==
  \A p \in Program :
    /\ IsUp(p) => card[p].up
    /\ Done(p) /\ opt.bridge => card[p].bridge = call[p].v4
    /\ HasV6(p) /\ ~opt.bridge /\ call[p].v6 # 0 => card[p].v6 = call[p].v6
    /\ HasV4(p) /\ ~opt.bridge /\ call[p].v4 # 0 =>
         card[p].v4 = IF opt.ops = "atc" /\ ~opt.noDhcp THEN lease[p] ELSE call[p].v4
LinkOf ==
  \A p \in Program :
    /\ opt.linkState /\ (pc[p] \in {"usb", "up"} \/ IsUp(p)) => p \in linkOn
    /\ opt.linkState /\ opt.qmap /\ ~crossed /\ (pc[p] = "up" \/ IsUp(p)) => usbUp
    /\ ~crossed /\ pc[p] = "usbdown" => linkOn = {}
LinesOf ==
  ~raced /\ ~full =>
    /\ User \subseteq resolv
    /\ \A p \in Program :
         /\ \A u \in Update : pc[p] = u.write =>
              {l \in resolv : <<l.of, l.fam>> # <<p, u.fam>>} \subseteq kept[p]
         /\ call[p].v6 # 0 /\ ~opt.bridge /\ (pc[p] \in {"reread6", "rewrite6"} \/ Done(p)) =>
              LineOf(p, 6) \in resolv
         /\ call[p].v4 # 0 /\ ~opt.bridge /\ (opt.noDhcp \/ opt.ops = "mbim")
              /\ (pc[p] \in Writing6 \cup {"ipv6"} \/ Done(p)) => LineOf(p, 4) \in resolv
CardInv == TypeOK /\ Options /\ Reached /\ CardOf /\ LinkOf /\ LinesOf
=============================================================================
