---------------------------- MODULE MCComponents ----------------------------
(***************************************************************************)
(* One run for the parts that run alone: the channel and the two sessions  *)
(* of a connection manager for AT and MBIM, the request functions of the   *)
(* one for QMI, its search for a modem and its network card, the           *)
(* supervisor lte-serve, the update over the air and the RS485 bridge.     *)
(* What a behaviour is of is chosen at the beginning, and the variables    *)
(* are those of that part, in its order. A property joins those that the   *)
(* parts state for the same purpose.                                       *)
(***************************************************************************)
EXTENDS Integers, Sequences

CONSTANTS
  Tries, MaxCommands, MaxData, MaxUrc, MaxSessions, Cmti,   \* of AtChannel
  Addr, Odd, Opens,                                         \* of the two sessions, Addr of NetCard too
  Wrap, Late, Slices, MaxCalls,                             \* of MbimCommand
  Most, Digits,                                             \* of QmiRegistration
  MaxStarts, MaxProfiles,                                   \* of QmiSetup
  MaxResets,                                                \* of CmStart
  MaxDns, MaxLinks,                                         \* of NetCard
  Misses, Longest,                                          \* of LteServe
  Downloads, Commands,                                      \* of OtaUpdate
  Cap, Retries, Reads, LineFaults,                          \* of Rs485Bridge
  MaxChanges, MaxFaults                                     \* of several

\* Cap is 10 and Retries 5 in rs485-module and its init script.
ASSUME Rs485Assumption ==
  Cap \in Nat /\ Retries \in Nat /\ Reads \in Nat /\ LineFaults \in Nat

\* An answer of the MBIM modem does not come a whole round of numbers late:
\* Wrap is 0xFFFFFF.
ASSUME CommandAssumption ==
  /\ Wrap \in Nat \ {0} /\ Late \in Nat /\ Late < Wrap
  /\ Slices \in Nat \ {0} /\ MaxCalls \in Nat

\* HANDSHAKE_RETRY_COUNT is 8.
ASSUME ChannelAssumption ==
  /\ Tries \in Nat \ {0} /\ MaxCommands \in Nat /\ MaxData \in Nat
  /\ MaxUrc \in Nat /\ MaxSessions \in Nat /\ Cmti \in BOOLEAN

\* 0 stands for no address.
ASSUME SessionAssumption == Addr # {} /\ 0 \notin Addr /\ Opens \in Nat \ {0}

\* A country code has three digits.
ASSUME RegistrationAssumption == Digits \subseteq [1..3 -> 0..9] /\ Most \in Nat

\* The table of a modem holds a profile at least.
ASSUME SetupAssumption == MaxStarts \in Nat \ {0} /\ MaxProfiles \in Nat \ {0}

ASSUME StartAssumption == MaxResets \in Nat

ASSUME CardAssumption == MaxLinks \in Nat /\ MaxDns \in Nat

ASSUME LteAssumption == Misses \in Nat /\ Longest \in Nat

ASSUME OtaAssumption == Downloads \in Nat /\ Commands \in Nat

ASSUME SharedAssumption == MaxChanges \in Nat /\ MaxFaults \in Nat

\* What a run takes for Digits: an ordinary country code and one of zeros.
HomeDigits == {<<4, 6, 0>>, <<0, 0, 0>>}

VARIABLES
  part,   \* what runs
  v1, v2, v3, v4, v5, v6, v7, v8, v9, v10, v11, v12, v13, v14, v15, v16, v17,
  v18, v19, v20, v21, v22, v23, v24, v25, v26

\* The variables that a part with n of them leaves, as unused.
After23 == <<v24, v25, v26>>
After20 == <<v21, v22, v23, After23>>
After19 == <<v20, After20>>
After15 == <<v16, v17, v18, v19, After19>>
After14 == <<v15, After15>>
After13 == <<v14, After14>>
After10 == <<v11, v12, v13, After13>>
Unused23 == v24 = 0 /\ v25 = 0 /\ v26 = 0
Unused20 == v21 = 0 /\ v22 = 0 /\ v23 = 0 /\ Unused23
Unused19 == v20 = 0 /\ Unused20
Unused15 == v16 = 0 /\ v17 = 0 /\ v18 = 0 /\ v19 = 0 /\ Unused19
Unused14 == v15 = 0 /\ Unused15
Unused13 == v14 = 0 /\ Unused14
Unused10 == v11 = 0 /\ v12 = 0 /\ v13 = 0 /\ Unused13
channel == <<v1, v2, v3, v4, v5, v6, v7, v8, v9, v10, v11, v12, v13, v14, v15, v16, v17,
  v18, v19, v20>>
at == <<v1, v2, v3, v4, v5, v6, v7, v8, v9, v10, v11, v12, v13, v14, v15, v16, v17,
  v18, v19, v20, v21, v22, v23, v24, v25, v26>>
command == <<v1, v2, v3, v4, v5, v6, v7, v8, v9, v10, v11, v12, v13, v14>>
mbim == <<v1, v2, v3, v4, v5, v6, v7, v8, v9, v10, v11, v12, v13, v14, v15, v16, v17,
  v18, v19, v20>>
registration == <<v1, v2, v3, v4, v5, v6, v7, v8, v9, v10, v11, v12, v13>>
setup == <<v1, v2, v3, v4, v5, v6, v7, v8, v9, v10, v11, v12, v13, v14, v15, v16, v17,
  v18, v19, v20, v21, v22, v23>>
start == <<v1, v2, v3, v4, v5, v6, v7, v8, v9, v10>>
card == <<v1, v2, v3, v4, v5, v6, v7, v8, v9, v10, v11, v12, v13, v14, v15>>
lte == <<v1, v2, v3, v4, v5, v6, v7, v8, v9, v10, v11, v12, v13, v14>>
ota == <<v1, v2, v3, v4, v5, v6, v7, v8, v9, v10, v11, v12, v13>>
rs485 == <<v1, v2, v3, v4, v5, v6, v7, v8, v9, v10, v11, v12, v13, v14, v15, v16, v17,
  v18, v19>>
vars == <<part, v1, v2, v3, v4, v5, v6, v7, v8, v9, v10, v11, v12, v13, v14, v15, v16, v17,
  v18, v19, v20, v21, v22, v23, v24, v25, v26>>

Channel == INSTANCE AtChannel WITH
  session <- v1, up <- v2, open <- v3, closed <- v4, reader <- v5,
  line <- v6, toModem <- v7, doing <- v8, pending <- v9, inter <- v10,
  final <- v11, pc <- v12, cmd <- v13, n <- v14, tries <- v15, ret <- v16,
  late <- v17, told <- v18, urcs <- v19, missed <- v20
At == INSTANCE AtcSession WITH
  task <- v1, at <- v2, attached <- v3, copsAct <- v4, status <- v5,
  addr <- v6, ip <- v7, link <- v8, sig <- v9, events <- v10, alarm <- v11,
  hold <- v12, doNotExit <- v13, reader <- v14, up <- v15, reboot <- v16,
  nat <- v17, asr <- v18, reg <- v19, pdp <- v20, net <- v21, maddr <- v22,
  old <- v23, missed <- v24, killed <- v25, faults <- v26
Command == INSTANCE MbimCommand WITH
  pc <- v1, req <- v2, slices <- v3, result <- v4, got <- v5, sreq <- v6,
  sresp <- v7, n <- v8, tid <- v9, reader <- v10, modem <- v11, line <- v12,
  answered <- v13, faults <- v14
Mbim == INSTANCE MbimSession WITH
  task <- v1, at <- v2, answer <- v3, tries <- v4, attached <- v5,
  status <- v6, addr <- v7, ip <- v8, link <- v9, sig <- v10, events <- v11,
  alarm <- v12, hold <- v13, reader <- v14, known <- v15, modem <- v16,
  opened <- v17, maddr <- v18, killed <- v19, faults <- v20
Registration == INSTANCE QmiRegistration WITH
  raw <- v1, profile <- v2, serving <- v3, packets <- v4, home <- v5,
  todo <- v6, pc <- v7, lte <- v8, cdma <- v9, attached <- v10, mcc <- v11,
  ok <- v12, dial <- v13
Setup == INSTANCE QmiSetup WITH
  opt <- v1, pc <- v2, todo <- v3, clients <- v4, mode <- v5, mux <- v6,
  version <- v7, rawIP <- v8, new9x07 <- v9, sim <- v10, index <- v11,
  unread <- v12, old <- v13, ids <- v14, format <- v15, bound <- v16,
  uim <- v17, left <- v18, profiles <- v19, starts <- v20, faults <- v21,
  failed <- v22, everFailed <- v23
Start == INSTANCE CmStart WITH
  opt <- v1, dev <- v2, at <- v3, pos <- v4, found <- v5, rndis <- v6,
  again <- v7, signalled <- v8, resets <- v9, late <- v10
Card == INSTANCE NetCard WITH
  MaxCalls <- MaxLinks,
  opt <- v1, pc <- v2, call <- v3, lease <- v4, card <- v5, usbUp <- v6,
  linkOn <- v7, raw <- v8, resolv <- v9, kept <- v10, calls <- v11,
  faults <- v12, crossed <- v13, raced <- v14, full <- v15
Lte == INSTANCE LteServe WITH
  enable <- v1, pinOnly <- v2, uci <- v3, stale <- v4, init <- v5,
  loop <- v6, set <- v7, i <- v8, pins <- v9, cm <- v10, reset <- v11,
  faults <- v12, slipped <- v13, orphan <- v14
Ota == INSTANCE OtaUpdate WITH
  dl <- v1, curl <- v2, cmd <- v3, lock <- v4, pid <- v5, file <- v6,
  img <- v7, progress <- v8, installed <- v9, cancelled <- v10,
  overlap <- v11, crashed <- v12, faults <- v13
Rs485 == INSTANCE Rs485Bridge WITH
  MaxFaults <- LineFaults,
  uci <- v1, proc <- v2, exits <- v3, config <- v4, port <- v5, state <- v6,
  pc <- v7, out <- v8, chan <- v9, net <- v10, taken <- v11, got <- v12,
  line <- v13, n <- v14, reach <- v15, trigger <- v16, result <- v17,
  changes <- v18, faults <- v19

Init ==
  \/ part = "channel" /\ Channel!Init /\ Unused20
  \/ part = "at" /\ At!Init
  \/ part = "command" /\ Command!Init /\ Unused14
  \/ part = "mbim" /\ Mbim!Init /\ Unused20
  \/ part = "registration" /\ Registration!Init /\ Unused13
  \/ part = "setup" /\ Setup!Init /\ Unused23
  \/ part = "start" /\ Start!Init /\ Unused10
  \/ part = "card" /\ Card!Init /\ Unused15
  \/ part = "lte" /\ Lte!Init /\ Unused14
  \/ part = "ota" /\ Ota!Init /\ Unused13
  \/ part = "rs485" /\ Rs485!Init /\ Unused19
Next ==
  \/ part = "channel" /\ Channel!Next /\ UNCHANGED <<part, After20>>
  \/ part = "at" /\ At!Next /\ UNCHANGED part
  \/ part = "command" /\ Command!Next /\ UNCHANGED <<part, After14>>
  \/ part = "mbim" /\ Mbim!Next /\ UNCHANGED <<part, After20>>
  \/ part = "registration" /\ Registration!Next /\ UNCHANGED <<part, After13>>
  \/ part = "setup" /\ Setup!Next /\ UNCHANGED <<part, After23>>
  \/ part = "start" /\ Start!Next /\ UNCHANGED <<part, After10>>
  \/ part = "card" /\ Card!Next /\ UNCHANGED <<part, After15>>
  \/ part = "lte" /\ Lte!Next /\ UNCHANGED <<part, After14>>
  \/ part = "ota" /\ Ota!Next /\ UNCHANGED <<part, After13>>
  \/ part = "rs485" /\ Rs485!Next /\ UNCHANGED <<part, After19>>

\* The fairness that each module states, for the part that runs.
Fair ==
  /\ WF_at(part = "at" /\ At!Main)
  /\ WF_at(part = "at" /\ At!Clock)
  /\ WF_command(part = "command" /\ Command!Goes)
  /\ WF_command(part = "command" /\ Command!Leave)
  /\ WF_mbim(part = "mbim" /\ (Mbim!Main \/ Mbim!Exchange))
  /\ WF_mbim(part = "mbim" /\ Mbim!ReaderLeaves)
  /\ WF_mbim(part = "mbim" /\ Mbim!ClockRuns)
  /\ WF_setup(part = "setup" /\ Setup!StartUp)
  /\ WF_setup(part = "setup" /\ Setup!CardSettles)
  /\ WF_start(part = "start" /\ Start!Run(1))
  /\ WF_start(part = "start" /\ Start!Run(2))
  /\ WF_lte(part = "lte" /\ Lte!Script)
  /\ WF_lte(part = "lte" /\ Lte!ResetScript)
  /\ WF_lte(part = "lte" /\ Lte!Service)
  /\ WF_ota(part = "ota" /\ Ota!Scripts)
  /\ WF_ota(part = "ota" /\ Ota!Curls)
  /\ WF_rs485(part = "rs485" /\ Rs485!Round)
  /\ WF_rs485(part = "rs485" /\ Rs485!Respawn)
  /\ WF_rs485(part = "rs485" /\ Rs485!Connect)
  /\ SF_rs485(part = "rs485" /\ Rs485!Send)
Spec == Init /\ [][Next]_vars
FairSpec == Spec /\ Fair

-----------------------------------------------------------------------------
(* The properties of the parts, each for the part that runs.               *)

\* Type correctness of the state of each part.
TypeOK ==
  /\ part \in {"channel", "at", "command", "mbim", "registration", "setup", "start",
              "card", "lte", "ota", "rs485"}
  /\ part = "channel" => Channel!TypeOK
  /\ part = "at" => At!TypeOK
  /\ part = "command" => Command!TypeOK
  /\ part = "mbim" => Mbim!TypeOK
  /\ part = "registration" => Registration!TypeOK
  /\ part = "setup" => Setup!TypeOK
  /\ part = "start" => Start!TypeOK
  /\ part = "card" => Card!TypeOK
  /\ part = "lte" => Lte!TypeOK
  /\ part = "ota" => Ota!TypeOK
  /\ part = "rs485" => Rs485!TypeOK

\* at_send_command() returns the final line of its own command and its line of
\* data when there has to be one, reports a line that an unsolicited one
\* displaced, and waits for nothing that has come unless it came between two
\* slices of its wait, although commands time out, unsolicited
\* lines come between and the device goes away. The AT session brings the link
\* up for its own call only, and survives the restart of the modem that it
\* asked for.
AtSafe ==
  /\ part = "channel" => /\ Channel!OwnAnswer /\ Channel!Displaced
                         /\ Channel!HasData /\ Channel!Awaited
  /\ part = "at" => At!FreshCall /\ At!KeepsRunning

\* MBIM transaction numbers leave quectel-mbim-proxy its byte across a wrap, a
\* command returns nothing only at the end of the reader, and the address
\* that is configured is the one of the call there is.
MbimSafe ==
  /\ part = "command" => Command!LeavesProxyByte /\ Command!NullForEnd
  /\ part = "mbim" => Mbim!AddressOfCall

\* The requests of a QMI session: a call is dialled for the technology in
\* service in any order of TLVs; the code of a CDMA home network is decoded;
\* modem, driver and manager agree on the format and the mux id over resets;
\* the user's settings go to the profile they are for; a start takes one try
\* of the PIN; client ids are in use or given back.
QmiSafe ==
  /\ part = "registration" => Registration!DialFits /\ Registration!HomeCode
  /\ part = "setup" => /\ Setup!AgreedFormat /\ Setup!BoundToCard /\ Setup!ProfileSet
                       /\ Setup!PinSpared /\ Setup!IdsInUse

\* A program takes the modem it was asked for and ends the one that held it; the
\* card of its call has the call's addresses whatever DHCP does, and it leaves the
\* link and the name servers of another program's call alone. lte-serve keeps one
\* program at most, with the settings there are, and resets no modem it just gave
\* to one.
ModemSafe ==
  /\ part = "start" => Start!RightModem /\ Start!OneUser
  /\ part = "card" => Card!Configured /\ Card!LinkKept /\ Card!LinesKept
  /\ part = "lte" => Lte!OneProgram /\ Lte!CurrentSettings /\ Lte!Spared

\* The image of an update is whole, a cancelled one does not come back, and
\* the page is told of the end of a download, for calls that overlap.
OtaSafe == part = "ota" => Ota!Whole /\ Ota!StaysCancelled /\ Ota!TellsEnd

\* The RS485 bridge loses, repeats and reorders nothing while its MQTT client lives,
\* although its channel is full or the serial line comes before a poll.
Kept == part = "rs485" => Rs485!Kept

\* mbim_send_command() implements a call of QmiRpc, and no QMI call is dialled
\* on the attach state from before a query that failed.
Steps ==
  /\ part = "command" => Command!Rpc!Init
  /\ [][/\ part = "command" => [Command!Rpc!Next]_(Command!Rpc!rpcVars)
        /\ part = "registration" => Registration!FreshDial]_vars

Settled ==
  (part = "at" /\ At!Usable) \/ (part = "mbim" /\ Mbim!Usable) \/ (part = "start" /\ Start!Ready)
Connected ==
  (part = "at" => At!Connected) /\ (part = "mbim" => Mbim!Connected) /\ (part = "start" => Start!Found)
Starts == (part = "setup" /\ Setup!Starts) \/ (part = "rs485" /\ Rs485!Bridges)
Started == (part = "setup" => Setup!Started) /\ (part = "rs485" => Rs485!Bridged)

\* The AT and the MBIM session connect to a network that keeps the modem,
\* whatever reports are lost between, and a program finds its modem again after
\* a reset; a QMI session gets through its start-up,
\* and the RS485 bridge has its connection again and gets what it read to the
\* broker.
Connects ==
  /\ <>[]Settled => <>[]Connected
  /\ Starts ~> Started
  /\ (part = "rs485" /\ Rs485!Unsent) ~> (part = "rs485" => Rs485!Arrived)

Pending ==
  CASE part = "command" -> Command!InCall
    [] part = "mbim" -> Mbim!Killed
    [] part = "lte" -> Lte!Down
    [] part = "ota" -> Ota!Locked
    [] part = "rs485" -> Rs485!Asking
    [] OTHER -> FALSE
Over ==
  CASE part = "command" -> ~Command!InCall
    [] part = "mbim" -> Mbim!Ended
    [] part = "lte" -> Lte!Again
    [] part = "ota" -> ~Ota!Locked
    [] part = "rs485" -> Rs485!Told
    [] OTHER -> TRUE

\* What is asked for comes to an end: an MBIM command, the MBIM session after
\* a signal, the time without a quectel-CM, the lock of a download, a Modbus read.
Ends == Pending ~> Over
=============================================================================
