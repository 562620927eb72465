----------------------------- MODULE Rs485Bridge -----------------------------
(***************************************************************************)
(* rs485-module: one task that reads its configuration anew in each round, *)
(* waits for the MQTT event loop or the serial line, whichever is first,   *)
(* and then looks for a file that asks for a Modbus read. What it waits    *)
(* for besides, it waits for alone: room in the channel to the event loop, *)
(* which only its own polls make, and the answer of a Modbus device, which *)
(* has no time-out. Procd starts it again when it exits.                   *)
(***************************************************************************)
EXTENDS Integers, Sequences

CONSTANTS
  Cap,         \* room of the channel: 10
  Retries,     \* exits in a row that procd answers with a start: 5
  Reads,       \* bound on what the serial line brings
  MaxChanges,  \* bound on changes of the configuration
  MaxFaults    \* bound on lost connections and Modbus errors

VARIABLES
  uci,      \* /etc/config/rs485-module: mqtt, and what to do on a trigger
  proc,     \* up, down (procd waits), stopped (procd gave up)
  exits,    \* exits in a row
  config,   \* uci as this round loaded it
  port,     \* serial or modbus: by the configuration of the start
  state,    \* mqtt_state: not, success, failed
  pc,       \* top, select, put (in publish or subscribe), retry, modbus, hung
  out,      \* what is being put
  chan,     \* the channel, oldest first; 0 is the subscription
  net,      \* the event loop has a connection
  taken, got, \* what this client was given to send, and what of it the broker has
  line,     \* messages on the serial line
  n,        \* messages so far
  reach,    \* the broker can be reached
  trigger,  \* /tmp/rs485_trigger is there
  result,   \* /tmp/rs485_result: none, data, error
  changes, faults

uciVars == <<uci, changes>>
procVars == <<proc, exits, port>>
mqttVars == <<state, chan, net, taken, got>>
lineVars == <<line, n>>
fileVars == <<trigger, result>>
vars == <<uciVars, procVars, config, mqttVars, pc, out, lineVars, reach, fileVars, faults>>

Uci == [mqtt : BOOLEAN, protocol : {"off", "read", "unsupported"}]
Message == 1..Reads

TypeOK ==
  /\ uci \in Uci /\ config \in Uci /\ changes \in 0..MaxChanges
  /\ proc \in {"up", "down", "stopped"} /\ exits \in 0..Retries + 1 /\ port \in {"serial", "modbus"}
  /\ state \in {"not", "success", "failed"} /\ pc \in {"top", "select", "put", "retry", "modbus", "hung"}
  /\ out \in 0..Reads /\ chan \in Seq(0..Reads) /\ Len(chan) <= Cap /\ net \in BOOLEAN
  /\ taken \in Seq(0..Reads) /\ got \in Seq(0..Reads) /\ line \in Seq(Message) /\ n \in 0..Reads
  /\ reach \in BOOLEAN /\ trigger \in BOOLEAN /\ result \in {"none", "data", "error"}
  /\ faults \in 0..MaxFaults

Init ==
  /\ uci \in Uci /\ config = uci /\ changes = 0 /\ proc = "up" /\ exits = 0
  /\ port = (IF uci.protocol = "off" THEN "serial" ELSE "modbus")
  /\ state = "not" /\ pc = "top" /\ out = 0 /\ chan = <<>> /\ net = FALSE /\ taken = <<>> /\ got = <<>>
  /\ line = <<>> /\ n = 0 /\ reach = TRUE /\ trigger = FALSE /\ result = "none" /\ faults = MaxFaults

Fault == faults > 0 /\ faults' = faults - 1
At(p) == proc = "up" /\ pc = p
To(p) == pc' = p
NewClient(s) == state' = s /\ chan' = <<>> /\ net' = FALSE /\ taken' = <<>> /\ got' = <<>>

-----------------------------------------------------------------------------
(* A round of main().                                                      *)

Load ==
  /\ At("top") /\ config' = uci
  /\ To(IF ~uci.mqtt \/ state = "not" THEN "modbus" ELSE IF state = "success" THEN "select" ELSE "retry")
  /\ IF uci.mqtt /\ state = "not" THEN NewClient("success") ELSE UNCHANGED mqttVars
  /\ UNCHANGED <<uciVars, procVars, out, lineVars, reach, fileVars, faults>>

RoundSame == UNCHANGED <<uciVars, procVars, config, lineVars, reach, fileVars>>

\* The event loop connects; the subscription goes through the channel.
Connect ==
  /\ At("select") /\ ~net /\ reach /\ net' = TRUE
  /\ out' = 0 /\ taken' = Append(taken, 0) /\ To("put")
  /\ RoundSame /\ UNCHANGED <<state, chan, got, faults>>

\* Variant: what is sent stays in the channel too.
SentTwice == got' = Append(got, Head(chan)) /\ UNCHANGED chan

Sent == got' = Append(got, Head(chan)) /\ chan' = Tail(chan)
Send ==
  /\ At("select") /\ net /\ chan # <<>> /\ Sent /\ To("modbus")
  /\ RoundSame /\ UNCHANGED <<state, net, taken, out, faults>>

\* A ping, its answer, or a message for the serial line, which is written or,
\* in the Modbus mode, refused.
Event ==
  /\ At("select") /\ net /\ To("modbus") /\ RoundSame /\ UNCHANGED <<mqttVars, out, faults>>

\* No connection, a connection that is lost, or the broker's goodbye: after
\* the delay there is a new client, and what the channel held is lost.
NetError ==
  /\ At("select") /\ (IF reach THEN Fault ELSE UNCHANGED faults)
  /\ state' = "failed" /\ net' = FALSE /\ To("modbus")
  /\ RoundSame /\ UNCHANGED <<chan, taken, got, out>>
Retry ==
  /\ At("retry") /\ NewClient("success") /\ To("modbus") /\ RoundSame /\ UNCHANGED <<out, faults>>

\* The line was first: what the event loop was doing is given up.
Read ==
  /\ At("select") /\ port = "serial" /\ line # <<>>
  /\ out' = Head(line) /\ line' = Tail(line) /\ taken' = Append(taken, Head(line)) /\ To("put")
  /\ UNCHANGED <<uciVars, procVars, config, state, chan, net, got, n, reach, fileVars, faults>>

\* Variant: a message that finds no room is dropped.
PutOrDrop == chan' = IF Len(chan) < Cap THEN Append(chan, out) ELSE chan

\* publish() and subscribe() wait for room.
Put == Len(chan) < Cap /\ chan' = Append(chan, out)
Queue ==
  /\ At("put") /\ Put /\ To("modbus") /\ RoundSame /\ UNCHANGED <<state, net, taken, got, out, faults>>

\* Variant: the file is removed only after a read that worked.
AnsweredOk == trigger' = (result' # "data")

\* The file is removed whatever the answer was.
Answered == trigger' = FALSE
Asked == config.protocol # "off" /\ trigger
Skip ==
  /\ At("modbus") /\ ~Asked /\ To("top")
  /\ RoundSame /\ UNCHANGED <<mqttVars, out, faults>>
Modbus ==
  /\ At("modbus") /\ Asked /\ To("top")
  /\ result' = (IF port = "modbus" /\ config.protocol = "read" THEN "data" ELSE "error") /\ Answered
  /\ UNCHANGED <<uciVars, procVars, config, mqttVars, out, lineVars, reach, faults>>

\* An error of the line, or one that the device answers, leaves main(); the
\* file stays. A device that says nothing is waited for.
Exit == proc' = "down" /\ exits' = exits + 1 /\ UNCHANGED <<port, pc>>
ModbusError ==
  /\ At("modbus") /\ Asked /\ port = "modbus" /\ config.protocol = "read" /\ Fault /\ Exit
  /\ UNCHANGED <<uciVars, config, mqttVars, out, lineVars, reach, fileVars>>
ModbusSilent ==
  /\ At("modbus") /\ Asked /\ port = "modbus" /\ config.protocol = "read" /\ Fault /\ To("hung")
  /\ RoundSame /\ UNCHANGED <<mqttVars, out>>

-----------------------------------------------------------------------------
(* Procd, the configuration, and what is outside.                          *)

\* main() from its start, with the port by the configuration of now.
Fresh ==
  /\ proc' = "up" /\ config' = uci' /\ port' = (IF uci'.protocol = "off" THEN "serial" ELSE "modbus")
  /\ NewClient("not") /\ To("top") /\ out' = 0 /\ line' = <<>>
Respawn ==
  /\ proc = "down" /\ UNCHANGED uciVars
  /\ IF exits > Retries
     THEN proc' = "stopped" /\ UNCHANGED <<config, port, mqttVars, pc, out, line>>
     ELSE Fresh
  /\ UNCHANGED <<exits, n, reach, fileVars, faults>>

\* A change is applied, which starts the process again, or only committed.
Change(reload) ==
  /\ changes < MaxChanges /\ changes' = changes + 1 /\ uci' \in Uci /\ uci' # uci
  /\ IF reload THEN Fresh /\ exits' = 0
     ELSE UNCHANGED <<proc, exits, config, port, mqttVars, pc, out, line>>
  /\ UNCHANGED <<n, reach, fileVars, faults>>

Say ==
  /\ n < Reads /\ n' = n + 1 /\ port = "serial" /\ line' = Append(line, n')
  /\ UNCHANGED <<uciVars, procVars, config, mqttVars, pc, out, reach, fileVars, faults>>
Trigger ==
  /\ ~trigger /\ result = "none" /\ trigger' = TRUE
  /\ UNCHANGED <<uciVars, procVars, config, mqttVars, pc, out, lineVars, reach, result, faults>>
Reach ==
  /\ reach' = ~reach /\ (IF reach THEN Fault ELSE UNCHANGED faults)
  /\ UNCHANGED <<uciVars, procVars, config, mqttVars, pc, out, lineVars, fileVars>>

Round ==
  \/ Load \/ Connect \/ Send \/ Event \/ NetError \/ Retry \/ Read \/ Queue
  \/ Skip \/ Modbus \/ ModbusError \/ ModbusSilent
Outside == (\E reload \in BOOLEAN : Change(reload)) \/ Say \/ Trigger \/ Reach
Next == Round \/ Respawn \/ Outside
Spec == Init /\ [][Next]_vars

\* The task runs and procd does; the event loop sends as well as it pings.
FairSpec == Spec /\ WF_vars(Round) /\ WF_vars(Respawn) /\ SF_vars(Send) /\ WF_vars(Connect)

-----------------------------------------------------------------------------
(* Properties.                                                             *)

\* The task waits for room that only it could make.
Wedged == At("put") /\ Len(chan) = Cap

\* Nothing that was read, nor the subscription, is lost, repeated or put before
\* what was given earlier, as long as the client lives: not by a full channel, nor
\* by a serial line that comes before a poll (which is one step).
Kept == taken = got \o chan \o (IF pc = "put" THEN <<out>> ELSE <<>>)

Stuck == Wedged \/ pc = "hung"
Bridges == proc = "up" /\ uci.mqtt /\ reach

\* With a broker to be reached there is a connection again, after any loss and
\* any change of the configuration.
Bridged == net \/ Stuck \/ ~Bridges
Connects == Bridges ~> Bridged

\* What was read comes to the broker while there is a connection.
Unsent == net /\ taken # got
Arrived == taken = got \/ ~net \/ Stuck \/ ~Bridges
Arrives == Unsent ~> Arrived

\* Who asks for a Modbus read is answered, by a process started again if the
\* first left; unless procd has given up, or the device says nothing.
Told == ~trigger \/ Stuck \/ proc = "stopped" \/ uci.protocol = "off"
Asking == trigger
Answers == Asking ~> Told
=============================================================================
