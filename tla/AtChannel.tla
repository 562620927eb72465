------------------------------ MODULE AtChannel -----------------------------
(***************************************************************************)
(* atchannel.c: AT commands over a serial device. The caller writes a      *)
(* command and waits for the final line of its response; a reader thread   *)
(* sorts the lines that come into the response of the command that waits   *)
(* and into what nobody asked for. Nothing in a line tells which command   *)
(* it answers.                                                             *)
(*                                                                         *)
(* Both threads hold cm_command_mutex for all they do to the response, and *)
(* the caller gives it up while it waits: one action is what is done under *)
(* the mutex at a time. at_close() is called by a third thread,            *)
(* atc_read_thread(), when the device hangs up.                            *)
(***************************************************************************)
EXTENDS Integers, Sequences

CONSTANTS
  Tries,       \* HANDSHAKE_RETRY_COUNT
  MaxCommands, \* bound on the commands
  MaxData,     \* bound on the lines of a response before the final one
  MaxUrc,      \* bound on the unsolicited lines
  MaxSessions, \* bound on the times the device is opened
  Cmti         \* the modem reports received messages, "+CMTI: <mem>,<index>"

Prefix == {"+CEREG:", "+CGACT:"}

\* What is sent: with SINGLELINE and MULTILINE, the prefix of the lines of
\* the response; the handshake is a NO_RESULT command.
Command == [type : {"NO_RESULT", "NUMERIC"}, prefix : {""}]
           \cup [type : {"SINGLELINE"}, prefix : {"+CEREG:"}] \cup [type : {"MULTILINE"}, prefix : {"+CGACT:"}]
Handshake == [type |-> "NO_RESULT", prefix |-> "ATE0Q0V1"]

\* A line: by tells which command it belongs to, 0 for unsolicited ones.
Line == [kind : {"OK", "ERROR", "digits", "cmti"} \cup Prefix, by : 0..MaxCommands]
Final == {"OK", "ERROR"}
NoLine == [kind |-> "none", by |-> 0]

VARIABLES
  session,     \* times the device was opened
  up,          \* the device is there
  open,        \* s_fd
  closed,      \* s_readerClosed
  reader,      \* line, second (of a message report), ended
  line,        \* what the modem wrote and the reader has not read
  toModem,     \* what was written and the modem has not taken
  doing,       \* the command the modem answers
  pending,     \* sp_response # NULL
  inter,       \* p_intermediates
  final,       \* finalResponse
  pc,          \* of the caller: idle, wait, between (two slices of the wait),
               \* expired, woken, drain
  cmd, n,      \* the command and its number
  tries,       \* handshakes made; 0 when there is none
  ret,         \* what the last command returned
  late,        \* a command timed out and its answer may yet come
  told,        \* the lines s_unsolHandler was called with since the command
  urcs,
  missed       \* not the program's: a signal met the command between two slices

readerVars == <<reader, line>>
modemVars == <<up, toModem, doing, urcs>>
respVars == <<pending, inter, final>>
vars == <<session, open, closed, readerVars, modemVars, respVars, pc, cmd, n, tries, ret, late, told, missed>>

Sent == [cmd : Command \cup {Handshake}, n : 1..MaxCommands]

TypeOK ==
  /\ session \in 0..MaxSessions /\ up \in BOOLEAN /\ open \in BOOLEAN /\ closed \in BOOLEAN
  /\ reader \in {"line", "second", "ended"}
  /\ line \in Seq(Line) /\ toModem \in Seq(Sent) /\ doing \in {<<>>} \cup {<<s>> : s \in Sent}
  /\ pending \in BOOLEAN /\ inter \in Seq(Line) /\ final \in Line \cup {NoLine}
  /\ pc \in {"idle", "wait", "between", "expired", "woken", "drain"}
  /\ cmd \in Command \cup {Handshake} /\ n \in 0..MaxCommands /\ tries \in 0..Tries
  /\ ret \in {"none", "ok", "error", "invalid", "timeout", "closed"}
  /\ late \in BOOLEAN /\ told \subseteq Line /\ missed \in BOOLEAN
  /\ pc \in {"wait", "between", "expired", "woken"} <=> pending

Init ==
  /\ session = 0 /\ up = FALSE /\ open = FALSE /\ closed = TRUE
  /\ reader = "ended" /\ line = <<>> /\ toModem = <<>> /\ doing = <<>>
  /\ pending = FALSE /\ inter = <<>> /\ final = NoLine
  /\ pc = "idle" /\ cmd = Handshake /\ n = 0 /\ tries = 0 /\ ret = "none"
  /\ late = FALSE /\ told = {} /\ urcs = MaxUrc /\ missed = FALSE

-----------------------------------------------------------------------------
(* at_open(), at_close() and the device.                                   *)

\* The reader of the session before has ended: the device was away.
Open ==
  /\ ~open /\ reader = "ended" /\ pc = "idle" /\ session < MaxSessions
  /\ session' = session + 1 /\ up' = TRUE /\ open' = TRUE /\ closed' = FALSE
  /\ reader' = "line" /\ line' = <<>> /\ toModem' = <<>> /\ doing' = <<>>
  /\ pending' = FALSE /\ late' = FALSE /\ ret' = "none"
  /\ UNCHANGED <<inter, final, pc, cmd, n, tries, told, urcs, missed>>

\* Variant: nobody is woken, the caller sees it when its time is over.
SignalledNot == pc' = pc /\ missed' = (missed \/ pc = "between")

\* pthread_cond_signal(): a caller between two slices of its wait does not hear it.
Signalled ==
  /\ pc' = IF pc = "wait" THEN "woken" ELSE pc
  /\ missed' = (missed \/ pc = "between")

Close ==
  /\ open /\ ~up
  /\ open' = FALSE /\ closed' = TRUE /\ Signalled
  /\ UNCHANGED <<session, readerVars, modemVars, respVars, cmd, n, tries, ret, late, told>>

Hangup ==
  /\ up /\ up' = FALSE
  /\ line' = <<>> /\ toModem' = <<>> /\ doing' = <<>>
  /\ UNCHANGED <<session, open, closed, reader, respVars, pc, cmd, n, tries, ret, late, told, urcs, missed>>

-----------------------------------------------------------------------------
(* The caller: at_send_command_full_nolock() and at_handshake().           *)

Write(c) ==
  /\ cmd' = c /\ n' = n + 1
  /\ toModem' = IF up THEN Append(toModem, [cmd |-> c, n |-> n + 1]) ELSE toModem
  /\ pending' = TRUE /\ inter' = <<>> /\ final' = NoLine
  /\ pc' = "wait" /\ ret' = "none" /\ told' = {} /\ missed' = FALSE

\* writeline() refuses when the channel is closed; a device that hung up is
\* written to until somebody notices.
Writable == open /\ ~closed

Send ==
  /\ pc = "idle" /\ session > 0 /\ n < MaxCommands
  /\ \/ Writable /\ \E c \in Command : Write(c)
     \/ ~Writable /\ ret' = "closed" /\ UNCHANGED <<cmd, n, toModem, respVars, pc, told, missed>>
  /\ UNCHANGED <<session, up, open, closed, readerVars, doing, urcs, tries, late>>

\* "some stacks start with verbose off"
StartHandshake ==
  /\ pc = "idle" /\ Writable /\ n + Tries <= MaxCommands
  /\ Write(Handshake) /\ tries' = 1
  /\ UNCHANGED <<session, up, open, closed, readerVars, doing, urcs, late>>

WaitUnchanged ==
  UNCHANGED <<session, open, closed, readerVars, modemVars, respVars, cmd, n, tries, ret, late,
              told, missed>>

\* pthread_cond_timeout_np() waits in slices. When one is over the mutex has to be had
\* again, and the next one begins without a look at the response. How many they are
\* is left open.
SliceEnds == pc = "wait" /\ pc' = "between" /\ WaitUnchanged
NextSlice == pc = "between" /\ pc' = "wait" /\ WaitUnchanged

\* The last slice is over, but the mutex has to be had again.
Expire == pc = "wait" /\ pc' = "expired" /\ WaitUnchanged
Wait == SliceEnds \/ NextSlice \/ Expire

\* Variant: a response that did not come in time stays.
TakenKept(next, result) ==
  /\ pending' = (result = "timeout") /\ pc' = next /\ ret' = result
  /\ UNCHANGED <<cmd, n, toModem, inter, final, told, missed>>

Taken(next, result) ==
  /\ pending' = FALSE /\ pc' = next /\ ret' = result
  /\ UNCHANGED <<cmd, n, toModem, inter, final, told, missed>>

\* Variant: the caller goes on as soon as the handshake is answered.
FinishAtOnce(result) ==
  IF tries > 0 /\ result \notin {"ok", "error"} /\ tries < Tries /\ Writable
  THEN Write(Handshake) /\ tries' = tries + 1 /\ late' = (late \/ result = "timeout")
  ELSE /\ Taken("idle", result)
       /\ tries' = 0
       /\ late' = (result = "timeout" \/ (late /\ ~(tries > 0 /\ result \in {"ok", "error"})))

\* What a command ends with; the handshake is repeated until it is answered,
\* and then the caller pauses "to let the input buffer drain".
Finish(result) ==
  LET answered == tries > 0 /\ result \in {"ok", "error"}
  IN IF tries > 0 /\ ~answered /\ tries < Tries /\ Writable
     THEN Write(Handshake) /\ tries' = tries + 1 /\ late' = (late \/ result = "timeout")
     ELSE /\ Taken(IF answered THEN "drain" ELSE "idle", result)
          /\ tries' = 0
          /\ late' = (result = "timeout" \/ (late /\ ~answered))

\* Variant: a command without a line of data is a success.
ResultLoose == IF closed THEN "closed" ELSE IF final.kind = "OK" THEN "ok" ELSE "error"

\* A success must have a line of data when one was asked for.
Result ==
  IF closed THEN "closed"
  ELSE IF final.kind # "OK" THEN "error"
  ELSE IF cmd.type \in {"SINGLELINE", "NUMERIC"} /\ inter = <<>> THEN "invalid" ELSE "ok"

\* After a time-out the response is not looked at, even when it is there.
Return ==
  /\ \/ pc = "expired" /\ Finish("timeout")
     \/ pc = "woken" /\ (final # NoLine \/ closed) /\ Finish(Result)
  /\ UNCHANGED <<session, up, open, closed, readerVars, doing, urcs>>

\* The second of the pause is enough for what the modem still had to answer.
Drained ==
  /\ pc = "drain" /\ (up => line = <<>> /\ toModem = <<>> /\ doing = <<>>)
  /\ pc' = "idle" /\ WaitUnchanged

-----------------------------------------------------------------------------
(* readerLoop() and processLine().                                         *)

\* The line goes to s_unsolHandler.
Tell(l) == told' = told \cup {l} /\ UNCHANGED <<respVars, pc, missed>>
Keep(l) == inter' = Append(inter, l) /\ UNCHANGED <<pending, final, pc, told, missed>>

\* Variant: lines with the prefix are kept whatever was kept before.
WantedAll(l) ==
  CASE cmd.type = "NO_RESULT"  -> FALSE
    [] cmd.type = "NUMERIC"    -> l.kind = "digits"
    [] OTHER                   -> l.kind = cmd.prefix

\* A line that is not a final one belongs to the response or to nobody.
Wanted(l) ==
  CASE cmd.type = "NO_RESULT"  -> FALSE
    [] cmd.type = "NUMERIC"    -> inter = <<>> /\ l.kind = "digits"
    [] cmd.type = "SINGLELINE" -> inter = <<>> /\ l.kind = cmd.prefix
    [] cmd.type = "MULTILINE"  -> l.kind = cmd.prefix

ProcessLine(l) ==
  IF ~pending THEN Tell(l)
  ELSE IF l.kind \in Final
  THEN final' = l /\ Signalled /\ UNCHANGED <<pending, inter, told>>
  ELSE IF Wanted(l) THEN Keep(l) ELSE Tell(l)

\* A message report takes the next line with it, whatever that is.
Read ==
  /\ reader # "ended" /\ line # <<>>
  /\ LET l == Head(line)
     IN IF reader = "second" THEN Tell(l) /\ reader' = "line"
        ELSE IF l.kind = "cmti" THEN reader' = "second" /\ UNCHANGED <<respVars, pc, told, missed>>
        ELSE ProcessLine(l) /\ UNCHANGED reader
  /\ line' = Tail(line)
  /\ UNCHANGED <<session, open, closed, modemVars, cmd, n, tries, ret, late>>

\* onReaderClosed()
Eof ==
  /\ reader # "ended" /\ ~up /\ line = <<>>
  /\ reader' = "ended" /\ closed' = TRUE
  /\ IF closed THEN UNCHANGED <<pc, missed>> ELSE Signalled
  /\ UNCHANGED <<session, open, line, modemVars, respVars, cmd, n, tries, ret, late, told>>

-----------------------------------------------------------------------------
(* The modem: one command at a time.                                       *)

TakeCommand ==
  /\ up /\ doing = <<>> /\ toModem # <<>>
  /\ doing' = <<Head(toModem)>> /\ toModem' = Tail(toModem)
  /\ UNCHANGED <<session, up, open, closed, readerVars, respVars, pc, cmd, n, tries, ret, late,
                 told, urcs, missed>>

\* The lines of data that a command is answered with.
Kinds(c) ==
  CASE c.type = "NO_RESULT" -> {} [] c.type = "NUMERIC" -> {"digits"} [] OTHER -> {c.prefix}

\* The whole response is written at once, without unsolicited lines inside.
Respond ==
  /\ up /\ doing # <<>>
  /\ LET s == doing[1]
         data(k) == [kind |-> k, by |-> s.n]
     IN \/ line' = Append(line, data("ERROR"))
        \/ /\ Kinds(s.cmd) = {} \/ s.cmd.type = "MULTILINE"
           /\ line' = Append(line, data("OK"))
        \/ \E k \in Kinds(s.cmd), m \in 1..(IF s.cmd.type = "MULTILINE" THEN MaxData ELSE 1) :
             line' = line \o [i \in 1..m |-> data(k)] \o <<data("OK")>>
  /\ doing' = <<>>
  /\ UNCHANGED <<session, up, open, closed, reader, toModem, respVars, pc, cmd, n, tries, ret, late,
                 told, urcs, missed>>

Urc ==
  /\ up /\ urcs > 0 /\ urcs' = urcs - 1
  /\ \E k \in {"+CEREG:"} \cup (IF Cmti THEN {"cmti"} ELSE {}) : line' = Append(line, [kind |-> k, by |-> 0])
  /\ UNCHANGED <<session, up, open, closed, reader, toModem, doing, respVars, pc, cmd, n, tries, ret, late,
                 told, missed>>

-----------------------------------------------------------------------------
Device == Open \/ Close \/ Hangup
Caller == Send \/ StartHandshake \/ Wait \/ Return \/ Drained
Reader == Read \/ Eof
Modem == TakeCommand \/ Respond \/ Urc
Done == n = MaxCommands /\ pc = "idle" /\ UNCHANGED vars

Next == Device \/ Caller \/ Reader \/ Modem \/ Done

Spec == Init /\ [][Next]_vars

-----------------------------------------------------------------------------
(* Properties.                                                             *)

\* The final line a command returns with is the one to it, and so is the
\* data unless it is an unsolicited line with the same prefix: while no
\* command timed out since the last handshake, also when the handshake had
\* to be repeated.
OwnAnswer ==
  pc = "idle" /\ cmd # Handshake /\ ret \in {"ok", "error", "invalid"} /\ ~late =>
    final.by = n /\ \A i \in 1..Len(inter) : inter[i].by \in {0, n}

\* When an unsolicited line took the place of the line of data, the line of
\* data went to s_unsolHandler, which so learns of the news all the same.
Displaced ==
  pc = "idle" /\ ret = "ok" /\ ~late /\ inter # <<>> /\ inter[1].by = 0 /\ cmd.type = "SINGLELINE" =>
    [kind |-> cmd.prefix, by |-> n] \in told

\* A success of a command for one line has the line.
HasData == ret = "ok" /\ cmd.type \in {"SINGLELINE", "NUMERIC"} => inter # <<>>

\* Whoever waits, waits for an answer the modem has still to give, or for a reader
\* that has still to find that the device is gone; but for a command whose wake-up
\* came between two slices of its wait: it waits for nothing, until its time is over.
Awaited ==
  pc \in {"wait", "between"} /\ ~late /\ ~missed =>
    /\ final = NoLine /\ ~closed
    /\ IF up THEN \/ \E i \in DOMAIN toModem : toModem[i].n = n
                  \/ \E i \in DOMAIN doing : doing[i].n = n
                  \/ \E i \in DOMAIN line : line[i].by = n /\ line[i].kind \in Final
       ELSE reader # "ended"

\* What the proof of the four needs, for a modem that makes no message reports.
Unasked == \A i \in DOMAIN line : line[i].by = 0 /\ line[i].kind \notin Final
Clear == toModem = <<>> /\ doing = <<>> /\ Unasked
Own == [kind |-> cmd.prefix, by |-> n]
Shown == Own \in told \/ (inter # <<>> /\ inter[1].by = n)

\* The final line at k of the command that waits, after its data.
Answer(k) ==
  /\ line[k].by = n /\ line[k].kind \in Final
  /\ \A i \in DOMAIN line : i # k =>
       line[i].kind \notin Final /\ line[i].by \in (IF i < k THEN {0, n} ELSE {0})
  /\ cmd.type = "SINGLELINE" /\ line[k].kind = "OK" => Shown \/ \E j \in DOMAIN line : j < k /\ line[j] = Own

Places ==
  /\ closed => ~up
  /\ reader = "ended" => closed
  /\ ~up => line = <<>> /\ toModem = <<>> /\ doing = <<>>
  /\ pending => ret = "none" /\ n > 0
  /\ pc \in {"wait", "between"} /\ ~missed => final = NoLine /\ ~closed
  /\ tries > 0 => pending /\ n + (Tries - tries) <= MaxCommands
  /\ tries > 0 \/ pc = "drain" => cmd = Handshake
  /\ ~Cmti => reader # "second" /\ \A i \in DOMAIN line : line[i].kind # "cmti"

\* Of the command that waits after a handshake or an answer in time: it is on its way,
\* or its answer is, or has come.
Asked ==
  pending /\ ~late =>
    /\ \A i \in DOMAIN inter : inter[i].by \in {0, n}
    /\ final # NoLine => /\ final.by = n /\ Clear
                         /\ cmd.type = "SINGLELINE" /\ final.kind = "OK" => Shown
    /\ up /\ final = NoLine =>
         \/ toModem = <<[cmd |-> cmd, n |-> n]>> /\ doing = <<>> /\ Unasked
         \/ toModem = <<>> /\ doing = <<[cmd |-> cmd, n |-> n]>> /\ Unasked
         \/ toModem = <<>> /\ doing = <<>> /\ \E k \in DOMAIN line : Answer(k)
Rested == pc = "idle" /\ ~late => Clear
ChannelInv ==
  TypeOK /\ Places /\ HasData /\ (~Cmti => Asked /\ Rested /\ OwnAnswer /\ Displaced)
=============================================================================
