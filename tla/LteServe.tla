------------------------------ MODULE LteServe ------------------------------
(***************************************************************************)
(* lte-serve: a shell script that keeps one quectel-CM running and resets  *)
(* the modem by its reset pin when there was none for a while; its init    *)
(* script, which a change of the configuration calls; and procd, which     *)
(* starts lte-serve again when it dies.                                    *)
(*                                                                         *)
(* quectel-CM is a process that may die at any moment and has the settings *)
(* it was started with. The script's other pin is never exported.          *)
(***************************************************************************)
EXTENDS Integers, Sequences

CONSTANTS
  Misses,      \* looks that find no quectel-CM before a reset: 5
  Longest,     \* how often "-p" fits into a command line
  MaxChanges,  \* bound on the changes of the configuration
  MaxFaults    \* bound on the deaths of lte-serve

VARIABLES
  enable,   \* lte_config.LTE.enable
  pinOnly,  \* a PIN is set and no APN
  uci,      \* the settings, by their number
  stale,    \* procd has to reload the service
  init,     \* the init script: idle, kill, term, start
  loop,     \* lte-serve: off, config, look, reset, launch, sleep, stop
  set, i,   \* the settings it has read, and its counter
  pins,     \* how often "-p" is in cmd
  cm,       \* the quectel-CMs that run, by their settings
  reset,    \* quectel-reset.sh: off, pin, wait
  faults,
  slipped,  \* a quectel-CM was started between the two halves of a stop
  orphan    \* lte-serve died while the pin was set

script == <<loop, set, i, pins>>
vars == <<enable, pinOnly, uci, stale, init, script, cm, reset, faults, slipped, orphan>>

TypeOK ==
  /\ enable \in {"unset", "0", "1"} /\ pinOnly \in BOOLEAN
  /\ uci \in 0..MaxChanges /\ stale \in BOOLEAN
  /\ init \in {"idle", "kill", "term", "start"}
  /\ loop \in {"off", "config", "look", "reset", "launch", "sleep", "stop"}
  /\ set \in 0..MaxChanges /\ i \in 0..Misses /\ pins \in 0..Longest + 1
  /\ cm \in Seq(0..MaxChanges) /\ reset \in {"off", "pin", "wait"}
  /\ faults \in 0..MaxFaults /\ slipped \in BOOLEAN /\ orphan \in BOOLEAN

\* The boot starts the service.
Init ==
  /\ enable \in {"unset", "0", "1"} /\ pinOnly \in BOOLEAN
  /\ uci = 0 /\ stale = FALSE /\ init = "start" /\ loop = "off" /\ set = 0 /\ i = 0 /\ pins = 0
  /\ cm = <<>> /\ reset = "off" /\ faults = MaxFaults /\ slipped = FALSE /\ orphan = FALSE

-----------------------------------------------------------------------------
(* lte-serve.                                                              *)

ScriptSame == UNCHANGED <<enable, pinOnly, uci, stale, init, faults, orphan>>

\* An enable that is not set makes the test fail, not succeed.
Config ==
  /\ loop = "config" /\ loop' = (IF enable = "0" THEN "stop" ELSE "look")
  /\ set' = uci /\ i' = 0 /\ pins' = 0
  /\ ScriptSame /\ UNCHANGED <<cm, reset, slipped>>

\* It stops its own service.
StopItself ==
  /\ loop = "stop" /\ loop' = "off" /\ cm' = <<>>
  /\ ScriptSame /\ UNCHANGED <<set, i, pins, reset, slipped>>

\* Variant: another name is looked for.
FoundOther == FALSE

\* pgrep -f quectel-CM
Found == cm # <<>>

\* cmd is only built anew when there is an APN; a PIN is added to what it is. The looks
\* before a reset take longer than quectel-reset.sh.
Look ==
  /\ loop = "look" /\ (~Found /\ i + 1 >= Misses => reset = "off")
  /\ pins' = IF pinOnly /\ pins <= Longest THEN pins + 1 ELSE pins
  /\ IF Found THEN loop' = "sleep" /\ i' = 0
     ELSE IF i + 1 >= Misses THEN loop' = "reset" /\ i' = 0 ELSE loop' = "launch" /\ i' = i + 1
  /\ ScriptSame /\ UNCHANGED <<set, cm, reset, slipped>>

\* Variant: the reset is left to run beside.
ResetBeside == loop = "reset" /\ reset = "off" /\ reset' = "pin" /\ loop' = "launch"

\* Variant: the card is waited for without a limit, and never comes.
ResetForCard == loop = "reset" /\ reset = "off" /\ reset' = "pin" /\ UNCHANGED loop

\* quectel-reset.sh is waited for.
Resets ==
  loop = "reset" /\ \/ reset = "off" /\ reset' = "pin" /\ UNCHANGED loop
                    \/ reset = "wait" /\ reset' = "off" /\ loop' = "launch"
ResetModem == Resets /\ ScriptSame /\ UNCHANGED <<set, i, pins, cm, slipped>>

\* The pin is released after a second, whether or not lte-serve is still there;
\* then the script waits for the card for a minute.
Release ==
  /\ reset = "pin" /\ reset' = "wait"
  /\ ScriptSame /\ UNCHANGED <<script, cm, slipped>>
Orphaned ==
  /\ reset = "wait" /\ loop # "reset" /\ reset' = "off"
  /\ ScriptSame /\ UNCHANGED <<script, cm, slipped>>

\* A command line that is too long is not executed.
Launch ==
  /\ loop = "launch" /\ loop' = "sleep"
  /\ cm' = IF pins <= Longest THEN Append(cm, set) ELSE cm
  /\ slipped' = (slipped \/ init = "term")
  /\ ScriptSame /\ UNCHANGED <<set, i, pins, reset>>
Sleep ==
  /\ loop = "sleep" /\ loop' = "look"
  /\ ScriptSame /\ UNCHANGED <<set, i, pins, cm, reset, slipped>>

-----------------------------------------------------------------------------
(* The init script and procd.                                              *)

\* A new lte-serve, or none: its quectel-reset.sh goes on by itself.
Gone(next) == loop' = next /\ orphan' = (orphan \/ reset = "pin")

\* procd_add_reload_trigger: the web page has committed a change.
Change ==
  /\ uci < MaxChanges /\ uci' = uci + 1 /\ stale' = TRUE
  /\ UNCHANGED <<enable, pinOnly, init, script, cm, reset, faults, slipped, orphan>>
Reload ==
  /\ init = "idle" /\ loop # "off" /\ stale /\ init' = "kill" /\ stale' = FALSE
  /\ UNCHANGED <<enable, pinOnly, uci, script, cm, reset, faults, slipped, orphan>>

\* Variant: only the service is stopped.
KilledNot == cm

\* kill -9 of what pgrep finds
Killed == <<>>
StopService ==
  /\ init = "kill" /\ init' = "term" /\ cm' = Killed
  /\ UNCHANGED <<enable, pinOnly, uci, stale, script, reset, faults, slipped, orphan>>
ProcdKill ==
  /\ init = "term" /\ init' = "start" /\ Gone("off")
  /\ UNCHANGED <<enable, pinOnly, uci, stale, set, i, pins, cm, reset, faults, slipped>>
StartService ==
  /\ init = "start" /\ init' = "idle" /\ loop' = "config"
  /\ UNCHANGED <<enable, pinOnly, uci, stale, set, i, pins, cm, reset, faults, slipped, orphan>>

\* lte-serve is killed, and procd starts it again.
Respawn ==
  /\ loop \notin {"off", "stop"} /\ init = "idle" /\ faults > 0 /\ faults' = faults - 1
  /\ Gone("config")
  /\ UNCHANGED <<enable, pinOnly, uci, stale, init, set, i, pins, cm, reset, slipped>>

\* A quectel-CM ends.
Dies ==
  /\ cm # <<>> /\ cm' = Tail(cm)
  /\ UNCHANGED <<enable, pinOnly, uci, stale, init, script, reset, faults, slipped, orphan>>

Script == Config \/ StopItself \/ Look \/ ResetModem \/ Launch \/ Sleep
Service == Reload \/ StopService \/ ProcdKill \/ StartService
ResetScript == Release \/ Orphaned
Next == Script \/ ResetScript \/ Service \/ Change \/ Respawn \/ Dies
Spec == Init /\ [][Next]_vars

\* The shells run, and the reset script ends.
FairSpec == Spec /\ WF_vars(Script) /\ WF_vars(ResetScript) /\ WF_vars(Service)

-----------------------------------------------------------------------------
(* Properties.                                                             *)

\* One quectel-CM at most, although reloads and deaths of lte-serve leave some
\* behind that it did not start itself.
OneProgram == Len(cm) <= 1

\* Once a reload is over, what runs has the new settings, unless lte-serve
\* started one between the two halves of the stop: the next one finds that.
CurrentSettings ==
  init = "idle" /\ ~stale /\ ~slipped => \A k \in DOMAIN cm : cm[k] = uci

\* The reset pin is not set on a quectel-CM that was just started, unless
\* lte-serve was stopped within the second of its reset.
Spared == reset = "pin" /\ ~orphan => cm = <<>>

\* What the proof of the three needs: a program is only started where none was
\* found; a stop leaves none behind; lte-serve has the settings there are unless
\* it is about to be stopped; and it waits while the pin is set.
Launched == loop \in {"launch", "reset"} => cm = <<>>
Stopped ==
  /\ init = "start" => loop = "off"
  /\ init \in {"term", "start"} /\ ~slipped => cm = <<>>
Fresh == init = "idle" /\ ~stale /\ loop \notin {"off", "config", "stop"} => set = uci
Waits == reset = "pin" /\ ~orphan => loop = "reset"
LteInv == TypeOK /\ OneProgram /\ CurrentSettings /\ Launched /\ Stopped /\ Fresh /\ Waits

\* A quectel-CM that died is started again, as long as the command line that a PIN
\* without APN makes longer with each look can be executed.
Down == loop \notin {"off", "config", "stop"} /\ cm = <<>>
Again == cm # <<>> \/ loop \in {"off", "config", "stop"} \/ pins > Longest
=============================================================================
