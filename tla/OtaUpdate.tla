------------------------------ MODULE OtaUpdate ------------------------------
(***************************************************************************)
(* luci-app-ota: the shell script bin/ota, of which one process runs for   *)
(* each call of the web page. A download goes on in the background and its *)
(* curl writes a .part file; check, cancel and upgrade run beside it and   *)
(* beside each other. They share files and one lock that is not waited for.*)
(*                                                                         *)
(* One step is one command of the script that touches a file or a process. *)
(* The second lock, of the status, is only ever taken by the download that *)
(* holds the first. A download and a command run once, in the order of     *)
(* their numbers.                                                          *)
(***************************************************************************)
EXTENDS Integers, FiniteSets

CONSTANTS
  Downloads,  \* calls of download are 1..Downloads
  Commands,   \* calls of check, cancel and upgrade
  MaxFaults   \* bound on downloads whose shell is killed

VARIABLES
  dl,        \* where the shell of a download is
  curl,      \* its curl: none, connects, writes, ok, failed, killed
  cmd,       \* of a command: its kind, where it is, downloads it is to end
  lock,      \* WRLOCK: 0, a download, or Downloads + a command
  pid,       \* download.pid: 0 for no file, or whose curl it names
  file,      \* firmware.img.tar.gz.part
  img,       \* firmware.img.tar.gz
  progress,  \* firmware.img.tar.gz.progress, by what the page is told of it
  installed, \* what was extracted over the system
  cancelled, \* downloads that a cancel was to end
  overlap,   \* a call was made while a check, cancel or upgrade ran, or in the
             \* moment before a download has named its curl
  crashed, faults

files == <<pid, file, img, progress>>
history == <<cancelled, overlap, crashed, faults>>
vars == <<dl, curl, cmd, lock, files, installed, history>>

Dl == 1..Downloads
Cmd == 1..Commands
None == [by |-> 0, whole |-> FALSE]
Image == [by : 0..Downloads, whole : BOOLEAN]

Kind == {"check", "cancel", "upgrade"}
Place == {"look", "unname", "part", "img", "progress", "lock", "version", "extract", "reboot", "end"}

TypeOK ==
  /\ dl \in [Dl -> {"idle", "locked", "made", "launched", "waits", "ok", "over", "moved",
                    "told", "unnamed", "unlock", "end"}]
  /\ curl \in [Dl -> {"none", "connects", "writes", "ok", "failed", "killed"}]
  /\ cmd \in [Cmd -> [kind : Kind \cup {"none"}, at : Place, of : SUBSET Dl]]
  /\ lock \in 0..Downloads + Commands /\ pid \in 0..Downloads
  /\ file \in Image /\ img \in Image /\ installed \in Image
  /\ progress \in {"none", "downloading", "failed", "cancelled"}
  /\ cancelled \subseteq Dl /\ overlap \in BOOLEAN /\ crashed \in BOOLEAN /\ faults \in 0..MaxFaults

Init ==
  /\ dl = [d \in Dl |-> "idle"] /\ curl = [d \in Dl |-> "none"]
  /\ cmd = [c \in Cmd |-> [kind |-> "none", at |-> "end", of |-> {}]]
  /\ lock = 0 /\ pid = 0 /\ file = None /\ img = None /\ progress = "none" /\ installed = None
  /\ cancelled = {} /\ overlap = FALSE /\ crashed = FALSE /\ faults = MaxFaults

Busy == \E c \in Cmd : cmd[c].at # "end"
Runs(d) == curl[d] \in {"connects", "writes"}

-----------------------------------------------------------------------------
(* lock_download() and download().                                         *)

At(d, from, to) == dl[d] = from /\ dl' = [dl EXCEPT ![d] = to]

\* Variant: the lock is taken without a look at who has it.
TakeAlways(d) == At(d, "idle", "locked") /\ lock' = d

\* flock -n: a download that does not get the lock ends without a word.
Take(d) == IF lock = 0 THEN At(d, "idle", "locked") /\ lock' = d
           ELSE At(d, "idle", "end") /\ UNCHANGED lock
Start(d) ==
  /\ \A e \in 1..d - 1 : dl[e] # "idle"
  /\ Take(d) /\ overlap' = (overlap \/ Busy)
  /\ UNCHANGED <<curl, cmd, files, installed, cancelled, crashed, faults>>

Make(d) ==
  /\ At(d, "locked", "made") /\ file' = IF file = None THEN [by |-> d, whole |-> FALSE] ELSE file
  /\ progress' = "downloading" /\ UNCHANGED <<curl, cmd, lock, pid, img, installed, history>>
Launch(d) ==
  /\ At(d, "made", "launched") /\ progress' = "downloading" /\ curl' = [curl EXCEPT ![d] = "connects"]
  /\ UNCHANGED <<cmd, lock, pid, file, img, installed, history>>
Name(d) ==
  /\ At(d, "launched", "waits") /\ pid' = d
  /\ UNCHANGED <<curl, cmd, lock, file, img, progress, installed, history>>

\* The end of a curl that has it all.
Ended(d) ==
  /\ curl[d] = "ok" /\ At(d, "waits", "ok") /\ pid' = 0
  /\ UNCHANGED <<curl, cmd, lock, file, img, progress, installed, history>>
Complete(d) ==
  /\ At(d, "ok", "over") /\ progress' = "downloading"
  /\ UNCHANGED <<curl, cmd, lock, pid, file, img, installed, history>>
\* What is there under the name is the image, if there is anything.
Move(d) ==
  /\ At(d, "over", "moved")
  /\ img' = (IF file = None THEN img ELSE file) /\ file' = None
  /\ UNCHANGED <<curl, cmd, lock, pid, progress, installed, history>>
\* Variant: the report of the progress stays.
HideNot(d) == At(d, "moved", "unlock") /\ UNCHANGED <<curl, cmd, lock, files, installed, history>>

Hide(d) ==
  /\ At(d, "moved", "unlock") /\ progress' = "none"
  /\ UNCHANGED <<curl, cmd, lock, pid, file, img, installed, history>>

\* The end of one that failed or was killed. Its report makes the file again
\* if a cancel has removed it.
Failed(d) ==
  /\ curl[d] \in {"failed", "killed"} /\ At(d, "waits", "told")
  /\ progress' = IF curl[d] = "killed" THEN "cancelled" ELSE "failed"
  /\ UNCHANGED <<curl, cmd, lock, pid, file, img, installed, history>>
Unname(d) ==
  /\ At(d, "told", "unnamed") /\ pid' = 0
  /\ UNCHANGED <<curl, cmd, lock, file, img, progress, installed, history>>
Discard(d) ==
  /\ At(d, "unnamed", "unlock") /\ file' = None
  /\ UNCHANGED <<curl, cmd, lock, pid, img, progress, installed, history>>
Unlock(d) ==
  /\ At(d, "unlock", "end") /\ lock' = 0
  /\ UNCHANGED <<curl, cmd, files, installed, history>>

Download(d) ==
  \/ Make(d) \/ Launch(d) \/ Name(d) \/ Ended(d) \/ Complete(d) \/ Move(d) \/ Hide(d)
  \/ Failed(d) \/ Unname(d) \/ Discard(d) \/ Unlock(d)

\* The shell is killed. Its curl goes on, and holds the lock that it inherited.
Left(d) == IF lock = d /\ ~Runs(d) THEN 0 ELSE lock
Crash(d) ==
  /\ faults > 0 /\ dl[d] \notin {"idle", "end"} /\ faults' = faults - 1 /\ crashed' = TRUE
  /\ dl' = [dl EXCEPT ![d] = "end"] /\ lock' = Left(d)
  /\ UNCHANGED <<curl, cmd, files, installed, cancelled, overlap>>

-----------------------------------------------------------------------------
(* curl. It makes its file with the first data; one that was removed since *)
(* it writes to in vain.                                                   *)

Over(d, how) ==
  /\ curl' = [curl EXCEPT ![d] = how]
  /\ lock' = IF lock = d /\ dl[d] = "end" THEN 0 ELSE lock
Open(d) ==
  /\ curl[d] = "connects" /\ curl' = [curl EXCEPT ![d] = "writes"]
  /\ file' = [by |-> d, whole |-> FALSE]
  /\ UNCHANGED <<dl, cmd, lock, pid, img, progress, installed, history>>
Finish(d) ==
  /\ curl[d] = "writes" /\ Over(d, "ok")
  /\ file' = IF file.by = d THEN [file EXCEPT !.whole = TRUE] ELSE file
  /\ UNCHANGED <<dl, cmd, pid, img, progress, installed, history>>
Break(d) ==
  /\ Runs(d) /\ Over(d, "failed") /\ UNCHANGED <<dl, cmd, files, installed, history>>
Curl(d) == Open(d) \/ Finish(d) \/ Break(d)

-----------------------------------------------------------------------------
(* do_check(), do_cancel() and do_upgrade().                               *)

Go(c, at) == cmd' = [cmd EXCEPT ![c].at = at]
Is(c, at) == cmd[c].at = at
Cancels(c) == cmd[c].kind = "cancel"

\* A download whose pid was written: from there on a cancel finds its curl, or
\* what its curl has made.
Starting == \E d \in Dl : dl[d] \in {"locked", "made", "launched"}
Named == {d \in Dl : dl[d] \notin {"idle", "locked", "made", "launched"}}
Begin(c, kind) ==
  /\ cmd[c].kind = "none" /\ \A e \in 1..c - 1 : cmd[e].kind # "none"
  /\ overlap' = (overlap \/ Busy \/ Starting)
  /\ cmd' = [cmd EXCEPT ![c] = [kind |-> kind, at |-> IF kind = "upgrade" THEN "extract" ELSE "look",
                                of |-> IF kind = "cancel" THEN Named ELSE {}]]
  /\ UNCHANGED <<dl, curl, lock, files, installed, cancelled, crashed, faults>>

\* The curl that is named is killed, and given a second to be gone.
Look(c) ==
  /\ Is(c, "look")
  /\ IF pid # 0 THEN Go(c, "unname") ELSE Go(c, IF Cancels(c) THEN "part" ELSE "lock")
  /\ IF pid # 0 /\ Runs(pid) THEN Over(pid, "killed") ELSE UNCHANGED <<curl, lock>>
  /\ UNCHANGED <<dl, files, installed, history>>
Forget(c) ==
  /\ Is(c, "unname") /\ Go(c, "part") /\ pid' = 0
  /\ UNCHANGED <<dl, curl, lock, file, img, progress, installed, history>>
RemovePart(c) ==
  /\ Is(c, "part") /\ Go(c, IF Cancels(c) THEN "img" ELSE "progress") /\ file' = None
  /\ UNCHANGED <<dl, curl, lock, pid, img, progress, installed, history>>
\* Variant: a cancel leaves what was moved in place already.
RemoveImageNot(c) == Is(c, "img") /\ Go(c, "progress") /\ UNCHANGED <<dl, curl, lock, files, installed, history>>

RemoveImage(c) ==
  /\ Is(c, "img") /\ Go(c, "progress") /\ img' = None
  /\ UNCHANGED <<dl, curl, lock, pid, file, progress, installed, history>>
RemoveProgress(c) ==
  /\ Is(c, "progress") /\ Go(c, IF Cancels(c) THEN "end" ELSE "lock") /\ progress' = "none"
  /\ cancelled' = cancelled \cup cmd[c].of
  /\ UNCHANGED <<dl, curl, lock, pid, file, img, installed, overlap, crashed, faults>>

\* The version is asked for with the lock, or the answer is that it is taken.
CheckLock(c) ==
  /\ Is(c, "lock")
  /\ IF lock = 0 THEN Go(c, "version") /\ lock' = Downloads + c ELSE Go(c, "end") /\ UNCHANGED lock
  /\ UNCHANGED <<dl, curl, files, installed, history>>
CheckVersion(c) ==
  /\ Is(c, "version") /\ Go(c, "end") /\ lock' = 0
  /\ UNCHANGED <<dl, curl, files, installed, history>>

\* do_upgrade(), without regard to the lock. An archive that tar refuses ends it.
Extract(c) ==
  /\ Is(c, "extract")
  /\ \/ Go(c, "end") /\ UNCHANGED installed
     \/ img # None /\ Go(c, "reboot") /\ installed' = img
  /\ UNCHANGED <<dl, curl, lock, files, history>>
\* All that is here is in memory.
Reboot(c) ==
  /\ Is(c, "reboot")
  /\ dl' = [d \in Dl |-> "end"] /\ curl' = [d \in Dl |-> IF curl[d] = "none" THEN "none" ELSE "killed"]
  /\ cmd' = [e \in Cmd |-> [cmd[e] EXCEPT !.at = "end"]]
  /\ lock' = 0 /\ pid' = 0 /\ file' = None /\ img' = None /\ progress' = "none"
  /\ UNCHANGED <<installed, history>>

Command(c) ==
  \/ Look(c) \/ Forget(c) \/ RemovePart(c) \/ RemoveImage(c) \/ RemoveProgress(c)
  \/ CheckLock(c) \/ CheckVersion(c) \/ Extract(c) \/ Reboot(c)

Scripts == (\E d \in Dl : Download(d)) \/ (\E c \in Cmd : Command(c))
Curls == \E d \in Dl : Curl(d)
Calls ==
  \/ \E d \in Dl : Start(d) \/ Crash(d)
  \/ \E c \in Cmd, kind \in Kind : Begin(c, kind)
Next == Scripts \/ Curls \/ Calls
Spec == Init /\ [][Next]_vars

\* The processes run, and a curl comes to an end.
FairSpec == Spec /\ WF_vars(Scripts) /\ WF_vars(Curls)

\* ota-progress-daemon: what the page is told.
Status ==
  IF img # None /\ progress = "none" THEN "complete"
  ELSE IF progress # "none" THEN progress ELSE "idle"

-----------------------------------------------------------------------------
(* Properties.                                                             *)

\* What is in place, and what an upgrade extracts, is all of one download,
\* whatever downloads, cancels and checks ran beside it, and whatever shell was
\* killed under its curl.
Whole == \A i \in {img, installed} : i = None \/ i.whole

\* After a cancel that nothing else was called during, there is no image of a
\* download whose curl was named when it began, even of one that was at its end.
StaysCancelled == ~overlap /\ img # None => img.by \notin cancelled

\* When no download holds the lock, the page is told of an end, not to wait.
TellsEnd == lock = 0 /\ ~crashed => Status # "downloading"

\* What the three rest on. A download that goes on, and a curl that runs, have
\* the lock, as has a check that asks for the version.
HasLock(d) == dl[d] \notin {"idle", "end"} \/ Runs(d)
Holding ==
  /\ \A d \in Dl : HasLock(d) => lock = d
  /\ \A c \in Cmd : cmd[c].at = "version" => lock = Downloads + c
  /\ \A d \in Dl : dl[d] \in {"idle", "locked", "made"} => curl[d] = "none"
  /\ \A d \in Dl : dl[d] \in {"launched", "waits"} => curl[d] # "none"
  /\ \A d \in Dl : dl[d] \in {"ok", "over", "moved"} => curl[d] = "ok"
  /\ \A d \in Dl : dl[d] \in {"told", "unnamed", "unlock"} => ~Runs(d)

\* What a curl writes to is gone or its own, and whole when it has ended well.
AllThere ==
  /\ \A d \in Dl : curl[d] = "writes" => file = None \/ file.by = d
  /\ \A d \in Dl : curl[d] = "ok" /\ dl[d] \in {"launched", "waits", "ok", "over"} =>
                    file = None \/ (file.by = d /\ file.whole)

\* The page is told to wait while there is a download.
Waited ==
  ~crashed /\ progress = "downloading" =>
    \E d \in Dl : dl[d] \in {"made", "launched", "waits", "ok", "over", "moved"}

\* A download that moves nothing in place any more.
Dead(d) ==
  \/ dl[d] \in {"moved", "told", "unnamed", "unlock", "end"}
  \/ dl[d] = "waits" /\ curl[d] \in {"failed", "killed"}
  \/ dl[d] \in {"waits", "ok", "over"} /\ curl[d] = "ok" /\ file = None
WaitsFor(d) == dl[d] = "waits" /\ Runs(d)
NotOf(d) == img = None \/ img.by # d
Cancelling ==
  /\ \A c \in Cmd : cmd[c].of \subseteq Named /\ (~Cancels(c) => cmd[c].of = {})
  /\ ~overlap =>
       /\ Busy => ~Starting
       /\ \A d \in Dl : WaitsFor(d) => pid = d
       /\ \A c \in Cmd : cmd[c].at \in {"unname", "part"} => \A d \in Dl : ~WaitsFor(d)
       /\ \A c \in Cmd : cmd[c].at \in {"img", "progress"} => \A d \in cmd[c].of : Dead(d)
       /\ \A c \in Cmd : cmd[c].at = "progress" => \A d \in cmd[c].of : NotOf(d)
       /\ \A d \in cancelled : Dead(d) /\ NotOf(d)

OtaInv == TypeOK /\ Holding /\ AllThere /\ Whole /\ Waited /\ Cancelling

\* The lock is given back, that of a download whose shell was killed too.
Locked == lock # 0
Ends == Locked ~> ~Locked
=============================================================================
