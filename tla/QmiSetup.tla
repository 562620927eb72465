------------------------------- MODULE QmiSetup ------------------------------
(***************************************************************************)
(* The start of a session with a QMI modem, until the loop of main.c waits *)
(* for events: what the driver of the network card says of QMAP, a client  *)
(* id for each service, the data format, the SIM and the profile; then the *)
(* ids given back at a stop, and all of it again after a reset of the      *)
(* modem (the same process, with what its variables hold) or a relaunch.   *)
(*                                                                         *)
(* A request is one step with its answer. It is refused, its answer is     *)
(* lost after the modem did it, or its service has no client id and it is  *)
(* never sent. A profile is the PDN it is for and whose settings it has.   *)
(***************************************************************************)
EXTENDS Integers, Sequences, FiniteSets

CONSTANTS
  MaxStarts,    \* bound on the starts
  MaxProfiles,  \* what the modem's table holds
  MaxFaults     \* bound on the requests that fail

Name == {"wds", "wds6", "dms", "nas", "uim", "wda"}  \* of qmiclientId
Pdn == {"own", "other"}
Plain == [dev |-> "wwan", card |-> "plain", many |-> FALSE, low |-> FALSE, v6 |-> FALSE,
          pin |-> "none", apn |-> FALSE, raw |-> TRUE]

VARIABLES
  opt,       \* options, drivers and the formats of the modem, see Init
  pc, todo,  \* the request to send, and the client ids to get
  clients,   \* the names with a client id
  mode,      \* qmap_mode # 0
  mux,       \* profile->muxid, -1 for a value read outside the array
  version,   \* profile->qmap_version
  rawIP, new9x07,  \* profile->rawIP, s_9x07
  sim,       \* SIMStatus
  index,     \* profile->profile_index
  unread,    \* the profiles listed and not read, by the first of them
  old,       \* the settings read: user, theirs, or none ("")
  ids,       \* the ids the modem, the proxy or the driver has given out
  format,    \* the modem's: raw or not, the version of QMAP
  bound,     \* families bound to a mux id
  uim, left, \* the card's state, and the tries its PIN has left
  profiles,  \* the modem's table
  starts, faults,
  failed,    \* a request of this start failed
  everFailed \* or of an earlier one

netVars   == <<mode, mux, version, rawIP, new9x07>>
simVars   == <<sim, index, unread, old>>
modemVars == <<ids, format, bound, uim, left, profiles>>
runVars   == <<starts, faults, failed, everFailed>>
vars == <<opt, pc, todo, clients, netVars, simVars, modemVars, runVars>>

Step == {"detect", "sync", "version", "ids", "format", "wds", "wds6", "sim", "pinstatus", "pin",
         "list", "settings", "create", "set", "running", "release", "exited", "crashed"}
Profile == [pdn : Pdn, by : {"user", "theirs"}]
Option == [dev : {"wwan", "proxy", "gobi"}, card : {"plain", "sysfs", "info5", "info9", "qmimux"},
           many : BOOLEAN, low : BOOLEAN, v6 : BOOLEAN, pin : {"none", "right", "wrong"},
           apn : BOOLEAN, raw : BOOLEAN]

TypeOK ==
  /\ opt \in Option /\ pc \in Step
  /\ todo \in Seq(Name) /\ unread \in 1..MaxProfiles + 1 /\ clients \subseteq Name
  /\ mode \in BOOLEAN /\ mux \in -1..255 /\ version \in {0, 1, 5, 9}
  /\ rawIP \in BOOLEAN /\ new9x07 \in BOOLEAN
  /\ sim \in {"absent", "ready", "pin", "puk"} /\ old \in {"", "user", "theirs"}
  /\ profiles \in Seq(Profile) /\ Len(profiles) <= MaxProfiles /\ index \in DOMAIN profiles
  /\ ids \subseteq Name /\ format \in [raw : BOOLEAN, version : {0, 5, 9}]
  /\ bound \subseteq {"wds", "wds6"} \X (-1..255)
  /\ uim \in {"later", "absent", "ready", "pin", "puk"} /\ left \in 0..3
  /\ starts \in 1..MaxStarts /\ faults \in 0..MaxFaults
  /\ failed \in BOOLEAN /\ everFailed \in BOOLEAN

\* The data path, and the card with its profiles, varied in turn.
DataPath ==
  /\ \E d \in {"wwan", "proxy", "gobi"}, c \in {"plain", "sysfs", "info5", "info9", "qmimux"},
        m \in BOOLEAN, l \in BOOLEAN, v \in BOOLEAN, r \in BOOLEAN :
       opt = [Plain EXCEPT !.dev = d, !.card = c, !.many = m, !.low = l, !.v6 = v, !.raw = r]
  /\ opt.card = "plain" => ~opt.many /\ opt.dev # "proxy"
  /\ opt.low \/ opt.v6 => opt.card = "qmimux"
  /\ opt.dev = "gobi" => opt.card \in {"plain", "sysfs"}
  /\ ~opt.raw => opt.card = "plain"
  /\ uim = "ready" /\ profiles = <<[pdn |-> "own", by |-> "user"]>>
SimCard ==
  /\ \E p \in {"none", "right", "wrong"}, a \in BOOLEAN : opt = [Plain EXCEPT !.pin = p, !.apn = a]
  /\ uim \in {"later", "absent", "ready", "pin"}
  /\ profiles \in UNION {[1..n -> [pdn : Pdn, by : {"theirs"}]] : n \in 1..MaxProfiles}
Init ==
  /\ DataPath \/ SimCard
  /\ pc = "detect" /\ todo = <<>> /\ clients = {} /\ mode = FALSE /\ mux = 0 /\ version = 0
  /\ rawIP = FALSE /\ new9x07 = TRUE /\ sim = "absent" /\ index = 1 /\ unread = 1 /\ old = ""
  /\ ids = {} /\ format = [raw |-> FALSE, version |-> 0] /\ bound = {} /\ left = 3
  /\ starts = 1 /\ faults = MaxFaults /\ failed = FALSE /\ everFailed = FALSE

-----------------------------------------------------------------------------
(* The outcome of a request: done and answered, refused, done but the      *)
(* answer lost, or never sent for want of a client id.                     *)

Outcomes(n) ==
  IF n \notin clients \cup {"ctl"} THEN {"unsent"}
  ELSE {"ok"} \cup (IF faults > 0 THEN {"refused", "lost"} ELSE {})
Done(o) == o \in {"ok", "lost"}
Counted(o) ==
  /\ faults' = IF o \in {"refused", "lost"} THEN faults - 1 ELSE faults
  /\ failed' = (failed \/ o # "ok") /\ everFailed' = (everFailed \/ o # "ok")
  /\ UNCHANGED starts

-----------------------------------------------------------------------------
(* The driver of the card, and the client ids.                             *)

DriverVersion == IF opt.card = "info9" THEN 9 ELSE 5
\* The mux id of the card this PDN uses: 16#11 in the numbering of the comment.
Netcard == IF opt.low THEN 17 ELSE 129

\* Variant: one past the card's, when an id is there.
MuxOfNext == IF mux # 0 THEN Netcard + 1 ELSE Netcard

\* ql_qmi_qmap_mode_detect(): a mux id that is there already is taken for one
\* of those from 16#81, which a qmimux card looks up in its list.
MuxOf ==
  IF opt.card = "qmimux" /\ opt.many /\ mux # 0 /\ mux # 129 THEN -1 ELSE Netcard
Detect ==
  /\ pc = "detect" /\ failed' = FALSE
  /\ mode' = (opt.card # "plain")
  /\ mux' = IF opt.card = "plain" THEN mux ELSE MuxOf
  /\ version' = IF opt.card \in {"info5", "info9"} THEN DriverVersion
                ELSE IF opt.card # "plain" /\ version = 0 THEN 5 ELSE version
  /\ sim' = "absent"
  /\ IF opt.dev = "wwan" THEN pc' = "sync" ELSE pc' = IF opt.dev = "gobi" THEN "ids" ELSE "version"
  /\ todo' = <<"wds">> \o (IF opt.v6 THEN <<"wds6">> ELSE <<>>) \o <<"dms", "nas", "uim">>
               \o (IF opt.dev = "gobi" /\ opt.card # "plain" THEN <<>> ELSE <<"wda">>)
  \* GobiNet sets the format itself, and the first manager of a proxy has set it.
  /\ format' = IF opt.dev = "gobi" /\ opt.card # "plain" THEN [raw |-> TRUE, version |-> 5] ELSE format
  /\ UNCHANGED <<opt, clients, rawIP, new9x07, index, unread, old, ids, bound, uim, left, profiles,
                 starts, faults, everFailed>>

\* QmiWwanInit(): the modem forgets the ids of whoever used it before. Without
\* an answer the start is given up.
Sync ==
  /\ pc = "sync"
  /\ \E o \in Outcomes("ctl") :
       /\ Counted(o) /\ ids' = IF Done(o) THEN {} ELSE ids
       /\ pc' = IF o = "ok" THEN "version" ELSE "exited"
  /\ UNCHANGED <<opt, todo, clients, netVars, simVars, format, bound, uim, left, profiles>>

Version ==
  /\ pc = "version" /\ pc' = "ids"
  /\ \E o \in Outcomes("ctl") :
       Counted(o) /\ (IF o = "ok" /\ mode THEN version' \in {0, 1} ELSE UNCHANGED version)
  /\ UNCHANGED <<opt, todo, clients, mode, mux, rawIP, new9x07, simVars, modemVars>>

\* QmiWwanGetClientID() and GobiNetGetClientID(): 0 is an answer like another,
\* but GobiNet does not run without WDS.
GetClientID ==
  /\ pc = "ids" /\ todo # <<>> /\ todo' = Tail(todo)
  /\ \E o \in Outcomes("ctl") :
       /\ Counted(o)
       /\ IF opt.dev = "gobi" /\ o # "ok" /\ Head(todo) = "wds"
          THEN pc' = "exited" /\ clients' = {} /\ ids' = {}
          ELSE /\ pc' = IF Len(todo) = 1 THEN "format" ELSE pc
               /\ clients' = IF o = "ok" THEN clients \cup {Head(todo)} ELSE clients \ {Head(todo)}
               /\ ids' = IF o = "ok" \/ (o = "lost" /\ opt.dev # "gobi") THEN ids \cup {Head(todo)} ELSE ids
  /\ UNCHANGED <<opt, netVars, simVars, format, bound, uim, left, profiles>>

-----------------------------------------------------------------------------
(* requestSetEthMode().                                                    *)

\* Variant: the version of the profile.
AskedProfile == IF version = 9 THEN 9 ELSE 5

\* The version for the modem: a driver that tells its own has the last word.
AskedVersion ==
  IF opt.card \in {"info5", "info9"} THEN DriverVersion ELSE IF version = 9 THEN 9 ELSE 5

\* With QMAP the protocol is raw IP, even when there is no WDA to ask: then
\* another one has set the format. Without, what the modem answers.
SetDataFormat ==
  /\ pc = "format"
  /\ version' = IF mode /\ version # 9 THEN 5 ELSE version
  /\ IF mode /\ "wda" \notin clients
     THEN pc' = "wds" /\ rawIP' = TRUE /\ new9x07' = TRUE /\ UNCHANGED <<format, runVars>>
     ELSE \E o \in Outcomes("wda") :
            LET raw == mode \/ opt.raw IN
            /\ Counted(o)
            /\ format' = IF Done(o) THEN [raw |-> raw, version |-> IF mode THEN AskedVersion ELSE 0] ELSE format
            /\ rawIP' = IF o = "ok" THEN raw ELSE rawIP \/ mode
            /\ new9x07' = IF o = "ok" THEN raw ELSE new9x07 \/ mode
            /\ pc' = IF o = "ok" THEN "wds" ELSE "sim"
  /\ UNCHANGED <<opt, todo, clients, mode, mux, simVars, ids, bound, uim, left, profiles>>

\* The connection of a family is bound to the mux id of the card; without an
\* answer the function ends there. The family itself, and that the modem does
\* not connect of its own accord, are asked for after it.
Bind(n) ==
  LET next == IF n = "wds" /\ opt.v6 THEN "wds6" ELSE "sim" IN
  /\ pc = n
  /\ IF mode
     THEN \E o \in Outcomes(n) :
            /\ Counted(o) /\ bound' = IF Done(o) THEN bound \cup {<<n, mux>>} ELSE bound
            /\ pc' = IF o = "ok" THEN next ELSE "sim"
     ELSE pc' = next /\ UNCHANGED <<bound, runVars>>
  /\ UNCHANGED <<opt, todo, clients, netVars, simVars, ids, format, uim, left, profiles>>

-----------------------------------------------------------------------------
(* The SIM.                                                                *)

CardService == IF new9x07 THEN "uim" ELSE "dms"

\* Variant: an absent card is waited for too.
UnsupportedTillReady == uim \in {"later", "absent"}

\* requestGetSIMStatus(), and the loop of main.c around it. DMS tells a lock
\* only; which one it is takes requestGetPINStatus().
Unsupported == uim = "later"
GetSIMStatus ==
  /\ pc = "sim"
  /\ \E o \in Outcomes(CardService) :
       /\ Counted(o)
       /\ IF o # "ok" THEN pc' = "list" /\ UNCHANGED sim
          ELSE IF Unsupported THEN UNCHANGED <<pc, sim>>
          ELSE IF ~new9x07 /\ uim \in {"pin", "puk"} THEN pc' = "pinstatus" /\ UNCHANGED sim
          ELSE sim' = uim /\ pc' = "pin"
  /\ UNCHANGED <<opt, todo, clients, netVars, index, unread, old, modemVars>>
GetPINStatus ==
  /\ pc = "pinstatus" /\ pc' = "pin"
  /\ \E o \in Outcomes("dms") : Counted(o) /\ sim' = IF o = "ok" THEN uim ELSE sim
  /\ UNCHANGED <<opt, todo, clients, netVars, index, unread, old, modemVars>>

\* Variant: a PIN that was refused is tried again.
EnteredAgain == pc' = IF opt.pin = "wrong" THEN "sim" ELSE "list"

\* requestEnterSimPin(): whatever comes of it, the start goes on.
Entered == pc' = "list"
EnterSimPin ==
  /\ pc = "pin"
  /\ IF sim = "pin" /\ opt.pin # "none"
     THEN \E o \in Outcomes(CardService) :
            /\ Counted(o) /\ Entered
            /\ IF ~Done(o) \/ uim # "pin" THEN UNCHANGED <<uim, left>>
               ELSE IF opt.pin = "right" THEN uim' = "ready" /\ left' = 3
               ELSE left' = left - 1 /\ uim' = IF left = 1 THEN "puk" ELSE "pin"
     ELSE pc' = "list" /\ UNCHANGED <<uim, left, runVars>>
  /\ UNCHANGED <<opt, todo, clients, netVars, simVars, ids, format, bound, profiles>>

-----------------------------------------------------------------------------
(* The profile: requestGetProfile() and requestSetProfile().               *)

\* The list of the modem's profiles. Its length is read before it is known that
\* there is an answer.
GetProfileList ==
  /\ pc = "list" /\ old' = ""
  /\ \E o \in Outcomes("wds") :
       /\ Counted(o)
       /\ pc' = CASE o = "ok" -> "settings" [] o = "refused" -> "set" [] OTHER -> "crashed"
  /\ unread' = 1
  /\ UNCHANGED <<opt, todo, clients, netVars, sim, index, modemVars>>

\* Variant: the first profile will do.
FitsAny(i) == TRUE

\* Each profile in turn, until one is for the PDN; after the last one it is
\* created, and the list read again to find it.
Fits(i) == profiles[i].pdn = "own"
GetProfileSettings ==
  /\ pc = "settings" /\ index' = unread /\ unread' = unread + 1
  /\ \E o \in Outcomes("wds") :
       /\ Counted(o)
       /\ IF o # "ok" THEN pc' = "set" /\ UNCHANGED old
          ELSE IF Fits(index') THEN pc' = "set" /\ old' = profiles[index'].by
          ELSE pc' = (IF unread = Len(profiles) THEN "create" ELSE pc) /\ UNCHANGED old
  /\ UNCHANGED <<opt, todo, clients, netVars, sim, modemVars>>
\* Variant: the profile created is not looked for.
ListedNot == pc' = "set"

Listed == pc' = "list"
CreateProfile ==
  /\ pc = "create"
  /\ \E o \in Outcomes("wds") :
       LET room == Len(profiles) < MaxProfiles IN
       /\ Counted(IF room \/ o # "ok" THEN o ELSE "full")
       /\ profiles' = IF Done(o) /\ room THEN Append(profiles, [pdn |-> "own", by |-> "theirs"]) ELSE profiles
       /\ IF o = "ok" /\ room THEN Listed ELSE pc' = "set"
  /\ UNCHANGED <<opt, todo, clients, netVars, simVars, ids, format, bound, uim, left>>

\* The profile at the index, whichever that is, gets the settings of the user
\* unless it was read and has them.
SetProfile ==
  /\ pc = "set" /\ pc' = "running"
  /\ IF opt.apn /\ old # "user"
     THEN \E o \in Outcomes("wds") :
            Counted(o) /\ profiles' = IF Done(o) THEN [profiles EXCEPT ![index].by = "user"] ELSE profiles
     ELSE UNCHANGED <<profiles, runVars>>
  /\ UNCHANGED <<opt, todo, clients, netVars, simVars, ids, format, bound, uim, left>>

-----------------------------------------------------------------------------
(* The end of a session, and another.                                      *)

\* Variant: by its own type.
UnderItself(n) == n

\* QmiWwanDeInit(): the second id for WDS is given back as one of WDS.
Under(n) == IF n = "wds6" THEN "wds" ELSE n
Stop ==
  /\ pc = "running" /\ pc' = (IF clients = {} THEN "exited" ELSE "release")
  /\ UNCHANGED <<opt, todo, clients, netVars, simVars, modemVars, runVars>>
Release ==
  /\ pc = "release"
  /\ \E o \in Outcomes("ctl") :
       LET n == CHOOSE n \in clients : TRUE IN  \* in some order
       /\ Counted(o) /\ clients' = clients \ {n} /\ pc' = IF clients' = {} THEN "exited" ELSE pc
       /\ ids' = IF (Done(o) /\ Under(n) # "wds6") \/ opt.dev = "gobi" THEN ids \ {n} ELSE ids
  /\ UNCHANGED <<opt, todo, netVars, simVars, format, bound, uim, left, profiles>>

\* The modem restarts: it has forgotten all but its profiles, and the SIM wants
\* its PIN again. The process starts another session with what it has.
Reset ==
  /\ pc = "running" /\ starts < MaxStarts /\ starts' = starts + 1 /\ pc' = "detect"
  /\ ids' = {} /\ bound' = {} /\ format' = [raw |-> FALSE, version |-> 0]
  /\ clients' = IF opt.dev = "gobi" THEN {} ELSE clients
  /\ uim' = IF opt.pin # "none" /\ uim = "ready" THEN "pin" ELSE uim
  /\ UNCHANGED <<opt, todo, netVars, simVars, left, profiles, faults, failed, everFailed>>

\* The service starts another process; what the last one held of a proxy or
\* driver went with it.
Relaunch ==
  /\ pc \in {"exited", "crashed"} /\ starts < MaxStarts /\ starts' = starts + 1 /\ pc' = "detect"
  /\ todo' = <<>> /\ clients' = {} /\ mode' = FALSE /\ mux' = 0 /\ version' = 0
  /\ rawIP' = FALSE /\ new9x07' = TRUE /\ sim' = "absent" /\ index' = 1 /\ unread' = 1 /\ old' = ""
  /\ ids' = IF opt.dev = "wwan" THEN ids ELSE {}
  /\ UNCHANGED <<opt, format, bound, uim, left, profiles, faults, failed, everFailed>>

\* The card becomes usable, or turns out not to be there.
CardSettles ==
  /\ uim = "later" /\ uim' \in {"ready", "absent"}
  /\ UNCHANGED <<opt, pc, todo, clients, netVars, simVars, ids, format, bound, left, profiles, runVars>>

StartUp ==
  \/ Detect \/ Sync \/ Version \/ GetClientID \/ SetDataFormat \/ Bind("wds") \/ Bind("wds6")
  \/ GetSIMStatus \/ GetPINStatus \/ EnterSimPin
  \/ GetProfileList \/ GetProfileSettings \/ CreateProfile \/ SetProfile
Next == StartUp \/ Stop \/ Release \/ Reset \/ Relaunch \/ CardSettles
Spec == Init /\ [][Next]_vars

\* Every request of the start-up ends, by its answer or its time-out, and a card
\* does not initialise for ever.
FairSpec == Spec /\ WF_vars(StartUp) /\ WF_vars(CardSettles)

-----------------------------------------------------------------------------
(* Properties.                                                             *)

\* Once the start-up is done without a failure, the modem frames data the way
\* the interface was told, and in the version of QMAP its driver has, although
\* the answer to GET_VERSION overwrites the version that was detected.
AgreedFormat ==
  pc = "running" /\ ~failed =>
    format.raw = rawIP /\ (mode => format.version = DriverVersion)

\* ... every family is bound to the mux id of the card, over resets too; except
\* for a driver whose ids do not start from 16#81, when a reset was before.
BoundToCard ==
  pc = "running" /\ ~failed /\ mode /\ (opt.low /\ opt.many => starts = 1) =>
    {<<n, Netcard>> : n \in clients \cap {"wds", "wds6"}} \subseteq bound

\* As long as no request fails, and there is room for one more, the profiles of
\* other PDNs keep their settings, and that of this one gets the user's.
ProfileSet ==
  /\ ~everFailed => \A i \in DOMAIN profiles : profiles[i].pdn = "other" => profiles[i].by = "theirs"
  /\ pc = "running" /\ ~failed /\ opt.apn => profiles[index] = [pdn |-> "own", by |-> "user"]

\* A wrong PIN costs one of the tries of the card for each start, not more.
PinSpared == 3 - left <= starts

\* While nothing fails, the ids that were given out are those in use, and none
\* is left after a stop.
IdsInUse == pc \in {"running", "exited"} /\ ~everFailed => ids = clients

\* What they rest on. The ids of a start are those it has to get, and when none
\* was refused it has them all; what is decided once at a start stays.
Services ==
  {"wds", "dms", "nas", "uim"} \cup (IF opt.v6 THEN {"wds6"} ELSE {})
    \cup (IF opt.dev = "gobi" /\ opt.card # "plain" THEN {} ELSE {"wda"})
Still == {todo[i] : i \in DOMAIN todo}  \* to get
Starting == {"detect", "sync", "version", "ids"}
Formatted == {"wds", "wds6", "sim", "pinstatus", "pin", "list", "settings", "create", "set", "running", "release"}
FewIds ==
  /\ failed => everFailed
  /\ pc \in {"sync", "version", "ids"} => todo # <<>> /\ Still \subseteq Services
  /\ pc \in {"sync", "version"} => Still = Services
  /\ clients \subseteq Services
  /\ pc = "ids" /\ ~failed => Services \subseteq clients \cup Still
  /\ pc = "format" /\ ~failed => Services \subseteq clients
  /\ ~everFailed =>
       /\ ids \subseteq clients
       /\ pc = "ids" => Services \subseteq ids \cup Still
       /\ pc \notin Starting \cup {"exited", "release", "crashed"} => Services \subseteq ids
       /\ pc = "release" => ids = clients
       /\ pc = "exited" => ids = {} /\ clients = {}
       /\ pc # "crashed"
Framed ==
  /\ opt.dev = "gobi" => opt.card \in {"plain", "sysfs"}
  /\ pc # "detect" => (mode <=> opt.card # "plain")
  /\ version = 9 => opt.card = "info9"
  /\ pc \in {"sync", "version"} => opt.dev # "gobi"
  /\ opt.dev = "gobi" /\ mode /\ pc \in {"ids", "format"} => format = [raw |-> TRUE, version |-> 5]
  /\ pc \in Formatted /\ ~failed => format.raw = rawIP /\ (mode => format.version = DriverVersion)
Numbered == opt.low /\ opt.many => starts = 1
Muxed ==
  /\ starts = 1 /\ pc = "detect" => mux = 0
  /\ opt.card # "plain" /\ Numbered => mux \in (IF pc = "detect" THEN {0, Netcard} ELSE {Netcard})
  /\ ~failed /\ mode /\ Numbered =>
       /\ pc \in Formatted \ {"wds"} => <<"wds", Netcard>> \in bound
       /\ pc \in Formatted \ {"wds", "wds6"} /\ opt.v6 => <<"wds6", Netcard>> \in bound
Tried ==
  /\ pc \in Starting \cup {"format", "wds", "wds6", "sim", "pinstatus", "pin"} => 3 - left < starts
  /\ PinSpared
  /\ uim \in {"later", "ready", "pin"} => left > 0
  /\ pc = "pinstatus" => uim \in {"pin", "puk"}
Found ==
  /\ pc = "settings" => unread <= Len(profiles)
  /\ pc = "set" /\ ~failed => profiles[index].pdn = "own" /\ old = profiles[index].by
  /\ ProfileSet
SetupInv == TypeOK /\ FewIds /\ Framed /\ Muxed /\ Tried /\ Found

\* A start comes to an end.
Started == pc \in {"running", "exited", "crashed"}
Starts == pc = "detect"
StartsUp == Starts ~> Started
=============================================================================
