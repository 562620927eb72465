----------------------- MODULE ConnectionManagerProofs -----------------------
(***************************************************************************)
(* Proofs about ConnectionManager, for every value of its constants.       *)
(***************************************************************************)
EXTENDS ConnectionManager, SequenceTheorems, TLAPS

-----------------------------------------------------------------------------
(* Type correctness.                                                       *)

\* Every entry of allow_time[] is a positive number of ticks.
LEMMA AllowTimeType ==
  /\ Len(AllowTime) \in Nat \ {0}
  /\ \A n \in 1..Len(AllowTime) : AllowTime[n] \in Nat \ {0}
BY TimeAssumption

\* The process starts in a typed state.
LEMMA InitTypeOK == Init => TypeOK
<1> SUFFICES ASSUME Init PROVE TypeOK
  OBVIOUS
<1> USE DEF Init
<1>1. pc \in Point /\ fam \in Family
  BY DEF Point, Outside, Family
<1>2. /\ status \in [Family -> Status]
      /\ handle \in [Family -> BOOLEAN]
      /\ addr \in [Family -> Addr \cup {0}]
      /\ iface \in [Family -> Addr \cup {0}]
      /\ mCall \in [Family -> Addr \cup {0}]
  BY DEF Status
<1>3. auth \in 0..3 /\ oldAuth \in 0..3 /\ fails \in 0..Len(AllowTime) /\ faults \in 0..MaxFaults
  BY AuthAssumption, AllowTimeType, BoundAssumption
<1>4. idle \in 0..PollTime /\ hold \in Nat /\ alarm \in Nat
  BY TimeAssumption
<1>5. sig \in Seq(Signo) /\ toDev \in Seq({"STOP", "QUIT"}) /\ events \in Seq(Event)
  OBVIOUS
<1>6. QED
  BY <1>1, <1>2, <1>3, <1>4, <1>5 DEF TypeOK

\* What the link and the addresses are after usbnet_link_change().
LEMMA LinkChangeType ==
  ASSUME TypeOK, NEW new \in SUBSET Family, LinkChange(new)
  PROVE  /\ link' \in SUBSET (Family \cup {"unset"})
         /\ addr' \in [Family -> Addr \cup {0}]
         /\ iface' \in [Family -> Addr \cup {0}]
BY DEF TypeOK, LinkChange

\* A fault leaves the bound on faults in its range.
LEMMA FaultType ==
  ASSUME TypeOK, Fault
  PROVE faults' \in 0..MaxFaults
BY BoundAssumption DEF TypeOK, Fault

\* Indications keep the event socket a sequence of events.
LEMMA IndicateType ==
  ASSUME TypeOK, NEW es \in Seq(Event), Indicate(es)
  PROVE events' \in Seq(Event)
BY DEF TypeOK, Indicate

\* A signal number sent keeps the signal socket a sequence of numbers.
LEMMA SendType ==
  ASSUME TypeOK, NEW s \in Signo, SendSigno(s)
  PROVE  sig' \in Seq(Signo)
BY DEF TypeOK, SendSigno

\* The steps of a session's beginning and end keep every variable in its type.
LEMMA SessionType ==
  ASSUME TypeOK, Session
  PROVE  TypeOK'
<1> USE DEF mainVars, pipeVars, timeVars, modemVars
<1>1. CASE OpenSession
  <2>1. status' \in [Family -> Status]
    BY <1>1 DEF OpenSession, Status
  <2>2. fails' \in 0..Len(AllowTime)
    BY <1>1, AllowTimeType DEF OpenSession
  <2>3. sig' \in Seq(Signo) /\ toDev' \in Seq({"STOP", "QUIT"}) /\ events' \in Seq(Event)
    BY <1>1 DEF OpenSession
  <2>4. QED
    BY <1>1, <2>1, <2>2, <2>3 DEF TypeOK, OpenSession, Point
<1>2. CASE NoDevice
  BY <1>2, FaultType DEF TypeOK, NoDevice, Point, Outside
<1>3. CASE Startup
  <2>1. faults' \in 0..MaxFaults
    BY <1>3, FaultType DEF TypeOK, Startup, AskRegistration, Answered, Failed, Aborted, Reaches
  <2>2. attached' \in BOOLEAN /\ unanswered' \in BOOLEAN
    BY <1>3 DEF TypeOK, Startup, AskRegistration
  <2>3. QED
    BY <1>3, <2>1, <2>2 DEF TypeOK, Startup, Point, InLoop, SendSigno, Signo
<1>4. CASE StartupFails
  BY <1>4, FaultType DEF TypeOK, StartupFails, Point, Outside, Failed, Aborted, Reaches
<1>5. CASE Quit
  <2>1. LinkChange({}) /\ {} \in SUBSET Family
    BY <1>5 DEF Quit
  <2>2. /\ link' \in SUBSET (Family \cup {"unset"})
        /\ addr' \in [Family -> Addr \cup {0}]
        /\ iface' \in [Family -> Addr \cup {0}]
    BY <2>1, LinkChangeType
  <2>3. sig' \in Seq(Signo) /\ toDev' \in Seq({"STOP", "QUIT"}) /\ events' \in Seq(Event)
    BY <1>5 DEF Quit
  <2>4. QED
    BY <1>5, <2>2, <2>3 DEF TypeOK, Quit, Point, Outside
<1>6. CASE Return
  BY <1>6 DEF TypeOK, Return, Point, Outside
<1>7. CASE ClientIds
  <2>1. faults' \in 0..MaxFaults
    BY <1>7, FaultType DEF TypeOK, ClientIds, Answered, Failed, Aborted, Reaches
  <2>2. noId' \in SUBSET (Enabled \cup {"nas"})
    BY <1>7 DEF ClientIds
  <2>3. QED
    BY <1>7, <2>1, <2>2 DEF TypeOK, ClientIds, Point
<1>8. QED
  BY <1>1, <1>2, <1>3, <1>4, <1>5, <1>6, <1>7 DEF Session

\* The sockets are read from their heads, and only when something is there:
\* poll() said so, and nobody else reads them.
Queued ==
  /\ pc = "signal" => sig # <<>>
  /\ pc \in {"signal", "event"} \cup InStart \cup InCheck /\ evReady => events # <<>>

\* The steps of the loop outside the three handlers keep every variable in its
\* type.
LEMMA LoopType ==
  ASSUME TypeOK, Queued, Loop
  PROVE  TypeOK'
<1> USE DEF mainVars, pipeVars, timeVars, modemVars
<1>1. CASE Poll
  BY <1>1, TimeAssumption DEF TypeOK, Poll, Point, InLoop
<1>2. CASE PollTimeout
  BY <1>2, TimeAssumption DEF TypeOK, PollTimeout, SendSigno, Signo
<1>3. ASSUME NEW s \in Signo, TakeSignal(s)
      PROVE sig' \in Seq(Signo)
  BY <1>3 DEF TypeOK, Queued, TakeSignal
<1>4. CASE TakeStart
  BY <1>3, <1>4 DEF TypeOK, TakeStart, TakeSignal, Signo, Point, InLoop, InStart
<1>5. CASE TakeCheck
  BY <1>3, <1>5 DEF TypeOK, TakeCheck, TakeSignal, Signo, Point, InLoop, InCheck
<1>6. CASE TakeStop
  BY <1>3, <1>6 DEF TypeOK, TakeStop, TakeSignal, Signo, Point, InLoop, InStop
<1>7. CASE NoEvent
  BY <1>7 DEF TypeOK, NoEvent, Point, InLoop
<1>8. ASSUME NEW e \in Event, TakeEvent(e)
      PROVE events' \in Seq(Event)
  BY <1>8 DEF TypeOK, Queued, TakeEvent
<1>9. CASE TakeDisconnected
  <2>1. LinkChange({}) /\ {} \in SUBSET Family
    BY <1>9 DEF TakeDisconnected
  <2>2. /\ link' \in SUBSET (Family \cup {"unset"})
        /\ addr' \in [Family -> Addr \cup {0}]
        /\ iface' \in [Family -> Addr \cup {0}]
    BY <2>1, LinkChangeType
  <2>3. QED
    BY <1>8, <1>9, <2>2 DEF TypeOK, TakeDisconnected, TakeEvent, Event, Point
<1>10. CASE TakeVoice
  BY <1>8, <1>10 DEF TypeOK, TakeVoice, TakeEvent, Event, Point, InLoop
<1>11. CASE TakeData
  <2>1. events' \in Seq(Event)
    BY <1>8, <1>11 DEF TakeData, Event
  <2>2. sig' \in Seq(Signo)
    BY <1>11, SendType DEF TakeData, Signo
  <2>3. hold' \in Nat
    BY <1>11, TimeAssumption DEF TypeOK, TakeData
  <2>4. QED
    BY <1>11, <2>1, <2>2, <2>3 DEF TypeOK, TakeData, TakeEvent, Point, InLoop
<1>12. CASE TakeReset
  <2>1. events' \in Seq(Event)
    BY <1>8, <1>12 DEF TakeReset, Event
  <2>2. toDev' \in Seq({"STOP", "QUIT"})
    BY <1>12 DEF TypeOK, TakeReset
  <2>3. QED
    BY <1>12, <2>1, <2>2 DEF TypeOK, TakeReset, TakeEvent, Point
<1>13. CASE VoiceRegistration
  <2>1. faults' \in 0..MaxFaults
    BY <1>13, FaultType DEF TypeOK, VoiceRegistration, AskRegistration, Answered, Failed, Aborted, Reaches
  <2>2. attached' \in BOOLEAN /\ unanswered' \in BOOLEAN
    BY <1>13 DEF TypeOK, VoiceRegistration, AskRegistration
  <2>3. sig' \in Seq(Signo)
    BY <1>13, SendType DEF TypeOK, VoiceRegistration, Signo
  <2>4. hold' \in Nat
    BY <1>13 DEF TypeOK, VoiceRegistration
  <2>5. QED
    BY <1>13, <2>1, <2>2, <2>3, <2>4 DEF TypeOK, VoiceRegistration, Point, InLoop
<1>14. QED
  BY <1>1, <1>2, <1>4, <1>5, <1>6, <1>7, <1>9, <1>10, <1>11, <1>12, <1>13 DEF Loop

\* Going on to the next family leads to one of the two program points named.
LEMMA NextFamilyType ==
  ASSUME TypeOK, NEW again \in Point, NEW finish \in Point, NextFamily(again, finish)
  PROVE  pc' \in Point /\ fam' \in Family
BY DEF TypeOK, NextFamily, Family

\* An address asked of the modem is one the network assigns, or none.
LEMMA GetIPType ==
  ASSUME TypeOK, GetIPOk \/ GetIPErr
  PROVE  addr' \in [Family -> Addr \cup {0}] /\ faults' \in 0..MaxFaults
<1>1. faults' \in 0..MaxFaults
  BY FaultType DEF TypeOK, GetIPOk, GetIPErr, Answered, Failed, Aborted, Reaches
<1>2. addr' \in [Family -> Addr \cup {0}]
  BY DEF TypeOK, GetIPOk, GetIPErr
<1>3. QED
  BY <1>1, <1>2

\* A call that comes up has an address of the network.
LEMMA BringUpType ==
  ASSUME TypeOK, BringUp
  PROVE  mCall' \in [Family -> Addr \cup {0}] /\ events' \in Seq(Event)
<1>1. events' \in Seq(Event)
  <2>1. Indicate(<<"DATA">>) /\ <<"DATA">> \in Seq(Event)
    BY DEF BringUp, Event
  <2>2. QED
    BY <2>1, IndicateType
<1>2. mCall' \in [Family -> Addr \cup {0}]
  BY DEF TypeOK, BringUp
<1>3. QED
  BY <1>1, <1>2

\* The steps of SIG_EVENT_START keep every variable in its type.
LEMMA StartType ==
  ASSUME TypeOK, Start
  PROVE  TypeOK'
<1>a. "dial" \in Point /\ "redial" \in Point /\ "dialed" \in Point /\ "getip" \in Point /\ "event" \in Point
  BY DEF Point, InLoop, InStart
<1>b. ASSUME NEW positive \in BOOLEAN, AfterDialError(positive),
             mCall' \in [Family -> Addr \cup {0}], events' \in Seq(Event),
             faults' \in 0..MaxFaults
      PROVE TypeOK'
  <2>1. pc' \in Point /\ fam' \in Family
    BY <1>a, <1>b, NextFamilyType DEF AfterDialError, TypeOK
  <2>2. auth' \in 0..3 /\ oldAuth' \in 0..3
    BY <1>b DEF AfterDialError, TypeOK
  <2>3. QED
    BY <1>b, <2>1, <2>2 DEF TypeOK, AfterDialError, DialUnchanged
<1>1. CASE DialSkip
  <2>1. pc' \in Point /\ fam' \in Family
    BY <1>a, <1>1, NextFamilyType DEF DialSkip
  <2>2. QED
    BY <1>1, <2>1 DEF TypeOK, DialSkip, DialUnchanged
<1>2. CASE DialOk
  <2>1. mCall' \in [Family -> Addr \cup {0}] /\ events' \in Seq(Event)
    BY <1>2, BringUpType DEF DialOk
  <2>2. QED
    BY <1>a, <1>2, <2>1 DEF TypeOK, DialOk, Answered, DialUnchanged
<1>3. CASE DialRejected
  <2>1. faults' \in 0..MaxFaults
    BY <1>3, FaultType DEF DialRejected, TypeOK
  <2>2. QED
    BY <1>3, <1>b, <2>1 DEF DialRejected, TypeOK
<1>4. CASE DialTimeout
  BY <1>4, <1>b, FaultType, BringUpType DEF DialTimeout
<1>5. CASE DialAborted
  BY <1>5, <1>b DEF DialAborted, Aborted, TypeOK
<1>6. CASE GetIP
  <2>1. pc' \in Point /\ fam' \in Family
    BY <1>a, <1>6, NextFamilyType DEF GetIP
  <2>2. addr' \in [Family -> Addr \cup {0}] /\ faults' \in 0..MaxFaults
    BY <1>6, GetIPType DEF GetIP
  <2>3. QED
    BY <1>6, <2>1, <2>2 DEF TypeOK, GetIP, DialUnchanged, Status
<1>7. CASE Dialed
  <2>1. fails' \in 0..Len(AllowTime) /\ alarm' \in Nat /\ hold' \in Nat
    BY <1>7, AllowTimeType DEF TypeOK, Dialed
  <2>2. QED
    BY <1>a, <1>7, <2>1 DEF TypeOK, Dialed, DialUnchanged
<1>8. QED
  BY <1>1, <1>2, <1>3, <1>4, <1>5, <1>6, <1>7 DEF Start

\* Hanging up keeps the handle, the call and the event socket in their types.
LEMMA DeactivateType ==
  ASSUME TypeOK, Deactivate
  PROVE  /\ handle' \in [Family -> BOOLEAN]
         /\ mCall' \in [Family -> Addr \cup {0}]
         /\ events' \in Seq(Event)
         /\ faults' \in 0..MaxFaults
<1>1. handle' \in [Family -> BOOLEAN] /\ mCall' \in [Family -> Addr \cup {0}]
  BY DEF TypeOK, Deactivate
<1>2. events' \in Seq(Event)
  <2>1. Indicate(<<"DATA">>) \/ UNCHANGED events
    BY DEF Deactivate
  <2>2. <<"DATA">> \in Seq(Event)
    BY DEF Event
  <2>3. QED
    BY <2>1, <2>2, IndicateType DEF TypeOK
<1>3. faults' \in 0..MaxFaults
  BY FaultType DEF TypeOK, Deactivate, Answered, Failed, Aborted, Reaches
<1>4. QED
  BY <1>1, <1>2, <1>3

\* The steps of SIG_EVENT_CHECK keep every variable in its type.
LEMMA CheckType ==
  ASSUME TypeOK, Check
  PROVE  TypeOK'
<1> USE DEF timeVars
<1>a. \A p \in InCheck \cup {"event"} : p \in Point
  BY DEF Point, InLoop
<1>b. ASSUME NextFamily("query", "settle")
      PROVE  pc' \in Point /\ fam' \in Family
  BY <1>a, <1>b, NextFamilyType DEF InCheck
<1>1. CASE Registration
  <2>1. faults' \in 0..MaxFaults
    BY <1>1, FaultType DEF TypeOK, Registration, AskRegistration, Answered, Failed, Aborted, Reaches
  <2>2. attached' \in BOOLEAN /\ unanswered' \in BOOLEAN
    BY <1>1 DEF TypeOK, Registration, AskRegistration
  <2>3. QED
    BY <1>a, <1>1, <2>1, <2>2 DEF TypeOK, Registration, CheckUnchanged, InCheck
<1>2. CASE QuerySkip
  BY <1>b, <1>2 DEF TypeOK, QuerySkip, CheckUnchanged, Status
<1>3. ASSUME NEW s \in Status \ {"UNKNOW"}, QueryOk(s)
      PROVE  TypeOK'
  <2>1. faults' \in 0..MaxFaults
    BY <1>3, FaultType DEF TypeOK, QueryOk, Status
  <2>2. pc' \in Point /\ fam' \in Family
    BY <1>a, <1>b, <1>3 DEF TypeOK, QueryOk, InCheck
  <2>3. status' \in [Family -> Status] /\ handle' \in [Family -> BOOLEAN]
    BY <1>3 DEF TypeOK, QueryOk
  <2>4. QED
    BY <1>3, <2>1, <2>2, <2>3 DEF TypeOK, QueryOk, CheckUnchanged
<1>4. CASE QueryErr
  <2>1. faults' \in 0..MaxFaults
    BY <1>4, FaultType DEF TypeOK, QueryErr, Failed, Aborted, Reaches
  <2>2. pc' \in Point /\ fam' \in Family
    BY <1>b, <1>4 DEF QueryErr
  <2>3. QED
    BY <1>4, <2>1, <2>2 DEF TypeOK, QueryErr, CheckUnchanged, Status
<1>5. CASE LocalAddress
  <2>1. addr' \in [Family -> Addr \cup {0}] /\ faults' \in 0..MaxFaults
    BY <1>5, GetIPType DEF TypeOK, LocalAddress
  <2>2. pc' \in Point /\ fam' \in Family
    BY <1>a, <1>b, <1>5 DEF TypeOK, LocalAddress, InCheck
  <2>3. status' \in [Family -> Status]
    BY <1>5 DEF TypeOK, LocalAddress, Status
  <2>4. QED
    BY <1>5, <2>1, <2>2, <2>3 DEF TypeOK, LocalAddress, CheckUnchanged
<1>6. CASE CompareAddress
  <2>1. addr' \in [Family -> Addr \cup {0}] /\ faults' \in 0..MaxFaults
    BY <1>6, GetIPType DEF CompareAddress
  <2>2. pc' \in Point /\ fam' \in Family
    BY <1>a, <1>b, <1>6 DEF TypeOK, CompareAddress, InCheck
  <2>3. QED
    BY <1>6, <2>1, <2>2 DEF TypeOK, CompareAddress, CheckUnchanged
<1>7. CASE DropCall
  <2>1. pc' \in Point /\ fam' \in Family
    BY <1>b, <1>7 DEF DropCall
  <2>2. status' \in [Family -> Status]
    BY <1>7 DEF TypeOK, DropCall, Status
  <2>3. QED
    BY <1>7, <2>1, <2>2, DeactivateType DEF TypeOK, DropCall, CheckUnchanged
<1>8. CASE Settle
  <2>1. \E up \in SUBSET Family : LinkChange(up) \/ UNCHANGED <<link, addr, iface>>
    BY <1>8 DEF Settle
  <2>2. /\ link' \in SUBSET (Family \cup {"unset"})
        /\ addr' \in [Family -> Addr \cup {0}]
        /\ iface' \in [Family -> Addr \cup {0}]
    BY <2>1, LinkChangeType DEF TypeOK
  <2>3. sig' \in Seq(Signo)
    BY <1>8, SendType DEF TypeOK, Settle, Signo
  <2>4. unclear' \in BOOLEAN
    <3>1. NoteUnclear
      BY <1>8 DEF Settle
    <3>2. QED
      BY <3>1, Zenon DEF NoteUnclear, TypeOK
  <2>5. QED
    BY <1>a, <1>8, <2>2, <2>3, <2>4 DEF TypeOK, Settle, CheckUnchanged
<1>9. QED
  BY <1>1, <1>2, <1>3, <1>4, <1>5, <1>6, <1>7, <1>8 DEF Check

\* The steps of SIG_EVENT_STOP keep every variable in its type.
LEMMA StopType ==
  ASSUME TypeOK, Stop
  PROVE  TypeOK'
<1> USE DEF timeVars, modemVars
<1>a. "hangup" \in Point /\ "stopped" \in Point /\ "quit" \in Point
  BY DEF Point, InLoop, InStop
<1>1. CASE HangUp
  <2>1. pc' \in Point /\ fam' \in Family
    BY <1>a, <1>1, NextFamilyType DEF HangUp
  <2>2. /\ handle' \in [Family -> BOOLEAN]
        /\ mCall' \in [Family -> Addr \cup {0}]
        /\ events' \in Seq(Event)
        /\ faults' \in 0..MaxFaults
    BY <1>1, DeactivateType DEF HangUp, TypeOK
  <2>3. QED
    BY <1>1, <2>1, <2>2 DEF TypeOK, HangUp
<1>2. CASE Stopped
  <2>1. LinkChange({}) /\ {} \in SUBSET Family
    BY <1>2 DEF Stopped
  <2>2. /\ link' \in SUBSET (Family \cup {"unset"})
        /\ addr' \in [Family -> Addr \cup {0}]
        /\ iface' \in [Family -> Addr \cup {0}]
    BY <2>1, LinkChangeType
  <2>3. toDev' \in Seq({"STOP", "QUIT"})
    BY <1>2 DEF TypeOK, Stopped
  <2>4. QED
    BY <1>a, <1>2, <2>2, <2>3 DEF TypeOK, Stopped
<1>3. QED
  BY <1>1, <1>2 DEF Stop

\* The QMI thread, the clock and the environment keep every variable in its
\* type.
LEMMA OthersType ==
  ASSUME TypeOK, QmiThread \/ Tick \/ Environment
  PROVE  TypeOK'
<1> USE DEF mainVars, timeVars, modemVars, EnvUnchanged
<1>a. /\ <<"DISCONNECTED">> \in Seq(Event) /\ <<"VOICE">> \in Seq(Event)
      /\ <<"VOICE", "DATA">> \in Seq(Event) /\ <<"DATA">> \in Seq(Event)
      /\ <<"RESET">> \in Seq(Event)
  BY DEF Event
<1>1. CASE QmiThreadControl
  <2>1. toDev' \in Seq({"STOP", "QUIT"})
    BY <1>1 DEF TypeOK, QmiThreadControl
  <2>2. events' = events \/ events' = Append(events, "DISCONNECTED")
    BY <1>1 DEF QmiThreadControl
  <2>3. "DISCONNECTED" \in Event /\ events \in Seq(Event)
    BY DEF TypeOK, Event
  <2>4. events' \in Seq(Event)
    BY <2>2, <2>3, AppendProperties
  <2>5. QED
    BY <1>1, <2>1, <2>4 DEF TypeOK, QmiThreadControl
<1>2. CASE Tick
  BY <1>2, TimeAssumption DEF TypeOK, Tick, Down, Signo
<1>3. CASE QmiThreadHangup
  <2>1. events' \in Seq(Event)
    BY <1>3 DEF TypeOK, QmiThreadHangup, Event
  <2>2. QED
    BY <1>3, <2>1, FaultType DEF TypeOK, QmiThreadHangup
<1>4. CASE SigStop
  <2>1. /\ sig' = sig \/ sig' = Append(sig, "STOP")
        /\ toDev' = toDev \/ toDev' = Append(toDev, "STOP")
    BY <1>4 DEF SigStop
  <2>2. Append(sig, "STOP") \in Seq(Signo) /\ Append(toDev, "STOP") \in Seq({"STOP", "QUIT"})
    BY AppendProperties DEF TypeOK, Signo
  <2>3. sig' \in Seq(Signo) /\ toDev' \in Seq({"STOP", "QUIT"})
    BY <2>1, <2>2 DEF TypeOK
  <2>4. QED
    BY <1>4, <2>3 DEF TypeOK, SigStop
<1>5. CASE Attach
  BY <1>a, <1>5, IndicateType DEF TypeOK, Attach
<1>6. CASE Detach
  <2>1. events' \in Seq(Event)
    BY <1>a, <1>6, IndicateType DEF Detach
  <2>2. QED
    BY <1>6, <2>1, FaultType DEF TypeOK, Detach
<1>7. CASE ModemReset
  <2>1. events' \in Seq(Event)
    BY <1>a, <1>7, IndicateType DEF ModemReset
  <2>2. QED
    BY <1>7, <2>1, FaultType DEF TypeOK, ModemReset
<1>8. ASSUME NEW f \in Family, CallLost(f)
      PROVE TypeOK'
  <2>1. events' \in Seq(Event)
    BY <1>a, <1>8, IndicateType DEF CallLost
  <2>2. QED
    BY <1>8, <2>1, FaultType DEF TypeOK, CallLost
<1>9. ASSUME NEW f \in Family, NEW a \in Addr, AddressChange(f, a)
      PROVE TypeOK'
  BY <1>9, FaultType DEF TypeOK, AddressChange
<1>10. CASE LateAnswer
  <2>1. events' \in Seq(Event)
    BY <1>a, <1>10, IndicateType DEF LateAnswer
  <2>2. QED
    BY <1>10, <2>1, FaultType DEF TypeOK, LateAnswer
<1>11. QED
  BY <1>1, <1>2, <1>3, <1>4, <1>5, <1>6, <1>7, <1>8, <1>9, <1>10 DEF QmiThread, Environment

-----------------------------------------------------------------------------
(* The sockets: while poll() runs they exist, and no one but the main      *)
(* thread reads them.                                                      *)

Piped == pc \in InLoop \cup {"startup", "setup"} => pipes

\* Appending to a sequence keeps what is at its head.
LEMMA Grows ==
  ASSUME NEW S, NEW q \in Seq(S), NEW r \in Seq(S), NEW e, q # <<>>
  PROVE  q \o r # <<>> /\ Append(q, e) # <<>>
OBVIOUS

\* No step takes an event away but TakeEvent, which also ends the round.
LEMMA EventsKept ==
  ASSUME TypeOK, Start \/ Check, events # <<>>
  PROVE  events' # <<>>
<1>1. \/ UNCHANGED events
      \/ Indicate(<<"DATA">>)
  BY DEF Start, DialSkip, DialOk, DialRejected, DialTimeout, DialAborted, GetIP, Dialed,
         BringUp, Check, Registration, QuerySkip, QueryOk, QueryErr, LocalAddress,
         CompareAddress, DropCall, Deactivate, Settle
<1>2. <<"DATA">> \in Seq(Event)
  BY DEF Event
<1>3. QED
  BY <1>1, <1>2, Grows DEF TypeOK, Indicate

\* SIG_EVENT_START takes nothing from the sockets.
LEMMA StartKeepsRound ==
  ASSUME Start
  PROVE  /\ pc \in InStart /\ pc' \in InStart \cup {"event"}
         /\ UNCHANGED <<evReady, pipes, sig>>
BY DEF Start, DialSkip, DialOk, DialRejected, DialTimeout, DialAborted, GetIP, Dialed,
       Dialing, AfterDialError, NextFamily, DialUnchanged, InStart

\* SIG_EVENT_CHECK takes nothing from the sockets.
LEMMA CheckKeepsRound ==
  ASSUME Check
  PROVE  /\ pc \in InCheck /\ pc' \in InCheck \cup {"event"}
         /\ UNCHANGED <<evReady, pipes>>
BY DEF Check, Registration, QuerySkip, QueryOk, Querying, QueryErr, LocalAddress, CompareAddress,
       DropCall, Settle, NextFamily, CheckUnchanged, InCheck

\* What poll() saw in a socket is still there when it is read.
LEMMA QueuedStep ==
  ASSUME TypeOK, Queued, [Next]_vars
  PROVE  Queued'
<1> USE DEF Queued
<1>1. CASE Session
  BY <1>1 DEF Session, OpenSession, NoDevice, ClientIds, Startup, StartupFails, Quit, Return, InStart, InCheck
<1>2. CASE Loop
  <2>1. CASE Poll
    BY <2>1 DEF Poll, pipeVars
  <2>2. ASSUME NEW s \in Signo, TakeSignal(s), pc' # "signal"
        PROVE Queued'
    BY <2>2 DEF TakeSignal
  <2>3. CASE TakeStart \/ TakeCheck \/ TakeStop
    BY <2>2, <2>3 DEF TakeStart, TakeCheck, TakeStop, Signo
  <2>4. CASE PollTimeout \/ NoEvent \/ VoiceRegistration
    BY <2>4 DEF PollTimeout, NoEvent, VoiceRegistration, mainVars, InStart, InCheck
  <2>5. CASE TakeDisconnected \/ TakeVoice \/ TakeData \/ TakeReset
    BY <2>5 DEF TakeDisconnected, TakeVoice, TakeData, TakeReset, TakeEvent
  <2>6. QED
    BY <1>2, <2>1, <2>3, <2>4, <2>5 DEF Loop
<1>3. CASE Start
  <2>1. pc' # "signal"
    BY <1>3, StartKeepsRound DEF InStart
  <2>2. QED
    BY <1>3, <2>1, StartKeepsRound, EventsKept
<1>4. CASE Check
  <2>1. pc' # "signal"
    BY <1>4, CheckKeepsRound DEF InCheck
  <2>2. QED
    BY <1>4, <2>1, CheckKeepsRound, EventsKept
<1>5. CASE Stop
  BY <1>5 DEF Stop, HangUp, Stopped, NextFamily, InStart, InCheck
<1>6. CASE QmiThread \/ Tick \/ Environment
  <2>1. UNCHANGED <<pc, evReady>>
    BY <1>6 DEF QmiThread, QmiThreadControl, Tick, Environment, QmiThreadHangup, SigStop,
                Attach, Detach, ModemReset, LateAnswer, CallLost, AddressChange, EnvUnchanged, mainVars
  <2>2. sig # <<>> => sig' # <<>>
    BY <1>6, Grows DEF QmiThread, QmiThreadControl, Tick, Environment, QmiThreadHangup, SigStop,
                Attach, Detach, ModemReset, LateAnswer, CallLost, AddressChange, EnvUnchanged, TypeOK
  <2>3. events # <<>> => events' # <<>>
    <3>1. \/ UNCHANGED events
          \/ events' = Append(events, "DISCONNECTED")
          \/ Indicate(<<"VOICE">>) \/ Indicate(<<"DATA">>)
          \/ Indicate(<<"VOICE", "DATA">>) \/ Indicate(<<"RESET">>)
      BY <1>6 DEF QmiThread, QmiThreadControl, Tick, Environment, QmiThreadHangup, SigStop,
                  Attach, Detach, ModemReset, LateAnswer, CallLost, AddressChange, EnvUnchanged
    <3>2. /\ <<"VOICE">> \in Seq(Event) /\ <<"DATA">> \in Seq(Event)
          /\ <<"VOICE", "DATA">> \in Seq(Event) /\ <<"RESET">> \in Seq(Event)
      BY DEF Event
    <3>3. QED
      BY <3>1, <3>2, Grows DEF Indicate, TypeOK
  <2>4. QED
    BY <2>1, <2>2, <2>3
<1>7. CASE UNCHANGED vars
  BY <1>7 DEF vars, mainVars, pipeVars
<1>8. QED
  BY <1>1, <1>2, <1>3, <1>4, <1>5, <1>6, <1>7 DEF Next, MainThread, Exited

\* The socket pairs exist for as long as the loop runs.
LEMMA PipedStep ==
  ASSUME Piped, [Next]_vars
  PROVE  Piped'
<1> USE DEF Piped
<1>1. CASE Session
  BY <1>1 DEF Session, OpenSession, NoDevice, ClientIds, Startup, StartupFails, Quit, Return, InLoop,
              InStart, InCheck, InStop, pipeVars
<1>2. CASE Loop
  BY <1>2 DEF Loop, Poll, PollTimeout, TakeStart, TakeCheck, TakeStop, TakeSignal, NoEvent,
              TakeDisconnected, TakeVoice, TakeData, TakeReset, TakeEvent, VoiceRegistration,
              InLoop, InStart, InCheck, InStop, mainVars, pipeVars
<1>3. CASE Start
  BY <1>3, StartKeepsRound DEF InLoop
<1>4. CASE Check
  BY <1>4, CheckKeepsRound DEF InLoop
<1>5. CASE Stop
  BY <1>5 DEF Stop, HangUp, Stopped, NextFamily, InLoop, InStart, InCheck, InStop
<1>6. CASE QmiThread \/ Tick \/ Environment
  BY <1>6 DEF QmiThread, QmiThreadControl, Tick, Environment, QmiThreadHangup, SigStop,
              Attach, Detach, ModemReset, LateAnswer, CallLost, AddressChange, EnvUnchanged, mainVars
<1>7. CASE UNCHANGED vars
  BY <1>7 DEF vars, mainVars, pipeVars
<1>8. QED
  BY <1>1, <1>2, <1>3, <1>4, <1>5, <1>6, <1>7 DEF Next, MainThread, Exited

-----------------------------------------------------------------------------
\* Every step keeps every variable in its type.
LEMMA TypeStep ==
  ASSUME TypeOK, Queued, [Next]_vars
  PROVE  TypeOK'
<1>1. CASE UNCHANGED vars
  BY <1>1 DEF vars, mainVars, pipeVars, timeVars, modemVars, TypeOK
<1>2. CASE Next
  BY <1>1, <1>2, SessionType, LoopType, StartType, CheckType, StopType, OthersType
     DEF Next, MainThread, Exited
<1>3. QED
  BY <1>1, <1>2

-----------------------------------------------------------------------------
(* A dial is on its way: every handler that cancels the alarm leaves an    *)
(* alarm or a queued signal number behind.                                 *)

\* While the program counts as attached, a dial that is needed is on its way.
DialPending ==
  pc \in {"poll", "event", "voice"} /\ attached /\ NeedDial => alarm > 0 \/ sig # <<>>

\* A program that does not know that the modem is attached will ask, or has asked in
\* vain.
WillAsk == ~attached /\ mAttached => Announced \/ unanswered \/ ~Reachable

\* Every step leaves a dial on its way when one is needed.
LEMMA PendingStep ==
  ASSUME TypeOK, Queued, Piped, DialPending, [Next]_vars
  PROVE  DialPending'
<1> USE DEF DialPending, NeedDial
<1>a. \A s \in Signo : SendSigno(s) => sig' # <<>>
  BY AppendProperties DEF TypeOK, SendSigno
<1>1. CASE Session
  BY <1>1, <1>a DEF Session, OpenSession, NoDevice, ClientIds, Startup, StartupFails, Quit, Return, Signo
<1>2. CASE Loop
  <2>1. CASE Poll \/ NoEvent
    BY <2>1 DEF Poll, NoEvent, pipeVars, timeVars
  <2>2. CASE PollTimeout \/ TakeData \/ VoiceRegistration
    BY <1>a, <2>2 DEF PollTimeout, TakeData, TakeEvent, VoiceRegistration, Signo, mainVars
  <2>3. CASE TakeStart
    BY <2>3 DEF TakeStart, TakeSignal, TypeOK
  <2>4. CASE TakeCheck \/ TakeStop \/ TakeDisconnected \/ TakeReset
    BY <2>4 DEF TakeCheck, TakeStop, TakeDisconnected, TakeReset
  <2>5. CASE TakeVoice
    BY <2>5 DEF TakeVoice, TakeEvent
  <2>6. QED
    BY <1>2, <2>1, <2>2, <2>3, <2>4, <2>5 DEF Loop
<1>3. CASE Start
  <2>1. CASE Dialed
    <3>1. UNCHANGED <<status, sig, attached>>
      BY <2>1 DEF Dialed, DialUnchanged
    <3>2. (\E f \in Enabled : status[f] = "DISCONNECTED") => alarm' > 0
      BY <2>1, AllowTimeType DEF Dialed, TypeOK
    <3>3. QED
      BY <3>1, <3>2
  <2>2. CASE ~Dialed
    BY <1>3, <2>2 DEF Start, DialSkip, DialOk, DialRejected, DialTimeout, DialAborted, GetIP,
                      AfterDialError, NextFamily
  <2>3. QED
    BY <2>1, <2>2
<1>4. CASE Check
  <2>1. CASE Settle
    BY <2>1 DEF Settle, SendSigno, TypeOK, CheckUnchanged, timeVars
  <2>2. CASE ~Settle
    BY <1>4, <2>2 DEF Check, Registration, QuerySkip, QueryOk, QueryErr, LocalAddress,
                      CompareAddress, DropCall, NextFamily
  <2>3. QED
    BY <2>1, <2>2
<1>5. CASE Stop
  BY <1>5 DEF Stop, HangUp, Stopped, NextFamily
<1>6. CASE Tick
  <2>1. SUFFICES ASSUME pc \in {"poll", "event", "voice"}, alarm' = 0, alarm > 0
                 PROVE  sig' # <<>>
    BY <1>6 DEF Tick, Down, TypeOK, mainVars
  <2>2. alarm = 1 /\ pipes
    BY <1>6, <2>1 DEF Tick, Down, TypeOK, Piped, InLoop
  <2>3. sig' = Append(sig, "START")
    BY <1>6, <2>2 DEF Tick
  <2>4. QED
    BY <2>3, AppendProperties DEF TypeOK
<1>7. CASE QmiThread \/ Environment
  <2>1. UNCHANGED <<pc, attached, status, alarm>>
    BY <1>7 DEF QmiThread, QmiThreadControl, Environment, QmiThreadHangup, SigStop, Attach,
                Detach, ModemReset, LateAnswer, CallLost, AddressChange, EnvUnchanged, mainVars, timeVars
  <2>2. sig # <<>> => sig' # <<>>
    BY <1>7, Grows DEF QmiThread, QmiThreadControl, Environment, QmiThreadHangup, SigStop, Attach,
                Detach, ModemReset, LateAnswer, CallLost, AddressChange, EnvUnchanged, TypeOK
  <2>3. QED
    BY <2>1, <2>2
<1>8. CASE UNCHANGED vars
  BY <1>8 DEF vars, mainVars, pipeVars, timeVars
<1>9. QED
  BY <1>1, <1>2, <1>3, <1>4, <1>5, <1>6, <1>7, <1>8 DEF Next, MainThread, Exited

\* An indication of the registration stays in the socket until it is taken.
LEMMA VoiceKept ==
  ASSUME events \in Seq(Event), NEW i \in DOMAIN events, events[i] = "VOICE"
  PROVE  /\ \A es \in Seq(Event) : \E j \in DOMAIN (events \o es) : (events \o es)[j] = "VOICE"
         /\ \A e \in Event : \E j \in DOMAIN Append(events, e) : Append(events, e)[j] = "VOICE"
         /\ Head(events) # "VOICE" => \E j \in DOMAIN Tail(events) : Tail(events)[j] = "VOICE"
<1>1. \A es \in Seq(Event) : i \in DOMAIN (events \o es) /\ (events \o es)[i] = "VOICE"
  BY ConcatProperties
<1>2. \A e \in Event : i \in DOMAIN Append(events, e) /\ Append(events, e)[i] = "VOICE"
  BY AppendProperties
<1>3. Head(events) # "VOICE" => i - 1 \in DOMAIN Tail(events) /\ Tail(events)[i - 1] = "VOICE"
  BY HeadTailProperties
<1>4. QED
  BY <1>1, <1>2, <1>3

\* Every step leaves a program that does not know that the modem is attached about to
\* ask, or without an answer.
LEMMA WillAskStep ==
  ASSUME TypeOK, Queued, WillAsk, [Next]_vars
  PROVE  WillAsk'
<1> SUFFICES ASSUME ~attached', mAttached', ~unanswered', Reachable'
             PROVE  Announced'
  BY DEF WillAsk
<1> DEFINE Voice == \E i \in DOMAIN events : events[i] = "VOICE"
<1>a. /\ <<"VOICE">> \in Seq(Event) /\ <<"DATA">> \in Seq(Event) /\ <<"RESET">> \in Seq(Event)
      /\ <<"VOICE", "DATA">> \in Seq(Event) /\ "DISCONNECTED" \in Event
      /\ events \in Seq(Event) /\ attached \in BOOLEAN /\ mAttached \in BOOLEAN
  BY DEF Event, TypeOK
\* A step that only adds events.
<1>b. ASSUME Voice,
             \/ UNCHANGED events
             \/ events' = Append(events, "DISCONNECTED")
             \/ \E es \in {<<"VOICE">>, <<"DATA">>, <<"RESET">>, <<"VOICE", "DATA">>} : Indicate(es)
      PROVE  Announced'
  BY <1>a, <1>b, VoiceKept DEF Indicate, Announced
<1>c. ASSUME UNCHANGED <<attached, mAttached, unanswered, qth>>, pc # "voice"
      PROVE  Voice
  BY <1>c DEF WillAsk, Announced, Reachable
<1>1. ~AskRegistration \/ mAttached' # mAttached
  <2>1. AskRegistration => attached' = mAttached \/ unanswered' = TRUE
    BY DEF AskRegistration
  <2>2. mAttached' = mAttached => mAttached
    OBVIOUS
  <2>3. mAttached = TRUE => attached' # mAttached
    OBVIOUS
  <2>4. mAttached => mAttached = TRUE
    BY <1>a
  <2>5. QED
    BY <2>1, <2>2, <2>3, <2>4
<1>2. CASE Session
  <2>1. CASE NoDevice \/ ClientIds \/ StartupFails \/ Return
    BY <2>1, <1>b, <1>c DEF NoDevice, ClientIds, StartupFails, Return, pipeVars, modemVars
  <2>2. CASE OpenSession \/ Startup \/ Quit
    BY <2>2, <1>1 DEF OpenSession, Startup, Quit, modemVars, Reachable
  <2>3. QED
    BY <1>2, <2>1, <2>2 DEF Session
<1>3. CASE Loop
  <2>1. CASE Poll \/ PollTimeout \/ TakeStart \/ TakeCheck \/ TakeStop \/ NoEvent
    BY <2>1, <1>b, <1>c DEF Poll, PollTimeout, TakeStart, TakeCheck, TakeStop, TakeSignal, NoEvent,
                            mainVars, pipeVars, modemVars
  <2>2. CASE TakeDisconnected \/ TakeData \/ TakeReset
    <3>1. /\ UNCHANGED <<attached, mAttached, unanswered, qth>> /\ pc = "event"
          /\ events' = Tail(events) /\ Head(events) # "VOICE"
      BY <2>2 DEF TakeDisconnected, TakeData, TakeReset, TakeEvent, modemVars
    <3>2. Voice
      BY <3>1, <1>c
    <3>3. QED
      BY <3>1, <3>2, <1>a, VoiceKept DEF Announced
  <2>3. CASE TakeVoice
    BY <2>3 DEF TakeVoice, Announced
  <2>4. CASE VoiceRegistration
    BY <2>4, <1>1 DEF VoiceRegistration, modemVars
  <2>5. QED
    BY <1>3, <2>1, <2>2, <2>3, <2>4 DEF Loop
<1>4. CASE Start \/ Check
  <2>1. CASE Registration
    BY <2>1, <1>1 DEF Registration, CheckUnchanged
  <2>2. CASE ~Registration
    <3>1. UNCHANGED <<attached, mAttached, unanswered, qth>>
      BY <1>4, <2>2 DEF Start, DialSkip, DialOk, DialRejected, DialTimeout, DialAborted, GetIP, Dialed,
           AfterDialError, DialUnchanged, Check, QuerySkip, QueryOk, QueryErr, LocalAddress,
           CompareAddress, DropCall, Settle, CheckUnchanged
    <3>2. pc # "voice"
      BY <1>4, StartKeepsRound, CheckKeepsRound DEF InStart, InCheck
    <3>3. UNCHANGED events \/ Indicate(<<"DATA">>)
      BY <1>4, <2>2 DEF Start, DialSkip, DialOk, DialRejected, DialTimeout, DialAborted, GetIP, Dialed,
           BringUp, Check, QuerySkip, QueryOk, QueryErr, LocalAddress, CompareAddress, DropCall,
           Deactivate, Settle
    <3>4. QED
      BY <1>b, <1>c, <3>1, <3>2, <3>3
  <2>3. QED
    BY <2>1, <2>2
<1>5. CASE Stop
  <2>1. UNCHANGED <<attached, mAttached, unanswered, qth>> /\ pc # "voice"
    BY <1>5 DEF Stop, HangUp, Stopped, modemVars
  <2>2. UNCHANGED events \/ Indicate(<<"DATA">>)
    BY <1>5 DEF Stop, HangUp, Stopped, Deactivate
  <2>3. QED
    BY <1>b, <1>c, <2>1, <2>2
<1>6. CASE QmiThread \/ Tick \/ Environment
  <2>1. UNCHANGED <<pc, attached, unanswered>> /\ (Reachable' => Reachable)
    BY <1>6 DEF QmiThread, QmiThreadControl, Tick, Environment, QmiThreadHangup, SigStop, Attach,
                Detach, ModemReset, LateAnswer, CallLost, AddressChange, EnvUnchanged, mainVars, Reachable
  <2>2. CASE Attach
    <3>1. events' = events \o <<"VOICE">>
      BY <2>1, <2>2 DEF Attach, Indicate
    <3>2. Len(events) + 1 \in DOMAIN events' /\ events'[Len(events) + 1] = "VOICE"
      BY <1>a, <3>1, ConcatProperties
    <3>3. QED
      BY <3>2 DEF Announced
  <2>3. CASE ~Attach
    <3>1. mAttached
      BY <1>6, <1>a, <2>3 DEF QmiThread, QmiThreadControl, Tick, Environment, QmiThreadHangup, SigStop,
                Detach, ModemReset, LateAnswer, CallLost, AddressChange, EnvUnchanged, modemVars
    <3>2. Announced
      BY <2>1, <3>1 DEF WillAsk
    <3>3. \/ UNCHANGED events
          \/ events' = Append(events, "DISCONNECTED")
          \/ \E es \in {<<"VOICE">>, <<"DATA">>, <<"RESET">>, <<"VOICE", "DATA">>} : Indicate(es)
      BY <1>6, <2>3 DEF QmiThread, QmiThreadControl, Tick, Environment, QmiThreadHangup, SigStop,
                Detach, ModemReset, LateAnswer, CallLost, AddressChange, EnvUnchanged
    <3>4. QED
      BY <1>b, <2>1, <3>2, <3>3 DEF Announced
  <2>4. QED
    BY <2>2, <2>3
<1>7. CASE UNCHANGED vars
  BY <1>7 DEF vars, mainVars, pipeVars, modemVars, WillAsk, Announced, Reachable
<1>8. QED
  BY <1>2, <1>3, <1>4, <1>5, <1>6, <1>7 DEF Next, MainThread, Exited

-----------------------------------------------------------------------------
(* The sessions: the strengthening follows the way from main()'s decision  *)
(* to restart back to the join of the QMI thread. An early return of       *)
(* qmi_main() leaves the thread running, but then doNotExit is down and    *)
(* the process exits.                                                      *)

Restarting ==
  /\ pc = "return" /\ doNotExit => qth = "none" /\ ~pipes /\ events = <<>> /\ sig = <<>>
  /\ pc \in {"startup", "setup"} => ~doNotExit

\* Every step keeps two sessions apart.
LEMMA ApartStep ==
  ASSUME SessionsApart, Restarting, [Next]_vars
  PROVE  SessionsApart' /\ Restarting'
<1> USE DEF SessionsApart, Restarting
<1>1. CASE Session
  BY <1>1 DEF Session, OpenSession, NoDevice, ClientIds, Startup, StartupFails, Quit, Return, pipeVars
<1>2. CASE Loop
  BY <1>2 DEF Loop, Poll, PollTimeout, TakeStart, TakeCheck, TakeStop, TakeSignal, NoEvent,
              TakeDisconnected, TakeVoice, TakeData, TakeReset, TakeEvent, VoiceRegistration,
              mainVars
<1>3. CASE Start \/ Check
  BY <1>3, StartKeepsRound, CheckKeepsRound DEF InStart, InCheck
<1>4. CASE Stop
  BY <1>4 DEF Stop, HangUp, Stopped, NextFamily
<1>5. CASE QmiThread \/ Tick \/ Environment
  BY <1>5 DEF QmiThread, QmiThreadControl, Tick, Environment, QmiThreadHangup, SigStop,
              Attach, Detach, ModemReset, LateAnswer, CallLost, AddressChange, Indicate, Reachable,
              EnvUnchanged, mainVars
<1>6. CASE UNCHANGED vars
  BY <1>6 DEF vars, mainVars, pipeVars
<1>7. QED
  BY <1>1, <1>2, <1>3, <1>4, <1>5, <1>6 DEF Next, MainThread, Exited

-----------------------------------------------------------------------------
(* The theorems.                                                           *)

\* The inductive invariant.
IInv == TypeOK /\ Queued /\ Piped /\ DialPending /\ WillAsk /\ SessionsApart /\ Restarting

\* The inductive invariant holds initially.
LEMMA InitIInv == Init => IInv
BY InitTypeOK DEF Init, IInv, Queued, Piped, DialPending, WillAsk, SessionsApart, Restarting,
                  InLoop, InStart, InCheck, InStop

\* The inductive invariant is inductive.
LEMMA NextIInv == IInv /\ [Next]_vars => IInv'
BY TypeStep, QueuedStep, PipedStep, PendingStep, WillAskStep, ApartStep DEF IInv

\* The inductive invariant holds throughout.
LEMMA SpecIInv == Spec => []IInv
BY InitIInv, NextIInv, PTL DEF Spec

\* Every variable keeps its type: the failure counter stays an index of
\* allow_time[] and the sockets carry only the numbers the handlers know.
THEOREM TypeCorrect == Spec => []TypeOK
<1>1. IInv => TypeOK
  BY DEF IInv
<1>2. QED
  BY SpecIInv, <1>1, PTL

\* While an enabled family is down, whenever main() goes back to poll() an alarm or
\* a signal number is pending, or the program counts as not attached and rightly so,
\* unless it is about to ask, or its last question was not answered: whatever table
\* of waits, families, client ids, faults or resets there are.
THEOREM RedialIsPending == Spec => []PendingRedial
<1>1. IInv => PendingRedial
  BY DEF IInv, DialPending, WillAsk, PendingRedial
<1>2. QED
  BY SpecIInv, <1>1, PTL

\* main() never starts a session while a QMI thread or a socket of the last
\* one is left.
THEOREM SessionsStayApart == Spec => []SessionsApart
<1>1. IInv => SessionsApart
  BY DEF IInv
<1>2. QED
  BY SpecIInv, <1>1, PTL

-----------------------------------------------------------------------------
(***************************************************************************)
(* What the connection manager shows of a connection is backed: the link   *)
(* by a call, the address on the interface by the program's, and a         *)
(* connected call by its handle (Backed). The three are proved together,   *)
(* for an address is asked for with the handle.                            *)
(*                                                                         *)
(* A check brings the status of one family after the other up to date and  *)
(* settles the link at its end, so within a check the families it has      *)
(* visited are in another state than those it has not. The invariant says  *)
(* what holds of a family of either kind at each point of the program.     *)
(***************************************************************************)

(* The inductive invariant, for a modem that reports no reset.             *)

\* There is one session.
NoReset == ~doNotExit /\ events \in Seq(Event \ {"RESET"})

\* The link shows no family.
Dark == link \cap Family = {}

\* Before the loop there are no calls, no alarm and nothing queued but a stop.
Before ==
  pc \in {"detect", "startup", "setup"} =>
    /\ fam = "v4" /\ ~unclear /\ alarm = 0 /\ Dark
    /\ \A f \in Family : status[f] = "UNKNOW" /\ ~handle[f] /\ mCall[f] = 0
    /\ sig \in Seq({"STOP"})

\* The loop runs, the user has not asked for its end, and every check that
\* ended knew of each family whether it is up.
Handling == pc \in InLoop \ InStop /\ ~unclear

\* Nothing is dialled before the first check has ended.
Undialled ==
  Handling /\ (\E f \in Enabled : status[f] = "UNKNOW") =>
    /\ alarm = 0 /\ sig \in Seq({"CHECK", "STOP"})
    /\ pc \notin InStart
    /\ Settled => \A f \in Enabled : status[f] = "UNKNOW"

\* Which family a handler is at.
AtFamily ==
  /\ pc \notin {"dial", "getip", "query", "hangup"} => fam = "v4"
  /\ pc = "getip" => fam \in Enabled /\ handle[fam] /\ status[fam] # "CONNECTED"
  /\ pc \in {"local", "compare", "drop"} => fam \in Enabled /\ status[fam] = "CONNECTED"

\* The running check has asked for the status of family f.
Visited(f) ==
  \/ pc = "settle"
  \/ f = "v4" /\ pc \in {"query", "local", "compare", "drop"} /\ (pc = "query" => fam = "v6")

\* A call that is up can be hung up, unless the program counts it as down.
Handled ==
  Handling => \A f \in Enabled :
    /\ status[f] = "CONNECTED" => handle[f]
    /\ status[f] = "UNKNOW" => ~handle[f] /\ mCall[f] = 0 /\ Dark
    /\ mCall[f] # 0 /\ ~handle[f] => status[f] = "DISCONNECTED"

\* A connected family has an address, and the interface has the same if the
\* link shows the family; but for a call that is about to be dropped.
Addressed ==
  Handling => \A f \in Enabled :
    status[f] = "CONNECTED" /\ ~(pc = "drop" /\ f = fam) =>
      addr[f] # 0 /\ (f \in link => iface[f] = addr[f])

\* The link shows connected families only, but for those whose status the
\* running check has just learnt; it knows that a family that is not enabled is
\* down.
Linked ==
  Handling =>
    /\ link \cap Family \subseteq Enabled
    /\ \A f \in Family :
         IF Visited(f) THEN f \notin Enabled => status[f] = "DISCONNECTED"
         ELSE f \in Enabled => status[f] # "SUSPENDED" /\ (f \in link => status[f] = "CONNECTED")

BackedInv == NoReset /\ Before /\ Undialled /\ AtFamily /\ Handled /\ Addressed /\ Linked

-----------------------------------------------------------------------------
(* One session only.                                                       *)

\* Nothing a modem without resets reports is a reset.
LEMMA NoResetStep ==
  ASSUME ~MayReset, TypeOK, Queued, NoReset, [Next]_vars
  PROVE  NoReset'
<1> DEFINE Ev == Event \ {"RESET"}
<1>a. /\ <<"DISCONNECTED">> \in Seq(Ev) /\ <<"VOICE">> \in Seq(Ev)
      /\ <<"VOICE", "DATA">> \in Seq(Ev) /\ <<"DATA">> \in Seq(Ev) /\ "DISCONNECTED" \in Ev
  BY DEF Event
<1>b. events \in Seq(Ev)
  BY DEF NoReset
<1>c. ASSUME NEW es \in Seq(Ev), Indicate(es)
      PROVE  events' \in Seq(Ev)
  BY <1>b, <1>c, ConcatProperties DEF Indicate
<1>d. ASSUME NEW e \in Event, TakeEvent(e)
      PROVE  e # "RESET" /\ events' \in Seq(Ev)
  <2>1. events # <<>> /\ events' = Tail(events) /\ Head(events) = e
    BY <1>d DEF TakeEvent, Queued
  <2>2. Head(events) \in Ev /\ Tail(events) \in Seq(Ev)
    BY <1>b, <2>1, HeadTailProperties
  <2>3. QED
    BY <2>1, <2>2
<1>e. ASSUME doNotExit' \in {doNotExit, FALSE}, events' \in Seq(Ev)
      PROVE  NoReset'
  <2>1. ~doNotExit'
    BY <1>e, Zenon DEF NoReset
  <2>2. QED
    BY <1>e, <2>1, Zenon DEF NoReset
<1>1. CASE Session
  <2>1. <<>> \in Seq(Ev)
    OBVIOUS
  <2>2. doNotExit' \in {doNotExit, FALSE} /\ (UNCHANGED events \/ events' = <<>>)
    BY <1>1 DEF Session, OpenSession, NoDevice, ClientIds, Startup, StartupFails, Quit, Return, pipeVars
  <2>3. QED
    BY <1>b, <1>e, <2>1, <2>2
<1>2. CASE Loop
  <2>1. CASE TakeDisconnected \/ TakeVoice \/ TakeData \/ TakeReset
    BY <1>d, <2>1 DEF NoReset, TakeDisconnected, TakeVoice, TakeData, TakeReset, Event
  <2>2. CASE ~(TakeDisconnected \/ TakeVoice \/ TakeData \/ TakeReset)
    BY <1>2, <2>2 DEF NoReset, Loop, Poll, PollTimeout, TakeStart, TakeCheck, TakeStop, TakeSignal,
                      NoEvent, VoiceRegistration, pipeVars
  <2>3. QED
    BY <2>1, <2>2
<1>3. CASE Start \/ Check \/ Stop
  <2>1. UNCHANGED doNotExit
    BY <1>3 DEF Start, DialSkip, DialOk, DialRejected, DialTimeout, DialAborted, GetIP, Dialed,
                AfterDialError, DialUnchanged, Check, Registration, QuerySkip, QueryOk, QueryErr,
                LocalAddress, CompareAddress, DropCall, Settle, CheckUnchanged, Stop, HangUp, Stopped
  <2>2. UNCHANGED events \/ Indicate(<<"DATA">>)
    BY <1>3 DEF Start, DialSkip, DialOk, DialRejected, DialTimeout, DialAborted, GetIP, Dialed,
                BringUp, Check, Registration, QuerySkip, QueryOk, QueryErr, LocalAddress,
                CompareAddress, DropCall, Deactivate, Settle, Stop, HangUp, Stopped
  <2>3. QED
    BY <1>a, <1>b, <1>c, <2>1, <2>2 DEF NoReset
<1>4. CASE QmiThread \/ Tick \/ Environment
  <2>1. doNotExit' \in {doNotExit, FALSE}
    BY <1>4 DEF QmiThread, QmiThreadControl, Tick, Environment, QmiThreadHangup, SigStop,
                Attach, Detach, ModemReset, LateAnswer, CallLost, AddressChange, EnvUnchanged
  <2>2. \/ UNCHANGED events
        \/ events' = Append(events, "DISCONNECTED")
        \/ Indicate(<<"VOICE">>) \/ Indicate(<<"DATA">>) \/ Indicate(<<"VOICE", "DATA">>)
    BY <1>4 DEF QmiThread, QmiThreadControl, Tick, Environment, QmiThreadHangup, SigStop,
                Attach, Detach, ModemReset, LateAnswer, CallLost, AddressChange, EnvUnchanged
  <2>3. Append(events, "DISCONNECTED") \in Seq(Ev)
    BY <1>a, <1>b, AppendProperties
  <2>4. events' \in Seq(Ev)
    BY <1>a, <1>b, <1>c, <2>2, <2>3
  <2>5. QED
    BY <1>e, <2>1, <2>4
<1>5. CASE UNCHANGED vars
  BY <1>5 DEF NoReset, vars, pipeVars
<1>6. QED
  BY <1>1, <1>2, <1>3, <1>4, <1>5 DEF Next, MainThread, Exited

-----------------------------------------------------------------------------
(* The beginning, and the time to the end of the first check.              *)

\* What holds before the loop holds when it is entered or stays.
LEMMA BeforeStep ==
  ASSUME TypeOK, NoReset, Before, [Next]_vars
  PROVE  Before'
<1> USE DEF Before, Dark
<1>1. CASE Session
  <2>1. CASE OpenSession
    <3>1. <<>> \in Seq({"STOP"})
      OBVIOUS
    <3>2. QED
      BY <2>1, <3>1 DEF OpenSession, modemVars
  <2>2. CASE ClientIds
    BY <2>2 DEF ClientIds, pipeVars, timeVars, modemVars
  <2>3. CASE ~OpenSession /\ ~ClientIds
    BY <1>1, <2>3 DEF Session, NoDevice, Startup, StartupFails, Quit, Return, NoReset
  <2>4. QED
    BY <2>1, <2>2, <2>3
<1>2. CASE Loop
  BY <1>2 DEF Loop, Poll, PollTimeout, TakeStart, TakeCheck, TakeStop, TakeSignal, NoEvent,
              TakeDisconnected, TakeVoice, TakeData, TakeReset, TakeEvent, VoiceRegistration,
              mainVars
<1>3. CASE Start \/ Check
  BY <1>3, StartKeepsRound, CheckKeepsRound DEF InStart, InCheck
<1>4. CASE Stop
  BY <1>4 DEF Stop, HangUp, Stopped, NextFamily
<1>5. CASE QmiThread \/ Tick \/ Environment
  <2> SUFFICES ASSUME pc \in {"detect", "startup", "setup"}
               PROVE  Before'
    BY <1>5 DEF QmiThread, QmiThreadControl, Tick, Environment, QmiThreadHangup, SigStop,
                Attach, Detach, ModemReset, LateAnswer, CallLost, AddressChange, EnvUnchanged, mainVars
  <2>1. UNCHANGED <<pc, fam, unclear, link, status, handle>> /\ alarm' = 0
    BY <1>5 DEF QmiThread, QmiThreadControl, Tick, Down, Environment, QmiThreadHangup, SigStop,
                Attach, Detach, ModemReset, LateAnswer, CallLost, AddressChange, EnvUnchanged,
                mainVars, timeVars
  <2>2. \A f \in Family : mCall'[f] = 0
    BY <1>5 DEF QmiThread, QmiThreadControl, Tick, Environment, QmiThreadHangup, SigStop,
                Attach, Detach, ModemReset, LateAnswer, CallLost, AddressChange, EnvUnchanged,
                modemVars, TypeOK
  <2>3. sig' \in {sig, Append(sig, "STOP")}
    BY <1>5 DEF QmiThread, QmiThreadControl, Tick, Environment, QmiThreadHangup, SigStop,
                Attach, Detach, ModemReset, LateAnswer, CallLost, AddressChange, EnvUnchanged
  <2>4. sig' \in Seq({"STOP"})
    BY <2>3, AppendProperties
  <2>5. QED
    BY <2>1, <2>2, <2>4
<1>6. CASE UNCHANGED vars
  BY <1>6 DEF vars, mainVars, pipeVars, timeVars, modemVars
<1>7. QED
  BY <1>1, <1>2, <1>3, <1>4, <1>5, <1>6 DEF Next, MainThread, Exited

\* Every step keeps the family in step with the program point.
LEMMA AtFamilyStep ==
  ASSUME TypeOK, Before, AtFamily, [Next]_vars
  PROVE  AtFamily'
<1> USE DEF AtFamily
<1>1. CASE Session
  BY <1>1 DEF Session, OpenSession, NoDevice, ClientIds, Startup, StartupFails, Quit, Return, Before
<1>2. CASE Loop
  BY <1>2 DEF Loop, Poll, PollTimeout, TakeStart, TakeCheck, TakeStop, TakeSignal, NoEvent,
              TakeDisconnected, TakeVoice, TakeData, TakeReset, TakeEvent, VoiceRegistration,
              mainVars
<1>3. CASE Start
  <2>1. CASE DialOk
    BY <2>1 DEF DialOk, Dialing, TypeOK
  <2>2. CASE GetIP
    BY <2>2 DEF GetIP, NextFamily
  <2>3. CASE DialSkip \/ DialRejected \/ DialTimeout \/ DialAborted \/ Dialed
    BY <2>3 DEF DialSkip, DialRejected, DialTimeout, DialAborted, Dialed, AfterDialError,
                NextFamily
  <2>4. QED
    BY <1>3, <2>1, <2>2, <2>3 DEF Start
<1>4. CASE Check
  <2>1. CASE Registration \/ QuerySkip \/ QueryErr \/ DropCall \/ Settle
    BY <2>1 DEF Registration, QuerySkip, QueryErr, DropCall, Settle, NextFamily
  <2>2. ASSUME NEW s \in Status \ {"UNKNOW"}, QueryOk(s)
        PROVE  AtFamily'
    BY <2>2 DEF QueryOk, Querying, NextFamily, TypeOK
  <2>3. CASE LocalAddress
    BY <2>3 DEF LocalAddress, NextFamily
  <2>4. CASE CompareAddress
    BY <2>4 DEF CompareAddress, NextFamily
  <2>5. QED
    BY <1>4, <2>1, <2>2, <2>3, <2>4 DEF Check
<1>5. CASE Stop
  BY <1>5 DEF Stop, HangUp, Stopped, NextFamily
<1>6. CASE QmiThread \/ Tick \/ Environment
  BY <1>6 DEF QmiThread, QmiThreadControl, Tick, Environment, QmiThreadHangup, SigStop,
              Attach, Detach, ModemReset, LateAnswer, CallLost, AddressChange, EnvUnchanged, mainVars
<1>7. CASE UNCHANGED vars
  BY <1>7 DEF vars, mainVars
<1>8. QED
  BY <1>1, <1>2, <1>3, <1>4, <1>5, <1>6, <1>7 DEF Next, MainThread, Exited
\* Handlers leave the signal socket and the alarm alone until a check has ended.
LEMMA UndialledStep ==
  ASSUME TypeOK, Queued, Before, Undialled, [Next]_vars
  PROVE  Undialled'
<1> DEFINE Quiet == Seq({"CHECK", "STOP"})
           Unknown == \E f \in Enabled : status[f] = "UNKNOW"
<1> USE DEF Undialled, Handling
<1>a. \A q \in Quiet : Append(q, "CHECK") \in Quiet /\ Append(q, "STOP") \in Quiet
  BY AppendProperties
<1>b. \A q \in Quiet : q # <<>> => Head(q) \in {"CHECK", "STOP"} /\ Tail(q) \in Quiet
  BY HeadTailProperties
<1> HIDE DEF Quiet
<1>1. CASE Session
  <2>1. CASE Startup
    <3>1. sig' = Append(sig, "CHECK") /\ alarm' = alarm /\ status' = status /\ pc' = "poll"
      BY <2>1 DEF Startup, SendSigno, timeVars
    <3>2. sig \in Quiet /\ alarm = 0 /\ \A f \in Family : status[f] = "UNKNOW"
      BY <2>1 DEF Startup, Before, Quiet
    <3>3. sig' \in Quiet
      BY <1>a, <3>1, <3>2
    <3>4. QED
      BY <3>1, <3>2, <3>3, EnabledAssumption DEF Quiet, InStart
  <2>2. CASE ~Startup
    BY <1>1, <2>2 DEF Session, OpenSession, NoDevice, ClientIds, StartupFails, Quit, Return, InLoop, InStart,
                      InCheck, InStop
  <2>3. QED
    BY <2>1, <2>2
<1>2. CASE Loop
  <2> SUFFICES ASSUME Handling', Unknown'
               PROVE  /\ alarm' = 0 /\ sig' \in Quiet
                      /\ pc' \notin InStart
                      /\ \A f \in Enabled : status'[f] = "UNKNOW"
    BY DEF Quiet
  <2>1. UNCHANGED <<status, unclear>> /\ pc \in {"poll", "signal", "event", "voice"}
    BY <1>2 DEF Loop, Poll, PollTimeout, TakeStart, TakeCheck, TakeStop, TakeSignal, NoEvent,
                TakeDisconnected, TakeVoice, TakeData, TakeReset, TakeEvent, VoiceRegistration,
                mainVars
  <2>2. alarm = 0 /\ sig \in Quiet /\ \A f \in Enabled : status[f] = "UNKNOW"
    BY <2>1 DEF InLoop, InStop, Settled, Quiet
  <2>3. pc = "signal" => Head(sig) \in {"CHECK", "STOP"} /\ Tail(sig) \in Quiet
    BY <1>b, <2>2 DEF Queued
  <2>4. ~NeedDial
    BY <2>2 DEF NeedDial
  <2>5. CASE TakeStart \/ TakeCheck \/ TakeStop
    <3>1. ~TakeStart
      BY <2>3 DEF TakeStart, TakeSignal
    <3>2. sig' = Tail(sig) /\ pc = "signal" /\ alarm' = 0 /\ pc' \notin InStart
      BY <2>5, <3>1 DEF TakeCheck, TakeStop, TakeSignal, InStart
    <3>3. QED
      BY <2>1, <2>2, <2>3, <3>2
  <2>6. CASE ~(TakeStart \/ TakeCheck \/ TakeStop)
    <3>1. alarm' = alarm /\ pc' \notin InStart
      BY <1>2, <2>1, <2>6 DEF Loop, Poll, PollTimeout, NoEvent, TakeDisconnected, TakeVoice,
                         TakeData, TakeReset, TakeEvent, VoiceRegistration, timeVars, mainVars, InStart
    <3>2. sig' \in {sig, Append(sig, "CHECK")}
      BY <1>2, <2>4, <2>6 DEF Loop, Poll, PollTimeout, NoEvent, TakeDisconnected, TakeVoice,
                         TakeData, TakeReset, TakeEvent, VoiceRegistration, SendSigno, pipeVars
    <3>3. QED
      BY <1>a, <2>1, <2>2, <3>1, <3>2
  <2>7. QED
    BY <2>5, <2>6
<1>3. CASE Start
  <2>1. UNCHANGED unclear /\ pc \in InStart /\ pc' \in InStart \cup {"event"}
    BY <1>3, StartKeepsRound DEF Start, DialSkip, DialOk, DialRejected, DialTimeout, DialAborted,
                GetIP, Dialed, AfterDialError, DialUnchanged
  <2>2. status' = status \/ status' = [status EXCEPT ![fam] = "CONNECTED"]
    BY <1>3 DEF Start, DialSkip, DialOk, DialRejected, DialTimeout, DialAborted, GetIP, Dialed,
                AfterDialError
  <2>3. Unknown' => Unknown
    BY <2>2, EnabledAssumption DEF TypeOK
  <2>4. QED
    BY <2>1, <2>3 DEF InLoop, InStart, InStop
<1>4. CASE Check
  <2>1. CASE Settle
    <3>1. NoteUnclear /\ status' = status
      BY <2>1 DEF Settle
    <3>2. ~unclear' => ~Unknown'
      BY <3>1, EnabledAssumption DEF NoteUnclear
    <3>3. QED
      BY <3>2
  <2>2. CASE ~Settle
    <3>1. UNCHANGED <<unclear, alarm, sig>> /\ pc \in InCheck /\ pc' \in InCheck
      BY <1>4, <2>2 DEF Check, Registration, QuerySkip, QueryOk, Querying, QueryErr, LocalAddress,
                CompareAddress, DropCall, NextFamily, CheckUnchanged, timeVars, InCheck
    <3>2. \E s \in Status \ {"UNKNOW"} : status' = status \/ status' = [status EXCEPT ![fam] = s]
      BY <1>4, <2>2 DEF Check, Registration, QuerySkip, QueryOk, Querying, QueryErr, LocalAddress,
                CompareAddress, DropCall, Status
    <3>3. Unknown' => Unknown
      BY <3>2, EnabledAssumption DEF TypeOK
    <3>4. QED
      BY <3>1, <3>3 DEF InLoop, InCheck, InStart, InStop, Settled
  <2>3. QED
    BY <2>1, <2>2
<1>5. CASE Stop
  BY <1>5 DEF Stop, HangUp, Stopped, NextFamily, InStop, InLoop, InStart, InCheck
<1>6. CASE QmiThread \/ Tick \/ Environment
  <2>1. UNCHANGED <<pc, unclear, status>>
    BY <1>6 DEF QmiThread, QmiThreadControl, Tick, Environment, QmiThreadHangup, SigStop,
                Attach, Detach, ModemReset, LateAnswer, CallLost, AddressChange, EnvUnchanged, mainVars
  <2>2. alarm = 0 => alarm' = 0 /\ sig' \in {sig, Append(sig, "STOP")}
    BY <1>6 DEF QmiThread, QmiThreadControl, Tick, Down, Environment, QmiThreadHangup, SigStop,
                Attach, Detach, ModemReset, LateAnswer, CallLost, AddressChange, EnvUnchanged, timeVars
  <2>3. alarm = 0 /\ sig \in Quiet => alarm' = 0 /\ sig' \in Quiet
    BY <1>a, <2>2
  <2>4. QED
    BY <2>1, <2>3 DEF Quiet, Settled
<1>7. CASE UNCHANGED vars
  BY <1>7 DEF vars, mainVars, pipeVars, timeVars, Settled
<1>8. QED
  BY <1>1, <1>2, <1>3, <1>4, <1>5, <1>6, <1>7 DEF Next, MainThread, Exited
-----------------------------------------------------------------------------
(* The three parts of the invariant, by the handlers.                      *)

\* A step that leaves the program's view alone, brings no call up and neither
\* enters nor advances a check keeps all three.
LEMMA Undisturbed ==
  ASSUME TypeOK, Handled, Addressed, Linked,
         UNCHANGED <<status, handle, addr, link, iface, unclear>>,
         \A f \in Family : mCall[f] = 0 => mCall'[f] = 0,
         pc' \in InLoop \ InStop => pc \in InLoop \ InStop,
         \/ UNCHANGED <<pc, fam>>
         \/ /\ pc \notin {"query", "local", "compare", "drop", "settle"}
            /\ pc' \notin {"local", "compare", "drop", "settle"}
            /\ pc' = "query" => fam' = "v4"
  PROVE  Handled' /\ Addressed' /\ Linked'
<1> SUFFICES ASSUME Handling'
             PROVE  Handled' /\ Addressed' /\ Linked'
  BY DEF Handled, Addressed, Linked
<1>1. Handling
  BY DEF Handling
<1>2. Handled'
  BY <1>1, EnabledAssumption DEF Handled, Dark
<1>3. Addressed'
  BY <1>1 DEF Addressed
<1>4. Linked'
  BY <1>1 DEF Linked, Visited
<1>5. QED
  BY <1>2, <1>3, <1>4

\* The loop is entered without calls.
LEMMA SessionBacked ==
  ASSUME TypeOK, Before, Session
  PROVE  Handled' /\ Addressed' /\ Linked'
<1>1. CASE Startup
  <2>1. UNCHANGED <<status, handle, addr, link, iface, unclear, mCall>> /\ pc = "setup" /\ pc' = "poll"
    BY <1>1 DEF Startup, modemVars
  <2>2. \A f \in Family : status[f] = "UNKNOW" /\ ~handle[f] /\ mCall[f] = 0 /\ f \notin link
    BY <2>1 DEF Before, Dark
  <2>3. Handled'
    BY <2>1, <2>2, EnabledAssumption DEF Handled, Before, Dark
  <2>4. Addressed'
    BY <2>1, <2>2, EnabledAssumption DEF Addressed
  <2>5. Linked'
    BY <2>1, <2>2 DEF Linked, Visited
  <2>6. QED
    BY <2>3, <2>4, <2>5
<1>2. CASE ~Startup
  <2>1. ~Handling'
    BY <1>2 DEF Session, OpenSession, NoDevice, ClientIds, StartupFails, Quit, Return, Handling, InLoop,
                InStart, InCheck, InStop
  <2>2. QED
    BY <2>1 DEF Handled, Addressed, Linked
<1>3. QED
  BY <1>1, <1>2

\* The loop outside the handlers leaves what is shown alone, but at its end.
LEMMA LoopBacked ==
  ASSUME TypeOK, AtFamily, Handled, Addressed, Linked, Loop
  PROVE  Handled' /\ Addressed' /\ Linked'
<1>1. CASE TakeDisconnected \/ TakeReset \/ TakeStop
  <2>1. ~Handling'
    BY <1>1 DEF TakeDisconnected, TakeReset, TakeStop, Handling, InLoop, InStart, InCheck, InStop
  <2>2. QED
    BY <2>1 DEF Handled, Addressed, Linked
<1>2. CASE ~(TakeDisconnected \/ TakeReset \/ TakeStop)
  <2>1. UNCHANGED <<status, handle, addr, link, iface, unclear, mCall, fam>>
    BY <1>2 DEF Loop, Poll, PollTimeout, TakeStart, TakeCheck, TakeSignal, NoEvent,
                TakeVoice, TakeData, TakeEvent, VoiceRegistration, mainVars, modemVars
  <2>2. /\ pc \in {"poll", "signal", "event", "voice"}
        /\ pc' \in {"poll", "signal", "event", "voice", "dial", "query", "reg"}
    BY <1>2 DEF Loop, Poll, PollTimeout, TakeStart, TakeCheck, TakeSignal, NoEvent,
                TakeVoice, TakeData, TakeEvent, VoiceRegistration, mainVars
  <2>3. fam = "v4"
    BY <2>2 DEF AtFamily
  <2>4. pc \in InLoop \ InStop
    BY <2>2 DEF InLoop, InStop
  <2>5. QED
    BY <2>1, <2>2, <2>3, <2>4, Undisturbed
<1>3. QED
  BY <1>1, <1>2

\* Hanging up for a stop ends the handling.
LEMMA StopBacked ==
  ASSUME Stop
  PROVE  Handled' /\ Addressed' /\ Linked'
<1>1. ~Handling'
  BY DEF Stop, HangUp, Stopped, NextFamily, Handling, InLoop, InStart, InCheck, InStop
<1>2. QED
  BY <1>1 DEF Handled, Addressed, Linked

\* The QMI thread, the clock and the environment bring no call up.
LEMMA OthersBacked ==
  ASSUME TypeOK, Handled, Addressed, Linked, QmiThread \/ Tick \/ Environment \/ UNCHANGED vars
  PROVE  Handled' /\ Addressed' /\ Linked'
<1>1. UNCHANGED <<pc, fam, status, handle, addr, link, iface, unclear>>
  BY DEF QmiThread, QmiThreadControl, Tick, Environment, QmiThreadHangup, SigStop, Attach,
         Detach, ModemReset, LateAnswer, CallLost, AddressChange, EnvUnchanged, mainVars, vars
<1>2. \A f \in Family : mCall[f] = 0 => mCall'[f] = 0
  BY DEF QmiThread, QmiThreadControl, Tick, Environment, QmiThreadHangup, SigStop, Attach,
         Detach, ModemReset, LateAnswer, CallLost, AddressChange, EnvUnchanged, modemVars, vars, TypeOK
<1>3. QED
  BY <1>1, <1>2, Undisturbed

\* While families are dialled none is unknown, so a call that comes up without
\* an answer belongs to one that is down, and is dialled again.
LEMMA StartBacked ==
  ASSUME TypeOK, Undialled, AtFamily, Handled, Addressed, Linked, Start
  PROVE  Handled' /\ Addressed' /\ Linked'
<1> SUFFICES ASSUME Handling'
             PROVE  Handled' /\ Addressed' /\ Linked'
  BY DEF Handled, Addressed, Linked
<1>a. pc \in InStart /\ pc' \in InStart \cup {"event"} /\ UNCHANGED <<link, iface, unclear>>
  BY StartKeepsRound DEF Start, DialSkip, DialOk, DialRejected, DialTimeout, DialAborted, GetIP,
         Dialed, AfterDialError, DialUnchanged
<1>b. Handling
  BY <1>a DEF Handling, InLoop, InStart, InStop
<1>c. \A f \in Enabled : status[f] # "UNKNOW"
  BY <1>a, <1>b DEF Undialled
<1>d. \A f \in Family : ~Visited(f) /\ ~Visited(f)'
  BY <1>a DEF Visited, InStart
<1>e. pc # "drop" /\ pc' # "drop"
  BY <1>a DEF InStart
<1>1. CASE DialSkip \/ DialRejected \/ DialAborted \/ Dialed
  <2>1. UNCHANGED <<status, handle, addr, mCall>>
    BY <1>1 DEF DialSkip, DialRejected, DialAborted, Dialed, AfterDialError
  <2>2. QED
    BY <1>a, <1>b, <2>1, Undisturbed DEF Handling, InStart
<1>2. CASE DialOk \/ DialTimeout
  <2>1. /\ UNCHANGED <<status, addr>> /\ fam \in Enabled /\ status[fam] # "CONNECTED"
        /\ \A f \in Family : f # fam => handle'[f] = handle[f] /\ mCall'[f] = mCall[f]
    BY <1>2 DEF DialOk, DialTimeout, Dialing, AfterDialError, BringUp, TypeOK
  <2>2. handle'[fam] \/ (handle'[fam] = handle[fam] /\ status[fam] = "DISCONNECTED")
    <3>1. handle'[fam] \/ handle'[fam] = handle[fam]
      BY <1>2 DEF DialOk, DialTimeout, AfterDialError, TypeOK
    <3>2. status[fam] = "DISCONNECTED"
      BY <1>b, <1>c, <1>d, <2>1 DEF Linked, TypeOK, Status
    <3>3. QED
      BY <3>1, <3>2
  <2>3. Handled'
    BY <1>a, <1>b, <1>c, <2>1, <2>2, EnabledAssumption DEF Handled
  <2>4. Addressed'
    BY <1>a, <1>b, <1>e, <2>1 DEF Addressed
  <2>5. Linked'
    BY <1>a, <1>b, <1>d, <2>1 DEF Linked
  <2>6. QED
    BY <2>3, <2>4, <2>5
<1>3. CASE GetIP
  <2>1. /\ fam \in Enabled /\ handle[fam] /\ fam \notin link
        /\ UNCHANGED <<handle, mCall>>
        /\ \A f \in Family : f # fam => status'[f] = status[f] /\ addr'[f] = addr[f]
    BY <1>3, <1>b, <1>d DEF GetIP, AtFamily, GetIPOk, GetIPErr, TypeOK, Linked
  <2>2. \/ status'[fam] = "CONNECTED" /\ addr'[fam] # 0
        \/ status'[fam] = status[fam] /\ status[fam] # "CONNECTED"
    BY <1>3, <2>1 DEF GetIP, AtFamily, GetIPOk, GetIPErr, TypeOK
  <2>3. Handled'
    BY <1>a, <1>b, <1>c, <2>1, <2>2, EnabledAssumption DEF Handled
  <2>4. Addressed'
    BY <1>a, <1>b, <1>e, <2>1, <2>2, EnabledAssumption DEF Addressed
  <2>5. Linked'
    BY <1>a, <1>b, <1>d, <2>1, <2>2, EnabledAssumption DEF Linked
  <2>6. QED
    BY <2>3, <2>4, <2>5
<1>4. QED
  BY <1>1, <1>2, <1>3 DEF Start
\* A check visits one family after the other. A family that is found connected was
\* so before or is dropped, and keeps its handle and its address; what it learns of
\* the others is settled at the end.
LEMMA CheckBacked ==
  ASSUME TypeOK, AtFamily, Handled, Addressed, Linked, Check, ~Settle
  PROVE  Handled' /\ Addressed' /\ Linked'
<1> SUFFICES ASSUME Handling'
             PROVE  Handled' /\ Addressed' /\ Linked'
  BY DEF Handled, Addressed, Linked
<1>a. pc \in InCheck /\ UNCHANGED <<link, iface, unclear>> /\ pc' \in InCheck
  BY DEF Check, Registration, QuerySkip, QueryOk, Querying, QueryErr, LocalAddress, CompareAddress,
         DropCall, NextFamily, CheckUnchanged, InCheck
<1>b. Handling
  BY <1>a DEF Handling, InLoop, InCheck, InStop
<1>c. Enabled \subseteq Family /\ Family = {"v4", "v6"} /\ fam \in Family
  BY EnabledAssumption DEF Family, TypeOK
<1>1. CASE Registration
  <2>1. UNCHANGED <<status, handle, addr, mCall, fam>> /\ pc = "reg" /\ pc' = "query"
    BY <1>1 DEF Registration
  <2>2. fam = "v4"
    BY <2>1 DEF AtFamily
  <2>3. QED
    BY <1>a, <1>b, <2>1, <2>2, Undisturbed DEF Handling
\* What the queries have in common: the family's new status is s, and the
\* handle goes when the call is down.
<1>d. ASSUME pc = "query", NEW s \in Status, status' = [status EXCEPT ![fam] = s],
             UNCHANGED <<addr, mCall>>,
             \/ handle' = handle
             \/ handle' = [handle EXCEPT ![fam] = FALSE] /\ s = "DISCONNECTED",
             s = "CONNECTED" => /\ fam \in Enabled /\ status[fam] # "DISCONNECTED"
                                /\ status[fam] = "CONNECTED" \/ mCall[fam] # 0,
             s = "SUSPENDED" => fam \in Enabled /\ handle[fam],
             s = "UNKNOW" => fam \in Enabled /\ status[fam] = "UNKNOW",
             \/ pc' = "local" /\ fam' = fam /\ fam = "v4" /\ s = "CONNECTED"
             \/ NextFamily("query", "settle")
      PROVE  Handled' /\ Addressed' /\ Linked'
  <2>1. /\ handle' \in [Family -> BOOLEAN] /\ status' \in [Family -> Status] /\ status'[fam] = s
        /\ \A f \in Family : f # fam => status'[f] = status[f] /\ handle'[f] = handle[f]
    BY <1>c, <1>d DEF TypeOK
  <2>2. ~Visited(fam)
    BY <1>d DEF Visited
  <2>3. fam \in Enabled => status[fam] # "SUSPENDED" /\ (fam \in link => status[fam] = "CONNECTED")
    BY <1>b, <1>c, <2>2 DEF Linked
  <2>4. s = "CONNECTED" => status[fam] = "CONNECTED" /\ handle[fam] /\ handle'[fam]
    BY <1>b, <1>c, <1>d, <2>3 DEF Handled, TypeOK, Status
  <2>5. Handled'
    <3>1. ASSUME NEW f \in Enabled, f # fam
          PROVE  /\ status'[f] = "CONNECTED" => handle'[f]
                 /\ status'[f] = "UNKNOW" => ~handle'[f] /\ mCall'[f] = 0 /\ Dark'
                 /\ mCall'[f] # 0 /\ ~handle'[f] => status'[f] = "DISCONNECTED"
      BY <1>a, <1>b, <1>c, <1>d, <2>1, <3>1 DEF Handled, Dark
    <3>2. ASSUME fam \in Enabled
          PROVE  /\ s = "CONNECTED" => handle'[fam]
                 /\ s = "UNKNOW" => ~handle'[fam] /\ mCall'[fam] = 0 /\ Dark'
                 /\ mCall'[fam] # 0 /\ ~handle'[fam] => s = "DISCONNECTED"
      BY <1>a, <1>b, <1>c, <1>d, <2>1, <2>4, <3>2 DEF Handled, Dark, Status
    <3>3. QED
      BY <2>1, <3>1, <3>2 DEF Handled
  <2>6. Addressed'
    BY <1>a, <1>b, <1>c, <1>d, <2>1, <2>4 DEF Addressed, NextFamily
  <2>7. \A f \in Family : f # fam => (Visited(f)' <=> Visited(f))
    BY <1>c, <1>d DEF Visited, NextFamily
  <2>8. Linked'
    <3>1. \A f \in Family : f = fam => Visited(f)'
      BY <1>c, <1>d DEF Visited, NextFamily
    <3>2. fam \notin Enabled => s = "DISCONNECTED"
      BY <1>d DEF Status
    <3>3. QED
      BY <1>a, <1>b, <2>1, <2>7, <3>1, <3>2 DEF Linked
  <2>9. QED
    BY <2>5, <2>6, <2>8
<1>2. CASE QuerySkip
  BY <1>2, <1>d DEF QuerySkip, Status
<1>3. ASSUME NEW s \in Status \ {"UNKNOW"}, QueryOk(s)
      PROVE  Handled' /\ Addressed' /\ Linked'
  <2>1. /\ pc = "query" /\ fam \in Enabled /\ status[fam] # "DISCONNECTED"
        /\ s # "DISCONNECTED" => mCall[fam] # 0
        /\ UNCHANGED <<addr, mCall>> /\ status' = [status EXCEPT ![fam] = s]
    BY <1>3, Zenon DEF QueryOk, Querying, Status
  <2>2. mCall[fam] # 0 => handle[fam]
    BY <1>b, <2>1 DEF Handled
  <2>3. handle' = handle \/ (handle' = [handle EXCEPT ![fam] = FALSE] /\ s = "DISCONNECTED")
    BY <1>3 DEF QueryOk
  <2>4. \/ pc' = "local" /\ fam' = fam /\ fam = "v4" /\ s = "CONNECTED"
        \/ NextFamily("query", "settle")
    BY <1>3 DEF QueryOk
  <2>5. QED
    BY <1>d, <2>1, <2>2, <2>3, <2>4
<1>4. CASE QueryErr
  <2>1. PICK s \in Status : status' = [status EXCEPT ![fam] = s]
                            /\ (s = status[fam] \/ s = "DISCONNECTED")
    BY <1>4, <1>c DEF QueryErr, TypeOK, Status
  <2>2. /\ pc = "query" /\ fam \in Enabled /\ status[fam] # "DISCONNECTED"
        /\ UNCHANGED <<handle, addr, mCall>> /\ NextFamily("query", "settle")
    BY <1>4 DEF QueryErr, Querying
  <2>3. status[fam] # "SUSPENDED"
    BY <1>b, <1>c, <2>2 DEF Linked, Visited
  <2>4. QED
    BY <1>d, <2>1, <2>2, <2>3
\* The address of a connected call is there.
<1>5. CASE LocalAddress
  <2>1. pc = "local" /\ fam = "v4" /\ fam \in Enabled /\ status[fam] = "CONNECTED"
    BY <1>5 DEF LocalAddress, AtFamily
  <2>2. addr[fam] # 0
    BY <1>b, <2>1 DEF Addressed
  <2>3. UNCHANGED <<status, handle, addr, mCall, fam>> /\ pc' = "compare"
    BY <1>5, <2>2 DEF LocalAddress
  <2>4. Handled' /\ Addressed'
    BY <1>a, <1>b, <1>c, <2>1, <2>3 DEF Handled, Addressed, Dark
  <2>5. Linked'
    BY <1>a, <1>b, <2>1, <2>3 DEF Linked, Visited
  <2>6. QED
    BY <2>4, <2>5
\* The modem's address is the program's, or the call will be dropped.
<1>6. CASE CompareAddress
  <2>1. pc = "compare" /\ fam = "v4" /\ fam \in Enabled /\ status[fam] = "CONNECTED"
    BY <1>6 DEF CompareAddress, AtFamily
  <2>2. /\ UNCHANGED <<status, handle, mCall>>
        /\ \A f \in Family : f # fam => addr'[f] = addr[f]
        /\ \/ addr'[fam] = addr[fam] /\ pc' = "query" /\ fam' = "v6"
           \/ pc' = "drop" /\ fam' = fam
    BY <1>6, <2>1 DEF CompareAddress, NextFamily, GetIPOk, GetIPErr, TypeOK
  <2>3. Handled'
    BY <1>a, <1>b, <1>c, <2>1, <2>2 DEF Handled, Dark
  <2>4. Addressed'
    BY <1>a, <1>b, <1>c, <2>1, <2>2 DEF Addressed
  <2>5. Linked'
    BY <1>a, <1>b, <1>c, <2>1, <2>2 DEF Linked, Visited
  <2>6. QED
    BY <2>3, <2>4, <2>5
<1>7. CASE DropCall
  <2>1. /\ pc = "drop" /\ fam = "v4" /\ fam \in Enabled /\ addr' = addr
        /\ pc' = "query" /\ fam' = "v6"
    BY <1>7 DEF DropCall, AtFamily, NextFamily
  <2>2. /\ status'[fam] = "DISCONNECTED"
        /\ \A f \in Family : f # fam => /\ status'[f] = status[f] /\ handle'[f] = handle[f]
                                        /\ mCall'[f] = mCall[f]
    BY <1>7, <1>c DEF DropCall, Deactivate, TypeOK
  <2>3. Handled'
    BY <1>a, <1>b, <1>c, <2>1, <2>2 DEF Handled, Dark
  <2>4. Addressed'
    BY <1>a, <1>b, <1>c, <2>1, <2>2 DEF Addressed
  <2>5. Linked'
    BY <1>a, <1>b, <1>c, <2>1, <2>2 DEF Linked, Visited
  <2>6. QED
    BY <2>3, <2>4, <2>5
<1>8. QED
  BY <1>1, <1>2, <1>3, <1>4, <1>5, <1>6, <1>7 DEF Check

\* When a check settles, either all families are down and so is the link, or
\* the link shows those that are connected and carries their addresses.
LEMMA SettleBacked ==
  ASSUME TypeOK, Handled, Addressed, Linked, Settle
  PROVE  Handled' /\ Addressed' /\ Linked'
<1> DEFINE up == {f \in Family : status[f] = "CONNECTED"}
<1> SUFFICES ASSUME Handling'
             PROVE  Handled' /\ Addressed' /\ Linked'
  BY DEF Handled, Addressed, Linked
<1>a. /\ pc = "settle" /\ pc' = "event" /\ UNCHANGED <<status, handle, mCall>> /\ NoteUnclear
      /\ IF up # {} \/ \A f \in Family : status[f] = "DISCONNECTED" THEN LinkChange(up)
         ELSE UNCHANGED <<link, addr, iface>>
  BY DEF Settle
<1>b. Enabled \subseteq Family
  BY EnabledAssumption
<1>1. CASE \A f \in Family : status[f] = "DISCONNECTED"
  <2>1. LinkChange({})
    <3>1. up = {}
      BY <1>1
    <3>2. QED
      BY <1>1, <1>a, <3>1
  <2>2. link' = {}
    BY <2>1 DEF LinkChange
  <2>3. QED
    BY <1>1, <1>a, <1>b, <2>2 DEF Handled, Addressed, Linked, Visited
<1>2. CASE ~\A f \in Family : status[f] = "DISCONNECTED"
  <2>1. ~unclear /\ \A f \in Enabled : status[f] \in {"CONNECTED", "DISCONNECTED"}
    BY <1>2, <1>a DEF NoteUnclear, Handling
  <2>2. Handling
    BY <1>a, <2>1 DEF Handling, InLoop, InCheck, InStop
  <2>3. \A f \in Family : f \notin Enabled => status[f] = "DISCONNECTED"
    BY <1>a, <2>2 DEF Linked, Visited
  <2>4. up # {} /\ up \subseteq Enabled
    BY <1>2, <2>1, <2>3
  <2>5. \A f \in up : handle[f] /\ addr[f] # 0 /\ (f \in link => iface[f] = addr[f])
    BY <1>a, <1>b, <2>2, <2>4 DEF Handled, Addressed
  <2>6. LinkChange(up)
    BY <1>a, <2>4
  <2>7. link' = up /\ \A f \in up : addr'[f] # 0 /\ iface'[f] = addr'[f]
    <3>1. CASE up = link
      BY <2>5, <2>6, <3>1 DEF LinkChange
    <3>2. CASE up # link
      BY <2>4, <2>5, <2>6, <3>2 DEF LinkChange
    <3>3. QED
      BY <3>1, <3>2
  <2>8. Handled'
    BY <1>a, <1>b, <2>1, <2>2 DEF Handled
  <2>9. Addressed'
    BY <1>a, <1>b, <2>7 DEF Addressed
  <2>10. Linked'
    BY <1>a, <1>b, <2>1, <2>4, <2>7 DEF Linked, Visited
  <2>11. QED
    BY <2>8, <2>9, <2>10
<1>3. QED
  BY <1>1, <1>2

-----------------------------------------------------------------------------
(* The theorem.                                                            *)

\* The invariant holds initially.
LEMMA InitBacked == Init => BackedInv
<1> SUFFICES ASSUME Init PROVE BackedInv
  OBVIOUS
<1>1. <<>> \in Seq(Event \ {"RESET"}) /\ <<>> \in Seq({"STOP"})
  OBVIOUS
<1>2. ~Handling
  BY DEF Init, Handling, InLoop, InStart, InCheck, InStop
<1>3. QED
  BY <1>1, <1>2 DEF Init, BackedInv, NoReset, Before, Dark, Family, Undialled, AtFamily, Handled,
                    Addressed, Linked

\* Every step keeps the invariant.
LEMMA NextBacked ==
  ASSUME ~MayReset, TypeOK, Queued, BackedInv, [Next]_vars
  PROVE  BackedInv'
<1> USE DEF BackedInv
<1>1. NoReset' /\ Before' /\ Undialled' /\ AtFamily'
  BY NoResetStep, BeforeStep, UndialledStep, AtFamilyStep
<1>2. Handled' /\ Addressed' /\ Linked'
  BY SessionBacked, LoopBacked, StartBacked, CheckBacked, SettleBacked, StopBacked, OthersBacked
     DEF Next, MainThread, Exited
<1>3. QED
  BY <1>1, <1>2

\* Without resets, what the program shows of a connection is backed at all times, for
\* either family or both, any addresses, waits and faults: the link is up only for
\* calls not known to be lost, a connected family's interface address is the
\* program's, and every connected call can be hung up. After a reset the calls of the
\* last session are not known to the next.
THEOREM StaysBacked ==
  ASSUME ~MayReset
  PROVE  Spec => []Backed
<1>1. IInv => TypeOK /\ Queued
  BY DEF IInv
<1>2. BackedInv => Backed
  <2> SUFFICES ASSUME BackedInv, ~unclear
               PROVE  LinkBacked /\ InterfaceAddress /\ Releasable
    BY DEF Backed
  <2>1. Settled => Handling /\ \A f \in Family : ~Visited(f)
    BY DEF Settled, Handling, InLoop, InStart, InStop, Visited
  <2>2. Settled => \A f \in link \cap Family : f \in Enabled /\ status[f] = "CONNECTED"
    BY <2>1 DEF BackedInv, Linked
  <2>3. LinkBacked
    BY <2>2 DEF LinkBacked
  <2>4. InterfaceAddress
    BY <2>1, <2>2 DEF InterfaceAddress, BackedInv, Addressed, Settled, InStart
  <2>5. Releasable
    BY DEF Releasable, BackedInv, Handled, Handling
  <2>6. QED
    BY <2>3, <2>4, <2>5
<1>3. TypeOK /\ Queued /\ BackedInv /\ [Next]_vars => BackedInv'
  BY NextBacked
<1>4. QED
  BY InitBacked, SpecIInv, <1>1, <1>2, <1>3, PTL DEF Spec
=============================================================================
