--------------------------- MODULE QmiRegistration ---------------------------
(***************************************************************************)
(* What QMIThread.c makes of the modem's answer about the networks it is   *)
(* on. The answer is a list of TLVs in the modem's order, two for each     *)
(* network: its service status and its system information. They are read   *)
(* one by one into the statics and the caller's attach state, which the    *)
(* next StartNwInterface takes its technology, APN and account from. Modems *)
(* that are not "9x07" give one serving system instead.                    *)
(***************************************************************************)
EXTENDS Integers, FiniteSets

CONSTANTS
  Most,    \* bound on the networks of an answer
  Digits   \* country codes of home networks, as triples of digits

Rat == {"cdma", "hdr", "gsm", "lte", "nr5g"}
Tlv == [kind : {"status", "info"}, rat : Rat]
NoDial == [tech |-> "none"]

VARIABLES
  raw,       \* s_9x07
  profile,   \* of the options: there are an APN, an account, a profile index
  serving,   \* networks in service in the answer being read, or the last one
  packets,   \* those that serve packets
  home,      \* the digits of the home network's country code
  todo,      \* TLVs not read yet
  pc,        \* idle, reading
  lte,       \* is_lte
  cdma,      \* s_is_cdma
  attached,  \* *pPSAttachedState
  mcc,       \* MobileCountryCode, -1 when none was read
  ok,        \* the last query was answered
  dial       \* what StartNwInterface asked for since the last query

answerVars == <<serving, packets, home>>
vars == <<raw, profile, answerVars, todo, pc, lte, cdma, attached, mcc, ok, dial>>

TypeOK ==
  /\ raw \in BOOLEAN /\ profile \in [apn : BOOLEAN, user : BOOLEAN, index : BOOLEAN]
  /\ serving \in SUBSET Rat /\ packets \in SUBSET serving /\ home \in Digits
  /\ todo \in SUBSET Tlv /\ pc \in {"idle", "reading"} /\ (pc = "idle" => todo = {})
  /\ lte \in BOOLEAN /\ cdma \in BOOLEAN /\ attached \in BOOLEAN /\ ok \in BOOLEAN
  /\ mcc \in -1..999
  /\ \/ dial = NoDial
     \/ dial \in [tech : {"3gpp", "3gpp2"}, apn : BOOLEAN, user : {"none", "own", "ctnet"},
                  index : BOOLEAN, of : SUBSET Rat]

Init ==
  /\ raw \in BOOLEAN /\ profile \in [apn : BOOLEAN, user : BOOLEAN, index : BOOLEAN]
  /\ serving = {} /\ packets = {} /\ home \in Digits
  /\ todo = {} /\ pc = "idle" /\ lte = FALSE /\ cdma = FALSE /\ attached = FALSE
  /\ mcc = -1 /\ ok = FALSE /\ dial = NoDial

-----------------------------------------------------------------------------
(* A CDMA country code counts its digits from 1 to 10, less 111.           *)

\* Variant: a zero borrows no ten.
LessPlain(b) == b \div 10
Less(b) == IF b % 10 = 0 THEN (b - 10) \div 10 ELSE b \div 10

\* quectel_convert_cdma_mcc_2_ascii_mcc(); 16#3FF is the wild card.
Decoded(code) ==
  LET b == code + 111
      first == Less(Less(b))
      d1 == IF first = 10 THEN 0 ELSE first
  IN IF code = 1023 THEN 3 ELSE IF d1 < 10 THEN 100 * d1 + 10 * (Less(b) % 10) + (b % 10) ELSE 0

\* The code by which the modem gives three digits.
Coded(d) ==
  LET up(i) == IF d[i] = 0 THEN 10 ELSE d[i] IN 100 * up(1) + 10 * up(2) + up(3) - 111

\* requestGetHomeNetwork(): an error, or the code 0, leaves the country alone.
HomeNetwork ==
  mcc' \in {mcc} \cup (IF Coded(home) = 0 THEN {} ELSE {Decoded(Coded(home))})

-----------------------------------------------------------------------------
(* requestRegistrationState2(), for a 9x07.                                *)

\* Variant: the state is cleared with the answer.
ForgottenLate == UNCHANGED attached

\* The caller's state is cleared before the request, so no answer, or an error,
\* is not attached; the statics are cleared only for an answer.
Forgotten == attached' = FALSE
QueryErr ==
  /\ pc = "idle" /\ raw /\ Forgotten /\ ok' = FALSE /\ dial' = NoDial
  /\ UNCHANGED <<raw, profile, answerVars, todo, pc, lte, cdma, mcc>>

Query ==
  /\ pc = "idle" /\ raw /\ pc' = "reading" /\ Forgotten /\ ok' = TRUE /\ dial' = NoDial
  /\ serving' \in {s \in SUBSET Rat : Cardinality(s) <= Most} /\ packets' \in SUBSET serving'
  /\ todo' = [kind : {"status", "info"}, rat : serving']
  /\ lte' = FALSE /\ cdma' = FALSE /\ mcc' = -1
  /\ UNCHANGED <<raw, profile, home>>

\* Variant: CDMA wins over what was read before it.
SetsCdmaAlways == cdma' = TRUE /\ UNCHANGED lte

\* CDMA and HDR count as long as no LTE or 5G was read; these undo them.
SetsCdma == cdma' = ~lte /\ UNCHANGED lte
SetsLte == lte' = TRUE /\ cdma' = FALSE
Take(t) ==
  /\ pc = "reading" /\ t \in todo /\ todo' = todo \ {t}
  /\ IF t.rat \in {"cdma", "hdr"} /\ (t.kind = "status" \/ t.rat \in packets) THEN SetsCdma
     ELSE IF t.rat \in {"lte", "nr5g"} /\ (t.kind = "status" \/ t.rat \in packets \ {"nr5g"})
     THEN SetsLte ELSE UNCHANGED <<lte, cdma>>
  /\ attached' = (attached \/ (t.kind = "info" /\ t.rat \in packets))
  /\ IF t = [kind |-> "info", rat |-> "hdr"] THEN HomeNetwork ELSE UNCHANGED mcc
  /\ UNCHANGED <<raw, profile, answerVars, pc, ok, dial>>

Return ==
  /\ pc = "reading" /\ todo = {} /\ pc' = "idle"
  /\ UNCHANGED <<raw, profile, answerVars, todo, lte, cdma, attached, mcc, ok, dial>>

-----------------------------------------------------------------------------
(* requestRegistrationState() of an older modem, and the request to dial.  *)

\* No answer leaves everything as it was, the caller's state too.
OldQuery ==
  /\ pc = "idle" /\ ~raw
  /\ serving' \in {{}} \cup {{r} : r \in {"cdma", "gsm", "lte"}}
  /\ packets' \in SUBSET serving'
  /\ attached' = (packets' # {}) /\ cdma' = ("cdma" \in serving') /\ ok' = TRUE
  /\ (IF cdma' THEN HomeNetwork ELSE mcc' = -1) /\ dial' = NoDial
  /\ UNCHANGED <<raw, profile, home, todo, pc, lte>>
OldQueryErr ==
  /\ pc = "idle" /\ ~raw /\ ok' = FALSE /\ dial' = NoDial
  /\ UNCHANGED <<raw, profile, answerVars, todo, pc, lte, cdma, attached, mcc>>

\* WdsStartNwInterfaceReq(): CDMA has neither APN nor profile index, and an
\* account of its own when the options give none.
Dial ==
  /\ pc = "idle" /\ attached
  /\ dial' = [tech |-> IF cdma THEN "3gpp2" ELSE "3gpp",
              apn |-> profile.apn /\ ~cdma, index |-> profile.index /\ ~cdma,
              user |-> IF profile.user THEN "own" ELSE IF cdma THEN "ctnet" ELSE "none",
              of |-> serving]
  /\ UNCHANGED <<raw, profile, answerVars, todo, pc, lte, cdma, attached, mcc, ok>>

Next ==
  \/ QueryErr \/ Query \/ (\E t \in todo : Take(t)) \/ Return
  \/ OldQuery \/ OldQueryErr \/ Dial
Spec == Init /\ [][Next]_vars

-----------------------------------------------------------------------------
(* Properties.                                                             *)

\* Whatever the order of the TLVs, a call is dialled as CDMA exactly when a CDMA
\* network serves and neither LTE nor 5G does, and only another one has an APN.
DialFits ==
  dial # NoDial =>
    /\ (dial.tech = "3gpp2") <=> (dial.of \cap {"cdma", "hdr"} # {} /\ dial.of \cap {"lte", "nr5g"} = {})
    /\ (dial.apn \/ dial.index) => dial.tech = "3gpp"
    /\ dial.user = "ctnet" => dial.tech = "3gpp2"

\* The country of a CDMA home network is the one whose digits the modem coded,
\* with every zero among them.
HomeCode == mcc # -1 => mcc = 100 * home[1] + 10 * home[2] + home[3]

\* What they rest on: the status of a network that serves is in the statics as
\* soon as it has been read, and LTE or 5G once read stays.
Read ==
  /\ todo \subseteq [kind : {"status", "info"}, rat : serving]
  /\ raw =>
       /\ lte => serving \cap {"lte", "nr5g"} # {}
       /\ cdma => serving \cap {"cdma", "hdr"} # {} /\ ~lte
       /\ \A r \in serving \cap {"lte", "nr5g"} : [kind |-> "status", rat |-> r] \notin todo => lte
       /\ \A r \in serving \cap {"cdma", "hdr"} :
            [kind |-> "status", rat |-> r] \notin todo => cdma \/ lte
  /\ ~raw =>
       /\ pc = "idle" /\ ~lte /\ (cdma <=> "cdma" \in serving)
       /\ serving \subseteq {"cdma", "gsm", "lte"} /\ ("cdma" \in serving => "lte" \notin serving)
RegistrationInv == TypeOK /\ Read /\ DialFits /\ HomeCode

\* A 9x07 is not dialled on the attach state of an earlier answer after a query
\* that failed.
FreshDial == dial' \notin {dial, NoDial} /\ raw => ok
Fresh == [][FreshDial]_vars

=============================================================================
