------------------------------- MODULE QmiRpc -------------------------------
(***************************************************************************)
(* What the command layer of quectel-CM promises to the request functions: *)
(* one call at a time, and a call returns the modem's answer to this very  *)
(* call, or nothing.                                                       *)
(***************************************************************************)
CONSTANTS Id, NoId

VARIABLES
  made,      \* the calls that were made
  open,      \* the call that has not returned
  answered,  \* the calls the modem has answered
  got        \* the call whose answer was returned last; NoId: none

Init == made = {} /\ open = NoId /\ answered = {} /\ got = NoId

Call ==
  /\ open = NoId
  /\ \E i \in Id \ made : open' = i /\ made' = made \cup {i}
  /\ UNCHANGED <<answered, got>>

Answer ==
  /\ \E i \in made \ answered : answered' = answered \cup {i}
  /\ UNCHANGED <<made, open, got>>

Return ==
  /\ open # NoId /\ open' = NoId
  /\ got' \in {NoId} \cup ({open} \cap answered)
  /\ UNCHANGED <<made, answered>>

rpcVars == <<made, open, answered, got>>

Next == Call \/ Answer \/ Return

Spec == Init /\ [][Next]_rpcVars

\* Every call returns.
Returns == open # NoId ~> open = NoId
=============================================================================
