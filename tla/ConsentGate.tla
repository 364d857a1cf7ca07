------------------------------ MODULE ConsentGate ------------------------------
(***************************************************************************)
(* What every front end promises about requests that change the managed    *)
(* state (installed skills, packs and bills, receipts, Pro devices): such  *)
(* a change happens only while a request is in service that its sender     *)
(* confirmed and that is not a plan; a request that is refused, or told    *)
(* that it must be confirmed, has changed nothing; an answer is final.     *)
(***************************************************************************)

VARIABLES
  consent,   \* "none" between requests, else "given" or "withheld"
  changed,   \* the request in service has changed managed state
  answer     \* "none", "refused" or "done"

gateVars == <<consent, changed, answer>>

Init == consent = "none" /\ changed = FALSE /\ answer = "none"

\* A request comes; some are refused at once.
Ask ==
  /\ consent = "none"
  /\ consent' \in {"given", "withheld"}
  /\ answer' \in {"none", "refused"}
  /\ UNCHANGED changed

\* The sender is asked, and agrees.
Confirm ==
  /\ consent = "withheld" /\ answer = "none"
  /\ consent' = "given"
  /\ UNCHANGED <<changed, answer>>

Change ==
  /\ consent = "given" /\ answer = "none"
  /\ changed' = TRUE
  /\ UNCHANGED <<consent, answer>>

Refuse ==
  /\ consent # "none" /\ answer = "none" /\ ~changed
  /\ answer' = "refused"
  /\ UNCHANGED <<consent, changed>>

Finish ==
  /\ consent # "none" /\ answer = "none"
  /\ answer' = "done"
  /\ UNCHANGED <<consent, changed>>

\* A request is over; one that gets no answer ends here too.
Forget ==
  /\ consent # "none"
  /\ consent' = "none" /\ changed' = FALSE /\ answer' = "none"

Next == Ask \/ Confirm \/ Change \/ Refuse \/ Finish \/ Forget

Spec == Init /\ [][Next]_gateVars
=============================================================================
