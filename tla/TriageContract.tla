-------------------------- MODULE TriageContract --------------------------
(***************************************************************************)
(* What one triage run promises to the analyst, whatever happens inside:   *)
(* the run analyses the email and may meet faults; it then makes exactly   *)
(* one recommendation, never AUTO once a fault has been met, and never     *)
(* changes it; it ends with an archived report or with an explicit         *)
(* failure.                                                                *)
(***************************************************************************)
CONSTANT Faults

VARIABLES stage, faults, action

vars == <<stage, faults, action>>

Init == stage = "analysing" /\ faults = {} /\ action = "REVIEW"

MeetFault ==
    /\ stage = "analysing"
    /\ \E f \in Faults : faults' = faults \cup {f}
    /\ UNCHANGED <<stage, action>>

Recommend ==
    /\ stage = "analysing" /\ stage' = "recommended"
    /\ action' \in IF faults = {} THEN {"AUTO", "REVIEW", "ESCALATE"}
                                  ELSE {"REVIEW", "ESCALATE"}
    /\ UNCHANGED faults

Archive == stage = "recommended" /\ stage' = "archived" /\ UNCHANGED <<faults, action>>

Fail ==
    /\ stage \in {"analysing", "recommended"} /\ stage' = "failed"
    /\ UNCHANGED <<faults, action>>

Next == MeetFault \/ Recommend \/ Archive \/ Fail

Spec == Init /\ [][Next]_vars

\* The analysis may go on for a while, not for ever.
FairSpec == Spec /\ WF_vars(Recommend \/ Archive \/ Fail)
=============================================================================
