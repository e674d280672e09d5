------------------------------ MODULE ChatTurn ------------------------------
(***************************************************************************)
(* What one chat turn promises, whichever path it takes: the outcome is    *)
(* recorded in chat_logs, or its loss is counted, before the user gets it; *)
(* the user gets the outcome that was recorded; and every turn ends.  A    *)
(* turn may also be dropped without an outcome (an unhandled exception, a  *)
(* client that goes away).                                                 *)
(***************************************************************************)
VARIABLES
    phase,      \* "idle", "open", "recorded", "closed" or "dropped"
    record,     \* what chat_logs says of the turn
    answer      \* what the user got

turnVars == <<phase, record, answer>>

Outcomes == {"success", "fallback"}

Init ==
    /\ phase = "idle"
    /\ record = "none"
    /\ answer = "none"

Open ==
    /\ phase = "idle"
    /\ phase' = "open"
    /\ UNCHANGED <<record, answer>>

Record ==
    /\ phase = "open"
    /\ phase' = "recorded"
    /\ record' \in Outcomes \cup {"lost"}
    /\ UNCHANGED answer

Close ==
    /\ phase = "recorded"
    /\ phase' = "closed"
    /\ answer' \in IF record = "lost" THEN Outcomes ELSE {record}
    /\ UNCHANGED record

Drop ==
    /\ phase \in {"open", "recorded"}
    /\ phase' = "dropped"
    /\ UNCHANGED <<record, answer>>

NextTurn ==
    /\ phase \in {"closed", "dropped"}
    /\ phase' = "idle"
    /\ record' = "none"
    /\ answer' = "none"

Next == Open \/ Record \/ Close \/ Drop \/ NextTurn

Spec == Init /\ [][Next]_turnVars /\ WF_turnVars(Record) /\ WF_turnVars(Close)
=============================================================================
