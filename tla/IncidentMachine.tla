-------------------------- MODULE IncidentMachine --------------------------
(* The emergency state machine of domain/incident-machine.ts: from, command, to. *)

IncidentStatus ==
    {"DETECTED", "AWAITING_CONFIRMATION", "CONFIRMED", "CANCELLED", "RESPONDING", "RESOLVED"}
Signal == {"DETECTED", "AWAITING_CONFIRMATION"}     \* nobody has stood behind it yet
Closed == {"RESOLVED", "CANCELLED"}
Unclosed == IncidentStatus \ Closed

IncidentTransitions ==
    Signal \X {"confirm"} \X {"CONFIRMED"}
    \cup {"CONFIRMED", "RESPONDING"} \X {"escalate"} \X {"RESPONDING"}
    \cup {"CONFIRMED", "RESPONDING"} \X {"resolve"} \X {"RESOLVED"}
    \cup Unclosed \X {"cancel"} \X {"CANCELLED"}

AppliesIncident(from, command, to) == <<from, command, to>> \in IncidentTransitions
=============================================================================
