----------------------------- MODULE Allocation -----------------------------
(***************************************************************************)
(* What the dispatch and accept machinery promises, with no offers, waves, *)
(* locks or sweeper in sight: a booking follows its state machine, gets a  *)
(* mechanic once, while it is being matched, and never one who is on       *)
(* another job.  Dispatch implements this.                                 *)
(***************************************************************************)
EXTENDS BookingMachine

CONSTANTS Bookings, Mechanics, Nobody
VARIABLES status, mechanic

Init ==
    /\ status = [b \in Bookings |-> "REQUESTED"]
    /\ mechanic = [b \in Bookings |-> Nobody]

Free(m) == \A b \in Bookings : mechanic[b] = m => status[b] \notin Committed

\* A search starts, or starts again; it may find nobody at once.
Search(b) ==
    /\ status[b] \in {"REQUESTED", "MATCHING", "NO_SUPPLY"}
    /\ mechanic[b] = Nobody
    /\ \E to \in {"MATCHING", "NO_SUPPLY"} : status' = [status EXCEPT ![b] = to]
    /\ UNCHANGED mechanic

Assign(b, m) ==
    /\ status[b] = "MATCHING"
    /\ mechanic[b] = Nobody
    /\ Free(m)
    /\ status' = [status EXCEPT ![b] = "ASSIGNED"]
    /\ mechanic' = [mechanic EXCEPT ![b] = m]

\* Any command the state machine allows here.
Do(b) ==
    /\ \E edge \in Transitions :
         edge[1] = status[b] /\ status' = [status EXCEPT ![b] = edge[3]]
    /\ UNCHANGED mechanic

Next ==
    \E b \in Bookings :
        \/ Search(b)
        \/ \E m \in Mechanics : Assign(b, m)
        \/ Do(b)

Spec == Init /\ [][Next]_<<status, mechanic>>
=============================================================================
