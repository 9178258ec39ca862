---------------------------- MODULE MCSettlement ----------------------------
(***************************************************************************)
(* Small instances for TLC of what the server keeps of a person and of     *)
(* their bookings: a booking's making (BookingIntake), its payment         *)
(* (Settlement), its review (Reviews), the emergency contacts              *)
(* (ContactLinks) and the audit log (AuditChain).  They share no variable, *)
(* so one component moves in a behaviour: part, of the Parts of the run.   *)
(***************************************************************************)
EXTENDS Settlement, BookingIntake, Reviews, AuditChain, ContactLinks, TLC
CONSTANTS
    Parts,
    b1, p1, p2, p3,             \* bookings and payments
    v1, v2, v3, v4, v5, v6,     \* review requests
    w1, w2, w3                  \* mechanics

OneBooking == {b1}
ThreePayments == {p1, p2, p3}

\* v1 and v2 rate one booking; w1 did three of the bookings.
SixReviewers == {v1, v2, v3, v4, v5, v6}
ThreeWorkers == {w1, w2, w3}
BookingRated == [v \in Reviewers |-> IF v = v2 THEN v1 ELSE v]
WorkRated == [v \in Reviewers |-> IF v \in {v1, v2, v3} THEN w1 ELSE IF v \in {v4, v5} THEN w2 ELSE w3]
HowTheyCame == [w \in Workers |-> IF w = w1 THEN "arrived" ELSE IF w = w2 THEN "never" ELSE "before"]

VARIABLE part

RecordsInit ==
    part \in Parts /\ Init /\ IntakeInit /\ ReviewsInit /\ AuditInit /\ ContactsInit

RecordsNext ==
    /\ UNCHANGED part
    /\ \/ part = "settlement" /\ Next /\ UNCHANGED <<intakeVars, reviewVars, auditVars, contactVars>>
       \/ part = "intake" /\ IntakeNext /\ UNCHANGED <<vars, reviewVars, auditVars, contactVars>>
       \/ part = "reviews" /\ ReviewsNext /\ UNCHANGED <<vars, intakeVars, auditVars, contactVars>>
       \/ part = "audit" /\ AuditNext /\ UNCHANGED <<vars, intakeVars, reviewVars, contactVars>>
       \/ part = "contacts" /\ ContactsNext /\ UNCHANGED <<vars, intakeVars, reviewVars, auditVars>>

RecordsSpec ==
    /\ RecordsInit
    /\ [][RecordsNext]_<<part, vars, intakeVars, reviewVars, auditVars, contactVars>>
    /\ Fairness
=============================================================================
