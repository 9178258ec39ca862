--------------------------- MODULE DispatchProofs ---------------------------
(***************************************************************************)
(* Theorems about Dispatch, for every number of bookings and mechanics,    *)
(* every search plan, every role and command, and any number of faults.    *)
(*                                                                         *)
(* None of OneJob, AssignmentMatchesOffer or CancelledHasNoOpenOffer is    *)
(* inductive: what makes them hold is which row locks are held while a     *)
(* decision is being made, and that is what LockDiscipline says.  Together *)
(* they are (Safe).  On Safe rest the refinement of Allocation, the facts  *)
(* about the ladder - one wave at a time, no search forgotten - and the    *)
(* count of finished jobs.                                                 *)
(***************************************************************************)
EXTENDS Dispatch, FiniteSetTheorems, TLAPS

-----------------------------------------------------------------------------
(* The state machine's table *)

\* What the proofs need of TRANSITIONS: a booking enters "on a job" only from
\* MATCHING or from on a job, never leaves it for the search, and a finished
\* one goes nowhere but from COMPLETED to PAID.
LEMMA TableFacts ==
    ASSUME NEW s, NEW c, NEW t, Applies(s, c, t)
    PROVE  /\ s \in Status /\ t \in Status
           /\ t \in Committed => s \in Committed \cup {"MATCHING"}
           /\ s \in Committed => t \in Committed \cup {"COMPLETED", "CANCELLED"}
           /\ s = "COMPLETED" => t = "PAID"
           /\ s \notin {"PAID", "CANCELLED"}
BY DEF Applies, Transitions, Cancellable, Committed, Status

\* A wave is made of candidates, and a candidate was never offered the booking.
LEMMA WaveFacts ==
    ASSUME NEW b \in Bookings, NEW p \in Plans, NEW W \in Waves(b, p)
    PROVE  /\ W \subseteq Mechanics
           /\ \A m \in W : offer[b][m] = "NONE"
BY DispatchAssumption DEF Waves, Candidates

-----------------------------------------------------------------------------
(* Type correctness *)

LEMMA NoLadderType == NoLadder \in Ladders
BY DispatchAssumption DEF NoLadder, Ladders

LEMMA NothingOwedType == [b \in Bookings |-> {}] \in [Bookings -> SUBSET Reasons]
<1>1. {} \in SUBSET Reasons
  OBVIOUS
<1> QED BY <1>1

\* Changing one field of a lock's record keeps it a lock's record.
LEMMA LadderField ==
    ASSUME NEW l \in Ladders
    PROVE  /\ [l EXCEPT !.pc = "sent"] \in Ladders
           /\ [l EXCEPT !.seen = "changed"] \in Ladders
           /\ l.wave \subseteq Mechanics /\ l.plan \in Plans
BY DEF Ladders

\* Every variable keeps its type in every reachable state.
THEOREM TypeCorrect == Spec => []TypeOK
<1>1. Init => TypeOK
  <2> SUFFICES ASSUME Init PROVE TypeOK
    OBVIOUS
  <2>1. /\ status \in [Bookings -> Status]
        /\ mechanic \in [Bookings -> Mechanics \cup {Nobody}]
        /\ plan \in [Bookings -> Plans]
        /\ offer \in [Bookings -> [Mechanics -> OfferStatus]]
        /\ jobs \in [Mechanics -> Nat]
    BY DispatchAssumption DEF Init, Status, OfferStatus
  <2>2. /\ onDuty \subseteq Mechanics
        /\ acceptor \in [Bookings -> Mechanics \cup {Nobody}]
        /\ wrote \subseteq Bookings
        /\ noted \subseteq Pairs
        /\ sweeping \in BOOLEAN /\ dueNow \in BOOLEAN /\ faults \in Nat
    BY DEF Init
  <2>3. owed \in [Bookings -> SUBSET Reasons]
    BY NothingOwedType DEF Init
  <2>4. ladder \in [Bookings -> Ladders]
    BY NoLadderType DEF Init
  <2> QED BY <2>1, <2>2, <2>3, <2>4 DEF TypeOK
<1>2. TypeOK /\ [Next]_vars => TypeOK'
  <2> SUFFICES ASSUME TypeOK, [Next]_vars PROVE TypeOK'
    OBVIOUS
  <2> USE DispatchAssumption DEF TypeOK
  <2>1. ASSUME NEW b \in Bookings, NEW p \in Plans, RouteRead(b, p) PROVE TypeOK'
    BY <2>1 DEF RouteRead, db, server, NoLadder, Ladders
  <2>2. ASSUME NEW b \in Bookings, RouteClaim(b) PROVE TypeOK'
    BY <2>2, WaveFacts DEF RouteClaim, FindWave, db, server, Ladders
  <2>3. ASSUME NEW b \in Bookings, RouteConflict(b) PROVE TypeOK'
    BY <2>3 DEF RouteConflict, db, server, NoLadder, Ladders
  <2>4. ASSUME NEW b \in Bookings, SendWave(b) PROVE TypeOK'
    <3>1. ladder' \in [Bookings -> Ladders]
      BY <2>4, LadderField DEF SendWave
    <3>2. {b} \X ladder[b].wave \subseteq Pairs
      BY LadderField DEF Pairs
    <3>3. noted' \subseteq Pairs
      BY <2>4, <3>2 DEF SendWave, Note
    <3> QED BY <2>4, <3>1, <3>3 DEF SendWave, db, server
  <2>5. ASSUME NEW b \in Bookings, LadderCommit(b) PROVE TypeOK'
    BY <2>5 DEF LadderCommit, Outcome, server, NoLadder, Ladders, OfferStatus, Status
  <2>6. ASSUME NEW b \in Bookings, NEW r \in Reasons, EscalateStandDown(b, r) PROVE TypeOK'
    BY <2>6 DEF EscalateStandDown, Discharge, db, txs
  <2>7. ASSUME NEW b \in Bookings, NEW r \in Reasons, EscalateFind(b, r) PROVE TypeOK'
    BY <2>7, WaveFacts DEF EscalateFind, FindWave, Discharge, db, Ladders
  <2>8. ASSUME NEW b \in Bookings, NEW r \in Reasons, EscalateFails(b, r) PROVE TypeOK'
    <3>1. owed' \in [Bookings -> SUBSET Reasons]
      <4>1. \A c \in Bookings : \A q : owed[c] \ {q} \in SUBSET Reasons
        OBVIOUS
      <4>2. CASE r = "expired"
        <5>1. owed' = [c \in Bookings |-> owed[c] \ {"expired"}]
          BY <2>8, <4>2 DEF EscalateFails
        <5>2. \A c \in Bookings : owed[c] \ {"expired"} \in SUBSET Reasons
          BY <4>1
        <5> QED BY <5>1, <5>2
      <4>3. CASE r # "expired"
        <5>1. owed' = [owed EXCEPT ![b] = owed[b] \ {r}]
          BY <2>8, <4>3 DEF EscalateFails, Discharge
        <5> QED BY <5>1
      <4> QED BY <4>2, <4>3
    <3>2. sweeping' \in BOOLEAN /\ noted' \subseteq Pairs /\ dueNow' \in BOOLEAN
      <4>1. CASE r = "expired"
        BY <2>8, <4>1 DEF EscalateFails
      <4>2. CASE r # "expired"
        BY <2>8, <4>2 DEF EscalateFails
      <4> QED BY <4>1, <4>2
    <3>3. faults' \in Nat
      BY <2>8 DEF EscalateFails
    <3> QED BY <2>8, <3>1, <3>2, <3>3 DEF EscalateFails, db, txs
  <2>9. ASSUME NEW b \in Bookings, NEW m \in Mechanics, AcceptLock(b, m) PROVE TypeOK'
    BY <2>9 DEF AcceptLock, db, server
  <2>10. ASSUME NEW b \in Bookings, NEW m \in Mechanics, AcceptTooLate(b, m) PROVE TypeOK'
    BY <2>10 DEF AcceptTooLate, txs, server, OfferStatus
  <2>11. ASSUME NEW b \in Bookings, AcceptBusy(b) \/ AcceptWrite(b) \/ AcceptVictim(b) PROVE TypeOK'
    BY <2>11 DEF AcceptBusy, AcceptWrite, AcceptVictim, db, server
  <2>12. ASSUME NEW b \in Bookings, AcceptCommit(b) PROVE TypeOK'
    BY <2>12 DEF AcceptCommit, Accepted, OwedAfterAccept, Reasons, OfferStatus, Status
  <2>13. ASSUME NEW b \in Bookings, NEW m \in Mechanics, Decline(b, m) PROVE TypeOK'
    BY <2>13 DEF Decline, txs, OfferStatus, Reasons
  <2>14. ASSUME NEW b \in Bookings, NEW m \in Mechanics, Lapse(b, m) PROVE TypeOK'
    BY <2>14 DEF Lapse, txs, OfferStatus
  <2>15. ASSUME NEW b \in Bookings, NEW c \in Commands, NEW role \in Roles, Transition(b, c, role)
         PROVE TypeOK'
    <3>1. /\ status' \in [Bookings -> Status] /\ offer' \in [Bookings -> [Mechanics -> OfferStatus]]
      BY <2>15 DEF Transition, OffersAfter, OfferStatus
    <3>2. jobs' \in [Mechanics -> Nat]
      BY <2>15 DEF Transition
    <3>3. ladder' \in [Bookings -> Ladders]
      BY <2>15, LadderField DEF Transition
    <3> QED BY <2>15, <3>1, <3>2, <3>3 DEF Transition, server
  <2>16. ASSUME NEW b \in Bookings, Settle(b) PROVE TypeOK'
    BY <2>16 DEF Settle, txs, server, Status
  <2>17. ASSUME NEW m \in Mechanics, SetAvailability(m) PROVE TypeOK'
    BY <2>17 DEF SetAvailability, txs, server
  <2>18. CASE SweepStart
    BY <2>18 DEF SweepStart, txs, OfferStatus, Reasons
  <2>19. CASE SweepEnd
    BY <2>19 DEF SweepEnd, Note, db, txs, Pairs
  <2>20. CASE Restart
    <3>1. owed' \in [Bookings -> SUBSET Reasons]
      BY <2>20, NothingOwedType DEF Restart
    <3>2. ladder' \in [Bookings -> Ladders]
      BY <2>20, NoLadderType DEF Restart
    <3>3. acceptor' \in [Bookings -> Mechanics \cup {Nobody}] /\ wrote' \subseteq Bookings
      BY <2>20 DEF Restart
    <3>4. UNCHANGED <<status, mechanic, plan, offer, onDuty, jobs>>
      BY <2>20 DEF Restart, db
    <3>5. sweeping' = FALSE /\ noted' = {} /\ dueNow' = TRUE /\ faults' = faults + 1
      BY <2>20, Zenon DEF Restart
    <3>6. faults' \in Nat
      BY <3>5
    <3>7. noted' \subseteq Pairs /\ sweeping' \in BOOLEAN /\ dueNow' \in BOOLEAN
      BY <3>5
    <3> QED BY <3>1, <3>2, <3>3, <3>4, <3>6, <3>7
  <2>21. CASE UNCHANGED vars
    BY <2>21 DEF vars, db, txs, server
  <2> QED
    BY <2>1, <2>2, <2>3, <2>4, <2>5, <2>6, <2>7, <2>8, <2>9, <2>10, <2>11, <2>12, <2>13,
       <2>14, <2>15, <2>16, <2>17, <2>18, <2>19, <2>20, <2>21
    DEF Next, Ladder, Accept
<1> QED BY <1>1, <1>2, PTL DEF Spec

-----------------------------------------------------------------------------
(* The safety of the accept race *)

Safe ==
    /\ OneJob
    /\ AssignmentMatchesOffer
    /\ CancelledHasNoOpenOffer
    /\ LockDiscipline

\* A step that touches no booking, no offer and no accept, and keeps what a
\* search has seen and found, keeps Safe.
LEMMA QuietStep ==
    ASSUME Safe,
           UNCHANGED <<status, mechanic, offer, acceptor, wrote>>,
           \A b \in Bookings :
              \/ ladder'[b] = ladder[b]
              \/ ladder'[b].pc = "idle"
              \/ ladder'[b].pc = "read" /\ ladder'[b].seen \in {"REQUESTED", "MATCHING", "NO_SUPPLY", "changed"}
              \/ /\ ladder'[b].pc \in {"found", "sent"}
                 /\ acceptor[b] = Nobody /\ mechanic[b] = Nobody
                 /\ status[b] \in {"REQUESTED", "MATCHING", "NO_SUPPLY"}
                 /\ \A m \in ladder'[b].wave : offer[b][m] = "NONE"
    PROVE  Safe'
<1>1. OneJob' /\ AssignmentMatchesOffer' /\ CancelledHasNoOpenOffer'
  BY DEF Safe, OneJob, AssignmentMatchesOffer, CancelledHasNoOpenOffer, OnJob, Sent
<1>2. LockDiscipline'
  BY DEF Safe, LockDiscipline, OnJob
<1> QED BY <1>1, <1>2 DEF Safe

\* A step that only closes open offers, or lets their time pass, keeps Safe.
LEMMA ClosingStep ==
    ASSUME Safe, TypeOK,
           UNCHANGED <<status, mechanic, ladder, acceptor, wrote>>,
           \A b \in Bookings, m \in Mechanics :
              \/ offer'[b][m] = offer[b][m]
              \/ offer[b][m] \in Open /\ offer'[b][m] \in {"OVERDUE", "DECLINED", "EXPIRED"}
    PROVE  Safe'
<1>1. OneJob'
  BY DEF Safe, OneJob, OnJob
<1>2. AssignmentMatchesOffer' /\ CancelledHasNoOpenOffer'
  BY DEF Safe, AssignmentMatchesOffer, CancelledHasNoOpenOffer, Sent, Open
<1>3. LockDiscipline'
  <2>1. \A b \in Bookings : ladder[b].wave \subseteq Mechanics
    BY LadderField DEF TypeOK
  <2>2. \A b \in Bookings : \A m \in Mechanics : offer[b][m] = "NONE" => offer'[b][m] = "NONE"
    BY DEF Open
  <2> QED BY <2>1, <2>2 DEF Safe, LockDiscipline, OnJob
<1> QED BY <1>1, <1>2, <1>3 DEF Safe

\* A wave or an exhausted search commits.
LEMMA LadderCommitSafe ==
    ASSUME Safe, TypeOK, NEW b \in Bookings, LadderCommit(b)
    PROVE  Safe'
<1>1. /\ acceptor[b] = Nobody /\ mechanic[b] = Nobody
      /\ status[b] \in {"REQUESTED", "MATCHING", "NO_SUPPLY"}
      /\ \A m \in ladder[b].wave : offer[b][m] = "NONE"
  BY DEF LadderCommit, Safe, LockDiscipline
<1>2. /\ status'[b] \in {"MATCHING", "NO_SUPPLY"}
      /\ \A c \in Bookings \ {b} : status'[c] = status[c] /\ offer'[c] = offer[c] /\ ladder'[c] = ladder[c]
      /\ ladder'[b] = NoLadder
      /\ \A m \in Mechanics : offer'[b][m] = IF m \in ladder[b].wave THEN "SENT" ELSE offer[b][m]
      /\ UNCHANGED <<mechanic, acceptor, wrote>>
  BY DEF LadderCommit, Outcome, TypeOK
<1>3. \A m : OnJob(m)' = OnJob(m)
  BY <1>1, <1>2 DEF OnJob, Committed
<1>4. OneJob'
  BY <1>3 DEF Safe, OneJob
<1>5. AssignmentMatchesOffer' /\ CancelledHasNoOpenOffer'
  BY <1>1, <1>2, DispatchAssumption DEF Safe, AssignmentMatchesOffer, CancelledHasNoOpenOffer, Sent, Open
<1>6. LockDiscipline'
  BY <1>1, <1>2, <1>3 DEF Safe, LockDiscipline, NoLadder
<1> QED BY <1>4, <1>5, <1>6 DEF Safe

\* An accept takes the booking row, gives it back, writes, or is rolled back.
LEMMA AcceptLocksSafe ==
    ASSUME Safe, TypeOK, NEW b \in Bookings,
           \/ \E m \in Mechanics : AcceptLock(b, m)
           \/ AcceptBusy(b) \/ AcceptWrite(b) \/ AcceptVictim(b)
    PROVE  Safe'
<1>1. UNCHANGED <<status, mechanic, offer, ladder>>
  BY DEF AcceptLock, AcceptBusy, AcceptWrite, AcceptVictim, db
<1>2. OneJob' /\ AssignmentMatchesOffer' /\ CancelledHasNoOpenOffer'
  BY <1>1 DEF Safe, OneJob, AssignmentMatchesOffer, CancelledHasNoOpenOffer, OnJob, Sent
<1>3. \A m : OnJob(m)' = OnJob(m)
  BY <1>1 DEF OnJob
<1>4. LockDiscipline'
  <2>1. ASSUME NEW m \in Mechanics, AcceptLock(b, m) PROVE LockDiscipline'
    <3>1. /\ status[b] = "MATCHING" /\ mechanic[b] = Nobody
          /\ ladder[b].pc \notin {"found", "sent"} /\ acceptor[b] = Nobody
      BY <2>1, TableFacts DEF AcceptLock, RowFree, Applies, Transitions, Cancellable
    <3>2. b \notin wrote
      BY <3>1 DEF Safe, LockDiscipline
    <3>3. /\ wrote' = wrote
          /\ \A c \in Bookings \ {b} : acceptor'[c] = acceptor[c]
      BY <2>1 DEF AcceptLock, TypeOK
    <3>4. acceptor'[b] = m
      BY <2>1 DEF AcceptLock, TypeOK
    <3>5. \A c \in wrote : c # b /\ acceptor'[c] = acceptor[c]
      BY <3>2, <3>3 DEF TypeOK
    <3> QED BY <1>1, <3>1, <3>3, <3>4, <3>5, DispatchAssumption DEF Safe, LockDiscipline, OnJob
  <2>2. ASSUME AcceptBusy(b) \/ AcceptVictim(b) PROVE LockDiscipline'
    <3>1. /\ b \notin wrote' /\ wrote' \subseteq wrote /\ acceptor'[b] = Nobody
          /\ \A c \in Bookings \ {b} : acceptor'[c] = acceptor[c]
      BY <2>2 DEF AcceptBusy, AcceptVictim, TypeOK
    <3> QED BY <1>1, <1>3, <3>1 DEF Safe, LockDiscipline, TypeOK
  <2>3. ASSUME AcceptWrite(b) PROVE LockDiscipline'
    <3>1. /\ acceptor' = acceptor /\ wrote' = wrote \cup {b}
          /\ acceptor[b] # Nobody
          /\ \A c \in wrote : acceptor[c] # acceptor[b]
      BY <2>3 DEF AcceptWrite, MechanicLocked
    <3>2. b \notin OnJob(acceptor[b])
      BY <3>1 DEF Safe, LockDiscipline, OnJob
    <3>3. OnJob(acceptor[b]) = {}
      BY <2>3, <3>2 DEF AcceptWrite
    <3>4. \A c \in wrote \cup {b} :
            /\ acceptor[c] # Nobody
            /\ OnJob(acceptor[c]) = {}
            /\ \A d \in (wrote \cup {b}) \ {c} : acceptor[d] # acceptor[c]
      <4> TAKE c \in wrote \cup {b}
      <4>1. CASE c = b
        BY <4>1, <3>1, <3>3
      <4>2. CASE c # b
        BY <4>2, <3>1 DEF Safe, LockDiscipline
      <4> QED BY <4>1, <4>2
    <3> QED BY <1>1, <3>1, <3>4 DEF Safe, LockDiscipline, OnJob
  <2> QED BY <2>1, <2>2, <2>3
<1> QED BY <1>2, <1>4 DEF Safe

\* The mechanic's row lock and the busy check, held until the commit, are why
\* the new job is that mechanic's only one.
LEMMA AcceptCommitSafe ==
    ASSUME Safe, TypeOK, NEW b \in Bookings, AcceptCommit(b)
    PROVE  Safe'
<1> DEFINE m == acceptor[b]
<1>1. /\ b \in wrote /\ m \in Mechanics /\ OnJob(m) = {}
      /\ status[b] = "MATCHING" /\ mechanic[b] = Nobody
      /\ ladder[b].pc \notin {"found", "sent"}
      /\ \A c \in wrote \ {b} : acceptor[c] # m
  BY DEF AcceptCommit, Safe, LockDiscipline, TypeOK
<1>2. /\ status'[b] = "ASSIGNED" /\ mechanic'[b] = m /\ acceptor'[b] = Nobody
      /\ wrote' = wrote \ {b} /\ ladder' = ladder
      /\ \A c \in Bookings \ {b} :
           status'[c] = status[c] /\ mechanic'[c] = mechanic[c] /\ acceptor'[c] = acceptor[c]
  BY DEF AcceptCommit, TypeOK
<1>3. /\ offer'[b][m] = "ACCEPTED"
      /\ \A n \in Mechanics \ {m} :
           offer'[b][n] = IF offer[b][n] \in Open THEN "WITHDRAWN" ELSE offer[b][n]
      /\ \A c \in Bookings \ {b}, n \in Mechanics :
           offer'[c][n] = IF offer[c][n] \in Open /\ n = m THEN "WITHDRAWN" ELSE offer[c][n]
  BY <1>1 DEF AcceptCommit, Accepted
<1>4. \A c \in Bookings, n \in Mechanics :
        (mechanic'[c] = n /\ status'[c] \in Committed)
            <=> IF c = b THEN n = m ELSE c \in OnJob(n)
  BY <1>1, <1>2, DispatchAssumption DEF OnJob, Committed
<1>5. OneJob'
  BY <1>1, <1>4 DEF Safe, OneJob, OnJob
<1>6. AssignmentMatchesOffer'
  <2> SUFFICES ASSUME NEW c \in Bookings
               PROVE  /\ \A n \in Mechanics : mechanic'[c] = n <=> offer'[c][n] = "ACCEPTED"
                      /\ mechanic'[c] # Nobody =>
                           /\ \A n \in Mechanics : offer'[c][n] \notin Open
                           /\ status'[c] \in Committed \cup {"COMPLETED", "PAID", "CANCELLED"}
    BY DEF AssignmentMatchesOffer, Sent
  <2>1. CASE c = b
    <3>1. \A n \in Mechanics : offer[b][n] # "ACCEPTED"
      BY <1>1, DispatchAssumption DEF Safe, AssignmentMatchesOffer
    <3>2. \A n \in Mechanics \ {m} : offer'[b][n] \notin Open \cup {"ACCEPTED"}
      BY <1>3, <3>1 DEF Open
    <3>3. offer'[b][m] \notin Open
      BY <1>3 DEF Open
    <3> QED BY <2>1, <1>1, <1>2, <1>3, <3>2, <3>3 DEF Committed
  <2>2. CASE c # b
    BY <2>2, <1>2, <1>3 DEF Safe, AssignmentMatchesOffer, Open, Sent
  <2> QED BY <2>1, <2>2
<1>7. CancelledHasNoOpenOffer'
  BY <1>2, <1>3 DEF Safe, CancelledHasNoOpenOffer, Sent, Open
<1>8. LockDiscipline'
  <2>1. \A c \in Bookings : \A n \in ladder[c].wave : n \in Mechanics
    BY LadderField DEF TypeOK
  <2>2. \A c \in Bookings \ {b} : \A n \in Mechanics :
          offer[c][n] = "NONE" => offer'[c][n] = "NONE"
    BY <1>3 DEF Open
  <2>3. \A c \in wrote' : acceptor'[c] = acceptor[c] /\ acceptor[c] \in Mechanics \ {m}
    BY <1>1, <1>2 DEF Safe, LockDiscipline, TypeOK
  <2>4. \A c \in wrote' : \A d \in Bookings : ~(mechanic'[d] = acceptor[c] /\ status'[d] \in Committed)
    BY <1>2, <1>4, <2>3 DEF Safe, LockDiscipline
  <2>5. \A c \in wrote' : OnJob(acceptor[c])' = {}
    BY <2>3, <2>4 DEF OnJob
  <2> QED BY <1>1, <1>2, <2>1, <2>2, <2>3, <2>5 DEF Safe, LockDiscipline
<1> QED BY <1>5, <1>6, <1>7, <1>8 DEF Safe

\* A command needs the booking row, so it meets no accept and no wave; and only
\* a booking with a mechanic can go on being one.
LEMMA TransitionSafe ==
    ASSUME Safe, TypeOK, NEW b \in Bookings, NEW c \in Commands, NEW role \in Roles,
           Transition(b, c, role)
    PROVE  Safe'
<1>1. PICK to \in Status : /\ Applies(status[b], c, to)
                          /\ status' = [status EXCEPT ![b] = to]
                          /\ offer' = OffersAfter(b, to)
  BY DEF Transition
<1>2. /\ acceptor[b] = Nobody /\ ladder[b].pc \notin {"found", "sent"}
      /\ UNCHANGED <<mechanic, acceptor, wrote>>
      /\ status'[b] = to /\ \A d \in Bookings \ {b} : status'[d] = status[d] /\ offer'[d] = offer[d]
      /\ \A d \in Bookings \ {b} : ladder'[d] = ladder[d]
      /\ ladder'[b].pc = ladder[b].pc
      /\ ladder[b].pc = "read" => ladder'[b].seen = "changed"
  BY <1>1 DEF Transition, RowFree, OffersAfter, TypeOK, Ladders
<1>3. \A n \in Mechanics :
        offer'[b][n] = IF to = "CANCELLED" /\ offer[b][n] \in Open THEN "WITHDRAWN" ELSE offer[b][n]
  BY <1>1 DEF OffersAfter, TypeOK
<1>4. /\ to \in Committed => status[b] \in Committed \cup {"MATCHING"}
      /\ status[b] \in Committed => to \in Committed \cup {"COMPLETED", "CANCELLED"}
      /\ status[b] = "COMPLETED" => to = "PAID"
      /\ status[b] \notin {"PAID", "CANCELLED"}
  BY <1>1, TableFacts
<1>5. \A n \in Mechanics : OnJob(n)' \subseteq OnJob(n)
  BY <1>2, <1>4, DispatchAssumption DEF OnJob, Safe, AssignmentMatchesOffer, Committed
<1>6. OneJob'
  BY <1>5 DEF Safe, OneJob
<1>7. AssignmentMatchesOffer'
  <2> SUFFICES ASSUME NEW d \in Bookings
               PROVE  /\ \A n \in Mechanics : mechanic'[d] = n <=> offer'[d][n] = "ACCEPTED"
                      /\ mechanic'[d] # Nobody =>
                           /\ \A n \in Mechanics : offer'[d][n] \notin Open
                           /\ status'[d] \in Committed \cup {"COMPLETED", "PAID", "CANCELLED"}
    BY DEF AssignmentMatchesOffer, Sent
  <2>1. CASE d = b
    BY <2>1, <1>2, <1>3, <1>4 DEF Safe, AssignmentMatchesOffer, Open, Committed, Sent
  <2>2. CASE d # b
    BY <2>2, <1>2 DEF Safe, AssignmentMatchesOffer, Sent
  <2> QED BY <2>1, <2>2
<1>8. CancelledHasNoOpenOffer'
  BY <1>2, <1>3 DEF Safe, CancelledHasNoOpenOffer, Sent, Open
<1>9. LockDiscipline'
  <2>1. \A d \in wrote : acceptor[d] \in Mechanics /\ OnJob(acceptor[d])' = {}
    BY <1>2, <1>5 DEF Safe, LockDiscipline, TypeOK, OnJob
  <2> QED BY <1>2, <2>1 DEF Safe, LockDiscipline, OnJob
<1> QED BY <1>6, <1>7, <1>8, <1>9 DEF Safe

\* The invoice is settled.
LEMMA SettleSafe ==
    ASSUME Safe, TypeOK, NEW b \in Bookings, Settle(b)
    PROVE  Safe'
<1>1. /\ status[b] = "COMPLETED" /\ status'[b] = "PAID"
      /\ \A c \in Bookings \ {b} : status'[c] = status[c]
      /\ UNCHANGED <<mechanic, offer, ladder, acceptor, wrote>>
  BY DEF Settle, Applies, Transitions, Cancellable, txs, TypeOK
<1>2. \A n : OnJob(n)' = OnJob(n)
  BY <1>1 DEF OnJob, Committed
<1>3. OneJob' /\ AssignmentMatchesOffer' /\ CancelledHasNoOpenOffer'
  BY <1>1, <1>2 DEF Safe, OneJob, AssignmentMatchesOffer, CancelledHasNoOpenOffer, Sent, Committed
<1>4. LockDiscipline'
  BY <1>1, <1>2 DEF Safe, LockDiscipline
<1> QED BY <1>3, <1>4 DEF Safe

\* A restart drops every lock and leaves the rows.
LEMMA RestartSafe == Safe /\ TypeOK /\ Restart => Safe'
<1> SUFFICES ASSUME Safe, TypeOK, Restart PROVE Safe'
  OBVIOUS
<1>1. /\ UNCHANGED <<status, mechanic, offer>> /\ wrote' = {}
      /\ \A b \in Bookings : acceptor'[b] = Nobody /\ ladder'[b] = NoLadder
  BY DEF Restart, db
<1>2. OneJob' /\ AssignmentMatchesOffer' /\ CancelledHasNoOpenOffer'
  BY <1>1 DEF Safe, OneJob, AssignmentMatchesOffer, CancelledHasNoOpenOffer, OnJob, Sent
<1>3. LockDiscipline'
  BY <1>1 DEF LockDiscipline, NoLadder
<1> QED BY <1>2, <1>3 DEF Safe

-----------------------------------------------------------------------------
(* The theorems *)

LEMMA SafeInit == Init => Safe
<1> SUFFICES ASSUME Init PROVE Safe
  OBVIOUS
<1>1. OneJob /\ AssignmentMatchesOffer /\ CancelledHasNoOpenOffer
  BY DispatchAssumption DEF Init, OneJob, AssignmentMatchesOffer, CancelledHasNoOpenOffer,
     OnJob, Sent, Open, Committed
<1>2. LockDiscipline
  BY DEF Init, LockDiscipline, NoLadder
<1> QED BY <1>1, <1>2 DEF Safe

LEMMA SafeStep == Safe /\ TypeOK /\ [Next]_vars => Safe'
<1> SUFFICES ASSUME Safe, TypeOK, [Next]_vars PROVE Safe'
  OBVIOUS
<1>1. ASSUME NEW b \in Bookings, NEW p \in Plans, RouteRead(b, p) PROVE Safe'
  <2>1. /\ status[b] \in {"REQUESTED", "MATCHING", "NO_SUPPLY"}
        /\ ladder'[b].pc = "read" /\ ladder'[b].seen = status[b]
        /\ \A c \in Bookings \ {b} : ladder'[c] = ladder[c]
        /\ UNCHANGED <<status, mechanic, offer, acceptor, wrote>>
    BY <1>1 DEF RouteRead, MaySearch, db, NoLadder, TypeOK
  <2> QED BY <2>1, QuietStep
<1>2. ASSUME NEW b \in Bookings,
             \/ RouteClaim(b)
             \/ \E r \in Reasons : EscalateFind(b, r)
      PROVE Safe'
  <2>1. PICK by \in Reasons \cup {"route"}, p \in Plans : FindWave(b, by, p)
    <3>1. CASE RouteClaim(b)
      <4>1. FindWave(b, "route", ladder[b].plan)
        BY <3>1 DEF RouteClaim
      <4>2. ladder[b].plan \in Plans
        BY LadderField DEF TypeOK
      <4> QED BY <4>1, <4>2
    <3>2. ASSUME NEW r \in Reasons, EscalateFind(b, r)
          PROVE \E by \in Reasons \cup {"route"}, p \in Plans : FindWave(b, by, p)
      <4>1. FindWave(b, r, plan[b])
        BY <3>2 DEF EscalateFind
      <4>2. plan[b] \in Plans
        BY DEF TypeOK
      <4> QED BY <4>1, <4>2
    <3> QED BY <1>2, <3>1, <3>2
  <2>2. /\ acceptor[b] = Nobody /\ mechanic[b] = Nobody
        /\ status[b] \in {"REQUESTED", "MATCHING", "NO_SUPPLY"}
        /\ UNCHANGED <<status, mechanic, offer, acceptor, wrote>>
    BY <1>2 DEF RouteClaim, EscalateFind, EscalateStart, MayEscalate, RowFree, db,
       Safe, LockDiscipline, TypeOK, Status
  <2>3. PICK W \in Waves(b, p) :
          ladder' = [ladder EXCEPT ![b] = [pc |-> "found", by |-> by, seen |-> status[b],
                                           plan |-> p, wave |-> W]]
    BY <2>1 DEF FindWave
  <2>4. /\ ladder'[b].pc = "found" /\ ladder'[b].wave = W
        /\ \A c \in Bookings \ {b} : ladder'[c] = ladder[c]
    BY <2>3 DEF TypeOK
  <2>5. \A m \in W : offer[b][m] = "NONE"
    BY WaveFacts
  <2> QED BY <2>2, <2>4, <2>5, QuietStep
<1>3. ASSUME NEW b \in Bookings, RouteConflict(b) PROVE Safe'
  <2>1. /\ ladder'[b] = NoLadder
        /\ \A c \in Bookings \ {b} : ladder'[c] = ladder[c]
        /\ UNCHANGED <<status, mechanic, offer, acceptor, wrote>>
    BY <1>3 DEF RouteConflict, db, TypeOK
  <2>2. NoLadder.pc = "idle"
    BY DEF NoLadder
  <2> QED BY <2>1, <2>2, QuietStep
<1>4. ASSUME NEW b \in Bookings, SendWave(b) PROVE Safe'
  <2>1. /\ ladder[b].pc = "found"
        /\ ladder'[b].pc = "sent" /\ ladder'[b].wave = ladder[b].wave
        /\ \A c \in Bookings \ {b} : ladder'[c] = ladder[c]
        /\ UNCHANGED <<status, mechanic, offer, acceptor, wrote>>
    BY <1>4 DEF SendWave, db, TypeOK, Ladders
  <2>2. /\ acceptor[b] = Nobody /\ mechanic[b] = Nobody
        /\ status[b] \in {"REQUESTED", "MATCHING", "NO_SUPPLY"}
        /\ \A m \in ladder[b].wave : offer[b][m] = "NONE"
    BY <2>1 DEF Safe, LockDiscipline
  <2> QED BY <2>1, <2>2, QuietStep
<1>5. ASSUME NEW b \in Bookings, NEW r \in Reasons,
             EscalateStandDown(b, r) \/ EscalateFails(b, r)
      PROVE Safe'
  <2>1. UNCHANGED <<status, mechanic, offer, ladder, acceptor, wrote>>
    BY <1>5 DEF EscalateStandDown, EscalateFails, db, txs
  <2> QED BY <2>1, QuietStep
<1>6. ASSUME NEW b \in Bookings, LadderCommit(b) PROVE Safe'
  BY <1>6, LadderCommitSafe
<1>7. ASSUME NEW b \in Bookings,
             \/ \E m \in Mechanics : AcceptLock(b, m)
             \/ AcceptBusy(b) \/ AcceptWrite(b) \/ AcceptVictim(b)
      PROVE Safe'
  BY <1>7, AcceptLocksSafe
<1>8. ASSUME NEW b \in Bookings, AcceptCommit(b) PROVE Safe'
  BY <1>8, AcceptCommitSafe
<1>9. ASSUME NEW b \in Bookings, NEW m \in Mechanics,
             AcceptTooLate(b, m) \/ Decline(b, m) \/ Lapse(b, m)
      PROVE Safe'
  <2>1. UNCHANGED <<status, mechanic, ladder, acceptor, wrote>>
    BY <1>9 DEF AcceptTooLate, Decline, Lapse, txs
  <2>2. \A c \in Bookings, n \in Mechanics :
          \/ offer'[c][n] = offer[c][n]
          \/ offer[c][n] \in Open /\ offer'[c][n] \in {"OVERDUE", "DECLINED", "EXPIRED"}
    BY <1>9 DEF AcceptTooLate, Decline, Lapse, Open, Closed, TypeOK
  <2> QED BY <2>1, <2>2, ClosingStep
<1>10. ASSUME NEW b \in Bookings, NEW c \in Commands, NEW role \in Roles, Transition(b, c, role)
       PROVE Safe'
  BY <1>10, TransitionSafe
<1>11. ASSUME NEW b \in Bookings, Settle(b) PROVE Safe'
  BY <1>11, SettleSafe
<1>12. ASSUME NEW m \in Mechanics, SetAvailability(m) PROVE Safe'
  BY <1>12, QuietStep DEF SetAvailability, txs
<1>13. CASE SweepStart
  <2>1. UNCHANGED <<status, mechanic, ladder, acceptor, wrote>>
    BY <1>13 DEF SweepStart, txs
  <2>2. \A c \in Bookings, n \in Mechanics :
          \/ offer'[c][n] = offer[c][n]
          \/ offer[c][n] \in Open /\ offer'[c][n] = "EXPIRED"
    BY <1>13 DEF SweepStart, Overdue, Open
  <2> QED BY <2>1, <2>2, ClosingStep
<1>14. CASE SweepEnd
  BY <1>14, QuietStep DEF SweepEnd, db, txs
<1>15. CASE Restart
  BY <1>15, RestartSafe
<1>16. CASE UNCHANGED vars
  BY <1>16, QuietStep DEF vars, db, txs
<1> QED
  BY <1>1, <1>2, <1>3, <1>4, <1>5, <1>6, <1>7, <1>8, <1>9, <1>10, <1>11, <1>12, <1>13,
     <1>14, <1>15, <1>16
  DEF Next, Ladder, Accept

\* However many accepts, declines, waves, cancels and restarts interleave, the
\* whole of Safe holds: the induction.
THEOREM AcceptRaceIsSafe == Spec => []Safe
BY SafeInit, SafeStep, TypeCorrect, PTL DEF Spec

\* No mechanic is ever committed to two customers.
THEOREM OneJobAlways == Spec => []OneJob
<1>1. Safe => OneJob
  BY DEF Safe
<1> QED BY <1>1, AcceptRaceIsSafe, PTL

\* The assigned mechanic is the one whose offer is ACCEPTED, every other offer of
\* that booking is closed, and a cancelled booking has no open offer.
THEOREM OffersAlwaysMatch == Spec => []OffersMatchBooking
<1>1. Safe => OffersMatchBooking
  BY DEF Safe, OffersMatchBooking
<1> QED BY <1>1, AcceptRaceIsSafe, PTL

\* Whoever is deciding holds the rows the decision is about, and they are still
\* as the decision found them: acceptor, writer, search and escalation.
THEOREM LocksAreKept == Spec => []LockDiscipline
<1>1. Safe => LockDiscipline
  BY DEF Safe
<1> QED BY <1>1, AcceptRaceIsSafe, PTL

-----------------------------------------------------------------------------
(* Every step of the server is a step of the abstract allocation           *)

\* A search or an escalation commits: the abstract Search.
LEMMA CommitIsSearch ==
    ASSUME Safe, TypeOK, NEW b \in Bookings, LadderCommit(b)
    PROVE  JobAllocation!Search(b)
<1>1. /\ mechanic[b] = Nobody
      /\ status[b] \in {"REQUESTED", "MATCHING", "NO_SUPPLY"}
  BY DEF LadderCommit, Safe, LockDiscipline
<1>2. UNCHANGED mechanic
  BY DEF LadderCommit
<1>3. \E to \in {"MATCHING", "NO_SUPPLY"} : status' = [status EXCEPT ![b] = to]
  BY DEF LadderCommit, Outcome
<1> QED BY <1>1, <1>2, <1>3 DEF JobAllocation!Search

\* An accept commits: the abstract Assign, because the mechanic whose row it
\* holds is on no job.
LEMMA CommitIsAssign ==
    ASSUME Safe, TypeOK, NEW b \in Bookings, AcceptCommit(b)
    PROVE  JobAllocation!Assign(b, acceptor[b])
<1>1. /\ status[b] = "MATCHING" /\ mechanic[b] = Nobody
      /\ acceptor[b] \in Mechanics /\ OnJob(acceptor[b]) = {}
  BY DEF AcceptCommit, Safe, LockDiscipline, TypeOK
<1>2. JobAllocation!Free(acceptor[b])
  BY <1>1 DEF OnJob, JobAllocation!Free, Committed, JobAllocation!Committed
<1>3. /\ status' = [status EXCEPT ![b] = "ASSIGNED"]
      /\ mechanic' = [mechanic EXCEPT ![b] = acceptor[b]]
  BY DEF AcceptCommit
<1> QED BY <1>1, <1>2, <1>3 DEF JobAllocation!Assign

\* A command or a settlement is one edge of the state machine.
LEMMA CommandIsEdge ==
    ASSUME NEW b \in Bookings, NEW c, NEW to,
           Applies(status[b], c, to), status' = [status EXCEPT ![b] = to],
           UNCHANGED mechanic
    PROVE  JobAllocation!Do(b)
<1>1. <<status[b], c, to>> \in JobAllocation!Transitions
  BY DEF Applies, Transitions, Cancellable, JobAllocation!Transitions, JobAllocation!Cancellable
<1>2. <<status[b], c, to>>[1] = status[b] /\ <<status[b], c, to>>[3] = to
  OBVIOUS
<1> QED BY <1>1, <1>2 DEF JobAllocation!Do

\* Everything else leaves the booking and its mechanic alone.
LEMMA StepIsAllocation ==
    ASSUME Safe, TypeOK, [Next]_vars
    PROVE  [JobAllocation!Next]_<<status, mechanic>>
<1>1. ASSUME NEW b \in Bookings, Ladder(b)
      PROVE JobAllocation!Next \/ UNCHANGED <<status, mechanic>>
  <2>1. CASE LadderCommit(b)
    BY <2>1, CommitIsSearch DEF JobAllocation!Next
  <2>2. CASE ~LadderCommit(b)
    BY <1>1, <2>2 DEF Ladder, RouteRead, RouteClaim, RouteConflict, SendWave,
       EscalateStandDown, EscalateFind, EscalateFails, db
  <2> QED BY <2>1, <2>2
<1>2. ASSUME NEW b \in Bookings, Accept(b)
      PROVE JobAllocation!Next \/ UNCHANGED <<status, mechanic>>
  <2>1. CASE AcceptCommit(b)
    <3>1. acceptor[b] \in Mechanics
      BY <2>1 DEF AcceptCommit, Safe, LockDiscipline, TypeOK
    <3> QED BY <2>1, <3>1, CommitIsAssign DEF JobAllocation!Next
  <2>2. CASE ~AcceptCommit(b)
    BY <1>2, <2>2 DEF Accept, AcceptLock, AcceptTooLate, AcceptBusy, AcceptWrite, AcceptVictim, db
  <2> QED BY <2>1, <2>2
<1>3. ASSUME NEW b \in Bookings, NEW c \in Commands, NEW role \in Roles, Transition(b, c, role)
      PROVE JobAllocation!Next
  <2>1. PICK to \in Status : Applies(status[b], c, to) /\ status' = [status EXCEPT ![b] = to]
    BY <1>3 DEF Transition
  <2>2. UNCHANGED mechanic
    BY <1>3 DEF Transition
  <2> QED BY <2>1, <2>2, CommandIsEdge DEF JobAllocation!Next
<1>4. ASSUME NEW b \in Bookings, Settle(b) PROVE JobAllocation!Next
  <2>1. /\ Applies(status[b], "payment.settled", "PAID")
        /\ status' = [status EXCEPT ![b] = "PAID"] /\ UNCHANGED mechanic
    BY <1>4 DEF Settle
  <2> QED BY <2>1, CommandIsEdge DEF JobAllocation!Next
<1>5. ASSUME NEW b \in Bookings, NEW m \in Mechanics, Decline(b, m) \/ Lapse(b, m)
      PROVE UNCHANGED <<status, mechanic>>
  BY <1>5 DEF Decline, Lapse
<1>6. ASSUME NEW m \in Mechanics, SetAvailability(m) PROVE UNCHANGED <<status, mechanic>>
  BY <1>6 DEF SetAvailability
<1>7. CASE SweepStart \/ SweepEnd \/ Restart
  BY <1>7 DEF SweepStart, SweepEnd, Restart, db
<1>8. CASE UNCHANGED vars
  BY <1>8 DEF vars, db
<1> QED BY <1>1, <1>2, <1>3, <1>4, <1>5, <1>6, <1>7, <1>8 DEF Next

\* The ladder, the accept race, the sweeper and the state machine together
\* implement the abstract allocation: a mechanic is given once, while the
\* booking is being matched, and only if free.
THEOREM DispatchAllocates == Spec => Allocates
<1>1. Init => JobAllocation!Init
  BY DEF Init, JobAllocation!Init
<1>2. Safe /\ TypeOK /\ [Next]_vars => [JobAllocation!Next]_<<status, mechanic>>
  BY StepIsAllocation
<1> QED BY <1>1, <1>2, AcceptRaceIsSafe, TypeCorrect, PTL DEF Spec, Allocates, JobAllocation!Spec

-----------------------------------------------------------------------------
(* A mechanic is asked once per booking                                    *)

Answered(b, m) ==
    /\ offer[b][m] \in Closed => offer'[b][m] \in Closed
    /\ offer[b][m] = "ACCEPTED" => offer'[b][m] = "ACCEPTED"

\* Every action, the accept's blind writes included, keeps what is answered.
LEMMA StepKeepsAnswers ==
    ASSUME Safe, TypeOK, [Next]_vars, NEW b \in Bookings, NEW m \in Mechanics
    PROVE  Answered(b, m)
<1> USE DEF Answered
<1>1. ASSUME NEW c \in Bookings, LadderCommit(c) PROVE Answered(b, m)
  <2>1. \A n \in ladder[c].wave : offer[c][n] = "NONE"
    BY <1>1 DEF LadderCommit, Safe, LockDiscipline
  <2>2. offer'[b][m] = IF b = c /\ m \in ladder[c].wave THEN "SENT" ELSE offer[b][m]
    BY <1>1 DEF LadderCommit, TypeOK
  <2> QED BY <2>1, <2>2 DEF Closed
<1>2. ASSUME NEW c \in Bookings, AcceptCommit(c) PROVE Answered(b, m)
  <2>1. offer'[b][m] = IF b = c /\ m = acceptor[c] THEN "ACCEPTED"
                       ELSE IF offer[b][m] \in Open /\ (b = c \/ m = acceptor[c])
                              THEN "WITHDRAWN" ELSE offer[b][m]
    BY <1>2 DEF AcceptCommit, Accepted
  <2> QED BY <2>1 DEF Closed, Open
<1>3. ASSUME NEW c \in Bookings, NEW n \in Mechanics,
             AcceptTooLate(c, n) \/ Decline(c, n) \/ Lapse(c, n)
      PROVE Answered(b, m)
  <2>1. \/ offer'[b][m] = offer[b][m]
        \/ offer[b][m] \in Open
    BY <1>3 DEF AcceptTooLate, Decline, Lapse, Open, TypeOK
  <2> QED BY <2>1 DEF Open, Closed
<1>4. ASSUME NEW c \in Bookings, NEW k \in Commands, NEW role \in Roles, Transition(c, k, role)
      PROVE Answered(b, m)
  <2>1. \/ offer'[b][m] = offer[b][m]
        \/ offer[b][m] \in Open
    BY <1>4 DEF Transition, OffersAfter, TypeOK
  <2> QED BY <2>1 DEF Open, Closed
<1>5. CASE SweepStart
  <2>1. offer'[b][m] = IF m \in Overdue(b) THEN "EXPIRED" ELSE offer[b][m]
    BY <1>5 DEF SweepStart
  <2> QED BY <2>1 DEF Overdue, Closed
<1>6. ASSUME UNCHANGED offer PROVE Answered(b, m)
  BY <1>6
<1>7. ASSUME NEW c \in Bookings, Ladder(c), ~LadderCommit(c) PROVE UNCHANGED offer
  BY <1>7 DEF Ladder, RouteRead, RouteClaim, RouteConflict, SendWave,
     EscalateStandDown, EscalateFind, EscalateFails, db
<1>8. ASSUME NEW c \in Bookings, Accept(c), ~AcceptCommit(c),
             ~\E n \in Mechanics : AcceptTooLate(c, n)
      PROVE UNCHANGED offer
  BY <1>8 DEF Accept, AcceptLock, AcceptBusy, AcceptWrite, AcceptVictim, db
<1>9. ASSUME \/ \E c \in Bookings : Settle(c)
             \/ \E n \in Mechanics : SetAvailability(n)
             \/ SweepEnd \/ Restart \/ UNCHANGED vars
      PROVE UNCHANGED offer
  BY <1>9 DEF Settle, SetAvailability, SweepEnd, Restart, vars, db
<1> QED BY <1>1, <1>2, <1>3, <1>4, <1>5, <1>6, <1>7, <1>8, <1>9 DEF Next

\* No wave, retry or crash ever reopens an answered offer, and an accepted one
\* stays accepted.
THEOREM AnswersAreKept == Spec => NeverReopened
<1>1. Safe /\ TypeOK /\ [Next]_vars =>
        [\A b \in Bookings, m \in Mechanics :
            /\ offer[b][m] \in Closed => offer'[b][m] \in Closed
            /\ offer[b][m] = "ACCEPTED" => offer'[b][m] = "ACCEPTED"]_vars
  BY StepKeepsAnswers DEF Answered
<1> QED BY <1>1, AcceptRaceIsSafe, TypeCorrect, PTL DEF Spec, NeverReopened

-----------------------------------------------------------------------------
(* The ladder: one wave at a time, and no search forgotten *)

\* Nobody but the ladder says that the offers of a search are exhausted.
ExhaustedByLadder == "admin" \in Roles => "offers.exhausted" \notin Commands

\* Whoever holds the ladder's lock, and whoever searches anew, finds no live offer,
\* and asks no more mechanics than the plan he will record asks at a time.
WavesKept ==
    \A b \in Bookings :
        /\ status[b] \in {"DRAFT", "REQUESTED", "NO_SUPPLY"} => Live(b) = {}
        /\ ladder[b].pc # "idle" => Live(b) = {}
        /\ ladder[b].pc \in {"found", "sent"} =>
             Cardinality(ladder[b].wave) <= WaveSize[ladder[b].plan]
        /\ Cardinality(Live(b)) <= WaveSize[plan[b]]

\* A set of mechanics is finite, and so is a smaller one.
LEMMA MechanicsCount ==
    ASSUME NEW S \in SUBSET Mechanics, NEW T \in SUBSET S
    PROVE  Cardinality(S) \in Nat /\ Cardinality(T) \in Nat /\ Cardinality(T) <= Cardinality(S)
BY DispatchAssumption, FS_Subset, FS_CardinalityType

\* A wave is no larger than its plan asks for.
LEMMA WaveIsSmall ==
    ASSUME NEW b \in Bookings, NEW p \in Plans, NEW W \in Waves(b, p)
    PROVE  Cardinality(W) <= WaveSize[p]
BY DispatchAssumption DEF Waves

\* A step that makes no offer live, records no plan and starts no search over one.
LEMMA WavesFrame ==
    ASSUME TypeOK, WavesKept, UNCHANGED plan,
           \A b \in Bookings : \A m \in Mechanics : offer'[b][m] = "SENT" => offer[b][m] = "SENT",
           \A b \in Bookings : status'[b] \in {"DRAFT", "REQUESTED", "NO_SUPPLY"} =>
               status[b] \in {"DRAFT", "REQUESTED", "NO_SUPPLY"},
           \A b \in Bookings : ladder'[b].pc # "idle" => ladder[b].pc # "idle" \/ Live(b) = {},
           \A b \in Bookings : ladder'[b].pc \in {"found", "sent"} =>
               \/ /\ ladder[b].pc \in {"found", "sent"}
                  /\ ladder'[b].wave = ladder[b].wave /\ ladder'[b].plan = ladder[b].plan
               \/ Cardinality(ladder'[b].wave) <= WaveSize[ladder'[b].plan]
    PROVE  WavesKept'
<1> SUFFICES ASSUME NEW b \in Bookings
             PROVE  /\ status'[b] \in {"DRAFT", "REQUESTED", "NO_SUPPLY"} => Live(b)' = {}
                    /\ ladder'[b].pc # "idle" => Live(b)' = {}
                    /\ ladder'[b].pc \in {"found", "sent"} =>
                         Cardinality(ladder'[b].wave) <= WaveSize[ladder'[b].plan]
                    /\ Cardinality(Live(b)') <= WaveSize[plan'[b]]
  BY DEF WavesKept
<1>1. Live(b)' \in SUBSET Live(b) /\ Live(b) \in SUBSET Mechanics
  BY DEF Live
<1>2. /\ Cardinality(Live(b)') <= Cardinality(Live(b))
      /\ Cardinality(Live(b)') \in Nat /\ Cardinality(Live(b)) \in Nat
  BY <1>1, MechanicsCount
<1>3. WaveSize[plan[b]] \in Nat
  BY DispatchAssumption DEF TypeOK
<1>4. Cardinality(Live(b)') <= WaveSize[plan'[b]]
  BY <1>2, <1>3 DEF WavesKept
<1> QED BY <1>1, <1>4 DEF WavesKept

\* A search or an escalation commits: the live offers are its wave.
LEMMA LadderCommitWaves ==
    ASSUME TypeOK, Safe, WavesKept, NEW b \in Bookings, LadderCommit(b)
    PROVE  WavesKept'
<1>1. /\ ladder[b].pc \in {"found", "sent"} /\ ladder[b].wave \in SUBSET Mechanics
      /\ ladder[b].plan \in Plans /\ Live(b) = {}
      /\ Cardinality(ladder[b].wave) <= WaveSize[ladder[b].plan]
  BY LadderField DEF LadderCommit, WavesKept, TypeOK
<1>2. /\ status'[b] = IF ladder[b].wave = {} THEN "NO_SUPPLY" ELSE "MATCHING"
      /\ plan'[b] = ladder[b].plan /\ ladder'[b].pc = "idle"
      /\ \A m \in Mechanics : offer'[b][m] = IF m \in ladder[b].wave THEN "SENT" ELSE offer[b][m]
      /\ \A c \in Bookings \ {b} : /\ status'[c] = status[c] /\ offer'[c] = offer[c]
                                   /\ ladder'[c] = ladder[c] /\ plan'[c] = plan[c]
  BY DEF LadderCommit, Outcome, NoLadder, TypeOK
<1>3. Live(b)' = ladder[b].wave
  BY <1>1, <1>2 DEF Live
<1>4. ASSUME NEW c \in Bookings \ {b}
      PROVE  /\ status'[c] \in {"DRAFT", "REQUESTED", "NO_SUPPLY"} => Live(c)' = {}
             /\ ladder'[c].pc # "idle" => Live(c)' = {}
             /\ ladder'[c].pc \in {"found", "sent"} =>
                  Cardinality(ladder'[c].wave) <= WaveSize[ladder'[c].plan]
             /\ Cardinality(Live(c)') <= WaveSize[plan'[c]]
  <2>1. Live(c)' = Live(c)
    BY <1>2 DEF Live
  <2> QED BY <1>2, <2>1 DEF WavesKept
<1>5. /\ status'[b] \in {"DRAFT", "REQUESTED", "NO_SUPPLY"} => Live(b)' = {}
      /\ ladder'[b].pc = "idle"
      /\ Cardinality(Live(b)') <= WaveSize[plan'[b]]
  BY <1>1, <1>2, <1>3
<1> QED BY <1>4, <1>5 DEF WavesKept

LEMMA WavesInit == Init => WavesKept
<1> SUFFICES ASSUME Init PROVE WavesKept
  OBVIOUS
<1>1. \A b \in Bookings : Live(b) = {} /\ ladder[b].pc = "idle" /\ plan[b] \in Plans
  BY DispatchAssumption DEF Init, Live, NoLadder
<1>2. Cardinality({}) = 0 /\ \A p \in Plans : WaveSize[p] \in Nat
  BY FS_EmptySet, DispatchAssumption
<1> QED BY <1>1, <1>2 DEF WavesKept

LEMMA WavesStep == ExhaustedByLadder /\ TypeOK /\ Safe /\ WavesKept /\ [Next]_vars => WavesKept'
<1> SUFFICES ASSUME ExhaustedByLadder, TypeOK, Safe, WavesKept, [Next]_vars PROVE WavesKept'
  OBVIOUS
<1>1. ASSUME NEW b \in Bookings, NEW p \in Plans, RouteRead(b, p) PROVE WavesKept'
  <2>1. /\ ladder'[b].pc = "read"
        /\ \A c \in Bookings \ {b} : ladder'[c] = ladder[c]
        /\ UNCHANGED <<status, offer, plan>>
    BY <1>1 DEF RouteRead, db, NoLadder, TypeOK
  <2>2. Live(b) = {}
    BY <1>1 DEF RouteRead, MaySearch, WavesKept
  <2> QED BY <2>1, <2>2, WavesFrame
<1>2. ASSUME NEW b \in Bookings, NEW by, NEW p \in Plans, FindWave(b, by, p), Live(b) = {},
             UNCHANGED <<status, offer, plan>>
      PROVE  WavesKept'
  <2>1. PICK W \in Waves(b, p) :
          ladder' = [ladder EXCEPT ![b] = [pc |-> "found", by |-> by, seen |-> status[b],
                                           plan |-> p, wave |-> W]]
    BY <1>2 DEF FindWave
  <2>2. /\ ladder'[b].wave = W /\ ladder'[b].plan = p
        /\ \A c \in Bookings \ {b} : ladder'[c] = ladder[c]
    BY <2>1 DEF TypeOK
  <2>3. Cardinality(W) <= WaveSize[p]
    BY WaveIsSmall
  <2> QED BY <1>2, <2>2, <2>3, WavesFrame
<1>3. ASSUME NEW b \in Bookings, RouteClaim(b) PROVE WavesKept'
  <2>1. ladder[b].plan \in Plans /\ Live(b) = {}
    BY <1>3, LadderField DEF RouteClaim, WavesKept, TypeOK
  <2> QED BY <1>2, <1>3, <2>1 DEF RouteClaim, db
<1>4. ASSUME NEW b \in Bookings, NEW r \in Reasons, EscalateFind(b, r) PROVE WavesKept'
  <2>1. plan[b] \in Plans
    BY DEF TypeOK
  <2> QED BY <1>2, <1>4, <2>1 DEF EscalateFind, MayEscalate, db
<1>5. ASSUME NEW b \in Bookings, RouteConflict(b) \/ SendWave(b) PROVE WavesKept'
  <2>1. /\ \A c \in Bookings : \/ ladder'[c].pc = "idle"
                               \/ ladder'[c] = ladder[c]
                               \/ /\ ladder[c].pc = "found" /\ ladder'[c].pc = "sent"
                                  /\ ladder'[c].wave = ladder[c].wave /\ ladder'[c].plan = ladder[c].plan
        /\ UNCHANGED <<status, offer, plan>>
    BY <1>5 DEF RouteConflict, SendWave, NoLadder, db, TypeOK, Ladders
  <2> QED BY <2>1, WavesFrame
<1>6. ASSUME UNCHANGED <<plan, ladder>>,
             \A b \in Bookings : status'[b] \in {status[b], "ASSIGNED", "PAID"},
             \A b \in Bookings : \A m \in Mechanics : offer'[b][m] = "SENT" => offer[b][m] = "SENT"
      PROVE  WavesKept'
  BY <1>6, WavesFrame
<1>7. ASSUME NEW b \in Bookings, NEW r \in Reasons, EscalateStandDown(b, r) \/ EscalateFails(b, r)
      PROVE  WavesKept'
  BY <1>6, <1>7 DEF EscalateStandDown, EscalateFails, db, txs
<1>8. ASSUME NEW b \in Bookings,
             \/ \E m \in Mechanics : AcceptLock(b, m)
             \/ AcceptBusy(b) \/ AcceptWrite(b) \/ AcceptVictim(b)
      PROVE  WavesKept'
  BY <1>6, <1>8 DEF AcceptLock, AcceptBusy, AcceptWrite, AcceptVictim, db
<1>9. ASSUME NEW b \in Bookings, AcceptCommit(b) PROVE WavesKept'
  BY <1>6, <1>9 DEF AcceptCommit, Accepted, TypeOK
<1>10. ASSUME NEW b \in Bookings, NEW m \in Mechanics,
              AcceptTooLate(b, m) \/ Decline(b, m) \/ Lapse(b, m)
       PROVE  WavesKept'
  BY <1>6, <1>10 DEF AcceptTooLate, Decline, Lapse, txs, TypeOK
<1>11. ASSUME NEW b \in Bookings, NEW c \in Commands, NEW role \in Roles, Transition(b, c, role)
       PROVE  WavesKept'
  <2>1. PICK to \in Status : /\ Applies(status[b], c, to)
                            /\ status' = [status EXCEPT ![b] = to]
                            /\ offer' = OffersAfter(b, to)
    BY <1>11 DEF Transition
  <2>2. to \in {"DRAFT", "REQUESTED", "NO_SUPPLY"} => status[b] = "DRAFT"
    <3>1. c = "offers.exhausted" => role = "admin"
      BY <1>11 DEF Transition, MaySend
    <3>2. c # "offers.exhausted"
      BY <3>1 DEF ExhaustedByLadder
    <3> QED BY <2>1, <3>2 DEF Applies, Transitions
  <2>3. /\ \A d \in Bookings : status'[d] = IF d = b THEN to ELSE status[d]
        /\ \A d \in Bookings : \A m \in Mechanics : offer'[d][m] = "SENT" => offer[d][m] = "SENT"
    BY <2>1 DEF OffersAfter, TypeOK
  <2>4. /\ \A d \in Bookings : /\ ladder'[d].pc = ladder[d].pc /\ ladder'[d].wave = ladder[d].wave
                               /\ ladder'[d].plan = ladder[d].plan
        /\ UNCHANGED plan
    BY <1>11 DEF Transition, TypeOK, Ladders
  <2> QED BY <2>2, <2>3, <2>4, WavesFrame
<1>12. ASSUME NEW b \in Bookings, Settle(b) PROVE WavesKept'
  BY <1>6, <1>12 DEF Settle, txs, TypeOK
<1>13. ASSUME NEW m \in Mechanics, SetAvailability(m) PROVE WavesKept'
  BY <1>6, <1>13 DEF SetAvailability, txs
<1>14. CASE SweepStart
  BY <1>6, <1>14 DEF SweepStart, txs
<1>15. CASE SweepEnd
  BY <1>6, <1>15 DEF SweepEnd, db, txs
<1>16. CASE Restart
  <2>1. (\A b \in Bookings : ladder'[b].pc = "idle") /\ UNCHANGED <<status, offer, plan>>
    BY <1>16 DEF Restart, NoLadder, db
  <2> QED BY <2>1, WavesFrame
<1>17. CASE UNCHANGED vars
  BY <1>6, <1>17 DEF vars, db, txs
<1> QED
  BY <1>1, <1>3, <1>4, <1>5, <1>7, <1>8, <1>9, <1>10, <1>11, <1>12, <1>13, <1>14, <1>15, <1>16,
     <1>17, LadderCommitWaves
  DEF Next, Ladder, Accept

\* However declines, the sweeper, retries and accepts interleave, the live offers of
\* a booking fit in one wave of its last search, and "nobody left" is said only when
\* none is live - as long as no administrator says so by hand.
THEOREM OneWave == ExhaustedByLadder => (Spec => []OneWaveAtATime)
<1>1. WavesKept => OneWaveAtATime
  <2>1. Cardinality({}) = 0
    BY FS_EmptySet
  <2> QED BY <2>1 DEF WavesKept, OneWaveAtATime
<1> SUFFICES ASSUME ExhaustedByLadder PROVE Spec => []OneWaveAtATime
  OBVIOUS
<1> QED BY <1>1, WavesInit, WavesStep, AcceptRaceIsSafe, TypeCorrect, PTL DEF Spec

\* Nobody but the ladder starts a search.
SearchedByLadder ==
    "retry.widen" \notin Commands /\ ("admin" \in Roles => "dispatch.start" \notin Commands)

\* As long as nothing has failed, a search with every offer closed is moved on.
SearchesHeld == faults = 0 => NoOrphanedSearch

\* A step that closes no offer without owing an escalation, pays no debt and starts
\* no search.
LEMMA SearchesFrame ==
    ASSUME SearchesHeld, faults' = 0 => faults = 0,
           \A b \in Bookings : status'[b] = "MATCHING" => status[b] = "MATCHING",
           \A b \in Bookings :
               \/ Sent(b) \subseteq Sent(b)'
               \/ owed'[b] # {},
           \A b \in Bookings : owed[b] \subseteq owed'[b],
           \A b \in Bookings : ladder[b].pc \in {"found", "sent"} => ladder'[b].pc \in {"found", "sent"}
    PROVE  SearchesHeld'
BY DEF SearchesHeld, NoOrphanedSearch

LEMMA SearchesStep ==
    SearchedByLadder /\ ~LateAccepts /\ TypeOK /\ Safe /\ SearchesHeld /\ [Next]_vars => SearchesHeld'
<1> SUFFICES ASSUME SearchedByLadder, ~LateAccepts, TypeOK, Safe, SearchesHeld, [Next]_vars
             PROVE  SearchesHeld'
  OBVIOUS
<1>1. ASSUME UNCHANGED <<status, offer, owed, faults>>,
             \A b \in Bookings : ladder[b].pc \in {"found", "sent"} => ladder'[b].pc \in {"found", "sent"}
      PROVE  SearchesHeld'
  BY <1>1, SearchesFrame DEF Sent
<1>2. ASSUME NEW b \in Bookings, NEW p \in Plans, RouteRead(b, p) PROVE SearchesHeld'
  BY <1>1, <1>2 DEF RouteRead, db, server, TypeOK
<1>3. ASSUME NEW b \in Bookings, RouteClaim(b) \/ RouteConflict(b) \/ SendWave(b) PROVE SearchesHeld'
  BY <1>1, <1>3 DEF RouteClaim, RouteConflict, SendWave, FindWave, db, server, TypeOK, Ladders
<1>4. ASSUME NEW b \in Bookings, LadderCommit(b) PROVE SearchesHeld'
  <2>1. /\ ladder[b].wave \subseteq Mechanics
        /\ status'[b] = "MATCHING" => ladder[b].wave # {}
        /\ \A m \in ladder[b].wave : offer'[b][m] = "SENT"
        /\ \A c \in Bookings \ {b} : /\ status'[c] = status[c] /\ offer'[c] = offer[c]
                                     /\ ladder'[c] = ladder[c]
        /\ UNCHANGED <<owed, faults>>
    BY <1>4, LadderField DEF LadderCommit, Outcome, server, TypeOK
  <2>2. status'[b] = "MATCHING" => Sent(b)' # {}
    BY <2>1 DEF Sent, Open
  <2>3. \A c \in Bookings \ {b} : Sent(c)' = Sent(c)
    BY <2>1 DEF Sent
  <2> QED BY <2>1, <2>2, <2>3 DEF SearchesHeld, NoOrphanedSearch
<1>5. ASSUME NEW b \in Bookings, NEW r \in Reasons, EscalateStandDown(b, r) PROVE SearchesHeld'
  <2>1. ~(status[b] = "MATCHING" /\ Sent(b) = {})
    <3>1. mechanic[b] # Nobody => status[b] # "MATCHING"
      BY DEF Safe, AssignmentMatchesOffer, Committed
    <3>2. Live(b) \subseteq Sent(b)
      BY DEF Live, Sent, Open
    <3> QED BY <1>5, <3>1, <3>2 DEF EscalateStandDown, MayEscalate
  <2>2. /\ \A c \in Bookings \ {b} : owed'[c] = owed[c]
        /\ \A c \in Bookings : Sent(c)' = Sent(c)
        /\ UNCHANGED <<status, ladder, faults>>
    BY <1>5 DEF EscalateStandDown, Discharge, db, txs, Sent, TypeOK
  <2> QED BY <2>1, <2>2 DEF SearchesHeld, NoOrphanedSearch
<1>6. ASSUME NEW b \in Bookings, NEW r \in Reasons, EscalateFind(b, r) PROVE SearchesHeld'
  <2>1. /\ ladder'[b].pc = "found"
        /\ \A c \in Bookings \ {b} : owed'[c] = owed[c] /\ ladder'[c] = ladder[c]
        /\ \A c \in Bookings : Sent(c)' = Sent(c)
        /\ UNCHANGED <<status, faults>>
    BY <1>6 DEF EscalateFind, FindWave, Discharge, db, Sent, TypeOK
  <2> QED BY <2>1 DEF SearchesHeld, NoOrphanedSearch
<1>7. ASSUME (\E b \in Bookings, r \in Reasons : EscalateFails(b, r)) \/ Restart PROVE SearchesHeld'
  BY <1>7, DispatchAssumption DEF EscalateFails, Restart, SearchesHeld, TypeOK
<1>8. ASSUME NEW b \in Bookings,
             \/ \E m \in Mechanics : AcceptLock(b, m)
             \/ AcceptBusy(b) \/ AcceptWrite(b) \/ AcceptVictim(b)
      PROVE  SearchesHeld'
  BY <1>1, <1>8 DEF AcceptLock, AcceptBusy, AcceptWrite, AcceptVictim, db, server
<1>9. ASSUME NEW b \in Bookings, AcceptCommit(b) PROVE SearchesHeld'
  <2>1. /\ \A c \in Bookings \ {b} : Sent(c) \subseteq Sent(c)' \/ owed'[c] # {}
        /\ \A c \in Bookings : owed[c] \subseteq owed'[c]
    BY <1>9 DEF AcceptCommit, Accepted, OwedAfterAccept, Sent, Open
  <2>2. /\ status'[b] = "ASSIGNED" /\ \A c \in Bookings \ {b} : status'[c] = status[c]
        /\ UNCHANGED <<ladder, faults>>
    BY <1>9 DEF AcceptCommit, TypeOK
  <2> QED BY <2>1, <2>2 DEF SearchesHeld, NoOrphanedSearch
<1>10. ASSUME NEW b \in Bookings, NEW m \in Mechanics, Decline(b, m) PROVE SearchesHeld'
  <2>1. /\ \A c \in Bookings : Sent(c) \subseteq Sent(c)' \/ owed'[c] # {}
        /\ \A c \in Bookings : owed[c] \subseteq owed'[c]
        /\ UNCHANGED <<status, ladder, faults>>
    BY <1>10 DEF Decline, txs, Sent, TypeOK
  <2> QED BY <2>1, SearchesFrame
<1>11. ASSUME NEW b \in Bookings, NEW m \in Mechanics, Lapse(b, m) PROVE SearchesHeld'
  <2>1. \A c \in Bookings : Sent(c) \subseteq Sent(c)'
    BY <1>11 DEF Lapse, Sent, Open, Closed, TypeOK
  <2> QED BY <1>11, <2>1, SearchesFrame DEF Lapse, txs
<1>12. ASSUME NEW b \in Bookings, NEW m \in Mechanics, AcceptTooLate(b, m) PROVE SearchesHeld'
  BY <1>12 DEF AcceptTooLate
<1>13. ASSUME NEW b \in Bookings, NEW c \in Commands, NEW role \in Roles, Transition(b, c, role)
       PROVE  SearchesHeld'
  <2>1. PICK to \in Status : /\ Applies(status[b], c, to)
                            /\ status' = [status EXCEPT ![b] = to]
                            /\ offer' = OffersAfter(b, to)
    BY <1>13 DEF Transition
  <2>2. to # "MATCHING"
    <3>1. c = "dispatch.start" => role = "admin"
      BY <1>13 DEF Transition, MaySend
    <3>2. c \notin {"dispatch.start", "retry.widen"}
      BY <3>1 DEF SearchedByLadder
    <3> QED BY <2>1, <3>2 DEF Applies, Transitions
  <2>3. /\ status'[b] # "MATCHING"
        /\ \A d \in Bookings \ {b} : status'[d] = status[d] /\ Sent(d)' = Sent(d)
    BY <2>1, <2>2 DEF OffersAfter, Sent, TypeOK
  <2>4. (\A d \in Bookings : ladder'[d].pc = ladder[d].pc) /\ UNCHANGED <<owed, faults>>
    BY <1>13 DEF Transition, server, TypeOK, Ladders
  <2> QED BY <2>3, <2>4 DEF SearchesHeld, NoOrphanedSearch
<1>14. ASSUME NEW b \in Bookings, Settle(b) PROVE SearchesHeld'
  BY <1>14, SearchesFrame DEF Settle, txs, server, Sent, TypeOK
<1>15. ASSUME NEW m \in Mechanics, SetAvailability(m) PROVE SearchesHeld'
  BY <1>1, <1>15 DEF SetAvailability, txs, server
<1>16. CASE SweepStart
  <2>1. /\ \A c \in Bookings : Sent(c) \subseteq Sent(c)' \/ owed'[c] # {}
        /\ \A c \in Bookings : owed[c] \subseteq owed'[c]
    BY <1>16 DEF SweepStart, Sent, Overdue
  <2> QED BY <1>16, <2>1, SearchesFrame DEF SweepStart, txs
<1>17. CASE SweepEnd
  BY <1>1, <1>17 DEF SweepEnd, db, txs
<1>18. CASE UNCHANGED vars
  BY <1>1, <1>18 DEF vars, db, txs, server
<1> QED
  BY <1>2, <1>3, <1>4, <1>5, <1>6, <1>7, <1>8, <1>9, <1>10, <1>11, <1>12, <1>13, <1>14, <1>15,
     <1>16, <1>17, <1>18
  DEF Next, Ladder, Accept

\* A search all of whose offers are closed is owed an escalation or has one under way:
\* no answer, sweep or accept forgets it - as long as no escalation has failed and no
\* process died, every accept comes within its window and only the ladder starts searches.
THEOREM NoSearchForgotten ==
    SearchedByLadder /\ ~LateAccepts => (Spec => [](faults = 0 => NoOrphanedSearch))
<1>1. Init => SearchesHeld
  BY DEF Init, SearchesHeld, NoOrphanedSearch
<1>2. SearchesHeld <=> (faults = 0 => NoOrphanedSearch)
  BY DEF SearchesHeld
<1> SUFFICES ASSUME SearchedByLadder, ~LateAccepts PROVE Spec => [](faults = 0 => NoOrphanedSearch)
  OBVIOUS
<1> QED BY <1>1, <1>2, SearchesStep, AcceptRaceIsSafe, TypeCorrect, PTL DEF Spec

-----------------------------------------------------------------------------
(* jobs_completed *)

JobsDone(m) == {b \in Bookings : mechanic[b] = m /\ status[b] \in {"COMPLETED", "PAID"}}

\* A step that counts nothing and undoes no finished job.
LEMMA JobsFrame ==
    ASSUME JobsCountedOnce, TypeOK, UNCHANGED jobs,
           \A m \in Mechanics : JobsDone(m) \subseteq JobsDone(m)'
    PROVE  JobsCountedOnce'
<1>1. ASSUME NEW m \in Mechanics PROVE jobs'[m] <= Cardinality(JobsDone(m)')
  <2>1. JobsDone(m)' \subseteq Bookings /\ JobsDone(m) \subseteq Bookings
    BY DEF JobsDone
  <2>2. /\ Cardinality(JobsDone(m)) <= Cardinality(JobsDone(m)')
        /\ Cardinality(JobsDone(m)) \in Nat /\ Cardinality(JobsDone(m)') \in Nat
    BY <2>1, DispatchAssumption, FS_Subset, FS_CardinalityType
  <2>3. jobs[m] \in Nat /\ jobs'[m] = jobs[m] /\ jobs[m] <= Cardinality(JobsDone(m))
    BY DEF JobsCountedOnce, JobsDone, TypeOK
  <2> QED BY <2>2, <2>3
<1> QED BY <1>1 DEF JobsCountedOnce, JobsDone

LEMMA JobsStep == TypeOK /\ Safe /\ JobsCountedOnce /\ [Next]_vars => JobsCountedOnce'
<1> SUFFICES ASSUME TypeOK, Safe, JobsCountedOnce, [Next]_vars PROVE JobsCountedOnce'
  OBVIOUS
<1>1. CASE UNCHANGED <<status, mechanic, jobs>>
  BY <1>1, JobsFrame DEF JobsDone
<1>2. ASSUME NEW b \in Bookings, LadderCommit(b) PROVE JobsCountedOnce'
  <2>1. /\ status[b] \notin {"COMPLETED", "PAID"}
        /\ \A c \in Bookings \ {b} : status'[c] = status[c]
        /\ UNCHANGED <<mechanic, jobs>>
    BY <1>2 DEF LadderCommit, Safe, LockDiscipline, TypeOK
  <2> QED BY <2>1, JobsFrame DEF JobsDone
<1>3. ASSUME NEW b \in Bookings, AcceptCommit(b) PROVE JobsCountedOnce'
  <2>1. /\ mechanic[b] = Nobody
        /\ \A c \in Bookings \ {b} : status'[c] = status[c] /\ mechanic'[c] = mechanic[c]
        /\ UNCHANGED jobs
    BY <1>3 DEF AcceptCommit, Safe, LockDiscipline, TypeOK
  <2> QED BY <2>1, JobsFrame, DispatchAssumption DEF JobsDone
<1>4. ASSUME NEW b \in Bookings, NEW c \in Commands, NEW role \in Roles, Transition(b, c, role)
      PROVE  JobsCountedOnce'
  <2>1. PICK to \in Status :
          /\ Applies(status[b], c, to)
          /\ status' = [status EXCEPT ![b] = to]
          /\ jobs' = IF to = "COMPLETED" /\ mechanic[b] # Nobody /\ role # "customer"
                       THEN [jobs EXCEPT ![mechanic[b]] = @ + 1] ELSE jobs
    BY <1>4 DEF Transition, FinishesJob
  <2>2. /\ status[b] \notin {"PAID", "CANCELLED"}
        /\ status[b] = "COMPLETED" => to = "PAID"
    BY <2>1, TableFacts
  <2>3. UNCHANGED mechanic /\ \A d \in Bookings : status'[d] = IF d = b THEN to ELSE status[d]
    BY <1>4, <2>1 DEF Transition, TypeOK
  <2>4. \A m \in Mechanics : JobsDone(m) \subseteq JobsDone(m)'
    BY <2>2, <2>3 DEF JobsDone
  <2>5. CASE jobs' = jobs
    BY <2>4, <2>5, JobsFrame
  <2>6. CASE to = "COMPLETED" /\ mechanic[b] # Nobody /\ jobs' = [jobs EXCEPT ![mechanic[b]] = @ + 1]
    <3>1. PICK n \in Mechanics : n = mechanic[b]
      BY <2>6 DEF TypeOK
    <3>2. JobsDone(n)' = JobsDone(n) \cup {b} /\ b \notin JobsDone(n)
      BY <2>2, <2>3, <2>6, <3>1 DEF JobsDone
    <3>3. ASSUME NEW m \in Mechanics PROVE jobs'[m] <= Cardinality(JobsDone(m)')
      <4>1. JobsDone(m)' \subseteq Bookings /\ JobsDone(m) \subseteq Bookings
        BY DEF JobsDone
      <4>2. /\ Cardinality(JobsDone(m)) <= Cardinality(JobsDone(m)') /\ IsFiniteSet(JobsDone(m))
            /\ Cardinality(JobsDone(m)) \in Nat /\ Cardinality(JobsDone(m)') \in Nat
        BY <2>4, <4>1, DispatchAssumption, FS_Subset, FS_CardinalityType
      <4>3. jobs[m] \in Nat /\ jobs[m] <= Cardinality(JobsDone(m))
        BY DEF JobsCountedOnce, JobsDone, TypeOK
      <4>4. CASE m = n
        <5>1. Cardinality(JobsDone(n) \cup {b}) = Cardinality(JobsDone(n)) + 1
          BY <3>2, <4>2, <4>4, FS_AddElement
        <5>2. jobs'[n] = jobs[n] + 1
          BY <2>6, <3>1 DEF TypeOK
        <5>3. Cardinality(JobsDone(n)') = Cardinality(JobsDone(n)) + 1
          BY <3>2, <5>1
        <5>4. jobs[n] \in Nat /\ Cardinality(JobsDone(n)) \in Nat /\ jobs[n] <= Cardinality(JobsDone(n))
          BY <4>2, <4>3, <4>4
        <5>5. jobs'[n] <= Cardinality(JobsDone(n)')
          BY <5>2, <5>3, <5>4
        <5> QED BY <4>4, <5>5
      <4>5. CASE m # n
        <5>1. jobs'[m] = jobs[m]
          BY <2>6, <3>1, <4>5 DEF TypeOK
        <5> QED BY <4>2, <4>3, <5>1
      <4> QED BY <4>4, <4>5
    <3> QED BY <3>3 DEF JobsCountedOnce, JobsDone
  <2> QED BY <2>1, <2>5, <2>6
<1>5. ASSUME NEW b \in Bookings, Settle(b) PROVE JobsCountedOnce'
  BY <1>5, JobsFrame DEF Settle, JobsDone, TypeOK
<1>6. ASSUME NEW b \in Bookings, Ladder(b), ~LadderCommit(b) PROVE UNCHANGED <<status, mechanic, jobs>>
  BY <1>6 DEF Ladder, RouteRead, RouteClaim, RouteConflict, SendWave, EscalateStandDown, EscalateFind,
              EscalateFails, db
<1>7. ASSUME NEW b \in Bookings, Accept(b), ~AcceptCommit(b) PROVE UNCHANGED <<status, mechanic, jobs>>
  BY <1>7 DEF Accept, AcceptLock, AcceptTooLate, AcceptBusy, AcceptWrite, AcceptVictim, db
<1>8. ASSUME NEW b \in Bookings, NEW m \in Mechanics, Decline(b, m) \/ Lapse(b, m)
      PROVE  UNCHANGED <<status, mechanic, jobs>>
  BY <1>8 DEF Decline, Lapse
<1>9. ASSUME (\E m \in Mechanics : SetAvailability(m)) \/ SweepStart \/ SweepEnd \/ Restart \/ UNCHANGED vars
      PROVE  UNCHANGED <<status, mechanic, jobs>>
  BY <1>9 DEF SetAvailability, SweepStart, SweepEnd, Restart, db, vars
<1> QED BY <1>1, <1>2, <1>3, <1>4, <1>5, <1>6, <1>7, <1>8, <1>9 DEF Next

\* However a completion is sent twice, races a cancel or a payment, a booking counts
\* for its mechanic at most once.
THEOREM JobsAlwaysCountedOnce == Spec => []JobsCountedOnce
<1>1. Init => JobsCountedOnce
  <2> SUFFICES ASSUME Init PROVE JobsCountedOnce
    OBVIOUS
  <2>1. \A m \in Mechanics : JobsDone(m) = {} /\ jobs[m] = 0
    BY DEF Init, JobsDone
  <2>2. Cardinality({}) = 0
    BY FS_EmptySet
  <2> QED BY <2>1, <2>2 DEF JobsCountedOnce, JobsDone
<1> QED BY <1>1, JobsStep, AcceptRaceIsSafe, TypeCorrect, PTL DEF Spec
=============================================================================
