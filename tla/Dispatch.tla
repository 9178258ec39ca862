------------------------------ MODULE Dispatch ------------------------------
(***************************************************************************)
(* The dispatch ladder and the accept race of the API server: dispatch.ts, *)
(* the dispatch / decline / accept / transition routes of server.ts and    *)
(* the duty toggle of routes/mechanic.ts.                                  *)
(*                                                                         *)
(* The grain is one action per Postgres statement that another request can *)
(* be ordered against.  A transaction's writes appear when it commits; in  *)
(* between the row locks and the advisory lock it holds are visible:       *)
(*   ladder[b].pc # "idle"  lock (6, b) is held by a search or escalation  *)
(*   ladder[b].pc = "found" ... which has also locked booking row b        *)
(*   ladder[b].pc = "sent"  ... and shares its wave's mechanic rows        *)
(*   acceptor[b] # Nobody   an accept has locked booking row b             *)
(*   b \in wrote            ... and its mechanic's row and b's offer rows. *)
(* owed, sweeping, noted and dueNow are memory of the one server process:  *)
(* escalate() calls still to be made, a sweep in progress, and sweepDueAt, *)
(* which is past (dueNow), the earliest expiry in noted, or Infinity.      *)
(***************************************************************************)
EXTENDS Naturals, FiniteSets, BookingMachine

CONSTANTS
    Bookings, Mechanics, Nobody,
    Plans,          \* searches a customer can ask for: a radius and a wave size
    DefaultPlan,    \* env.dispatchRadiusKm, env.dispatchWaveSize
    Reach,          \* Reach[p][b]: verified, located mechanics in p's radius of b
    WaveSize,       \* WaveSize[p]: offers in one wave
    Roles,          \* who sends commands: "customer", "mechanic", "admin"
    Commands,       \* the commands they send
    LateAccepts,    \* whether Accept may arrive after the offer's window
    Faults,         \* what may fail: reasons of an escalation, "restart"
    MaxFaults       \* bound on how often

Reasons == {"declined", "expired", "withdrawn"}

ASSUME DispatchAssumption ==
    /\ IsFiniteSet(Bookings) /\ IsFiniteSet(Mechanics) /\ Nobody \notin Mechanics
    /\ DefaultPlan \in Plans
    /\ Reach \in [Plans -> [Bookings -> SUBSET Mechanics]]
    /\ WaveSize \in [Plans -> Nat \ {0}]
    /\ Roles \subseteq {"customer", "mechanic", "admin"}
    /\ Commands \subseteq Command
    /\ LateAccepts \in BOOLEAN
    /\ Faults \subseteq Reasons \cup {"restart"}
    /\ MaxFaults \in Nat

VARIABLES
    status, mechanic,   \* bookings.status, bookings.mechanic_id
    plan,               \* the search its booking_events last recorded
    offer,              \* dispatch_offers.status (see OfferStatus)
    onDuty,             \* mechanics.is_available
    jobs,               \* mechanics.jobs_completed
    ladder, acceptor, wrote,            \* open transactions and their locks
    owed, sweeping, noted, dueNow,      \* the server process
    faults

db == <<status, mechanic, plan, offer, onDuty, jobs>>
txs == <<ladder, acceptor, wrote>>
server == <<owed, sweeping, noted, dueNow>>
vars == <<db, txs, server, faults>>

Pairs == Bookings \X Mechanics
\* "NONE": no row.  "OVERDUE": the row reads SENT and its expires_at has passed.
OfferStatus == {"NONE", "SENT", "OVERDUE", "ACCEPTED", "DECLINED", "EXPIRED", "WITHDRAWN"}
Open == {"SENT", "OVERDUE"}
Closed == {"ACCEPTED", "DECLINED", "EXPIRED", "WITHDRAWN"}
NoLadder == [pc |-> "idle", by |-> "none", seen |-> "none", plan |-> DefaultPlan, wave |-> {}]
Ladders == [pc : {"idle", "read", "found", "sent"}, by : Reasons \cup {"none", "route"},
            seen : Status \cup {"none", "changed"}, plan : Plans, wave : SUBSET Mechanics]

TypeOK ==
    /\ status \in [Bookings -> Status]
    /\ mechanic \in [Bookings -> Mechanics \cup {Nobody}]
    /\ plan \in [Bookings -> Plans]
    /\ offer \in [Bookings -> [Mechanics -> OfferStatus]]
    /\ onDuty \subseteq Mechanics
    /\ jobs \in [Mechanics -> Nat]
    /\ ladder \in [Bookings -> Ladders]
    /\ acceptor \in [Bookings -> Mechanics \cup {Nobody}]
    /\ wrote \subseteq Bookings
    /\ owed \in [Bookings -> SUBSET Reasons]
    /\ sweeping \in BOOLEAN
    /\ noted \subseteq Pairs
    /\ dueNow \in BOOLEAN
    /\ faults \in Nat

\* The rows as POST /v1/bookings leaves them, everybody off duty, server booted
\* (sweepDueAt = 0: sweep, then ask the table).
Init ==
    /\ status = [b \in Bookings |-> "REQUESTED"]
    /\ mechanic = [b \in Bookings |-> Nobody]
    /\ plan = [b \in Bookings |-> DefaultPlan]
    /\ offer = [b \in Bookings |-> [m \in Mechanics |-> "NONE"]]
    /\ onDuty = {}
    /\ jobs = [m \in Mechanics |-> 0]
    /\ ladder = [b \in Bookings |-> NoLadder]
    /\ acceptor = [b \in Bookings |-> Nobody]
    /\ wrote = {}
    /\ owed = [b \in Bookings |-> {}]
    /\ sweeping = FALSE
    /\ noted = {}
    /\ dueNow = TRUE
    /\ faults = 0

-----------------------------------------------------------------------------
(* What the queries see, and noteOfferExpiry *)

\* sweepDueAt := min(sweepDueAt, expiry): a time already past stays.
Note(offers) == noted' = IF dueNow THEN {} ELSE noted \cup offers

OnJobNotWaiting(m) ==         \* variant: the job waiting for parts or a tow is forgotten
    {b \in Bookings : mechanic[b] = m /\ status[b] \in Committed \ {"AWAITING_PARTS", "ESCALATED"}}
OnJob(m) == {b \in Bookings : mechanic[b] = m /\ status[b] \in Committed}

Sent(b) == {m \in Mechanics : offer[b][m] \in Open}
Live(b) == {m \in Mechanics : offer[b][m] = "SENT"}
Overdue(b) == {m \in Mechanics : offer[b][m] = "OVERDUE"}

CandidatesAgain(b, p) ==      \* variant: those already asked are asked again
    {m \in Reach[p][b] : m \in onDuty /\ OnJob(m) = {}}

\* findCandidates: on duty, in range, not committed, never offered this booking.
Candidates(b, p) ==
    {m \in Reach[p][b] : m \in onDuty /\ OnJob(m) = {} /\ offer[b][m] = "NONE"}

\* The best waveSize of them: which ones the ranking prefers is left open.
Waves(b, p) ==
    LET C == Candidates(b, p)
    IN {W \in SUBSET C :
          \/ W = C /\ Cardinality(C) <= WaveSize[p]
          \/ Cardinality(W) = WaveSize[p]}

RowFree(b) == acceptor[b] = Nobody /\ ladder[b].pc \notin {"found", "sent"}

\* Offer row <<b, m>> is locked by the accept of b that has written it.
RowLocked(b, m) == b \in wrote /\ (acceptor[b] = m \/ offer[b][m] \in Open)

\* The row of mechanic m is locked by an accept, or shared by the foreign key
\* of an offer a wave has inserted and not yet committed.
MechanicLocked(m) == \E b \in wrote : acceptor[b] = m
MechanicShared(m) == \E b \in Bookings : ladder[b].pc = "sent" /\ m \in ladder[b].wave

-----------------------------------------------------------------------------
(* POST /v1/bookings/:id/dispatch: three statements' worth of steps under  *)
(* the try-lock.                                                           *)

\* Where a search may start: anew, or again once no offer is live.
MaySearchOverOffers(b) == status[b] \in {"REQUESTED", "NO_SUPPLY", "MATCHING"}     \* variant
MaySearch(b) ==
    \/ status[b] \in {"REQUESTED", "NO_SUPPLY"}
    \/ status[b] = "MATCHING" /\ mechanic[b] = Nobody /\ Live(b) = {}

\* The try-lock, and the booking re-read under it.
RouteRead(b, p) ==
    /\ ladder[b].pc = "idle"
    /\ MaySearch(b)
    /\ ladder' = [ladder EXCEPT ![b] =
                    [NoLadder EXCEPT !.pc = "read", !.by = "route",
                                     !.seen = status[b], !.plan = p]]
    /\ UNCHANGED <<db, acceptor, wrote, server, faults>>

\* sendWave's query.
FindWave(b, by, p) ==
    \E W \in Waves(b, p) :
        ladder' = [ladder EXCEPT ![b] = [pc |-> "found", by |-> by,
                     seen |-> status[b], plan |-> p, wave |-> W]]

\* The claim: a compare-and-swap on status, version and "no mechanic"; then the wave.
RouteClaim(b) ==
    /\ ladder[b].pc = "read"
    /\ RowFree(b)
    /\ status[b] = ladder[b].seen
    /\ mechanic[b] = Nobody
    /\ FindWave(b, "route", ladder[b].plan)
    /\ UNCHANGED <<db, acceptor, wrote, server, faults>>

\* 409: the booking changed while this request was in flight.
RouteConflict(b) ==
    /\ ladder[b].pc = "read"
    /\ RowFree(b)
    /\ status[b] # ladder[b].seen \/ mechanic[b] # Nobody
    /\ ladder' = [ladder EXCEPT ![b] = NoLadder]
    /\ UNCHANGED <<db, acceptor, wrote, server, faults>>

\* sendWave's insert, and noteOfferExpiry of each offer - before the commit.
SendWave(b) ==
    /\ ladder[b].pc = "found" /\ ladder[b].wave # {}
    /\ \A m \in ladder[b].wave : ~MechanicLocked(m)
    /\ ladder' = [ladder EXCEPT ![b].pc = "sent"]
    /\ Note({b} \X ladder[b].wave)
    /\ UNCHANGED <<db, acceptor, wrote, owed, sweeping, dueNow, faults>>

Outcome(W) == IF W = {} THEN "NO_SUPPLY" ELSE "MATCHING"

\* Commit of a search or an escalation: the wave goes out, or there is nobody
\* left to ask and the booking says so.  Only the route records its plan.
LadderCommit(b) ==
    /\ \/ ladder[b].pc = "sent"
       \/ ladder[b].pc = "found" /\ ladder[b].wave = {}
    /\ LET W == ladder[b].wave
       IN /\ status' = [status EXCEPT ![b] = Outcome(W)]
          /\ offer' = [offer EXCEPT ![b] =
                         [m \in Mechanics |-> IF m \in W THEN "SENT" ELSE offer[b][m]]]
    /\ plan' = [plan EXCEPT ![b] = ladder[b].plan]
    /\ ladder' = [ladder EXCEPT ![b] = NoLadder]
    /\ UNCHANGED <<mechanic, onDuty, jobs, acceptor, wrote, server, faults>>

-----------------------------------------------------------------------------
(* escalate(b, r): waits for the advisory lock and for the booking row.    *)

Discharge(b, r) == owed' = [owed EXCEPT ![b] = @ \ {r}]

EscalateStart(b, r) ==
    /\ r \in owed[b]
    /\ ladder[b].pc = "idle"
    /\ acceptor[b] = Nobody

\* Only a booking still being matched, with nothing live outstanding, moves on.
MayEscalate(b) == status[b] = "MATCHING" /\ mechanic[b] = Nobody /\ Live(b) = {}

\* Nothing to do: not_matching, or other offers are still live.
EscalateStandDown(b, r) ==
    /\ EscalateStart(b, r)
    /\ ~MayEscalate(b)
    /\ Discharge(b, r)
    /\ UNCHANGED <<db, txs, sweeping, noted, dueNow, faults>>

\* The next wave, at the radius and wave size of the customer's own search.
EscalateFind(b, r) ==
    /\ EscalateStart(b, r)
    /\ MayEscalate(b)
    /\ FindWave(b, r, plan[b])
    /\ Discharge(b, r)
    /\ UNCHANGED <<db, acceptor, wrote, sweeping, noted, dueNow, faults>>

\* The transaction times out on a lock or fails: rolled back.  A caller of a
\* decline or an accept only reports it; the sweep stops at the first failure,
\* leaves its other bookings and makes the sweeper due again.
EscalateFails(b, r) ==
    /\ r \in owed[b] \cap Faults
    /\ faults < MaxFaults
    /\ faults' = faults + 1
    /\ IF r = "expired"
         THEN /\ owed' = [c \in Bookings |-> owed[c] \ {"expired"}]
              /\ sweeping' = FALSE
              /\ dueNow' = TRUE
              /\ noted' = {}
         ELSE /\ Discharge(b, r)
              /\ UNCHANGED <<sweeping, dueNow, noted>>
    /\ UNCHANGED <<db, txs>>

-----------------------------------------------------------------------------
(* POST /v1/offers/:offerId/decline: one autocommitted compare-and-swap,   *)
(* then an escalation.                                                     *)

DeclineAlone(b, m) ==         \* variant: a refusal does not move the ladder on
    /\ offer[b][m] \in Open
    /\ ~RowLocked(b, m)
    /\ offer' = [offer EXCEPT ![b][m] = "DECLINED"]
    /\ UNCHANGED <<status, mechanic, plan, onDuty, jobs, txs, server, faults>>
Decline(b, m) ==
    /\ offer[b][m] \in Open
    /\ ~RowLocked(b, m)
    /\ offer' = [offer EXCEPT ![b][m] = "DECLINED"]
    /\ owed' = [owed EXCEPT ![b] = @ \cup {"declined"}]
    /\ UNCHANGED <<status, mechanic, plan, onDuty, jobs, txs,
                   sweeping, noted, dueNow, faults>>

-----------------------------------------------------------------------------
(* POST /v1/offers/:offerId/accept                                         *)

\* SELECT ... FOR UPDATE on the booking, then the offer is read again; every
\* check but the mechanic's passes.
AcceptLock(b, m) ==
    /\ RowFree(b)
    /\ offer[b][m] = "SENT"
    /\ mechanic[b] = Nobody
    /\ Applies(status[b], "mechanic.accept", "ASSIGNED")
    /\ acceptor' = [acceptor EXCEPT ![b] = m]
    /\ UNCHANGED <<db, ladder, wrote, server, faults>>

\* The window has passed: the offer is closed and the request refused.
AcceptTooLate(b, m) ==
    /\ LateAccepts
    /\ RowFree(b)
    /\ offer[b][m] = "OVERDUE"
    /\ offer' = [offer EXCEPT ![b][m] = "EXPIRED"]
    /\ UNCHANGED <<status, mechanic, plan, onDuty, jobs, txs, server, faults>>

\* Under the mechanic's row lock: they are on another job.
AcceptBusy(b) ==
    /\ acceptor[b] # Nobody /\ b \notin wrote
    /\ ~MechanicLocked(acceptor[b]) /\ ~MechanicShared(acceptor[b])
    /\ OnJob(acceptor[b]) \ {b} # {}
    /\ acceptor' = [acceptor EXCEPT ![b] = Nobody]
    /\ UNCHANGED <<db, ladder, wrote, server, faults>>

AcceptWriteUnchecked(b) ==    \* variant: the mechanic's other job is not looked for
    /\ acceptor[b] # Nobody /\ b \notin wrote
    /\ ~MechanicLocked(acceptor[b]) /\ ~MechanicShared(acceptor[b])
    /\ wrote' = wrote \cup {b}
    /\ UNCHANGED <<db, ladder, acceptor, server, faults>>

\* ... they are free: this booking's offer rows are written, and so locked.
AcceptWrite(b) ==
    /\ acceptor[b] # Nobody /\ b \notin wrote
    /\ ~MechanicLocked(acceptor[b]) /\ ~MechanicShared(acceptor[b])
    /\ OnJob(acceptor[b]) \ {b} = {}
    /\ wrote' = wrote \cup {b}
    /\ UNCHANGED <<db, ladder, acceptor, server, faults>>

\* Accept b waits for an offer of its mechanic that accept c has written.
WaitsFor(b, c) ==
    /\ {b, c} \subseteq wrote /\ b # c
    /\ offer[c][acceptor[b]] \in Open


\* The rows at commit: this offer accepted - by id, whatever it has become
\* since it was read - and every other open offer of the booking and of the
\* mechanic withdrawn.
Accepted(b) ==
    [c \in Bookings |-> [n \in Mechanics |->
        IF c = b /\ n = acceptor[b] THEN "ACCEPTED"
        ELSE IF offer[c][n] \in Open /\ (c = b \/ n = acceptor[b]) THEN "WITHDRAWN"
        ELSE offer[c][n]]]

\* The bookings that lose this mechanic's offer are owed an escalation.
OwedAfterAccept(b) ==
    [c \in Bookings |->
        IF c # b /\ offer[c][acceptor[b]] \in Open
          THEN owed[c] \cup {"withdrawn"} ELSE owed[c]]

\* The mechanic's other offers, the booking, and the commit.
AcceptCommit(b) ==
    /\ b \in wrote
    /\ \A c \in Bookings : ~WaitsFor(b, c)
    /\ offer' = Accepted(b)
    /\ status' = [status EXCEPT ![b] = "ASSIGNED"]
    /\ mechanic' = [mechanic EXCEPT ![b] = acceptor[b]]
    /\ acceptor' = [acceptor EXCEPT ![b] = Nobody]
    /\ wrote' = wrote \ {b}
    /\ owed' = OwedAfterAccept(b)
    /\ UNCHANGED <<plan, onDuty, jobs, ladder, sweeping, noted, dueNow, faults>>

\* Accepts waiting for each other in a circle: Postgres rolls one back.
Deadlocked(b) ==
    \E S \in SUBSET wrote : b \in S /\ \A c \in S : \E d \in S : WaitsFor(c, d)

AcceptVictim(b) ==
    /\ Deadlocked(b)
    /\ acceptor' = [acceptor EXCEPT ![b] = Nobody]
    /\ wrote' = wrote \ {b}
    /\ UNCHANGED <<db, ladder, server, faults>>

-----------------------------------------------------------------------------
(* POST /v1/bookings/:id/transition: one guarded update; a cancel closes   *)
(* the open offers and a completion counts the job in the same transaction.*)

\* What the audience and command checks let each role send.
MaySend(b, c, role) ==
    /\ role = "mechanic" => mechanic[b] # Nobody /\ c # "cancel"
    /\ role # "admin" =>
         c \notin {"mechanic.accept", "dispatch.start", "offers.exhausted", "submit"}

\* withdrawOpenOffers, for the one command that calls it.
LeftOpen(b, to) == offer      \* variant: a cancel forgets the offers
OffersAfter(b, to) ==
    IF to # "CANCELLED" THEN offer
    ELSE [offer EXCEPT ![b] = [m \in Mechanics |->
            IF offer[b][m] \in Open THEN "WITHDRAWN" ELSE offer[b][m]]]

StartsJob(to) == to \in {"IN_PROGRESS", "COMPLETED"}     \* variant
FinishesJob(to) == to = "COMPLETED"

Transition(b, c, role) ==
    /\ c # "payment.settled"            \* its own action, below
    /\ MaySend(b, c, role)
    /\ RowFree(b)
    /\ \E to \in Status :
        /\ Applies(status[b], c, to)
        /\ status' = [status EXCEPT ![b] = to]
        /\ offer' = OffersAfter(b, to)
        /\ jobs' = IF FinishesJob(to) /\ mechanic[b] # Nobody /\ role # "customer"
                     THEN [jobs EXCEPT ![mechanic[b]] = @ + 1] ELSE jobs
    \* version + 1: a search that has read this booking will find it changed.
    /\ ladder' = IF ladder[b].pc = "read"
                   THEN [ladder EXCEPT ![b].seen = "changed"] ELSE ladder
    /\ UNCHANGED <<mechanic, plan, onDuty, acceptor, wrote, server, faults>>

\* COMPLETED -> PAID, by whichever payment route settles the invoice first.
Settle(b) ==
    /\ RowFree(b)
    /\ Applies(status[b], "payment.settled", "PAID")
    /\ status' = [status EXCEPT ![b] = "PAID"]
    /\ UNCHANGED <<mechanic, plan, offer, onDuty, jobs, txs, server, faults>>

\* POST /v1/mechanic/availability.
SetAvailability(m) ==
    /\ ~MechanicLocked(m)
    /\ \/ onDuty' = onDuty \cup {m}
       \/ onDuty' = onDuty \ {m}
    /\ onDuty' # onDuty
    /\ UNCHANGED <<status, mechanic, plan, offer, jobs, txs, server, faults>>

-----------------------------------------------------------------------------
(* Time and the sweeper.  An offer outlives the transaction that sends it: *)
(* offerTtlSeconds is far longer than the statement timeout.               *)

Lapse(b, m) ==
    /\ \/ offer[b][m] = "SENT"
       \/ offer[b][m] \in Closed /\ <<b, m>> \in noted
    /\ offer' = [offer EXCEPT ![b][m] = IF @ = "SENT" THEN "OVERDUE" ELSE @]
    /\ IF <<b, m>> \in noted
         THEN dueNow' = TRUE /\ noted' = {}
         ELSE UNCHANGED <<dueNow, noted>>
    /\ UNCHANGED <<status, mechanic, plan, onDuty, jobs, txs, owed, sweeping, faults>>

\* sweepIfDue once sweepDueAt has passed: it becomes Infinity (noted is empty),
\* and what is overdue is closed.
SweepStart ==
    /\ ~sweeping
    /\ dueNow
    /\ \A b \in Bookings : \A m \in Overdue(b) : ~RowLocked(b, m)
    /\ offer' = [b \in Bookings |-> [m \in Mechanics |->
                   IF m \in Overdue(b) THEN "EXPIRED" ELSE offer[b][m]]]
    /\ owed' = [b \in Bookings |->
                  IF Overdue(b) # {} THEN owed[b] \cup {"expired"} ELSE owed[b]]
    /\ sweeping' = TRUE
    /\ dueNow' = FALSE
    /\ UNCHANGED noted
    /\ UNCHANGED <<status, mechanic, plan, onDuty, jobs, txs, faults>>

SweepEndForgets ==            \* variant: the table is not asked again
    /\ sweeping
    /\ \A b \in Bookings : "expired" \notin owed[b] /\ ladder[b].by # "expired"
    /\ sweeping' = FALSE
    /\ UNCHANGED <<db, txs, owed, noted, dueNow, faults>>

\* Every escalation of the sweep is done: ask the table for the next expiry.
SweepEnd ==
    /\ sweeping
    /\ \A b \in Bookings : "expired" \notin owed[b] /\ ladder[b].by # "expired"
    /\ sweeping' = FALSE
    /\ IF \E b \in Bookings : Overdue(b) # {}
         THEN dueNow' = TRUE /\ noted' = {}
         ELSE Note({p \in Pairs : offer[p[1]][p[2]] = "SENT"}) /\ UNCHANGED dueNow
    /\ UNCHANGED <<db, txs, owed, faults>>

\* The process dies and starts again: Postgres rolls its transactions back, and
\* the escalations it had still to make are gone.
Restart ==
    /\ "restart" \in Faults
    /\ faults < MaxFaults
    /\ faults' = faults + 1
    /\ ladder' = [b \in Bookings |-> NoLadder]
    /\ acceptor' = [b \in Bookings |-> Nobody]
    /\ wrote' = {}
    /\ owed' = [b \in Bookings |-> {}]
    /\ sweeping' = FALSE
    /\ noted' = {}
    /\ dueNow' = TRUE
    /\ UNCHANGED db

-----------------------------------------------------------------------------
Ladder(b) ==
    \/ \E p \in Plans : RouteRead(b, p)
    \/ RouteClaim(b) \/ RouteConflict(b) \/ SendWave(b) \/ LadderCommit(b)
    \/ \E r \in Reasons : EscalateStandDown(b, r) \/ EscalateFind(b, r) \/ EscalateFails(b, r)

Accept(b) ==
    \/ \E m \in Mechanics : AcceptLock(b, m) \/ AcceptTooLate(b, m)
    \/ AcceptBusy(b) \/ AcceptWrite(b) \/ AcceptCommit(b) \/ AcceptVictim(b)

Next ==
    \/ \E b \in Bookings :
         \/ Ladder(b)
         \/ Accept(b)
         \/ \E m \in Mechanics : Decline(b, m) \/ Lapse(b, m)
         \/ \E c \in Commands, role \in Roles : Transition(b, c, role)
         \/ Settle(b)
    \/ \E m \in Mechanics : SetAvailability(m)
    \/ SweepStart \/ SweepEnd \/ Restart

\* A request that has begun runs on, escalations are made, time passes and the
\* interval timer fires; nobody has to send a request.
Fairness ==
    /\ \A b \in Bookings :
         /\ WF_vars(RouteClaim(b) \/ RouteConflict(b))
         /\ WF_vars(SendWave(b) \/ LadderCommit(b))
         /\ \A r \in Reasons : SF_vars(EscalateStandDown(b, r) \/ EscalateFind(b, r))
         /\ WF_vars(AcceptBusy(b) \/ AcceptWrite(b))
         /\ WF_vars(AcceptCommit(b) \/ AcceptVictim(b))
         /\ \A m \in Mechanics : WF_vars(Lapse(b, m))
    /\ WF_vars(SweepStart)
    /\ WF_vars(SweepEnd)

Spec == Init /\ [][Next]_vars
FairSpec == Spec /\ Fairness

-----------------------------------------------------------------------------
(* Safety *)

\* A mechanic is never committed to two customers, however many of their offers
\* are accepted at once (the mechanic-row lock and busy check of accept).
OneJob ==
    \A b, c \in Bookings : \A m \in Mechanics :
        b \in OnJob(m) /\ c \in OnJob(m) => b = c

\* The assigned mechanic is the one whose offer reads ACCEPTED, there is no
\* second one, and nobody still holds an open offer for a job that is taken.
AssignmentMatchesOffer ==
    \A b \in Bookings :
        /\ \A m \in Mechanics : mechanic[b] = m <=> offer[b][m] = "ACCEPTED"
        /\ mechanic[b] # Nobody =>
             /\ Sent(b) = {}
             /\ status[b] \in Committed \cup {"COMPLETED", "PAID", "CANCELLED"}

\* A cancelled booking leaves no dead Accept button behind, even when the
\* cancel races a wave being sent or an accept being decided.
CancelledHasNoOpenOffer ==
    \A b \in Bookings : status[b] = "CANCELLED" => Sent(b) = {}

\* A booking and its offers tell one story: who has accepted is who does the job,
\* and an assigned or cancelled booking has no offer open.
OffersMatchBooking == AssignmentMatchesOffer /\ CancelledHasNoOpenOffer

\* Two refusals, a refusal and the sweeper, or a refusal and a retry never both
\* send a wave: the live offers of a booking fit in one wave of its last search,
\* and the customer is told "nobody left" only when no mechanic can still answer.
OneWaveAtATime ==
    \A b \in Bookings :
        Cardinality(Live(b)) <= IF status[b] = "NO_SUPPLY" THEN 0 ELSE WaveSize[plan[b]]

\* A search all of whose offers are closed is about to be moved on: the sweeper
\* looks only at SENT offers, so nothing else would ever move it.
NoOrphanedSearch ==
    \A b \in Bookings :
        status[b] = "MATCHING" /\ Sent(b) = {} =>
            owed[b] # {} \/ ladder[b].pc \in {"found", "sent"}

\* jobs_completed counts a booking at most once, and only for its mechanic.
JobsCountedOnce ==
    \A m \in Mechanics :
        jobs[m] <= Cardinality({b \in Bookings : mechanic[b] = m /\ status[b] \in {"COMPLETED", "PAID"}})

\* "Infinity = no SENT offer exists": a sweeper with nothing due and nothing
\* running has no offer to wait for.
InfinityMeansNoOffer ==
    noted = {} /\ ~dueNow /\ ~sweeping => \A b \in Bookings : Sent(b) = {}

\* The locks do what they are for.  While an accept is deciding, its booking is
\* being matched and has no mechanic; once it has written, no other accept has
\* its mechanic, who is on no other job.  While a wave is being sent, its
\* booking is still searching and nobody in the wave was asked before.
LockDiscipline ==
    /\ \A b \in Bookings :
         /\ acceptor[b] # Nobody =>
              /\ status[b] = "MATCHING" /\ mechanic[b] = Nobody
              /\ ladder[b].pc \notin {"found", "sent"}
         /\ ladder[b].pc = "read" =>
              ladder[b].seen \in {"REQUESTED", "MATCHING", "NO_SUPPLY", "changed"}
         /\ ladder[b].pc \in {"found", "sent"} =>
              /\ mechanic[b] = Nobody
              /\ status[b] \in {"REQUESTED", "MATCHING", "NO_SUPPLY"}
              /\ \A m \in ladder[b].wave : offer[b][m] = "NONE"
    /\ \A b \in wrote :
         /\ acceptor[b] # Nobody
         /\ OnJob(acceptor[b]) = {}
         /\ \A c \in wrote \ {b} : acceptor[c] # acceptor[b]

(* Action properties *)

\* An offer once closed is never open again and an accepted one never changes:
\* a mechanic is asked once per booking, in every wave and every retry.
NeverReopened ==
    [][\A b \in Bookings, m \in Mechanics :
          /\ offer[b][m] \in Closed => offer'[b][m] \in Closed
          /\ offer[b][m] = "ACCEPTED" => offer'[b][m] = "ACCEPTED"]_vars

(* Liveness *)

\* When an escalation is owed to a booking nobody is asked about any more, the
\* ladder does move: a new wave, NO_SUPPLY, or a cancel.
OwedWaveArrives ==
    \A b \in Bookings :
        (status[b] = "MATCHING" /\ Sent(b) = {} /\ owed[b] # {})
            ~> (status[b] # "MATCHING" \/ Sent(b) # {})

\* Every offer the sweeper will come to - its expiry is noted, or a sweep is due
\* or running - is closed in the end, by somebody's answer or by the sweeper.
NotedOfferEnds ==
    \A b \in Bookings, m \in Mechanics :
        (m \in Sent(b) /\ (<<b, m>> \in noted \/ dueNow \/ sweeping)) ~> m \notin Sent(b)

\* A search moves on: neither an owed wave nor a forgotten offer holds it up.
SearchMovesOn == OwedWaveArrives /\ NotedOfferEnds

(* The promise of the accept route to the rest of the system. *)
JobAllocation ==
    INSTANCE Allocation WITH Bookings <- Bookings, Mechanics <- Mechanics, Nobody <- Nobody,
                             status <- status, mechanic <- mechanic
Allocates == JobAllocation!Spec
=============================================================================
