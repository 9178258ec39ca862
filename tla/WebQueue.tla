------------------------------ MODULE WebQueue ------------------------------
(***************************************************************************)
(* The offline queue of the web app (app.html): api() queues a change made *)
(* without signal, flushQueue() journals the signed-in user's entries in   *)
(* one POST and then replays them one by one.                              *)
(*                                                                         *)
(* The queue is in memory (waiting) and in localStorage (stored).  A flush *)
(* takes its batch out of both before its first await and gives back what  *)
(* got no answer.  A call carries the token of whoever is signed in when   *)
(* it is made.  What a flush holds is gone if the page reloads, and counts *)
(* as rejected if the user signs out: dropped.  Left out: the rows of the  *)
(* journal, which nothing here reads.                                      *)
(***************************************************************************)
EXTENDS Naturals, Sequences, SequencesExt, Filter

CONSTANTS
    Ops, Persons, NoPerson,
    OwnerOf,            \* OwnerOf[q]: who queues q (uid)
    MaxSignIns,         \* bound on sign-ins
    MaxLost,            \* bound on calls that get no answer, or a 5xx
    JoinInFlight        \* whether somebody else signs in during a flush

ASSUME QueueAssumption ==
    /\ NoPerson \notin Persons /\ OwnerOf \in [Ops -> Persons]
    /\ MaxSignIns \in Nat /\ MaxLost \in Nat
    /\ JoinInFlight \in BOOLEAN

VARIABLES
    signal, person,     \* whether calls go out; who is signed in
    waiting, stored,    \* state.queue and "ra.app.queue"
    flush,              \* the flush in flight
    resting,            \* automatic flushes wait (flushRetryAt)
    made,               \* ops the user has asked for
    done, refused,      \* done[q]: who q was applied for, and whether the answer arrived
    dropped,            \* ops a flush held when it was left
    signIns, lost

queues == <<waiting, stored>>
outcomes == <<done, refused>>
queueVars == <<signal, person, queues, flush, resting, made, outcomes, dropped, signIns, lost>>

NoFlush == [pc |-> "idle", left |-> <<>>, retry |-> <<>>]

QueueTypeOK ==
    /\ signal \in BOOLEAN /\ resting \in BOOLEAN
    /\ person \in Persons \cup {NoPerson}
    /\ Range(waiting) \subseteq Ops /\ Range(stored) \subseteq Ops
    /\ flush.pc \in {"idle", "journal", "replay"}
    /\ Range(flush.left) \cup Range(flush.retry) \subseteq Ops
    /\ made \subseteq Ops /\ refused \subseteq Ops /\ dropped \subseteq Ops
    /\ done \in [Ops -> Seq([by : Persons, heard : BOOLEAN])]
    /\ signIns \in 0..MaxSignIns /\ lost \in 0..MaxLost

QueueInit ==
    /\ signal = TRUE /\ person = NoPerson
    /\ waiting = <<>> /\ stored = <<>>
    /\ flush = NoFlush /\ resting = FALSE
    /\ made = {} /\ done = [q \in Ops |-> <<>>] /\ refused = {} /\ dropped = {}
    /\ signIns = 0 /\ lost = 0

Own(q) == OwnerOf[q] = person
Keep(q) == waiting' = q /\ stored' = q          \* saveQueue

-----------------------------------------------------------------------------
SignalChanges ==
    /\ signal' = ~signal
    /\ UNCHANGED <<person, queues, flush, resting, made, outcomes, dropped, signIns, lost>>

Joins(p) ==
    /\ person = NoPerson /\ signIns < MaxSignIns
    /\ JoinInFlight \/ \A n \in 1..Len(flush.left) : OwnerOf[flush.left[n]] = p
    /\ person' = p
    /\ signIns' = signIns + 1
    /\ UNCHANGED <<signal, queues, flush, resting, made, outcomes, dropped, lost>>

\* Signing out leaves the queue to be replayed when its owner is back.
Leaves ==
    /\ person # NoPerson
    /\ person' = NoPerson
    /\ UNCHANGED <<signal, queues, flush, resting, made, outcomes, dropped, signIns, lost>>

Reloads ==
    /\ waiting # stored \/ flush.pc # "idle" \/ resting
    /\ waiting' = stored
    /\ flush' = NoFlush /\ resting' = FALSE
    /\ dropped' = dropped \cup Range(flush.left) \cup Range(flush.retry)
    /\ UNCHANGED <<signal, person, stored, made, outcomes, signIns, lost>>

\* api() without signal: at the end of the queue, also while a flush is in flight.
Enqueue(q) ==
    /\ ~signal /\ Own(q) /\ q \notin made
    /\ made' = made \cup {q}
    /\ Keep(Append(waiting, q))
    /\ UNCHANGED <<signal, person, flush, resting, outcomes, dropped, signIns, lost>>

-----------------------------------------------------------------------------
(* flushQueue *)

\* The batch leaves the queue before the first await.
Taken == Filtered(waiting, {q \in Ops : ~Own(q)})

OwnOps == Filtered(waiting, {q \in Ops : Own(q)})

FlushStarts(manual) ==
    /\ flush.pc = "idle" /\ person # NoPerson /\ OwnOps # <<>>
    /\ manual \/ ~resting
    /\ flush' = [pc |-> "journal", left |-> OwnOps, retry |-> <<>>]
    /\ Keep(Taken)
    /\ UNCHANGED <<signal, person, resting, made, outcomes, dropped, signIns, lost>>

Journalled ==
    /\ flush.pc = "journal" /\ person # NoPerson
    /\ flush' = [flush EXCEPT !.pc = "replay"]
    /\ UNCHANGED <<signal, person, queues, resting, made, outcomes, dropped, signIns, lost>>

\* Refused, or lost on the way there or back: the batch goes back in front.
BackDropped == waiting                             \* variant: it does not
Back == flush.left \o waiting
JournalFails ==
    /\ flush.pc = "journal"
    /\ \/ person = NoPerson /\ UNCHANGED lost
       \/ lost < MaxLost /\ lost' = lost + 1
    /\ flush' = NoFlush
    /\ Keep(Back)
    /\ UNCHANGED <<signal, person, resting, made, outcomes, dropped, signIns>>

Replaying == flush.pc = "replay" /\ flush.left # <<>>
Proceeds(retry) == flush' = [flush EXCEPT !.left = Tail(@), !.retry = retry]

Applied(q, heard) == done' = [done EXCEPT ![q] = Append(@, [by |-> person, heard |-> heard])]

ReplayAnswered ==
    /\ Replaying /\ person # NoPerson
    /\ \/ Applied(Head(flush.left), TRUE) /\ UNCHANGED refused
       \/ refused' = refused \cup {Head(flush.left)} /\ UNCHANGED done
    /\ Proceeds(flush.retry)
    /\ UNCHANGED <<signal, person, queues, resting, made, dropped, signIns, lost>>

\* A transport failure or a 5xx: the server may have applied it all the same.
ReplayLost ==
    /\ Replaying /\ person # NoPerson
    /\ lost < MaxLost /\ lost' = lost + 1
    /\ Applied(Head(flush.left), FALSE) \/ UNCHANGED done
    /\ Proceeds(Append(flush.retry, Head(flush.left)))
    /\ UNCHANGED <<signal, person, queues, resting, made, refused, dropped, signIns>>

\* Nobody signed in any more: 401 and no refresh, counted as a rejection.
ReplayUnsigned ==
    /\ Replaying /\ person = NoPerson
    /\ Proceeds(flush.retry)
    /\ dropped' = dropped \cup {Head(flush.left)}
    /\ UNCHANGED <<signal, person, queues, resting, made, outcomes, signIns, lost>>

FlushEnds ==
    /\ flush.pc = "replay" /\ flush.left = <<>>
    /\ flush' = NoFlush
    /\ IF flush.retry = <<>> THEN UNCHANGED <<queues, resting>>
                             ELSE Keep(flush.retry \o waiting) /\ resting' = TRUE
    /\ UNCHANGED <<signal, person, made, outcomes, dropped, signIns, lost>>

RestOver ==
    /\ resting /\ resting' = FALSE
    /\ UNCHANGED <<signal, person, queues, flush, made, outcomes, dropped, signIns, lost>>

QueueNext ==
    \/ SignalChanges \/ Leaves \/ Reloads \/ RestOver
    \/ \E p \in Persons : Joins(p)
    \/ \E q \in Ops : Enqueue(q)
    \/ \E manual \in BOOLEAN : FlushStarts(manual)
    \/ Journalled \/ JournalFails
    \/ ReplayAnswered \/ ReplayLost \/ ReplayUnsigned \/ FlushEnds

QueueSpec == QueueInit /\ [][QueueNext]_queueVars

-----------------------------------------------------------------------------
(* Safety *)

Waiting(q) == \E s \in {waiting, flush.left, flush.retry} : Contains(s, q)
Answered(q) == q \in refused \/ \E n \in DOMAIN done[q] : done[q][n].heard

\* A queued change waits, in the queue or in a flush, until the server answers it:
\* however calls are lost and users come and go, only leaving a flush drops one.
KeptOrAnswered == \A q \in made : Waiting(q) \/ Answered(q) \/ q \in dropped

\* "Replay the queue exactly once", "never under someone else's token": a change is
\* applied for who queued it, and not again once an answer has arrived.
ReplayedForItsOwner ==
    \A q \in Ops :
        /\ \A n \in DOMAIN done[q] : done[q][n].by = OwnerOf[q]
        /\ \A n \in DOMAIN done[q] : done[q][n].heard => n = Len(done[q])
        /\ Answered(q) => ~Waiting(q)

\* The queue neither drops a change nor makes it twice.
ReplayedOnce == KeptOrAnswered /\ ReplayedForItsOwner
=============================================================================
