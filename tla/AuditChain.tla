----------------------------- MODULE AuditChain -----------------------------
(***************************************************************************)
(* The hash-chained audit log of audit.ts: audit() appends an entry that   *)
(* chains from the newest one, and verifyAuditChain() re-hashes the log,   *)
(* wholly or from the entry it verified last.                              *)
(*                                                                         *)
(* The log has no sequence number: it is read in the order of (created_at, *)
(* id), and id is random, so everything rests on stamps that never repeat  *)
(* and never go back.  Appends run one at a time, each in two statements   *)
(* (append holds the hash one has read); a verification is one snapshot.   *)
(* The rules that make UPDATE and DELETE of audit_log do nothing can be    *)
(* dropped by who owns the database, and rows changed meanwhile: that is   *)
(* what a verification is for.                                             *)
(***************************************************************************)
EXTENDS Naturals, Sequences, FiniteSets

CONSTANTS
    Entries,        \* how many rows there may be
    MaxClock,       \* bound of the clock, in milliseconds
    MaxStamp,       \* bound on how far the stamps may run
    MaxChanges,     \* bound on rows changed or deleted in place
    ClockSteps      \* whether the clock may step back across a restart

ASSUME AuditAssumption == Entries \in Nat /\ MaxClock \in Nat

VARIABLES
    log,            \* audit_log
    rules,          \* whether both append-only rules are in place
    clock, lastStamp,
    append,         \* the hashes read by appends that have yet to insert
    checkpoint,     \* the entry verified last, or NoCheckpoint
    harmed, sinceWalk,  \* rows changed, or now first after a deleted one; since the last full walk
    changes

process == <<lastStamp, append, checkpoint>>
auditVars == <<log, rules, clock, process, harmed, sinceWalk, changes>>

Genesis == <<>>
\* What a digest covers.  No two contents have one digest.
Digest(prev, at, body) == Append(prev, <<at, body>>)
NoCheckpoint == [id |-> 0, hash |-> Genesis, count |-> 0]

AuditTypeOK ==
    /\ \A r \in log : r.id \in 1..Entries /\ r.at \in Nat /\ r.body \in {"written", "changed"}
    /\ rules \in BOOLEAN
    /\ clock \in 1..MaxClock /\ lastStamp \in Nat
    /\ Cardinality(append) <= 1
    /\ checkpoint.id \in 0..Entries /\ checkpoint.count \in 0..Entries
    /\ sinceWalk \subseteq harmed /\ harmed \subseteq 1..Entries
    /\ changes \in 0..MaxChanges

AuditInit ==
    /\ log = {}
    /\ rules = TRUE
    /\ clock = 1
    /\ lastStamp = 0 /\ append = {} /\ checkpoint = NoCheckpoint
    /\ harmed = {} /\ sinceWalk = {} /\ changes = 0

-----------------------------------------------------------------------------
(* The order rows are read back in *)

Before(r, s) == r.at < s.at \/ (r.at = s.at /\ r.id < s.id)
Through(r) == {s \in log : s = r \/ Before(s, r)}
After(r) == {s \in log : Before(r, s)}
RowWith(id) == CHOOSE r \in log : r.id = id
Earliest(rows) == CHOOSE r \in rows : \A s \in rows \ {r} : Before(r, s)
Latest(rows) == CHOOSE r \in rows : \A s \in rows \ {r} : Before(s, r)
Tip == IF log = {} THEN Genesis ELSE Latest(log).hash

-----------------------------------------------------------------------------
(* Appending *)

ClockTicks ==
    /\ clock < MaxClock
    /\ clock' = clock + 1
    /\ UNCHANGED <<log, rules, process, harmed, sinceWalk, changes>>

\* Appends wait for one another.
MayReadTip == append = {}

ReadTip ==
    /\ MayReadTip
    /\ Cardinality(log) < Entries /\ lastStamp < MaxStamp
    /\ append' = append \cup {Tip}
    /\ UNCHANGED <<log, rules, clock, lastStamp, checkpoint, harmed, sinceWalk, changes>>

\* Never earlier than the clock, never the stamp before.
StampClock == clock                             \* variant: the clock's
Stamp == IF clock > lastStamp THEN clock ELSE lastStamp + 1

Insert(prev) ==
    /\ prev \in append
    /\ \E id \in 1..Entries :
         /\ \A r \in log : r.id # id
         /\ log' = log \cup {[id |-> id, at |-> Stamp, body |-> "written", prev |-> prev,
                              hash |-> Digest(prev, Stamp, "written")]}
    /\ lastStamp' = Stamp
    /\ append' = append \ {prev}
    /\ UNCHANGED <<rules, clock, checkpoint, harmed, sinceWalk, changes>>

\* The insert fails: the entry is given up, its stamp is not used again.
InsertFails(prev) ==
    /\ prev \in append
    /\ append' = append \ {prev}
    /\ lastStamp' = Stamp
    /\ UNCHANGED <<log, rules, clock, checkpoint, harmed, sinceWalk, changes>>

\* A restart takes longer than the stamps run ahead of the clock.
ProcessRestarts ==
    /\ lastStamp > 0
    /\ \E now \in 1..MaxClock :
         /\ ClockSteps \/ (now >= clock /\ now > lastStamp)
         /\ clock' = now
    /\ lastStamp' = 0 /\ append' = {} /\ checkpoint' = NoCheckpoint
    /\ UNCHANGED <<log, rules, harmed, sinceWalk, changes>>

-----------------------------------------------------------------------------
(* Rows changed in the database *)

RulesChange ==
    /\ rules => changes < MaxChanges
    /\ rules' = ~rules
    /\ UNCHANGED <<log, clock, process, harmed, sinceWalk, changes>>

Harms(ids) == harmed' = harmed \cup ids /\ sinceWalk' = sinceWalk \cup ids

ChangeRow(r) ==
    /\ ~rules /\ changes < MaxChanges
    /\ r \in log /\ r.body = "written"
    /\ log' = (log \ {r}) \cup {[r EXCEPT !.body = "changed"]}
    /\ Harms({r.id})
    /\ changes' = changes + 1
    /\ UNCHANGED <<rules, clock, process>>

RemoveRow(r) ==
    /\ ~rules /\ changes < MaxChanges
    /\ r \in log
    /\ log' = log \ {r}
    /\ harmed' = (harmed \ {r.id}) \cup {s.id : s \in {t \in After(r) : t = Earliest(After(r))}}
    /\ sinceWalk' = (sinceWalk \ {r.id}) \cup {s.id : s \in {t \in After(r) : t = Earliest(After(r))}}
    /\ changes' = changes + 1
    /\ UNCHANGED <<rules, clock, process>>

-----------------------------------------------------------------------------
(* Verifying *)

\* A link that matches its predecessor, a content that matches its hash.
Follows(r, prev) == r.prev = prev /\ r.hash = Digest(prev, r.at, r.body)

\* walkChain from an entry: the rows that verify, up to the first that does not.
Walked(start, rows) ==
    {r \in rows : \A s \in rows : s = r \/ Before(s, r) =>
        Follows(s, IF s = Earliest(rows) THEN start ELSE Latest({t \in rows : Before(t, s)}).hash)}

\* anchorProblem: none.
AnchorHolds ==
    /\ rules
    /\ \E r \in log : r.id = checkpoint.id /\ r.hash = checkpoint.hash
                      /\ Cardinality(Through(r)) = checkpoint.count

\* The checkpoint moves to the last entry that verified, back as well as forth.
NextCheckpointForward(start, good) ==           \* variant: it never moves back
    IF good = {} \/ start.count + Cardinality(good) < checkpoint.count
      THEN checkpoint
      ELSE [id |-> Latest(good).id, hash |-> Latest(good).hash, count |-> start.count + Cardinality(good)]
NextCheckpoint(start, good) ==
    IF good = {} THEN start
    ELSE [id |-> Latest(good).id, hash |-> Latest(good).hash, count |-> start.count + Cardinality(good)]

\* verifyOnce: full as the audit endpoint asks, or from the checkpoint if it stands.
Walk(full) ==
    LET anchored == ~full /\ checkpoint # NoCheckpoint /\ AnchorHolds
        start == IF anchored THEN checkpoint ELSE NoCheckpoint
        rows == IF anchored THEN After(RowWith(start.id)) ELSE log
        good == Walked(start.hash, rows)
    IN [anchored |-> anchored, start |-> start, good |-> good,
        ok |-> good = rows /\ start.count + Cardinality(good) = Cardinality(log)]

VerifyChain(full) ==
    /\ checkpoint' = NextCheckpoint(Walk(full).start, Walk(full).good)
    /\ sinceWalk' = IF Walk(full).anchored THEN sinceWalk ELSE {}
    /\ UNCHANGED <<log, rules, clock, lastStamp, append, harmed, changes>>

AuditNext ==
    \/ ClockTicks \/ ReadTip \/ ProcessRestarts \/ RulesChange
    \/ \E prev \in append : Insert(prev) \/ InsertFails(prev)
    \/ \E r \in log : ChangeRow(r) \/ RemoveRow(r)
    \/ \E full \in BOOLEAN : VerifyChain(full)

AuditSpec == AuditInit /\ [][AuditNext]_auditVars

-----------------------------------------------------------------------------
(* Safety *)

\* "the verifier reports a chain that is perfectly intact as broken" never again:
\* as long as no row was changed in place, a verification asked for now is ok,
\* whatever the clock, failed inserts and restarts did to the stamps.
NoFalseAlarm == changes = 0 => \A full \in BOOLEAN : Walk(full).ok

\* `ok` is true only of a log whose every entry was intact when last re-hashed: a
\* row changed, or left without its predecessor, is found by a full walk, and by an
\* incremental one unless it was changed since the last walk from the first entry.
HarmIsFound ==
    \A full \in BOOLEAN : Walk(full).ok =>
        harmed \subseteq IF Walk(full).anchored THEN sinceWalk ELSE {}

\* What POST /v1/admin/audit/verify answers is true: both of the above.
VerifyTellsTruth == NoFalseAlarm /\ HarmIsFound
=============================================================================
