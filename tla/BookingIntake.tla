--------------------------- MODULE BookingIntake ---------------------------
(***************************************************************************)
(* Making a booking: POST /v1/bookings (server.ts) as the Android app      *)
(* calls it (BookingDraft.kt and bookAndDispatch of MainActivity.kt).      *)
(*                                                                         *)
(* The phone keeps one draft per intention: its key, minted and saved      *)
(* before the request leaves, and the booking once a reply brings it.      *)
(* Leaving the tab abandons the call under way, not the request: the       *)
(* server may be working on several requests of one draft.  It answers a   *)
(* key it has a reply for, and otherwise reserves it in the transaction    *)
(* that makes the booking.  Keys are random: no two phones mint the same,  *)
(* so the refusal of somebody else's key never happens between phones.     *)
(***************************************************************************)
EXTENDS Naturals, FiniteSets

CONSTANTS
    Users,          \* each with a phone of their own
    Calls,          \* requests the server may be working on at a time
    BookingKeys, NoBookingKey,
    MaxDrafts       \* bound on the drafts of a user

ASSUME IntakeAssumption == MaxDrafts \in Nat \ {0} /\ NoBookingKey \notin BookingKeys

VARIABLES
    draft,          \* draft[u]: how manieth, its key, whether the booking came back
    call,           \* call[r]: a request the server has in hand
    keyRow,         \* keyRow[k]: a row of idempotency_keys; "reserved" until it commits
    booked          \* bookings: who made it, for which draft, as which request's
intakeVars == <<draft, call, keyRow, booked>>

NoCall == [pc |-> "idle", by |-> "nobody", nth |-> 0, key |-> NoBookingKey]
FreeKey == [state |-> "free", by |-> "nobody"]

IntakeTypeOK ==
    /\ draft \in [Users -> [nth : 1..MaxDrafts, key : BookingKeys \cup {NoBookingKey}, has : BOOLEAN, waits : BOOLEAN]]
    /\ call \in [Calls -> [pc : {"idle", "arrived", "insert", "commit"}, by : Users \cup {"nobody"},
                           nth : 0..MaxDrafts, key : BookingKeys \cup {NoBookingKey}]]
    /\ keyRow \in [BookingKeys -> [state : {"free", "reserved", "stored"}, by : Users \cup {"nobody"}]]
    /\ \A b \in booked : b.by \in Users /\ b.nth \in 1..MaxDrafts /\ b.key \in BookingKeys /\ b.n \in Nat

NewDraft(n) == [nth |-> n, key |-> NoBookingKey, has |-> FALSE, waits |-> FALSE]

IntakeInit ==
    /\ draft = [u \in Users |-> NewDraft(1)]
    /\ call = [r \in Calls |-> NoCall]
    /\ keyRow = [k \in BookingKeys |-> FreeKey]
    /\ booked = {}

-----------------------------------------------------------------------------
(* The phone *)

\* newKey: a key that nobody has.
NewKeys(u) ==
    {k \in BookingKeys : /\ keyRow[k] = FreeKey
                         /\ \A v \in Users : draft[v].key # k
                         /\ \A r \in Calls : call[r].key # k}

\* keyFor: the saved key if this draft has one, else a new one.
KeyFor(u) == IF draft[u].key # NoBookingKey THEN {draft[u].key} ELSE NewKeys(u)

\* "Book & dispatch": the key is saved, then the request leaves.
Tap(u) ==
    /\ ~draft[u].has /\ ~draft[u].waits
    /\ \E r \in Calls, k \in KeyFor(u) :
         /\ call[r] = NoCall
         /\ draft' = [draft EXCEPT ![u].key = k, ![u].waits = TRUE]
         /\ call' = [call EXCEPT ![r] = [pc |-> "arrived", by |-> u, nth |-> draft[u].nth, key |-> k]]
    /\ UNCHANGED <<keyRow, booked>>

\* The call fails, or the tab is left and the call with it.
StopsWaiting(u) ==
    /\ draft[u].waits
    /\ draft' = [draft EXCEPT ![u].waits = FALSE]
    /\ UNCHANGED <<call, keyRow, booked>>

\* The booking is tracked, is over, or the user signs out: the next is a new draft.
DraftEnds(u) ==
    /\ draft[u].nth < MaxDrafts
    /\ draft[u].key # NoBookingKey
    /\ draft' = [draft EXCEPT ![u] = NewDraft(@.nth + 1)]
    /\ UNCHANGED <<call, keyRow, booked>>

-----------------------------------------------------------------------------
(* The server *)

Proceed(r, pc) == call' = [call EXCEPT ![r].pc = pc]

\* The reply arrives, or is lost: whoever waits for it hears of the booking.
Reply(r, booking) ==
    /\ call' = [call EXCEPT ![r] = NoCall]
    /\ \/ UNCHANGED draft
       \/ /\ draft[call[r].by].waits /\ draft[call[r].by].nth = call[r].nth
          /\ draft' = [draft EXCEPT ![call[r].by].waits = FALSE, ![call[r].by].has = booking]

\* Before its transaction a request looks for a stored reply, or somebody else's key.
Seen(r) ==
    /\ call[r].pc = "arrived"
    /\ keyRow[call[r].key].state = "stored"
    /\ Reply(r, keyRow[call[r].key].by = call[r].by)
    /\ UNCHANGED <<keyRow, booked>>

Unseen(r) ==
    /\ call[r].pc = "arrived"
    /\ keyRow[call[r].key].state # "stored"
    /\ Proceed(r, "insert")
    /\ UNCHANGED <<draft, keyRow, booked>>

\* Not the caller's vehicle, no such service, no phone: nothing is reserved.
Refuse(r) ==
    /\ call[r].pc = "arrived"
    /\ Reply(r, FALSE)
    /\ UNCHANGED <<keyRow, booked>>

\* The unique index: the insert waits for another's reservation to end.
ReservesUnchecked(k) == TRUE                     \* variant: the key is written at the end
Reserves(k) == keyRow[k].state = "free"

Reserve(r) ==
    /\ call[r].pc = "insert"
    /\ Reserves(call[r].key)
    /\ keyRow' = [keyRow EXCEPT ![call[r].key] = [state |-> "reserved", by |-> call[r].by]]
    /\ Proceed(r, "commit")
    /\ UNCHANGED <<draft, booked>>

Replay(r) ==
    /\ call[r].pc = "insert"
    /\ ~Reserves(call[r].key) /\ keyRow[call[r].key].state = "stored"
    /\ Reply(r, keyRow[call[r].key].by = call[r].by)
    /\ UNCHANGED <<keyRow, booked>>

\* Booking, position, transition, event and stored reply, all or none.
Commit(r) ==
    LET c == call[r]
    IN /\ c.pc = "commit"
       /\ booked' = booked \cup {[by |-> c.by, nth |-> c.nth, key |-> c.key, n |-> Cardinality(booked)]}
       /\ keyRow' = [keyRow EXCEPT ![c.key].state = "stored"]
       /\ Reply(r, TRUE)

Rollback(r) ==
    /\ call[r].pc = "commit"
    /\ keyRow' = [keyRow EXCEPT ![call[r].key] = FreeKey]
    /\ Reply(r, FALSE)
    /\ UNCHANGED booked

IntakeNext ==
    \/ \E u \in Users : Tap(u) \/ StopsWaiting(u) \/ DraftEnds(u)
    \/ \E r \in Calls : Seen(r) \/ Unseen(r) \/ Refuse(r) \/ Reserve(r) \/ Replay(r) \/ Commit(r) \/ Rollback(r)

IntakeSpec == IntakeInit /\ [][IntakeNext]_intakeVars

-----------------------------------------------------------------------------
(* Safety *)

\* However often a draft is tapped, its tab left and its replies lost, and however
\* its requests overlap in the server, it makes one booking; a draft that shows a
\* booking shows the one it made, and every booking has its reply stored.
OneBookingPerDraft ==
    /\ \A b, c \in booked : b.by = c.by /\ b.nth = c.nth => b = c
    /\ \A u \in Users : draft[u].has => \E b \in booked : b.by = u /\ b.nth = draft[u].nth
    /\ \A b \in booked : keyRow[b.key] = [state |-> "stored", by |-> b.by]
=============================================================================
