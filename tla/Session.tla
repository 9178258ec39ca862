------------------------------ MODULE Session ------------------------------
(***************************************************************************)
(* The sign-in sessions of one account: refresh-token rotation, reuse      *)
(* detection and sign-out of auth.ts, the account deletion of              *)
(* routes/account.ts, and what authenticates with a session meanwhile - a  *)
(* live stream (realtime.ts) and a new booking.                            *)
(*                                                                         *)
(* A session is a row with one refresh token and one access token; rotated *)
(* rows stay, and anybody may present any token at any time.  reason[s] is *)
(* the row's revoked_reason, with "live" for null.  young are the sessions *)
(* whose access token has not expired, which is also what revoking calls   *)
(* "still minting": the row is made and the token issued in one breath.    *)
(*                                                                         *)
(* Locks are read off the requests: a rotation that has claimed holds the  *)
(* advisory lock of its family and the row of its token until it commits,  *)
(* a deletion in progress holds the users row FOR UPDATE - and an insert   *)
(* that references the users row waits for it (its foreign key check).     *)
(***************************************************************************)
EXTENDS Naturals, FiniteSets

CONSTANTS
    Sessions, Families, NoSession, NoFamily, Requests,
    MaxStreams,     \* MAX_STREAMS_PER_USER
    MaxWork,        \* bound on open bookings
    Kinds           \* which requests come: "refresh", "signout", "signin", "delete", "stream", "book"

ASSUME SessionAssumption ==
    /\ NoSession \notin Sessions /\ NoFamily \notin Families
    /\ IsFiniteSet(Sessions)
    /\ MaxStreams \in Nat /\ MaxWork \in Nat
    /\ Kinds \subseteq {"refresh", "signout", "signin", "delete", "stream", "book"}

VARIABLES
    family,         \* family[s]: the refresh-token family of s, once s exists
    reason,         \* reason[s]
    young,          \* sessions whose access token has not expired
    streams,        \* sessions under which a live stream is open
    account,        \* "open" or "deleted" (users.deleted_at)
    work,           \* open bookings of the account
    req             \* requests in flight

rows == <<family, reason>>
vars == <<rows, young, streams, account, work, req>>

Reasons == {"none", "live", "rotated", "reuse", "logout", "deleted"}
Ended == {"logout", "deleted"}                      \* ENDED_BY_OWNER
Idle == [pc |-> "idle", sid |-> NoSession, seen |-> {}]
Made(s) == reason[s] # "none"
Live(s) == reason[s] = "live"
FamilyOf(s) == {t \in Sessions : Made(t) /\ family[t] = family[s]}

TypeOK ==
    /\ family \in [Sessions -> Families \cup {NoFamily}]
    /\ reason \in [Sessions -> Reasons]
    /\ young \subseteq Sessions
    /\ streams \subseteq Sessions
    /\ account \in {"open", "deleted"}
    /\ work \in Nat
    /\ req \in [Requests -> [pc : {"idle", "refresh", "claimed", "reused", "burn", "signout", "signin",
                                   "delete", "erasing", "ended", "stream", "book"},
                             sid : Sessions \cup {NoSession}, seen : SUBSET Sessions]]

Init ==
    /\ family = [s \in Sessions |-> NoFamily]
    /\ reason = [s \in Sessions |-> "none"]
    /\ young = {}
    /\ streams = {}
    /\ account = "open"
    /\ work = 0
    /\ req = [r \in Requests |-> Idle]

-----------------------------------------------------------------------------
(* Who waits for whom *)

FamilyUnlocked(s) == TRUE       \* variant: no advisory lock
FamilyFree(s) ==
    \A q \in Requests : req[q].pc = "claimed" => family[req[q].sid] # family[s]

\* An update waits for rows a rotation has claimed and not yet committed.
RowsFree(S) == \A q \in Requests : req[q].pc = "claimed" => req[q].sid \notin S

UserRowFree == \A q \in Requests : req[q].pc # "erasing"

At(r, pc) == req[r].pc = pc
Goto(r, pc) == req' = [req EXCEPT ![r].pc = pc]
Finish(r) == req' = [req EXCEPT ![r] = Idle]
Begin(r, kind, s) ==
    /\ kind \in Kinds
    /\ req[r] = Idle
    /\ req' = [req EXCEPT ![r] = [Idle EXCEPT !.pc = kind, !.sid = s]]
    /\ UNCHANGED <<rows, young, streams, account, work>>

\* A session row and the tokens issued for it.
NewSession(s, f) ==
    /\ ~Made(s)
    /\ family' = [family EXCEPT ![s] = f]
    /\ young' = young \cup {s}

\* authenticate: the access token has not expired, and its session was not
\* ended by its owner.
Accepted(s) == s \in young /\ reason[s] \notin Ended

-----------------------------------------------------------------------------
(* Sign-in: startSession, at the end of every way in *)

SignInRead(r) ==
    /\ account = "open"
    /\ Begin(r, "signin", NoSession)

SignInInsert(r) ==
    /\ At(r, "signin") /\ UserRowFree
    /\ \E s \in Sessions, f \in Families :
         /\ \A t \in Sessions : family[t] # f
         /\ NewSession(s, f)
         /\ reason' = [reason EXCEPT ![s] = "live"]
    /\ Finish(r)
    /\ UNCHANGED <<streams, account, work>>

-----------------------------------------------------------------------------
(* POST /v1/auth/refresh: rotateSession *)

\* The row is read by its token's hash.  Ended by its owner: refused, nothing done.
RefreshRead(r, s) ==
    /\ Made(s) /\ reason[s] \notin Ended
    /\ \/ Live(s) /\ Begin(r, "refresh", s)
       \/ /\ ~Live(s)
          /\ "refresh" \in Kinds /\ req[r] = Idle
          /\ req' = [req EXCEPT ![r] = [Idle EXCEPT !.pc = "reused", !.sid = s]]
          /\ UNCHANGED <<rows, young, streams, account, work>>

\* burnFamily, outside any transaction: one update, of the rows it sees when it
\* begins, which waits for those a rotation holds.
BurnStart(r) ==
    /\ At(r, "reused")
    /\ req' = [req EXCEPT ![r].pc = "burn",
                          ![r].seen = {t \in FamilyOf(req[r].sid) : Live(t)}]
    /\ UNCHANGED <<rows, young, streams, account, work>>

BurnEndAll(r) ==                \* variant: whatever the rows have become meanwhile
    /\ At(r, "burn") /\ RowsFree(req[r].seen)
    /\ reason' = [t \in Sessions |-> IF t \in req[r].seen THEN "reuse" ELSE reason[t]]
    /\ Finish(r)
    /\ UNCHANGED <<family, young, streams, account, work>>
BurnEnd(r) ==
    /\ At(r, "burn") /\ RowsFree(req[r].seen)
    /\ reason' = [t \in Sessions |->
                    IF t \in req[r].seen /\ Live(t) THEN "reuse" ELSE reason[t]]
    /\ Finish(r)
    /\ UNCHANGED <<family, young, streams, account, work>>

\* The claim, under the family lock: whoever finds the token still live ...
RotateClaimAny(r) ==            \* variant: the update names the row, not its state
    /\ At(r, "refresh") /\ FamilyFree(req[r].sid)
    /\ Goto(r, "claimed")
    /\ UNCHANGED <<rows, young, streams, account, work>>
RotateClaim(r) ==
    /\ At(r, "refresh") /\ FamilyFree(req[r].sid)
    /\ Live(req[r].sid)
    /\ Goto(r, "claimed")
    /\ UNCHANGED <<rows, young, streams, account, work>>

\* ... inserts its successor, and both commit.
RotateCommit(r) ==
    /\ At(r, "claimed") /\ UserRowFree
    /\ \E s \in Sessions :
         /\ NewSession(s, family[req[r].sid])
         /\ reason' = [reason EXCEPT ![req[r].sid] = "rotated", ![s] = "live"]
    /\ Finish(r)
    /\ UNCHANGED <<streams, account, work>>

\* Whoever lost is a thief or was robbed - unless it was signed out meanwhile.
RotateLost(r) ==
    /\ At(r, "refresh") /\ FamilyFree(req[r].sid)
    /\ ~Live(req[r].sid)
    /\ reason' = IF reason[req[r].sid] \in Ended THEN reason
                 ELSE [t \in Sessions |->
                         IF t \in FamilyOf(req[r].sid) /\ Live(t) THEN "reuse" ELSE reason[t]]
    /\ Finish(r)
    /\ UNCHANGED <<family, young, streams, account, work>>

-----------------------------------------------------------------------------
(* POST /v1/auth/logout: revokeSessionFamily *)

\* By the access token, or by any refresh token of the family not signed out.
SignOutRead(r, s) ==
    /\ Made(s) /\ reason[s] \notin Ended
    /\ Begin(r, "signout", s)

\* Live rows are revoked, and rows whose access token may still be alive are
\* relabelled: that row is where authenticate looks.
LogoutReason == "logout"
SignOutCommit(r) ==
    LET revoked == {t \in FamilyOf(req[r].sid) : Live(t) \/ t \in young}
    IN /\ At(r, "signout") /\ FamilyFree(req[r].sid) /\ RowsFree(revoked)
       /\ reason' = [t \in Sessions |-> IF t \in revoked THEN LogoutReason ELSE reason[t]]
       /\ req' = [req EXCEPT ![r].pc = "ended", ![r].seen = revoked]
       /\ UNCHANGED <<family, young, streams, account, work>>

\* endSessionStreams, after the commit of a sign-out or a deletion.
EndStreams(r) ==
    /\ At(r, "ended")
    /\ streams' = streams \ req[r].seen
    /\ Finish(r)
    /\ UNCHANGED <<rows, young, account, work>>

-----------------------------------------------------------------------------
(* POST /v1/me/delete *)

\* Authenticated, and past the checks; one that is refused changes nothing.
DeleteRead(r, s) ==
    /\ Accepted(s)
    /\ account = "open" /\ work = 0
    /\ Begin(r, "delete", s)

\* The users row is locked, then deleted_at and the open work are read again.
DeleteLockUnchecked(r) ==       \* variant: the checks made before the lock are enough
    /\ At(r, "delete") /\ UserRowFree
    /\ account = "open"
    /\ Goto(r, "erasing")
    /\ UNCHANGED <<rows, young, streams, account, work>>
DeleteLock(r) ==
    /\ At(r, "delete") /\ UserRowFree
    /\ account = "open" /\ work = 0
    /\ Goto(r, "erasing")
    /\ UNCHANGED <<rows, young, streams, account, work>>

DeleteRefused(r) ==
    /\ At(r, "delete") /\ UserRowFree
    /\ account = "deleted" \/ work > 0
    /\ Finish(r)
    /\ UNCHANGED <<rows, young, streams, account, work>>

\* eraseAccount: every session is relabelled, whatever ended it, and it commits.
Erase(r) ==
    LET all == {t \in Sessions : Made(t)}
    IN /\ At(r, "erasing") /\ RowsFree(all)
       /\ reason' = [t \in Sessions |-> IF t \in all THEN "deleted" ELSE reason[t]]
       /\ account' = "deleted"
       /\ req' = [req EXCEPT ![r].pc = "ended", ![r].seen = all]
       /\ UNCHANGED <<family, young, streams, work>>

\* A rotation that holds a row and a deletion that holds the account wait for each
\* other: Postgres rolls one of them back.
DeadlockVictim(r) ==
    /\ \E q, d \in Requests : At(q, "claimed") /\ At(d, "erasing") /\ r \in {q, d}
    /\ Finish(r)
    /\ UNCHANGED <<rows, young, streams, account, work>>

-----------------------------------------------------------------------------
(* What a session is used for *)

\* GET /v1/events: authenticated with a lookup, subscribed afterwards.  A stream
\* of a token that expired meanwhile ends at once.
StreamAuth(r, s) == Accepted(s) /\ Begin(r, "stream", s)

StreamOpen(r) ==
    /\ At(r, "stream")
    /\ streams' = IF req[r].sid \in young /\ Cardinality(streams) < MaxStreams
                  THEN streams \cup {req[r].sid} ELSE streams
    /\ Finish(r)
    /\ UNCHANGED <<rows, young, account, work>>

\* POST /v1/bookings, and an SOS: open work that references the account.
BookAuth(r, s) == Accepted(s) /\ work < MaxWork /\ Begin(r, "book", s)

BookInsert(r) ==
    /\ At(r, "book") /\ UserRowFree
    /\ work' = work + 1
    /\ Finish(r)
    /\ UNCHANGED <<rows, young, streams, account>>

WorkCloses ==
    /\ work > 0
    /\ work' = work - 1
    /\ UNCHANGED <<rows, young, streams, account, req>>

\* The access token of s expires, and the timer ends its stream.
TokenExpires(s) ==
    /\ s \in young
    /\ young' = young \ {s}
    /\ streams' = streams \ {s}
    /\ UNCHANGED <<rows, account, work, req>>

\* The server dies: transactions roll back, streams are gone.
Restart ==
    /\ req' = [r \in Requests |-> Idle]
    /\ streams' = {}
    /\ UNCHANGED <<rows, young, account, work>>

Step(r) ==
    \/ SignInRead(r) \/ SignInInsert(r)
    \/ BurnStart(r) \/ BurnEnd(r) \/ RotateClaim(r) \/ RotateCommit(r) \/ RotateLost(r)
    \/ SignOutCommit(r) \/ EndStreams(r)
    \/ DeleteLock(r) \/ DeleteRefused(r) \/ Erase(r) \/ DeadlockVictim(r)
    \/ StreamOpen(r) \/ BookInsert(r)
    \/ \E s \in Sessions :
         RefreshRead(r, s) \/ SignOutRead(r, s) \/ DeleteRead(r, s) \/ StreamAuth(r, s) \/ BookAuth(r, s)

Next ==
    \/ \E r \in Requests : Step(r)
    \/ \E s \in Sessions : TokenExpires(s)
    \/ WorkCloses
    \/ Restart

Spec == Init /\ [][Next]_vars

-----------------------------------------------------------------------------
(* Safety *)

\* However many requests present the same refresh token, at most one session of
\* a family is live: a stolen token and its twin never both lead to one (the
\* claim of rotateSession).
OneLivePerFamily ==
    \A s, t \in Sessions : Live(s) /\ Live(t) /\ family[s] = family[t] => s = t

\* After a sign-out nothing of the family works any more: no refresh token is live
\* and no access token is accepted, not even one minted by a refresh that was in
\* flight (the family lock, and the relabelling of rotated rows).
SignedOutStaysOut ==
    \A s, t \in Sessions :
        reason[s] = "logout" /\ Made(t) /\ family[t] = family[s] => ~Live(t) /\ ~Accepted(t)

\* Nor after a deletion: no refresh in flight carries a sign-in past it (the row it
\* has claimed, and the deletion's update that waits for it).
DeletedFamilyIsOut ==
    \A s, t \in Sessions :
        reason[s] = "deleted" /\ Made(t) /\ family[t] = family[s] => ~Live(t) /\ ~Accepted(t)

\* What its owner ended stays ended for the whole family.
OwnersEndIsFinal == SignedOutStaysOut /\ DeletedFamilyIsOut

(* Action properties *)

\* A deletion does not scrub a booking or an SOS that is still open, however
\* lately it was made (the check under the lock, and the insert's foreign key).
NoOpenWorkScrubbed == [][account' # account => work' = 0]_vars

\* Once ended by its owner, always refused: no burn, rotation or late sign-out
\* gives a session of a sign-out or a deletion a reason that authenticate admits.
EndedStaysEnded ==
    [][\A s \in Sessions : reason[s] \in Ended => reason'[s] \in Ended]_vars

=============================================================================
