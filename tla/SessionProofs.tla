--------------------------- MODULE SessionProofs ---------------------------
(***************************************************************************)
(* What is proved of Session, for any number of sessions, families and     *)
(* requests: a family has one live session, and nothing of it works after  *)
(* a sign-out or a deletion.                                               *)
(*                                                                         *)
(* The invariant adds what the locks give: a rotation that has claimed a   *)
(* token still finds it live, and is alone in its family.  That is why its *)
(* successor can neither be a second live session nor follow a sign-out.   *)
(***************************************************************************)
EXTENDS Session, TLAPS

RowsWhole ==
    /\ \A s \in Sessions : Made(s) <=> family[s] # NoFamily
    /\ \A s \in young : Made(s)

\* A claimed token is live until its rotation commits ...
ClaimHolds == \A r \in Requests : At(r, "claimed") => req[r].sid \in Sessions /\ Live(req[r].sid)

\* ... and its rotation is the only one in the family.
ClaimsApart ==
    \A q, r \in Requests :
        At(q, "claimed") /\ At(r, "claimed") /\ family[req[q].sid] = family[req[r].sid] => q = r

\* A family one of whose sessions was ended by its owner is out altogether.
FamilyOut ==
    \A s, t \in Sessions :
        reason[s] \in Ended /\ Made(t) /\ family[t] = family[s] => ~Live(t) /\ ~Accepted(t)

\* A refresh is about a session.
RefreshHolds == \A r \in Requests : At(r, "refresh") => req[r].sid \in Sessions

BooksHold == RowsWhole /\ ClaimHolds /\ ClaimsApart /\ OneLivePerFamily /\ FamilyOut
SessionInv == TypeOK /\ RefreshHolds /\ BooksHold

-----------------------------------------------------------------------------
(* Types *)

Pcs == {"idle", "refresh", "claimed", "reused", "burn", "signout", "signin",
        "delete", "erasing", "ended", "stream", "book"}
RequestRecords == [Requests -> [pc : Pcs, sid : Sessions \cup {NoSession}, seen : SUBSET Sessions]]

\* A request that only moves on, or ends, keeps its type (Goto and Finish).
LEMMA RequestTypes ==
    ASSUME req \in RequestRecords, NEW r \in Requests
    PROVE  /\ Finish(r) => req' \in RequestRecords
           /\ \A pc \in Pcs : Goto(r, pc) => req' \in RequestRecords
           /\ \A pc \in Pcs, seen \in SUBSET Sessions :
                req' = [req EXCEPT ![r].pc = pc, ![r].seen = seen] => req' \in RequestRecords
           /\ \A pc \in Pcs, s \in Sessions \cup {NoSession} :
                req' = [req EXCEPT ![r] = [Idle EXCEPT !.pc = pc, !.sid = s]] => req' \in RequestRecords
<1>1. Finish(r) => req' \in RequestRecords
  BY DEF Finish, Idle, RequestRecords, Pcs
<1>2. ASSUME NEW pc \in Pcs, Goto(r, pc) PROVE req' \in RequestRecords
  BY <1>2 DEF Goto, RequestRecords
<1>3. ASSUME NEW pc \in Pcs, NEW seen \in SUBSET Sessions,
             req' = [req EXCEPT ![r].pc = pc, ![r].seen = seen]
      PROVE  req' \in RequestRecords
  BY <1>3 DEF RequestRecords
<1>4. ASSUME NEW pc \in Pcs, NEW s \in Sessions \cup {NoSession},
             req' = [req EXCEPT ![r] = [Idle EXCEPT !.pc = pc, !.sid = s]]
      PROVE  req' \in RequestRecords
  <2>1. [Idle EXCEPT !.pc = pc, !.sid = s] \in [pc : Pcs, sid : Sessions \cup {NoSession}, seen : SUBSET Sessions]
    BY DEF Idle, Pcs
  <2> QED BY <1>4, <2>1 DEF RequestRecords
<1> QED BY <1>1, <1>2, <1>3, <1>4

\* A request that begins has a kind of the constant's, and changes nothing else (Begin).
LEMMA BeginTypes ==
    ASSUME TypeOK, NEW r \in Requests, NEW s \in Sessions \cup {NoSession},
           NEW k \in Pcs, Begin(r, k, s)
    PROVE  TypeOK'
<1>1. req \in RequestRecords
  BY DEF TypeOK, RequestRecords, Pcs
<1>2. req' \in RequestRecords
  BY <1>1, RequestTypes DEF Begin
<1> QED BY <1>2 DEF TypeOK, Begin, rows, RequestRecords, Pcs

\* Rows and requests keep their types in every step of a server that honours its
\* claims: the successor of a claimed token has a family because the token has.
LEMMA TypeStep == TypeOK /\ ClaimHolds /\ [Next]_vars => TypeOK'
<1> SUFFICES ASSUME TypeOK, ClaimHolds, [Next]_vars PROVE TypeOK'
  OBVIOUS
<1> USE SessionAssumption
<1>0. req \in RequestRecords /\ (req' \in RequestRecords =>
          req' \in [Requests -> [pc : {"idle", "refresh", "claimed", "reused", "burn", "signout", "signin",
                                   "delete", "erasing", "ended", "stream", "book"},
                             sid : Sessions \cup {NoSession}, seen : SUBSET Sessions]])
  BY DEF TypeOK, RequestRecords, Pcs
<1>1. ASSUME NEW r \in Requests, SignInRead(r) PROVE TypeOK'
  BY <1>1, BeginTypes DEF SignInRead, Pcs
<1>2. ASSUME NEW r \in Requests, SignInInsert(r) PROVE TypeOK'
  <2>1. req' \in RequestRecords
    BY <1>0, <1>2, RequestTypes DEF SignInInsert
  <2>2. PICK s \in Sessions, f \in Families :
            NewSession(s, f) /\ reason' = [reason EXCEPT ![s] = "live"]
    BY <1>2 DEF SignInInsert
  <2> QED BY <1>0, <1>2, <2>1, <2>2 DEF TypeOK, SignInInsert, NewSession, Reasons
<1>3. ASSUME NEW r \in Requests, NEW s \in Sessions, RefreshRead(r, s) PROVE TypeOK'
  <2>1. CASE Begin(r, "refresh", s)
    BY <2>1, BeginTypes DEF Pcs
  <2>2. CASE /\ req' = [req EXCEPT ![r] = [Idle EXCEPT !.pc = "reused", !.sid = s]]
             /\ UNCHANGED <<rows, young, streams, account, work>>
    <3>1. req' \in RequestRecords
      BY <1>0, <2>2, RequestTypes DEF Pcs
    <3> QED BY <1>0, <2>2, <3>1 DEF TypeOK, rows
  <2> QED BY <1>3, <2>1, <2>2 DEF RefreshRead
<1>4. ASSUME NEW r \in Requests, BurnStart(r) PROVE TypeOK'
  <2>1. {t \in FamilyOf(req[r].sid) : Live(t)} \in SUBSET Sessions
    BY DEF FamilyOf
  <2>2. req' \in RequestRecords
    BY <1>0, <1>4, <2>1, RequestTypes DEF BurnStart, Pcs
  <2> QED BY <1>0, <1>4, <2>2 DEF BurnStart, TypeOK, rows
<1>5. ASSUME NEW r \in Requests, BurnEnd(r) PROVE TypeOK'
  <2>1. req' \in RequestRecords
    BY <1>0, <1>5, RequestTypes DEF BurnEnd
  <2> QED BY <1>0, <1>5, <2>1 DEF BurnEnd, TypeOK, Reasons
<1>6. ASSUME NEW r \in Requests, RotateClaim(r) PROVE TypeOK'
  <2>1. req' \in RequestRecords
    BY <1>0, <1>6, RequestTypes DEF RotateClaim, Pcs
  <2> QED BY <1>0, <1>6, <2>1 DEF RotateClaim, TypeOK, rows
<1>7. ASSUME NEW r \in Requests, RotateCommit(r) PROVE TypeOK'
  <2>1. req' \in RequestRecords
    BY <1>0, <1>7, RequestTypes DEF RotateCommit
  <2>2. req[r].sid \in Sessions
    BY <1>7 DEF RotateCommit, ClaimHolds
  <2>3. PICK s \in Sessions :
            /\ NewSession(s, family[req[r].sid])
            /\ reason' = [reason EXCEPT ![req[r].sid] = "rotated", ![s] = "live"]
    BY <1>7 DEF RotateCommit
  <2> QED BY <1>0, <1>7, <2>1, <2>2, <2>3 DEF TypeOK, RotateCommit, NewSession, Reasons
<1>8. ASSUME NEW r \in Requests, RotateLost(r) PROVE TypeOK'
  <2>1. req' \in RequestRecords
    BY <1>0, <1>8, RequestTypes DEF RotateLost
  <2> QED BY <1>0, <1>8, <2>1 DEF RotateLost, TypeOK, Reasons
<1>9. ASSUME NEW r \in Requests, NEW s \in Sessions, SignOutRead(r, s) PROVE TypeOK'
  BY <1>9, BeginTypes DEF SignOutRead, Pcs
<1>10. ASSUME NEW r \in Requests, SignOutCommit(r) PROVE TypeOK'
  <2> DEFINE revoked == {t \in FamilyOf(req[r].sid) : Live(t) \/ t \in young}
  <2>1. revoked \in SUBSET Sessions
    BY DEF FamilyOf
  <2>2. req' \in RequestRecords
    BY <1>0, <1>10, <2>1, RequestTypes DEF SignOutCommit, Pcs
  <2> QED BY <1>0, <1>10, <2>2 DEF SignOutCommit, TypeOK, Reasons, LogoutReason
<1>11. ASSUME NEW r \in Requests, EndStreams(r) PROVE TypeOK'
  <2>1. req' \in RequestRecords
    BY <1>0, <1>11, RequestTypes DEF EndStreams
  <2> QED BY <1>0, <1>11, <2>1 DEF EndStreams, TypeOK, rows
<1>12. ASSUME NEW r \in Requests, NEW s \in Sessions, DeleteRead(r, s) PROVE TypeOK'
  BY <1>12, BeginTypes DEF DeleteRead, Pcs
<1>13. ASSUME NEW r \in Requests, DeleteLock(r) PROVE TypeOK'
  <2>1. req' \in RequestRecords
    BY <1>0, <1>13, RequestTypes DEF DeleteLock, Pcs
  <2> QED BY <1>0, <1>13, <2>1 DEF DeleteLock, TypeOK, rows
<1>14. ASSUME NEW r \in Requests, DeleteRefused(r) \/ DeadlockVictim(r) PROVE TypeOK'
  <2>1. req' \in RequestRecords
    BY <1>0, <1>14, RequestTypes DEF DeleteRefused, DeadlockVictim
  <2> QED BY <1>0, <1>14, <2>1 DEF DeleteRefused, DeadlockVictim, TypeOK, rows
<1>15. ASSUME NEW r \in Requests, Erase(r) PROVE TypeOK'
  <2>1. {t \in Sessions : Made(t)} \in SUBSET Sessions
    OBVIOUS
  <2>2. req' \in RequestRecords
    BY <1>0, <1>15, <2>1, RequestTypes DEF Erase, Pcs
  <2> QED BY <1>0, <1>15, <2>2 DEF Erase, TypeOK, Reasons
<1>16. ASSUME NEW r \in Requests, NEW s \in Sessions, StreamAuth(r, s) \/ BookAuth(r, s) PROVE TypeOK'
  BY <1>16, BeginTypes DEF StreamAuth, BookAuth, Pcs
<1>17. ASSUME NEW r \in Requests, StreamOpen(r) PROVE TypeOK'
  <2>1. req' \in RequestRecords
    BY <1>0, <1>17, RequestTypes DEF StreamOpen
  <2> QED BY <1>0, <1>17, <2>1 DEF StreamOpen, TypeOK, rows
<1>18. ASSUME NEW r \in Requests, BookInsert(r) PROVE TypeOK'
  <2>1. req' \in RequestRecords
    BY <1>0, <1>18, RequestTypes DEF BookInsert
  <2> QED BY <1>0, <1>18, <2>1 DEF BookInsert, TypeOK, rows
<1>19. ASSUME NEW s \in Sessions, TokenExpires(s) PROVE TypeOK'
  BY <1>19 DEF TokenExpires, TypeOK, rows
<1>20. CASE WorkCloses
  BY <1>20 DEF WorkCloses, TypeOK, rows
<1>21. CASE Restart
  BY <1>21 DEF Restart, TypeOK, rows, Idle
<1>22. CASE UNCHANGED vars
  BY <1>22 DEF TypeOK, vars, rows
<1> QED
  BY <1>1, <1>2, <1>3, <1>4, <1>5, <1>6, <1>7, <1>8, <1>9, <1>10, <1>11, <1>12, <1>13, <1>14, <1>15,
     <1>16, <1>17, <1>18, <1>19, <1>20, <1>21, <1>22 DEF Next, Step

-----------------------------------------------------------------------------
(* Claims and rows *)

\* Whoever stands at p after the step stood there before it, for the same session.
Keeps(p) ==
    \A q \in Requests : At(q, p)' => At(q, p) /\ req'[q].sid = req[q].sid

\* A request gets to p by a Goto to p, or by beginning there, and no other way.
LEMMA Reaching ==
    ASSUME req \in RequestRecords, NEW r \in Requests, NEW p \in Pcs \ {"idle"}
    PROVE  /\ Finish(r) => Keeps(p) /\ ~At(r, p)'
           /\ \A pc \in Pcs \ {p} : Goto(r, pc) => Keeps(p)
           /\ \A pc \in Pcs \ {p}, seen \in SUBSET Sessions :
                req' = [req EXCEPT ![r].pc = pc, ![r].seen = seen] => Keeps(p)
           /\ \A pc \in Pcs \ {p}, s \in Sessions \cup {NoSession} :
                req' = [req EXCEPT ![r] = [Idle EXCEPT !.pc = pc, !.sid = s]] => Keeps(p)
<1>1. Finish(r) => Keeps(p) /\ ~At(r, p)'
  BY DEF Finish, Idle, RequestRecords, At, Keeps
<1>2. ASSUME NEW pc \in Pcs \ {p}, Goto(r, pc) PROVE Keeps(p)
  BY <1>2 DEF Goto, RequestRecords, At, Keeps
<1>3. ASSUME NEW pc \in Pcs \ {p}, NEW seen \in SUBSET Sessions,
             req' = [req EXCEPT ![r].pc = pc, ![r].seen = seen]
      PROVE  Keeps(p)
  BY <1>3 DEF RequestRecords, At, Keeps
<1>4. ASSUME NEW pc \in Pcs \ {p}, NEW s \in Sessions \cup {NoSession},
             req' = [req EXCEPT ![r] = [Idle EXCEPT !.pc = pc, !.sid = s]]
      PROVE  Keeps(p)
  <2>1. [Idle EXCEPT !.pc = pc, !.sid = s].pc = pc
    BY DEF Idle
  <2> QED BY <1>4, <2>1 DEF RequestRecords, At, Keeps
<1> QED BY <1>1, <1>2, <1>3, <1>4

\* A step that writes no row, and lets access tokens at most expire.
LEMMA QuietStep ==
    ASSUME SessionInv, UNCHANGED rows, young' \subseteq young, Keeps("claimed")
    PROVE  BooksHold'
<1> USE DEF SessionInv, BooksHold, rows, Keeps, At, Live, Made
<1>1. RowsWhole'
  BY DEF RowsWhole
<1>2. ClaimHolds'
  BY DEF ClaimHolds
<1>3. ClaimsApart'
  BY DEF ClaimsApart
<1>4. OneLivePerFamily'
  BY DEF OneLivePerFamily
<1>5. FamilyOut'
  BY DEF FamilyOut, Accepted
<1> QED BY <1>1, <1>2, <1>3, <1>4, <1>5

\* Live rows no rotation holds are marked as reused: a burn, whole or not.
LEMMA BurnStep ==
    ASSUME SessionInv, NEW S \in SUBSET Sessions,
           \A t \in S : Live(t),
           reason' = [t \in Sessions |-> IF t \in S THEN "reuse" ELSE reason[t]],
           UNCHANGED <<family, young>>, Keeps("claimed"),
           \A q \in Requests : At(q, "claimed")' => req[q].sid \notin S
    PROVE  BooksHold'
<1> USE DEF SessionInv, BooksHold, Keeps, At, Live, Made
<1>1. RowsWhole'
  BY DEF RowsWhole, TypeOK
<1>2. ClaimHolds'
  BY DEF ClaimHolds
<1>3. ClaimsApart'
  BY DEF ClaimsApart
<1>4. OneLivePerFamily'
  BY DEF OneLivePerFamily
<1>5. FamilyOut'
  BY DEF FamilyOut, Accepted, Ended
<1> QED BY <1>1, <1>2, <1>3, <1>4, <1>5

\* Rows are relabelled by their owner's wish: every row of their families that is
\* live or has a young access token is among them.
LEMMA EndStep ==
    ASSUME SessionInv, NEW S \in SUBSET Sessions, NEW x \in Ended,
           \A s \in S : Made(s),
           \A s \in S, t \in Sessions :
               Made(t) /\ family[t] = family[s] /\ (Live(t) \/ t \in young) => t \in S,
           reason' = [t \in Sessions |-> IF t \in S THEN x ELSE reason[t]],
           UNCHANGED <<family, young>>, Keeps("claimed"),
           \A q \in Requests : At(q, "claimed")' => req[q].sid \notin S
    PROVE  BooksHold'
<1> USE DEF SessionInv, BooksHold, Keeps, At, Live, Made, Ended
<1>1. RowsWhole'
  BY DEF RowsWhole, TypeOK
<1>2. ClaimHolds'
  BY DEF ClaimHolds
<1>3. ClaimsApart'
  BY DEF ClaimsApart
<1>4. OneLivePerFamily'
  BY DEF OneLivePerFamily
<1>5. FamilyOut'
  <2> SUFFICES ASSUME NEW s \in Sessions, NEW t \in Sessions,
                      (reason[s] \in Ended)', Made(t)', family[t] = family[s]
               PROVE  ~Live(t)' /\ ~Accepted(t)'
    BY DEF FamilyOut
  <2>1. CASE t \in S
    BY <2>1 DEF Accepted
  <2>2. CASE t \notin S /\ s \in S
    BY <2>2 DEF Accepted
  <2>3. CASE t \notin S /\ s \notin S
    BY <2>3 DEF Accepted, FamilyOut
  <2> QED BY <2>1, <2>2, <2>3
<1> QED BY <1>1, <1>2, <1>3, <1>4, <1>5

-----------------------------------------------------------------------------
(* The invariant *)

\* The claim of a rotation (RotateClaim) is the only one in its family: the lock
\* was free, and it is taken.
LEMMA ClaimStep ==
    ASSUME SessionInv, NEW r \in Requests, RotateClaim(r), req[r].sid \in Sessions
    PROVE  BooksHold'
<1> USE DEF SessionInv, BooksHold, RotateClaim, At, Live, Made, rows
<1>0. UNCHANGED <<family, reason, young>>
  OBVIOUS
<1>1. \A q \in Requests : At(q, "claimed")' =>
          /\ req'[q].sid = req[q].sid
          /\ q = r \/ At(q, "claimed")
  BY DEF Goto, TypeOK
<1>2. RowsWhole'
  BY DEF RowsWhole
<1>3. ClaimHolds'
  <2> SUFFICES ASSUME NEW q \in Requests, At(q, "claimed")'
               PROVE  req[q].sid \in Sessions /\ Live(req[q].sid)
    BY <1>0, <1>1 DEF ClaimHolds
  <2> QED BY <1>1 DEF ClaimHolds
<1>6. ClaimsApart'
  <2> SUFFICES ASSUME NEW q \in Requests, NEW p \in Requests, At(q, "claimed")', At(p, "claimed")',
                      family[req[q].sid] = family[req[p].sid]
               PROVE  q = p
    BY <1>0, <1>1 DEF ClaimsApart
  <2> QED BY <1>1 DEF ClaimsApart, FamilyFree
<1>4. OneLivePerFamily'
  BY DEF OneLivePerFamily
<1>5. FamilyOut'
  BY DEF FamilyOut, Accepted
<1> QED BY <1>2, <1>3, <1>4, <1>5, <1>6 DEF BooksHold

\* A successor takes the place of its predecessor as the family's live session
\* (RotateCommit): no other rotation is of that family, and nobody left it.
LEMMA CommitStep ==
    ASSUME SessionInv, NEW r \in Requests, RotateCommit(r)
    PROVE  BooksHold'
<1> DEFINE old == req[r].sid
<1>0. /\ old \in Sessions /\ Live(old)
      /\ Keeps("claimed") /\ ~At(r, "claimed")'
  BY Reaching DEF SessionInv, BooksHold, ClaimHolds, RotateCommit, TypeOK, RequestRecords, Pcs
<1>1. PICK s \in Sessions :
          /\ NewSession(s, family[old])
          /\ reason' = [reason EXCEPT ![old] = "rotated", ![s] = "live"]
  BY DEF RotateCommit
<1>2. /\ s # old /\ reason[s] = "none" /\ s \notin young
      /\ \A t \in Sessions : /\ reason'[t] = IF t = s THEN "live" ELSE IF t = old THEN "rotated" ELSE reason[t]
                             /\ family'[t] = IF t = s THEN family[old] ELSE family[t]
      /\ young' = young \cup {s}
  BY <1>0, <1>1 DEF NewSession, Made, Live, SessionInv, BooksHold, RowsWhole, TypeOK
<1>3. family[old] # NoFamily /\ family[s] = NoFamily
  BY <1>0, <1>2 DEF SessionInv, BooksHold, RowsWhole, Made, Live, TypeOK
<1>4. \A t \in Sessions : family[t] = family[old] => reason[t] \notin Ended
  BY <1>0, <1>3 DEF SessionInv, BooksHold, FamilyOut, Made, Live
<1>5. \A t \in Sessions : Live(t) /\ family[t] = family[old] => t = old
  BY <1>0 DEF SessionInv, BooksHold, OneLivePerFamily
<1> HIDE DEF old
<1>6. RowsWhole'
  BY <1>0, <1>2, <1>3 DEF SessionInv, BooksHold, RowsWhole, Made, Live, TypeOK
<1>7. \A q \in Requests : At(q, "claimed")' =>
          /\ q # r /\ At(q, "claimed") /\ req'[q].sid = req[q].sid
          /\ req[q].sid \in Sessions /\ Live(req[q].sid) /\ family[req[q].sid] # family[old]
  BY <1>0 DEF SessionInv, BooksHold, Keeps, ClaimHolds, ClaimsApart, RotateCommit, At, old
<1>8. ClaimHolds'
  BY <1>2, <1>7 DEF ClaimHolds, Live, At
<1>9. ClaimsApart'
  BY <1>2, <1>7 DEF SessionInv, BooksHold, ClaimsApart, Live, At
<1>10. OneLivePerFamily'
  <2> SUFFICES ASSUME NEW a \in Sessions, NEW b \in Sessions, Live(a)', Live(b)', (family[a] = family[b])'
               PROVE  a = b
    BY DEF OneLivePerFamily
  <2>1. CASE a = s \/ b = s
    BY <1>2, <1>5, <2>1 DEF Live
  <2>2. CASE a # s /\ b # s
    BY <1>2, <2>2 DEF SessionInv, BooksHold, OneLivePerFamily, Live
  <2> QED BY <2>1, <2>2
<1>11. FamilyOut'
  <2> SUFFICES ASSUME NEW a \in Sessions, NEW b \in Sessions,
                      (reason[a] \in Ended)', Made(b)', (family[b] = family[a])'
               PROVE  ~Live(b)' /\ ~Accepted(b)'
    BY DEF FamilyOut
  <2>1. a # s /\ a # old /\ reason[a] \in Ended /\ family[a] # family[old]
    BY <1>0, <1>2, <1>4 DEF Ended, Live
  <2>2. b # s /\ b # old /\ reason'[b] = reason[b] /\ family[b] = family[a] /\ (b \in young' <=> b \in young)
    BY <1>0, <1>2, <2>1
  <2> QED BY <2>1, <2>2 DEF SessionInv, BooksHold, FamilyOut, Made, Live, Accepted
<1> QED BY <1>6, <1>8, <1>9, <1>10, <1>11 DEF BooksHold

\* A new sign-in has a family of its own (SignInInsert).
LEMMA SignInStep ==
    ASSUME SessionInv, NEW r \in Requests, SignInInsert(r)
    PROVE  BooksHold'
<1>0. Keeps("claimed")
  BY Reaching DEF SessionInv, BooksHold, SignInInsert, TypeOK, RequestRecords, Pcs
<1>1. PICK s \in Sessions, f \in Families :
          /\ \A t \in Sessions : family[t] # f
          /\ NewSession(s, f)
          /\ reason' = [reason EXCEPT ![s] = "live"]
  BY DEF SignInInsert
<1>2. /\ reason[s] = "none" /\ s \notin young /\ f # NoFamily
      /\ \A t \in Sessions : /\ reason'[t] = IF t = s THEN "live" ELSE reason[t]
                             /\ family'[t] = IF t = s THEN f ELSE family[t]
      /\ young' = young \cup {s}
  BY <1>1, SessionAssumption DEF NewSession, Made, SessionInv, BooksHold, RowsWhole, TypeOK
<1>3. RowsWhole'
  BY <1>2 DEF SessionInv, BooksHold, RowsWhole, Made, TypeOK
<1>4. \A q \in Requests : At(q, "claimed")' =>
          /\ At(q, "claimed") /\ req'[q].sid = req[q].sid
          /\ req[q].sid \in Sessions /\ Live(req[q].sid) /\ req[q].sid # s
  BY <1>0, <1>2 DEF SessionInv, BooksHold, Keeps, ClaimHolds, At, Live
<1>5. ClaimHolds'
  BY <1>2, <1>4 DEF ClaimHolds, Live
<1>6. ClaimsApart'
  BY <1>2, <1>4 DEF SessionInv, BooksHold, ClaimsApart
<1>7. OneLivePerFamily'
  BY <1>1, <1>2 DEF SessionInv, BooksHold, OneLivePerFamily, Live
<1>8. FamilyOut'
  <2> SUFFICES ASSUME NEW a \in Sessions, NEW b \in Sessions,
                      (reason[a] \in Ended)', Made(b)', (family[b] = family[a])'
               PROVE  ~Live(b)' /\ ~Accepted(b)'
    BY DEF FamilyOut
  <2>1. a # s
    BY <1>2 DEF Ended
  <2>2. b # s /\ (b \in young' <=> b \in young)
    BY <1>1, <1>2, <2>1
  <2> QED BY <1>2, <2>1, <2>2 DEF SessionInv, BooksHold, FamilyOut, Made, Live, Accepted
<1> QED BY <1>3, <1>5, <1>6, <1>7, <1>8 DEF BooksHold

\* Only a refresh that has read its row stands before its claim (RefreshRead).
LEMMA RefreshStep == SessionInv /\ [Next]_vars => RefreshHolds'
<1> SUFFICES ASSUME SessionInv, [Next]_vars PROVE RefreshHolds'
  OBVIOUS
<1>0. req \in RequestRecords /\ RefreshHolds
  BY DEF SessionInv, TypeOK, RequestRecords, Pcs
<1>1. ASSUME Keeps("refresh") PROVE RefreshHolds'
  BY <1>0, <1>1 DEF Keeps, RefreshHolds, At
<1>2. ASSUME NEW r \in Requests, Finish(r) PROVE RefreshHolds'
  BY <1>0, <1>1, <1>2, Reaching DEF Pcs
<1>3. ASSUME NEW r \in Requests, NEW pc \in Pcs \ {"refresh"}, Goto(r, pc) PROVE RefreshHolds'
  BY <1>0, <1>1, <1>3, Reaching DEF Pcs
<1>4. ASSUME NEW r \in Requests, NEW pc \in Pcs \ {"refresh"}, NEW seen \in SUBSET Sessions,
             req' = [req EXCEPT ![r].pc = pc, ![r].seen = seen]
      PROVE  RefreshHolds'
  BY <1>0, <1>1, <1>4, Reaching DEF Pcs
<1>5. ASSUME NEW r \in Requests, NEW pc \in Pcs, NEW s \in Sessions \cup {NoSession},
             pc = "refresh" => s \in Sessions,
             req' = [req EXCEPT ![r] = [Idle EXCEPT !.pc = pc, !.sid = s]]
      PROVE  RefreshHolds'
  <2>1. [Idle EXCEPT !.pc = pc, !.sid = s].pc = pc /\ [Idle EXCEPT !.pc = pc, !.sid = s].sid = s
    BY DEF Idle
  <2> QED BY <1>0, <1>5, <2>1 DEF RefreshHolds, At, RequestRecords
<1>6. ASSUME NEW r \in Requests,
             \/ SignInInsert(r) \/ BurnEnd(r) \/ RotateCommit(r) \/ RotateLost(r) \/ EndStreams(r)
             \/ DeleteRefused(r) \/ DeadlockVictim(r) \/ StreamOpen(r) \/ BookInsert(r)
      PROVE  RefreshHolds'
  BY <1>2, <1>6 DEF SignInInsert, BurnEnd, RotateCommit, RotateLost, EndStreams, DeleteRefused,
                    DeadlockVictim, StreamOpen, BookInsert
<1>7. ASSUME NEW r \in Requests, RotateClaim(r) \/ DeleteLock(r) PROVE RefreshHolds'
  BY <1>3, <1>7 DEF RotateClaim, DeleteLock, Pcs
<1>8. ASSUME NEW r \in Requests, BurnStart(r) \/ SignOutCommit(r) \/ Erase(r) PROVE RefreshHolds'
  <2>1. CASE BurnStart(r)
    BY <1>4, <2>1 DEF BurnStart, FamilyOf, Pcs
  <2>2. CASE SignOutCommit(r)
    BY <1>4, <2>2 DEF SignOutCommit, FamilyOf, Pcs
  <2>3. CASE Erase(r)
    BY <1>4, <2>3 DEF Erase, Pcs
  <2> QED BY <1>8, <2>1, <2>2, <2>3
<1>9. ASSUME NEW r \in Requests, SignInRead(r) PROVE RefreshHolds'
  BY <1>5, <1>9 DEF SignInRead, Begin, Pcs
<1>10. ASSUME NEW r \in Requests, NEW s \in Sessions,
              \/ RefreshRead(r, s) \/ SignOutRead(r, s) \/ DeleteRead(r, s) \/ StreamAuth(r, s) \/ BookAuth(r, s)
       PROVE  RefreshHolds'
  BY <1>5, <1>10 DEF RefreshRead, SignOutRead, DeleteRead, StreamAuth, BookAuth, Begin, Pcs
<1>11. ASSUME UNCHANGED req PROVE RefreshHolds'
  BY <1>0, <1>11 DEF RefreshHolds, At
<1>12. CASE Restart
  BY <1>12 DEF Restart, RefreshHolds, At, Idle
<1> QED
  BY <1>6, <1>7, <1>8, <1>9, <1>10, <1>11, <1>12 DEF Next, Step, TokenExpires, WorkCloses, vars

\* Every step keeps the books: most write no row, and the rest are above.
LEMMA BooksStep == SessionInv /\ [Next]_vars => BooksHold'
<1> SUFFICES ASSUME SessionInv, [Next]_vars PROVE BooksHold'
  OBVIOUS
<1>0. req \in RequestRecords
  BY DEF SessionInv, TypeOK, RequestRecords, Pcs
<1>1. ASSUME NEW r \in Requests, SignInInsert(r) PROVE BooksHold'
  BY <1>1, SignInStep
<1>2. ASSUME NEW r \in Requests, RotateCommit(r) PROVE BooksHold'
  BY <1>2, CommitStep
<1>3. ASSUME NEW r \in Requests, RotateClaim(r) PROVE BooksHold'
  BY <1>3, ClaimStep DEF RotateClaim, SessionInv, RefreshHolds
<1>4. ASSUME NEW r \in Requests, BurnEnd(r) PROVE BooksHold'
  <2> DEFINE S == {t \in Sessions : t \in req[r].seen /\ Live(t)}
  <2>1. Keeps("claimed")
    BY <1>0, <1>4, Reaching DEF BurnEnd, Pcs
  <2>2. \A q \in Requests : At(q, "claimed")' => req[q].sid \notin S
    BY <1>4, <2>1 DEF BurnEnd, RowsFree, Keeps, At
  <2>3. reason' = [t \in Sessions |-> IF t \in S THEN "reuse" ELSE reason[t]]
    BY <1>4 DEF BurnEnd
  <2>4. S \in SUBSET Sessions /\ (\A t \in S : Live(t)) /\ UNCHANGED <<family, young>>
    BY <1>4 DEF BurnEnd
  <2> HIDE DEF S
  <2> QED BY <2>1, <2>2, <2>3, <2>4, BurnStep
<1>5. ASSUME NEW r \in Requests, RotateLost(r) PROVE BooksHold'
  <2> DEFINE S == IF reason[req[r].sid] \in Ended THEN {}
                  ELSE {t \in FamilyOf(req[r].sid) : Live(t)}
  <2>1. Keeps("claimed")
    BY <1>0, <1>5, Reaching DEF RotateLost, Pcs
  <2>2. \A q \in Requests : At(q, "claimed")' => req[q].sid \notin S
    BY <1>5, <2>1 DEF RotateLost, FamilyFree, FamilyOf, Keeps, At
  <2>3. reason' = [t \in Sessions |-> IF t \in S THEN "reuse" ELSE reason[t]]
    BY <1>5 DEF RotateLost, SessionInv, TypeOK
  <2>4. S \in SUBSET Sessions /\ (\A t \in S : Live(t)) /\ UNCHANGED <<family, young>>
    BY <1>5 DEF RotateLost, FamilyOf
  <2> HIDE DEF S
  <2> QED BY <2>1, <2>2, <2>3, <2>4, BurnStep
<1>6. ASSUME NEW r \in Requests, SignOutCommit(r) PROVE BooksHold'
  <2> DEFINE S == {t \in FamilyOf(req[r].sid) : Live(t) \/ t \in young}
  <2>1. S \in SUBSET Sessions /\ (\A s \in S : Made(s)) /\ UNCHANGED <<family, young>>
    BY <1>6 DEF SignOutCommit, FamilyOf
  <2>2. Keeps("claimed")
    BY <1>0, <1>6, <2>1, Reaching DEF SignOutCommit, Pcs
  <2>3. \A q \in Requests : At(q, "claimed")' => req[q].sid \notin S
    BY <1>6, <2>2 DEF SignOutCommit, RowsFree, Keeps, At
  <2>4. reason' = [t \in Sessions |-> IF t \in S THEN LogoutReason ELSE reason[t]]
    BY <1>6 DEF SignOutCommit
  <2>5. \A s \in S, t \in Sessions :
            Made(t) /\ family[t] = family[s] /\ (Live(t) \/ t \in young) => t \in S
    BY DEF FamilyOf
  <2>6. LogoutReason \in Ended
    BY DEF LogoutReason, Ended
  <2> HIDE DEF S
  <2> QED BY <2>1, <2>2, <2>3, <2>4, <2>5, <2>6, EndStep
<1>7. ASSUME NEW r \in Requests, Erase(r) PROVE BooksHold'
  <2> DEFINE S == {t \in Sessions : Made(t)}
  <2>1. S \in SUBSET Sessions /\ (\A s \in S : Made(s)) /\ UNCHANGED <<family, young>>
    BY <1>7 DEF Erase
  <2>2. Keeps("claimed")
    BY <1>0, <1>7, <2>1, Reaching DEF Erase, Pcs
  <2>3. \A q \in Requests : At(q, "claimed")' => req[q].sid \notin S
    BY <1>7, <2>2 DEF Erase, RowsFree, Keeps, At
  <2>4. reason' = [t \in Sessions |-> IF t \in S THEN "deleted" ELSE reason[t]]
    BY <1>7 DEF Erase
  <2>5. \A s \in S, t \in Sessions :
            Made(t) /\ family[t] = family[s] /\ (Live(t) \/ t \in young) => t \in S
    OBVIOUS
  <2>6. "deleted" \in Ended
    BY DEF Ended
  <2> HIDE DEF S
  <2> QED BY <2>1, <2>2, <2>3, <2>4, <2>5, <2>6, EndStep
<1>8. ASSUME UNCHANGED rows, young' \subseteq young, Keeps("claimed") PROVE BooksHold'
  BY <1>8, QuietStep
<1>9. ASSUME NEW r \in Requests,
             \/ EndStreams(r) \/ DeleteRefused(r) \/ DeadlockVictim(r) \/ StreamOpen(r) \/ BookInsert(r)
      PROVE  BooksHold'
  <2>1. Finish(r) /\ UNCHANGED rows /\ UNCHANGED young
    BY <1>9 DEF EndStreams, DeleteRefused, DeadlockVictim, StreamOpen, BookInsert
  <2> QED BY <1>0, <1>8, <2>1, Reaching DEF Pcs
<1>10. ASSUME NEW r \in Requests, NEW pc \in Pcs \ {"claimed"}, NEW s \in Sessions \cup {NoSession},
              req' = [req EXCEPT ![r] = [Idle EXCEPT !.pc = pc, !.sid = s]],
              UNCHANGED rows, UNCHANGED young
       PROVE  BooksHold'
  BY <1>0, <1>8, <1>10, Reaching DEF Pcs
<1>11. ASSUME NEW r \in Requests, SignInRead(r) PROVE BooksHold'
  BY <1>10, <1>11 DEF SignInRead, Begin, Pcs
<1>12. ASSUME NEW r \in Requests, NEW s \in Sessions,
              \/ RefreshRead(r, s) \/ SignOutRead(r, s) \/ DeleteRead(r, s) \/ StreamAuth(r, s) \/ BookAuth(r, s)
       PROVE  BooksHold'
  BY <1>10, <1>12 DEF RefreshRead, SignOutRead, DeleteRead, StreamAuth, BookAuth, Begin, Pcs
<1>13. ASSUME NEW r \in Requests, BurnStart(r) PROVE BooksHold'
  <2>1. {t \in FamilyOf(req[r].sid) : Live(t)} \in SUBSET Sessions
    BY DEF FamilyOf
  <2>2. Keeps("claimed")
    BY <1>0, <1>13, <2>1, Reaching DEF BurnStart, Pcs
  <2> QED BY <1>8, <1>13, <2>2 DEF BurnStart
<1>14. ASSUME NEW r \in Requests, DeleteLock(r) PROVE BooksHold'
  <2>1. Keeps("claimed")
    BY <1>0, <1>14, Reaching DEF DeleteLock, Pcs
  <2> QED BY <1>8, <1>14, <2>1 DEF DeleteLock
<1>15. ASSUME NEW s \in Sessions, TokenExpires(s) PROVE BooksHold'
  <2>1. Keeps("claimed")
    BY <1>15 DEF TokenExpires, Keeps, At
  <2> QED BY <1>8, <1>15, <2>1 DEF TokenExpires
<1>16. CASE WorkCloses \/ UNCHANGED vars
  <2>1. Keeps("claimed")
    BY <1>16 DEF WorkCloses, vars, Keeps, At
  <2> QED BY <1>8, <1>16, <2>1 DEF WorkCloses, vars
<1>17. CASE Restart
  <2>1. Keeps("claimed")
    BY <1>17 DEF Restart, Keeps, At, Idle
  <2> QED BY <1>8, <1>17, <2>1 DEF Restart
<1> QED
  BY <1>1, <1>2, <1>3, <1>4, <1>5, <1>6, <1>7, <1>9, <1>11, <1>12, <1>13, <1>14, <1>15, <1>16, <1>17
     DEF Next, Step

\* Types and books at once: every state of every behaviour.
THEOREM SessionsInOrder == Spec => []SessionInv
<1>1. Init => SessionInv
  <2> SUFFICES ASSUME Init PROVE SessionInv
    OBVIOUS
  <2>1. TypeOK
    BY SessionAssumption DEF Init, TypeOK, Reasons, Idle
  <2>2. RefreshHolds /\ BooksHold
    BY DEF Init, RefreshHolds, BooksHold, RowsWhole, ClaimHolds, ClaimsApart, OneLivePerFamily, FamilyOut,
           Made, Live, At, Idle, Ended
  <2> QED BY <2>1, <2>2 DEF SessionInv
<1>2. SessionInv /\ [Next]_vars => SessionInv'
  BY TypeStep, RefreshStep, BooksStep DEF SessionInv, BooksHold
<1> QED BY <1>1, <1>2, PTL DEF Spec

\* TypeOK, for any constants: every row and request stays of its type (Session).
THEOREM SessionTypes == Spec => []TypeOK
<1>1. SessionInv => TypeOK
  BY DEF SessionInv
<1> QED BY <1>1, SessionsInOrder, PTL

\* OneLivePerFamily, for any number of requests that present any tokens: a stolen
\* token and its twin never both lead to a live session (rotateSession).
THEOREM OneLiveAlways == Spec => []OneLivePerFamily
<1>1. SessionInv => OneLivePerFamily
  BY DEF SessionInv, BooksHold
<1> QED BY <1>1, SessionsInOrder, PTL

\* OwnersEndIsFinal: nothing of a signed-out family works, whatever was in flight
\* (revokeSessionFamily, rotateSession, authenticate), nor of a family of a deleted
\* account (eraseAccount).
THEOREM OwnersEndAlwaysFinal == Spec => []OwnersEndIsFinal
<1>1. SessionInv => SignedOutStaysOut
  BY DEF SessionInv, BooksHold, FamilyOut, SignedOutStaysOut, Ended
<1>2. SessionInv => DeletedFamilyIsOut
  BY DEF SessionInv, BooksHold, FamilyOut, DeletedFamilyIsOut, Ended
<1>3. SessionInv => OwnersEndIsFinal
  BY <1>1, <1>2 DEF OwnersEndIsFinal
<1> QED BY <1>3, SessionsInOrder, PTL

\* EndedStaysEnded: no burn, rotation or late sign-out gives a session that its
\* owner ended a reason that authenticate admits.
THEOREM EndedForGood == Spec => EndedStaysEnded
<1>1. ASSUME SessionInv, [Next]_vars, NEW s \in Sessions, reason[s] \in Ended PROVE reason'[s] \in Ended
  <2> USE <1>1
  <2>1. CASE UNCHANGED rows
    BY <2>1 DEF rows
  <2>2. ASSUME NEW r \in Requests, SignInInsert(r) \/ RotateCommit(r) PROVE reason'[s] \in Ended
    BY <2>2 DEF SignInInsert, RotateCommit, NewSession, Made, Live, SessionInv, BooksHold, ClaimHolds,
               TypeOK, Ended
  <2>3. ASSUME NEW r \in Requests, BurnEnd(r) \/ RotateLost(r) PROVE reason'[s] \in Ended
    BY <2>3 DEF BurnEnd, RotateLost, Live, Ended
  <2>4. ASSUME NEW r \in Requests, SignOutCommit(r) \/ Erase(r) PROVE reason'[s] \in Ended
    BY <2>4 DEF SignOutCommit, Erase, Ended, LogoutReason
  <2> QED
    BY <2>1, <2>2, <2>3, <2>4
       DEF Next, Step, SignInRead, BurnStart, RotateClaim, EndStreams, DeleteLock, DeleteRefused,
           DeadlockVictim, StreamOpen, BookInsert, RefreshRead, SignOutRead, DeleteRead, StreamAuth,
           BookAuth, TokenExpires, WorkCloses, Restart, vars, Begin
<1>2. SessionInv /\ [Next]_vars => [\A s \in Sessions : reason[s] \in Ended => reason'[s] \in Ended]_vars
  BY <1>1
<1> QED BY <1>2, SessionsInOrder, PTL DEF Spec, EndedStaysEnded
-----------------------------------------------------------------------------
(* The deletion and the work of the account *)

\* As long as a deletion holds the account's row, there is no open work.
ErasedWithoutWork == \A r \in Requests : At(r, "erasing") => work = 0

\* The check is made under the lock (DeleteLock), and new work waits for the row
\* (BookInsert): every other step starts no deletion and adds no work.
LEMMA WorkStep == TypeOK /\ ErasedWithoutWork /\ [Next]_vars => ErasedWithoutWork'
<1> SUFFICES ASSUME TypeOK, ErasedWithoutWork, [Next]_vars PROVE ErasedWithoutWork'
  OBVIOUS
<1>0. req \in RequestRecords
  BY DEF TypeOK, RequestRecords, Pcs
<1>1. ASSUME Keeps("erasing"), work' = work PROVE ErasedWithoutWork'
  BY <1>1 DEF Keeps, ErasedWithoutWork, At
<1>2. ASSUME NEW r \in Requests,
             \/ SignInInsert(r) \/ BurnEnd(r) \/ RotateCommit(r) \/ RotateLost(r) \/ EndStreams(r)
             \/ DeleteRefused(r) \/ DeadlockVictim(r) \/ StreamOpen(r)
      PROVE  ErasedWithoutWork'
  <2>1. Finish(r) /\ work' = work
    BY <1>2 DEF SignInInsert, BurnEnd, RotateCommit, RotateLost, EndStreams, DeleteRefused, DeadlockVictim,
                StreamOpen
  <2> QED BY <1>0, <1>1, <2>1, Reaching DEF Pcs
<1>3. ASSUME NEW r \in Requests, RotateClaim(r) PROVE ErasedWithoutWork'
  BY <1>0, <1>1, <1>3, Reaching DEF RotateClaim, Pcs
<1>4. ASSUME NEW r \in Requests, DeleteLock(r) PROVE ErasedWithoutWork'
  BY <1>4 DEF DeleteLock, ErasedWithoutWork
<1>5. ASSUME NEW r \in Requests, NEW pc \in Pcs \ {"erasing"}, NEW seen \in SUBSET Sessions,
             req' = [req EXCEPT ![r].pc = pc, ![r].seen = seen], work' = work
      PROVE  ErasedWithoutWork'
  BY <1>0, <1>1, <1>5, Reaching DEF Pcs
<1>6. ASSUME NEW r \in Requests, BurnStart(r) PROVE ErasedWithoutWork'
  BY <1>5, <1>6 DEF BurnStart, FamilyOf, Pcs
<1>7. ASSUME NEW r \in Requests, SignOutCommit(r) PROVE ErasedWithoutWork'
  BY <1>5, <1>7 DEF SignOutCommit, FamilyOf, Pcs
<1>8. ASSUME NEW r \in Requests, Erase(r) PROVE ErasedWithoutWork'
  BY <1>5, <1>8 DEF Erase, Pcs
<1>9. ASSUME NEW r \in Requests, NEW pc \in Pcs \ {"erasing"}, NEW s \in Sessions \cup {NoSession},
             req' = [req EXCEPT ![r] = [Idle EXCEPT !.pc = pc, !.sid = s]], work' = work
      PROVE  ErasedWithoutWork'
  BY <1>0, <1>1, <1>9, Reaching DEF Pcs
<1>10. ASSUME NEW r \in Requests, SignInRead(r) PROVE ErasedWithoutWork'
  BY <1>9, <1>10 DEF SignInRead, Begin, Pcs
<1>11. ASSUME NEW r \in Requests, NEW s \in Sessions,
              \/ RefreshRead(r, s) \/ SignOutRead(r, s) \/ DeleteRead(r, s) \/ StreamAuth(r, s) \/ BookAuth(r, s)
       PROVE  ErasedWithoutWork'
  BY <1>9, <1>11 DEF RefreshRead, SignOutRead, DeleteRead, StreamAuth, BookAuth, Begin, Pcs
<1>12. ASSUME NEW r \in Requests, BookInsert(r) PROVE ErasedWithoutWork'
  <2>1. Keeps("erasing") /\ \A q \in Requests : ~At(q, "erasing")
    BY <1>0, <1>12, Reaching DEF BookInsert, UserRowFree, At, Pcs
  <2> QED BY <2>1 DEF Keeps, ErasedWithoutWork
<1>13. CASE WorkCloses
  BY <1>13 DEF WorkCloses, ErasedWithoutWork, At
<1>14. CASE Restart
  BY <1>14 DEF Restart, ErasedWithoutWork, At, Idle
<1>15. ASSUME UNCHANGED <<req, work>> PROVE ErasedWithoutWork'
  BY <1>15 DEF ErasedWithoutWork, At
<1> QED
  BY <1>2, <1>3, <1>4, <1>6, <1>7, <1>8, <1>10, <1>11, <1>12, <1>13, <1>14, <1>15
     DEF Next, Step, TokenExpires, vars

\* NoOpenWorkScrubbed: a deletion leaves no booking or SOS open behind it, however
\* lately one was made (the check under the lock of POST /v1/me/delete, and the
\* foreign key of an insert).
THEOREM NothingOpenScrubbed == Spec => NoOpenWorkScrubbed
<1>1. Init => ErasedWithoutWork
  BY DEF Init, ErasedWithoutWork, At, Idle
<1>2. ErasedWithoutWork /\ [Next]_vars => [account' # account => work' = 0]_vars
  <2> SUFFICES ASSUME ErasedWithoutWork, Next, account' # account PROVE work' = 0
    OBVIOUS
  <2>1. PICK r \in Requests : Erase(r)
    BY DEF Next, Step, SignInRead, SignInInsert, BurnStart, BurnEnd, RotateClaim, RotateCommit, RotateLost,
           SignOutCommit, EndStreams, DeleteLock, DeleteRefused, DeadlockVictim, StreamOpen, BookInsert,
           RefreshRead, SignOutRead, DeleteRead, StreamAuth, BookAuth, Begin, TokenExpires, WorkCloses, Restart
  <2> QED BY <2>1 DEF Erase, ErasedWithoutWork
<1> QED BY <1>1, <1>2, WorkStep, SessionTypes, PTL DEF Spec, NoOpenWorkScrubbed
=============================================================================
