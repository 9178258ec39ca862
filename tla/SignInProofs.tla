----------------------------- MODULE SignInProofs -----------------------------
(***************************************************************************)
(* Theorems about the two ways to sign in - with Google (GoogleSignIn) and *)
(* by a code that is sent (OtpSignIn) - and about the session that the     *)
(* phone then keeps (PhoneSession), for any number of accounts, keys,      *)
(* requests, threads and faults.                                           *)
(***************************************************************************)
EXTENDS GoogleSignIn, OtpSignIn, PhoneSession, FiniteSetTheorems, SequenceTheorems, TLAPS

-----------------------------------------------------------------------------
(* Sign-in with Google *)

\* What a request in flight holds, by how far it has come.
RequestAbout(q) ==
    /\ q.pc \in {"signin", "create"} => q.g \in Subs
    /\ q.pc \in {"link", "decide", "write"} => q.acc \in Accounts /\ q.g \in Subs
    /\ q.pc = "write" => q.from # q.acc
    /\ q.pc \in {"enter", "unlink", "attach"} => q.acc \in Accounts
    /\ q.pc = "attach" => q.ph \in Phones

GoogleRequest == [pc : {"idle", "signin", "create", "enter", "link", "decide", "write", "unlink", "attach"},
                  acc : Accounts \cup {None}, g : Subs \cup {None}, had : Subs \cup {None},
                  from : Accounts \cup {None}, ph : Phones \cup {None}]

GoogleTyped == GoogleTypeOK /\ \A r \in GoogleRequests : RequestAbout(googleReq[r])

\* The holder of a sub, or of a number, is an account that holds it; None says that
\* there is no such account.
LEMMA Holders ==
    /\ \A g \in Subs : \/ BySub(g) \in Accounts /\ sub[BySub(g)] = g
                       \/ BySub(g) = None /\ \A a \in Accounts : sub[a] # g
    /\ \A p \in Phones : \/ ByPhone(p) \in Accounts /\ phone[ByPhone(p)] = p
                         \/ ByPhone(p) = None /\ \A a \in Accounts : phone[a] # p
<1>1. ASSUME NEW g \in Subs
      PROVE  \/ BySub(g) \in Accounts /\ sub[BySub(g)] = g
             \/ BySub(g) = None /\ \A a \in Accounts : sub[a] # g
  BY DEF BySub
<1>2. ASSUME NEW p \in Phones
      PROVE  \/ ByPhone(p) \in Accounts /\ phone[ByPhone(p)] = p
             \/ ByPhone(p) = None /\ \A a \in Accounts : phone[a] # p
  BY DEF ByPhone
<1> QED BY <1>1, <1>2

LEMMA GoogleInitTyped == GoogleInit => GoogleTyped
BY GoogleAssumption
   DEF GoogleInit, GoogleTyped, GoogleTypeOK, RequestAbout, NoGoogleRequest, Unissued

\* Requests stay of their type when one goes to a request record that is about something.
LEMMA GoogleMoves ==
    ASSUME GoogleTyped, NEW r \in GoogleRequests, NEW q \in GoogleRequest, RequestAbout(q),
           GoogleGoto(r, q)
    PROVE  /\ googleReq' \in [GoogleRequests -> GoogleRequest]
           /\ \A p \in GoogleRequests : RequestAbout(googleReq'[p])
BY DEF GoogleTyped, GoogleTypeOK, GoogleRequest, GoogleGoto

LEMMA GoogleIdle == NoGoogleRequest \in GoogleRequest /\ RequestAbout(NoGoogleRequest)
BY DEF NoGoogleRequest, GoogleRequest, RequestAbout

\* Every step keeps the types, and requests about what they are about.
LEMMA GoogleTypeStep == GoogleTyped /\ [GoogleNext]_googleVars => GoogleTyped'
<1> SUFFICES ASSUME GoogleTyped, [GoogleNext]_googleVars PROVE GoogleTyped'
  OBVIOUS
<1>t. /\ GoogleTypeOK /\ googleReq \in [GoogleRequests -> GoogleRequest]
      /\ \A r \in GoogleRequests : googleReq[r] \in GoogleRequest /\ RequestAbout(googleReq[r])
  BY DEF GoogleTyped, GoogleTypeOK, GoogleRequest
<1> DEFINE Reqs == /\ googleReq' \in [GoogleRequests -> GoogleRequest]
                   /\ \A p \in GoogleRequests : RequestAbout(googleReq'[p])
<1>r. Reqs /\ state' \in [Accounts -> {"unused", "open", "closed"}]
           /\ phone' \in [Accounts -> Phones \cup {None}] /\ sub' \in [Accounts -> Subs \cup {None}]
           /\ signedIn' \in SUBSET Accounts
           /\ nonce' \in [Nonces -> [state : {"unissued", "live", "spent"}, for : Accounts \cup {None}]]
         => GoogleTyped'
  BY DEF GoogleTyped, GoogleTypeOK, GoogleRequest
<1>u. UNCHANGED googleReq => Reqs
  BY <1>t
<1>f. \A r \in GoogleRequests : GoogleFinish(r) => Reqs
  BY GoogleMoves, GoogleIdle DEF GoogleFinish
<1>e. ASSUME NEW r \in GoogleRequests, NEW a \in Accounts, Enter(r, a) PROVE Reqs
  <2>1. [googleReq[r] EXCEPT !.pc = "enter", !.acc = a] \in GoogleRequest
        /\ RequestAbout([googleReq[r] EXCEPT !.pc = "enter", !.acc = a])
    BY <1>t DEF GoogleRequest, RequestAbout
  <2> QED BY <1>e, <1>f, <2>1, GoogleMoves DEF Enter
<1> HIDE DEF Reqs
<1> USE DEF GoogleTypeOK, users
<1>1. ASSUME NEW n \in Nonces, NonceExpires(n) PROVE GoogleTyped'
  BY <1>r, <1>t, <1>u, <1>1 DEF NonceExpires
<1>2. ASSUME NEW n \in Nonces, NEW a \in Accounts \cup {None}, IssueNonce(n, a) PROVE GoogleTyped'
  BY <1>r, <1>t, <1>u, <1>2 DEF IssueNonce
<1>3. ASSUME NEW n \in Nonces, NEW r \in GoogleRequests, NEW g \in Subs, Redeem(r, n, g)
      PROVE  GoogleTyped'
  <2> DEFINE to == [NoGoogleRequest EXCEPT !.acc = nonce[n].for, !.g = g,
                                             !.pc = IF nonce[n].for = None THEN "signin" ELSE "link"]
  <2>1. nonce[n].for \in Accounts \cup {None}
    BY <1>t
  <2>2. to \in GoogleRequest /\ RequestAbout(to)
    BY <2>1 DEF NoGoogleRequest, GoogleRequest, RequestAbout
  <2>3. Reqs
    BY <1>3, <2>2, GoogleMoves DEF Redeem, Reqs
  <2> QED BY <1>r, <1>t, <1>3, <2>3 DEF Redeem
<1>4. ASSUME NEW r \in GoogleRequests, SigninDecide(r) PROVE GoogleTyped'
  <2>1. googleReq[r].g \in Subs
    BY <1>t, <1>4 DEF SigninDecide, GoogleAt, RequestAbout
  <2>2. CASE BySub(googleReq[r].g) = None
    <3>1. [googleReq[r] EXCEPT !.pc = "create"] \in GoogleRequest
          /\ RequestAbout([googleReq[r] EXCEPT !.pc = "create"])
      BY <1>t, <2>1 DEF GoogleRequest, RequestAbout
    <3> QED BY <1>r, <1>t, <1>4, <2>2, <3>1, GoogleMoves DEF SigninDecide, Reqs
  <2>3. CASE BySub(googleReq[r].g) # None
    BY <1>r, <1>t, <1>e, <1>4, <2>1, <2>3, Holders DEF SigninDecide
  <2> QED BY <2>2, <2>3
<1>5. ASSUME NEW r \in GoogleRequests, Create(r) PROVE GoogleTyped'
  <2>1. googleReq[r].g \in Subs
    BY <1>t, <1>5 DEF Create, GoogleAt, RequestAbout
  <2>2. PICK a \in Accounts :
          /\ state' = [state EXCEPT ![a] = "open"] /\ sub' = [sub EXCEPT ![a] = googleReq[r].g]
          /\ GoogleGoto(r, [googleReq[r] EXCEPT !.pc = "enter", !.acc = a])
    BY <1>5 DEF Create
  <2>3. [googleReq[r] EXCEPT !.pc = "enter", !.acc = a] \in GoogleRequest
        /\ RequestAbout([googleReq[r] EXCEPT !.pc = "enter", !.acc = a])
    BY <1>t DEF GoogleRequest, RequestAbout
  <2> QED BY <1>r, <1>t, <1>5, <2>1, <2>2, <2>3, GoogleMoves DEF Create, Reqs
<1>6. ASSUME NEW r \in GoogleRequests, CreateLost(r) PROVE GoogleTyped'
  <2>1. googleReq[r].g \in Subs
    BY <1>t, <1>6 DEF CreateLost, GoogleAt, RequestAbout
  <2> QED BY <1>r, <1>t, <1>e, <1>6, <2>1, Holders DEF CreateLost
<1>7. ASSUME NEW r \in GoogleRequests, StartSession(r) PROVE GoogleTyped'
  <2>1. googleReq[r].acc \in Accounts
    BY <1>t, <1>7 DEF StartSession, GoogleAt, RequestAbout
  <2> QED BY <1>r, <1>t, <1>f, <1>7, <2>1 DEF StartSession
<1>8. ASSUME NEW r \in GoogleRequests, LinkRead(r) PROVE GoogleTyped'
  <2> DEFINE to == [googleReq[r] EXCEPT !.pc = "decide", !.had = sub[googleReq[r].acc]]
  <2>1. googleReq[r].acc \in Accounts /\ googleReq[r].g \in Subs
    BY <1>t, <1>8 DEF LinkRead, GoogleAt, RequestAbout
  <2>2. to \in GoogleRequest /\ RequestAbout(to)
    BY <1>t, <2>1 DEF GoogleRequest, RequestAbout
  <2>3. Reqs
    BY <1>f, <1>8, <2>2, GoogleMoves DEF LinkRead, Reqs
  <2> QED BY <1>r, <1>t, <1>8, <2>3 DEF LinkRead
<1>9. ASSUME NEW r \in GoogleRequests, LinkDecide(r) PROVE GoogleTyped'
  <2> DEFINE holder == BySub(googleReq[r].g)
             to == [googleReq[r] EXCEPT !.pc = "write", !.from = holder]
  <2>1. googleReq[r].acc \in Accounts /\ googleReq[r].g \in Subs
    BY <1>t, <1>9 DEF LinkDecide, GoogleAt, RequestAbout
  <2>2. holder \in Accounts \cup {None}
    BY <2>1, Holders
  <2>3. CASE holder # googleReq[r].acc
    <3>1. to \in GoogleRequest /\ RequestAbout(to)
      BY <1>t, <2>1, <2>2, <2>3 DEF GoogleRequest, RequestAbout
    <3>2. Reqs
      BY <1>f, <1>9, <3>1, GoogleMoves DEF LinkDecide, Reqs
    <3> QED BY <1>r, <1>t, <1>9, <3>2 DEF LinkDecide
  <2>4. CASE holder = googleReq[r].acc
    BY <1>r, <1>t, <1>f, <1>9, <2>4 DEF LinkDecide
  <2> QED BY <2>3, <2>4
<1>10. ASSUME NEW r \in GoogleRequests, LinkWrite(r) PROVE GoogleTyped'
  <2>1. googleReq[r].g \in Subs
    BY <1>t, <1>10 DEF LinkWrite, GoogleAt, RequestAbout
  <2> QED BY <1>r, <1>t, <1>f, <1>10, <2>1 DEF LinkWrite, StateAfterMove
<1>11. ASSUME NEW r \in GoogleRequests, UnlinkWrite(r) PROVE GoogleTyped'
  BY <1>r, <1>t, <1>f, <1>11 DEF UnlinkWrite
<1>12. ASSUME NEW r \in GoogleRequests, AttachWrite(r) PROVE GoogleTyped'
  <2>1. googleReq[r].acc \in Accounts /\ googleReq[r].ph \in Phones
    BY <1>t, <1>12 DEF AttachWrite, GoogleAt, RequestAbout
  <2> QED BY <1>r, <1>t, <1>f, <1>12, <2>1 DEF AttachWrite
<1>13. ASSUME NEW r \in GoogleRequests, NEW a \in Accounts, UnlinkRead(r, a) PROVE GoogleTyped'
  <2> DEFINE to == [NoGoogleRequest EXCEPT !.pc = "unlink", !.acc = a]
  <2>1. to \in GoogleRequest /\ RequestAbout(to)
    BY DEF NoGoogleRequest, GoogleRequest, RequestAbout
  <2> QED BY <1>r, <1>t, <1>13, <2>1, GoogleMoves DEF UnlinkRead, Reqs
<1>14. ASSUME NEW r \in GoogleRequests, NEW a \in Accounts, NEW p \in Phones, AttachRead(r, a, p)
       PROVE  GoogleTyped'
  <2> DEFINE to == [NoGoogleRequest EXCEPT !.pc = "attach", !.acc = a, !.ph = p]
  <2>1. to \in GoogleRequest /\ RequestAbout(to)
    BY DEF NoGoogleRequest, GoogleRequest, RequestAbout
  <2> QED BY <1>r, <1>t, <1>14, <2>1, GoogleMoves DEF AttachRead, Reqs
<1>15. ASSUME NEW a \in Accounts, Delete(a) PROVE GoogleTyped'
  BY <1>r, <1>t, <1>u, <1>15 DEF Delete
<1>16. ASSUME NEW a \in Accounts, SignOut(a) PROVE GoogleTyped'
  BY <1>r, <1>t, <1>u, <1>16 DEF SignOut
<1>17. ASSUME NEW p \in Phones, PhoneSignIn(p) PROVE GoogleTyped'
  BY <1>r, <1>t, <1>u, <1>17, Holders DEF PhoneSignIn
<1>18. CASE UNCHANGED googleVars
  BY <1>r, <1>t, <1>u, <1>18 DEF googleVars
<1> QED BY <1>1, <1>2, <1>3, <1>4, <1>5, <1>6, <1>7, <1>8, <1>9, <1>10, <1>11, <1>12, <1>13,
           <1>14, <1>15, <1>16, <1>17, <1>18 DEF GoogleNext

\* Every reachable state is of the declared types.
THEOREM GoogleTypes == GoogleSpec => []GoogleTypeOK
<1>1. GoogleTyped => GoogleTypeOK
  BY DEF GoogleTyped
<1> QED BY <1>1, GoogleInitTyped, GoogleTypeStep, PTL DEF GoogleSpec

\* What moves when a link is written: the sub, from the account that gave it up, if
\* any - which had no phone, and is closed - to the account that asked.
LEMMA LinkMoves ==
    ASSUME GoogleTyped, NEW r \in GoogleRequests, LinkWrite(r),
           MayMove(googleReq[r].acc, googleReq[r].from, googleReq[r].g)
    PROVE  LET a == googleReq[r].acc
               b == googleReq[r].from
               g == googleReq[r].g
           IN /\ a \in Accounts /\ g \in Subs /\ a # b /\ state[a] = "open" /\ UNCHANGED phone
              /\ sub'[a] = g /\ state'[a] = "open"
              /\ \A c \in Accounts \ {a} :
                   \/ sub'[c] = sub[c] /\ state'[c] = state[c] /\ sub[c] # g
                   \/ c = b /\ sub[c] = g /\ phone[c] = None /\ sub'[c] = None /\ state'[c] = "closed"
<1> DEFINE a == googleReq[r].acc
           b == googleReq[r].from
           g == googleReq[r].g
<1>1. a \in Accounts /\ g \in Subs /\ a # b
  BY DEF GoogleTyped, RequestAbout, LinkWrite, GoogleAt
<1>2. state \in [Accounts -> {"unused", "open", "closed"}]
  BY DEF GoogleTyped, GoogleTypeOK
<1>3. /\ sub' = [c \in Accounts |-> IF c = a THEN g ELSE IF c = b /\ GivesUp(c, g) THEN None ELSE sub[c]]
      /\ state' = StateAfterMove(b, g)
      /\ UNCHANGED phone
      /\ state[a] = "open"
      /\ \A c \in Accounts \ {a} : sub[c] = g => c = b /\ GivesUp(b, g)
  BY DEF LinkWrite, MayMove
<1>4. sub'[a] = g /\ state'[a] = "open"
  BY <1>1, <1>2, <1>3 DEF StateAfterMove
<1>5. ASSUME NEW c \in Accounts \ {a}
      PROVE  \/ sub'[c] = sub[c] /\ state'[c] = state[c] /\ sub[c] # g
             \/ c = b /\ sub[c] = g /\ phone[c] = None /\ sub'[c] = None /\ state'[c] = "closed"
  <2>1. CASE sub[c] = g
    BY <1>2, <1>3, <2>1 DEF StateAfterMove, GivesUp
  <2>2. CASE sub[c] # g
    BY <1>2, <1>3, <2>2 DEF StateAfterMove, GivesUp
  <2> QED BY <2>1, <2>2
<1> QED BY <1>1, <1>3, <1>4, <1>5

\* A step that neither opens, closes nor takes a phone away, and moves no sub.
LEMMA DoorsFrame ==
    ASSUME DoorsHold, UNCHANGED <<state, phone, sub>>
    PROVE  DoorsHold'
BY DEF DoorsHold, EveryAccountHasADoor, ClosedHasNoGoogle

\* Doors hold in every step.
LEMMA DoorsStep == GoogleTyped /\ DoorsHold /\ [GoogleNext]_googleVars => DoorsHold'
<1> SUFFICES ASSUME GoogleTyped, DoorsHold, [GoogleNext]_googleVars PROVE DoorsHold'
  OBVIOUS
<1>t. /\ GoogleTypeOK
      /\ \A r \in GoogleRequests : RequestAbout(googleReq[r])
  BY DEF GoogleTyped
<1>n. None \notin Accounts \cup Subs \cup Phones
  BY GoogleAssumption
<1> USE DEF GoogleTypeOK, users
<1>1. ASSUME NEW n \in Nonces,
             \/ NonceExpires(n)
             \/ \E a \in Accounts \cup {None} : IssueNonce(n, a)
             \/ \E r \in GoogleRequests, g \in Subs : Redeem(r, n, g)
      PROVE  DoorsHold'
  BY <1>1, DoorsFrame DEF NonceExpires, IssueNonce, Redeem
<1>2. ASSUME NEW r \in GoogleRequests,
             \/ SigninDecide(r) \/ CreateLost(r) \/ StartSession(r) \/ LinkRead(r) \/ LinkDecide(r)
             \/ \E a \in Accounts : UnlinkRead(r, a) \/ \E p \in Phones : AttachRead(r, a, p)
      PROVE  DoorsHold'
  BY <1>2, DoorsFrame
     DEF SigninDecide, CreateLost, StartSession, LinkRead, LinkDecide, UnlinkRead, AttachRead
<1>3. ASSUME NEW r \in GoogleRequests, Create(r) PROVE DoorsHold'
  <2>1. googleReq[r].g \in Subs /\ \A a \in Accounts : sub[a] # googleReq[r].g
    BY <1>t, <1>n, <1>3, Holders DEF Create, GoogleAt, RequestAbout
  <2>2. PICK a \in Accounts :
          /\ state[a] = "unused"
          /\ state' = [state EXCEPT ![a] = "open"] /\ sub' = [sub EXCEPT ![a] = googleReq[r].g]
    BY <1>3 DEF Create
  <2> QED BY <1>t, <1>n, <1>3, <2>1, <2>2
          DEF Create, DoorsHold, EveryAccountHasADoor, ClosedHasNoGoogle
<1>4. ASSUME NEW r \in GoogleRequests, LinkWrite(r) PROVE DoorsHold'
  <2>1. CASE MayMove(googleReq[r].acc, googleReq[r].from, googleReq[r].g)
    <3> DEFINE a == googleReq[r].acc
               g == googleReq[r].g
    <3>1. /\ a \in Accounts /\ g # None /\ UNCHANGED phone /\ sub'[a] = g /\ state'[a] = "open"
          /\ \A c \in Accounts \ {a} :
               \/ sub'[c] = sub[c] /\ state'[c] = state[c] /\ sub[c] # g
               \/ sub'[c] = None /\ state'[c] = "closed"
      BY <1>n, <1>4, <2>1, LinkMoves
    <3> HIDE DEF a, g
    <3>2. EveryAccountHasADoor'
      BY <3>1 DEF DoorsHold, EveryAccountHasADoor
    <3>3. ClosedHasNoGoogle'
      BY <3>1 DEF DoorsHold, ClosedHasNoGoogle
    <3> QED BY <3>2, <3>3 DEF DoorsHold
  <2>2. CASE ~MayMove(googleReq[r].acc, googleReq[r].from, googleReq[r].g)
    BY <1>4, <2>2, DoorsFrame DEF LinkWrite
  <2> QED BY <2>1, <2>2
<1>5. ASSUME NEW r \in GoogleRequests, UnlinkWrite(r) PROVE DoorsHold'
  <2>1. googleReq[r].acc \in Accounts
    BY <1>t, <1>5 DEF UnlinkWrite, GoogleAt, RequestAbout
  <2> QED BY <1>t, <1>n, <1>5, <2>1
          DEF UnlinkWrite, Unlinkable, DoorsHold, EveryAccountHasADoor, ClosedHasNoGoogle
<1>6. ASSUME NEW r \in GoogleRequests, AttachWrite(r) PROVE DoorsHold'
  <2>1. googleReq[r].acc \in Accounts /\ googleReq[r].ph \in Phones
    BY <1>t, <1>6 DEF AttachWrite, GoogleAt, RequestAbout
  <2>2. \A a \in Accounts : phone[a] # None => phone'[a] = phone[a]
    BY <1>t, <1>6, <2>1 DEF AttachWrite
  <2> QED BY <1>6, <2>2 DEF AttachWrite, DoorsHold, EveryAccountHasADoor, ClosedHasNoGoogle
<1>7. ASSUME NEW a \in Accounts, Delete(a) PROVE DoorsHold'
  BY <1>t, <1>7 DEF Delete, DoorsHold, EveryAccountHasADoor, ClosedHasNoGoogle
<1>8. ASSUME NEW a \in Accounts, SignOut(a) PROVE DoorsHold'
  BY <1>8, DoorsFrame DEF SignOut
<1>9. ASSUME NEW p \in Phones, PhoneSignIn(p) PROVE DoorsHold'
  <2>1. CASE UNCHANGED <<state, phone, sub>>
    BY <2>1, DoorsFrame
  <2>2. CASE \E a \in Accounts :
               /\ state[a] = "unused" /\ state' = [state EXCEPT ![a] = "open"]
               /\ phone' = [phone EXCEPT ![a] = p] /\ UNCHANGED sub
    BY <1>t, <1>n, <2>2 DEF DoorsHold, EveryAccountHasADoor, ClosedHasNoGoogle
  <2> QED BY <1>9, <2>1, <2>2 DEF PhoneSignIn
<1>10. CASE UNCHANGED googleVars
  BY <1>10, DoorsFrame DEF googleVars
<1> QED BY <1>1, <1>2, <1>3, <1>4, <1>5, <1>6, <1>7, <1>8, <1>9, <1>10 DEF GoogleNext

LEMMA DoorsInit == GoogleInit => DoorsHold
BY GoogleAssumption
   DEF GoogleInit, DoorsHold, EveryAccountHasADoor, ClosedHasNoGoogle

\* Whatever links, moves, unlinks, additions of phones and deletions overlap, nobody
\* is locked out of an open account, and nobody is let into a closed one.
THEOREM DoorsAlwaysHold == GoogleSpec => []DoorsHold
BY GoogleInitTyped, GoogleTypeStep, DoorsInit, DoorsStep, PTL DEF GoogleSpec

\* A sub leaves an account for another only in a link's write.
LEMMA MergeStep ==
    ASSUME GoogleTyped, DoorsHold, [GoogleNext]_googleVars, NEW a \in Accounts, NEW b \in Accounts,
           a # b, sub[a] # None, sub'[b] = sub[a]
    PROVE  phone[a] = None /\ state'[a] = "closed"
<1>t. /\ GoogleTypeOK
      /\ \A r \in GoogleRequests : RequestAbout(googleReq[r])
      /\ None \notin Accounts \cup Subs \cup Phones
      /\ sub[b] # sub[a]
  BY GoogleAssumption DEF GoogleTyped, DoorsHold, ClosedHasNoGoogle
<1> USE DEF GoogleTypeOK, users
<1>1. ASSUME sub'[b] \in {sub[b], None} PROVE FALSE
  BY <1>t, <1>1
<1>2. ASSUME NEW n \in Nonces,
             \/ NonceExpires(n)
             \/ \E c \in Accounts \cup {None} : IssueNonce(n, c)
             \/ \E r \in GoogleRequests, g \in Subs : Redeem(r, n, g)
      PROVE  FALSE
  BY <1>1, <1>2 DEF NonceExpires, IssueNonce, Redeem
<1>3. ASSUME NEW r \in GoogleRequests,
             \/ SigninDecide(r) \/ CreateLost(r) \/ StartSession(r) \/ LinkRead(r) \/ LinkDecide(r)
             \/ AttachWrite(r)
             \/ \E c \in Accounts : UnlinkRead(r, c) \/ \E p \in Phones : AttachRead(r, c, p)
      PROVE  FALSE
  BY <1>1, <1>3 DEF SigninDecide, CreateLost, StartSession, LinkRead, LinkDecide, AttachWrite,
                    UnlinkRead, AttachRead
<1>4. ASSUME NEW r \in GoogleRequests, Create(r) PROVE FALSE
  <2>1. googleReq[r].g \in Subs /\ \A c \in Accounts : sub[c] # googleReq[r].g
    BY <1>t, <1>4, Holders DEF Create, GoogleAt, RequestAbout
  <2> QED BY <1>t, <1>4, <2>1 DEF Create
<1>5. ASSUME NEW r \in GoogleRequests, LinkWrite(r) PROVE phone[a] = None /\ state'[a] = "closed"
  <2>1. CASE MayMove(googleReq[r].acc, googleReq[r].from, googleReq[r].g)
    <3>1. b = googleReq[r].acc /\ sub[a] = googleReq[r].g
      BY <1>t, <1>5, <2>1, LinkMoves
    <3> QED BY <1>5, <2>1, <3>1, LinkMoves
  <2>2. CASE ~MayMove(googleReq[r].acc, googleReq[r].from, googleReq[r].g)
    BY <1>1, <1>5, <2>2 DEF LinkWrite
  <2> QED BY <2>1, <2>2
<1>6. ASSUME NEW r \in GoogleRequests, UnlinkWrite(r) PROVE FALSE
  BY <1>t, <1>1, <1>6 DEF UnlinkWrite
<1>7. ASSUME NEW c \in Accounts, Delete(c) \/ SignOut(c) PROVE FALSE
  BY <1>t, <1>1, <1>7 DEF Delete, SignOut
<1>8. ASSUME NEW p \in Phones, PhoneSignIn(p) PROVE FALSE
  BY <1>1, <1>8 DEF PhoneSignIn
<1>9. CASE UNCHANGED googleVars
  BY <1>1, <1>9 DEF googleVars
<1> QED BY <1>2, <1>3, <1>4, <1>5, <1>6, <1>7, <1>8, <1>9 DEF GoogleNext

\* Two accounts that both have a phone are never merged: what a link takes over had
\* no phone, and is closed with it.
THEOREM MergesOnlyEmpty == GoogleSpec => MergesOnlyEmptyAccounts
<1>1. GoogleTyped /\ DoorsHold /\ [GoogleNext]_googleVars =>
        [\A a, b \in Accounts :
            a # b /\ sub[a] # None /\ sub'[b] = sub[a]
              => phone[a] = None /\ state'[a] = "closed"]_googleVars
  BY MergeStep
<1> QED BY <1>1, GoogleInitTyped, GoogleTypeStep, DoorsInit, DoorsStep, PTL
        DEF GoogleSpec, MergesOnlyEmptyAccounts

-----------------------------------------------------------------------------
(* Sign-in by a code: types *)

OtpRow == [key : Keys, ip : Ips, attempts : 0 .. MaxAttempts,
           state : {"open", "consumed", "deleted"}, age : Age]
OtpRequest == [pc : {"idle", "counting", "take", "compare", "consume", "signin"},
               key : Keys \cup {NoKey}, ip : Ips \cup {NoIp}, code : Nat]

\* What a request in flight is about: a key and a connection, or a code that was made.
OtpAbout(q) ==
    /\ q.pc = "counting" => q.key \in Keys /\ q.ip \in Ips
    /\ q.pc \in {"take", "compare", "consume", "signin"} => q.code \in Challenges

OtpTyped ==
    /\ OtpTypeOK
    /\ Len(otp_challenges) <= MaxChallenges
    /\ \A r \in OtpRequests : OtpAbout(otpReq[r])

-----------------------------------------------------------------------------
(* Sign-in by a code: what holds *)

\* A code that led, or is leading, to a session is redeemed, and leads to one only.
RedeemedOnce ==
    /\ \A c \in 1 .. MaxChallenges :
         sessions[c] = 0 \/ (sessions[c] = 1 /\ c \in Challenges /\ otp_challenges[c].state # "open")
    /\ \A r \in OtpRequests :
         OtpAt(r, "signin") =>
             otp_challenges[otpReq[r].code].state # "open" /\ sessions[otpReq[r].code] = 0
    /\ \A q, r \in OtpRequests :
         OtpAt(q, "signin") /\ OtpAt(r, "signin") /\ otpReq[q].code = otpReq[r].code => q = r

\* Guesses that were or are about to be compared were taken before.
Comparing(c) == {r \in OtpRequests : OtpAt(r, "compare") /\ otpReq[r].code = c}
GuessesTaken ==
    /\ \A c \in 1 .. MaxChallenges : IsFiniteSet(Comparing(c))
    /\ \A c \in 1 .. MaxChallenges :
         IF c \in Challenges
           THEN compared[c] + Cardinality(Comparing(c)) <= otp_challenges[c].attempts
           ELSE compared[c] = 0

\* The count of a key, or of a connection, leaves room for the request that holds its lock.
LimitsKept ==
    /\ \A k \in Keys : Cardinality(OfKey(k)) <= MaxAttempts
    /\ \A ip \in Ips : Cardinality(OfIp(ip)) <= IpMax
    /\ \A r \in OtpRequests, k \in Keys, ip \in Ips :
         OtpAt(r, "counting") =>
             /\ otpReq[r].key = k => Cardinality(OfKey(k)) < MaxAttempts
             /\ otpReq[r].ip = ip => Cardinality(OfIp(ip)) < IpMax
    /\ \A q, r \in OtpRequests :
         /\ OtpAt(q, "counting") /\ OtpAt(r, "counting")
         /\ otpReq[q].key = otpReq[r].key \/ otpReq[q].ip = otpReq[r].ip
         => q = r

-----------------------------------------------------------------------------
(* Sign-in by a code: proofs *)

\* What the rows and the requests are made of.
LEMMA OtpFields ==
    ASSUME OtpTyped
    PROVE  /\ otp_challenges \in Seq(OtpRow) /\ Len(otp_challenges) \in 0 .. MaxChallenges
           /\ \A c \in Challenges : otp_challenges[c] \in OtpRow /\ c \in 1 .. MaxChallenges
           /\ otpReq \in [OtpRequests -> OtpRequest]
           /\ \A r \in OtpRequests : otpReq[r] \in OtpRequest /\ OtpAbout(otpReq[r])
<1>1. otp_challenges \in Seq(OtpRow)
  BY DEF OtpTyped, OtpTypeOK, OtpRow
<1>2. Len(otp_challenges) \in Nat /\ \A c \in Challenges : otp_challenges[c] \in OtpRow
  BY <1>1, LenProperties, ElementOfSeq DEF Challenges
<1>3. MaxChallenges \in Nat
  BY OtpAssumption
<1> QED BY <1>1, <1>2, <1>3 DEF OtpTyped, OtpTypeOK, OtpRequest, Challenges

\* Row c becomes e, and the others stay.
Edited(c, e) ==
    /\ otp_challenges' \in Seq(OtpRow) /\ Len(otp_challenges') = Len(otp_challenges)
    /\ otp_challenges'[c] = e
    /\ \A d \in Challenges \ {c} : otp_challenges'[d] = otp_challenges[d]

\* An update of one column of a row edits that row.
LEMMA RowEdits ==
    ASSUME OtpTyped, NEW c \in Challenges
    PROVE  /\ \A s \in {"open", "consumed", "deleted"} :
                otp_challenges' = [otp_challenges EXCEPT ![c].state = s]
                  => Edited(c, [otp_challenges[c] EXCEPT !.state = s])
           /\ otp_challenges[c].attempts < MaxAttempts
                /\ otp_challenges' = [otp_challenges EXCEPT ![c].attempts = @ + 1]
                  => Edited(c, [otp_challenges[c] EXCEPT !.attempts = otp_challenges[c].attempts + 1])
           /\ otp_challenges' = [otp_challenges EXCEPT ![c].age = Older(@)]
                => Edited(c, [otp_challenges[c] EXCEPT !.age = Older(otp_challenges[c].age)])
<1>1. otp_challenges \in Seq(OtpRow) /\ otp_challenges[c] \in OtpRow /\ c \in 1 .. Len(otp_challenges)
  BY OtpFields DEF Challenges
<1>2. ASSUME NEW e \in OtpRow, otp_challenges' = [otp_challenges EXCEPT ![c] = e] PROVE Edited(c, e)
  BY <1>1, <1>2, ExceptSeq DEF Edited, Challenges
<1>3. /\ \A s \in {"open", "consumed", "deleted"} : [otp_challenges[c] EXCEPT !.state = s] \in OtpRow
      /\ otp_challenges[c].attempts < MaxAttempts =>
           [otp_challenges[c] EXCEPT !.attempts = otp_challenges[c].attempts + 1] \in OtpRow
      /\ [otp_challenges[c] EXCEPT !.age = Older(otp_challenges[c].age)] \in OtpRow
  BY <1>1, OtpAssumption DEF OtpRow, Older, Age
<1> QED BY <1>2, <1>3

\* A row that is added comes last.
LEMMA RowAdded ==
    ASSUME OtpTyped, Len(otp_challenges) < MaxChallenges, NEW e \in OtpRow,
           otp_challenges' = Append(otp_challenges, e)
    PROVE  /\ otp_challenges' \in Seq(OtpRow) /\ Len(otp_challenges') = Len(otp_challenges) + 1
           /\ otp_challenges'[Len(otp_challenges) + 1] = e
           /\ \A d \in Challenges : otp_challenges'[d] = otp_challenges[d]
           /\ Challenges' = Challenges \cup {Len(otp_challenges) + 1}
           /\ Len(otp_challenges) + 1 \notin Challenges
<1>1. otp_challenges \in Seq(OtpRow) /\ Len(otp_challenges) \in Nat
  BY OtpFields
<1>2. /\ otp_challenges' \in Seq(OtpRow) /\ Len(otp_challenges') = Len(otp_challenges) + 1
      /\ otp_challenges'[Len(otp_challenges) + 1] = e
      /\ \A d \in Challenges : otp_challenges'[d] = otp_challenges[d]
  BY <1>1, AppendProperties DEF Challenges
<1> QED BY <1>1, <1>2 DEF Challenges

\* A request that does not move is still about what it was about: rows are only added.
LEMMA OtpStays ==
    ASSUME OtpTyped, Len(otp_challenges') \in Nat, Len(otp_challenges) <= Len(otp_challenges'),
           NEW q \in OtpRequests, otpReq'[q] = otpReq[q]
    PROVE  OtpAbout(otpReq[q])'
<1>1. Challenges \subseteq Challenges'
  BY OtpFields DEF Challenges
<1> QED BY <1>1, OtpFields DEF OtpAbout

\* A request that moves to a record that is about something leaves all of them so.
LEMMA OtpMoves ==
    ASSUME OtpTyped, Len(otp_challenges') \in Nat, Len(otp_challenges) <= Len(otp_challenges'),
           NEW r \in OtpRequests, NEW q \in OtpRequest, OtpAbout(q)',
           otpReq' = [otpReq EXCEPT ![r] = q]
    PROVE  /\ otpReq' \in [OtpRequests -> OtpRequest]
           /\ \A p \in OtpRequests : OtpAbout(otpReq[p])'
<1>1. otpReq' \in [OtpRequests -> OtpRequest] /\ otpReq'[r] = q
  BY OtpFields
<1>2. OtpAbout(otpReq[r])'
  BY <1>1 DEF OtpAbout
<1>3. \A p \in OtpRequests \ {r} : otpReq'[p] = otpReq[p]
  BY OtpFields
<1> QED BY <1>1, <1>2, <1>3, OtpStays

LEMMA OtpInitTyped == OtpInit => OtpTyped
<1> SUFFICES ASSUME OtpInit PROVE OtpTyped
  OBVIOUS
<1>1. otp_challenges \in Seq(OtpRow) /\ Len(otp_challenges) = 0
  BY EmptySeq DEF OtpInit
<1> QED BY <1>1, OtpAssumption
        DEF OtpInit, OtpTyped, OtpTypeOK, OtpAbout, NoOtpRequest, OtpRow

\* Every step keeps the types, and requests about what they are about.
LEMMA OtpTypeStep == OtpTyped /\ [OtpNext]_otpVars => OtpTyped'
<1> SUFFICES ASSUME OtpTyped, [OtpNext]_otpVars PROVE OtpTyped'
  OBVIOUS
<1>t. /\ OtpTypeOK /\ otp_challenges \in Seq(OtpRow) /\ Len(otp_challenges) \in 0 .. MaxChallenges
      /\ otpReq \in [OtpRequests -> OtpRequest]
      /\ \A r \in OtpRequests : otpReq[r] \in OtpRequest /\ OtpAbout(otpReq[r])
      /\ \A c \in Challenges : c \in 1 .. MaxChallenges
  BY OtpFields DEF OtpTyped
<1> DEFINE Reqs == otpReq' \in [OtpRequests -> OtpRequest] /\ \A q \in OtpRequests : OtpAbout(otpReq[q])'
           RowsTyped == /\ otp_challenges' \in Seq(OtpRow) /\ Len(otp_challenges') \in 0 .. MaxChallenges
                        /\ Len(otp_challenges) <= Len(otp_challenges')
<1>r. Reqs /\ RowsTyped /\ compared' \in [1 .. MaxChallenges -> Nat] /\ sessions' \in [1 .. MaxChallenges -> Nat]
         => OtpTyped'
  BY DEF OtpTyped, OtpTypeOK, OtpRow, OtpRequest
<1>u. UNCHANGED otp_challenges => RowsTyped
  BY <1>t
<1>e. \A e : \A c \in Challenges : Edited(c, e) => RowsTyped
  BY <1>t DEF Edited
<1>n. ASSUME RowsTyped PROVE UNCHANGED otpReq => Reqs
  BY <1>t, <1>n, OtpStays, OtpAssumption
<1>f. ASSUME RowsTyped, NEW r \in OtpRequests, OtpFinish(r) PROVE Reqs
  <2>1. NoOtpRequest \in OtpRequest /\ OtpAbout(NoOtpRequest)'
    BY DEF NoOtpRequest, OtpRequest, OtpAbout
  <2>2. Len(otp_challenges') \in Nat /\ Len(otp_challenges) <= Len(otp_challenges')
    BY <1>f, OtpAssumption
  <2>3. otpReq' = [otpReq EXCEPT ![r] = NoOtpRequest]
    BY <1>f DEF OtpFinish
  <2> QED BY <2>1, <2>2, <2>3, OtpMoves
<1>g. ASSUME RowsTyped, NEW r \in OtpRequests, NEW pc \in {"compare", "consume", "signin"},
             otpReq[r].code \in Challenges, OtpGoto(r, pc)
      PROVE  Reqs
  <2>0. PICK q : q = [otpReq[r] EXCEPT !.pc = pc]
    OBVIOUS
  <2>1. q \in OtpRequest /\ q.code \in Challenges /\ q.pc = pc
    BY <1>t, <1>g, <2>0 DEF OtpRequest
  <2>2. otpReq' = [otpReq EXCEPT ![r] = q]
    BY <1>t, <1>g, <2>0 DEF OtpGoto, OtpRequest
  <2>3. q.code \in Challenges'
    BY <1>t, <1>g, <2>1, OtpAssumption DEF Challenges
  <2>4. OtpAbout(q)'
    BY <1>g, <2>1, <2>3 DEF OtpAbout
  <2>5. Len(otp_challenges') \in Nat /\ Len(otp_challenges) <= Len(otp_challenges')
    BY <1>g, OtpAssumption
  <2> QED BY <2>1, <2>2, <2>4, <2>5, OtpMoves
<1> HIDE DEF Reqs, RowsTyped
<1> USE DEF OtpTypeOK
<1>1. ASSUME NEW r \in OtpRequests, NEW k \in Keys, VerifyRead(r, k) PROVE OtpTyped'
  <2>1. PICK c \in Challenges :
          otpReq' = [otpReq EXCEPT ![r] = [NoOtpRequest EXCEPT !.pc = "take", !.code = c]]
    BY <1>1 DEF VerifyRead
  <2> DEFINE q == [NoOtpRequest EXCEPT !.pc = "take", !.code = c]
  <2>2. q \in OtpRequest /\ q.pc = "take" /\ q.code = c /\ otpReq' = [otpReq EXCEPT ![r] = q]
    <3>1. c \in Nat
      BY <1>t, OtpAssumption
    <3> QED BY <2>1, <3>1 DEF NoOtpRequest, OtpRequest
  <2> HIDE DEF q
  <2>3. OtpAbout(q)'
    BY <1>1, <2>2 DEF OtpAbout, VerifyRead, Challenges
  <2>4. RowsTyped /\ UNCHANGED otp_challenges /\ Len(otp_challenges) \in Nat
    BY <1>t, <1>u, <1>1, OtpAssumption DEF VerifyRead
  <2>5. Reqs
    <3>1. Len(otp_challenges') \in Nat /\ Len(otp_challenges) <= Len(otp_challenges')
      BY <2>4
    <3>2. /\ otpReq' \in [OtpRequests -> OtpRequest]
          /\ \A p \in OtpRequests : OtpAbout(otpReq[p])'
      BY <2>2, <2>3, <3>1, OtpMoves
    <3> QED BY <3>2 DEF Reqs
  <2> QED BY <1>r, <1>t, <1>1, <2>4, <2>5 DEF VerifyRead
<1>2. ASSUME NEW r \in OtpRequests, NEW k \in Keys, NEW ip \in Ips, RequestLock(r, k, ip) PROVE OtpTyped'
  <2> DEFINE q == [NoOtpRequest EXCEPT !.pc = "counting", !.key = k, !.ip = ip]
  <2>1. q \in OtpRequest /\ q.pc = "counting" /\ q.key = k /\ q.ip = ip
    BY DEF NoOtpRequest, OtpRequest
  <2>2. OtpFinish(r) \/ otpReq' = [otpReq EXCEPT ![r] = q]
    BY <1>2 DEF RequestLock
  <2> HIDE DEF q
  <2>3. OtpAbout(q)'
    BY <2>1 DEF OtpAbout
  <2>4. RowsTyped
    BY <1>u, <1>2 DEF RequestLock
  <2>5. Reqs
    BY <1>t, <1>f, <1>2, <2>1, <2>2, <2>3, <2>4, OtpMoves DEF Reqs, RequestLock
  <2> QED BY <1>r, <1>t, <1>2, <2>4, <2>5 DEF RequestLock
<1>3. ASSUME NEW r \in OtpRequests, RequestInsert(r) PROVE OtpTyped'
  <2> DEFINE e == [key |-> otpReq[r].key, ip |-> otpReq[r].ip, attempts |-> 0, state |-> "open", age |-> "new"]
  <2>1. e \in OtpRow
    BY <1>t, <1>3, OtpAssumption DEF RequestInsert, OtpAt, OtpAbout, OtpRow, Age
  <2>2. RowsTyped
    BY <1>t, <1>3, <2>1, RowAdded, OtpAssumption DEF RequestInsert, RowsTyped
  <2> QED BY <1>r, <1>f, <1>t, <1>3, <2>2 DEF RequestInsert
<1>4. ASSUME NEW r \in OtpRequests, Take(r) PROVE OtpTyped'
  <2>1. otpReq[r].code \in Challenges
    BY <1>t, <1>4 DEF Take, OtpAt, OtpAbout
  <2>2. RowsTyped
    BY <1>u, <1>e, <1>4, <2>1, RowEdits DEF Take, MayTake
  <2>3. Reqs
    BY <1>f, <1>g, <1>4, <2>1, <2>2 DEF Take
  <2> QED BY <1>r, <1>t, <1>4, <2>2, <2>3 DEF Take
<1>5. ASSUME NEW r \in OtpRequests, Compare(r) PROVE OtpTyped'
  <2>1. otpReq[r].code \in Challenges
    BY <1>t, <1>5 DEF Compare, OtpAt, OtpAbout
  <2>2. RowsTyped
    BY <1>u, <1>5 DEF Compare
  <2>3. Reqs
    BY <1>f, <1>g, <1>5, <2>1, <2>2 DEF Compare
  <2> QED BY <1>r, <1>t, <1>5, <2>1, <2>2, <2>3 DEF Compare
<1>6. ASSUME NEW r \in OtpRequests, Consume(r) PROVE OtpTyped'
  <2>1. otpReq[r].code \in Challenges
    BY <1>t, <1>6 DEF Consume, OtpAt, OtpAbout
  <2>2. RowsTyped
    BY <1>u, <1>e, <1>6, <2>1, RowEdits DEF Consume
  <2>3. Reqs
    BY <1>f, <1>g, <1>6, <2>1, <2>2 DEF Consume
  <2> QED BY <1>r, <1>t, <1>6, <2>2, <2>3 DEF Consume
<1>7. ASSUME NEW r \in OtpRequests, SignIn(r) PROVE OtpTyped'
  <2>1. otpReq[r].code \in Challenges
    BY <1>t, <1>7 DEF SignIn, OtpAt, OtpAbout
  <2>2. RowsTyped
    BY <1>u, <1>7 DEF SignIn
  <2> QED BY <1>r, <1>f, <1>t, <1>7, <2>1, <2>2 DEF SignIn
<1>8. ASSUME NEW r \in OtpRequests, RequestDies(r) PROVE OtpTyped'
  BY <1>r, <1>f, <1>u, <1>t, <1>8 DEF RequestDies
<1>9. ASSUME NEW c \in Challenges, Undelivered(c) PROVE OtpTyped'
  <2>1. RowsTyped
    BY <1>e, <1>9, RowEdits DEF Undelivered
  <2> QED BY <1>r, <1>n, <1>t, <1>9, <2>1 DEF Undelivered
<1>10. ASSUME NEW c \in Challenges, Ages(c) PROVE OtpTyped'
  <2>1. RowsTyped
    BY <1>e, <1>10, RowEdits DEF Ages
  <2> QED BY <1>r, <1>n, <1>t, <1>10, <2>1 DEF Ages
<1>11. CASE UNCHANGED otpVars
  BY <1>r, <1>n, <1>u, <1>t, <1>11 DEF otpVars
<1> QED BY <1>1, <1>2, <1>3, <1>4, <1>5, <1>6, <1>7, <1>8, <1>9, <1>10, <1>11 DEF OtpNext

\* A step after which no code is open again, and nobody starts to sign in.
LEMMA RedeemFrame ==
    ASSUME OtpTyped, RedeemedOnce, UNCHANGED sessions, Challenges \subseteq Challenges',
           \A c \in Challenges : otp_challenges'[c].state = "open" => otp_challenges[c].state = "open",
           \A q \in OtpRequests : OtpAt(q, "signin")' => otpReq'[q] = otpReq[q]
    PROVE  RedeemedOnce'
<1>1. \A q \in OtpRequests : OtpAt(q, "signin") => otpReq[q].code \in Challenges
  BY OtpFields DEF OtpAt, OtpAbout
<1> QED BY <1>1 DEF RedeemedOnce, OtpAt

\* A step in which no guess is taken or compared.
LEMMA GuessFrame ==
    ASSUME GuessesTaken, UNCHANGED compared, Challenges' = Challenges, OtpTyped,
           compared \in [1 .. MaxChallenges -> Nat],
           \A c \in Challenges : otp_challenges'[c].attempts = otp_challenges[c].attempts,
           \A q \in OtpRequests : OtpAt(q, "compare")' => otpReq'[q] = otpReq[q]
    PROVE  GuessesTaken'
<1>1. \A c \in 1 .. MaxChallenges : Comparing(c)' \in SUBSET Comparing(c)
  BY DEF Comparing, OtpAt
<1>2. ASSUME NEW c \in 1 .. MaxChallenges
      PROVE  /\ IsFiniteSet(Comparing(c)') /\ Cardinality(Comparing(c)') \in Nat
             /\ Cardinality(Comparing(c)) \in Nat
             /\ Cardinality(Comparing(c)') <= Cardinality(Comparing(c))
  <2>1. IsFiniteSet(Comparing(c)) /\ Comparing(c)' \in SUBSET Comparing(c)
    BY <1>1 DEF GuessesTaken
  <2> HIDE DEF Comparing
  <2> QED BY <2>1, FS_Subset, FS_CardinalityType
<1>3. \A c \in Challenges : otp_challenges[c].attempts \in Nat
  BY OtpFields, OtpAssumption DEF OtpRow
<1>4. ASSUME NEW c \in 1 .. MaxChallenges, c \in Challenges
      PROVE  compared'[c] + Cardinality(Comparing(c)') <= otp_challenges'[c].attempts
  BY <1>2, <1>3, <1>4 DEF GuessesTaken
<1> QED BY <1>2, <1>4 DEF GuessesTaken

\* The rows that the limits count are finitely many.
LEMMA CountsFinite ==
    ASSUME OtpTyped
    PROVE  /\ \A k \in Keys : IsFiniteSet(OfKey(k)) /\ Cardinality(OfKey(k)) \in Nat
           /\ \A ip \in Ips : IsFiniteSet(OfIp(ip)) /\ Cardinality(OfIp(ip)) \in Nat
<1>1. IsFiniteSet(Challenges)
  BY OtpFields, FS_Interval DEF Challenges
<1>2. /\ \A k \in Keys : OfKey(k) \in SUBSET Challenges
      /\ \A ip \in Ips : OfIp(ip) \in SUBSET Challenges
  BY DEF OfKey, OfIp
<1> QED BY <1>1, <1>2, FS_Subset, FS_CardinalityType

\* A step after which the limits count no row they did not count, and no further lock is held.
LEMMA LimitFrame ==
    ASSUME OtpTyped, LimitsKept, Challenges' = Challenges,
           \A c \in Challenges :
               /\ otp_challenges'[c].key = otp_challenges[c].key
               /\ otp_challenges'[c].ip = otp_challenges[c].ip
               /\ InWindow(c)' => InWindow(c)
               /\ InWindow(c)' /\ Consumed(c) => Consumed(c)',
           \A q \in OtpRequests : OtpAt(q, "counting")' => otpReq'[q] = otpReq[q]
    PROVE  LimitsKept'
<1>1. /\ \A k \in Keys : OfKey(k)' \in SUBSET OfKey(k)
      /\ \A ip \in Ips : OfIp(ip)' \in SUBSET OfIp(ip)
  BY DEF OfKey, OfIp
<1>2. /\ \A k \in Keys : /\ Cardinality(OfKey(k)') <= Cardinality(OfKey(k))
                         /\ Cardinality(OfKey(k)') \in Nat /\ Cardinality(OfKey(k)) \in Nat
      /\ \A ip \in Ips : /\ Cardinality(OfIp(ip)') <= Cardinality(OfIp(ip))
                         /\ Cardinality(OfIp(ip)') \in Nat /\ Cardinality(OfIp(ip)) \in Nat
  BY <1>1, CountsFinite, FS_Subset, FS_CardinalityType
<1>3. \A q \in OtpRequests : OtpAt(q, "counting") => otpReq[q].key \in Keys /\ otpReq[q].ip \in Ips
  BY OtpFields DEF OtpAt, OtpAbout
<1>4. \A k \in Keys : Cardinality(OfKey(k)') <= MaxAttempts
  BY <1>2, OtpAssumption DEF LimitsKept
<1>5. \A ip \in Ips : Cardinality(OfIp(ip)') <= IpMax
  BY <1>2, OtpAssumption DEF LimitsKept
<1>6. ASSUME NEW q \in OtpRequests, OtpAt(q, "counting")', NEW k \in Keys, NEW ip \in Ips
      PROVE  /\ otpReq'[q].key = k => Cardinality(OfKey(k)') < MaxAttempts
             /\ otpReq'[q].ip = ip => Cardinality(OfIp(ip)') < IpMax
  <2>1. OtpAt(q, "counting") /\ otpReq'[q] = otpReq[q]
    BY <1>6 DEF OtpAt
  <2>2. /\ otpReq[q].key = k => Cardinality(OfKey(k)) < MaxAttempts
        /\ otpReq[q].ip = ip => Cardinality(OfIp(ip)) < IpMax
    BY <2>1 DEF LimitsKept
  <2> QED BY <1>2, <2>1, <2>2, OtpAssumption
<1>7. ASSUME NEW q \in OtpRequests, NEW r \in OtpRequests,
             OtpAt(q, "counting")', OtpAt(r, "counting")',
             otpReq'[q].key = otpReq'[r].key \/ otpReq'[q].ip = otpReq'[r].ip
      PROVE  q = r
  BY <1>7 DEF LimitsKept, OtpAt
<1> QED BY <1>4, <1>5, <1>6, <1>7 DEF LimitsKept

CodesHold == RedeemedOnce /\ GuessesTaken /\ LimitsKept

\* A step that leaves the rows alone, in which nobody gets a lock, starts to compare
\* or starts to sign in.
LEMMA CodesFrame ==
    ASSUME OtpTyped, CodesHold, UNCHANGED <<otp_challenges, compared, sessions>>,
           \A q \in OtpRequests :
               otpReq'[q].pc \in {"counting", "compare", "signin"} => otpReq'[q] = otpReq[q]
    PROVE  CodesHold'
<1>1. Challenges' = Challenges /\ \A c \in Challenges : (InWindow(c)' <=> InWindow(c)) /\ (Consumed(c)' <=> Consumed(c))
  BY DEF Challenges, InWindow, Consumed
<1>2. RedeemedOnce'
  BY <1>1, RedeemFrame DEF CodesHold, OtpAt
<1>3. GuessesTaken'
  BY <1>1, GuessFrame DEF CodesHold, OtpAt, OtpTyped, OtpTypeOK
<1>4. LimitsKept'
  BY <1>1, LimitFrame DEF CodesHold, OtpAt
<1> QED BY <1>2, <1>3, <1>4 DEF CodesHold

\* Codes stay limited in every step.
LEMMA CodesStep == OtpTyped /\ CodesHold /\ [OtpNext]_otpVars => CodesHold'
<1> SUFFICES ASSUME OtpTyped, CodesHold, [OtpNext]_otpVars PROVE CodesHold'
  OBVIOUS
<1>t. /\ OtpTypeOK /\ otpReq \in [OtpRequests -> OtpRequest]
      /\ \A r \in OtpRequests : otpReq[r] \in OtpRequest /\ OtpAbout(otpReq[r])
      /\ \A c \in Challenges : c \in 1 .. MaxChallenges /\ otp_challenges[c] \in OtpRow
      /\ Len(otp_challenges) \in Nat
  BY OtpFields, OtpAssumption DEF OtpTyped
<1>g. ASSUME NEW r \in OtpRequests, NEW pc, OtpGoto(r, pc)
      PROVE  /\ otpReq'[r].pc = pc /\ otpReq'[r].code = otpReq[r].code
             /\ \A q \in OtpRequests \ {r} : otpReq'[q] = otpReq[q]
  BY <1>t, <1>g DEF OtpGoto, OtpRequest
<1>f. ASSUME NEW r \in OtpRequests, OtpFinish(r)
      PROVE  /\ otpReq'[r].pc = "idle"
             /\ \A q \in OtpRequests \ {r} : otpReq'[q] = otpReq[q]
  BY <1>t, <1>f DEF OtpFinish, NoOtpRequest
<1>e. ASSUME NEW c \in Challenges, NEW e \in OtpRow, Edited(c, e)
      PROVE  /\ Challenges' = Challenges
             /\ \A d \in Challenges : otp_challenges'[d] = IF d = c THEN e ELSE otp_challenges[d]
  BY <1>t, <1>e DEF Edited, Challenges
<1>1. ASSUME NEW r \in OtpRequests, NEW k \in Keys, VerifyRead(r, k) PROVE CodesHold'
  <2>1. PICK c \in Challenges :
          otpReq' = [otpReq EXCEPT ![r] = [NoOtpRequest EXCEPT !.pc = "take", !.code = c]]
    BY <1>1 DEF VerifyRead
  <2>2. \A q \in OtpRequests : otpReq'[q] = otpReq[q] \/ otpReq'[q].pc = "take"
    BY <1>t, <2>1 DEF NoOtpRequest
  <2> QED BY <1>1, <2>2, CodesFrame DEF VerifyRead
<1>2. ASSUME NEW r \in OtpRequests, NEW k \in Keys, NEW ip \in Ips, RequestLock(r, k, ip) PROVE CodesHold'
  <2>1. CASE OtpFinish(r)
    BY <1>f, <1>2, <2>1, CodesFrame DEF RequestLock
  <2>2. CASE /\ Cardinality(OfKey(k)) < MaxAttempts /\ Cardinality(OfIp(ip)) < IpMax
             /\ otpReq' = [otpReq EXCEPT ![r] = [NoOtpRequest EXCEPT !.pc = "counting", !.key = k, !.ip = ip]]
    <3>1. /\ otpReq'[r].pc = "counting" /\ otpReq'[r].key = k /\ otpReq'[r].ip = ip
          /\ \A q \in OtpRequests \ {r} : otpReq'[q] = otpReq[q]
      BY <1>t, <2>2 DEF NoOtpRequest
    <3>2. UNCHANGED <<otp_challenges, compared, sessions>> /\ Challenges' = Challenges
      BY <1>2 DEF RequestLock, Challenges
    <3>3. RedeemedOnce'
      BY <3>1, <3>2, RedeemFrame DEF CodesHold, OtpAt
    <3>4. GuessesTaken'
      BY <3>1, <3>2, GuessFrame DEF CodesHold, OtpAt, OtpTyped, OtpTypeOK
    <3>5. /\ \A j \in Keys : OfKey(j)' = OfKey(j)
          /\ \A j \in Ips : OfIp(j)' = OfIp(j)
      BY <3>2 DEF OfKey, OfIp, InWindow, Consumed
    <3>6. \A q \in OtpRequests \ {r} :
            OtpAt(q, "counting")' => OtpAt(q, "counting") /\ otpReq[q].key # k /\ otpReq[q].ip # ip
      BY <1>2, <3>1 DEF RequestLock, LocksFree, OtpAt
    <3>7. LimitsKept'
      <4>1. ASSUME NEW q \in OtpRequests, NEW j \in Keys, NEW i \in Ips, OtpAt(q, "counting")'
            PROVE  /\ otpReq'[q].key = j => Cardinality(OfKey(j)') < MaxAttempts
                   /\ otpReq'[q].ip = i => Cardinality(OfIp(i)') < IpMax
        <5>1. CASE q = r
          BY <2>2, <3>1, <3>5, <5>1
        <5>2. CASE q # r
          BY <3>1, <3>5, <3>6, <4>1, <5>2 DEF CodesHold, LimitsKept
        <5> QED BY <5>1, <5>2
      <4>2. ASSUME NEW p \in OtpRequests, NEW q \in OtpRequests,
                   OtpAt(p, "counting")', OtpAt(q, "counting")',
                   otpReq'[p].key = otpReq'[q].key \/ otpReq'[p].ip = otpReq'[q].ip
            PROVE  p = q
        BY <3>1, <3>6, <4>2 DEF CodesHold, LimitsKept
      <4> QED BY <3>5, <4>1, <4>2 DEF CodesHold, LimitsKept
    <3> QED BY <3>3, <3>4, <3>7 DEF CodesHold
  <2> QED BY <1>2, <2>1, <2>2 DEF RequestLock
<1>3. ASSUME NEW r \in OtpRequests, RequestInsert(r) PROVE CodesHold'
  <2> DEFINE e == [key |-> otpReq[r].key, ip |-> otpReq[r].ip, attempts |-> 0, state |-> "open", age |-> "new"]
             n == Len(otp_challenges) + 1
  <2>1. /\ OtpAt(r, "counting") /\ otpReq[r].key \in Keys /\ otpReq[r].ip \in Ips /\ e \in OtpRow
        /\ UNCHANGED <<compared, sessions>>
    BY <1>t, <1>3, OtpAssumption DEF RequestInsert, OtpAt, OtpAbout, OtpRow, Age
  <2>2. /\ otp_challenges'[n] = e /\ \A d \in Challenges : otp_challenges'[d] = otp_challenges[d]
        /\ Challenges' = Challenges \cup {n} /\ n \notin Challenges
    BY <1>3, <2>1, RowAdded DEF RequestInsert
  <2>3. otpReq'[r].pc = "idle" /\ \A q \in OtpRequests \ {r} : otpReq'[q] = otpReq[q]
    BY <1>f, <1>3 DEF RequestInsert
  <2>4. RedeemedOnce'
    BY <2>1, <2>2, <2>3, RedeemFrame DEF CodesHold, OtpAt
  <2>5. GuessesTaken'
    <3>1. \A c \in 1 .. MaxChallenges : Comparing(c)' = Comparing(c)
      BY <2>1, <2>3 DEF Comparing, OtpAt
    <3>2. \A c \in 1 .. MaxChallenges \ Challenges : Comparing(c) = {}
      BY <1>t DEF Comparing, OtpAt, OtpAbout
    <3>3. ASSUME NEW c \in 1 .. MaxChallenges, c \in Challenges'
          PROVE  compared'[c] + Cardinality(Comparing(c)') <= otp_challenges'[c].attempts
      <4>1. CASE c \in Challenges
        BY <2>1, <2>2, <3>1, <4>1 DEF CodesHold, GuessesTaken
      <4>2. CASE c \notin Challenges
        <5>1. c = n /\ compared[c] = 0 /\ Comparing(c)' = {}
          BY <2>2, <3>1, <3>2, <3>3, <4>2 DEF CodesHold, GuessesTaken
        <5>2. Cardinality(Comparing(c)') = 0
          BY <5>1, FS_EmptySet
        <5> QED BY <2>1, <2>2, <5>1, <5>2
      <4> QED BY <4>1, <4>2
    <3> QED BY <2>1, <2>2, <3>1, <3>3 DEF CodesHold, GuessesTaken
  <2>6. LimitsKept'
    <3>1. /\ \A k \in Keys : OfKey(k)' \in {OfKey(k), OfKey(k) \cup {n}}
                              /\ (k # otpReq[r].key => OfKey(k)' = OfKey(k))
          /\ \A i \in Ips : OfIp(i)' \in {OfIp(i), OfIp(i) \cup {n}}
                              /\ (i # otpReq[r].ip => OfIp(i)' = OfIp(i))
      <4>1. ASSUME NEW c \in Challenges
            PROVE  /\ InWindow(c)' <=> InWindow(c)
                   /\ Consumed(c)' <=> Consumed(c)
        BY <2>2 DEF InWindow, Consumed
      <4> QED BY <2>2, <4>1 DEF OfKey, OfIp
    <3>2. /\ \A k \in Keys : Cardinality(OfKey(k) \cup {n}) <= Cardinality(OfKey(k)) + 1
                              /\ Cardinality(OfKey(k) \cup {n}) \in Nat
          /\ \A i \in Ips : Cardinality(OfIp(i) \cup {n}) <= Cardinality(OfIp(i)) + 1
                              /\ Cardinality(OfIp(i) \cup {n}) \in Nat
      <4>1. ASSUME NEW S, IsFiniteSet(S)
            PROVE  Cardinality(S \cup {n}) <= Cardinality(S) + 1 /\ Cardinality(S \cup {n}) \in Nat
        <5>1. IsFiniteSet(S \cup {n}) /\ Cardinality(S) \in Nat
              /\ Cardinality(S \cup {n}) = IF n \in S THEN Cardinality(S) ELSE Cardinality(S) + 1
          BY <4>1, FS_AddElement, FS_CardinalityType
        <5> QED BY <5>1
      <4> QED BY <4>1, CountsFinite
    <3>3. /\ Cardinality(OfKey(otpReq[r].key)) < MaxAttempts
          /\ Cardinality(OfIp(otpReq[r].ip)) < IpMax
      BY <2>1 DEF CodesHold, LimitsKept
    <3>4. ASSUME NEW k \in Keys PROVE Cardinality(OfKey(k)') <= MaxAttempts
      BY <2>1, <3>1, <3>2, <3>3, CountsFinite, OtpAssumption DEF CodesHold, LimitsKept
    <3>5. ASSUME NEW i \in Ips PROVE Cardinality(OfIp(i)') <= IpMax
      BY <2>1, <3>1, <3>2, <3>3, CountsFinite, OtpAssumption DEF CodesHold, LimitsKept
    <3>6. ASSUME NEW q \in OtpRequests, OtpAt(q, "counting")'
          PROVE  /\ OtpAt(q, "counting") /\ otpReq'[q] = otpReq[q]
                 /\ otpReq[q].key # otpReq[r].key /\ otpReq[q].ip # otpReq[r].ip
      BY <2>1, <2>3, <3>6 DEF CodesHold, LimitsKept, OtpAt
    <3>7. ASSUME NEW q \in OtpRequests, NEW k \in Keys, NEW i \in Ips, OtpAt(q, "counting")'
          PROVE  /\ otpReq'[q].key = k => Cardinality(OfKey(k)') < MaxAttempts
                 /\ otpReq'[q].ip = i => Cardinality(OfIp(i)') < IpMax
      BY <3>1, <3>6, <3>7 DEF CodesHold, LimitsKept
    <3>8. ASSUME NEW p \in OtpRequests, NEW q \in OtpRequests,
                 OtpAt(p, "counting")', OtpAt(q, "counting")',
                 otpReq'[p].key = otpReq'[q].key \/ otpReq'[p].ip = otpReq'[q].ip
          PROVE  p = q
      BY <3>6, <3>8 DEF CodesHold, LimitsKept
    <3> QED BY <3>4, <3>5, <3>7, <3>8 DEF LimitsKept
  <2> QED BY <2>4, <2>5, <2>6 DEF CodesHold
<1>4. ASSUME NEW r \in OtpRequests, Take(r) PROVE CodesHold'
  <2>c. PICK c \in Challenges : c = otpReq[r].code
    BY <1>t, <1>4 DEF Take, OtpAt, OtpAbout
  <2>1. OtpAt(r, "take") /\ c \in Challenges /\ UNCHANGED <<compared, sessions>>
    BY <1>4 DEF Take
  <2>2. CASE MayTake(c)
    <3>1. PICK e \in OtpRow : e = [otp_challenges[c] EXCEPT !.attempts = otp_challenges[c].attempts + 1]
      <4>1. otp_challenges[c] \in OtpRow
        BY <1>t
      <4>2. otp_challenges[c].attempts + 1 \in 0 .. MaxAttempts
        BY <2>2, <4>1, OtpAssumption DEF MayTake, OtpRow
      <4> QED BY <4>1, <4>2 DEF OtpRow
    <3>2. Edited(c, e)
      BY <1>4, <2>c, <2>1, <2>2, <3>1, RowEdits DEF Take, MayTake
    <3>3. /\ Challenges' = Challenges
          /\ \A d \in Challenges : otp_challenges'[d] = IF d = c THEN e ELSE otp_challenges[d]
          /\ e.key = otp_challenges[c].key /\ e.ip = otp_challenges[c].ip /\ e.state = otp_challenges[c].state
          /\ e.age = otp_challenges[c].age /\ e.attempts = otp_challenges[c].attempts + 1
      BY <1>t, <1>e, <2>1, <3>1, <3>2 DEF OtpRow
    <3>4. /\ otpReq'[r].pc = "compare" /\ otpReq'[r].code = c
          /\ \A q \in OtpRequests \ {r} : otpReq'[q] = otpReq[q]
      BY <1>g, <1>4, <2>c, <2>2 DEF Take
    <3>5. RedeemedOnce'
      BY <2>1, <3>3, <3>4, RedeemFrame DEF CodesHold, OtpAt
    <3>6. LimitsKept'
      BY <3>3, <3>4, LimitFrame DEF CodesHold, OtpAt, InWindow, Consumed
    <3>7. /\ Comparing(c)' = Comparing(c) \cup {r} /\ r \notin Comparing(c)
          /\ \A d \in 1 .. MaxChallenges : d # c => Comparing(d)' = Comparing(d)
      BY <2>c, <2>1, <3>4 DEF Comparing, OtpAt
    <3>8. /\ IsFiniteSet(Comparing(c)') /\ Cardinality(Comparing(c)') = Cardinality(Comparing(c)) + 1
          /\ Cardinality(Comparing(c)) \in Nat
      <4>1. IsFiniteSet(Comparing(c))
        BY <1>t, <2>1 DEF CodesHold, GuessesTaken
      <4> HIDE DEF Comparing
      <4> QED BY <3>7, <4>1, FS_AddElement, FS_CardinalityType
    <3>9. GuessesTaken'
      <4>1. ASSUME NEW d \in 1 .. MaxChallenges
            PROVE  /\ IsFiniteSet(Comparing(d)')
                   /\ IF d \in Challenges'
                        THEN compared'[d] + Cardinality(Comparing(d)') <= otp_challenges'[d].attempts
                        ELSE compared'[d] = 0
        <5>1. CASE d = c
          <6>1. compared[c] + Cardinality(Comparing(c)) <= otp_challenges[c].attempts
            BY <1>t, <2>1 DEF CodesHold, GuessesTaken
          <6>2. compared[c] \in Nat /\ otp_challenges[c].attempts \in Nat
            BY <1>t, <2>1, OtpAssumption DEF OtpTypeOK, OtpRow
          <6> QED BY <2>1, <3>3, <3>8, <5>1, <6>1, <6>2
        <5>2. CASE d # c
          BY <2>1, <3>3, <3>7, <5>2 DEF CodesHold, GuessesTaken
        <5> QED BY <5>1, <5>2
      <4> QED BY <4>1 DEF GuessesTaken
    <3> QED BY <3>5, <3>6, <3>9 DEF CodesHold
  <2>3. CASE ~MayTake(c)
    BY <1>f, <1>4, <2>c, <2>3, CodesFrame DEF Take
  <2> QED BY <2>2, <2>3
<1>5. ASSUME NEW r \in OtpRequests, Compare(r) PROVE CodesHold'
  <2>c. PICK c \in Challenges : c = otpReq[r].code
    BY <1>t, <1>5 DEF Compare, OtpAt, OtpAbout
  <2>1. /\ OtpAt(r, "compare") /\ c \in Challenges /\ c \in 1 .. MaxChallenges
        /\ UNCHANGED <<otp_challenges, sessions>>
        /\ compared' = [compared EXCEPT ![c] = @ + 1]
    BY <1>t, <1>5, <2>c DEF Compare
  <2>2. /\ otpReq'[r].pc \in {"consume", "idle"}
        /\ \A q \in OtpRequests \ {r} : otpReq'[q] = otpReq[q]
    BY <1>f, <1>g, <1>5 DEF Compare
  <2>3. Challenges' = Challenges
    BY <2>1 DEF Challenges
  <2>4. RedeemedOnce'
    BY <2>1, <2>2, <2>3, RedeemFrame DEF CodesHold, OtpAt
  <2>5. LimitsKept'
    BY <2>1, <2>2, <2>3, LimitFrame DEF CodesHold, OtpAt, InWindow, Consumed
  <2>6. /\ Comparing(c)' = Comparing(c) \ {r} /\ r \in Comparing(c)
        /\ \A d \in 1 .. MaxChallenges : d # c => Comparing(d)' = Comparing(d)
    BY <2>c, <2>1, <2>2 DEF Comparing, OtpAt
  <2>7. /\ IsFiniteSet(Comparing(c)') /\ Cardinality(Comparing(c)') = Cardinality(Comparing(c)) - 1
        /\ Cardinality(Comparing(c)) \in Nat
    <3>1. IsFiniteSet(Comparing(c))
      BY <2>1 DEF CodesHold, GuessesTaken
    <3> HIDE DEF Comparing
    <3> QED BY <2>6, <3>1, FS_RemoveElement, FS_CardinalityType
  <2>8. GuessesTaken'
    <3>1. ASSUME NEW d \in 1 .. MaxChallenges
          PROVE  /\ IsFiniteSet(Comparing(d)')
                 /\ IF d \in Challenges'
                      THEN compared'[d] + Cardinality(Comparing(d)') <= otp_challenges'[d].attempts
                      ELSE compared'[d] = 0
      <4>1. CASE d = c
        <5>1. compared[c] + Cardinality(Comparing(c)) <= otp_challenges[c].attempts
          BY <2>1 DEF CodesHold, GuessesTaken
        <5>2. compared[c] \in Nat /\ otp_challenges[c].attempts \in Nat /\ compared'[c] = compared[c] + 1
          <6>1. compared[c] \in Nat /\ compared'[c] = compared[c] + 1
            BY <1>t, <2>1 DEF OtpTypeOK
          <6>2. otp_challenges[c] \in OtpRow
            BY <1>t
          <6> QED BY <6>1, <6>2, OtpAssumption DEF OtpRow
        <5> QED BY <2>1, <2>3, <2>7, <4>1, <5>1, <5>2
      <4>2. CASE d # c
        <5>1. compared'[d] = compared[d]
          BY <1>t, <2>1, <4>2 DEF OtpTypeOK
        <5> QED BY <2>1, <2>3, <2>6, <4>2, <5>1 DEF CodesHold, GuessesTaken
      <4> QED BY <4>1, <4>2
    <3> QED BY <3>1 DEF GuessesTaken
  <2> QED BY <2>4, <2>5, <2>8 DEF CodesHold
<1>6. ASSUME NEW r \in OtpRequests, Consume(r) PROVE CodesHold'
  <2> DEFINE c == otpReq[r].code
  <2>1. OtpAt(r, "consume") /\ c \in Challenges /\ UNCHANGED <<compared, sessions>>
    BY <1>t, <1>6 DEF Consume, OtpAt, OtpAbout
  <2>2. CASE Consumable(c)
    <3>1. PICK e \in OtpRow : e = [otp_challenges[c] EXCEPT !.state = "consumed"]
      BY <1>t, <2>1 DEF OtpRow
    <3>2. Edited(c, e)
      BY <1>6, <2>1, <2>2, <3>1, RowEdits DEF Consume
    <3>3. /\ Challenges' = Challenges
          /\ \A d \in Challenges : otp_challenges'[d] = IF d = c THEN e ELSE otp_challenges[d]
          /\ e.key = otp_challenges[c].key /\ e.ip = otp_challenges[c].ip /\ e.state = "consumed"
          /\ e.age = otp_challenges[c].age /\ e.attempts = otp_challenges[c].attempts
      BY <1>t, <1>e, <2>1, <3>1, <3>2 DEF OtpRow
    <3>4. /\ otpReq'[r].pc = "signin" /\ otpReq'[r].code = c
          /\ \A q \in OtpRequests \ {r} : otpReq'[q] = otpReq[q]
      BY <1>g, <1>6, <2>2 DEF Consume
    <3>5. GuessesTaken'
      BY <1>t, <2>1, <3>3, <3>4, GuessFrame DEF CodesHold, OtpAt, OtpTypeOK
    <3>6. LimitsKept'
      BY <2>2, <3>3, <3>4, LimitFrame DEF CodesHold, OtpAt, InWindow, Consumed, Consumable
    <3>7. RedeemedOnce'
      <4>1. otp_challenges[c].state = "open" /\ sessions[c] = 0
            /\ \A q \in OtpRequests : OtpAt(q, "signin") => otpReq[q].code # c /\ otpReq[q].code \in Challenges
        BY <1>t, <2>1, <2>2 DEF CodesHold, RedeemedOnce, Consumable, OtpAt, OtpAbout
      <4> QED BY <2>1, <3>3, <3>4, <4>1 DEF CodesHold, RedeemedOnce, OtpAt
    <3> QED BY <3>5, <3>6, <3>7 DEF CodesHold
  <2>3. CASE ~Consumable(c)
    BY <1>f, <1>6, <2>3, CodesFrame DEF Consume
  <2> QED BY <2>2, <2>3
<1>7. ASSUME NEW r \in OtpRequests, SignIn(r) PROVE CodesHold'
  <2> DEFINE c == otpReq[r].code
  <2>1. /\ OtpAt(r, "signin") /\ c \in Challenges /\ c \in 1 .. MaxChallenges
        /\ UNCHANGED <<otp_challenges, compared>>
        /\ sessions' = [sessions EXCEPT ![c] = @ + 1]
    BY <1>t, <1>7 DEF SignIn, OtpAt, OtpAbout
  <2>2. /\ otpReq'[r].pc = "idle"
        /\ \A q \in OtpRequests \ {r} : otpReq'[q] = otpReq[q]
    BY <1>f, <1>7 DEF SignIn
  <2>3. Challenges' = Challenges
    BY <2>1 DEF Challenges
  <2>4. GuessesTaken'
    BY <1>t, <2>1, <2>2, <2>3, GuessFrame DEF CodesHold, OtpAt, OtpTypeOK
  <2>5. LimitsKept'
    BY <2>1, <2>2, <2>3, LimitFrame DEF CodesHold, OtpAt, InWindow, Consumed
  <2>6. RedeemedOnce'
    <3>1. /\ sessions[c] = 0 /\ sessions'[c] = 1 /\ otp_challenges[c].state # "open"
          /\ \A d \in 1 .. MaxChallenges : d # c => sessions'[d] = sessions[d]
          /\ \A q \in OtpRequests \ {r} : OtpAt(q, "signin") => otpReq[q].code # c
      BY <1>t, <2>1 DEF CodesHold, RedeemedOnce, OtpTypeOK
    <3>2. \A q \in OtpRequests : OtpAt(q, "signin") => otpReq[q].code \in 1 .. MaxChallenges
      BY <1>t DEF OtpAt, OtpAbout
    <3> QED BY <2>1, <2>2, <2>3, <3>1, <3>2 DEF CodesHold, RedeemedOnce, OtpAt
  <2> QED BY <2>4, <2>5, <2>6 DEF CodesHold
<1>8. ASSUME NEW r \in OtpRequests, RequestDies(r) PROVE CodesHold'
  BY <1>f, <1>8, CodesFrame DEF RequestDies
<1>9. ASSUME NEW c \in Challenges, NEW e \in OtpRow, Edited(c, e),
             UNCHANGED <<compared, sessions, otpReq>>,
             e.key = otp_challenges[c].key, e.ip = otp_challenges[c].ip,
             e.attempts = otp_challenges[c].attempts,
             \/ e.state = otp_challenges[c].state
                  /\ (otp_challenges[c].age = "old" => e.age = "old")
             \/ e.state = "deleted"
      PROVE  CodesHold'
  <2>1. /\ Challenges' = Challenges
        /\ \A d \in Challenges : otp_challenges'[d] = IF d = c THEN e ELSE otp_challenges[d]
    BY <1>e, <1>9
  <2>2. RedeemedOnce'
    BY <1>9, <2>1, RedeemFrame DEF CodesHold
  <2>3. GuessesTaken'
    BY <1>t, <1>9, <2>1, GuessFrame DEF CodesHold, OtpTypeOK
  <2>4. LimitsKept'
    BY <1>9, <2>1, LimitFrame DEF CodesHold, InWindow, Consumed
  <2> QED BY <2>2, <2>3, <2>4 DEF CodesHold
<1>10. ASSUME NEW c \in Challenges, Undelivered(c) PROVE CodesHold'
  <2>1. PICK e \in OtpRow : e = [otp_challenges[c] EXCEPT !.state = "deleted"]
    BY <1>t DEF OtpRow
  <2>2. /\ e.key = otp_challenges[c].key /\ e.ip = otp_challenges[c].ip
        /\ e.attempts = otp_challenges[c].attempts /\ e.state = "deleted"
    BY <1>t, <2>1 DEF OtpRow
  <2> QED BY <1>9, <1>10, <2>1, <2>2, RowEdits DEF Undelivered
<1>11. ASSUME NEW c \in Challenges, Ages(c) PROVE CodesHold'
  <2>1. PICK e \in OtpRow : e = [otp_challenges[c] EXCEPT !.age = Older(otp_challenges[c].age)]
    BY <1>t DEF OtpRow, Older, Age
  <2>2. /\ e.key = otp_challenges[c].key /\ e.ip = otp_challenges[c].ip
        /\ e.attempts = otp_challenges[c].attempts /\ e.state = otp_challenges[c].state
        /\ otp_challenges[c].age # "old"
    BY <1>t, <1>11, <2>1 DEF OtpRow, Ages
  <2> QED BY <1>9, <1>11, <2>1, <2>2, RowEdits DEF Ages
<1>12. CASE UNCHANGED otpVars
  BY <1>12, CodesFrame DEF otpVars
<1> QED BY <1>1, <1>2, <1>3, <1>4, <1>5, <1>6, <1>7, <1>8, <1>10, <1>11, <1>12 DEF OtpNext

LEMMA CodesInit == OtpInit => CodesHold
<1> SUFFICES ASSUME OtpInit PROVE CodesHold
  OBVIOUS
<1>1. Challenges = {} /\ \A r \in OtpRequests : otpReq[r].pc = "idle"
  BY DEF OtpInit, Challenges, NoOtpRequest
<1>2. /\ \A c \in 1 .. MaxChallenges : Comparing(c) = {}
      /\ \A k \in Keys : OfKey(k) = {} /\ \A ip \in Ips : OfIp(ip) = {}
  BY <1>1 DEF Comparing, OtpAt, OfKey, OfIp
<1>3. RedeemedOnce
  BY <1>1 DEF OtpInit, RedeemedOnce, OtpAt
<1>4. GuessesTaken
  BY <1>1, <1>2, FS_EmptySet DEF OtpInit, GuessesTaken
<1>5. /\ \A k \in Keys : Cardinality(OfKey(k)) = 0
      /\ \A ip \in Ips : Cardinality(OfIp(ip)) = 0
  BY <1>1, FS_EmptySet DEF OfKey, OfIp
<1>6. LimitsKept
  BY <1>1, <1>5, OtpAssumption DEF LimitsKept, OtpAt
<1> QED BY <1>3, <1>4, <1>6 DEF CodesHold

\* Every reachable state is of the declared types.
THEOREM OtpTypes == OtpSpec => []OtpTypeOK
<1>1. OtpTyped => OtpTypeOK
  BY DEF OtpTyped
<1> QED BY <1>1, OtpInitTyped, OtpTypeStep, PTL DEF OtpSpec

\* A code leads to one session, is compared with at most as many guesses as were
\* taken, and no more codes are made than the limits of a key and a connection admit,
\* however many requests arrive at once.
THEOREM CodesStayLimited == OtpSpec => []CodesLimited
<1>1. OtpTyped /\ CodesHold => CodesLimited
  <2> SUFFICES ASSUME OtpTyped, CodesHold PROVE CodesLimited
    OBVIOUS
  <2>1. OneSessionPerCode
    BY OtpFields DEF CodesHold, RedeemedOnce, OneSessionPerCode
  <2>2. ASSUME NEW c \in Challenges PROVE compared[c] <= MaxAttempts
    <3>1. c \in 1 .. MaxChallenges /\ otp_challenges[c].attempts \in 0 .. MaxAttempts
      BY OtpFields DEF OtpRow
    <3>2. IsFiniteSet(Comparing(c)) /\ compared[c] + Cardinality(Comparing(c)) <= otp_challenges[c].attempts
      BY <3>1 DEF CodesHold, GuessesTaken
    <3>3. Cardinality(Comparing(c)) \in Nat /\ compared[c] \in Nat
      BY <3>1, <3>2, FS_CardinalityType DEF OtpTyped, OtpTypeOK
    <3> QED BY <3>1, <3>2, <3>3, OtpAssumption
  <2>3. CodesCapped
    BY <2>2 DEF CodesHold, LimitsKept, CodesCapped
  <2> QED BY <2>1, <2>3 DEF CodesLimited
<1> QED BY <1>1, OtpInitTyped, OtpTypeStep, CodesInit, CodesStep, PTL DEF OtpSpec

-----------------------------------------------------------------------------
(* The phone's session *)

USE DEF store, handler, doubts

PhonePcs == Holding \cup {"idle", "read", "queued", "verdict", "ending"}
CallRecord == [pc : PhonePcs, presented : Tokens \cup {NoToken}, started : Nat, answer : Tokens \cup {NoToken}]

PhoneTyped == PhoneTypeOK /\ call \in [Callers -> CallRecord]

\* A token the server knows; one whose presentation would accuse nobody.
Issued(t) == t \in Tokens /\ srv.family[t] \in Tokens
Good(t) == t \in srv.live \cup srv.ended \/ srv.family[t] \in unsure \cup overwritten

\* A refresh presents a token that was issued, and holds the lock alone.
CallsWhole ==
    /\ \A c \in Callers : IF call[c].pc \in Carrying THEN Issued(call[c].presented) ELSE call[c].presented = NoToken
    /\ \A c, d \in Callers : call[c].pc \in Holding /\ call[d].pc \in Holding => c = d

DownIsIdle == ~up => mem = NoToken /\ main = "idle" /\ \A c \in Callers : call[c] = NoCall

TokensIssued ==
    /\ mem # NoToken => Issued(mem)
    /\ disk # NoToken => Issued(disk)
    /\ file # NoToken => Issued(file)
    /\ main = "store" => Issued(held)
    /\ \A t \in strays : Issued(t) /\ srv.family[t] \in unsure
    /\ \A t \in srv.live : Issued(t)
    /\ \A c \in Callers : call[c].pc \in {"granted", "writing"} => Issued(call[c].answer)

\* While the memory holds what a refresh presents, no sign-out has come between.
SameGeneration ==
    \A c \in Callers :
        call[c].pc \in {"queued", "air", "granted"} /\ mem = call[c].presented => gen = call[c].started

\* An answer not yet adopted is known to nobody else.
AnswersFresh ==
    \A c \in Callers : call[c].pc = "granted" =>
        /\ Good(call[c].answer) /\ mem # call[c].answer
        /\ \A d \in Callers : call[d].presented # call[c].answer

AskedGood ==
    /\ \A c \in Callers : call[c].pc = "air" => Good(call[c].presented)
    /\ \A c \in Callers : call[c].pc = "writing" => Good(call[c].answer)

\* What the memory holds is good, or its successor is about to be adopted.
MemGood ==
    mem # NoToken =>
        Good(mem) \/ \E c \in Callers : call[c].pc = "granted" /\ call[c].presented = mem

\* What the disk holds is good, or somebody is about to write or to wipe it.
ToWipe == main = "wipe" \/ \E c \in Callers : call[c].pc \in {"wiping", "ending"}
ToPersist == (mem # NoToken /\ main = "persist") \/ main = "store"
DiskGood ==
    disk # NoToken =>
        \/ Good(disk)
        \/ \E c \in Callers : call[c].pc = "granted" /\ call[c].presented = mem /\ srv.family[mem] = srv.family[disk]
        \/ mem # NoToken /\ \E c \in Callers : call[c].pc = "adopted"
        \/ \E c \in Callers : call[c].pc = "writing"
        \/ ToPersist \/ ToWipe
DiskAsked ==
    \A c \in Callers : call[c].pc = "air" /\ disk = call[c].presented =>
        mem = disk \/ srv.family[disk] \in overwritten \/ ToPersist \/ ToWipe

\* From the clearing to the wiping nobody fills the memory, and afterwards neither.
OutHolds ==
    /\ out = "leaving" => mem = NoToken /\ main = "wipe"
    /\ out = "out" => mem = NoToken /\ disk = NoToken
    /\ main \in {"persist", "store"} => out = "in"

PhoneKept ==
    /\ PhoneTyped /\ CallsWhole /\ DownIsIdle /\ TokensIssued
    /\ SameGeneration /\ AnswersFresh /\ AskedGood
    /\ MemGood /\ DiskGood /\ DiskAsked /\ OutHolds /\ NoFalseTheft

\* The three parts that the steps are examined for.
Order == CallsWhole /\ DownIsIdle /\ TokensIssued /\ OutHolds /\ NoFalseTheft
Asked == SameGeneration /\ AnswersFresh /\ AskedGood
Stored == MemGood /\ DiskGood /\ DiskAsked

LEMMA PhoneParts == PhoneKept <=> PhoneTyped /\ Order /\ Asked /\ Stored
BY DEF PhoneKept, Order, Asked, Stored

LEMMA PhonePartsNext == PhoneTyped' /\ Order' /\ Asked' /\ Stored' => PhoneKept'
BY DEF PhoneKept, Order, Asked, Stored

LEMMA TokensAre == NoToken \notin Tokens /\ MaxTokens \in Nat /\ NoToken = 0
BY RefreshTokensAssumption DEF NoToken, Tokens

LEMMA NoCallIs == NoCall \in CallRecord /\ NoCall.pc = "idle" /\ NoCall.presented = NoToken
BY DEF NoCall, CallRecord, PhonePcs

\* CallTo ends a refresh or moves it on.
LEMMA CallMoves ==
    ASSUME PhoneTyped, NEW c \in Callers, NEW pc \in PhonePcs, CallTo(c, pc)
    PROVE  /\ call' \in [Callers -> CallRecord]
           /\ \A d \in Callers \ {c} : call'[d] = call[d]
           /\ call'[c].pc = pc
           /\ pc = "idle" => call'[c] = NoCall
           /\ IF pc \in Carrying
              THEN /\ call'[c].presented = call[c].presented /\ call'[c].started = call[c].started
                   /\ call'[c].answer = call[c].answer
              ELSE call'[c].presented = NoToken
<1>1. call \in [Callers -> CallRecord] /\ call[c] \in CallRecord
  BY DEF PhoneTyped
<1>2. PICK q \in CallRecord : q = [(IF pc \in Carrying THEN call[c] ELSE NoCall) EXCEPT !.pc = pc]
  BY <1>1, NoCallIs DEF CallRecord
<1>3. call' = [call EXCEPT ![c] = q]
  BY <1>1, <1>2 DEF CallTo
<1>4. q.pc = pc /\ (pc = "idle" => q = NoCall)
  BY <1>1, <1>2, NoCallIs DEF CallRecord, NoCall, Carrying
<1>5. CASE pc \in Carrying
  <2>1. q.presented = call[c].presented /\ q.started = call[c].started /\ q.answer = call[c].answer
    BY <1>1, <1>2, <1>5 DEF CallRecord
  <2> QED BY <1>1, <1>3, <1>4, <1>5, <2>1
<1>6. CASE pc \notin Carrying
  <2>1. q.presented = NoToken
    BY <1>2, <1>6, NoCallIs DEF CallRecord, NoCall
  <2> QED BY <1>1, <1>3, <1>4, <1>6, <2>1
<1> QED BY <1>5, <1>6

LEMMA CallTyped ==
    ASSUME PhoneTyped, call' \in [Callers -> CallRecord], srv' \in Servers,
           mem' \in Tokens \cup {NoToken}, disk' \in Tokens \cup {NoToken}, gen' \in Nat, up' \in BOOLEAN,
           file' \in Tokens \cup {NoToken}, held' \in Tokens \cup {NoToken},
           check' \in BOOLEAN, main' \in {"idle", "persist", "store", "wipe"}, strays' \subseteq Tokens, byes' \subseteq Tokens,
           out' \in {"in", "leaving", "out", "undone"}, unsure' \subseteq Tokens,
           overwritten' \subseteq Tokens, phoneFaults' \in Nat
    PROVE  PhoneTyped'
BY DEF PhoneTyped, PhoneTypeOK, CallRecord, PhonePcs

LEMMA Same ==
    ASSUME UNCHANGED <<srv, doubts>>
    PROVE  \A t : (Good(t)' <=> Good(t)) /\ (Issued(t)' <=> Issued(t))
BY DEF Good, Issued

phoneRest == <<srv, mem, gen, store, up, handler, strays, byes, out, doubts, phoneFaults>>

LEMMA RestTyped ==
    ASSUME PhoneTyped, UNCHANGED phoneRest, call' \in [Callers -> CallRecord], check' \in BOOLEAN
    PROVE  PhoneTyped'
BY DEF PhoneTyped, PhoneTypeOK, CallRecord, PhonePcs, phoneRest

\* A refresh that holds nothing anybody relies on ends, or becomes the verdict.
LEMMA CallGivesUp ==
    ASSUME PhoneKept, NEW c \in Callers, UNCHANGED <<phoneRest, check>>,
           call[c].pc \in {"queued", "granted", "refused", "adopted"},
           call[c].pc = "granted" => mem # call[c].presented,
           call[c].pc = "adopted" => mem = NoToken,
           CallTo(c, "idle") \/ CallTo(c, "verdict")
    PROVE  PhoneKept'
<1> USE PhoneParts, TokensAre, NoCallIs
<1>1. /\ call' \in [Callers -> CallRecord]
      /\ \A d \in Callers \ {c} : call'[d] = call[d]
      /\ \/ call'[c] = NoCall
         \/ call'[c].pc = "verdict" /\ call'[c].presented = NoToken
  BY CallMoves DEF PhonePcs, Carrying
<1>2. UNCHANGED <<srv, mem, gen, store, up, handler, strays, out, doubts>>
  BY DEF phoneRest
<1>3. check \in BOOLEAN /\ PhoneTyped'
  BY <1>1, RestTyped DEF PhoneTyped, PhoneTypeOK
<1>4. \A t : (Good(t)' <=> Good(t)) /\ (Issued(t)' <=> Issued(t))
  BY <1>2, Same
<1>5. Order'
  BY <1>1, <1>2, <1>4 DEF Order, CallsWhole, Carrying, DownIsIdle, TokensIssued, OutHolds, NoFalseTheft, Holding
<1>6. Asked'
  BY <1>1, <1>2, <1>4 DEF Asked, SameGeneration, AnswersFresh, AskedGood, TokensIssued, Order, Issued
<1>7. Stored'
  BY <1>1, <1>2, <1>4 DEF Stored, MemGood, DiskGood, DiskAsked, ToWipe, ToPersist
<1> QED BY <1>3, <1>5, <1>6, <1>7, PhonePartsNext

LEMMA ReadSteps ==
    ASSUME PhoneKept, NEW c \in Callers, ReadPresented(c) \/ ReadGeneration(c)
    PROVE  PhoneKept'
<1> USE PhoneParts, TokensAre, NoCallIs
<1>0. mem # NoToken => Issued(mem)
  BY DEF Order, TokensIssued
<1>1. /\ call' \in [Callers -> CallRecord]
      /\ \A d \in Callers \ {c} : call'[d] = call[d]
      /\ \/ call[c].pc = "idle" /\ call'[c].pc = "read" /\ call'[c].presented = mem /\ mem # NoToken /\ up
         \/ /\ call[c].pc = "read" /\ call'[c].pc = "queued" /\ call'[c].presented = call[c].presented
            /\ call'[c].started = gen
  <2>1. call \in [Callers -> CallRecord] /\ gen \in Nat /\ mem \in Tokens \cup {NoToken}
    BY DEF PhoneTyped, PhoneTypeOK
  <2>2. CASE ReadPresented(c)
    <3>1. PICK q \in CallRecord : q = [NoCall EXCEPT !.pc = "read", !.presented = mem]
      BY <2>1 DEF NoCall, CallRecord, PhonePcs
    <3>2. q.pc = "read" /\ q.presented = mem
      BY <3>1 DEF NoCall, CallRecord
    <3>3. call' = [call EXCEPT ![c] = q] /\ call[c].pc = "idle" /\ mem # NoToken /\ up
      BY <2>2, <3>1 DEF ReadPresented, CallAt
    <3> QED BY <2>1, <3>2, <3>3
  <2>3. CASE ReadGeneration(c)
    <3>1. PICK q \in CallRecord : q = [call[c] EXCEPT !.pc = "queued", !.started = gen]
      BY <2>1 DEF CallRecord, PhonePcs
    <3>2. q.pc = "queued" /\ q.presented = call[c].presented /\ q.started = gen
      BY <2>1, <3>1 DEF CallRecord
    <3>3. call' = [call EXCEPT ![c] = q] /\ call[c].pc = "read"
      BY <2>1, <2>3, <3>1 DEF ReadGeneration, CallAt
    <3> QED BY <2>1, <3>2, <3>3
  <2> QED BY <2>2, <2>3
<1>2. UNCHANGED phoneRest /\ UNCHANGED <<srv, mem, gen, store, up, handler, strays, out, doubts>>
  BY DEF ReadPresented, ReadGeneration, phoneRest
<1>3. check' \in BOOLEAN
  BY DEF ReadPresented, ReadGeneration, PhoneTyped, PhoneTypeOK
<1>4. \A t : (Good(t)' <=> Good(t)) /\ (Issued(t)' <=> Issued(t))
  BY <1>2, Same
<1>5. Order'
  BY <1>0, <1>1, <1>2, <1>4 DEF Order, CallsWhole, Carrying, DownIsIdle, TokensIssued, OutHolds, NoFalseTheft, Holding
<1>6. Asked'
  BY <1>1, <1>2, <1>4 DEF Asked, SameGeneration, AnswersFresh, AskedGood
<1>7. Stored'
  BY <1>1, <1>2, <1>4 DEF Stored, MemGood, DiskGood, DiskAsked, ToWipe, ToPersist
<1> QED BY <1>1, <1>2, <1>3, <1>5, <1>6, <1>7, RestTyped, PhonePartsNext

LEMMA TakeLockStep ==
    ASSUME PhoneKept, NEW c \in Callers, TakeLock(c)
    PROVE  PhoneKept'
<1> USE PhoneParts, TokensAre, NoCallIs
<1>0. /\ call[c].pc = "queued" /\ Free
      /\ UNCHANGED <<phoneRest, check>>
  BY DEF TakeLock, CallAt, phoneRest
<1>1. CASE CallTo(c, "idle") \/ CallTo(c, "verdict")
  BY <1>0, <1>1, CallGivesUp
<1>2. CASE ~(CallTo(c, "idle") \/ CallTo(c, "verdict"))
  <2>1. CallTo(c, "air") /\ gen = call[c].started /\ mem = call[c].presented
    BY <1>2 DEF TakeLock, GaveNothing
  <2>2. /\ call' \in [Callers -> CallRecord]
        /\ \A d \in Callers \ {c} : call'[d] = call[d]
        /\ call'[c].pc = "air" /\ call'[c].presented = mem /\ call'[c].started = gen
    BY <2>1, CallMoves DEF PhonePcs, Holding, Carrying
  <2>3. UNCHANGED <<srv, mem, gen, store, up, handler, strays, out, doubts>>
    BY <1>0 DEF phoneRest
  <2>4. check' \in BOOLEAN
    BY <1>0 DEF PhoneTyped, PhoneTypeOK
  <2>5. \A t : (Good(t)' <=> Good(t)) /\ (Issued(t)' <=> Issued(t))
    BY <2>3, Same
  <2>6. \A d \in Callers : call[d].pc \notin Holding
    BY <1>0 DEF Free
  <2>7. Issued(mem) /\ mem # NoToken
    BY <1>0, <2>1 DEF Order, CallsWhole, Carrying, Issued
  <2>8. Good(mem)
    BY <2>6, <2>7 DEF Stored, MemGood, Holding
  <2>9. Order'
    BY <1>0, <2>2, <2>3, <2>5, <2>6, <2>7 DEF Order, CallsWhole, Carrying, DownIsIdle, TokensIssued, OutHolds, NoFalseTheft, Holding
  <2>10. Asked'
    BY <2>2, <2>3, <2>5, <2>8, <1>0, <2>1 DEF Asked, SameGeneration, AnswersFresh, AskedGood
  <2>11. Stored'
    BY <1>0, <2>2, <2>3, <2>5 DEF Stored, MemGood, DiskGood, DiskAsked, ToWipe, ToPersist
  <2> QED BY <1>0, <2>2, <2>4, <2>9, <2>10, <2>11, RestTyped, PhonePartsNext
<1> QED BY <1>1, <1>2

LEMMA AdoptStep ==
    ASSUME PhoneKept, NEW c \in Callers, Adopt(c)
    PROVE  PhoneKept'
<1> USE PhoneParts, TokensAre, NoCallIs
<1>0. /\ call[c].pc = "granted"
      /\ UNCHANGED <<srv, gen, store, up, check, handler, strays, byes, out, doubts, phoneFaults>>
  BY DEF Adopt, CallAt
<1>1. CASE ~MayAdopt(c)
  <2>1. mem # call[c].presented
    BY <1>0, <1>1 DEF MayAdopt, Asked, SameGeneration
  <2>2. GaveNothing(c) /\ UNCHANGED <<phoneRest, check>>
    BY <1>0, <1>1 DEF Adopt, phoneRest
  <2> QED BY <1>0, <2>1, <2>2, CallGivesUp DEF GaveNothing
<1>2. CASE MayAdopt(c)
  <2>1. mem' = call[c].answer /\ CallTo(c, "adopted") /\ mem = call[c].presented
    BY <1>2 DEF Adopt, MayAdopt
  <2>2. /\ call' \in [Callers -> CallRecord]
        /\ \A d \in Callers \ {c} : call'[d] = call[d]
        /\ call'[c].pc = "adopted" /\ call'[c].presented = NoToken
    BY <2>1, CallMoves DEF PhonePcs, Holding, Carrying
  <2>3. \A t : (Good(t)' <=> Good(t)) /\ (Issued(t)' <=> Issued(t))
    BY <1>0, Same
  <2>4. /\ Issued(call[c].answer) /\ Good(call[c].answer) /\ call[c].answer # NoToken /\ call[c].answer \in Tokens
        /\ \A d \in Callers : call[d].presented # call[c].answer
    BY <1>0 DEF Order, TokensIssued, Asked, AnswersFresh, Issued
  <2>5. \A d \in Callers \ {c} : call[d].pc \notin Holding
    BY <1>0 DEF Order, CallsWhole, Carrying, Holding
  <2>6. Issued(mem) /\ mem # NoToken /\ up /\ out # "leaving" /\ out # "out"
    BY <1>0, <2>1 DEF Order, CallsWhole, Carrying, DownIsIdle, OutHolds, Issued
  <2>7. PhoneTyped'
    BY <1>0, <2>1, <2>2, <2>4, CallTyped DEF PhoneTyped, PhoneTypeOK
  <2>8. Order'
    BY <1>0, <2>1, <2>2, <2>3, <2>4, <2>5, <2>6 DEF Order, CallsWhole, Carrying, DownIsIdle, TokensIssued, OutHolds, NoFalseTheft, Holding
  <2>9. Asked'
    BY <1>0, <2>1, <2>2, <2>3, <2>4, <2>5 DEF Asked, SameGeneration, AnswersFresh, AskedGood, Holding
  <2>10. Stored'
    BY <1>0, <2>1, <2>2, <2>3, <2>4, <2>5 DEF Stored, MemGood, DiskGood, DiskAsked, ToWipe, ToPersist, Holding
  <2> QED BY <2>7, <2>8, <2>9, <2>10, PhonePartsNext
<1> QED BY <1>1, <1>2

-----------------------------------------------------------------------------
(* The server's steps *)

\* What was issued stays so, in its family, and what accuses nobody goes on not to.
Keeps(u) ==
    Issued(u) => Issued(u)' /\ srv'.family[u] = srv.family[u] /\ (Good(u) => Good(u)')

LEMMA Rotated ==
    ASSUME srv \in Servers, NEW t \in srv.live, Issued(t), NEW n \in Issuable(srv),
           srv' = Refreshed(srv, t, n), UNCHANGED doubts, \A u \in srv.live : Issued(u)
    PROVE  /\ srv' \in Servers
           /\ n \in Tokens /\ ~Issued(n) /\ Issued(n)' /\ srv'.family[n] = srv.family[t] /\ Good(n)'
           /\ \A u : u # t => Keeps(u)
           /\ Issued(t)' /\ srv'.family[t] = srv.family[t]
           /\ \A u \in srv'.live : Issued(u)'
           /\ srv'.burnt = srv.burnt
<1>1. n \in Tokens /\ srv.family[n] = NoToken
  BY DEF Issuable
<1>2. srv' = [srv EXCEPT !.family[n] = srv.family[t], !.live = (srv.live \ {t}) \cup {n}]
  BY DEF Refreshed, Servers
<1>3. /\ srv'.family = [srv.family EXCEPT ![n] = srv.family[t]]
      /\ srv'.live = (srv.live \ {t}) \cup {n} /\ srv'.ended = srv.ended /\ srv'.burnt = srv.burnt
  BY <1>2 DEF Servers
<1>4. /\ srv.family \in [Tokens -> {NoToken} \cup Tokens] /\ srv.live \subseteq Tokens
      /\ srv'.family \in [Tokens -> {NoToken} \cup Tokens] /\ t \in Tokens
      /\ \A u \in Tokens \ {n} : srv'.family[u] = srv.family[u]
      /\ srv'.family[n] = srv.family[t]
  BY <1>1, <1>3 DEF Servers, Issued
<1>5. srv' \in Servers
  <2>1. srv'.live \in SUBSET Tokens
    BY <1>1, <1>3, <1>4
  <2> QED BY <1>2, <1>4, <2>1 DEF Servers
<1>6. n \in Tokens /\ ~Issued(n) /\ Issued(n)' /\ srv'.family[n] = srv.family[t] /\ Good(n)'
  BY <1>1, <1>3, <1>4, TokensAre DEF Issued, Good
<1>7. ASSUME NEW u, u # t PROVE Keeps(u)
  BY <1>1, <1>3, <1>4, <1>7, TokensAre DEF Keeps, Issued, Good
<1>8. Issued(t)' /\ srv'.family[t] = srv.family[t]
  BY <1>1, <1>4, TokensAre DEF Issued
<1>9. \A u \in srv'.live : Issued(u)'
  BY <1>3, <1>4, <1>6 DEF Issued
<1> QED BY <1>3, <1>5, <1>6, <1>7, <1>8, <1>9

LEMMA RefusedOrBurnt ==
    ASSUME srv \in Servers, NEW t \in Tokens, t \notin srv.live, Issued(t), Good(t),
           srv' = Refreshed(srv, t, NoToken), UNCHANGED doubts, \A u \in srv.live : Issued(u)
    PROVE  /\ srv' \in Servers
           /\ \A u : Keeps(u)
           /\ \A u \in srv'.live : Issued(u)'
           /\ srv'.burnt \subseteq srv.burnt \cup unsure \cup overwritten
<1>1. CASE t \in srv.ended
  <2>1. srv' = srv
    BY <1>1 DEF Refreshed
  <2> QED BY <2>1 DEF Keeps, Issued, Good
<1>2. CASE t \notin srv.ended
  <2>1. srv.family[t] \in unsure \cup overwritten /\ srv.family[t] \in Tokens
    BY <1>2 DEF Good, Issued
  <2>2. srv' = [srv EXCEPT !.live = srv.live \ OfFamily(srv, srv.family[t]), !.burnt = srv.burnt \cup {srv.family[t]}]
    BY <1>2 DEF Refreshed, Servers
  <2>3. /\ srv'.family = srv.family /\ srv'.live = srv.live \ OfFamily(srv, srv.family[t])
        /\ srv'.ended = srv.ended /\ srv'.burnt = srv.burnt \cup {srv.family[t]}
    BY <2>2 DEF Servers
  <2>4. srv' \in Servers
    <3>1. srv.live \ OfFamily(srv, srv.family[t]) \in SUBSET Tokens /\ srv.burnt \cup {srv.family[t]} \in SUBSET Tokens
      BY <2>1 DEF Servers
    <3> QED BY <2>2, <3>1 DEF Servers
  <2>5. ASSUME NEW u PROVE Keeps(u)
    BY <2>1, <2>3 DEF Keeps, Issued, Good, OfFamily
  <2>6. \A u \in srv'.live : Issued(u)'
    BY <2>3 DEF Issued
  <2> QED BY <2>1, <2>3, <2>4, <2>5, <2>6
<1> QED BY <1>1, <1>2

LEMMA ByeEffect ==
    ASSUME srv \in Servers, NEW f \in Tokens, NEW young \in BOOLEAN, srv' = SignedOut(srv, f, young),
           UNCHANGED doubts, \A u \in srv.live : Issued(u)
    PROVE  /\ srv' \in Servers
           /\ \A u : Keeps(u)
           /\ \A u \in srv'.live : Issued(u)'
           /\ srv'.burnt = srv.burnt
<1>1. PICK theirs \in SUBSET OfFamily(srv, f) :
          /\ OfFamily(srv, f) \cap srv.live \subseteq theirs
          /\ srv' = [srv EXCEPT !.live = srv.live \ OfFamily(srv, f), !.ended = srv.ended \cup theirs]
  <2>1. CASE young
    BY <2>1 DEF SignedOut, Servers
  <2>2. CASE ~young
    BY <2>2 DEF SignedOut, Servers
  <2> QED BY <2>1, <2>2
<1>2. /\ srv'.family = srv.family /\ srv'.live = srv.live \ OfFamily(srv, f)
      /\ srv'.ended = srv.ended \cup theirs /\ srv'.burnt = srv.burnt
  BY <1>1 DEF Servers
<1>3. OfFamily(srv, f) \subseteq Tokens
  BY DEF OfFamily
<1>4. srv' \in Servers
  <2>1. srv.live \ OfFamily(srv, f) \in SUBSET Tokens /\ srv.ended \cup theirs \in SUBSET Tokens
    BY <1>1, <1>3 DEF Servers
  <2> QED BY <1>1, <2>1 DEF Servers
<1>5. ASSUME NEW u PROVE Keeps(u)
  BY <1>1, <1>2 DEF Keeps, Issued, Good, OfFamily
<1>6. \A u \in srv'.live : Issued(u)'
  BY <1>2 DEF Issued
<1> QED BY <1>2, <1>4, <1>5, <1>6

\* A step of the server alone, which makes nothing accuse anybody.
LEMMA ServerAlone ==
    ASSUME PhoneKept, srv' \in Servers, \A u : Keeps(u), \A u \in srv'.live : Issued(u)',
           srv'.burnt \subseteq srv.burnt \cup unsure \cup overwritten, strays' \subseteq strays, byes' \subseteq Tokens,
           UNCHANGED <<mem, gen, store, up, check, call, handler, out, doubts, phoneFaults>>
    PROVE  PhoneKept'
<1> USE PhoneParts, TokensAre, NoCallIs
<1>1. PhoneTyped'
  BY DEF PhoneTyped, PhoneTypeOK
<1>2. Order'
  BY DEF Order, CallsWhole, Carrying, DownIsIdle, TokensIssued, OutHolds, NoFalseTheft, Keeps
<1>3. Asked'
  <2>1. \A c \in Callers : call[c].pc \in {"granted", "writing"} => Issued(call[c].answer)
    BY DEF Order, TokensIssued
  <2>2. \A c \in Callers : call[c].pc = "air" => Issued(call[c].presented)
    BY DEF Order, CallsWhole, Carrying
  <2> QED BY <2>1, <2>2 DEF Asked, SameGeneration, AnswersFresh, AskedGood, Keeps
<1>4. Stored'
  <2>1. (mem # NoToken => Issued(mem)) /\ (disk # NoToken => Issued(disk))
    BY DEF Order, TokensIssued
  <2>2. MemGood'
    BY <2>1 DEF Stored, MemGood, Keeps
  <2>3. \A c \in Callers : call[c].pc = "granted" => Issued(call[c].presented)
    BY DEF Order, CallsWhole, Carrying
  <2>4. DiskGood'
    BY <2>1, <2>3 DEF Stored, DiskGood, ToWipe, ToPersist, Keeps
  <2>5. DiskAsked'
    <3>1. disk \in Tokens => srv'.family[disk] = srv.family[disk]
      BY <2>1 DEF Keeps
    <3>2. \A c \in Callers : call[c].pc = "air" => call[c].presented \in Tokens
      BY DEF Order, CallsWhole, Carrying, Issued
    <3> QED BY <3>1, <3>2 DEF Stored, DiskAsked, ToWipe, ToPersist
  <2> QED BY <2>2, <2>4, <2>5 DEF Stored
<1> QED BY <1>1, <1>2, <1>3, <1>4, PhonePartsNext

LEMMA WireSteps ==
    ASSUME PhoneKept, NEW t \in Tokens, StrayRefresh(t) \/ ByeArrives(t)
    PROVE  PhoneKept'
<1> USE PhoneParts, TokensAre
<1>0. /\ srv \in Servers /\ strays \subseteq Tokens /\ byes \subseteq Tokens
      /\ \A u \in srv.live : Issued(u)
      /\ t \in strays => Issued(t) /\ srv.family[t] \in unsure
  BY DEF PhoneTyped, PhoneTypeOK, Order, TokensIssued
<1>1. CASE StrayRefresh(t)
  <2>1. /\ t \in strays /\ strays' = strays \ {t} /\ Issued(t) /\ Good(t) /\ byes' = byes
        /\ UNCHANGED <<mem, gen, store, up, check, call, handler, out, doubts, phoneFaults>>
    BY <1>0, <1>1 DEF StrayRefresh, Good
  <2>2. CASE t \in srv.live
    <3>1. PICK n \in Issuable(srv) : srv' = Refreshed(srv, t, n)
      BY <1>1, <2>2 DEF StrayRefresh
    <3>2. /\ srv' \in Servers /\ (\A u : u # t => Keeps(u)) /\ (\A u \in srv'.live : Issued(u)')
          /\ Issued(t)' /\ srv'.family[t] = srv.family[t] /\ srv'.burnt = srv.burnt
      BY <1>0, <2>1, <2>2, <3>1, Rotated
    <3>3. Keeps(t)
      BY <1>0, <2>1, <3>2 DEF Keeps, Good
    <3>4. \A u : Keeps(u)
      BY <3>2, <3>3
    <3> QED BY <1>0, <2>1, <3>2, <3>4, ServerAlone
  <2>3. CASE t \notin srv.live
    <3>1. srv' = Refreshed(srv, t, NoToken)
      BY <1>1, <2>3 DEF StrayRefresh
    <3>2. srv' \in Servers /\ (\A u : Keeps(u)) /\ (\A u \in srv'.live : Issued(u)') /\ srv'.burnt \subseteq srv.burnt \cup unsure \cup overwritten
      BY <1>0, <2>1, <2>3, <3>1, RefusedOrBurnt
    <3> QED BY <1>0, <2>1, <3>2, ServerAlone
  <2> QED BY <2>2, <2>3
<1>2. CASE ByeArrives(t)
  <2>1. PICK young \in BOOLEAN : srv' = SignedOut(srv, t, young)
    BY <1>2 DEF ByeArrives
  <2>2. /\ byes' \subseteq Tokens /\ strays' \subseteq strays
        /\ UNCHANGED <<mem, gen, store, up, check, call, handler, out, doubts, phoneFaults>>
    BY <1>0, <1>2 DEF ByeArrives
  <2>3. srv' \in Servers /\ (\A u : Keeps(u)) /\ (\A u \in srv'.live : Issued(u)') /\ srv'.burnt = srv.burnt
    BY <1>0, <2>1, <2>2, ByeEffect
  <2> QED BY <2>2, <2>3, ServerAlone
<1> QED BY <1>1, <1>2

LEMMA ServerAnswersStep ==
    ASSUME PhoneKept, NEW c \in Callers, ServerAnswers(c)
    PROVE  PhoneKept'
<1> USE PhoneParts, TokensAre, NoCallIs
<1>t. PICK t \in Tokens : t = call[c].presented
  BY DEF ServerAnswers, CallAt, Order, CallsWhole, Carrying, Issued
<1>0. /\ call[c].pc = "air" /\ Issued(t) /\ Good(t)
      /\ UNCHANGED <<mem, gen, store, up, check, handler, strays, byes, out, doubts, phoneFaults>>
  BY <1>t DEF ServerAnswers, CallAt, Order, CallsWhole, Carrying, Asked, AskedGood
<1>1. /\ srv \in Servers /\ call \in [Callers -> CallRecord]
      /\ \A u \in srv.live : Issued(u)
      /\ (mem # NoToken => Issued(mem)) /\ (disk # NoToken => Issued(disk))
      /\ \A d \in Callers : call[d].pc \in Carrying => Issued(call[d].presented)
      /\ \A d \in Callers : call[d].pc \notin Carrying => call[d].presented = NoToken
  BY DEF PhoneTyped, PhoneTypeOK, Order, TokensIssued, CallsWhole, Carrying
<1>2. \A d \in Callers \ {c} : call[d].pc \notin Holding
  BY <1>0 DEF Order, CallsWhole, Carrying, Holding
<1>3. up /\ \A d \in Callers : call[d].presented # NoToken => call[d].presented \in Tokens
  BY <1>0, <1>1 DEF Order, DownIsIdle, Issued
<1>4. CASE t \in srv.live
  <2>1. PICK n \in Issuable(srv) :
          srv' = Refreshed(srv, t, n) /\ call' = [call EXCEPT ![c].pc = "granted", ![c].answer = n]
    BY <1>4, <1>t DEF ServerAnswers
  <2>2. /\ srv' \in Servers /\ n \in Tokens /\ ~Issued(n) /\ Issued(n)' /\ Good(n)'
        /\ \A u : u # t => Keeps(u)
        /\ Issued(t)' /\ srv'.family[t] = srv.family[t]
        /\ \A u \in srv'.live : Issued(u)'
        /\ srv'.burnt = srv.burnt
    BY <1>0, <1>1, <1>4, <2>1, Rotated
  <2>3. /\ call' \in [Callers -> CallRecord]
        /\ \A d \in Callers \ {c} : call'[d] = call[d]
        /\ call'[c].pc = "granted" /\ call'[c].presented = t /\ call'[c].started = call[c].started /\ call'[c].answer = n
    <3>1. PICK q \in CallRecord : q = [call[c] EXCEPT !.pc = "granted", !.answer = n]
      BY <1>1, <2>2 DEF CallRecord, PhonePcs, Holding
    <3>2. q.pc = "granted" /\ q.presented = t /\ q.started = call[c].started /\ q.answer = n
      BY <1>1, <3>1, <1>t DEF CallRecord
    <3>3. call' = [call EXCEPT ![c] = q]
      BY <1>1, <2>1, <3>1
    <3> QED BY <1>1, <3>2, <3>3
  <2>4. \A u : Issued(u) => Issued(u)' /\ srv'.family[u] = srv.family[u]
    BY <2>2 DEF Keeps
  <2>5. PhoneTyped'
    BY <1>0, <2>2, <2>3, CallTyped DEF PhoneTyped, PhoneTypeOK
  <2>6. Order'
    BY <1>0, <1>2, <1>3, <2>2, <2>3, <2>4 DEF Order, CallsWhole, Carrying, DownIsIdle, TokensIssued, OutHolds, NoFalseTheft, Holding
  <2>7. Asked'
    <3>1. mem # n /\ \A d \in Callers : call'[d].presented # n
      BY <1>0, <1>1, <2>2, <2>3, <1>t DEF Issued
    <3>2. SameGeneration'
      BY <1>0, <1>t, <2>3 DEF Asked, SameGeneration
    <3>3. AnswersFresh'
      BY <1>0, <1>2, <2>2, <2>3, <3>1 DEF AnswersFresh, Holding
    <3>4. AskedGood'
      BY <1>2, <2>3 DEF AskedGood, Holding
    <3> QED BY <3>2, <3>3, <3>4 DEF Asked
  <2>8. MemGood'
    BY <1>0, <1>1, <1>2, <2>2, <2>3 DEF Stored, MemGood, Holding, Keeps
  <2>9. DiskGood'
    <3>1. CASE disk = t
      <4>1. mem = disk \/ srv.family[disk] \in overwritten \/ ToPersist \/ ToWipe
        BY <1>0, <3>1, <1>t DEF Stored, DiskAsked
      <4>2. ToPersist' <=> ToPersist
        BY <1>0 DEF ToPersist
      <4>3. ToWipe => ToWipe'
        BY <1>0, <2>3 DEF ToWipe
      <4>4. CASE mem = disk
        BY <1>0, <2>3, <3>1, <4>4 DEF DiskGood
      <4>5. CASE srv.family[disk] \in overwritten
        BY <1>0, <2>2, <3>1, <4>5 DEF DiskGood, Good
      <4> QED BY <4>1, <4>2, <4>3, <4>4, <4>5 DEF DiskGood
    <3>2. CASE disk # t
      <4>1. Keeps(disk)
        BY <2>2, <3>2
      <4>2. disk # NoToken => Good(disk) \/ ToPersist \/ ToWipe
        BY <1>0, <1>2 DEF Stored, DiskGood, Holding
      <4> QED BY <1>0, <1>1, <2>3, <4>1, <4>2 DEF DiskGood, ToPersist, ToWipe, Keeps
    <3> QED BY <3>1, <3>2
  <2>10. DiskAsked'
    BY <1>0, <1>2, <2>3 DEF DiskAsked, Holding
  <2> QED BY <2>5, <2>6, <2>7, <2>8, <2>9, <2>10, PhonePartsNext DEF Stored
<1>5. CASE t \notin srv.live
  <2>1. srv' = Refreshed(srv, t, NoToken) /\ CallTo(c, "refused")
    BY <1>5, <1>t DEF ServerAnswers
  <2>2. srv' \in Servers /\ (\A u : Keeps(u)) /\ (\A u \in srv'.live : Issued(u)') /\ srv'.burnt \subseteq srv.burnt \cup unsure \cup overwritten
    BY <1>0, <1>1, <1>5, <2>1, RefusedOrBurnt
  <2>3. /\ call' \in [Callers -> CallRecord]
        /\ \A d \in Callers \ {c} : call'[d] = call[d]
        /\ call'[c].pc = "refused" /\ call'[c].presented = t
    BY <2>1, CallMoves, <1>t DEF PhonePcs, Holding, Carrying
  <2>4. PhoneTyped'
    BY <1>0, <2>2, <2>3, CallTyped DEF PhoneTyped, PhoneTypeOK
  <2>5. Order'
    BY <1>0, <1>2, <1>3, <2>2, <2>3 DEF Order, CallsWhole, Carrying, DownIsIdle, TokensIssued, OutHolds, NoFalseTheft, Holding, Keeps
  <2>6. Asked'
    BY <1>0, <1>1, <1>2, <2>2, <2>3 DEF Asked, SameGeneration, AnswersFresh, AskedGood, Holding, Keeps
  <2>7. MemGood' /\ DiskAsked'
    BY <1>0, <1>1, <1>2, <2>2, <2>3 DEF Stored, MemGood, DiskAsked, Holding, Keeps
  <2>8. DiskGood'
    BY <1>0, <1>1, <1>2, <2>2, <2>3 DEF Stored, DiskGood, ToWipe, ToPersist, Holding, Keeps
  <2> QED BY <2>4, <2>5, <2>6, <2>7, <2>8, PhonePartsNext DEF Stored
<1> QED BY <1>4, <1>5

\* PersistRead, Rejected: the holder goes on to write, or to clear.
LEMMA HolderMoves ==
    ASSUME PhoneKept, NEW c \in Callers, PersistRead(c) \/ Rejected(c)
    PROVE  PhoneKept'
<1> USE PhoneParts, TokensAre, NoCallIs
<1>0. /\ call[c].pc \in {"adopted", "refused"} /\ UNCHANGED <<phoneRest, check>>
      /\ UNCHANGED <<srv, mem, gen, store, up, handler, strays, out, doubts>>
  BY DEF PersistRead, Rejected, CallAt, phoneRest
<1>1. CASE CallTo(c, "idle") \/ CallTo(c, "verdict")
  <2>1. call[c].pc = "adopted" => mem = NoToken
    <3>1. ASSUME call[c].pc = "adopted", mem # NoToken PROVE FALSE
      <4>1. call' = [call EXCEPT ![c].pc = "writing", ![c].answer = mem]
        BY <3>1 DEF PersistRead, Rejected, CallAt
      <4>2. call'[c].pc = "writing"
        BY <4>1 DEF PhoneTyped, CallRecord
      <4>3. call'[c].pc \in {"idle", "verdict"}
        BY <1>1, CallMoves DEF PhonePcs, Carrying
      <4> QED BY <4>2, <4>3
    <3> QED BY <3>1
  <2> QED BY <1>0, <1>1, <2>1, CallGivesUp
<1>2. CASE ~(CallTo(c, "idle") \/ CallTo(c, "verdict"))
  <2>1. \/ /\ call[c].pc = "adopted" /\ mem # NoToken
           /\ call' = [call EXCEPT ![c].pc = "writing", ![c].answer = mem]
        \/ call[c].pc = "refused" /\ CallTo(c, "clearing")
    BY <1>2 DEF PersistRead, Rejected, CallAt, GaveNothing
  <2>0. /\ call \in [Callers -> CallRecord] /\ mem \in Tokens \cup {NoToken} /\ (mem # NoToken => Issued(mem))
        /\ call[c].pc = "adopted" => call[c].presented = NoToken
    BY <1>0 DEF PhoneTyped, PhoneTypeOK, Order, TokensIssued, CallsWhole, Carrying
  <2>2. /\ call' \in [Callers -> CallRecord]
        /\ \A d \in Callers \ {c} : call'[d] = call[d]
        /\ call'[c].presented = NoToken
        /\ \/ call'[c].pc = "writing" /\ call'[c].answer = mem /\ mem # NoToken
           \/ call'[c].pc = "clearing" /\ call[c].pc = "refused"
    <3>1. CASE /\ call[c].pc = "adopted" /\ mem # NoToken
               /\ call' = [call EXCEPT ![c].pc = "writing", ![c].answer = mem]
      <4>1. PICK q \in CallRecord : q = [call[c] EXCEPT !.pc = "writing", !.answer = mem]
        BY <2>0 DEF CallRecord, PhonePcs, Holding
      <4>2. q.pc = "writing" /\ q.presented = NoToken /\ q.answer = mem
        BY <2>0, <3>1, <4>1 DEF CallRecord
      <4>3. call' = [call EXCEPT ![c] = q]
        BY <2>0, <3>1, <4>1
      <4> QED BY <2>0, <3>1, <4>2, <4>3
    <3>2. CASE call[c].pc = "refused" /\ CallTo(c, "clearing")
      BY <3>2, CallMoves DEF PhonePcs, Holding, Carrying
    <3> QED BY <2>1, <3>1, <3>2
  <2>3. \A t : (Good(t)' <=> Good(t)) /\ (Issued(t)' <=> Issued(t))
    BY <1>0, Same
  <2>4. \A d \in Callers \ {c} : call[d].pc \notin Holding
    BY <1>0 DEF Order, CallsWhole, Carrying, Holding
  <2>5. mem # NoToken => Good(mem)
    BY <1>0, <2>4 DEF Stored, MemGood, Holding
  <2>6. check \in BOOLEAN /\ up
    BY <1>0 DEF PhoneTyped, PhoneTypeOK, Order, DownIsIdle
  <2>7. Order'
    BY <1>0, <2>0, <2>2, <2>3, <2>4, <2>6 DEF Order, CallsWhole, Carrying, DownIsIdle, TokensIssued, OutHolds, NoFalseTheft, Holding
  <2>8. Asked'
    BY <1>0, <2>0, <2>2, <2>3, <2>4, <2>5 DEF Asked, SameGeneration, AnswersFresh, AskedGood, Holding
  <2>9. Stored'
    BY <1>0, <2>2, <2>3, <2>4, <2>5 DEF Stored, MemGood, DiskGood, DiskAsked, ToWipe, ToPersist, Holding
  <2> QED BY <1>0, <2>2, <2>6, <2>7, <2>8, <2>9, RestTyped, PhonePartsNext
<1> QED BY <1>1, <1>2

LEMMA PersistWriteStep ==
    ASSUME PhoneKept, NEW c \in Callers, PersistWrite(c)
    PROVE  PhoneKept'
<1> USE PhoneParts, TokensAre, NoCallIs
<1>0. /\ call[c].pc = "writing" /\ disk' = call[c].answer /\ CallTo(c, "idle")
      /\ out' = IF out = "out" THEN "undone" ELSE out
      /\ UNCHANGED <<srv, mem, gen, file, up, check, handler, strays, byes, doubts, phoneFaults>>
  BY DEF PersistWrite, CallAt
<1>1. /\ call' \in [Callers -> CallRecord]
      /\ \A d \in Callers \ {c} : call'[d] = call[d]
      /\ call'[c] = NoCall
  BY <1>0, CallMoves DEF PhonePcs, Carrying
<1>2. \A t : (Good(t)' <=> Good(t)) /\ (Issued(t)' <=> Issued(t))
  BY <1>0, Same
<1>3. \A d \in Callers \ {c} : call[d].pc \notin Holding
  BY <1>0 DEF Order, CallsWhole, Carrying, Holding
<1>4. /\ Good(call[c].answer) /\ Issued(call[c].answer) /\ call[c].answer \in Tokens
      /\ mem # NoToken => Good(mem)
  BY <1>0, <1>3 DEF Asked, AskedGood, Order, TokensIssued, Stored, MemGood, Issued, Holding
<1>5. PhoneTyped'
  BY <1>0, <1>1, <1>4, CallTyped DEF PhoneTyped, PhoneTypeOK
<1>6. Order'
  BY <1>0, <1>1, <1>2, <1>4 DEF Order, CallsWhole, Carrying, DownIsIdle, TokensIssued, OutHolds, NoFalseTheft, Holding
<1>7. Asked'
  BY <1>0, <1>1, <1>2, <1>3 DEF Asked, SameGeneration, AnswersFresh, AskedGood, Holding
<1>8. Stored'
  BY <1>0, <1>1, <1>2, <1>3, <1>4 DEF Stored, MemGood, DiskGood, DiskAsked, ToWipe, ToPersist, Holding
<1> QED BY <1>5, <1>6, <1>7, <1>8, PhonePartsNext

\* The memory is emptied; the disk will be.
LEMMA ClearStep ==
    ASSUME PhoneKept, NEW c \in Callers, Clear(c)
    PROVE  PhoneKept'
<1> USE PhoneParts, TokensAre, NoCallIs
<1>0. /\ call[c].pc \in {"clearing", "verdict"} /\ mem' = NoToken /\ gen' = gen + 1
      /\ UNCHANGED <<srv, store, up, check, handler, strays, byes, out, doubts, phoneFaults>>
      /\ \/ call[c].pc = "verdict" /\ CallTo(c, "ending")
         \/ call[c].pc = "clearing" /\ CallTo(c, "wiping")
  BY DEF Clear, CallAt
<1>1. /\ call' \in [Callers -> CallRecord]
      /\ \A d \in Callers \ {c} : call'[d] = call[d]
      /\ \/ call'[c].pc = "ending"
         \/ call'[c].pc = "wiping" /\ call[c].pc = "clearing"
      /\ call'[c].presented = NoToken
  BY <1>0, CallMoves DEF PhonePcs, Holding, Carrying
<1>2. \A t : (Good(t)' <=> Good(t)) /\ (Issued(t)' <=> Issued(t))
  BY <1>0, Same
<1>3. /\ up /\ gen' \in Nat /\ \A d \in Callers : call[d].pc \in Carrying => Issued(call[d].presented)
      /\ \A d \in Callers : call[d].pc \in Carrying => call[d].presented # NoToken
  BY <1>0 DEF Order, CallsWhole, Carrying, DownIsIdle, PhoneTyped, PhoneTypeOK, Issued
<1>4. PhoneTyped'
  BY <1>0, <1>1, <1>3, CallTyped DEF PhoneTyped, PhoneTypeOK
<1>5. Order'
  BY <1>0, <1>1, <1>2, <1>3 DEF Order, CallsWhole, Carrying, DownIsIdle, TokensIssued, OutHolds, NoFalseTheft, Holding
<1>6. Asked'
  <2>1. \A d \in Callers : call[d].pc = "granted" => call[d].answer # NoToken
    BY DEF Order, TokensIssued, Issued
  <2> QED BY <1>0, <1>1, <1>2, <1>3, <2>1 DEF Asked, SameGeneration, AnswersFresh, AskedGood, Holding, Carrying
<1>7. Stored'
  <2>1. ToWipe'
    BY <1>1 DEF ToWipe
  <2> QED BY <1>0, <2>1 DEF Stored, MemGood, DiskGood, DiskAsked
<1> QED BY <1>4, <1>5, <1>6, <1>7, PhonePartsNext

\* The disk is emptied.
LEMMA WipeStep ==
    ASSUME PhoneKept, NEW c \in Callers, Wipe(c)
    PROVE  PhoneKept'
<1> USE PhoneParts, TokensAre, NoCallIs
<1>0. /\ call[c].pc \in {"wiping", "ending"} /\ disk' = NoToken
      /\ CallTo(c, "idle") \/ CallTo(c, "verdict")
      /\ UNCHANGED <<srv, mem, gen, file, up, check, handler, strays, byes, out, doubts, phoneFaults>>
  BY DEF Wipe, CallAt, GaveNothing
<1>1. /\ call' \in [Callers -> CallRecord]
      /\ \A d \in Callers \ {c} : call'[d] = call[d]
      /\ \/ call'[c] = NoCall
         \/ call'[c].pc = "verdict" /\ call'[c].presented = NoToken
  BY <1>0, CallMoves DEF PhonePcs, Carrying
<1>2. \A t : (Good(t)' <=> Good(t)) /\ (Issued(t)' <=> Issued(t))
  BY <1>0, Same
<1>3. /\ \A d \in Callers : call[d].pc = "granted" => call[d].answer # NoToken
      /\ \A d \in Callers : call[d].pc \in Carrying => call[d].presented # NoToken
  BY DEF Order, TokensIssued, CallsWhole, Carrying, Issued
<1>4. PhoneTyped'
  BY <1>0, <1>1, CallTyped DEF PhoneTyped, PhoneTypeOK
<1>5. Order'
  BY <1>0, <1>1, <1>2 DEF Order, CallsWhole, Carrying, DownIsIdle, TokensIssued, OutHolds, NoFalseTheft, Holding
<1>6. Asked'
  BY <1>0, <1>1, <1>2, <1>3 DEF Asked, SameGeneration, AnswersFresh, AskedGood, Holding
<1>7. Stored'
  <2>1. MemGood'
    BY <1>0, <1>1, <1>2 DEF Stored, MemGood
  <2>2. \A d \in Callers : call'[d].pc = "air" => call'[d].presented # NoToken
    BY <1>0, <1>1, <1>3 DEF Carrying
  <2> QED BY <1>0, <2>1, <2>2 DEF Stored, DiskGood, DiskAsked
<1> QED BY <1>4, <1>5, <1>6, <1>7, PhonePartsNext

\* No answer: its family is unsure from now on, so that nothing in it accuses.
LEMMA AnswerLostStep ==
    ASSUME PhoneKept, NEW c \in Callers, AnswerLost(c)
    PROVE  PhoneKept'
<1> USE PhoneParts, TokensAre, NoCallIs
<1>t. PICK t \in Tokens : t = call[c].presented
  BY DEF AnswerLost, InFlight, Order, CallsWhole, Carrying, Issued
<1>0. /\ call[c].pc \in {"air", "granted", "refused"} /\ Issued(t) /\ srv.family[t] \in Tokens
      /\ CallTo(c, "idle") \/ CallTo(c, "verdict")
      /\ strays' \subseteq strays \cup {t} /\ unsure' = unsure \cup {srv.family[t]} /\ overwritten' = overwritten
      /\ phoneFaults \in Nat /\ phoneFaults' = phoneFaults + 1
      /\ UNCHANGED <<srv, mem, gen, store, up, check, handler, byes, out>>
  BY <1>t DEF AnswerLost, InFlight, PhoneFault, GaveNothing, Order, CallsWhole, Carrying, Issued, PhoneTyped, PhoneTypeOK
<1>1. /\ call' \in [Callers -> CallRecord]
      /\ \A d \in Callers \ {c} : call'[d] = call[d]
      /\ \/ call'[c] = NoCall
         \/ call'[c].pc = "verdict" /\ call'[c].presented = NoToken
  BY <1>0, <1>t, CallMoves DEF PhonePcs, Carrying
<1>2. \A u : (Good(u) => Good(u)') /\ (Issued(u)' <=> Issued(u))
  BY <1>0 DEF Good, Issued
<1>3. \A u : srv.family[u] = srv.family[t] => Good(u)'
  BY <1>0 DEF Good
<1>4. \A d \in Callers \ {c} : call[d].pc \notin Holding
  BY <1>0 DEF Order, CallsWhole, Carrying, Holding
<1>5. PhoneTyped'
  <2>1. strays' \subseteq Tokens /\ unsure' \subseteq Tokens
    BY <1>0 DEF PhoneTyped, PhoneTypeOK
  <2> QED BY <1>0, <1>1, <2>1, CallTyped DEF PhoneTyped, PhoneTypeOK
<1>6. Order'
  BY <1>0, <1>1, <1>2 DEF Order, CallsWhole, Carrying, DownIsIdle, TokensIssued, OutHolds, NoFalseTheft, Holding
<1>7. Asked'
  <2>1. call[c].answer # NoToken \/ call[c].pc # "granted"
    BY DEF Order, TokensIssued, Issued
  <2>2. SameGeneration'
    BY <1>0, <1>1 DEF Asked, SameGeneration
  <2>3. AnswersFresh' /\ AskedGood'
    BY <1>0, <1>1, <1>4 DEF AnswersFresh, AskedGood, Holding
  <2> QED BY <2>2, <2>3 DEF Asked
<1>8. Stored'
  <2>1. MemGood'
    <3>1. SUFFICES ASSUME mem # NoToken PROVE Good(mem)'
      BY <1>0 DEF MemGood
    <3>2. CASE mem = t
      BY <1>3, <3>2, <1>0
    <3>3. CASE mem # t
      <4>1. Good(mem)
        BY <1>4, <1>t, <3>1, <3>3 DEF Stored, MemGood, Holding
      <4> QED BY <1>2, <4>1, <1>0
    <3> QED BY <3>2, <3>3
  <2>2. DiskGood'
    <3>1. (disk # NoToken) => Good(disk) \/ srv.family[t] = srv.family[disk] \/ ToPersist \/ ToWipe
      BY <1>0, <1>4, <1>t DEF Stored, DiskGood, Holding
    <3>2. (ToPersist' <=> ToPersist) /\ (ToWipe => ToWipe')
      BY <1>0, <1>1 DEF ToPersist, ToWipe
    <3>3. \A u : Good(u) \/ srv.family[t] = srv.family[u] => Good(u)'
      BY <1>2, <1>3
    <3> QED BY <1>0, <3>1, <3>2, <3>3 DEF DiskGood
  <2>3. DiskAsked'
    BY <1>0, <1>1, <1>4 DEF DiskAsked, Holding
  <2> QED BY <2>1, <2>2, <2>3 DEF Stored
<1> QED BY <1>5, <1>6, <1>7, <1>8, PhonePartsNext

-----------------------------------------------------------------------------
(* The main thread and the process *)

LEMMA SignedInEffect ==
    ASSUME srv \in Servers, NEW n \in Issuable(srv), srv' = Opened(srv, n), UNCHANGED doubts,
           \A u \in srv.live : Issued(u)
    PROVE  /\ srv' \in Servers
           /\ n \in Tokens /\ ~Issued(n) /\ Issued(n)' /\ Good(n)'
           /\ \A u : Keeps(u)
           /\ \A u \in srv'.live : Issued(u)'
           /\ srv'.burnt = srv.burnt
<1>1. n \in Tokens /\ srv.family[n] = NoToken
  BY DEF Issuable
<1>2. /\ srv'.family = [srv.family EXCEPT ![n] = n]
      /\ srv'.live = srv.live \cup {n} /\ srv'.ended = srv.ended /\ srv'.burnt = srv.burnt
  BY DEF Servers, Opened
<1>3. /\ srv.family \in [Tokens -> {NoToken} \cup Tokens] /\ srv.live \subseteq Tokens
      /\ srv'.family \in [Tokens -> {NoToken} \cup Tokens]
      /\ \A u \in Tokens \ {n} : srv'.family[u] = srv.family[u]
      /\ srv'.family[n] = n
  BY <1>1, <1>2 DEF Servers
<1>4. srv' \in Servers
  <2>1. srv'.live \in SUBSET Tokens
    BY <1>1, <1>2, <1>3
  <2> QED BY <1>2, <1>3, <2>1 DEF Servers, Opened
<1>5. ~Issued(n) /\ Issued(n)' /\ Good(n)'
  BY <1>1, <1>2, <1>3, TokensAre DEF Issued, Good
<1>6. ASSUME NEW u PROVE Keeps(u)
  BY <1>1, <1>2, <1>3, TokensAre DEF Keeps, Issued, Good
<1>7. \A u \in srv'.live : Issued(u)'
  BY <1>2, <1>3, <1>5 DEF Issued
<1> QED BY <1>1, <1>2, <1>4, <1>5, <1>6, <1>7

LEMMA SignInAdoptStep ==
    ASSUME PhoneKept, SignInAdopt
    PROVE  PhoneKept'
<1> USE PhoneParts, TokensAre, NoCallIs
<1>1. PICK n \in Issuable(srv) : srv' = Opened(srv, n) /\ mem' = n
  BY DEF SignInAdopt
<1>2. /\ up /\ main = "idle" /\ mem = NoToken /\ main' = "persist" /\ out' = "in"
      /\ UNCHANGED <<gen, store, held, up, check, call, strays, byes, doubts, phoneFaults>>
  BY DEF SignInAdopt
<1>3. /\ srv \in Servers /\ call \in [Callers -> CallRecord] /\ \A u \in srv.live : Issued(u)
      /\ (disk # NoToken => Issued(disk))
      /\ \A d \in Callers : call[d].pc \in Carrying => Issued(call[d].presented)
      /\ \A d \in Callers : call[d].pc \notin Carrying => call[d].presented = NoToken
      /\ \A d \in Callers : call[d].pc \in {"granted", "writing"} => Issued(call[d].answer)
  BY DEF PhoneTyped, PhoneTypeOK, Order, TokensIssued, CallsWhole, Carrying
<1>4. /\ srv' \in Servers /\ n \in Tokens /\ ~Issued(n) /\ Issued(n)' /\ Good(n)'
      /\ \A u : Keeps(u)
      /\ \A u \in srv'.live : Issued(u)'
      /\ srv'.burnt = srv.burnt
  BY <1>1, <1>2, <1>3, SignedInEffect
<1>5. \A u : Issued(u) => Issued(u)' /\ u # n /\ srv'.family[u] = srv.family[u] /\ (Good(u) => Good(u)')
  BY <1>4 DEF Keeps
<1>6. n # NoToken /\ \A d \in Callers : call[d].presented # n
  BY <1>3, <1>4, <1>5
<1>7. PhoneTyped'
  BY <1>1, <1>2, <1>4, CallTyped DEF PhoneTyped, PhoneTypeOK
<1>8. Order'
  BY <1>1, <1>2, <1>3, <1>4, <1>5, <1>6 DEF Order, CallsWhole, Carrying, DownIsIdle, TokensIssued, OutHolds, NoFalseTheft
<1>9. Asked'
  <2>1. SameGeneration'
    BY <1>1, <1>6, <1>2 DEF SameGeneration
  <2>2. AnswersFresh'
    BY <1>1, <1>2, <1>3, <1>5 DEF Asked, AnswersFresh
  <2>3. AskedGood'
    BY <1>2, <1>3, <1>5 DEF Asked, AskedGood, Carrying
  <2> QED BY <2>1, <2>2, <2>3 DEF Asked
<1>10. Stored'
  <2>1. MemGood' /\ ToPersist'
    BY <1>1, <1>2, <1>4, <1>6 DEF MemGood, ToPersist
  <2> QED BY <2>1 DEF Stored, DiskGood, DiskAsked
<1> QED BY <1>7, <1>8, <1>9, <1>10, PhonePartsNext

LEMMA SignInReadStep ==
    ASSUME PhoneKept, SignInPersistRead
    PROVE  PhoneKept'
<1> USE PhoneParts, TokensAre, NoCallIs
<1>1. /\ main = "persist" /\ held' = mem /\ main' = IF mem = NoToken THEN "idle" ELSE "store"
      /\ UNCHANGED <<srv, mem, gen, store, up, check, call, strays, byes, out, doubts, phoneFaults>>
  BY DEF SignInPersistRead
<1>2. \A t : (Good(t)' <=> Good(t)) /\ (Issued(t)' <=> Issued(t))
  BY <1>1, Same
<1>3. PhoneTyped'
  BY <1>1 DEF PhoneTyped, PhoneTypeOK
<1>4. Order'
  BY <1>1, <1>2 DEF Order, CallsWhole, Carrying, DownIsIdle, TokensIssued, OutHolds, NoFalseTheft
<1>5. Asked'
  BY <1>1, <1>2 DEF Asked, SameGeneration, AnswersFresh, AskedGood
<1>6. (ToPersist' <=> ToPersist) /\ (ToWipe' <=> ToWipe)
  BY <1>1 DEF ToPersist, ToWipe
<1>7. Stored'
  BY <1>1, <1>2, <1>6 DEF Stored, MemGood, DiskGood, DiskAsked
<1> QED BY <1>3, <1>4, <1>5, <1>7, PhonePartsNext

\* What a sign-in stores is what the memory holds, or its family is overwritten.
LEMMA SignInWriteStep ==
    ASSUME PhoneKept, SignInPersistWrite
    PROVE  PhoneKept'
<1> USE PhoneParts, TokensAre, NoCallIs
<1>1. /\ main = "store" /\ main' = "idle" /\ disk' = held /\ held' = NoToken
      /\ overwritten' = IF mem = held THEN overwritten ELSE overwritten \cup {srv.family[held]}
      /\ UNCHANGED <<srv, mem, gen, file, up, check, call, strays, byes, out, unsure, phoneFaults>>
  BY DEF SignInPersistWrite
<1>2. \A t : (Good(t) => Good(t)') /\ (Issued(t)' <=> Issued(t))
  BY <1>1 DEF Good, Issued
<1>3. Issued(held) /\ held \in Tokens /\ srv.family[held] \in Tokens /\ up
  BY <1>1 DEF Order, TokensIssued, DownIsIdle, Issued
<1>4. overwritten \subseteq overwritten' /\ overwritten' \subseteq Tokens
  BY <1>1, <1>3 DEF PhoneTyped, PhoneTypeOK
<1>5. PhoneTyped'
  BY <1>1, <1>3, <1>4 DEF PhoneTyped, PhoneTypeOK
<1>6. Order'
  <2>1. NoFalseTheft'
    BY <1>1, <1>4 DEF Order, NoFalseTheft
  <2> QED BY <1>1, <1>2, <1>3, <2>1 DEF Order, CallsWhole, Carrying, DownIsIdle, TokensIssued, OutHolds
<1>7. Asked'
  BY <1>1, <1>2 DEF Asked, SameGeneration, AnswersFresh, AskedGood
<1>8. Stored'
  <2>1. MemGood'
    BY <1>1, <1>2 DEF Stored, MemGood
  <2>2. CASE mem = held
    BY <1>1, <1>2, <2>1, <2>2 DEF Stored, MemGood, DiskGood, DiskAsked
  <2>3. CASE mem # held
    <3>1. srv'.family[disk'] \in overwritten'
      BY <1>1, <2>3
    <3> QED BY <2>1, <3>1 DEF Stored, DiskGood, DiskAsked, Good
  <2> QED BY <2>2, <2>3
<1> QED BY <1>5, <1>6, <1>7, <1>8, PhonePartsNext

\* Nothing but Die looks at what is written.
LEMMA FlushStep ==
    ASSUME PhoneKept, Flush
    PROVE  PhoneKept'
<1> USE PhoneParts, TokensAre, NoCallIs
<1>1. /\ file' = disk
      /\ UNCHANGED <<srv, mem, gen, disk, up, check, call, handler, strays, byes, out, doubts, phoneFaults>>
  BY DEF Flush
<1>2. \A t : (Good(t)' <=> Good(t)) /\ (Issued(t)' <=> Issued(t))
  BY <1>1, Same
<1>3. PhoneTyped'
  BY <1>1 DEF PhoneTyped, PhoneTypeOK
<1>4. Order'
  BY <1>1, <1>2 DEF Order, CallsWhole, Carrying, DownIsIdle, TokensIssued, OutHolds, NoFalseTheft
<1>5. Asked'
  BY <1>1, <1>2 DEF Asked, SameGeneration, AnswersFresh, AskedGood
<1>6. Stored'
  BY <1>1, <1>2 DEF Stored, MemGood, DiskGood, DiskAsked, ToWipe, ToPersist
<1> QED BY <1>3, <1>4, <1>5, <1>6, PhonePartsNext

LEMMA SignOutClearStep ==
    ASSUME PhoneKept, NEW tell \in BOOLEAN, SignOutClear(tell)
    PROVE  PhoneKept'
<1> USE PhoneParts, TokensAre, NoCallIs
<1>1. /\ up /\ main = "idle" /\ mem # NoToken /\ mem' = NoToken /\ gen' = gen + 1
      /\ main' = "wipe" /\ out' = "leaving" /\ byes' \subseteq byes \cup {srv.family[mem]}
      /\ UNCHANGED <<srv, store, held, up, check, call, strays, doubts, phoneFaults>>
  BY DEF SignOutClear
<1>2. \A t : (Good(t)' <=> Good(t)) /\ (Issued(t)' <=> Issued(t))
  BY <1>1, Same
<1>3. /\ srv.family[mem] \in Tokens
      /\ \A d \in Callers : call[d].pc = "granted" => call[d].answer # NoToken
      /\ \A d \in Callers : call[d].pc \in Carrying => call[d].presented # NoToken
  BY <1>1 DEF Order, TokensIssued, CallsWhole, Carrying, Issued
<1>4. PhoneTyped'
  BY <1>1, <1>3, CallTyped DEF PhoneTyped, PhoneTypeOK
<1>5. Order'
  BY <1>1, <1>2 DEF Order, CallsWhole, Carrying, DownIsIdle, TokensIssued, OutHolds, NoFalseTheft
<1>6. Asked'
  BY <1>1, <1>2, <1>3 DEF Asked, SameGeneration, AnswersFresh, AskedGood, Carrying
<1>7. Stored'
  BY <1>1 DEF Stored, MemGood, DiskGood, DiskAsked, ToWipe
<1> QED BY <1>4, <1>5, <1>6, <1>7, PhonePartsNext

LEMMA SignOutWipeStep ==
    ASSUME PhoneKept, SignOutWipe
    PROVE  PhoneKept'
<1> USE PhoneParts, TokensAre, NoCallIs
<1>1. /\ main = "wipe" /\ main' = "idle" /\ disk' = NoToken
      /\ out' = IF out = "leaving" THEN "out" ELSE out
      /\ UNCHANGED <<srv, mem, gen, file, held, up, check, call, strays, byes, doubts, phoneFaults>>
  BY DEF SignOutWipe
<1>2. \A t : (Good(t)' <=> Good(t)) /\ (Issued(t)' <=> Issued(t))
  BY <1>1, Same
<1>3. PhoneTyped'
  BY <1>1 DEF PhoneTyped, PhoneTypeOK
<1>4. Order'
  BY <1>1, <1>2 DEF Order, CallsWhole, Carrying, DownIsIdle, TokensIssued, OutHolds, NoFalseTheft
<1>5. Asked'
  BY <1>1, <1>2 DEF Asked, SameGeneration, AnswersFresh, AskedGood
<1>6. Stored'
  <2>1. \A c \in Callers : call[c].pc = "air" => call[c].presented # NoToken
    BY DEF Order, CallsWhole, Carrying, Issued
  <2> QED BY <1>1, <1>2, <2>1 DEF Stored, MemGood, DiskGood, DiskAsked
<1> QED BY <1>3, <1>4, <1>5, <1>6, PhonePartsNext

\* A process that dies leaves the families it was asking about unsure, and that of
\* what is on the disk if the disk had not yet followed the memory.
LEMMA DieStep ==
    ASSUME PhoneKept, Die
    PROVE  PhoneKept'
<1> USE PhoneParts, TokensAre, NoCallIs
<1>1. /\ ~up' /\ mem' = NoToken /\ gen' = 0 /\ check' = FALSE
      /\ strays' = strays \cup Abandoned /\ unsure' = unsure \cup Asking \cup Behind
      /\ call' = [c \in Callers |-> NoCall] /\ main' = "idle" /\ held' = NoToken /\ disk' = file
      /\ out' = IF out = "leaving" \/ (out = "out" /\ file # NoToken) THEN "undone" ELSE out
      /\ phoneFaults \in Nat /\ phoneFaults' = phoneFaults + 1
      /\ UNCHANGED <<srv, file, byes, overwritten>>
  BY DEF Die, PhoneFault, PhoneTyped, PhoneTypeOK
<1>2. /\ call' \in [Callers -> CallRecord]
      /\ \A c \in Callers : call'[c] = NoCall
  BY <1>1
<1>3. \A u : (Good(u) => Good(u)') /\ (Issued(u)' <=> Issued(u))
  BY <1>1 DEF Good, Issued
<1>4. \A c \in Callers : InFlight(c) => Issued(call[c].presented) /\ srv.family[call[c].presented] \in Asking
  BY DEF InFlight, Asking, Order, CallsWhole, Carrying
<1>5. \A t \in Abandoned : Issued(t) /\ srv.family[t] \in Asking
  BY <1>4 DEF Abandoned, CallAt, InFlight
<1>6. Asking \subseteq Tokens
  BY DEF Asking, InFlight, Order, CallsWhole, Carrying, Issued
<1>7. Behind \subseteq Tokens
  BY DEF Behind, Order, TokensIssued, Issued
<1>8. PhoneTyped'
  <2>1. strays' \subseteq Tokens /\ unsure' \subseteq Tokens
    BY <1>1, <1>5, <1>6, <1>7 DEF PhoneTyped, PhoneTypeOK, Issued
  <2>2. up' \in BOOLEAN /\ check' \in BOOLEAN
    BY DEF Die
  <2>3. gen' \in Nat /\ phoneFaults' \in Nat /\ out' \in {"in", "leaving", "out", "undone"}
    BY <1>1 DEF PhoneTyped, PhoneTypeOK
  <2>4. srv' \in Servers /\ mem' \in Tokens \cup {NoToken} /\ disk' \in Tokens \cup {NoToken} /\ byes' \subseteq Tokens
         /\ file' \in Tokens \cup {NoToken} /\ held' \in Tokens \cup {NoToken} /\ overwritten' \subseteq Tokens
    BY <1>1 DEF PhoneTyped, PhoneTypeOK
  <2>5. main' \in {"idle", "persist", "store", "wipe"}
    BY <1>1
  <2> QED BY <1>2, <2>1, <2>2, <2>3, <2>4, <2>5, CallTyped
<1>9. Order'
  BY <1>1, <1>2, <1>3, <1>5 DEF Order, CallsWhole, Carrying, DownIsIdle, TokensIssued, OutHolds, NoFalseTheft, Holding
<1>10. Asked'
  BY <1>2 DEF Asked, SameGeneration, AnswersFresh, AskedGood
<1>11. Stored'
  <2>1. ASSUME file # NoToken PROVE Good(file)'
    <3>0. CASE file # disk
      <4>1. srv.family[file] \in Behind
        BY <2>1, <3>0 DEF Behind
      <4> QED BY <1>1, <4>1 DEF Good
    <3>a. CASE file = disk /\ Good(disk)
      BY <1>1, <1>3, <3>a
    <3>2. CASE file = disk /\ \E c \in Callers : call[c].pc = "granted" /\ srv.family[call[c].presented] = srv.family[disk]
      BY <1>1, <1>4, <3>2 DEF Good, InFlight
    <3>3. CASE main # "idle" \/ \E c \in Callers : call[c].pc \in {"adopted", "writing", "wiping", "ending"}
      <4>1. srv.family[file] \in Behind
        BY <2>1, <3>3 DEF Behind
      <4> QED BY <1>1, <4>1 DEF Good
    <3> QED BY <2>1, <3>0, <3>a, <3>2, <3>3 DEF Stored, DiskGood, ToPersist, ToWipe
  <2> QED BY <1>1, <1>2, <2>1 DEF Stored, MemGood, DiskGood, DiskAsked
<1> QED BY <1>8, <1>9, <1>10, <1>11, PhonePartsNext

LEMMA LaunchStep ==
    ASSUME PhoneKept, Launch
    PROVE  PhoneKept'
<1> USE PhoneParts, TokensAre, NoCallIs
<1>1. /\ ~up /\ up' /\ mem' = disk /\ mem = NoToken
      /\ main = "idle" /\ \A c \in Callers : call[c] = NoCall
      /\ UNCHANGED <<srv, gen, store, call, handler, strays, byes, out, doubts, phoneFaults>>
  BY DEF Launch, Order, DownIsIdle
<1>2. \A t : (Good(t)' <=> Good(t)) /\ (Issued(t)' <=> Issued(t))
  BY <1>1, Same
<1>3. PhoneTyped'
  <2>1. check' \in BOOLEAN /\ up' \in BOOLEAN
    BY DEF Launch
  <2> QED BY <1>1, <2>1, CallTyped DEF PhoneTyped, PhoneTypeOK
<1>4. Order'
  BY <1>1, <1>2 DEF Order, CallsWhole, Carrying, DownIsIdle, TokensIssued, OutHolds, NoFalseTheft, Holding
<1>5. Asked'
  BY <1>1 DEF Asked, SameGeneration, AnswersFresh, AskedGood
<1>6. Stored'
  BY <1>1, <1>2 DEF Stored, MemGood, DiskGood, DiskAsked, ToWipe, ToPersist
<1> QED BY <1>3, <1>4, <1>5, <1>6, PhonePartsNext

LEMMA PhoneInitKept == PhoneInit => PhoneKept
<1> USE TokensAre, NoCallIs
<1> SUFFICES ASSUME PhoneInit PROVE PhoneKept
  OBVIOUS
<1>1. /\ srv = NewServer /\ mem = NoToken /\ gen = 0 /\ disk = NoToken /\ file = NoToken /\ held = NoToken /\ up /\ up \in BOOLEAN /\ check \in BOOLEAN
      /\ call = [c \in Callers |-> NoCall] /\ main = "idle" /\ strays = {} /\ byes = {} /\ out = "in"
      /\ unsure = {} /\ overwritten = {} /\ phoneFaults = 0
  BY DEF PhoneInit
<1>2. srv \in Servers /\ srv.live = {} /\ srv.burnt = {}
  BY <1>1 DEF NewServer, Servers
<1>3. call \in [Callers -> CallRecord] /\ \A c \in Callers : call[c] = NoCall
  BY <1>1
<1>4. PhoneTyped
  BY <1>1, <1>2, <1>3 DEF PhoneTyped, PhoneTypeOK, CallRecord, PhonePcs
<1>5. Order
  BY <1>1, <1>2, <1>3 DEF Order, CallsWhole, Carrying, DownIsIdle, TokensIssued, OutHolds, NoFalseTheft, Holding
<1>6. Asked /\ Stored
  BY <1>1, <1>3 DEF Asked, SameGeneration, AnswersFresh, AskedGood, Stored, MemGood, DiskGood, DiskAsked
<1> QED BY <1>4, <1>5, <1>6, PhoneParts

LEMMA PhoneStepKept == PhoneKept /\ [PhoneNext]_phoneVars => PhoneKept'
<1> SUFFICES ASSUME PhoneKept, [PhoneNext]_phoneVars PROVE PhoneKept'
  OBVIOUS
<1>1. CASE UNCHANGED phoneVars
  <2> USE PhoneParts
  <2>1. \A t : (Good(t)' <=> Good(t)) /\ (Issued(t)' <=> Issued(t))
    BY <1>1, Same DEF phoneVars
  <2>2. PhoneTyped' /\ Order'
    BY <1>1, <2>1 DEF phoneVars, PhoneTyped, PhoneTypeOK, Order, CallsWhole, Carrying, DownIsIdle, TokensIssued, OutHolds, NoFalseTheft
  <2>3. Asked' /\ Stored'
    BY <1>1, <2>1 DEF phoneVars, Asked, SameGeneration, AnswersFresh, AskedGood,
                      Stored, MemGood, DiskGood, DiskAsked, ToWipe, ToPersist
  <2> QED BY <2>2, <2>3, PhonePartsNext
<1>2. CASE SignInAdopt \/ SignInPersistRead \/ SignInPersistWrite \/ SignOutWipe \/ \E tell \in BOOLEAN : SignOutClear(tell)
  BY <1>2, SignInAdoptStep, SignInReadStep, SignInWriteStep, SignOutWipeStep, SignOutClearStep
<1>3. ASSUME NEW c \in Callers, PhoneStep(c) PROVE PhoneKept'
  BY <1>3, ReadSteps, TakeLockStep, ServerAnswersStep, AdoptStep, HolderMoves, PersistWriteStep,
     ClearStep, WipeStep, AnswerLostStep DEF PhoneStep
<1>4. CASE \E t \in Tokens : StrayRefresh(t) \/ ByeArrives(t)
  BY <1>4, WireSteps
<1>5. CASE Flush \/ Die \/ Launch
  BY <1>5, FlushStep, DieStep, LaunchStep
<1> QED BY <1>1, <1>2, <1>3, <1>4, <1>5 DEF PhoneNext

\* The variables of the phone's session stay what they are declared to be.
THEOREM PhoneTypes == PhoneSpec => []PhoneTypeOK
<1>1. PhoneSpec => []PhoneKept
  BY PhoneInitKept, PhoneStepKept, PTL DEF PhoneSpec
<1>2. PhoneKept => PhoneTypeOK
  BY DEF PhoneKept, PhoneTyped
<1> QED BY <1>1, <1>2, PTL

\* A sign-out stays one: with any number of threads, refreshes in the air, lost
\* answers and restarts, no session comes back after "Sign out", except where the
\* process died before the wipe was written or a write to the store had begun before it
\* (Api.refresh's mayAdopt, SessionStore.clear).
THEOREM SignOutAlwaysSticks == PhoneSpec => []SignOutSticks
<1>1. PhoneSpec => []PhoneKept
  BY PhoneInitKept, PhoneStepKept, PTL DEF PhoneSpec
<1>2. PhoneKept => SignOutSticks
  BY DEF PhoneKept, OutHolds, SignOutSticks
<1> QED BY <1>1, <1>2, PTL

\* The server burns a family on a replay by the phone only where an answer had been
\* lost, where the process had died before what is written had followed the memory, or
\* where a sign-in was overtaken by a refresh between persist's two steps and stored
\* the token this had spent.  Threads, refreshes and sign-outs in any other order, and
\* restarts, accuse nobody (Api.refresh under the rotating lock, Api.persist).
THEOREM NeverFalseTheft == PhoneSpec => []NoFalseTheft
<1>1. PhoneSpec => []PhoneKept
  BY PhoneInitKept, PhoneStepKept, PTL DEF PhoneSpec
<1>2. PhoneKept => NoFalseTheft
  BY DEF PhoneKept
<1> QED BY <1>1, <1>2, PTL
=============================================================================
