---------------------------- MODULE GoogleSignIn ----------------------------
(***************************************************************************)
(* Signing in with Google, linking and unlinking it, adding a phone and    *)
(* deleting the account: routes/google-auth.ts with the rules of           *)
(* domain/google-signin.ts, and unlink and delete of routes/account.ts.    *)
(*                                                                         *)
(* An account is entered by its phone (a code sent to it) or by its Google *)
(* identity (sub).  A first sign-in of either kind makes an account, so    *)
(* one person may hold two; linking may move a sub off an empty account,   *)
(* which is then closed.  Every request reads the accounts, decides, and   *)
(* writes later: googleReq[r] is one between two of its statements.  The   *)
(* link's transaction is one action: its outcome depends on the rows it    *)
(* locks alone, and it rolls back as a whole.                              *)
(***************************************************************************)
EXTENDS Naturals, FiniteSets

CONSTANTS
    Accounts, Subs, Phones, Nonces, GoogleRequests, None,
    Registered      \* Registered[a]: the phone account a already has, or None

ASSUME GoogleAssumption ==
    /\ None \notin Accounts \cup Subs \cup Phones
    /\ Registered \in [Accounts -> Phones \cup {None}]
    /\ \A a, b \in Accounts : Registered[a] = Registered[b] /\ Registered[a] # None => a = b

VARIABLES
    state,          \* users: "unused" (no row), "open", "closed" (deleted_at)
    phone, sub,     \* users.msisdn, users.google_sub
    signedIn,       \* accounts with a live session
    nonce,          \* google_auth_nonces
    googleReq       \* requests in flight

users == <<state, phone, sub>>
googleVars == <<users, signedIn, nonce, googleReq>>

NoGoogleRequest == [pc |-> "idle", acc |-> None, g |-> None, had |-> None, from |-> None, ph |-> None]
Unissued == [state |-> "unissued", for |-> None]

GoogleTypeOK ==
    /\ state \in [Accounts -> {"unused", "open", "closed"}]
    /\ phone \in [Accounts -> Phones \cup {None}]
    /\ sub \in [Accounts -> Subs \cup {None}]
    /\ signedIn \subseteq Accounts
    /\ nonce \in [Nonces -> [state : {"unissued", "live", "spent"}, for : Accounts \cup {None}]]
    /\ googleReq \in [GoogleRequests ->
                        [pc : {"idle", "signin", "create", "enter", "link", "decide", "write",
                               "unlink", "attach"},
                         acc : Accounts \cup {None}, g : Subs \cup {None},
                         had : Subs \cup {None}, from : Accounts \cup {None},
                         ph : Phones \cup {None}]]

GoogleInit ==
    /\ phone = Registered
    /\ state = [a \in Accounts |-> IF Registered[a] = None THEN "unused" ELSE "open"]
    /\ sub = [a \in Accounts |-> None]
    /\ signedIn = {}
    /\ nonce = [n \in Nonces |-> Unissued]
    /\ googleReq = [r \in GoogleRequests |-> NoGoogleRequest]

GoogleAt(r, pc) == googleReq[r].pc = pc
GoogleGoto(r, to) == googleReq' = [googleReq EXCEPT ![r] = to]
GoogleFinish(r) == GoogleGoto(r, NoGoogleRequest)
\* The account holding a sub or a number: a unique index on each.
BySub(g) == IF \E a \in Accounts : sub[a] = g THEN CHOOSE a \in Accounts : sub[a] = g ELSE None
ByPhone(p) == IF \E a \in Accounts : phone[a] = p THEN CHOOSE a \in Accounts : phone[a] = p ELSE None

-----------------------------------------------------------------------------
(* Nonces *)

\* A nonce to sign in, or (for # None) to link Google to the caller's account.
IssueNonce(n, a) ==
    /\ nonce[n].state = "unissued"
    /\ a # None => a \in signedIn /\ state[a] = "open"
    /\ nonce' = [nonce EXCEPT ![n] = [state |-> "live", for |-> a]]
    /\ UNCHANGED <<users, signedIn, googleReq>>

NonceExpires(n) ==
    /\ nonce[n].state = "live"
    /\ nonce' = [nonce EXCEPT ![n].state = "spent"]
    /\ UNCHANGED <<users, signedIn, googleReq>>

\* A token of Google for identity g arrives: verified, its nonce is spent by one
\* conditional update, and the request goes on as the nonce's purpose says.  The
\* web's callback names the account by its sealed cookie, with no session.
Redeem(r, n, g) ==
    /\ GoogleAt(r, "idle")
    /\ nonce[n].state = "live"
    /\ nonce' = [nonce EXCEPT ![n].state = "spent"]
    /\ GoogleGoto(r, [NoGoogleRequest EXCEPT !.acc = nonce[n].for, !.g = g,
                                             !.pc = IF nonce[n].for = None
                                                      THEN "signin" ELSE "link"])
    /\ UNCHANGED <<users, signedIn>>

-----------------------------------------------------------------------------
(* signInAs: the account holding the sub, or a new one *)

Enter(r, a) ==
    IF state[a] = "open"
      THEN GoogleGoto(r, [googleReq[r] EXCEPT !.pc = "enter", !.acc = a])
      ELSE GoogleFinish(r)

SigninDecide(r) ==
    LET holder == BySub(googleReq[r].g)
    IN /\ GoogleAt(r, "signin")
       /\ IF holder = None
            THEN GoogleGoto(r, [googleReq[r] EXCEPT !.pc = "create"])
            ELSE Enter(r, holder)
       /\ UNCHANGED <<users, signedIn, nonce>>

\* The new row, unless another first sign-in has just taken the sub.
Create(r) ==
    LET holder == BySub(googleReq[r].g)
    IN /\ GoogleAt(r, "create")
       /\ holder = None
       /\ \E a \in Accounts :
            /\ state[a] = "unused"
            /\ state' = [state EXCEPT ![a] = "open"]
            /\ sub' = [sub EXCEPT ![a] = googleReq[r].g]
            /\ GoogleGoto(r, [googleReq[r] EXCEPT !.pc = "enter", !.acc = a])
       /\ UNCHANGED <<phone, signedIn, nonce>>

CreateLost(r) ==
    LET holder == BySub(googleReq[r].g)
    IN /\ GoogleAt(r, "create")
       /\ holder # None
       /\ Enter(r, holder)
       /\ UNCHANGED <<users, signedIn, nonce>>

\* startSession: whatever has become of the account since it was chosen.
StartSession(r) ==
    /\ GoogleAt(r, "enter")
    /\ signedIn' = signedIn \cup {googleReq[r].acc}
    /\ GoogleFinish(r)
    /\ UNCHANGED <<users, nonce>>

-----------------------------------------------------------------------------
(* linkTo *)

\* The target's facts; a closed account is refused.
LinkRead(r) ==
    LET a == googleReq[r].acc
    IN /\ GoogleAt(r, "link")
       /\ IF state[a] = "open"
            THEN GoogleGoto(r, [googleReq[r] EXCEPT !.pc = "decide", !.had = sub[a]])
            ELSE GoogleFinish(r)
       /\ UNCHANGED <<users, signedIn, nonce>>

\* An account that may give its sub up: open, and with no phone.
Movable(b) == state[b] = "open" /\ phone[b] = None

\* decideGoogleLink, from the facts read before and the sub's holder now.
LinkDecide(r) ==
    LET q == googleReq[r]
        holder == BySub(q.g)
    IN /\ GoogleAt(r, "decide")
       /\ IF holder = q.acc \/ q.had \notin {None, q.g} \/ (holder # None /\ ~Movable(holder))
            THEN GoogleFinish(r)
            ELSE GoogleGoto(r, [q EXCEPT !.pc = "write", !.from = holder])
       /\ UNCHANGED <<users, signedIn, nonce>>

\* The move's update gives up the sub only of an account that still has no phone.
GivesUpAny(b, g) == b # None /\ sub[b] = g                    \* variant: phone not re-checked
GivesUp(b, g) == b # None /\ phone[b] = None /\ sub[b] = g

\* The account that gave up its sub is closed with it.
StateAfterMoveOpen(b, g) == state                             \* variant: it stays open
StateAfterMove(b, g) == IF GivesUp(b, g) THEN [state EXCEPT ![b] = "closed"] ELSE state

\* Rolled back if the target has been closed meanwhile, or somebody holds the sub.
MayMoveAny(a, b, g) == \A c \in Accounts \ {a} : sub[c] = g => c = b /\ GivesUp(b, g)  \* variant
MayMove(a, b, g) ==
    /\ state[a] = "open"
    /\ \A c \in Accounts \ {a} : sub[c] = g => c = b /\ GivesUp(b, g)

\* The link's transaction: the sub moves, the emptied account is closed and signed
\* out, and the target takes the sub.
LinkWrite(r) ==
    LET q == googleReq[r]
    IN /\ GoogleAt(r, "write")
       /\ IF MayMove(q.acc, q.from, q.g)
            THEN /\ sub' = [a \in Accounts |-> IF a = q.acc THEN q.g
                                               ELSE IF a = q.from /\ GivesUp(a, q.g) THEN None
                                               ELSE sub[a]]
                 /\ state' = StateAfterMove(q.from, q.g)
                 /\ signedIn' = signedIn \ {q.from}
            ELSE UNCHANGED <<sub, state, signedIn>>
       /\ GoogleFinish(r)
       /\ UNCHANGED <<phone, nonce>>

-----------------------------------------------------------------------------
(* Unlinking, adding a phone, deleting *)

\* DELETE /v1/me/google: refused to an account with no phone, and again by the update.
Unlinkable(a) == phone[a] # None
UnlinkRead(r, a) ==
    /\ GoogleAt(r, "idle")
    /\ a \in signedIn /\ state[a] = "open"
    /\ sub[a] # None /\ Unlinkable(a)
    /\ GoogleGoto(r, [NoGoogleRequest EXCEPT !.pc = "unlink", !.acc = a])
    /\ UNCHANGED <<users, signedIn, nonce>>

UnlinkWrite(r) ==
    /\ GoogleAt(r, "unlink")
    /\ sub' = [sub EXCEPT ![googleReq[r].acc] = IF Unlinkable(googleReq[r].acc) THEN None ELSE @]
    /\ GoogleFinish(r)
    /\ UNCHANGED <<state, phone, signedIn, nonce>>

\* POST /v1/me/phone: an account with no phone has proved one by a code.
AttachRead(r, a, p) ==
    /\ GoogleAt(r, "idle")
    /\ a \in signedIn
    /\ phone[a] = None
    /\ GoogleGoto(r, [NoGoogleRequest EXCEPT !.pc = "attach", !.acc = a, !.ph = p])
    /\ UNCHANGED <<users, signedIn, nonce>>

\* The update asks for a row with no phone; the unique index for a free number.
\* It does not ask whether the account is still open.
AttachWrite(r) ==
    LET a == googleReq[r].acc
    IN /\ GoogleAt(r, "attach")
       /\ phone' = [phone EXCEPT ![a] =
                      IF @ = None /\ ByPhone(googleReq[r].ph) = None THEN googleReq[r].ph ELSE @]
       /\ GoogleFinish(r)
       /\ UNCHANGED <<state, sub, signedIn, nonce>>

\* POST /v1/me/delete: one transaction behind the row's lock.
Delete(a) ==
    /\ a \in signedIn /\ state[a] = "open"
    /\ state' = [state EXCEPT ![a] = "closed"]
    /\ phone' = [phone EXCEPT ![a] = None]
    /\ sub' = [sub EXCEPT ![a] = None]
    /\ signedIn' = signedIn \ {a}
    /\ UNCHANGED <<nonce, googleReq>>

\* POST /v1/auth/otp/verify: the account with the number, or a new one.
PhoneSignIn(p) ==
    /\ IF ByPhone(p) # None
         THEN signedIn' = signedIn \cup {ByPhone(p)} /\ UNCHANGED <<state, phone>>
         ELSE \E a \in Accounts :
                /\ state[a] = "unused"
                /\ state' = [state EXCEPT ![a] = "open"]
                /\ phone' = [phone EXCEPT ![a] = p]
                /\ signedIn' = signedIn \cup {a}
    /\ UNCHANGED <<sub, nonce, googleReq>>

SignOut(a) ==
    /\ a \in signedIn
    /\ signedIn' = signedIn \ {a}
    /\ UNCHANGED <<users, nonce, googleReq>>

-----------------------------------------------------------------------------
GoogleNext ==
    \/ \E n \in Nonces :
         \/ NonceExpires(n)
         \/ \E a \in Accounts \cup {None} : IssueNonce(n, a)
         \/ \E r \in GoogleRequests, g \in Subs : Redeem(r, n, g)
    \/ \E r \in GoogleRequests :
         \/ SigninDecide(r) \/ Create(r) \/ CreateLost(r) \/ StartSession(r)
         \/ LinkRead(r) \/ LinkDecide(r) \/ LinkWrite(r)
         \/ UnlinkWrite(r) \/ AttachWrite(r)
         \/ \E a \in Accounts : UnlinkRead(r, a) \/ \E p \in Phones : AttachRead(r, a, p)
    \/ \E a \in Accounts : Delete(a) \/ SignOut(a)
    \/ \E p \in Phones : PhoneSignIn(p)

GoogleSpec == GoogleInit /\ [][GoogleNext]_googleVars

-----------------------------------------------------------------------------
(* Safety *)

\* "would be left with no way to sign in at all": whatever links, moves, unlinks
\* and additions of phones overlap, an open account can be entered by its phone
\* or by its Google identity.
EveryAccountHasADoor ==
    \A a \in Accounts : state[a] = "open" => phone[a] # None \/ sub[a] # None

\* A closed account holds no Google identity, and one identity enters one account:
\* a link that overlaps a deletion leaves nothing behind on the closed row.
ClosedHasNoGoogle ==
    \A a \in Accounts : sub[a] # None =>
        state[a] = "open" /\ \A b \in Accounts : sub[b] = sub[a] => b = a

\* Both of the above: links, moves, unlinks and deletions that overlap lock nobody
\* out and let nobody in.
DoorsHold == EveryAccountHasADoor /\ ClosedHasNoGoogle

\* "its sessions end, and it has no phone and no Google left to enter by", of the
\* account a link has closed.
ClosedHasNoDoor ==
    \A a \in Accounts : state[a] = "closed" => phone[a] = None /\ sub[a] = None

\* "two proven accounts are never merged": a Google identity passes from one
\* account to another only if the first has no phone, and then the first is closed.
MergesOnlyEmptyAccounts ==
    [][\A a, b \in Accounts :
          a # b /\ sub[a] # None /\ sub'[b] = sub[a] => phone[a] = None /\ state'[a] = "closed"]_googleVars
=============================================================================
