---------------------------- MODULE PhoneSession ----------------------------
(***************************************************************************)
(* The session of the Android app: the tokens in memory (Api.kt), their    *)
(* copy on disk (SessionStore.kt), and everything that changes either -    *)
(* sign-in and sign-out on the main thread, refreshes that coroutines and  *)
(* the map's binder threads start at any moment, the check at launch, and  *)
(* the death of the process (Session.kt, MainActivity.kt).                 *)
(*                                                                         *)
(* A session is its refresh token.  rotating is held by the caller whose   *)
(* pc is one of Holding; sessionLock makes its blocks single actions.      *)
(***************************************************************************)
EXTENDS RefreshTokens

CONSTANTS
    Callers,        \* threads that may meet a 401
    LaunchCheck,    \* the one that verifies a restored session
    PhoneFaults     \* bound on lost answers and dead processes

ASSUME PhoneSessionAssumption ==
    /\ LaunchCheck \in Callers
    /\ PhoneFaults \in Nat

VARIABLES
    srv,            \* the server
    mem, gen,       \* refreshToken, generation
    disk,           \* what SessionStore holds: prefs, as the process sees them
    file,           \* what of it is written: the edit is an apply(), written later
    up,             \* the process is alive
    check,          \* the restored session is still to be verified
    call,           \* refreshes under way
    main, held,     \* the main thread's handler, and the token it read to store
    strays, byes,   \* refreshes and sign-outs on the wire that nobody waits for
    out,            \* how far the last sign-out has come
    unsure,         \* families of which an answer was lost
    overwritten,    \* history: families of which a sign-in stored a token that the
                    \* memory had moved on from
    phoneFaults

store == <<disk, file>>
handler == <<main, held>>
doubts == <<unsure, overwritten>>
phoneVars == <<srv, mem, gen, store, up, check, call, handler, strays, byes, out, doubts, phoneFaults>>

NoCall == [pc |-> "idle", presented |-> NoToken, started |-> 0, answer |-> NoToken]
Holding == {"air", "granted", "refused", "adopted", "clearing", "wiping", "writing"}

PhoneTypeOK ==
    /\ srv \in Servers
    /\ {mem, disk, file, held} \subseteq Tokens \cup {NoToken}
    /\ gen \in Nat /\ up \in BOOLEAN /\ check \in BOOLEAN
    /\ \A c \in Callers :
         /\ call[c].pc \in Holding \cup {"idle", "read", "queued", "verdict", "ending"}
         /\ {call[c].presented, call[c].answer} \subseteq Tokens \cup {NoToken}
         /\ call[c].started \in Nat
    /\ main \in {"idle", "persist", "store", "wipe"}
    /\ strays \subseteq Tokens /\ byes \subseteq Tokens
    /\ out \in {"in", "leaving", "out", "undone"}
    /\ unsure \subseteq Tokens /\ overwritten \subseteq Tokens /\ phoneFaults \in Nat

PhoneInit ==
    /\ srv = NewServer
    /\ mem = NoToken /\ gen = 0
    /\ disk = NoToken /\ file = NoToken
    /\ up = TRUE /\ check = FALSE
    /\ call = [c \in Callers |-> NoCall]
    /\ main = "idle" /\ held = NoToken
    /\ strays = {} /\ byes = {}
    /\ out = "in" /\ unsure = {} /\ overwritten = {} /\ phoneFaults = 0

PhoneFault == phoneFaults < PhoneFaults /\ phoneFaults' = phoneFaults + 1
Free == \A c \in Callers : call[c].pc \notin Holding
CallAt(c, pc) == call[c].pc = pc

\* A call carries its token and its generation until its answer is dealt with.
Carrying == {"read", "queued", "air", "granted", "refused"}
CallTo(c, pc) == call' = [call EXCEPT ![c] = [(IF pc \in Carrying THEN @ ELSE NoCall) EXCEPT !.pc = pc]]

\* A refresh has failed, or there was nothing to refresh: the launch check takes
\* the 401 for the server's no.
GaveNothing(c) == CallTo(c, IF c = LaunchCheck THEN "verdict" ELSE "idle")

-----------------------------------------------------------------------------
(* Sign-in and sign-out, on the main thread *)

\* adoptSession, of a sign-in that the server has answered; then persist.
SignInAdopt ==
    /\ up /\ main = "idle" /\ mem = NoToken
    /\ \E n \in Issuable(srv) : srv' = Opened(srv, n) /\ mem' = n
    /\ main' = "persist"
    /\ out' = "in"
    /\ UNCHANGED <<gen, store, held, up, check, call, strays, byes, doubts, phoneFaults>>

\* persist reads whatever token there is by then, outside sessionLock ...
SignInPersistRead ==
    /\ main = "persist"
    /\ held' = mem
    /\ main' = IF mem = NoToken THEN "idle" ELSE "store"
    /\ UNCHANGED <<srv, mem, gen, store, up, check, call, strays, byes, out, doubts, phoneFaults>>

\* ... and stores it under SessionStore's own lock, also where a refresh or a clear on
\* another thread has changed the memory, and the disk, in between.
SignInPersistWrite ==
    /\ main = "store"
    /\ disk' = held /\ held' = NoToken
    /\ main' = "idle"
    /\ overwritten' = IF mem = held THEN overwritten ELSE overwritten \cup {srv.family[held]}
    /\ UNCHANGED <<srv, mem, gen, file, up, check, call, strays, byes, out, unsure, phoneFaults>>

\* clear, from "Sign out" - which then tells the server - or after a deletion or a
\* sign-in that could not be finished, which do not.
SignOutClear(tell) ==
    /\ up /\ main = "idle" /\ mem # NoToken
    /\ byes' = IF tell THEN byes \cup {srv.family[mem]} ELSE byes
    /\ mem' = NoToken /\ gen' = gen + 1
    /\ main' = "wipe"
    /\ out' = "leaving"
    /\ UNCHANGED <<srv, store, held, up, check, call, strays, doubts, phoneFaults>>

SignOutWipe ==
    /\ main = "wipe"
    /\ disk' = NoToken
    /\ main' = "idle"
    /\ out' = IF out = "leaving" THEN "out" ELSE out
    /\ UNCHANGED <<srv, mem, gen, file, held, up, check, call, strays, byes, doubts, phoneFaults>>

-----------------------------------------------------------------------------
(* refresh *)

\* A 401: the token is read before the lock, then the generation.
ReadPresented(c) ==
    /\ up /\ CallAt(c, "idle") /\ mem # NoToken
    /\ c = LaunchCheck => check
    /\ call' = [call EXCEPT ![c] = [NoCall EXCEPT !.pc = "read", !.presented = mem]]
    /\ check' = IF c = LaunchCheck THEN FALSE ELSE check
    /\ UNCHANGED <<srv, mem, gen, store, up, handler, strays, byes, out, doubts, phoneFaults>>

ReadGeneration(c) ==
    /\ CallAt(c, "read")
    /\ call' = [call EXCEPT ![c].pc = "queued", ![c].started = gen]
    /\ UNCHANGED <<srv, mem, gen, store, up, check, handler, strays, byes, out, doubts, phoneFaults>>

\* Variant: the token is not read again under the lock.
TakeLockBlind(c) ==
    /\ CallAt(c, "queued") /\ Free
    /\ IF gen # call[c].started THEN GaveNothing(c) ELSE CallTo(c, "air")
    /\ UNCHANGED <<srv, mem, gen, store, up, check, handler, strays, byes, out, doubts, phoneFaults>>

\* Under the lock: signed out meanwhile, or rotated by somebody else meanwhile.
TakeLock(c) ==
    /\ CallAt(c, "queued") /\ Free
    /\ IF gen # call[c].started \/ (mem # call[c].presented /\ mem = NoToken) THEN GaveNothing(c)
       ELSE CallTo(c, IF mem # call[c].presented THEN "idle" ELSE "air")
    /\ UNCHANGED <<srv, mem, gen, store, up, check, handler, strays, byes, out, doubts, phoneFaults>>

ServerAnswers(c) ==
    /\ CallAt(c, "air")
    /\ LET t == call[c].presented IN
       IF t \in srv.live
       THEN \E n \in Issuable(srv) :
              /\ srv' = Refreshed(srv, t, n)
              /\ call' = [call EXCEPT ![c].pc = "granted", ![c].answer = n]
       ELSE srv' = Refreshed(srv, t, NoToken) /\ CallTo(c, "refused")
    /\ UNCHANGED <<mem, gen, store, up, check, handler, strays, byes, out, doubts, phoneFaults>>

\* mayAdopt
MayAdopt(c) == gen = call[c].started /\ mem = call[c].presented

\* Variant: an answer is adopted into whatever session there is.
AdoptAny(c) ==
    /\ CallAt(c, "granted")
    /\ mem' = call[c].answer /\ CallTo(c, "adopted")
    /\ UNCHANGED <<srv, gen, store, up, check, handler, strays, byes, out, doubts, phoneFaults>>

\* Under sessionLock: only into the session that asked.
Adopt(c) ==
    /\ CallAt(c, "granted")
    /\ IF MayAdopt(c) THEN mem' = call[c].answer /\ CallTo(c, "adopted")
                      ELSE mem' = mem /\ GaveNothing(c)
    /\ UNCHANGED <<srv, gen, store, up, check, handler, strays, byes, out, doubts, phoneFaults>>

\* persist reads the token outside sessionLock; a sign-out's wipe may come between
\* that and the write, which then undoes it.
PersistRead(c) ==
    /\ CallAt(c, "adopted")
    /\ IF mem = NoToken THEN CallTo(c, "idle")
       ELSE call' = [call EXCEPT ![c].pc = "writing", ![c].answer = mem]
    /\ UNCHANGED <<srv, mem, gen, store, up, check, handler, strays, byes, out, doubts, phoneFaults>>

PersistWrite(c) ==
    /\ CallAt(c, "writing")
    /\ disk' = call[c].answer
    /\ CallTo(c, "idle")
    /\ out' = IF out = "out" THEN "undone" ELSE out
    /\ UNCHANGED <<srv, mem, gen, file, up, check, handler, strays, byes, doubts, phoneFaults>>

\* Rejected: the session that asked is gone, and only that one is cleared - by a
\* check and a clear that a sign-out and a new sign-in may come between.
Rejected(c) ==
    /\ CallAt(c, "refused")
    /\ IF MayAdopt(c) THEN CallTo(c, "clearing") ELSE GaveNothing(c)
    /\ UNCHANGED <<srv, mem, gen, store, up, check, handler, strays, byes, out, doubts, phoneFaults>>

\* verifyEndsSession: the launch check clears without asking whose session it is.
Clear(c) ==
    /\ call[c].pc \in {"clearing", "verdict"}
    /\ mem' = NoToken /\ gen' = gen + 1
    /\ CallTo(c, IF CallAt(c, "verdict") THEN "ending" ELSE "wiping")
    /\ UNCHANGED <<srv, store, up, check, handler, strays, byes, out, doubts, phoneFaults>>

Wipe(c) ==
    /\ call[c].pc \in {"wiping", "ending"}
    /\ disk' = NoToken
    /\ IF CallAt(c, "wiping") THEN GaveNothing(c) ELSE CallTo(c, "idle")
    /\ UNCHANGED <<srv, mem, gen, file, up, check, handler, strays, byes, out, doubts, phoneFaults>>

-----------------------------------------------------------------------------
(* The network and the process *)

InFlight(c) == call[c].pc \in {"air", "granted", "refused"}
Asking == {srv.family[call[c].presented] : c \in {d \in Callers : InFlight(d)}}

\* The edits to the preferences are written, the last one at least.
Flush ==
    /\ file # disk
    /\ file' = disk
    /\ UNCHANGED <<srv, mem, gen, disk, up, check, call, handler, strays, byes, out, doubts, phoneFaults>>

\* What is written while its change, or its removal, is still to come.
Behind == IF \/ file # disk \/ main # "idle"
             \/ \E c \in Callers : call[c].pc \in {"adopted", "writing", "wiping", "ending"}
          THEN {srv.family[t] : t \in {file} \ {NoToken}} ELSE {}
Abandoned == {call[c].presented : c \in {d \in Callers : CallAt(d, "air")}}

\* No answer, an exception that ends nothing - or a 5xx, which keeps the token but
\* gives nothing.  Either way the request may still arrive, or have arrived.
AnswerLost(c) ==
    /\ InFlight(c)
    /\ PhoneFault
    /\ strays' = IF CallAt(c, "air") THEN strays \cup {call[c].presented} ELSE strays
    /\ unsure' = unsure \cup {srv.family[call[c].presented]} /\ overwritten' = overwritten
    /\ CallTo(c, "idle") \/ GaveNothing(c)
    /\ UNCHANGED <<srv, mem, gen, store, up, check, handler, byes, out>>

StrayRefresh(t) ==
    /\ t \in strays
    /\ IF t \in srv.live THEN \E n \in Issuable(srv) : srv' = Refreshed(srv, t, n)
                         ELSE srv' = Refreshed(srv, t, NoToken)
    /\ strays' = strays \ {t}
    /\ UNCHANGED <<mem, gen, store, up, check, call, handler, byes, out, doubts, phoneFaults>>

\* logout, best effort: it may also never arrive.
ByeArrives(f) ==
    /\ f \in byes
    /\ \E young \in BOOLEAN : srv' = SignedOut(srv, f, young)
    /\ byes' = byes \ {f}
    /\ UNCHANGED <<mem, gen, store, up, check, call, handler, strays, out, doubts, phoneFaults>>

\* The next process starts from what is written, and a sign-out whose wipe is not is
\* undone.
Die ==
    /\ up
    /\ PhoneFault
    /\ up' = FALSE
    /\ mem' = NoToken /\ gen' = 0 /\ check' = FALSE
    /\ disk' = file
    /\ strays' = strays \cup Abandoned
    /\ unsure' = unsure \cup Asking \cup Behind
    /\ call' = [c \in Callers |-> NoCall]
    /\ main' = "idle" /\ held' = NoToken
    /\ out' = IF out = "leaving" \/ (out = "out" /\ file # NoToken) THEN "undone" ELSE out
    /\ UNCHANGED <<srv, file, byes, overwritten>>

\* onCreate: the stored session is put back, and verified once when online.
Launch ==
    /\ ~up
    /\ up' = TRUE
    /\ mem' = disk
    /\ check' = (disk # NoToken)
    /\ UNCHANGED <<srv, gen, store, call, handler, strays, byes, out, doubts, phoneFaults>>

PhoneStep(c) ==
    \/ ReadPresented(c) \/ ReadGeneration(c) \/ TakeLock(c) \/ ServerAnswers(c) \/ Adopt(c)
    \/ PersistRead(c) \/ PersistWrite(c) \/ Rejected(c) \/ Clear(c) \/ Wipe(c) \/ AnswerLost(c)

PhoneNext ==
    \/ SignInAdopt \/ SignInPersistRead \/ SignInPersistWrite \/ SignOutWipe
    \/ \E tell \in BOOLEAN : SignOutClear(tell)
    \/ \E c \in Callers : PhoneStep(c)
    \/ \E t \in Tokens : StrayRefresh(t) \/ ByeArrives(t)
    \/ Flush \/ Die \/ Launch

PhoneSpec == PhoneInit /\ [][PhoneNext]_phoneVars

-----------------------------------------------------------------------------
(* Properties *)

\* A sign-out stays one: no refresh in the air when it happened brings the session
\* back, neither into memory nor, once the store is wiped, at the next launch - unless
\* the process died before the wipe was written, or a write to the store had begun
\* before it (Api.kt: "a sign-out during an in-flight rotation otherwise brought the
\* session straight back").
SignOutSticks ==
    /\ out = "leaving" => mem = NoToken
    /\ out = "out" => mem = NoToken /\ disk = NoToken

\* The phone accuses nobody of theft: of its own accord it presents a rotated token
\* only where the answer that carried its successor was lost, the process died before
\* what is written had followed the memory, or a sign-in, between its two steps, was
\* overtaken by a refresh or a clear and stored a token that the memory had moved on
\* from (SignInPersistWrite).  Refreshes, sign-outs and restarts do not by themselves
\* (Api.refresh: "the second signs the user out of everything and raises a false theft
\* signal").
NoFalseTheft == srv.burnt \subseteq unsure \cup overwritten
=============================================================================
