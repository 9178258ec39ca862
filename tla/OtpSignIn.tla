----------------------------- MODULE OtpSignIn -----------------------------
(***************************************************************************)
(* Sign-in by one-time code: the request of a code under its two limits    *)
(* (claimOtpChallenge of auth.ts), and its verification, which is the same *)
(* sequence in routes/auth.ts, routes/email-auth.ts and, for a phone added *)
(* to an account, routes/google-auth.ts.  A key is the number or address a *)
(* code is for; the session a code leads to is module Session's SignIn.    *)
(***************************************************************************)
EXTENDS Naturals, Sequences, FiniteSets

CONSTANTS
    Keys, Ips, NoKey, NoIp, OtpRequests,
    MaxAttempts,    \* OTP_MAX_ATTEMPTS: guesses per code, and codes per key
    IpMax,          \* OTP_IP_MAX: codes per connection
    MaxChallenges   \* bound on the codes ever made

ASSUME OtpAssumption ==
    /\ NoKey \notin Keys /\ NoIp \notin Ips
    /\ MaxAttempts \in Nat /\ IpMax \in Nat /\ MaxChallenges \in Nat

VARIABLES
    otp_challenges, \* the rows, in the order they were made
    compared,       \* compared[c]: guesses compared with the code of c
    sessions,       \* sessions[c]: sign-ins the code of c led to
    otpReq

otpVars == <<otp_challenges, compared, sessions, otpReq>>

Challenges == 1 .. Len(otp_challenges)
NoOtpRequest == [pc |-> "idle", key |-> NoKey, ip |-> NoIp, code |-> 0]
\* "new" for five minutes, then "expired", and "old" once out of the window that
\* the limits count.
Age == {"new", "expired", "old"}
Older(a) == IF a = "new" THEN "expired" ELSE "old"
Consumed(c) == otp_challenges[c].state = "consumed"

OtpTypeOK ==
    /\ otp_challenges \in Seq([key : Keys, ip : Ips, attempts : 0 .. MaxAttempts,
                               state : {"open", "consumed", "deleted"}, age : Age])
    /\ compared \in [1 .. MaxChallenges -> Nat]
    /\ sessions \in [1 .. MaxChallenges -> Nat]
    /\ otpReq \in [OtpRequests -> [pc : {"idle", "counting", "take", "compare", "consume", "signin"},
                             key : Keys \cup {NoKey}, ip : Ips \cup {NoIp}, code : Nat]]

OtpInit ==
    /\ otp_challenges = << >>
    /\ compared = [c \in 1 .. MaxChallenges |-> 0]
    /\ sessions = [c \in 1 .. MaxChallenges |-> 0]
    /\ otpReq = [r \in OtpRequests |-> NoOtpRequest]

OtpAt(r, pc) == otpReq[r].pc = pc
OtpGoto(r, pc) == otpReq' = [otpReq EXCEPT ![r].pc = pc]
OtpFinish(r) == otpReq' = [otpReq EXCEPT ![r] = NoOtpRequest]

-----------------------------------------------------------------------------
(* Asking for a code *)

InWindow(c) == otp_challenges[c].age # "old" /\ otp_challenges[c].state # "deleted"
\* Redeemed codes do not count against the number, but against the connection.
OfKey(k) == {c \in Challenges : otp_challenges[c].key = k /\ InWindow(c) /\ ~Consumed(c)}
OfIp(ip) == {c \in Challenges : otp_challenges[c].ip = ip /\ InWindow(c)}

\* The advisory locks of the key and of the connection, held while counting.
Unlocked(k, ip) == TRUE         \* variant: counted without a lock
LocksFree(k, ip) ==
    \A q \in OtpRequests : OtpAt(q, "counting") => otpReq[q].key # k /\ otpReq[q].ip # ip

RequestLock(r, k, ip) ==
    /\ otpReq[r] = NoOtpRequest
    /\ LocksFree(k, ip)
    /\ \/ Cardinality(OfKey(k)) >= MaxAttempts /\ OtpFinish(r)
       \/ Cardinality(OfKey(k)) < MaxAttempts /\ Cardinality(OfIp(ip)) >= IpMax /\ OtpFinish(r)
       \/ /\ Cardinality(OfKey(k)) < MaxAttempts /\ Cardinality(OfIp(ip)) < IpMax
          /\ otpReq' = [otpReq EXCEPT ![r] = [NoOtpRequest EXCEPT !.pc = "counting", !.key = k, !.ip = ip]]
    /\ UNCHANGED <<otp_challenges, compared, sessions>>

RequestInsert(r) ==
    /\ OtpAt(r, "counting")
    /\ Len(otp_challenges) < MaxChallenges
    /\ otp_challenges' = Append(otp_challenges,
         [key |-> otpReq[r].key, ip |-> otpReq[r].ip, attempts |-> 0, state |-> "open", age |-> "new"])
    /\ OtpFinish(r)
    /\ UNCHANGED <<compared, sessions>>

\* An e-mail that could not be sent: its code must not stay redeemable.  The row
\* is deleted whatever it has become (the mail may have arrived after all).
Undelivered(c) ==
    /\ otp_challenges[c].state # "deleted" /\ otp_challenges[c].age # "old"
    /\ otp_challenges' = [otp_challenges EXCEPT ![c].state = "deleted"]
    /\ UNCHANGED <<compared, sessions, otpReq>>

-----------------------------------------------------------------------------
(* Verifying a code *)

\* The newest code of the key that was not redeemed.
Newest(k, c) ==
    /\ otp_challenges[c].key = k /\ otp_challenges[c].state = "open"
    /\ \A d \in Challenges : otp_challenges[d].key = k /\ otp_challenges[d].state = "open" => d <= c

VerifyRead(r, k) ==
    /\ otpReq[r] = NoOtpRequest
    /\ \E c \in Challenges :
         /\ Newest(k, c) /\ otp_challenges[c].age = "new"
         /\ otpReq' = [otpReq EXCEPT ![r] = [NoOtpRequest EXCEPT !.pc = "take", !.code = c]]
    /\ UNCHANGED <<otp_challenges, compared, sessions>>

\* The attempt is taken before the comparison, in one conditional statement.
MayTake(c) == otp_challenges[c].attempts < MaxAttempts /\ otp_challenges[c].state # "deleted"

Take(r) ==
    /\ OtpAt(r, "take")
    /\ IF MayTake(otpReq[r].code)
         THEN /\ otp_challenges' = [otp_challenges EXCEPT ![otpReq[r].code].attempts = @ + 1]
              /\ OtpGoto(r, "compare")
         ELSE OtpFinish(r) /\ UNCHANGED otp_challenges
    /\ UNCHANGED <<compared, sessions>>

Compare(r) ==
    /\ OtpAt(r, "compare")
    /\ compared' = [compared EXCEPT ![otpReq[r].code] = @ + 1]
    /\ OtpGoto(r, "consume") \/ OtpFinish(r)              \* the guess is right, or it is not
    /\ UNCHANGED <<otp_challenges, sessions>>

\* Redeemed only if nobody redeemed it first.
ConsumableAlways(c) == TRUE     \* variant: the update names the row only
Consumable(c) == otp_challenges[c].state = "open"

Consume(r) ==
    /\ OtpAt(r, "consume")
    /\ IF Consumable(otpReq[r].code)
         THEN /\ otp_challenges' = [otp_challenges EXCEPT ![otpReq[r].code].state = "consumed"]
              /\ OtpGoto(r, "signin")
         ELSE OtpFinish(r) /\ UNCHANGED otp_challenges
    /\ UNCHANGED <<compared, sessions>>

\* The account is found or made, and a session started.
SignIn(r) ==
    /\ OtpAt(r, "signin")
    /\ sessions' = [sessions EXCEPT ![otpReq[r].code] = @ + 1]
    /\ OtpFinish(r)
    /\ UNCHANGED <<otp_challenges, compared>>

-----------------------------------------------------------------------------
\* Time passes for an older code first.
Ages(c) ==
    /\ otp_challenges[c].age # "old"
    /\ \A d \in 1 .. c - 1 :
         otp_challenges[d].age \in {"old", Older(otp_challenges[c].age)}
    /\ otp_challenges' = [otp_challenges EXCEPT ![c].age = Older(@)]
    /\ UNCHANGED <<compared, sessions, otpReq>>

\* A request dies where it is: a failed statement, or the process.  One that dies
\* while it compares has guessed wrong.
RequestDies(r) ==
    /\ otpReq[r] # NoOtpRequest /\ ~OtpAt(r, "compare")
    /\ OtpFinish(r)
    /\ UNCHANGED <<otp_challenges, compared, sessions>>

OtpNext ==
    \/ \E r \in OtpRequests :
         \/ \E k \in Keys : VerifyRead(r, k)
         \/ \E k \in Keys, ip \in Ips : RequestLock(r, k, ip)
         \/ RequestInsert(r) \/ Take(r) \/ Compare(r) \/ Consume(r) \/ SignIn(r) \/ RequestDies(r)
    \/ \E c \in Challenges : Undelivered(c) \/ Ages(c)

OtpSpec == OtpInit /\ [][OtpNext]_otpVars

-----------------------------------------------------------------------------
(* Safety *)

\* A code signs in once: two requests with the right code do not both get a session.
OneSessionPerCode == \A c \in Challenges : sessions[c] <= 1

\* However many requests arrive at once, a key has at most MaxAttempts unredeemed
\* codes in a window and a connection at most IpMax: that many messages are paid
\* for, and that many codes can be guessed at (the locked count of claimOtpChallenge).
\* Each is compared with at most MaxAttempts guesses, however many arrive at once
\* (the conditional increment before the comparison).
CodesCapped ==
    /\ \A c \in Challenges : compared[c] <= MaxAttempts
    /\ \A k \in Keys : Cardinality(OfKey(k)) <= MaxAttempts
    /\ \A ip \in Ips : Cardinality(OfIp(ip)) <= IpMax

\* Both of the above: what is issued and what a code is good for stay limited.
CodesLimited == OneSessionPerCode /\ CodesCapped
=============================================================================
