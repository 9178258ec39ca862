------------------------------ MODULE MCSignIn ------------------------------
(***************************************************************************)
(* Small instances for TLC of the two ways to sign in - by a code sent to  *)
(* a phone (OtpSignIn) and with Google (GoogleSignIn) - and of the Android *)
(* app that keeps the session (PhoneSession).  They share no variable, so  *)
(* one component moves in a behaviour: part, of the Parts of the run.      *)
(***************************************************************************)
EXTENDS OtpSignIn, GoogleSignIn, PhoneSession, TLC
CONSTANTS
    Parts, r1, r2, k1, k2,
    a1, a2, a3, p1, p2          \* accounts and phones

TwoKeys == {k1, k2}
TwoRequests == {r1, r2}
OneHasPhone == [a \in Accounts |-> IF a = a1 THEN p1 ELSE None]

VARIABLE part

SignInInit == part \in Parts /\ OtpInit /\ GoogleInit /\ PhoneInit

SignInNext ==
    /\ UNCHANGED part
    /\ \/ part = "otp" /\ OtpNext /\ UNCHANGED <<googleVars, phoneVars>>
       \/ part = "google" /\ GoogleNext /\ UNCHANGED <<otpVars, phoneVars>>
       \/ part = "phone" /\ PhoneNext /\ UNCHANGED <<otpVars, googleVars>>

SignInSpec == SignInInit /\ [][SignInNext]_<<part, otpVars, googleVars, phoneVars>>

Symmetry == Permutations(TwoKeys) \cup Permutations(TwoRequests)
=============================================================================
