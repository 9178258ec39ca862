----------------------------- MODULE MCSession -----------------------------
(* Small instances of Session for TLC. *)
EXTENDS Session, TLC
CONSTANTS s1, s2, s3, s4, f1, f2, r1, r2, r3

FourSessions == {s1, s2, s3, s4}
TwoFamilies == {f1, f2}
TwoRequests == {r1, r2}

Symmetry == Permutations(Sessions) \cup Permutations(Families) \cup Permutations(Requests)
=============================================================================
