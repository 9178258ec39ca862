------------------------------- MODULE Filter -------------------------------
(***************************************************************************)
(* A queue without some of its entries: filter, as the two offline queues  *)
(* use it.  It is SelectSeq with a set for the test, written as a function *)
(* on the queue's prefixes, which is what can be reasoned about.           *)
(***************************************************************************)
EXTENDS Naturals, Sequences

\* The entries of s that are in T, in the order they have in s.
Filtered(s, T) ==
    LET of[n \in 0..Len(s)] ==
            IF n = 0 THEN <<>>
            ELSE IF s[n] \in T THEN Append(of[n - 1], s[n]) ELSE of[n - 1]
    IN of[Len(s)]
=============================================================================
