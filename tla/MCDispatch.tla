----------------------------- MODULE MCDispatch -----------------------------
(* Small instances of Dispatch for TLC. *)
EXTENDS Dispatch, TLC
CONSTANTS b1, b2, m1, m2, m3, narrow, wide

OneBooking == {b1}
OneMechanic == {m1}
TwoBookings == {b1, b2}
TwoMechanics == {m1, m2}
ThreeMechanics == {m1, m2, m3}

\* One search: every mechanic in reach, one offer per wave.
OneAtATime == {narrow}
ReachAll == [p \in Plans |-> [b \in Bookings |-> Mechanics]]
WavesOfOne == [p \in Plans |-> 1]

\* Two searches: a narrow one that reaches m1, a wide one that reaches everybody
\* and asks two at a time.
NarrowOrWide == {narrow, wide}
ReachWider == [p \in Plans |-> [b \in Bookings |-> IF p = narrow THEN {m1} ELSE Mechanics]]
WavesWider == [p \in Plans |-> IF p = narrow THEN 1 ELSE 2]

BookingSymmetry == Permutations(Bookings)
BothSymmetry == Permutations(Bookings) \cup Permutations(Mechanics)
=============================================================================
