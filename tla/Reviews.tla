------------------------------ MODULE Reviews ------------------------------
(***************************************************************************)
(* Reviews and the rating they make: POST /v1/bookings/:id/review of       *)
(* server.ts, with ratingBaseline, ratingPrior and shrunkRating of         *)
(* domain/ai-rules.ts.                                                     *)
(*                                                                         *)
(* A rating is the shrunk mean of the reviews, so it is given by what it   *)
(* is computed from: the prior, the sum and the count.  Each request locks *)
(* the mechanic's row, inserts its review and recomputes the rating from   *)
(* all of them.  Arrival[m] is how m came: never rated, rated elsewhere    *)
(* ("arrived"), or rated here once, before baselines were kept ("before"). *)
(***************************************************************************)
EXTENDS Naturals, FiniteSets, FiniteSetsExt

CONSTANTS
    Reviewers,          \* review requests; two may be of one booking
    BookingOf,          \* BookingOf[r]: the booking r rates
    MechanicOf,         \* MechanicOf[r]: who did that booking's work
    Workers, Arrival,
    MaxStars

ASSUME ReviewsAssumption ==
    /\ IsFiniteSet(Reviewers) /\ MechanicOf \in [Reviewers -> Workers]
    /\ Arrival \in [Workers -> {"never", "arrived", "before"}]
    /\ MaxStars \in Nat

VARIABLES
    stars,              \* stars[r]: the review r has inserted, or 0
    rating, baseline,   \* mechanics.rating and rating_baseline
    reviewing           \* reviewing[r]: what a request read as it locked the row
reviewVars == <<stars, rating, baseline, reviewing>>

Rating(prior, sum, count) == [prior |-> prior, sum |-> sum, count |-> count]
Unrated == Rating("none", 0, 0)                 \* the column's 0
NotReviewing == [pc |-> "idle", rating |-> Unrated, baseline |-> "none"]
EarlierOf(m) == IF Arrival[m] = "before" THEN 1 ELSE 0
RatingOnArrival(m) ==
    CASE Arrival[m] = "never"   -> Unrated
      [] Arrival[m] = "arrived" -> Rating("arrived", 0, 0)
      [] Arrival[m] = "before"  -> Rating("mean", MaxStars, 1)

ReviewsTypeOK ==
    /\ stars \in [Reviewers -> 0..MaxStars]
    /\ \A m \in Workers : rating[m].prior \in {"none", "arrived", "mean"}
    /\ \A m \in Workers : baseline[m] \in {"none", "arrived"}
    /\ \A r \in Reviewers : reviewing[r].pc \in {"idle", "locked", "over"}

ReviewsInit ==
    /\ stars = [r \in Reviewers |-> 0]
    /\ rating = [m \in Workers |-> RatingOnArrival(m)]
    /\ baseline = [m \in Workers |-> "none"]
    /\ reviewing = [r \in Reviewers |-> NotReviewing]

-----------------------------------------------------------------------------
\* SELECT ... FOR UPDATE of the mechanic.
MechanicUnlocked(m) == TRUE                     \* variant: no lock
MechanicFree(m) == \A r \in Reviewers : MechanicOf[r] = m => reviewing[r].pc # "locked"

ReviewLock(r) ==
    LET m == MechanicOf[r]
    IN /\ reviewing[r].pc = "idle"
       /\ MechanicFree(m)
       /\ reviewing' = [reviewing EXCEPT ![r] = [pc |-> "locked", rating |-> rating[m], baseline |-> baseline[m]]]
       /\ UNCHANGED <<stars, rating, baseline>>

\* An existing baseline is kept; with no earlier review the rating on arrival is it.
RatingBaseline(existing, stored, before) ==
    IF existing # "none" THEN existing
    ELSE IF before = 0 /\ stored # Unrated THEN stored.prior
    ELSE "none"
RatingPrior(b) == IF b # "none" THEN b ELSE "mean"

\* Insert, aggregate and update; rolled back if the booking has its review.
ReviewCommit(r, n) ==
    LET m == MechanicOf[r]
        seen == {q \in Reviewers : MechanicOf[q] = m /\ stars[q] > 0}
        count == EarlierOf(m) + Cardinality(seen) + 1
        sum == EarlierOf(m) * MaxStars + FoldSet(LAMBDA q, s : stars[q] + s, n, seen)
        b == RatingBaseline(reviewing[r].baseline, reviewing[r].rating, count - 1)
    IN /\ reviewing[r].pc = "locked"
       /\ IF \E q \in Reviewers : BookingOf[q] = BookingOf[r] /\ stars[q] > 0
            THEN UNCHANGED <<stars, rating, baseline>>
            ELSE /\ stars' = [stars EXCEPT ![r] = n]
                 /\ rating' = [rating EXCEPT ![m] = Rating(RatingPrior(b), sum, count)]
                 /\ baseline' = [baseline EXCEPT ![m] = b]
       /\ reviewing' = [reviewing EXCEPT ![r] = [NotReviewing EXCEPT !.pc = "over"]]

ReviewsNext ==
    \E r \in Reviewers : ReviewLock(r) \/ \E n \in 1..MaxStars : ReviewCommit(r, n)

ReviewsSpec == ReviewsInit /\ [][ReviewsNext]_reviewVars

-----------------------------------------------------------------------------
(* Safety *)

\* "the stored value is then always reproducible from the source rows and the
\* mechanic's baseline": whatever overlaps, a rating has every review in it once, is
\* shrunk to what its mechanic arrived with, and a booking has one review.
RatingReproducible ==
    /\ \A m \in Workers :
         LET mine == {q \in Reviewers : MechanicOf[q] = m /\ stars[q] > 0}
         IN mine # {} =>
              rating[m] = Rating(IF Arrival[m] = "arrived" THEN "arrived" ELSE "mean",
                                 EarlierOf(m) * MaxStars + FoldSet(LAMBDA q, s : stars[q] + s, 0, mine),
                                 EarlierOf(m) + Cardinality(mine))
    /\ \A q, r \in Reviewers : BookingOf[q] = BookingOf[r] /\ stars[q] > 0 /\ stars[r] > 0 => q = r
=============================================================================
