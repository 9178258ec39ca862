--------------------------- MODULE PhoneSosProofs ---------------------------
(***************************************************************************)
(* Theorems about PhoneSos, WebQueue and SmsLine, for every number of      *)
(* people, emergencies, queued changes, delivery jobs and texts.  The two  *)
(* offline queues rest on what filtering and joining a queue keep, proved  *)
(* first.  What keeps an entry of either safe is where it may be: in       *)
(* storage, in the hands of the pass that reads it, or answered.  The      *)
(* line's invariant ties each text's work to the attempts that did it.     *)
(***************************************************************************)
EXTENDS PhoneSos, WebQueue, SmsLine, WellFoundedInduction, FiniteSetTheorems, SequenceTheorems, TLAPS

-----------------------------------------------------------------------------
(* Queues, filtered and joined *)

\* What holds of 0, and of n + 1 where it holds of n, holds of every number.
LEMMA ByCounting ==
    ASSUME NEW G, 0 \in G, \A n \in Nat : n \in G => n + 1 \in G
    PROVE  Nat \subseteq G
<1> SUFFICES ASSUME Nat \ G # {} PROVE FALSE
  OBVIOUS
<1> DEFINE R == OpToRel(<, Nat)
<1>1. IsWellFoundedOn(R, Nat)
  BY NatLessThanWellFounded
<1>2. \A k, m \in Nat : k < m => <<k, m>> \in R
  BY DEF OpToRel
<1> HIDE DEF R
<1>3. PICK m \in Nat \ G : \A k \in Nat \ G : <<k, m>> \notin R
  <2> DEFINE T == Nat \ G
  <2>1. T \subseteq Nat /\ T # {}
    OBVIOUS
  <2> HIDE DEF T
  <2>2. \E x \in T : \A y \in T : ~ (<<y, x>> \in R)
    BY <1>1, <2>1, WFMin
  <2> QED BY <2>2 DEF T
<1>4. m \in Nat /\ m \notin G /\ m # 0
  OBVIOUS
<1>5. m - 1 \in Nat /\ m - 1 < m /\ (m - 1) + 1 = m
  BY <1>4
<1>6. m - 1 \in G
  BY <1>2, <1>3, <1>4, <1>5
<1> QED BY <1>4, <1>5, <1>6

\* The prefixes of a filtered queue.
Prefix(f, s, T, n) ==
    IF n = 0 THEN <<>> ELSE IF s[n] \in T THEN Append(f[n - 1], s[n]) ELSE f[n - 1]

LEMMA FilterGoes ==
    ASSUME NEW S, NEW s \in Seq(S), NEW T
    PROVE  \E f : f = [n \in 0..Len(s) |-> Prefix(f, s, T, n)] /\ Filtered(s, T) = f[Len(s)]
<1> DEFINE G == {m \in Nat : \E f : f = [n \in 0..m |-> Prefix(f, s, T, n)]}
<1>1. 0 \in G
  <2> DEFINE f == [n \in 0..0 |-> <<>>]
  <2>1. f = [n \in 0..0 |-> Prefix(f, s, T, n)]
    BY DEF Prefix
  <2> QED BY <2>1
<1>2. ASSUME NEW m \in Nat, m \in G PROVE m + 1 \in G
  <2>1. PICK f : f = [n \in 0..m |-> Prefix(f, s, T, n)]
    BY <1>2
  <2> DEFINE g == [n \in 0..(m + 1) |-> IF n = m + 1 THEN Prefix(f, s, T, n) ELSE f[n]]
  <2>2. \A n \in 0..m : f[n] = Prefix(f, s, T, n)
    BY <2>1
  <2>3. \A n \in 0..(m + 1) : Prefix(g, s, T, n) = Prefix(f, s, T, n)
    BY DEF Prefix
  <2>4. \A n \in 0..(m + 1) : g[n] = Prefix(g, s, T, n)
    BY <2>2, <2>3
  <2>5. g = [n \in 0..(m + 1) |-> Prefix(g, s, T, n)]
    BY <2>4
  <2> HIDE DEF g
  <2> QED BY <2>5
<1> HIDE DEF G
<1>3. Nat \subseteq G
  BY <1>1, <1>2, ByCounting
<1>4. Len(s) \in G
  BY <1>3
<1> DEFINE of == CHOOSE f : f = [n \in 0..Len(s) |-> Prefix(f, s, T, n)]
<1>5. of = [n \in 0..Len(s) |-> Prefix(of, s, T, n)]
  BY <1>4 DEF G
<1>6. Filtered(s, T) = of[Len(s)]
  BY DEF Filtered, Prefix
<1> HIDE DEF of
<1> QED BY <1>5, <1>6

\* A filtered queue holds what is kept, each as often as the queue did.
LEMMA FilterKeeps ==
    ASSUME NEW S, NEW s \in Seq(S), NEW T
    PROVE  /\ Filtered(s, T) \in Seq(S)
           /\ Range(Filtered(s, T)) = Range(s) \cap T
           /\ IsInjective(s) => IsInjective(Filtered(s, T))
<1>1. PICK f : f = [n \in 0..Len(s) |-> Prefix(f, s, T, n)] /\ Filtered(s, T) = f[Len(s)]
  BY FilterGoes
<1> DEFINE Here(n) == /\ f[n] \in Seq(S)
                      /\ \A x : (\E i \in 1..Len(f[n]) : f[n][i] = x) <=> (\E i \in 1..n : s[i] = x /\ x \in T)
                      /\ IsInjective(s) => \A i, j \in 1..Len(f[n]) : f[n][i] = f[n][j] => i = j
           G == {n \in Nat : n <= Len(s) => Here(n)}
<1>2. Len(s) \in Nat /\ DOMAIN s = 1..Len(s) /\ \A i \in 1..Len(s) : s[i] \in S
  BY LenProperties, ElementOfSeq
<1>3. 0 \in G
  <2>1. f[0] = <<>>
    BY <1>1, <1>2 DEF Prefix
  <2>2. f[0] \in Seq(S) /\ Len(f[0]) = 0
    BY <2>1, EmptySeq
  <2>3. \A i : i \notin 1..0
    OBVIOUS
  <2>4. Here(0)
    BY <2>2, <2>3
  <2> QED BY <2>4
<1>4. ASSUME NEW n \in Nat, n \in G PROVE n + 1 \in G
  <2> SUFFICES ASSUME n + 1 <= Len(s) PROVE Here(n + 1)
    OBVIOUS
  <2>1. Here(n) /\ n + 1 \in 0..Len(s) /\ s[n + 1] \in S
    BY <1>2, <1>4
  <2>2. f[n + 1] = Prefix(f, s, T, n + 1)
    BY <1>1, <2>1
  <2>3. CASE s[n + 1] \notin T
    <3>1. f[n + 1] = f[n]
      BY <2>2, <2>3 DEF Prefix
    <3> QED BY <2>1, <2>3, <3>1
  <2>4. CASE s[n + 1] \in T
    <3>1. f[n + 1] = Append(f[n], s[n + 1])
      BY <2>2, <2>4 DEF Prefix
    <3>2. /\ f[n + 1] \in Seq(S) /\ Len(f[n]) \in Nat /\ Len(f[n + 1]) = Len(f[n]) + 1
          /\ \A i \in 1..Len(f[n]) : f[n + 1][i] = f[n][i]
          /\ f[n + 1][Len(f[n]) + 1] = s[n + 1]
      BY <2>1, <3>1, AppendProperties, LenProperties
    <3>3. ASSUME NEW x PROVE (\E i \in 1..Len(f[n + 1]) : f[n + 1][i] = x)
                             <=> (\E i \in 1..(n + 1) : s[i] = x /\ x \in T)
      <4>1. (\E i \in 1..Len(f[n + 1]) : f[n + 1][i] = x)
            <=> (\E i \in 1..Len(f[n]) : f[n][i] = x) \/ x = s[n + 1]
        <5>1. 1..Len(f[n + 1]) = 1..Len(f[n]) \cup {Len(f[n]) + 1}
          BY <3>2
        <5>2. \A i \in 1..Len(f[n]) : f[n + 1][i] = f[n][i]
          BY <3>2
        <5> QED BY <3>2, <5>1, <5>2
      <4>2. (\E i \in 1..(n + 1) : s[i] = x /\ x \in T)
            <=> (\E i \in 1..n : s[i] = x /\ x \in T) \/ x = s[n + 1]
        BY <2>4
      <4> QED BY <2>1, <4>1, <4>2
    <3>4. ASSUME IsInjective(s) PROVE \A i, j \in 1..Len(f[n + 1]) : f[n + 1][i] = f[n + 1][j] => i = j
      <4>1. \A i \in 1..Len(f[n]) : f[n][i] # s[n + 1]
        <5> SUFFICES ASSUME NEW i \in 1..Len(f[n]), f[n][i] = s[n + 1] PROVE FALSE
          OBVIOUS
        <5>1. PICK k \in 1..n : s[k] = s[n + 1]
          BY <2>1
        <5>2. k \in DOMAIN s /\ n + 1 \in DOMAIN s /\ k # n + 1
          BY <1>2, <2>1
        <5> QED BY <3>4, <5>1, <5>2 DEF IsInjective
      <4> QED BY <2>1, <3>2, <3>4, <4>1
    <3> QED BY <3>2, <3>3, <3>4
  <2> QED BY <2>3, <2>4
<1> HIDE DEF Here
<1>5. Nat \subseteq G
  <2> HIDE DEF G
  <2> QED BY <1>3, <1>4, ByCounting
<1>6. Here(Len(s))
  BY <1>2, <1>5
<1> DEFINE t == Filtered(s, T)
<1>7. t \in Seq(S) /\ DOMAIN t = 1..Len(t)
  BY <1>1, <1>6, LenProperties DEF Here
<1>8. Range(t) = Range(s) \cap T
  BY <1>1, <1>2, <1>6, <1>7 DEF Here, Range
<1>9. IsInjective(s) => IsInjective(t)
  BY <1>1, <1>6, <1>7 DEF Here, IsInjective
<1> QED BY <1>7, <1>8, <1>9

\* What a queue holds, and that it holds it once, as the queue's operations change it.
LEMMA QueueParts ==
    ASSUME NEW S, NEW s \in Seq(S)
    PROVE  /\ \A e \in S : /\ Append(s, e) \in Seq(S)
                           /\ Range(Append(s, e)) = Range(s) \cup {e}
                           /\ IsInjective(s) /\ e \notin Range(s) => IsInjective(Append(s, e))
           /\ s # <<>> => /\ Head(s) \in S /\ Tail(s) \in Seq(S)
                          /\ Range(s) = Range(Tail(s)) \cup {Head(s)}
                          /\ IsInjective(s) => IsInjective(Tail(s)) /\ Head(s) \notin Range(Tail(s))
           /\ Range(s) \subseteq S
           /\ \A e : Contains(s, e) <=> e \in Range(s)
<1>1. Len(s) \in Nat /\ DOMAIN s = 1..Len(s) /\ \A i \in 1..Len(s) : s[i] \in S
  BY LenProperties, ElementOfSeq
<1>2. ASSUME NEW e \in S
      PROVE  /\ Append(s, e) \in Seq(S)
             /\ Range(Append(s, e)) = Range(s) \cup {e}
             /\ IsInjective(s) /\ e \notin Range(s) => IsInjective(Append(s, e))
  <2> DEFINE t == Append(s, e)
  <2>1. t \in Seq(S) /\ Len(t) = Len(s) + 1 /\ t[Len(s) + 1] = e /\ \A i \in 1..Len(s) : t[i] = s[i]
    BY AppendProperties
  <2>2. DOMAIN t = 1..(Len(s) + 1)
    BY <2>1, LenProperties
  <2> HIDE DEF t
  <2>3. 1..(Len(s) + 1) = 1..Len(s) \cup {Len(s) + 1}
    BY <1>1
  <2>4. Range(t) = Range(s) \cup {e}
    BY <1>1, <2>1, <2>2, <2>3 DEF Range
  <2>5. IsInjective(s) /\ e \notin Range(s) => IsInjective(t)
    BY <1>1, <2>1, <2>2, <2>3 DEF Range, IsInjective
  <2> QED BY <2>1, <2>4, <2>5 DEF t
<1>3. ASSUME s # <<>>
      PROVE  /\ Head(s) \in S /\ Tail(s) \in Seq(S)
             /\ Range(s) = Range(Tail(s)) \cup {Head(s)}
             /\ IsInjective(s) => IsInjective(Tail(s)) /\ Head(s) \notin Range(Tail(s))
  <2> DEFINE t == Tail(s)
  <2>1. t \in Seq(S) /\ Len(t) = Len(s) - 1 /\ \A i \in 1..Len(t) : t[i] = s[i + 1]
    BY <1>3, HeadTailProperties
  <2>2. DOMAIN t = 1..Len(t) /\ Len(t) \in Nat
    BY <2>1, LenProperties
  <2>3. Head(s) = s[1] /\ Head(s) \in S
    BY <1>3, HeadTailProperties
  <2> HIDE DEF t
  <2>4. \A i \in 1..Len(s) : i = 1 \/ (i - 1 \in 1..Len(t) /\ t[i - 1] = s[i])
    BY <1>1, <2>1, <2>2
  <2>5. 1 \in 1..Len(s)
    BY <1>1, <2>1, <2>2
  <2>6. Range(s) = Range(t) \cup {Head(s)}
    BY <1>1, <2>1, <2>2, <2>3, <2>4, <2>5 DEF Range
  <2>7. IsInjective(s) => IsInjective(t) /\ Head(s) \notin Range(t)
    <3> SUFFICES ASSUME IsInjective(s) PROVE IsInjective(t) /\ Head(s) \notin Range(t)
      OBVIOUS
    <3>1. \A i \in 1..Len(t) : i + 1 \in 1..Len(s) /\ i + 1 # 1
      BY <1>1, <2>1, <2>2
    <3>2. \A i, k \in 1..Len(t) : t[i] = t[k] => i + 1 = k + 1
      BY <1>1, <2>1, <3>1 DEF IsInjective
    <3>3. \A i \in 1..Len(t) : t[i] # s[1]
      BY <1>1, <2>1, <2>5, <3>1 DEF IsInjective
    <3> QED BY <2>2, <2>3, <3>2, <3>3 DEF IsInjective, Range
  <2> QED BY <2>1, <2>3, <2>6, <2>7 DEF t
<1>4. Range(s) \subseteq S
  BY <1>1 DEF Range
<1>5. ASSUME NEW e PROVE Contains(s, e) <=> e \in Range(s)
  BY <1>1 DEF Contains, Range
<1> QED BY <1>2, <1>3, <1>4, <1>5

LEMMA QueueJoins ==
    ASSUME NEW S, NEW s \in Seq(S), NEW t \in Seq(S)
    PROVE  /\ s \o t \in Seq(S) /\ Range(s \o t) = Range(s) \cup Range(t)
           /\ IsInjective(s) /\ IsInjective(t) /\ Range(s) \cap Range(t) = {} => IsInjective(s \o t)
<1>1. /\ Len(s) \in Nat /\ DOMAIN s = 1..Len(s)
      /\ Len(t) \in Nat /\ DOMAIN t = 1..Len(t)
  BY LenProperties
<1> DEFINE u == s \o t
<1>2. /\ u \in Seq(S) /\ Len(u) = Len(s) + Len(t)
      /\ \A i \in 1..(Len(s) + Len(t)) : u[i] = IF i <= Len(s) THEN s[i] ELSE t[i - Len(s)]
  BY ConcatProperties
<1>3. DOMAIN u = 1..(Len(s) + Len(t))
  BY <1>2, LenProperties
<1>4. Range(u) = Range(s) \cup Range(t)
  BY RangeConcatenation
<1> HIDE DEF u
<1>5. IsInjective(s) /\ IsInjective(t) /\ Range(s) \cap Range(t) = {} => IsInjective(u)
  <2> SUFFICES ASSUME IsInjective(s), IsInjective(t), Range(s) \cap Range(t) = {},
                      NEW i \in 1..(Len(s) + Len(t)), NEW k \in 1..(Len(s) + Len(t)), u[i] = u[k]
               PROVE  i = k
    BY <1>3 DEF IsInjective
  <2>1. \A n \in 1..(Len(s) + Len(t)) :
          \/ n \in DOMAIN s /\ u[n] = s[n]
          \/ n - Len(s) \in DOMAIN t /\ u[n] = t[n - Len(s)]
    BY <1>1, <1>2
  <2>2. \A m \in DOMAIN s, n \in DOMAIN t : s[m] # t[n]
    BY DEF Range
  <2>3. CASE i \in DOMAIN s /\ u[i] = s[i]
    BY <2>1, <2>2, <2>3 DEF IsInjective
  <2>4. CASE i - Len(s) \in DOMAIN t /\ u[i] = t[i - Len(s)]
    <3>1. k - Len(s) \in DOMAIN t /\ u[k] = t[k - Len(s)]
      BY <2>1, <2>2, <2>4
    <3>2. i - Len(s) = k - Len(s)
      BY <2>4, <3>1 DEF IsInjective
    <3> QED BY <1>1, <3>2
  <2> QED BY <2>1, <2>3, <2>4
<1> QED BY <1>2, <1>4, <1>5 DEF u

-----------------------------------------------------------------------------
(* The queue of the web app *)

FlushRecord == [pc : {"idle", "journal", "replay"}, left : Seq(Ops), retry : Seq(Ops)]

QueueTyped ==
    /\ signal \in BOOLEAN /\ resting \in BOOLEAN
    /\ person \in Persons \cup {NoPerson}
    /\ waiting \in Seq(Ops) /\ stored = waiting
    /\ flush \in FlushRecord
    /\ flush.pc = "idle" => flush = NoFlush
    /\ flush.pc = "journal" => flush.retry = <<>>
    /\ made \subseteq Ops /\ refused \subseteq Ops /\ dropped \subseteq Ops
    /\ done \in [Ops -> Seq([by : Persons, heard : BOOLEAN])]
    /\ signIns \in 0..MaxSignIns /\ lost \in 0..MaxLost

Held == Range(waiting) \cup Range(flush.left) \cup Range(flush.retry)

\* A change that was asked for is in one place, or has left them all for a reason.
InOnePlace ==
    /\ IsInjective(waiting) /\ IsInjective(flush.left) /\ IsInjective(flush.retry)
    /\ Range(waiting) \cap (Range(flush.left) \cup Range(flush.retry)) = {}
    /\ Range(flush.left) \cap Range(flush.retry) = {}
    /\ Held \subseteq made

\* What nobody asked for has not been done; what waits has not been answered, ...
NothingYet == \A q \in Ops : q \notin made => done[q] = <<>> /\ q \notin refused
WaitsForAnswer == \A q \in Held : q \notin refused /\ \A n \in DOMAIN done[q] : ~done[q][n].heard

\* ... and what was answered, was by the last of its calls.
LastIsHeard == \A q \in Ops : \A n \in DOMAIN done[q] : done[q][n].heard => n = Len(done[q])

Accounted == \A q \in made : q \in Held \/ Answered(q) \/ q \in dropped

\* A flush replays under the account that owns what it holds.
FlushIsOwners ==
    ~JoinInFlight =>
        /\ person # NoPerson => \A q \in Range(flush.left) : OwnerOf[q] = person
        /\ \A q \in Ops : \A n \in DOMAIN done[q] : done[q][n].by = OwnerOf[q]

WebKept == QueueTyped /\ InOnePlace /\ NothingYet /\ WaitsForAnswer /\ LastIsHeard /\ Accounted /\ FlushIsOwners

LEMMA FlushFields ==
    ASSUME QueueTyped
    PROVE  /\ flush.pc \in {"idle", "journal", "replay"} /\ flush.left \in Seq(Ops) /\ flush.retry \in Seq(Ops)
           /\ Range(waiting) \subseteq Ops /\ Range(flush.left) \subseteq Ops /\ Range(flush.retry) \subseteq Ops
           /\ \A q \in Ops : done[q] \in Seq([by : Persons, heard : BOOLEAN])
           /\ flush.pc = "idle" => flush.left = <<>> /\ flush.retry = <<>>
<1>1. flush.left \in Seq(Ops) /\ flush.retry \in Seq(Ops)
  BY DEF QueueTyped, FlushRecord
<1>2. Range(waiting) \subseteq Ops /\ Range(flush.left) \subseteq Ops /\ Range(flush.retry) \subseteq Ops
  BY <1>1, QueueParts DEF QueueTyped
<1>3. flush.pc = "idle" => flush.left = <<>> /\ flush.retry = <<>>
  <2>1. NoFlush.left = <<>> /\ NoFlush.retry = <<>>
    BY DEF NoFlush
  <2> QED BY <2>1 DEF QueueTyped
<1>4. flush.pc \in {"idle", "journal", "replay"}
  BY DEF QueueTyped, FlushRecord
<1>5. \A q \in Ops : done[q] \in Seq([by : Persons, heard : BOOLEAN])
  BY DEF QueueTyped
<1> QED BY <1>1, <1>2, <1>3, <1>4, <1>5

LEMMA NoneHeld == Range(<<>>) = {} /\ IsInjective(<<>>) /\ NoFlush \in FlushRecord
<1>1. Range(<<>>) = {} /\ IsInjective(<<>>)
  BY DEF Range, IsInjective
<1>2. <<>> \in Seq(Ops)
  BY EmptySeq
<1> QED BY <1>1, <1>2 DEF NoFlush, FlushRecord

LEMMA WebInitKept == QueueInit => WebKept
<1> SUFFICES ASSUME QueueInit PROVE WebKept
  OBVIOUS
<1> USE NoneHeld DEF QueueInit
<1>0. <<>> \in Seq(Ops) /\ <<>> \in Seq([by : Persons, heard : BOOLEAN]) /\ DOMAIN <<>> = {}
  BY EmptySeq
<1>1. QueueTyped
  <2>1. 0 \in 0..MaxSignIns /\ 0 \in 0..MaxLost
    BY QueueAssumption
  <2>2. done \in [Ops -> Seq([by : Persons, heard : BOOLEAN])]
    BY <1>0
  <2>3. NoFlush.pc = "idle"
    BY DEF NoFlush
  <2> QED BY <1>0, <2>1, <2>2, <2>3 DEF QueueTyped
<1>2. Held = {} /\ flush.left = <<>> /\ flush.retry = <<>>
  BY DEF Held, NoFlush
<1>3. InOnePlace
  BY <1>2 DEF InOnePlace
<1>4. \A q \in Ops : done[q] = <<>> /\ DOMAIN done[q] = {} /\ q \notin refused
  BY <1>0
<1>5. NothingYet /\ WaitsForAnswer /\ LastIsHeard
  BY <1>2, <1>4 DEF NothingYet, WaitsForAnswer, LastIsHeard
<1>6. Accounted /\ FlushIsOwners
  BY <1>2, <1>4 DEF Accounted, FlushIsOwners
<1> QED BY <1>1, <1>3, <1>5, <1>6 DEF WebKept

\* Steps that move changes between the queue and a flush, and call nobody.
MovesOnly ==
    /\ UNCHANGED <<made, outcomes>>
    /\ Held \subseteq Held' \cup dropped' /\ Held' \subseteq Held
    /\ dropped \subseteq dropped'
    /\ person' # NoPerson /\ ~JoinInFlight => \A q \in Range(flush'.left) : OwnerOf[q] = person'

LEMMA MovesKeep ==
    ASSUME WebKept, MovesOnly, QueueTyped', InOnePlace'
    PROVE  WebKept'
<1> USE DEF WebKept, MovesOnly, outcomes
<1>1. NothingYet' /\ LastIsHeard'
  BY DEF NothingYet, LastIsHeard
<1>2. WaitsForAnswer'
  BY DEF WaitsForAnswer
<1>3. Accounted'
  BY DEF Accounted, Answered
<1>4. FlushIsOwners'
  BY DEF FlushIsOwners
<1> QED BY <1>1, <1>2, <1>3, <1>4

LEMMA MovingSteps ==
    ASSUME WebKept,
           \/ UNCHANGED queueVars \/ SignalChanges \/ Leaves \/ Reloads \/ RestOver
           \/ \E p \in Persons : Joins(p)
           \/ \E manual \in BOOLEAN : FlushStarts(manual)
           \/ Journalled \/ JournalFails \/ FlushEnds
    PROVE  WebKept'
<1>0. QueueTyped /\ InOnePlace
  BY DEF WebKept
<1> USE FlushFields, NoneHeld
<1>1. CASE UNCHANGED queueVars
  BY <1>1 DEF WebKept, queueVars, queues, outcomes, QueueTyped, InOnePlace, Held, NothingYet, WaitsForAnswer,
       LastIsHeard, Accounted, Answered, FlushIsOwners
<1>2. CASE SignalChanges \/ Leaves \/ RestOver
  <2>1. QueueTyped' /\ UNCHANGED <<waiting, flush, made, done, refused, dropped>> /\ (person' = person \/ person' = NoPerson)
    BY <1>0, <1>2 DEF QueueTyped, SignalChanges, Leaves, RestOver, queues, outcomes
  <2> QED BY <1>0, <2>1, MovesKeep DEF MovesOnly, InOnePlace, Held, outcomes, WebKept, FlushIsOwners
<1>3. ASSUME NEW p \in Persons, Joins(p) PROVE WebKept'
  <2>0. /\ UNCHANGED <<signal, waiting, stored, flush, resting, made, done, refused, dropped, lost>> /\ person' = p
        /\ signIns' \in 0..MaxSignIns
    BY <1>0, <1>3, QueueAssumption DEF QueueTyped, Joins, queues, outcomes
  <2>1. QueueTyped' /\ UNCHANGED <<waiting, flush, made, done, refused, dropped>> /\ person' = p
    BY <1>0, <2>0 DEF QueueTyped
  <2>2. ~JoinInFlight => \A q \in Range(flush.left) : OwnerOf[q] = p
    <3>1. DOMAIN flush.left = 1..Len(flush.left)
      BY <1>0, LenProperties
    <3> QED BY <1>3, <3>1 DEF Joins, Range
  <2> QED BY <1>0, <2>1, <2>2, MovesKeep DEF MovesOnly, InOnePlace, Held, outcomes
<1>4. CASE Reloads
  <2>1. flush' = NoFlush /\ waiting' = waiting /\ stored' = stored
        /\ dropped' = dropped \cup Range(flush.left) \cup Range(flush.retry)
        /\ UNCHANGED <<signal, person, made, done, refused, signIns, lost>> /\ resting' = FALSE
    BY <1>0, <1>4 DEF Reloads, QueueTyped, outcomes
  <2>0. NoFlush.pc = "idle" /\ NoFlush.left = <<>> /\ NoFlush.retry = <<>>
    BY DEF NoFlush
  <2>2. QueueTyped'
    <3>1. dropped' \subseteq Ops /\ flush' \in FlushRecord
      BY <1>0, <2>1 DEF QueueTyped
    <3> QED BY <1>0, <2>0, <2>1, <3>1 DEF QueueTyped
  <2>3. Held' = Range(waiting)
    BY <2>1 DEF Held, NoFlush
  <2>4. InOnePlace' /\ MovesOnly
    BY <1>0, <2>1, <2>3 DEF InOnePlace, MovesOnly, Held, NoFlush, outcomes
  <2> QED BY <2>2, <2>4, MovesKeep
<1>5. ASSUME NEW manual \in BOOLEAN, FlushStarts(manual) PROVE WebKept'
  <2> DEFINE A == {q \in Ops : Own(q)}
             B == {q \in Ops : ~Own(q)}
  <2>1. /\ flush' = [pc |-> "journal", left |-> Filtered(waiting, A), retry |-> <<>>]
        /\ waiting' = Filtered(waiting, B) /\ stored' = waiting'
        /\ UNCHANGED <<signal, person, resting, made, done, refused, dropped, signIns, lost>>
        /\ flush.left = <<>> /\ flush.retry = <<>> /\ person # NoPerson
    BY <1>0, <1>5 DEF FlushStarts, Keep, Taken, OwnOps, outcomes
  <2>2. A \cup B = Ops /\ A \cap B = {} /\ \A q \in A : OwnerOf[q] = person
    BY DEF Own
  <2> HIDE DEF A, B
  <2>3. /\ Filtered(waiting, A) \in Seq(Ops) /\ Range(Filtered(waiting, A)) = Range(waiting) \cap A
        /\ IsInjective(Filtered(waiting, A))
        /\ Filtered(waiting, B) \in Seq(Ops) /\ Range(Filtered(waiting, B)) = Range(waiting) \cap B
        /\ IsInjective(Filtered(waiting, B))
    BY <1>0, FilterKeeps DEF QueueTyped, InOnePlace
  <2>4. flush' \in FlushRecord /\ flush'.pc = "journal" /\ flush'.left = Filtered(waiting, A) /\ flush'.retry = <<>>
    BY <2>1, <2>3, EmptySeq DEF FlushRecord
  <2>5. QueueTyped'
    BY <1>0, <2>1, <2>3, <2>4 DEF QueueTyped
  <2>6. Held' = Held /\ Range(waiting) \subseteq Ops
    BY <1>0, <2>1, <2>2, <2>3, <2>4 DEF Held
  <2>7. InOnePlace' /\ MovesOnly
    BY <1>0, <2>1, <2>2, <2>3, <2>4, <2>6 DEF InOnePlace, MovesOnly, outcomes
  <2> QED BY <2>5, <2>7, MovesKeep
<1>6. CASE Journalled
  <2>1. /\ flush' \in FlushRecord /\ flush'.pc = "replay" /\ flush'.left = flush.left /\ flush'.retry = flush.retry
        /\ UNCHANGED <<signal, person, waiting, stored, resting, made, done, refused, dropped, signIns, lost>>
    BY <1>0, <1>6 DEF Journalled, QueueTyped, FlushRecord, queues, outcomes
  <2>2. QueueTyped'
    BY <1>0, <2>1 DEF QueueTyped
  <2> QED BY <1>0, <2>1, <2>2, MovesKeep DEF MovesOnly, InOnePlace, Held, outcomes, WebKept, FlushIsOwners
<1>7. CASE JournalFails
  <2>1. /\ flush' = NoFlush /\ waiting' = flush.left \o waiting /\ stored' = waiting'
        /\ UNCHANGED <<signal, person, resting, made, done, refused, dropped, signIns>>
        /\ lost' \in 0..MaxLost /\ flush.retry = <<>>
    BY <1>0, <1>7, QueueAssumption DEF JournalFails, Keep, Back, QueueTyped, outcomes
  <2>2. /\ waiting' \in Seq(Ops) /\ Range(waiting') = Range(flush.left) \cup Range(waiting)
        /\ IsInjective(waiting')
    <3>1. /\ flush.left \in Seq(Ops) /\ waiting \in Seq(Ops) /\ IsInjective(flush.left) /\ IsInjective(waiting)
          /\ Range(flush.left) \cap Range(waiting) = {}
      BY <1>0 DEF QueueTyped, InOnePlace
    <3> QED BY <2>1, <3>1, QueueJoins
  <2>3. NoFlush.pc = "idle" /\ NoFlush.left = <<>> /\ NoFlush.retry = <<>>
    BY DEF NoFlush
  <2>4. QueueTyped'
    BY <1>0, <2>1, <2>2, <2>3 DEF QueueTyped
  <2>5. Held' = Held
    BY <2>1, <2>2, <2>3 DEF Held
  <2>6. InOnePlace' /\ MovesOnly
    BY <1>0, <2>1, <2>2, <2>3, <2>5 DEF InOnePlace, MovesOnly, outcomes
  <2> QED BY <2>4, <2>6, MovesKeep
<1>8. CASE FlushEnds
  <2>1. /\ flush' = NoFlush /\ flush.left = <<>> /\ waiting' = stored'
        /\ waiting' = IF flush.retry = <<>> THEN waiting ELSE flush.retry \o waiting
        /\ UNCHANGED <<signal, person, made, done, refused, dropped, signIns, lost>>
        /\ resting' \in BOOLEAN
    BY <1>0, <1>8 DEF FlushEnds, Keep, QueueTyped, queues, outcomes
  <2>2. /\ waiting' \in Seq(Ops) /\ Range(waiting') = Range(flush.retry) \cup Range(waiting)
        /\ IsInjective(waiting')
    <3>1. CASE flush.retry = <<>>
      BY <1>0, <2>1, <3>1 DEF QueueTyped, InOnePlace
    <3>2. CASE flush.retry # <<>>
      <4>1. /\ flush.retry \in Seq(Ops) /\ waiting \in Seq(Ops) /\ IsInjective(flush.retry) /\ IsInjective(waiting)
            /\ Range(flush.retry) \cap Range(waiting) = {}
        BY <1>0 DEF QueueTyped, InOnePlace
      <4> QED BY <2>1, <3>2, <4>1, QueueJoins
    <3> QED BY <3>1, <3>2
  <2>3. NoFlush.pc = "idle" /\ NoFlush.left = <<>> /\ NoFlush.retry = <<>>
    BY DEF NoFlush
  <2>4. QueueTyped'
    BY <1>0, <2>1, <2>2, <2>3 DEF QueueTyped
  <2>5. Held' = Held
    BY <2>1, <2>2, <2>3 DEF Held
  <2>6. InOnePlace' /\ MovesOnly
    BY <1>0, <2>1, <2>2, <2>3, <2>5 DEF InOnePlace, MovesOnly, outcomes
  <2> QED BY <2>4, <2>6, MovesKeep
<1> QED BY <1>1, <1>2, <1>3, <1>4, <1>5, <1>6, <1>7, <1>8

LEMMA EnqueueStep == ASSUME WebKept, NEW q \in Ops, Enqueue(q) PROVE WebKept'
<1>0. QueueTyped /\ InOnePlace /\ q \notin made
  BY DEF WebKept, Enqueue
<1> USE FlushFields
<1>1. /\ waiting' = Append(waiting, q) /\ stored' = waiting' /\ made' = made \cup {q}
      /\ UNCHANGED <<signal, person, flush, resting, done, refused, dropped, signIns, lost>>
  BY DEF Enqueue, Keep, outcomes
<1>2. q \notin Held
  BY <1>0 DEF InOnePlace
<1>3. /\ waiting' \in Seq(Ops) /\ Range(waiting') = Range(waiting) \cup {q} /\ IsInjective(waiting')
  BY <1>0, <1>1, <1>2, QueueParts DEF QueueTyped, InOnePlace, Held
<1>4. Held' = Held \cup {q}
  BY <1>1, <1>3 DEF Held
<1>5. QueueTyped'
  BY <1>0, <1>1, <1>3 DEF QueueTyped
<1>6. InOnePlace'
  BY <1>0, <1>1, <1>2, <1>3, <1>4 DEF InOnePlace, Held
<1>7. q \notin refused /\ DOMAIN done[q] = {}
  <2>1. q \notin refused /\ done[q] = <<>>
    BY <1>0 DEF WebKept, NothingYet
  <2>2. DOMAIN <<>> = {}
    OBVIOUS
  <2> QED BY <2>1, <2>2
<1>8. NothingYet' /\ LastIsHeard' /\ FlushIsOwners'
  BY <1>1 DEF WebKept, NothingYet, LastIsHeard, FlushIsOwners
<1>9. WaitsForAnswer' /\ Accounted'
  BY <1>1, <1>4, <1>7 DEF WebKept, WaitsForAnswer, Accounted, Answered
<1> QED BY <1>5, <1>6, <1>8, <1>9 DEF WebKept

\* A call of the replay: the first change of what is left, whose answer settles it.
LEMMA CallSteps ==
    ASSUME WebKept, ReplayAnswered \/ ReplayLost \/ ReplayUnsigned
    PROVE  WebKept'
<1>0. QueueTyped /\ InOnePlace
  BY DEF WebKept
<1> USE FlushFields
<1> DEFINE h == Head(flush.left)
           replayed == ReplayLost
<1>1. /\ flush.pc = "replay" /\ flush.left # <<>>
      /\ flush' = [flush EXCEPT !.left = Tail(@), !.retry = IF replayed THEN Append(flush.retry, h) ELSE flush.retry]
  BY DEF ReplayAnswered, ReplayLost, ReplayUnsigned, Replaying, Proceeds
<1>2. UNCHANGED <<signal, person, waiting, stored, resting, made, signIns>>
  BY DEF ReplayAnswered, ReplayLost, ReplayUnsigned, queues
<1>3. /\ h \in Ops /\ Tail(flush.left) \in Seq(Ops)
      /\ Range(flush.left) = Range(Tail(flush.left)) \cup {h} /\ h \notin Range(Tail(flush.left))
      /\ IsInjective(Tail(flush.left))
  BY <1>0, <1>1, QueueParts DEF InOnePlace
<1>4. h \notin Range(flush.retry) /\ h \notin Range(waiting) /\ h \in Held /\ h \in made
  BY <1>0, <1>3 DEF InOnePlace, Held
<1>5. /\ Append(flush.retry, h) \in Seq(Ops) /\ Range(Append(flush.retry, h)) = Range(flush.retry) \cup {h}
      /\ IsInjective(Append(flush.retry, h))
  BY <1>0, <1>3, <1>4, QueueParts DEF InOnePlace
<1> HIDE DEF h
<1>6. /\ flush' \in FlushRecord /\ flush'.pc = "replay"
      /\ flush'.left = Tail(flush.left)
      /\ flush'.retry = IF replayed THEN Append(flush.retry, h) ELSE flush.retry
  BY <1>0, <1>1, <1>3, <1>5 DEF QueueTyped, FlushRecord
<1>7. /\ Held' = IF replayed THEN Held ELSE Held \ {h}
      /\ InOnePlace'
  BY <1>0, <1>2, <1>3, <1>4, <1>5, <1>6 DEF InOnePlace, Held
<1>8. \A q \in Range(flush'.left) : q \in Range(flush.left)
  BY <1>3, <1>6
<1>9. h \notin refused /\ \A n \in DOMAIN done[h] : ~done[h][n].heard
  BY <1>4 DEF WebKept, WaitsForAnswer
\* What a call does to done: nothing, or one entry more for h.
<1>10. ASSUME NEW heard \in BOOLEAN, Applied(h, heard), person # NoPerson
       PROVE  /\ done' \in [Ops -> Seq([by : Persons, heard : BOOLEAN])]
              /\ \A q \in Ops : q # h => done'[q] = done[q]
              /\ Len(done'[h]) = Len(done[h]) + 1 /\ DOMAIN done'[h] = 1..(Len(done[h]) + 1)
              /\ DOMAIN done[h] = 1..Len(done[h])
              /\ \A n \in 1..Len(done[h]) : done'[h][n] = done[h][n]
              /\ done'[h][Len(done[h]) + 1].by = person
              /\ done'[h][Len(done[h]) + 1].heard = heard
  <2> DEFINE call == [by |-> person, heard |-> heard]
  <2>1. call \in [by : Persons, heard : BOOLEAN] /\ call.by = person /\ call.heard = heard
    BY <1>0, <1>10 DEF QueueTyped
  <2> HIDE DEF call
  <2>2. done[h] \in Seq([by : Persons, heard : BOOLEAN])
    BY <1>0, <1>3
  <2>3. /\ Append(done[h], call) \in Seq([by : Persons, heard : BOOLEAN])
        /\ Len(Append(done[h], call)) = Len(done[h]) + 1
        /\ \A n \in 1..Len(done[h]) : Append(done[h], call)[n] = done[h][n]
        /\ Append(done[h], call)[Len(done[h]) + 1] = call
    BY <2>1, <2>2, AppendProperties
  <2>4. done' = [done EXCEPT ![h] = Append(done[h], call)]
    BY <1>10 DEF Applied, call
  <2>5. done'[h] = Append(done[h], call)
    BY <1>0, <1>3, <2>4 DEF QueueTyped
  <2>6. DOMAIN done'[h] = 1..(Len(done[h]) + 1) /\ DOMAIN done[h] = 1..Len(done[h])
    BY <2>2, <2>3, <2>5, LenProperties
  <2> QED BY <1>0, <1>3, <2>1, <2>3, <2>4, <2>5, <2>6 DEF QueueTyped
<1>11. \/ UNCHANGED done
       \/ \E heard \in BOOLEAN : Applied(h, heard) /\ (replayed => ~heard) /\ (heard => ~ReplayUnsigned)
  BY DEF ReplayAnswered, ReplayLost, ReplayUnsigned, outcomes, h
<1>12. /\ done' \in [Ops -> Seq([by : Persons, heard : BOOLEAN])]
       /\ \A q \in Ops : q # h => done'[q] = done[q]
       /\ \A n \in DOMAIN done'[h] : done'[h][n].heard => n = Len(done'[h]) /\ ~replayed
       /\ ~JoinInFlight => \A n \in DOMAIN done'[h] : done'[h][n].by = OwnerOf[h]
  <2>1. ~JoinInFlight => \A n \in DOMAIN done[h] : done[h][n].by = OwnerOf[h]
    BY <1>3 DEF WebKept, FlushIsOwners
  <2>2. ~JoinInFlight /\ person # NoPerson => OwnerOf[h] = person
    BY <1>3 DEF WebKept, FlushIsOwners
  <2>3. CASE UNCHANGED done
    BY <1>0, <1>9, <2>1, <2>3 DEF QueueTyped
  <2>4. ASSUME NEW heard \in BOOLEAN, Applied(h, heard), replayed => ~heard, person # NoPerson
        PROVE  /\ \A n \in DOMAIN done'[h] : done'[h][n].heard => n = Len(done'[h]) /\ ~replayed
               /\ ~JoinInFlight => \A n \in DOMAIN done'[h] : done'[h][n].by = OwnerOf[h]
    <3> DEFINE m == Len(done[h])
    <3>1. /\ Len(done'[h]) = m + 1 /\ DOMAIN done'[h] = 1..(m + 1) /\ DOMAIN done[h] = 1..m
          /\ \A n \in 1..m : done'[h][n] = done[h][n]
          /\ done'[h][m + 1].by = person /\ done'[h][m + 1].heard = heard
      BY <1>10, <2>4
    <3>2. m \in Nat
      BY <1>0, <1>3, LenProperties
    <3> HIDE DEF m
    <3>3. \A n \in 1..(m + 1) : n \in 1..m \/ n = m + 1
      BY <3>2
    <3> QED BY <1>9, <2>1, <2>2, <2>4, <3>1, <3>3
  <2>5. done # done' => person # NoPerson
    BY DEF ReplayAnswered, ReplayLost, ReplayUnsigned, outcomes
  <2> QED BY <1>10, <1>11, <2>3, <2>4, <2>5
<1>13. /\ refused \subseteq refused' /\ refused' \subseteq refused \cup {h} /\ (replayed => refused' = refused)
       /\ dropped \subseteq dropped' /\ dropped' \subseteq dropped \cup {h}
       /\ lost' \in 0..MaxLost
  <2>1. lost \in 0..MaxLost /\ (lost < MaxLost => lost + 1 \in 0..MaxLost)
    BY <1>0, QueueAssumption DEF QueueTyped
  <2>2. lost' \in 0..MaxLost
    BY <2>1 DEF ReplayAnswered, ReplayLost, ReplayUnsigned
  <2>3. refused' = refused \/ refused' = refused \cup {h}
    BY DEF ReplayAnswered, ReplayLost, ReplayUnsigned, outcomes, h
  <2>4. dropped' = dropped \/ dropped' = dropped \cup {h}
    BY DEF ReplayAnswered, ReplayLost, ReplayUnsigned, h
  <2>5. replayed => refused' = refused
    BY DEF ReplayLost
  <2> QED BY <2>2, <2>3, <2>4, <2>5
<1>14. replayed \/ h \in dropped' \/ h \in refused' \/ \E n \in DOMAIN done'[h] : done'[h][n].heard
  <2>1. CASE Applied(h, TRUE) /\ person # NoPerson
    <3>1. Len(done[h]) + 1 \in DOMAIN done'[h] /\ done'[h][Len(done[h]) + 1].heard
      <4>1. Len(done[h]) \in Nat
        BY <1>0, <1>3, LenProperties
      <4>2. DOMAIN done'[h] = 1..(Len(done[h]) + 1) /\ done'[h][Len(done[h]) + 1].heard = TRUE
        BY <1>10, <2>1
      <4> QED BY <4>1, <4>2
    <3> QED BY <3>1
  <2> QED BY <2>1 DEF ReplayAnswered, ReplayUnsigned, h
<1>15. QueueTyped'
  BY <1>0, <1>2, <1>3, <1>6, <1>12, <1>13 DEF QueueTyped
<1>16. NothingYet'
  BY <1>2, <1>4, <1>12, <1>13 DEF WebKept, NothingYet
<1>17. LastIsHeard'
  BY <1>12 DEF WebKept, LastIsHeard
<1>18. WaitsForAnswer'
  <2> SUFFICES ASSUME NEW q \in Held' PROVE q \notin refused' /\ \A n \in DOMAIN done'[q] : ~done'[q][n].heard
    BY DEF WaitsForAnswer
  <2>1. q \in Held /\ q \in Ops /\ (q = h => replayed)
    BY <1>0, <1>7 DEF InOnePlace, QueueTyped
  <2>2. q \notin refused /\ \A n \in DOMAIN done[q] : ~done[q][n].heard
    BY <2>1 DEF WebKept, WaitsForAnswer
  <2> QED BY <1>12, <1>13, <2>1, <2>2
<1>19. Accounted'
  <2> SUFFICES ASSUME NEW q \in made PROVE q \in Held' \/ Answered(q)' \/ q \in dropped'
    BY <1>2 DEF Accounted
  <2>1. q \in Ops /\ (q \in Held \/ Answered(q) \/ q \in dropped)
    BY <1>0 DEF WebKept, Accounted, QueueTyped
  <2>2. CASE q = h
    BY <1>4, <1>7, <1>14, <2>2 DEF Answered
  <2>3. CASE q # h
    BY <1>7, <1>12, <1>13, <2>1, <2>3 DEF Answered
  <2> QED BY <2>2, <2>3
<1>20. FlushIsOwners'
  BY <1>2, <1>8, <1>12 DEF WebKept, FlushIsOwners
<1> QED BY <1>7, <1>15, <1>16, <1>17, <1>18, <1>19, <1>20 DEF WebKept

LEMMA WebStep == WebKept /\ [QueueNext]_queueVars => WebKept'
BY MovingSteps, EnqueueStep, CallSteps DEF QueueNext

LEMMA WebAlwaysKept == QueueSpec => []WebKept
BY WebInitKept, WebStep, PTL DEF QueueSpec

LEMMA WaitingIsHeld == ASSUME QueueTyped, NEW q PROVE Waiting(q) <=> q \in Held
<1>1. Contains(waiting, q) <=> q \in Range(waiting)
  BY QueueParts DEF QueueTyped
<1>2. Contains(flush.left, q) <=> q \in Range(flush.left)
  BY FlushFields, QueueParts
<1>3. Contains(flush.retry, q) <=> q \in Range(flush.retry)
  BY FlushFields, QueueParts
<1> QED BY <1>1, <1>2, <1>3 DEF Waiting, Held

\* The queue, its flush and what was answered have their types.
THEOREM QueueTypes == QueueSpec => []QueueTypeOK
<1>1. WebKept => QueueTypeOK
  BY QueueParts DEF WebKept, QueueTyped, QueueTypeOK, FlushRecord
<1> QED BY <1>1, WebAlwaysKept, PTL

\* flushQueue of app.html, whoever signs in while it runs and however its calls are
\* lost: a change the user made without signal waits, in the queue or in a flush, until
\* the server has answered it, unless the page or its user left the flush.
THEOREM NoChangeIsLost == QueueSpec => []KeptOrAnswered
<1>1. WebKept => KeptOrAnswered
  BY WaitingIsHeld DEF WebKept, Accounted, KeptOrAnswered
<1> QED BY <1>1, WebAlwaysKept, PTL

\* "Replay the queue exactly once": where nobody else signs in during a flush, a change
\* is applied for the user who queued it, and never again once its answer has arrived.
THEOREM ChangesAreReplayedOnce == ~JoinInFlight => (QueueSpec => []ReplayedOnce)
<1> SUFFICES ASSUME ~JoinInFlight PROVE QueueSpec => []ReplayedOnce
  OBVIOUS
<1>1. WebKept => ReplayedForItsOwner
  <2> SUFFICES ASSUME WebKept, NEW q \in Ops
               PROVE  /\ \A n \in DOMAIN done[q] : done[q][n].by = OwnerOf[q]
                      /\ \A n \in DOMAIN done[q] : done[q][n].heard => n = Len(done[q])
                      /\ Answered(q) => ~Waiting(q)
    BY DEF ReplayedForItsOwner
  <2>1. QueueTyped /\ LastIsHeard /\ WaitsForAnswer /\ FlushIsOwners
    BY DEF WebKept
  <2>2. Answered(q) => ~Waiting(q)
    BY <2>1, WaitingIsHeld DEF WaitsForAnswer, Answered
  <2> QED BY <2>1, <2>2 DEF LastIsHeard, FlushIsOwners
<1>2. QueueSpec => []ReplayedForItsOwner
  BY <1>1, WebAlwaysKept, PTL
<1> QED BY <1>2, NoChangeIsLost, PTL DEF ReplayedOnce

-----------------------------------------------------------------------------
(* The line of a feature phone *)

Places == {"unsent", "failed", "arrived", "register", "verb", "grant", "reply", "answered", "claim", "alert",
           "cancel", "again", "open", "vehicle", "link", "book"}
Replies == {"nothing yet", "received", "nothingToCancel", "tooLate", "cancelled", "accepted", "changed",
            "whichVehicle", "alreadyOpen", "requested"}
Hands == {Nobody, "mechanic"}
SawRecord == [n : Nat, status : Status, version : Nat, mech : Hands]
LineRecord == [pc : Places, saw : SawRecord, says : Replies]
RequestRecord == [by : Texts \cup {"app"}, status : Status, version : Nat, mech : Hands,
                  over : [by : Texts \cup {Nobody}, was : Status, knew : Hands]]
AlarmRecord == [by : Texts, status : {"CONFIRMED", "RESPONDING", "CANCELLED"}]

SmsTyped ==
    /\ verb \in [Texts -> Verbs]
    /\ request \in Seq(RequestRecord) /\ alarm \in Seq(AlarmRecord)
    /\ line \in [Texts -> LineRecord] /\ cut \in [Texts -> Nat]

\* What a handling that was not cut off has done by now.
Acted(t) == IF line[t].pc \in {"claim", "alert", "reply", "answered"} THEN 1 ELSE 0
ActsCounted == \A t \in Texts : Cardinality(Made(t)) + Cardinality(Raised(t)) <= cut[t] + Acted(t)

\* A text that is about to cancel saw a cancellable booking, and whom it saw assigned
\* is still assigned unless the row has moved on.
CancelSees ==
    \A t \in Texts : line[t].pc = "cancel" =>
        /\ line[t].saw.n \in DOMAIN request /\ line[t].saw.status \in Cancellable
        /\ line[t].saw.version <= request[line[t].saw.n].version
        /\ line[t].saw.version = request[line[t].saw.n].version => line[t].saw.mech = request[line[t].saw.n].mech

SmsKept == SmsTyped /\ ActsCounted /\ CancelSees /\ NoBlindCancel

LEMMA Counts ==
    ASSUME SmsTyped, NEW t
    PROVE  /\ IsFiniteSet(Made(t)) /\ IsFiniteSet(Raised(t))
           /\ Cardinality(Made(t)) \in Nat /\ Cardinality(Raised(t)) \in Nat
<1>1. DOMAIN request = 1..Len(request) /\ Len(request) \in Nat /\ DOMAIN alarm = 1..Len(alarm) /\ Len(alarm) \in Nat
  BY LenProperties DEF SmsTyped
<1>2. IsFiniteSet(1..Len(request)) /\ IsFiniteSet(1..Len(alarm))
  BY <1>1, FS_Interval
<1>3. IsFiniteSet(Made(t)) /\ IsFiniteSet(Raised(t))
  BY <1>1, <1>2, FS_Subset DEF Made, Raised
<1> QED BY <1>3, FS_CardinalityType

\* The handling of a text moves on, and the others do not.
LEMMA LineMoves ==
    ASSUME SmsTyped, NEW t \in Texts, NEW pc \in Places
    PROVE  /\ Goes(t, pc) =>
                /\ line' \in [Texts -> LineRecord] /\ line'[t].pc = pc /\ line'[t].saw = line[t].saw
                /\ \A u \in Texts : u # t => line'[u] = line[u]
           /\ \A key \in Replies : Answers(t, key) =>
                /\ line' \in [Texts -> LineRecord] /\ line'[t].pc = "reply" /\ line'[t].saw = line[t].saw
                /\ \A u \in Texts : u # t => line'[u] = line[u]
<1>0. line[t] \in LineRecord
  BY DEF SmsTyped
<1>1. ASSUME NEW p \in Places, NEW key \in Replies
      PROVE  \E l \in LineRecord : /\ l = [line[t] EXCEPT !.pc = p, !.says = key]
                                   /\ l.pc = p /\ l.saw = line[t].saw
  <2> DEFINE l == [line[t] EXCEPT !.pc = p, !.says = key]
  <2>1. l \in LineRecord /\ l.pc = p /\ l.saw = line[t].saw
    BY <1>0 DEF LineRecord
  <2> HIDE DEF l
  <2>2. l = [line[t] EXCEPT !.pc = p, !.says = key]
    BY DEF l
  <2> QED BY <2>1, <2>2
<1>2. ASSUME NEW p \in Places
      PROVE  \E l \in LineRecord : /\ l = [line[t] EXCEPT !.pc = p]
                                   /\ l.pc = p /\ l.saw = line[t].saw
  <2> DEFINE l == [line[t] EXCEPT !.pc = p]
  <2>1. l \in LineRecord /\ l.pc = p /\ l.saw = line[t].saw
    BY <1>0 DEF LineRecord
  <2> HIDE DEF l
  <2>2. l = [line[t] EXCEPT !.pc = p]
    BY DEF l
  <2> QED BY <2>1, <2>2
<1>3. ASSUME Goes(t, pc)
      PROVE  /\ line' \in [Texts -> LineRecord] /\ line'[t].pc = pc /\ line'[t].saw = line[t].saw
             /\ \A u \in Texts : u # t => line'[u] = line[u]
  <2>1. PICK l \in LineRecord : l = [line[t] EXCEPT !.pc = pc] /\ l.pc = pc /\ l.saw = line[t].saw
    BY <1>2
  <2>2. line' = [line EXCEPT ![t] = l]
    BY <1>3, <2>1 DEF Goes
  <2> QED BY <2>1, <2>2 DEF SmsTyped
<1>4. ASSUME NEW key \in Replies, Answers(t, key)
      PROVE  /\ line' \in [Texts -> LineRecord] /\ line'[t].pc = "reply" /\ line'[t].saw = line[t].saw
             /\ \A u \in Texts : u # t => line'[u] = line[u]
  <2>1. PICK l \in LineRecord : l = [line[t] EXCEPT !.pc = "reply", !.says = key] /\ l.pc = "reply" /\ l.saw = line[t].saw
    <3>1. "reply" \in Places
      BY DEF Places
    <3>2. \E l \in LineRecord : /\ l = [line[t] EXCEPT !.pc = "reply", !.says = key]
                                /\ l.pc = "reply" /\ l.saw = line[t].saw
      BY ONLY <1>1, <1>4, <3>1
    <3> QED BY <3>2
  <2>2. line' = [line EXCEPT ![t] = l]
    BY <1>4, <2>1 DEF Answers
  <2> QED BY <2>1, <2>2 DEF SmsTyped
<1> QED BY <1>3, <1>4

\* Steps that leave the bookings and the incidents: no handling forgets that it acted.
LEMMA TalkKeeps ==
    ASSUME SmsKept, SmsTyped', UNCHANGED <<request, alarm>>,
           NEW t \in Texts,
           \A u \in Texts : u # t => line'[u] = line[u] /\ cut'[u] = cut[u],
           cut'[t] + Acted(t)' >= cut[t] + Acted(t),
           line'[t].pc = "cancel" =>
             /\ line'[t].saw.n \in DOMAIN request /\ line'[t].saw.status \in Cancellable
             /\ line'[t].saw.version = request[line'[t].saw.n].version
             /\ line'[t].saw.mech = request[line'[t].saw.n].mech
    PROVE  SmsKept'
<1>1. \A u \in Texts : Made(u)' = Made(u) /\ Raised(u)' = Raised(u)
  BY DEF Made, Raised
<1>2. \A u \in Texts : cut'[u] + Acted(u)' >= cut[u] + Acted(u)
  <2> SUFFICES ASSUME NEW u \in Texts, u # t PROVE cut'[u] + Acted(u)' >= cut[u] + Acted(u)
    OBVIOUS
  <2> QED BY DEF Acted, SmsKept, SmsTyped
<1>3. ActsCounted'
  <2> SUFFICES ASSUME NEW u \in Texts
               PROVE  Cardinality(Made(u)') + Cardinality(Raised(u)') <= cut'[u] + Acted(u)'
    BY DEF ActsCounted
  <2>1. Cardinality(Made(u)) + Cardinality(Raised(u)) <= cut[u] + Acted(u)
    BY DEF SmsKept, ActsCounted
  <2>2. Cardinality(Made(u)) \in Nat /\ Cardinality(Raised(u)) \in Nat /\ cut[u] \in Nat /\ cut'[u] \in Nat
    BY Counts DEF SmsKept, SmsTyped
  <2>3. Acted(u) \in Nat /\ Acted(u)' \in Nat
    BY DEF Acted
  <2>4. cut'[u] + Acted(u)' >= cut[u] + Acted(u)
    BY <1>2
  <2> HIDE DEF Acted
  <2> QED BY <1>1, <2>1, <2>2, <2>3, <2>4
<1>4. CancelSees'
  <2> SUFFICES ASSUME NEW u \in Texts, line'[u].pc = "cancel"
               PROVE  /\ line'[u].saw.n \in DOMAIN request /\ line'[u].saw.status \in Cancellable
                      /\ line'[u].saw.version <= request[line'[u].saw.n].version
                      /\ line'[u].saw.version = request[line'[u].saw.n].version
                           => line'[u].saw.mech = request[line'[u].saw.n].mech
    BY DEF CancelSees
  <2>1. CASE u = t
    <3>1. line'[t].saw.version \in Nat
      BY DEF SmsTyped, LineRecord, SawRecord
    <3> QED BY <2>1, <3>1
  <2>2. CASE u # t
    BY <2>2 DEF SmsKept, CancelSees
  <2> QED BY <2>1, <2>2
<1>5. NoBlindCancel'
  BY DEF SmsKept, NoBlindCancel
<1> QED BY <1>3, <1>4, <1>5 DEF SmsKept

LEMMA TalkSteps ==
    ASSUME SmsKept, NEW t \in Texts,
           \/ Deliver(t) \/ FindAccount(t) \/ Register(t) \/ Grant(t) \/ TextBack(t) \/ CutOff(t)
           \/ Escalated(t) \/ ReadAgain(t) \/ HelpFind(t) \/ AddVehicle(t) \/ LinkVehicle(t) \/ OpenRead(t)
    PROVE  SmsKept'
<1>0. SmsTyped /\ line[t].pc \in Places /\ cut[t] \in Nat
  BY DEF SmsKept, SmsTyped, LineRecord
<1>1. ASSUME cut' = cut, UNCHANGED <<verb, request, alarm>>, NEW pc \in Places \ {"cancel"}, Goes(t, pc),
             pc \in {"reply", "answered", "claim", "alert"} \/ line[t].pc \notin {"reply", "answered", "claim", "alert"}
      PROVE  SmsKept'
  <2>1. /\ line' \in [Texts -> LineRecord] /\ line'[t].pc = pc
        /\ \A u \in Texts : u # t => line'[u] = line[u]
    BY <1>0, <1>1, LineMoves
  <2>2. SmsTyped'
    BY <1>0, <1>1, <2>1 DEF SmsTyped
  <2>3. cut'[t] + Acted(t)' >= cut[t] + Acted(t)
    BY <1>0, <1>1, <2>1 DEF Acted
  <2> QED BY <1>1, <2>1, <2>2, <2>3, TalkKeeps
<1>2. ASSUME cut' = cut, UNCHANGED <<verb, request, alarm>>, NEW key \in Replies, Answers(t, key)
      PROVE  SmsKept'
  <2>1. /\ line' \in [Texts -> LineRecord] /\ line'[t].pc = "reply"
        /\ \A u \in Texts : u # t => line'[u] = line[u]
    BY <1>0, <1>2, LineMoves DEF Places
  <2>2. SmsTyped'
    BY <1>0, <1>2, <2>1 DEF SmsTyped
  <2>3. cut'[t] + Acted(t)' >= cut[t] + Acted(t)
    BY <1>0, <1>2, <2>1 DEF Acted
  <2> QED BY <1>2, <2>1, <2>2, <2>3, TalkKeeps
<1> USE DEF Places, Replies, At
<1>3. CASE Deliver(t)
  BY <1>1, <1>3 DEF Deliver
<1>4. CASE FindAccount(t)
  <2>1. PICK pc \in {"register", "verb"} : Goes(t, pc)
    BY <1>4 DEF FindAccount
  <2> QED BY <1>1, <1>4, <2>1 DEF FindAccount
<1>5. CASE Register(t)
  BY <1>1, <1>5 DEF Register
<1>6. CASE Grant(t)
  BY <1>1, <1>6 DEF Grant
<1>7. CASE TextBack(t)
  BY <1>1, <1>7 DEF TextBack, AfterReply
<1>8. CASE CutOff(t)
  <2>1. cut' = [cut EXCEPT ![t] = cut[t] + 1] /\ Goes(t, "failed") /\ UNCHANGED <<verb, request, alarm>>
    BY <1>8 DEF CutOff
  <2>2. /\ line' \in [Texts -> LineRecord] /\ line'[t].pc = "failed"
        /\ \A u \in Texts : u # t => line'[u] = line[u]
    BY <1>0, <2>1, LineMoves
  <2>3. cut' \in [Texts -> Nat] /\ cut'[t] = cut[t] + 1 /\ \A u \in Texts : u # t => cut'[u] = cut[u]
    BY <1>0, <2>1 DEF SmsTyped
  <2>4. SmsTyped'
    BY <1>0, <2>1, <2>2, <2>3 DEF SmsTyped
  <2>5. cut'[t] + Acted(t)' >= cut[t] + Acted(t)
    BY <1>0, <2>2, <2>3 DEF Acted
  <2> QED BY <2>1, <2>2, <2>3, <2>4, <2>5, TalkKeeps
<1>9. CASE Escalated(t)
  BY <1>2, <1>9 DEF Escalated
<1>10. CASE ReadAgain(t)
  <2>1. PICK key \in {"accepted", "changed"} : Answers(t, key)
    BY <1>10 DEF ReadAgain
  <2> QED BY <1>2, <1>10, <2>1 DEF ReadAgain
<1>11. CASE HelpFind(t)
  BY <1>1, <1>2, <1>11 DEF HelpFind
<1>12. CASE AddVehicle(t)
  BY <1>1, <1>12 DEF AddVehicle
<1>13. CASE LinkVehicle(t)
  BY <1>1, <1>13 DEF LinkVehicle
<1>14. CASE OpenRead(t)
  BY <1>1, <1>2, <1>14 DEF OpenRead
<1> QED BY <1>3, <1>4, <1>5, <1>6, <1>7, <1>8, <1>9, <1>10, <1>11, <1>12, <1>13, <1>14

\* Steps after which a booking or an incident is there that was not.
LEMMA ActSteps ==
    ASSUME SmsKept, (\E t \in Texts : RaiseSos(t) \/ Book(t)) \/ AppBooks
    PROVE  SmsKept'
<1>0. /\ SmsTyped /\ Len(request) \in Nat /\ Len(alarm) \in Nat
      /\ DOMAIN request = 1..Len(request) /\ DOMAIN alarm = 1..Len(alarm)
  BY LenProperties DEF SmsKept, SmsTyped
<1>1. ASSUME NEW by \in Texts \cup {"app"}
      PROVE  /\ Request(by) \in RequestRecord /\ Request(by).by = by
             /\ Request(by).over.by = Nobody
  BY DEF Request, RequestRecord, Status, Hands
<1>2. ASSUME NEW by \in Texts \cup {"app"}, request' = Append(request, Request(by)), UNCHANGED <<verb, alarm, cut>>,
             line' \in [Texts -> LineRecord],
             \A u \in Texts : u # by => line'[u] = line[u],
             by \in Texts => line[by].pc = "book" /\ line'[by].pc = "reply"
      PROVE  SmsKept'
  <2>1. /\ request' \in Seq(RequestRecord) /\ DOMAIN request' = 1..(Len(request) + 1)
        /\ \A n \in 1..Len(request) : request'[n] = request[n]
        /\ request'[Len(request) + 1] = Request(by)
    BY <1>0, <1>1, <1>2, AppendProperties, LenProperties DEF SmsTyped
  <2>2. 1..(Len(request) + 1) = 1..Len(request) \cup {Len(request) + 1}
        /\ Len(request) + 1 \notin 1..Len(request)
    BY <1>0
  <2>3. SmsTyped'
    BY <1>0, <1>2, <2>1 DEF SmsTyped
  <2>4. ActsCounted'
    <3> SUFFICES ASSUME NEW u \in Texts
                 PROVE  Cardinality(Made(u)') + Cardinality(Raised(u)') <= cut'[u] + Acted(u)'
      BY DEF ActsCounted
    <3>1. /\ Cardinality(Made(u)) + Cardinality(Raised(u)) <= cut[u] + Acted(u)
          /\ Cardinality(Made(u)) \in Nat /\ Cardinality(Raised(u)) \in Nat /\ IsFiniteSet(Made(u))
          /\ cut[u] \in Nat /\ cut'[u] = cut[u] /\ Raised(u)' = Raised(u)
      BY <1>0, <1>2, Counts DEF SmsKept, ActsCounted, SmsTyped, Raised
    <3>2. CASE u # by
      <4>1. Made(u)' = Made(u)
        BY <1>0, <1>1, <2>1, <2>2, <3>2 DEF Made
      <4>2. Acted(u)' = Acted(u)
        BY <1>2, <3>2 DEF Acted
      <4> QED BY <3>1, <4>1, <4>2
    <3>3. CASE u = by
      <4>1. Made(u)' = Made(u) \cup {Len(request) + 1} /\ Len(request) + 1 \notin Made(u)
        BY <1>0, <1>1, <2>1, <2>2, <3>3 DEF Made
      <4>2. Cardinality(Made(u)') = Cardinality(Made(u)) + 1
        BY <3>1, <4>1, FS_AddElement
      <4>3. Acted(u) = 0 /\ Acted(u)' = 1
        BY <1>2, <3>3 DEF Acted
      <4> QED BY <3>1, <4>2, <4>3
    <3> QED BY <3>2, <3>3
  <2>5. CancelSees'
    <3> SUFFICES ASSUME NEW u \in Texts, line'[u].pc = "cancel"
                 PROVE  /\ line'[u].saw.n \in DOMAIN request' /\ line'[u].saw.status \in Cancellable
                        /\ line'[u].saw.version <= request'[line'[u].saw.n].version
                        /\ line'[u].saw.version = request'[line'[u].saw.n].version
                             => line'[u].saw.mech = request'[line'[u].saw.n].mech
      BY DEF CancelSees
    <3>1. line'[u] = line[u]
      BY <1>2
    <3> QED BY <1>0, <2>1, <2>2, <3>1 DEF SmsKept, CancelSees
  <2>6. NoBlindCancel'
    <3> SUFFICES ASSUME NEW n \in 1..(Len(request) + 1), request'[n].over.by # Nobody
                 PROVE  /\ request'[n].status = "CANCELLED" /\ request'[n].over.was \in Cancellable
                        /\ request'[n].mech = request'[n].over.knew
      BY <2>1 DEF NoBlindCancel
    <3>1. n \in 1..Len(request) /\ request'[n] = request[n]
      BY <1>1, <2>1, <2>2
    <3> QED BY <1>0, <3>1 DEF SmsKept, NoBlindCancel
  <2> QED BY <2>3, <2>4, <2>5, <2>6 DEF SmsKept
<1>3. CASE AppBooks
  BY <1>0, <1>2, <1>3, SmsAssumption DEF AppBooks, SmsTyped
<1>4. ASSUME NEW t \in Texts, Book(t) PROVE SmsKept'
  <2>1. Answers(t, "requested") /\ "requested" \in Replies
    BY <1>4 DEF Book, Replies
  <2>2. /\ line' \in [Texts -> LineRecord] /\ line'[t].pc = "reply"
        /\ \A u \in Texts : u # t => line'[u] = line[u]
    BY <1>0, <2>1, LineMoves DEF Places
  <2> QED BY <1>2, <1>4, <2>2 DEF Book, At
<1>5. ASSUME NEW t \in Texts, RaiseSos(t) PROVE SmsKept'
  <2> DEFINE a == [by |-> t, status |-> "CONFIRMED"]
  <2>1. a \in AlarmRecord /\ a.by = t
    BY DEF AlarmRecord
  <2>2. alarm' = Append(alarm, a) /\ UNCHANGED <<verb, request, cut>>
    BY <1>5 DEF RaiseSos
  <2> HIDE DEF a
  <2>3. /\ alarm' \in Seq(AlarmRecord) /\ DOMAIN alarm' = 1..(Len(alarm) + 1)
        /\ \A n \in 1..Len(alarm) : alarm'[n] = alarm[n]
        /\ alarm'[Len(alarm) + 1] = a
    BY <1>0, <2>1, <2>2, AppendProperties, LenProperties DEF SmsTyped
  <2>4. 1..(Len(alarm) + 1) = 1..Len(alarm) \cup {Len(alarm) + 1}
        /\ Len(alarm) + 1 \notin 1..Len(alarm) /\ Len(alarm) + 1 \in Nat
    BY <1>0
  <2>5. /\ line' \in [Texts -> LineRecord] /\ line'[t].pc = "claim" /\ line[t].pc = "verb"
        /\ \A u \in Texts : u # t => line'[u] = line[u]
    <3>1. line[t] \in LineRecord /\ "claim" \in Places
      BY <1>0 DEF SmsTyped, Places
    <3> DEFINE saw == [line[t].saw EXCEPT !.n = Len(alarm) + 1]
               l == [line[t] EXCEPT !.pc = "claim", !.saw = saw]
    <3>2. saw \in SawRecord
      BY <2>4, <3>1 DEF LineRecord, SawRecord
    <3>3. line' = [line EXCEPT ![t] = l]
      BY <1>5 DEF RaiseSos
    <3> HIDE DEF saw
    <3>4. l \in LineRecord /\ l.pc = "claim"
      BY <3>1, <3>2 DEF LineRecord
    <3> HIDE DEF l
    <3> QED BY <1>0, <1>5, <3>3, <3>4 DEF SmsTyped, RaiseSos, At
  <2>6. SmsTyped'
    BY <1>0, <2>2, <2>3, <2>5 DEF SmsTyped
  <2>7. ActsCounted'
    <3> SUFFICES ASSUME NEW u \in Texts
                 PROVE  Cardinality(Made(u)') + Cardinality(Raised(u)') <= cut'[u] + Acted(u)'
      BY DEF ActsCounted
    <3>1. /\ Cardinality(Made(u)) + Cardinality(Raised(u)) <= cut[u] + Acted(u)
          /\ Cardinality(Made(u)) \in Nat /\ Cardinality(Raised(u)) \in Nat /\ IsFiniteSet(Raised(u))
          /\ cut[u] \in Nat /\ cut'[u] = cut[u] /\ Made(u)' = Made(u)
      BY <1>0, <2>2, Counts DEF SmsKept, ActsCounted, SmsTyped, Made
    <3>2. CASE u # t
      <4>1. Raised(u)' = Raised(u)
        BY <1>0, <2>1, <2>3, <2>4, <3>2 DEF Raised
      <4>2. Acted(u)' = Acted(u)
        BY <2>5, <3>2 DEF Acted
      <4> QED BY <3>1, <4>1, <4>2
    <3>3. CASE u = t
      <4>1. Raised(u)' = Raised(u) \cup {Len(alarm) + 1} /\ Len(alarm) + 1 \notin Raised(u)
        BY <1>0, <2>1, <2>3, <2>4, <3>3 DEF Raised
      <4>2. Cardinality(Raised(u)') = Cardinality(Raised(u)) + 1
        BY <3>1, <4>1, FS_AddElement
      <4>3. Acted(u) = 0 /\ Acted(u)' = 1
        BY <2>5, <3>3 DEF Acted
      <4> QED BY <3>1, <4>2, <4>3
    <3> QED BY <3>2, <3>3
  <2>8. CancelSees'
    <3> SUFFICES ASSUME NEW u \in Texts, line'[u].pc = "cancel"
                 PROVE  /\ line'[u].saw.n \in DOMAIN request' /\ line'[u].saw.status \in Cancellable
                        /\ line'[u].saw.version <= request'[line'[u].saw.n].version
                        /\ line'[u].saw.version = request'[line'[u].saw.n].version
                             => line'[u].saw.mech = request'[line'[u].saw.n].mech
      BY DEF CancelSees
    <3>1. line'[u] = line[u]
      BY <2>5
    <3> QED BY <2>2, <3>1 DEF SmsKept, CancelSees
  <2>9. NoBlindCancel'
    BY <2>2 DEF SmsKept, NoBlindCancel
  <2> QED BY <2>6, <2>7, <2>8, <2>9 DEF SmsKept
<1> QED BY <1>3, <1>4, <1>5

\* Steps that change an incident's status.
LEMMA AlarmSteps ==
    ASSUME SmsKept, (\E t \in Texts : ClaimSos(t)) \/ \E n \in DOMAIN alarm : AppStandsDown(n)
    PROVE  SmsKept'
<1>0. SmsTyped
  BY DEF SmsKept
<1>1. ASSUME NEW n, NEW st \in {"RESPONDING", "CANCELLED"}, alarm' = [alarm EXCEPT ![n].status = st]
      PROVE  /\ alarm' \in Seq(AlarmRecord)
             /\ \A t \in Texts : Raised(t)' = Raised(t)
  <2>1. DOMAIN alarm = 1..Len(alarm) /\ \A m \in 1..Len(alarm) : alarm[m] \in AlarmRecord
    BY <1>0, LenProperties, ElementOfSeq DEF SmsTyped
  <2>2. CASE n \in 1..Len(alarm)
    <3> DEFINE a == [alarm[n] EXCEPT !.status = st]
    <3>1. a \in AlarmRecord /\ a.by = alarm[n].by
      BY <2>1, <2>2 DEF AlarmRecord
    <3>2. alarm' = [alarm EXCEPT ![n] = a]
      BY <1>1
    <3> HIDE DEF a
    <3>3. /\ alarm' \in Seq(AlarmRecord) /\ DOMAIN alarm' = DOMAIN alarm
          /\ \A m \in DOMAIN alarm : alarm'[m] = IF m = n THEN a ELSE alarm[m]
      BY <1>0, <2>1, <2>2, <3>1, <3>2, ExceptSeq DEF SmsTyped
    <3> QED BY <3>1, <3>3 DEF Raised
  <2>3. CASE n \notin 1..Len(alarm)
    <3>0. alarm = [m \in DOMAIN alarm |-> alarm[m]]
      BY <1>0, LenProperties DEF SmsTyped
    <3>1. alarm' = alarm
      BY <1>1, <2>1, <2>3, <3>0
    <3> QED BY <1>0, <3>1 DEF SmsTyped, Raised
  <2> QED BY <2>2, <2>3
\* The row of a booking and its handlings stay as they were.
<1>2. ASSUME SmsTyped', UNCHANGED <<request, cut>>, \A t \in Texts : Raised(t)' = Raised(t),
             \A t \in Texts : Acted(t)' >= Acted(t) /\ (line'[t].pc = "cancel" => line'[t] = line[t])
      PROVE  SmsKept'
  <2>1. ActsCounted'
    <3> SUFFICES ASSUME NEW u \in Texts
                 PROVE  Cardinality(Made(u)') + Cardinality(Raised(u)') <= cut'[u] + Acted(u)'
      BY DEF ActsCounted
    <3>1. /\ Cardinality(Made(u)) + Cardinality(Raised(u)) <= cut[u] + Acted(u)
          /\ Cardinality(Made(u)) \in Nat /\ Cardinality(Raised(u)) \in Nat
          /\ cut[u] \in Nat /\ cut'[u] = cut[u] /\ Made(u)' = Made(u)
      BY <1>0, <1>2, Counts DEF SmsKept, ActsCounted, SmsTyped, Made
    <3>2. Acted(u) \in Nat /\ Acted(u)' \in Nat
      BY DEF Acted
    <3> HIDE DEF Acted
    <3> QED BY <1>2, <3>1, <3>2
  <2>2. CancelSees'
    BY <1>2 DEF SmsKept, CancelSees
  <2>3. NoBlindCancel'
    BY <1>2 DEF SmsKept, NoBlindCancel
  <2> QED BY <1>2, <2>1, <2>2, <2>3 DEF SmsKept
<1>3. ASSUME NEW n \in DOMAIN alarm, AppStandsDown(n) PROVE SmsKept'
  <2>1. alarm' = [alarm EXCEPT ![n].status = "CANCELLED"] /\ UNCHANGED <<verb, request, line, cut>>
    BY <1>3 DEF AppStandsDown
  <2>2. SmsTyped' /\ \A t \in Texts : Raised(t)' = Raised(t)
    BY <1>0, <1>1, <2>1 DEF SmsTyped
  <2>3. \A t \in Texts : Acted(t)' >= Acted(t)
    BY <2>1 DEF Acted
  <2> QED BY <1>2, <2>1, <2>2, <2>3
<1>4. ASSUME NEW t \in Texts, ClaimSos(t) PROVE SmsKept'
  <2>1. /\ line[t].pc = "claim" /\ UNCHANGED <<verb, request, cut>>
        /\ \/ alarm' = [alarm EXCEPT ![line[t].saw.n].status = "RESPONDING"] /\ Goes(t, "alert")
           \/ Answers(t, "received") /\ UNCHANGED alarm
    BY <1>4 DEF ClaimSos, At
  <2>2. /\ line' \in [Texts -> LineRecord] /\ line'[t].pc \in {"alert", "reply"}
        /\ \A u \in Texts : u # t => line'[u] = line[u]
    BY <1>0, <2>1, LineMoves DEF Places, Replies
  <2>3. alarm' \in Seq(AlarmRecord) /\ \A u \in Texts : Raised(u)' = Raised(u)
    BY <1>0, <1>1, <2>1 DEF SmsTyped, Raised
  <2>4. SmsTyped'
    BY <1>0, <2>1, <2>2, <2>3 DEF SmsTyped
  <2>5. \A u \in Texts : Acted(u)' >= Acted(u) /\ (line'[u].pc = "cancel" => line'[u] = line[u])
    <3> SUFFICES ASSUME NEW u \in Texts PROVE Acted(u)' >= Acted(u) /\ (line'[u].pc = "cancel" => line'[u] = line[u])
      OBVIOUS
    <3> QED BY <2>1, <2>2 DEF Acted
  <2> QED BY <1>2, <2>1, <2>3, <2>4, <2>5
<1> QED BY <1>3, <1>4

LEMMA ReadStep == ASSUME SmsKept, NEW t \in Texts, CancelRead(t) PROVE SmsKept'
<1>0. /\ SmsTyped /\ line[t].pc = "verb" /\ UNCHANGED <<verb, request, alarm, cut>>
      /\ \A n \in DOMAIN request : request[n] \in RequestRecord /\ n \in Nat
  BY LenProperties, ElementOfSeq DEF SmsKept, SmsTyped, CancelRead, At
<1>1. ASSUME NEW key \in Replies, Answers(t, key) PROVE SmsKept'
  <2>1. /\ line' \in [Texts -> LineRecord] /\ line'[t].pc = "reply"
        /\ \A u \in Texts : u # t => line'[u] = line[u]
    BY <1>0, <1>1, LineMoves DEF Places
  <2>2. SmsTyped'
    BY <1>0, <2>1 DEF SmsTyped
  <2>3. cut'[t] + Acted(t)' >= cut[t] + Acted(t)
    BY <1>0, <2>1 DEF Acted, SmsTyped
  <2> QED BY <1>0, <2>1, <2>2, <2>3, TalkKeeps
<1>2. ASSUME NEW n \in Active, request[n].status \in Cancellable,
             line' = [line EXCEPT ![t].pc = "cancel", ![t].saw =
                     [n |-> n, status |-> request[n].status, version |-> request[n].version,
                      mech |-> request[n].mech]]
      PROVE  SmsKept'
  <2> DEFINE saw == [n |-> n, status |-> request[n].status, version |-> request[n].version,
                      mech |-> request[n].mech]
             l == [line[t] EXCEPT !.pc = "cancel", !.saw = saw]
  <2>1. n \in DOMAIN request /\ n \in Nat /\ request[n] \in RequestRecord
    BY <1>0, <1>2 DEF Active
  <2>2. /\ saw \in SawRecord /\ saw.n = n /\ saw.status = request[n].status
        /\ saw.version = request[n].version /\ saw.mech = request[n].mech
    BY <2>1 DEF SawRecord, RequestRecord
  <2>3. line' = [line EXCEPT ![t] = l]
    BY <1>2
  <2> HIDE DEF saw
  <2>4. l \in LineRecord /\ l.pc = "cancel" /\ l.saw = saw
    <3>1. line[t] \in LineRecord
      BY <1>0 DEF SmsTyped
    <3> QED BY <2>2, <3>1 DEF LineRecord, Places
  <2> HIDE DEF l
  <2>5. line' \in [Texts -> LineRecord] /\ line'[t] = l /\ \A u \in Texts : u # t => line'[u] = line[u]
    BY <1>0, <2>3, <2>4 DEF SmsTyped
  <2>6. SmsTyped'
    BY <1>0, <2>5 DEF SmsTyped
  <2>7. cut'[t] + Acted(t)' >= cut[t] + Acted(t)
    BY <1>0, <2>4, <2>5 DEF Acted, SmsTyped
  <2> QED BY <1>0, <1>2, <2>1, <2>2, <2>4, <2>5, <2>6, <2>7, TalkKeeps
<1> QED BY <1>1, <1>2 DEF CancelRead, Replies

\* One row of the bookings is written: what it says of who asked for it stays.
LEMMA RowWritten ==
    ASSUME SmsTyped, NEW n \in DOMAIN request, NEW row \in RequestRecord, row.by = request[n].by,
           request' = [request EXCEPT ![n] = row]
    PROVE  /\ request' \in Seq(RequestRecord) /\ DOMAIN request' = DOMAIN request
           /\ request'[n] = row /\ \A m \in DOMAIN request : m # n => request'[m] = request[m]
           /\ \A t \in Texts : Made(t)' = Made(t)
<1>1. DOMAIN request = 1..Len(request)
  BY LenProperties DEF SmsTyped
<1>2. /\ request' \in Seq(RequestRecord) /\ DOMAIN request' = DOMAIN request
      /\ \A m \in DOMAIN request : request'[m] = IF m = n THEN row ELSE request[m]
  BY <1>1, ExceptSeq, LenProperties DEF SmsTyped
<1> QED BY <1>2 DEF Made

LEMMA RowSteps ==
    ASSUME SmsKept, (\E t \in Texts : CancelWrite(t)) \/ \E n \in DOMAIN request : AppMoves(n)
    PROVE  SmsKept'
<1>0. /\ SmsTyped
      /\ \A n \in DOMAIN request : request[n] \in RequestRecord
  BY LenProperties, ElementOfSeq DEF SmsKept, SmsTyped
<1>1. ASSUME NEW n \in DOMAIN request, NEW row \in RequestRecord, row.by = request[n].by,
             request' = [request EXCEPT ![n] = row], row.version = request[n].version + 1,
             row.over.by # Nobody =>
               row.status = "CANCELLED" /\ row.over.was \in Cancellable /\ row.mech = row.over.knew,
             line' \in [Texts -> LineRecord], UNCHANGED <<verb, alarm, cut>>,
             \A u \in Texts : Acted(u)' >= Acted(u) /\ (line'[u].pc = "cancel" => line'[u] = line[u])
      PROVE  SmsKept'
  <2>1. /\ request' \in Seq(RequestRecord) /\ DOMAIN request' = DOMAIN request
        /\ request'[n] = row /\ \A m \in DOMAIN request : m # n => request'[m] = request[m]
        /\ \A t \in Texts : Made(t)' = Made(t)
    BY <1>0, <1>1, RowWritten
  <2>2. SmsTyped'
    BY <1>0, <1>1, <2>1 DEF SmsTyped
  <2>3. ActsCounted'
    <3> SUFFICES ASSUME NEW u \in Texts
                 PROVE  Cardinality(Made(u)') + Cardinality(Raised(u)') <= cut'[u] + Acted(u)'
      BY DEF ActsCounted
    <3>1. /\ Cardinality(Made(u)) + Cardinality(Raised(u)) <= cut[u] + Acted(u)
          /\ Cardinality(Made(u)) \in Nat /\ Cardinality(Raised(u)) \in Nat
          /\ cut[u] \in Nat /\ cut'[u] = cut[u] /\ Made(u)' = Made(u) /\ Raised(u)' = Raised(u)
      BY <1>0, <1>1, <2>1, Counts DEF SmsKept, ActsCounted, SmsTyped, Raised
    <3>2. Acted(u) \in Nat /\ Acted(u)' \in Nat /\ Acted(u)' >= Acted(u)
      BY <1>1 DEF Acted
    <3> HIDE DEF Acted
    <3> QED BY <3>1, <3>2
  <2>4. CancelSees'
    <3> SUFFICES ASSUME NEW u \in Texts, line'[u].pc = "cancel"
                 PROVE  /\ line'[u].saw.n \in DOMAIN request' /\ line'[u].saw.status \in Cancellable
                        /\ line'[u].saw.version <= request'[line'[u].saw.n].version
                        /\ line'[u].saw.version = request'[line'[u].saw.n].version
                             => line'[u].saw.mech = request'[line'[u].saw.n].mech
      BY DEF CancelSees
    <3>1. line'[u] = line[u]
      BY <1>1
    <3>2. /\ line[u].saw.n \in DOMAIN request /\ line[u].saw.status \in Cancellable
          /\ line[u].saw.version <= request[line[u].saw.n].version
          /\ line[u].saw.version = request[line[u].saw.n].version => line[u].saw.mech = request[line[u].saw.n].mech
      BY <3>1 DEF SmsKept, CancelSees
    <3>3. CASE line[u].saw.n # n
      BY <2>1, <3>1, <3>2, <3>3
    <3>4. CASE line[u].saw.n = n
      <4>1. request[n].version \in Nat /\ line[u].saw.version \in Nat
        BY <1>0 DEF SmsTyped, LineRecord, SawRecord, RequestRecord
      <4> QED BY <1>1, <2>1, <3>1, <3>2, <3>4, <4>1
    <3> QED BY <3>3, <3>4
  <2>5. NoBlindCancel'
    BY <1>1, <2>1 DEF SmsKept, NoBlindCancel
  <2> QED BY <2>2, <2>3, <2>4, <2>5 DEF SmsKept
<1>2. ASSUME NEW n \in DOMAIN request, AppMoves(n) PROVE SmsKept'
  <2>1. PICK c \in Command, s \in Status :
          /\ Applies(request[n].status, c, s)
          /\ request' = [request EXCEPT ![n].status = s, ![n].version = @ + 1,
                                        ![n].mech = IF c = "mechanic.accept" THEN "mechanic" ELSE @]
    BY <1>2 DEF AppMoves
  <2> DEFINE mech == IF c = "mechanic.accept" THEN "mechanic" ELSE request[n].mech
             row == [request[n] EXCEPT !.status = s, !.version = request[n].version + 1, !.mech = mech]
  <2>2. request' = [request EXCEPT ![n] = row]
    BY <2>1
  <2>3. mech \in Hands /\ request[n].version + 1 \in Nat
    BY <1>0 DEF RequestRecord, Hands
  <2>4. request[n].status # "CANCELLED"
    BY <2>1 DEF Applies, Transitions, Cancellable
  <2> HIDE DEF mech
  <2>5. /\ row \in RequestRecord /\ row.by = request[n].by /\ row.version = request[n].version + 1
        /\ row.over = request[n].over
    BY <1>0, <2>3 DEF RequestRecord
  <2> HIDE DEF row
  <2>6. row.over.by = Nobody
    BY <2>4, <2>5 DEF SmsKept, NoBlindCancel
  <2>7. UNCHANGED <<verb, alarm, cut, line>>
    BY <1>2 DEF AppMoves
  <2>8. /\ line' \in [Texts -> LineRecord]
        /\ \A u \in Texts : Acted(u)' >= Acted(u) /\ (line'[u].pc = "cancel" => line'[u] = line[u])
    BY <1>0, <2>7 DEF SmsTyped, Acted
  <2> QED BY <1>1, <2>2, <2>5, <2>6, <2>7, <2>8
<1>3. ASSUME NEW t \in Texts, CancelWrite(t), ~SameRow(t) PROVE SmsKept'
  <2>1. Goes(t, "again") /\ UNCHANGED <<verb, request, alarm, cut>> /\ line[t].pc = "cancel"
    BY <1>3 DEF CancelWrite, At
  <2>2. /\ line' \in [Texts -> LineRecord] /\ line'[t].pc = "again"
        /\ \A u \in Texts : u # t => line'[u] = line[u]
    BY <1>0, <2>1, LineMoves DEF Places
  <2>3. SmsTyped'
    BY <1>0, <2>1, <2>2 DEF SmsTyped
  <2>4. cut'[t] + Acted(t)' >= cut[t] + Acted(t)
    BY <1>0, <2>1, <2>2 DEF Acted, SmsTyped
  <2> QED BY <2>1, <2>2, <2>3, <2>4, TalkKeeps
<1>4. ASSUME NEW t \in Texts, CancelWrite(t), SameRow(t) PROVE SmsKept'
  <2>0. PICK n : n = line[t].saw.n
    OBVIOUS
  <2>1. /\ line[t].pc = "cancel" /\ UNCHANGED <<verb, alarm, cut>> /\ Answers(t, "cancelled")
        /\ request[n].status = line[t].saw.status /\ request[n].version = line[t].saw.version
        /\ request' = [request EXCEPT ![n] =
              [@ EXCEPT !.status = "CANCELLED", !.version = line[t].saw.version + 1,
                        !.over = [by |-> t, was |-> request[n].status, knew |-> line[t].saw.mech]]]
    BY <1>4, <2>0 DEF CancelWrite, SameRow, At
  <2>2. n \in DOMAIN request /\ request[n].status \in Cancellable /\ line[t].saw.mech = request[n].mech
        /\ line[t].saw.mech \in Hands
    <3>1. line[t].saw.mech \in Hands
      BY <1>0 DEF SmsTyped, LineRecord, SawRecord
    <3> QED BY <2>0, <2>1, <3>1 DEF SmsKept, CancelSees
  <2> DEFINE over == [by |-> t, was |-> request[n].status, knew |-> line[t].saw.mech]
             row == [request[n] EXCEPT !.status = "CANCELLED", !.version = request[n].version + 1, !.over = over]
  <2>3. request' = [request EXCEPT ![n] = row]
    BY <2>1
  <2>4. /\ over.was = request[n].status /\ over.knew = request[n].mech
        /\ over \in [by : Texts \cup {Nobody}, was : Status, knew : Hands]
    BY <1>0, <2>2 DEF RequestRecord
  <2> HIDE DEF over
  <2>5. /\ row \in RequestRecord /\ row.by = request[n].by /\ row.version = request[n].version + 1
        /\ row.over = over /\ row.status = "CANCELLED" /\ row.mech = request[n].mech
    <3>1. request[n] \in RequestRecord /\ request[n].version + 1 \in Nat
      BY <1>0, <2>2 DEF RequestRecord
    <3>2. "CANCELLED" \in Status
      BY DEF Status
    <3>3. row \in RequestRecord
      BY ONLY <2>4, <3>1, <3>2 DEF RequestRecord
    <3> QED BY <3>1, <3>3 DEF RequestRecord
  <2> HIDE DEF row
  <2>6. /\ line' \in [Texts -> LineRecord] /\ line'[t].pc = "reply"
        /\ \A u \in Texts : u # t => line'[u] = line[u]
    BY <1>0, <2>1, LineMoves DEF Places, Replies
  <2>7. \A u \in Texts : Acted(u)' >= Acted(u) /\ (line'[u].pc = "cancel" => line'[u] = line[u])
    <3> SUFFICES ASSUME NEW u \in Texts PROVE Acted(u)' >= Acted(u) /\ (line'[u].pc = "cancel" => line'[u] = line[u])
      OBVIOUS
    <3> QED BY <2>1, <2>6 DEF Acted
  <2>8. row.status = "CANCELLED" /\ row.over.was \in Cancellable /\ row.mech = row.over.knew
    BY <2>2, <2>4, <2>5
  <2> QED BY <1>1, <2>1, <2>2, <2>3, <2>5, <2>6, <2>7, <2>8
<1> QED BY <1>2, <1>3, <1>4

LEMMA SmsInitKept == SmsInit => SmsKept
<1> SUFFICES ASSUME SmsInit PROVE SmsKept
  OBVIOUS
<1>1. SmsTyped
  <2>1. Unread \in SawRecord
    BY DEF Unread, SawRecord, Status, Hands
  <2>2. line \in [Texts -> LineRecord]
    BY <2>1 DEF SmsInit, LineRecord, Places, Replies
  <2>3. /\ Request("app") \in RequestRecord
        /\ [Request("app") EXCEPT !.status = "MATCHING"] \in RequestRecord
        /\ [Request("app") EXCEPT !.status = "IN_PROGRESS", !.mech = "mechanic"] \in RequestRecord
    BY DEF Request, RequestRecord, Status, Hands
  <2>4. request \in Seq(RequestRecord) /\ alarm \in Seq(AlarmRecord)
    <3>1. ASSUME NEW b \in RequestRecord PROVE <<b>> \in Seq(RequestRecord)
      BY <3>1
    <3>2. \/ request = <<>> \/ request = <<[Request("app") EXCEPT !.status = "MATCHING"]>>
          \/ request = <<[Request("app") EXCEPT !.status = "IN_PROGRESS", !.mech = "mechanic"]>>
      BY DEF SmsInit
    <3>3. request = <<>> \/ \E b \in RequestRecord : request = <<b>>
      BY <2>3, <3>2
    <3>4. request \in Seq(RequestRecord)
      BY <3>1, <3>3, EmptySeq
    <3>5. alarm = <<>>
      BY DEF SmsInit
    <3>6. alarm \in Seq(AlarmRecord)
      BY <3>5, EmptySeq
    <3> QED BY <3>4, <3>6
  <2> QED BY <2>2, <2>4 DEF SmsInit, SmsTyped
<1>2. \A n \in DOMAIN request : request[n].by = "app" /\ request[n].over.by = Nobody
  <2>1. /\ Request("app").by = "app" /\ Request("app").over.by = Nobody
        /\ [Request("app") EXCEPT !.status = "MATCHING"].by = "app"
        /\ [Request("app") EXCEPT !.status = "MATCHING"].over.by = Nobody
        /\ [Request("app") EXCEPT !.status = "IN_PROGRESS", !.mech = "mechanic"].by = "app"
        /\ [Request("app") EXCEPT !.status = "IN_PROGRESS", !.mech = "mechanic"].over.by = Nobody
    BY DEF Request
  <2>2. ASSUME NEW b, b.by = "app", b.over.by = Nobody, request = <<b>>
        PROVE  \A n \in DOMAIN request : request[n].by = "app" /\ request[n].over.by = Nobody
    <3>1. DOMAIN request = {1} /\ request[1] = b
      BY <2>2
    <3> QED BY <2>2, <3>1
  <2>3. \/ request = <<>> \/ request = <<[Request("app") EXCEPT !.status = "MATCHING"]>>
        \/ request = <<[Request("app") EXCEPT !.status = "IN_PROGRESS", !.mech = "mechanic"]>>
    BY DEF SmsInit
  <2>4. CASE request = <<>>
    <3>1. DOMAIN request = {}
      BY <2>4
    <3> QED BY <3>1
  <2> QED BY <2>1, <2>2, <2>3, <2>4
<1>3. \A t \in Texts : line[t].pc = "unsent" /\ cut[t] = 0
  BY DEF SmsInit
<1>4. ActsCounted
  <2> SUFFICES ASSUME NEW t \in Texts
               PROVE  Cardinality(Made(t)) + Cardinality(Raised(t)) <= cut[t] + Acted(t)
    BY DEF ActsCounted
  <2>1. Made(t) = {} /\ Raised(t) = {}
    <3>1. alarm = <<>>
      BY DEF SmsInit
    <3>2. DOMAIN alarm = {}
      BY <3>1
    <3> QED BY <1>2, <3>2, SmsAssumption DEF Made, Raised
  <2>2. Acted(t) = 0
    BY <1>3 DEF Acted
  <2>3. Cardinality({}) = 0
    BY FS_EmptySet
  <2>4. Cardinality(Made(t)) = 0 /\ Cardinality(Raised(t)) = 0
    BY <2>1, <2>3
  <2> QED BY <1>3, <2>2, <2>4
<1> QED BY <1>1, <1>2, <1>3, <1>4 DEF SmsKept, CancelSees, NoBlindCancel

LEMMA SmsStep == SmsKept /\ [SmsNext]_smsVars => SmsKept'
<1> SUFFICES ASSUME SmsKept, [SmsNext]_smsVars PROVE SmsKept'
  OBVIOUS
<1>1. CASE UNCHANGED smsVars
  BY <1>1 DEF smsVars, SmsKept, SmsTyped, ActsCounted, Acted, Made, Raised, CancelSees, NoBlindCancel
<1> QED BY <1>1, TalkSteps, ActSteps, AlarmSteps, ReadStep, RowSteps DEF SmsNext

\* POST /v1/telecom/sms, however texts are delivered again, handled together and cut
\* off: a text acts once, and once more for each handling that was cut off; and it
\* never cancels a booking whose mechanic it had not seen.
THEOREM TextsAlwaysHold == SmsSpec => []TextsHold
<1>1. SmsKept => TextsHold
  <2> SUFFICES ASSUME SmsKept PROVE TextsHold
    OBVIOUS
  <2>1. TextActsOnce
    <3> SUFFICES ASSUME NEW t \in Texts
                 PROVE  Cardinality(Made(t)) + Cardinality(Raised(t)) <= 1 + cut[t]
      BY DEF TextActsOnce
    <3>1. /\ Cardinality(Made(t)) + Cardinality(Raised(t)) <= cut[t] + Acted(t) /\ cut[t] \in Nat
          /\ Cardinality(Made(t)) \in Nat /\ Cardinality(Raised(t)) \in Nat
      BY Counts DEF SmsKept, ActsCounted, SmsTyped
    <3>2. Acted(t) \in {0, 1}
      BY DEF Acted
    <3> HIDE DEF Acted
    <3> QED BY <3>1, <3>2
  <2> QED BY <2>1 DEF SmsKept, TextsHold
<1>2. SmsSpec => []SmsKept
  BY SmsInitKept, SmsStep, PTL DEF SmsSpec
<1> QED BY <1>1, <1>2, PTL

-----------------------------------------------------------------------------
(* The SOS of the Android app *)

LadderRecord == [pc : {"start", "post", "confirm", "queue", "poke"}, ref : Refs]
Bare == [pc : {"off", "loop", "release", "ending"}]
PassRecord == [pc : {"post", "confirm", "write"}, todo : Seq(Entries), as : Users \cup {NoUser},
               sent : SUBSET Refs, dropped : SUBSET Refs]
JobRecord == Bare \cup PassRecord
Incident == [status : {"CONFIRMED", "RESPONDING", "CLOSED"}, owner : Users]
PassPlaces == {"post", "confirm", "write"}

PhoneTyped ==
    /\ user \in Users \cup {NoUser} /\ online \in BOOLEAN
    /\ ladder = Idle \/ ladder \in LadderRecord
    /\ queue \in Seq(Entries) /\ dead \subseteq Refs
    /\ running \in BOOLEAN /\ again \in BOOLEAN /\ retry \in BOOLEAN /\ seen \in BOOLEAN
    /\ poking \subseteq Pokers
    /\ job \in [Jobs -> JobRecord]
    /\ \A j \in Jobs : job[j].pc = "confirm" => job[j].todo # <<>>
    /\ server \in [Refs -> Incident \cup {NotThere}]
    /\ raisedBy \in [Refs -> Users \cup {NoUser, NotRaised}] /\ killed \subseteq Refs
    /\ switches \in 0..MaxSwitches /\ faults \in 0..MaxFaults

LEMMA Shapes ==
    /\ Idle.pc = "idle" /\ Off.pc = "off" /\ Off \in Bare /\ NotThere.status = "NONE"
    /\ NotThere \notin Incident
    /\ \A l \in LadderRecord : l # Idle /\ l.ref \in Refs
                               /\ l.pc \in {"start", "post", "confirm", "queue", "poke"}
    /\ \A q \in JobRecord : /\ q.pc \in {"off", "loop", "release", "ending", "post", "confirm", "write"}
                            /\ q.pc \in PassPlaces <=> q \in PassRecord
                            /\ q.pc = "off" <=> q = Off
<1>1. /\ Idle.pc = "idle" /\ Off.pc = "off" /\ Off \in Bare /\ NotThere.status = "NONE"
  BY DEF Idle, Off, Bare, NotThere
<1>2. NotThere \notin Incident
  BY <1>1 DEF Incident
<1>3. \A l \in LadderRecord : /\ l # Idle /\ l.ref \in Refs
                              /\ l.pc \in {"start", "post", "confirm", "queue", "poke"}
  BY <1>1 DEF LadderRecord
<1>4. ASSUME NEW q \in JobRecord
      PROVE  /\ q.pc \in {"off", "loop", "release", "ending", "post", "confirm", "write"}
             /\ q.pc \in PassPlaces <=> q \in PassRecord
             /\ q.pc = "off" <=> q = Off
  <2>1. CASE q \in Bare
    BY <2>1 DEF Bare, PassRecord, PassPlaces, Off
  <2>2. CASE q \in PassRecord
    BY <1>1, <2>2 DEF PassRecord, PassPlaces
  <2> QED BY <1>4, <2>1, <2>2 DEF JobRecord
<1> QED BY <1>1, <1>2, <1>3, <1>4

\* What a request does to the server: it raises its own reference, or moves it on.
ServerMove(r) ==
    /\ server' \in [Refs -> Incident \cup {NotThere}]
    /\ \A x \in Refs : x # r => server'[x] = server[x]
    /\ server[r] = NotThere => server'[r] = NotThere \/ (server'[r].owner = user /\ user \in Users)
    /\ server[r] # NotThere => server'[r] # NotThere /\ server'[r].owner = server[r].owner
    /\ Delivered(r) => server'[r].status \in {"RESPONDING", "CLOSED"}

LEMMA ServerMoves ==
    ASSUME PhoneTyped, NEW r \in Refs
    PROVE  /\ HasSession /\ RaisedFor(r) => ServerMove(r)
           /\ Confirms(r) /\ ConfirmedFor(r) => ServerMove(r) /\ server'[r].status \in {"RESPONDING", "CLOSED"}
           /\ server' = server => ServerMove(r)
           /\ (server[r].status \in {"CONFIRMED", "RESPONDING"} /\ server' = [server EXCEPT ![r].status = "CLOSED"])
                => ServerMove(r)
<1> USE Shapes DEF PhoneTyped, ServerMove, Delivered
<1>1. ASSUME NEW x \in {"RESPONDING", "CLOSED"}, server[r] # NotThere,
             server' = [server EXCEPT ![r].status = x]
      PROVE  ServerMove(r) /\ server'[r].status = x
  <2> DEFINE s == [server[r] EXCEPT !.status = x]
  <2>1. s \in Incident /\ s.owner = server[r].owner /\ s.status = x
    BY <1>1 DEF Incident
  <2>2. server' = [server EXCEPT ![r] = s]
    BY <1>1
  <2> HIDE DEF s
  <2> QED BY <1>1, <2>1, <2>2
<1>2. HasSession /\ RaisedFor(r) => ServerMove(r)
  <2> SUFFICES ASSUME HasSession, RaisedFor(r) PROVE ServerMove(r)
    OBVIOUS
  <2> DEFINE s == [status |-> "CONFIRMED", owner |-> user]
  <2>1. s \in Incident /\ s.owner = user /\ user \in Users
    BY DEF HasSession, Incident
  <2>2. server' = IF server[r] = NotThere THEN [server EXCEPT ![r] = s] ELSE server
    BY DEF RaisedFor
  <2> HIDE DEF s
  <2> QED BY <2>1, <2>2
<1>3. ASSUME Confirms(r), ConfirmedFor(r)
      PROVE  ServerMove(r) /\ server'[r].status \in {"RESPONDING", "CLOSED"}
  <2>1. server[r] # NotThere /\ server[r] \in Incident /\ server[r].status # "CLOSED"
    BY <1>3 DEF Confirms
  <2>2. server[r].status \in {"CONFIRMED", "RESPONDING"}
    BY <2>1 DEF Incident
  <2>3. server' = [server EXCEPT ![r].status = "RESPONDING"]
    BY <1>3, <2>2 DEF ConfirmedFor
  <2> QED BY <1>1, <2>1, <2>3
<1>4. server' = server => ServerMove(r)
  OBVIOUS
<1> QED BY <1>1, <1>2, <1>3, <1>4

\* A step of a pass: what it has left shrinks, and what it has sent is with the server.
PassGoesOn(j) ==
    \E q \in PassRecord :
        /\ job' = [job EXCEPT ![j] = q]
        /\ q.as = job[j].as /\ Range(q.todo) \subseteq Range(job[j].todo)
        /\ \A r \in q.sent : r \in job[j].sent \/ server'[r].status \in {"RESPONDING", "CLOSED"}
        /\ q.pc = "confirm" => q.todo # <<>>

LEMMA PassEffect ==
    ASSUME PhoneTyped, NEW j \in Jobs,
           Skip(j) \/ Post(j) \/ Confirm(j) \/ Drop(j) \/ Stop(j) \/ Unanswered(j)
    PROVE  /\ job[j] \in PassRecord /\ PassGoesOn(j)
           /\ UNCHANGED <<user, online, ladder, queue, dead, running, again, retry, poking, seen, raisedBy, killed, switches>>
           /\ faults' \in 0..MaxFaults
           /\ \E e \in Range(job[j].todo) :
                /\ e \in Entries /\ ServerMove(e.ref)
                /\ server[e.ref] = NotThere /\ server' # server => Mine(e, job[j].as)
<1>1. job[j] \in PassRecord /\ job[j].todo # <<>>
  <2>1. job[j].pc \in {"post", "confirm"} /\ (job[j].pc = "post" => job[j].todo # <<>>)
    BY DEF Skip, Post, Confirm, Drop, Stop, Unanswered, InPass, Sending
  <2>2. job[j] \in JobRecord
    BY DEF PhoneTyped
  <2>3. job[j].pc = "confirm" => job[j].todo # <<>>
    BY DEF PhoneTyped
  <2> QED BY <2>1, <2>2, <2>3, Shapes DEF PassPlaces
<1> DEFINE e == Head(job[j].todo)
<1>2. /\ job[j].todo \in Seq(Entries) /\ e \in Entries /\ e \in Range(job[j].todo) /\ e.ref \in Refs
      /\ Tail(job[j].todo) \in Seq(Entries) /\ Range(Tail(job[j].todo)) \subseteq Range(job[j].todo)
  <2>1. job[j].todo \in Seq(Entries)
    BY <1>1 DEF PassRecord
  <2>2. /\ e \in Entries /\ e \in Range(job[j].todo)
        /\ Tail(job[j].todo) \in Seq(Entries) /\ Range(Tail(job[j].todo)) \subseteq Range(job[j].todo)
    BY <1>1, <2>1, QueueParts
  <2> HIDE DEF e
  <2>3. e.ref \in Refs
    BY <2>2 DEF Entries
  <2> QED BY <2>1, <2>2, <2>3
<1>3. Entry(j) = e
  BY DEF Entry
<1> HIDE DEF e
<1>4. UNCHANGED <<user, online, ladder, queue, dead, running, again, retry, poking, seen, raisedBy, killed, switches>>
  BY DEF Skip, Post, Confirm, Drop, Stop, Unanswered, phone, ghosts
<1>5. faults' \in 0..MaxFaults
  <2>0. faults \in 0..MaxFaults /\ MaxFaults \in Nat
    BY PhoneAssumption DEF PhoneTyped
  <2>1. faults \in 0..MaxFaults /\ (faults < MaxFaults => faults + 1 \in 0..MaxFaults)
    BY <2>0
  <2> QED BY <2>1 DEF Skip, Post, Confirm, Drop, Stop, Unanswered, Fault
\* What becomes of the pass.
<1>6. ASSUME NEW pc \in PassPlaces, job' = [job EXCEPT ![j].pc = pc] PROVE PassGoesOn(j)
  <2> DEFINE q == [job[j] EXCEPT !.pc = pc]
  <2>1. /\ q \in PassRecord /\ q.as = job[j].as /\ q.todo = job[j].todo /\ q.sent = job[j].sent
    BY <1>1, <1>6 DEF PassRecord, PassPlaces
  <2>2. job' = [job EXCEPT ![j] = q]
    BY <1>6
  <2> HIDE DEF q
  <2> QED BY <1>1, <2>1, <2>2 DEF PassGoesOn
<1>7. ASSUME job[j].pc = "post", job' = [job EXCEPT ![j].todo = Tail(job[j].todo)] PROVE PassGoesOn(j)
  <2> DEFINE q == [job[j] EXCEPT !.todo = Tail(job[j].todo)]
  <2>1. /\ q \in PassRecord /\ q.as = job[j].as /\ q.todo = Tail(job[j].todo) /\ q.sent = job[j].sent /\ q.pc = "post"
    BY <1>1, <1>2, <1>7 DEF PassRecord
  <2>2. job' = [job EXCEPT ![j] = q]
    BY <1>7
  <2> HIDE DEF q
  <2> QED BY <1>2, <2>1, <2>2 DEF PassGoesOn
<1>8. ASSUME NEW sent \in SUBSET Refs, NEW given \in SUBSET Refs, Done(j, sent, given),
             \A r \in sent : r \in job[j].sent \/ server'[r].status \in {"RESPONDING", "CLOSED"}
      PROVE  PassGoesOn(j)
  <2> DEFINE q == [job[j] EXCEPT !.pc = "post", !.todo = Tail(job[j].todo), !.sent = sent, !.dropped = given]
  <2>1. /\ q \in PassRecord /\ q.as = job[j].as /\ q.todo = Tail(job[j].todo) /\ q.sent = sent /\ q.pc = "post"
    BY <1>1, <1>2 DEF PassRecord
  <2>2. job' = [job EXCEPT ![j] = q]
    BY <1>8 DEF Done
  <2> HIDE DEF q
  <2> QED BY <1>2, <1>8, <2>1, <2>2 DEF PassGoesOn
<1> DEFINE Moved == ServerMove(e.ref) /\ (server[e.ref] = NotThere /\ server' # server => Mine(e, job[j].as))
<1>9. ASSUME Skip(j) PROVE PassGoesOn(j) /\ Moved
  BY <1>2, <1>7, <1>9, ServerMoves DEF Skip, InPass
<1>10. ASSUME Post(j) PROVE PassGoesOn(j) /\ Moved
  BY <1>2, <1>3, <1>6, <1>10, ServerMoves DEF Post, JobTo, Sending, PassPlaces
<1>11. ASSUME Confirm(j) PROVE PassGoesOn(j) /\ Moved
  <2>1. Confirms(e.ref) /\ ConfirmedFor(e.ref) /\ server[e.ref] # NotThere
    BY <1>3, <1>11 DEF Confirm, Confirms
  <2>2. ServerMove(e.ref) /\ server'[e.ref].status \in {"RESPONDING", "CLOSED"}
    BY <1>2, <2>1, ServerMoves
  <2>3. PassGoesOn(j)
    <3>1. Done(j, job[j].sent \cup {e.ref}, job[j].dropped)
      BY <1>3, <1>11 DEF Confirm
    <3>2. job[j].sent \cup {e.ref} \in SUBSET Refs /\ job[j].dropped \in SUBSET Refs
      BY <1>1, <1>2 DEF PassRecord
    <3> QED BY <1>8, <2>2, <3>1, <3>2
  <2> QED BY <2>1, <2>2, <2>3
<1>12. ASSUME Drop(j) PROVE PassGoesOn(j) /\ Moved
  <2>1. Done(j, job[j].sent, job[j].dropped \cup {e.ref}) /\ server' = server
    BY <1>3, <1>12 DEF Drop
  <2>2. job[j].sent \in SUBSET Refs /\ job[j].dropped \cup {e.ref} \in SUBSET Refs
    BY <1>1, <1>2 DEF PassRecord
  <2> QED BY <1>2, <1>8, <2>1, <2>2, ServerMoves
<1>13. ASSUME Stop(j) PROVE PassGoesOn(j) /\ Moved
  BY <1>2, <1>6, <1>13, ServerMoves DEF Stop, JobTo, PassPlaces
<1>14. ASSUME Unanswered(j) PROVE PassGoesOn(j) /\ Moved
  <2>1. PassGoesOn(j)
    BY <1>6, <1>14 DEF Unanswered, JobTo, PassPlaces
  <2>2. \/ HasSession /\ Mine(e, job[j].as) /\ RaisedFor(e.ref)
        \/ Confirms(e.ref) /\ ConfirmedFor(e.ref)
        \/ server' = server
    BY <1>3, <1>14 DEF Unanswered, Sending
  <2>3. Confirms(e.ref) => server[e.ref] # NotThere
    BY DEF Confirms
  <2> QED BY <1>2, <2>1, <2>2, <2>3, ServerMoves
<1>15. PassGoesOn(j) /\ Moved
  BY <1>9, <1>10, <1>11, <1>12, <1>13, <1>14
<1> QED BY <1>1, <1>2, <1>4, <1>5, <1>15

LadderPlaces == {"start", "post", "confirm", "queue"}

\* A step of the ladder before it queues: it keeps its SOS, or the server has it.
LEMMA LadderEffect ==
    ASSUME PhoneTyped, ChooseRung \/ DataPost \/ DataConfirm \/ DataRefused \/ DataUnanswered
    PROVE  /\ ladder \in LadderRecord /\ ladder.pc \in {"start", "post", "confirm"} /\ ladder.ref \in Refs
           /\ ServerMove(ladder.ref)
           /\ \/ ladder' \in LadderRecord /\ ladder'.pc \in LadderPlaces /\ ladder'.ref = ladder.ref
              \/ ladder' = Idle /\ server'[ladder.ref].status \in {"RESPONDING", "CLOSED"}
           /\ UNCHANGED <<user, online, queue, dead, running, again, retry, poking, seen, job, raisedBy, killed, switches>>
           /\ faults' \in 0..MaxFaults
<1>1. ladder.pc \in {"start", "post", "confirm"}
  BY DEF ChooseRung, DataPost, DataConfirm, DataRefused, DataUnanswered, LadderAt
<1>2. ladder \in LadderRecord /\ ladder.ref \in Refs
  BY <1>1, Shapes DEF PhoneTyped
<1>3. UNCHANGED <<user, online, queue, dead, running, again, retry, poking, seen, job, raisedBy, killed, switches>>
  BY DEF ChooseRung, DataPost, DataConfirm, DataRefused, DataUnanswered, phone, trigger, ghosts
<1>4. faults' \in 0..MaxFaults
  <2>0. faults \in 0..MaxFaults /\ MaxFaults \in Nat
    BY PhoneAssumption DEF PhoneTyped
  <2>1. faults \in 0..MaxFaults /\ (faults < MaxFaults => faults + 1 \in 0..MaxFaults)
    BY <2>0
  <2> QED BY <2>1 DEF ChooseRung, DataPost, DataConfirm, DataRefused, DataUnanswered, Fault
<1>5. ASSUME NEW pc \in LadderPlaces, LadderTo(pc)
      PROVE  ladder' \in LadderRecord /\ ladder'.pc \in LadderPlaces /\ ladder'.ref = ladder.ref
  BY <1>2, <1>5 DEF LadderTo, LadderRecord, LadderPlaces
<1>6. CASE ChooseRung
  <2>1. PICK pc \in {"post", "queue"} : LadderTo(pc)
    BY <1>6 DEF ChooseRung
  <2> QED BY <1>1, <1>2, <1>3, <1>4, <1>5, <1>6, <2>1, ServerMoves DEF ChooseRung, LadderPlaces
<1>7. CASE DataPost
  BY <1>1, <1>2, <1>3, <1>4, <1>5, <1>7, ServerMoves DEF DataPost, LadderPlaces
<1>8. CASE DataConfirm
  BY <1>1, <1>2, <1>3, <1>4, <1>8, ServerMoves DEF DataConfirm
<1>9. CASE DataRefused
  BY <1>1, <1>2, <1>3, <1>4, <1>5, <1>9, ServerMoves DEF DataRefused, LadderPlaces
<1>10. CASE DataUnanswered
  <2>1. ServerMove(ladder.ref)
    BY <1>2, <1>10, ServerMoves DEF DataUnanswered
  <2> QED BY <1>1, <1>2, <1>3, <1>4, <1>5, <1>10, <2>1 DEF DataUnanswered, LadderPlaces
<1> QED BY <1>6, <1>7, <1>8, <1>9, <1>10

\* One loop at a time, and the flag says so.
Serving(j) == job[j].pc \notin {"off", "ending"}
OneRuns ==
    /\ \A j, k \in Jobs : Serving(j) /\ Serving(k) => j = k
    /\ running <=> \E j \in Jobs : Serving(j)

Watched ==
    Ready /\ online =>
        \/ poking # {} \/ retry \/ ~seen
        \/ \E j \in Jobs : job[j] # Off
        \/ ladder # Idle /\ ladder.pc = "poke"

\* An SOS that is past its ladder, which it is from the moment it is queued.
Past(r) ==
    /\ raisedBy[r] # NotRaised /\ r \notin killed
    /\ ~(ladder.pc \in LadderPlaces /\ ladder.ref = r)
AllKept == \A r \in Refs : Past(r) => Delivered(r) \/ r \in Queued \cup dead
SentDelivered == \A j \in Jobs : job[j].pc \in PassPlaces => \A r \in job[j].sent : Delivered(r)

PhoneKept == PhoneTyped /\ OneRuns /\ Watched /\ AllKept /\ SentDelivered

DeliveredStays == \A r \in Refs : Delivered(r) => server'[r].status \in {"RESPONDING", "CLOSED"}

LEMMA MoveStays == ASSUME PhoneTyped, NEW r \in Refs, ServerMove(r) PROVE DeliveredStays
BY DEF ServerMove, DeliveredStays, Delivered

LEMMA LadderSteps ==
    ASSUME PhoneKept, ChooseRung \/ DataPost \/ DataConfirm \/ DataRefused \/ DataUnanswered
    PROVE  PhoneKept'
<1>0. PhoneTyped
  BY DEF PhoneKept
<1>1. PICK r \in Refs : r = ladder.ref
  BY <1>0, LadderEffect
<1>2. /\ ladder \in LadderRecord /\ ladder.pc \in {"start", "post", "confirm"}
      /\ ServerMove(r)
      /\ \/ ladder' \in LadderRecord /\ ladder'.pc \in LadderPlaces /\ ladder'.ref = r
         \/ ladder' = Idle /\ server'[r].status \in {"RESPONDING", "CLOSED"}
      /\ UNCHANGED <<user, online, queue, dead, running, again, retry, poking, seen, job, raisedBy, killed, switches>>
      /\ faults' \in 0..MaxFaults
  BY <1>0, <1>1, LadderEffect
<1>3. DeliveredStays
  BY <1>0, <1>2, MoveStays
<1>4. PhoneTyped'
  BY <1>0, <1>2 DEF PhoneTyped, ServerMove
<1>5. OneRuns' /\ Watched'
  BY <1>2 DEF PhoneKept, OneRuns, Watched, Serving, Ready, HasSession
<1>6. SentDelivered'
  <2> SUFFICES ASSUME NEW j \in Jobs, job[j].pc \in PassPlaces, NEW x \in job[j].sent PROVE Delivered(x)'
    BY <1>2 DEF SentDelivered
  <2>1. x \in Refs
    BY <1>0, Shapes DEF PhoneTyped, PassRecord
  <2> QED BY <1>3, <2>1 DEF PhoneKept, SentDelivered, DeliveredStays, Delivered
<1>7. AllKept'
  <2> SUFFICES ASSUME NEW x \in Refs, Past(x)' PROVE Delivered(x)' \/ x \in (Queued \cup dead)'
    BY DEF AllKept
  <2>1. CASE x = r
    BY <1>2, <2>1 DEF Past, Delivered
  <2>2. CASE x # r
    <3>1. Past(x)
      BY <1>1, <1>2, <2>2 DEF Past
    <3> QED BY <1>2, <1>3, <3>1 DEF PhoneKept, AllKept, DeliveredStays, Delivered, Queued
  <2> QED BY <2>1, <2>2
<1> QED BY <1>4, <1>5, <1>6, <1>7 DEF PhoneKept

LEMMA PassSteps ==
    ASSUME PhoneKept, NEW j \in Jobs,
           Skip(j) \/ Post(j) \/ Confirm(j) \/ Drop(j) \/ Stop(j) \/ Unanswered(j)
    PROVE  PhoneKept'
<1>0. PhoneTyped
  BY DEF PhoneKept
<1>1. /\ job[j] \in PassRecord /\ PassGoesOn(j)
      /\ UNCHANGED <<user, online, ladder, queue, dead, running, again, retry, poking, seen, raisedBy, killed, switches>>
      /\ faults' \in 0..MaxFaults
      /\ \E e \in Entries : ServerMove(e.ref)
  BY <1>0, PassEffect
<1>2. PICK r \in Refs : ServerMove(r)
  BY <1>1 DEF Entries
<1>3. DeliveredStays
  BY <1>0, <1>2, MoveStays
<1>4. PICK q \in PassRecord :
        /\ job' = [job EXCEPT ![j] = q]
        /\ \A x \in q.sent : x \in job[j].sent \/ server'[x].status \in {"RESPONDING", "CLOSED"}
        /\ q.pc = "confirm" => q.todo # <<>>
  BY <1>1 DEF PassGoesOn
<1>5. q \in JobRecord /\ q.pc \in PassPlaces /\ job[j].pc \in PassPlaces /\ q # Off
  BY <1>1, Shapes DEF JobRecord, PassPlaces, PassRecord
<1>6. job'[j] = q /\ \A k \in Jobs : k # j => job'[k] = job[k]
  BY <1>0, <1>4 DEF PhoneTyped
<1>7. PhoneTyped'
  BY <1>0, <1>1, <1>2, <1>4, <1>5, <1>6 DEF PhoneTyped, ServerMove
<1>8. \A k \in Jobs : Serving(k)' <=> Serving(k)
  BY <1>5, <1>6 DEF Serving, PassPlaces
<1>9. OneRuns'
  BY <1>1, <1>8 DEF PhoneKept, OneRuns
<1>10. Watched'
  BY <1>5, <1>6 DEF Watched
<1>11. SentDelivered'
  <2> SUFFICES ASSUME NEW k \in Jobs, job'[k].pc \in PassPlaces, NEW x \in job'[k].sent PROVE Delivered(x)'
    BY DEF SentDelivered
  <2>1. x \in Refs
    BY <1>7, Shapes DEF PhoneTyped, PassRecord
  <2>2. x \in job[k].sent \/ server'[x].status \in {"RESPONDING", "CLOSED"}
    BY <1>4, <1>6
  <2>3. job[k].pc \in PassPlaces
    BY <1>5, <1>6
  <2> QED BY <1>3, <2>1, <2>2, <2>3 DEF PhoneKept, SentDelivered, DeliveredStays, Delivered
<1>12. AllKept'
  <2> SUFFICES ASSUME NEW x \in Refs, Past(x)' PROVE Delivered(x)' \/ x \in (Queued \cup dead)'
    BY DEF AllKept
  <2>1. Past(x)
    BY <1>1 DEF Past
  <2> QED BY <1>1, <1>3, <2>1 DEF PhoneKept, AllKept, DeliveredStays, Delivered, Queued
<1> QED BY <1>7, <1>9, <1>10, <1>11, <1>12 DEF PhoneKept

\* Steps of the trigger alone: a flag is put down only when another watch is up.
TriggerOnly == UNCHANGED <<user, online, ladder, queue, dead, server, raisedBy, killed, switches, faults>>

LEMMA TriggerKeeps ==
    ASSUME PhoneKept, PhoneTyped', OneRuns', Watched', TriggerOnly,
           \A j \in Jobs : job'[j].pc \in PassPlaces => job'[j] = job[j] \/ job'[j].sent = {}
    PROVE  PhoneKept'
<1>1. AllKept'
  BY DEF PhoneKept, AllKept, Past, Delivered, Queued, TriggerOnly
<1>2. SentDelivered'
  BY DEF PhoneKept, SentDelivered, Delivered, TriggerOnly
<1> QED BY <1>1, <1>2 DEF PhoneKept

LEMMA TriggerSteps ==
    ASSUME PhoneKept,
           \/ \E j \in Jobs : Pass(j) \/ Release(j) \/ End(j)
           \/ \E p \in Pokers : Claim(p)
           \/ TimerPokes \/ SessionPokes
    PROVE  PhoneKept'
<1>0. PhoneTyped /\ OneRuns /\ Watched
  BY DEF PhoneKept
<1>1. ASSUME NEW j \in Jobs, NEW q \in JobRecord, job' = [job EXCEPT ![j] = q], q.pc # "confirm"
      PROVE  /\ job' \in [Jobs -> JobRecord] /\ job'[j] = q /\ \A k \in Jobs : k # j => job'[k] = job[k]
             /\ \A k \in Jobs : job'[k].pc = "confirm" => job'[k].todo # <<>>
  BY <1>0, <1>1 DEF PhoneTyped
<1>2. ASSUME NEW j \in Jobs, NEW pc \in {"release", "ending"}, job[j].pc \in {"loop", "release"}, JobTo(j, pc)
      PROVE  \E q \in Bare : job' = [job EXCEPT ![j] = q] /\ q.pc = pc
  <2> DEFINE q == [job[j] EXCEPT !.pc = pc]
  <2>1. job[j] \in Bare
    <3>1. job[j] \in JobRecord
      BY <1>0 DEF PhoneTyped
    <3> QED BY <1>2, <3>1, Shapes DEF JobRecord, PassPlaces
  <2>2. q \in Bare /\ q.pc = pc
    BY <1>2, <2>1 DEF Bare
  <2>3. job' = [job EXCEPT ![j] = q]
    BY <1>2 DEF JobTo
  <2> HIDE DEF q
  <2> QED BY <2>2, <2>3
<1>3. ASSUME NEW j \in Jobs, Pass(j) PROVE PhoneKept'
  <2>1. /\ job[j].pc = "loop" /\ again' = FALSE /\ TriggerOnly
        /\ UNCHANGED <<running, retry, poking, seen>>
    BY <1>3 DEF Pass, TriggerOnly, phone, ghosts
  <2>2. \E q \in JobRecord : /\ job' = [job EXCEPT ![j] = q]
                             /\ q.pc \in {"loop", "release", "post"} /\ (q.pc = "post" => q.sent = {})
    <3>1. CASE ~again
      <4>1. JobTo(j, "release")
        BY <1>3, <3>1 DEF Pass
      <4> QED BY <1>2, <2>1, <4>1 DEF JobRecord
    <3>2. CASE again /\ Ready /\ online
      <4> DEFINE q == [pc |-> "post", todo |-> queue, as |-> user, sent |-> {}, dropped |-> {}]
      <4>1. q \in PassRecord /\ q.pc = "post" /\ q.sent = {}
        BY <1>0 DEF PassRecord, PhoneTyped
      <4>2. job' = [job EXCEPT ![j] = q]
        BY <1>3, <3>2 DEF Pass
      <4> HIDE DEF q
      <4> QED BY <4>1, <4>2 DEF JobRecord
    <3>3. CASE again /\ ~(Ready /\ online)
      <4>1. job' = job
        BY <1>3, <3>3 DEF Pass
      <4>2. job' = [job EXCEPT ![j] = job[j]] /\ job[j] \in JobRecord
        BY <1>0, <4>1 DEF PhoneTyped
      <4> QED BY <2>1, <4>2
    <3> QED BY <3>1, <3>2, <3>3
  <2>3. PICK q \in JobRecord : /\ job' = [job EXCEPT ![j] = q]
                               /\ q.pc \in {"loop", "release", "post"} /\ (q.pc = "post" => q.sent = {})
    BY <2>2
  <2>4. /\ job' \in [Jobs -> JobRecord] /\ job'[j] = q /\ \A k \in Jobs : k # j => job'[k] = job[k]
        /\ \A k \in Jobs : job'[k].pc = "confirm" => job'[k].todo # <<>>
    BY <1>1, <2>3
  <2>5. PhoneTyped'
    BY <1>0, <2>1, <2>4 DEF PhoneTyped, TriggerOnly
  <2>6. \A k \in Jobs : Serving(k)' <=> Serving(k)
    BY <2>1, <2>3, <2>4 DEF Serving
  <2>7. OneRuns'
    BY <1>0, <2>1, <2>6 DEF OneRuns
  <2>8. Watched'
    BY <2>3, <2>4, Shapes DEF Watched
  <2>9. \A k \in Jobs : job'[k].pc \in PassPlaces => job'[k] = job[k] \/ job'[k].sent = {}
    BY <2>3, <2>4 DEF PassPlaces
  <2> QED BY <2>1, <2>5, <2>7, <2>8, <2>9, TriggerKeeps
<1>4. ASSUME NEW j \in Jobs, Release(j) PROVE PhoneKept'
  <2>1. /\ job[j].pc = "release" /\ running' = FALSE /\ TriggerOnly
        /\ UNCHANGED <<again, retry, poking, seen>> /\ JobTo(j, "ending")
    BY <1>4 DEF Release, TriggerOnly, phone, ghosts
  <2>2. PICK q \in JobRecord : job' = [job EXCEPT ![j] = q] /\ q.pc = "ending"
    BY <1>2, <2>1 DEF JobRecord
  <2>3. /\ job' \in [Jobs -> JobRecord] /\ job'[j] = q /\ \A k \in Jobs : k # j => job'[k] = job[k]
        /\ \A k \in Jobs : job'[k].pc = "confirm" => job'[k].todo # <<>>
    BY <1>1, <2>2
  <2>4. PhoneTyped'
    BY <1>0, <2>1, <2>3 DEF PhoneTyped, TriggerOnly
  <2>5. OneRuns'
    BY <1>0, <2>1, <2>2, <2>3 DEF OneRuns, Serving
  <2>6. Watched'
    BY <2>2, <2>3, Shapes DEF Watched
  <2>7. \A k \in Jobs : job'[k].pc \in PassPlaces => job'[k] = job[k] \/ job'[k].sent = {}
    BY <2>2, <2>3 DEF PassPlaces
  <2> QED BY <2>1, <2>4, <2>5, <2>6, <2>7, TriggerKeeps
<1>5. ASSUME NEW j \in Jobs, End(j) PROVE PhoneKept'
  <2>1. /\ job[j].pc = "ending" /\ TriggerOnly /\ UNCHANGED <<running, seen>>
        /\ job' = [job EXCEPT ![j] = Off]
        /\ poking' \in SUBSET Pokers /\ again' \in BOOLEAN /\ retry' \in BOOLEAN
        /\ Ready => poking' # {} \/ retry'
    <3>1. user' = user /\ queue' = queue /\ "end" \in Pokers
      BY <1>5 DEF End, phone, Pokers
    <3> QED BY <1>0, <1>5, <3>1 DEF End, TriggerOnly, phone, ghosts, PokeBy, PhoneTyped, Ready, HasSession
  <2>2. Off \in JobRecord /\ Off.pc = "off"
    BY Shapes DEF JobRecord
  <2>3. /\ job' \in [Jobs -> JobRecord] /\ job'[j] = Off /\ \A k \in Jobs : k # j => job'[k] = job[k]
        /\ \A k \in Jobs : job'[k].pc = "confirm" => job'[k].todo # <<>>
    BY <1>1, <2>1, <2>2
  <2>4. PhoneTyped'
    BY <1>0, <2>1, <2>3 DEF PhoneTyped, TriggerOnly
  <2>5. \A k \in Jobs : Serving(k)' <=> Serving(k)
    BY <2>1, <2>2, <2>3 DEF Serving
  <2>6. OneRuns'
    BY <1>0, <2>1, <2>5 DEF OneRuns
  <2>7. Watched'
    BY <2>1 DEF Watched, Ready, HasSession, TriggerOnly
  <2>8. \A k \in Jobs : job'[k].pc \in PassPlaces => job'[k] = job[k] \/ job'[k].sent = {}
    BY <2>2, <2>3 DEF PassPlaces
  <2> QED BY <2>1, <2>4, <2>6, <2>7, <2>8, TriggerKeeps
<1>6. ASSUME NEW p \in Pokers, Claim(p) PROVE PhoneKept'
  <2>1. /\ TriggerOnly /\ UNCHANGED <<again, retry, seen>> /\ poking' = poking \ {p}
        /\ \/ running /\ running' = running /\ job' = job
           \/ ~running /\ running' = TRUE /\ \E j \in Jobs : job[j] = Off /\ job' = [job EXCEPT ![j] = [pc |-> "loop"]]
    BY <1>0, <1>6 DEF Claim, TriggerOnly, phone, ghosts, PhoneTyped
  <2>2. CASE running
    <3>1. PhoneTyped' /\ OneRuns'
      BY <1>0, <2>1, <2>2 DEF PhoneTyped, OneRuns, Serving, TriggerOnly
    <3>2. PICK j \in Jobs : Serving(j)
      BY <1>0, <2>2 DEF OneRuns
    <3>3. job'[j] # Off
      BY <2>1, <2>2, <3>2, Shapes DEF Serving
    <3>4. Watched'
      BY <3>3 DEF Watched
    <3> QED BY <2>1, <2>2, <3>1, <3>4, TriggerKeeps
  <2>3. CASE ~running
    <3>1. PICK j \in Jobs : job[j] = Off /\ job' = [job EXCEPT ![j] = [pc |-> "loop"]]
      BY <2>1, <2>3
    <3>2. [pc |-> "loop"] \in JobRecord /\ [pc |-> "loop"].pc = "loop"
      BY DEF JobRecord, Bare
    <3>3. /\ job' \in [Jobs -> JobRecord] /\ job'[j] = [pc |-> "loop"] /\ \A k \in Jobs : k # j => job'[k] = job[k]
          /\ \A k \in Jobs : job'[k].pc = "confirm" => job'[k].todo # <<>>
      BY <1>1, <3>1, <3>2
    <3>4. PhoneTyped'
      BY <1>0, <2>1, <2>3, <3>3 DEF PhoneTyped, TriggerOnly
    <3>5. \A k \in Jobs : ~Serving(k) /\ (Serving(k)' <=> k = j)
      BY <1>0, <2>3, <3>2, <3>3 DEF OneRuns, Serving
    <3>6. OneRuns'
      BY <2>1, <2>3, <3>5 DEF OneRuns
    <3>7. Watched'
      BY <3>2, <3>3, Shapes DEF Watched
    <3>8. \A k \in Jobs : job'[k].pc \in PassPlaces => job'[k] = job[k] \/ job'[k].sent = {}
      BY <3>2, <3>3 DEF PassPlaces
    <3> QED BY <2>1, <3>4, <3>6, <3>7, <3>8, TriggerKeeps
  <2> QED BY <2>2, <2>3
<1>7. CASE TimerPokes
  <2>1. /\ TriggerOnly /\ UNCHANGED <<running, job, seen>> /\ retry' = FALSE /\ again' = TRUE
        /\ poking' = poking \cup {"timer"}
    BY <1>7 DEF TimerPokes, TriggerOnly, phone, ghosts, PokeBy
  <2>2. PhoneTyped' /\ OneRuns' /\ Watched'
    BY <1>0, <2>1 DEF PhoneTyped, OneRuns, Serving, Watched, TriggerOnly, Pokers
  <2> QED BY <2>1, <2>2, TriggerKeeps
<1>8. CASE SessionPokes
  <2>1. /\ TriggerOnly /\ UNCHANGED <<running, job, retry>> /\ seen' = HasSession
        /\ again' \in BOOLEAN /\ poking' \subseteq Pokers /\ (HasSession => poking' # {}) /\ seen' \in BOOLEAN
    BY <1>0, <1>8 DEF SessionPokes, TriggerOnly, phone, ghosts, PokeBy, PhoneTyped, Pokers, HasSession
  <2>2. PhoneTyped' /\ OneRuns'
    BY <1>0, <2>1 DEF PhoneTyped, OneRuns, Serving, TriggerOnly
  <2>3. Watched'
    BY <2>1 DEF Watched, Ready, HasSession, TriggerOnly
  <2> QED BY <2>1, <2>2, <2>3, TriggerKeeps
<1> QED BY <1>3, <1>4, <1>5, <1>6, <1>7, <1>8

\* Firing, queueing and the poke that follows.
LEMMA GateSteps ==
    ASSUME PhoneKept, (\E r \in Refs : Fire(r)) \/ Queue \/ LadderPokes
    PROVE  PhoneKept'
<1>0. PhoneTyped /\ OneRuns
  BY DEF PhoneKept
<1>1. ASSUME NEW r \in Refs, Fire(r) PROVE PhoneKept'
  <2> DEFINE l == [pc |-> "start", ref |-> r]
  <2>1. l \in LadderRecord /\ l.pc = "start" /\ l.ref = r /\ l # Idle
    BY Shapes DEF LadderRecord
  <2>2. /\ ladder = Idle /\ ladder' = l /\ raisedBy[r] = NotRaised /\ raisedBy' = [raisedBy EXCEPT ![r] = user]
        /\ UNCHANGED <<user, online, queue, dead, running, again, retry, poking, job, seen, server, killed, switches, faults>>
    BY <1>1 DEF Fire, phone, trigger
  <2> HIDE DEF l
  <2>3. PhoneTyped'
    BY <1>0, <2>1, <2>2 DEF PhoneTyped
  <2>4. OneRuns' /\ Watched'
    BY <2>2 DEF PhoneKept, OneRuns, Watched, Serving, Ready, HasSession
  <2>5. SentDelivered'
    BY <2>2 DEF PhoneKept, SentDelivered, Delivered
  <2>6. \A x \in Refs : Past(x)' => Past(x)
    BY <1>0, <2>1, <2>2, Shapes DEF Past, LadderPlaces, PhoneTyped
  <2>7. AllKept'
    BY <2>2, <2>6 DEF PhoneKept, AllKept, Delivered, Queued
  <2> QED BY <2>3, <2>4, <2>5, <2>7 DEF PhoneKept
<1>2. CASE Queue
  <2> DEFINE e == [ref |-> ladder.ref, owner |-> user]
  <2>1. /\ ladder.pc = "queue" /\ ladder \in LadderRecord /\ ladder.ref \in Refs
    BY <1>0, <1>2, Shapes DEF Queue, LadderAt, PhoneTyped
  <2>2. e \in Entries /\ e.ref = ladder.ref
    BY <1>0, <2>1 DEF Entries, PhoneTyped
  <2>3. /\ queue' = Append(queue, e) /\ ladder' = [ladder EXCEPT !.pc = "poke"]
        /\ UNCHANGED <<user, online, dead, running, again, retry, poking, job, seen, server, raisedBy, killed, switches, faults>>
    BY <1>2 DEF Queue, LadderTo, trigger, ghosts
  <2> HIDE DEF e
  <2>4. queue' \in Seq(Entries) /\ Range(queue') = Range(queue) \cup {e}
    BY <1>0, <2>2, <2>3, QueueParts DEF PhoneTyped
  <2>5. ladder' \in LadderRecord /\ ladder'.pc = "poke" /\ ladder'.ref = ladder.ref
    BY <2>1, <2>3 DEF LadderRecord
  <2>6. PhoneTyped'
    BY <1>0, <2>3, <2>4, <2>5 DEF PhoneTyped
  <2>7. OneRuns' /\ Watched'
    BY <1>0, <2>3, <2>5, Shapes DEF OneRuns, Watched, Serving
  <2>8. SentDelivered'
    BY <2>3 DEF PhoneKept, SentDelivered, Delivered
  <2>9. Queued' = Queued \cup {ladder.ref}
    <3>1. \A x : x \in Queued <=> \E d \in Range(queue) : d.ref = x
      BY DEF Queued, Range
    <3>2. \A x : x \in Queued' <=> \E d \in Range(queue') : d.ref = x
      BY DEF Queued, Range
    <3> HIDE DEF Queued
    <3> QED BY <2>2, <2>4, <3>1, <3>2
  <2>10. AllKept'
    <3> SUFFICES ASSUME NEW x \in Refs, Past(x)' PROVE Delivered(x)' \/ x \in (Queued \cup dead)'
      BY DEF AllKept
    <3>1. Past(x) \/ x = ladder.ref
      BY <2>3 DEF Past
    <3> QED BY <2>3, <2>9, <3>1 DEF PhoneKept, AllKept, Delivered
  <2> QED BY <2>6, <2>7, <2>8, <2>10 DEF PhoneKept
<1>3. CASE LadderPokes
  <2>1. /\ ladder.pc = "poke" /\ ladder' = Idle /\ again' = TRUE /\ poking' = poking \cup {"ladder"}
        /\ UNCHANGED <<user, online, queue, dead, running, retry, job, seen, server, raisedBy, killed, switches, faults>>
    BY <1>3 DEF LadderPokes, LadderAt, PokeBy, phone, ghosts
  <2>2. PhoneTyped'
    BY <1>0, <2>1 DEF PhoneTyped, Pokers
  <2>3. OneRuns' /\ Watched'
    BY <1>0, <2>1 DEF OneRuns, Watched, Serving
  <2>4. SentDelivered'
    BY <2>1 DEF PhoneKept, SentDelivered, Delivered
  <2>5. \A x \in Refs : Past(x)' => Past(x)
    BY <2>1 DEF Past, LadderPlaces
  <2>6. AllKept'
    BY <2>1, <2>5 DEF PhoneKept, AllKept, Delivered, Queued
  <2> QED BY <2>2, <2>3, <2>4, <2>6 DEF PhoneKept
<1> QED BY <1>1, <1>2, <1>3

\* remaining(): what a pass writes back is the queue of now, without what it sent or dropped.
LEMMA WriteEffect ==
    ASSUME PhoneTyped, NEW j \in Jobs, Write(j)
    PROVE  /\ job[j] \in PassRecord /\ job[j].pc \in PassPlaces
           /\ queue' \in Seq(Entries)
           /\ Range(queue') = {e \in Range(queue) : e.ref \notin job[j].sent \cup job[j].dropped}
           /\ dead' = dead \cup job[j].dropped
           /\ job' = [job EXCEPT ![j] = [pc |-> "loop"]]
           /\ UNCHANGED <<user, online, ladder, running, again, retry, poking, seen, server, raisedBy, killed, switches, faults>>
<1>1. job[j].pc \in PassPlaces /\ job[j] \in PassRecord
  <2>1. job[j].pc \in PassPlaces
    BY DEF Write, InPass, PassPlaces
  <2>2. job[j] \in JobRecord
    BY DEF PhoneTyped
  <2> QED BY <2>1, <2>2, Shapes
<1> DEFINE T == {e \in Entries : e.ref \notin job[j].sent \cup job[j].dropped}
<1>2. queue' = Filtered(queue, T)
  BY DEF Write, Remaining
<1>3. queue \in Seq(Entries) /\ Range(queue) \subseteq Entries
  BY QueueParts DEF PhoneTyped
<1>4. queue' \in Seq(Entries) /\ Range(queue') = Range(queue) \cap T
  <2> HIDE DEF T
  <2> QED BY <1>2, <1>3, FilterKeeps
<1> QED BY <1>1, <1>3, <1>4 DEF Write, ghosts

LEMMA WriteStep == ASSUME PhoneKept, NEW j \in Jobs, Write(j) PROVE PhoneKept'
<1>0. PhoneTyped /\ OneRuns
  BY DEF PhoneKept
<1>1. /\ job[j] \in PassRecord /\ job[j].pc \in PassPlaces
      /\ queue' \in Seq(Entries)
      /\ Range(queue') = {e \in Range(queue) : e.ref \notin job[j].sent \cup job[j].dropped}
      /\ dead' = dead \cup job[j].dropped
      /\ job' = [job EXCEPT ![j] = [pc |-> "loop"]]
      /\ UNCHANGED <<user, online, ladder, running, again, retry, poking, seen, server, raisedBy, killed, switches, faults>>
  BY <1>0, WriteEffect
<1>2. [pc |-> "loop"] \in JobRecord /\ [pc |-> "loop"].pc = "loop"
  BY DEF JobRecord, Bare
<1>3. /\ job' \in [Jobs -> JobRecord] /\ job'[j] = [pc |-> "loop"] /\ \A k \in Jobs : k # j => job'[k] = job[k]
  BY <1>0, <1>1, <1>2 DEF PhoneTyped
<1>4. PhoneTyped'
  BY <1>0, <1>1, <1>2, <1>3 DEF PhoneTyped, PassRecord
<1>5. \A k \in Jobs : Serving(k)' <=> Serving(k)
  BY <1>1, <1>2, <1>3 DEF Serving, PassPlaces
<1>6. OneRuns'
  BY <1>0, <1>1, <1>5 DEF OneRuns
<1>7. Watched'
  BY <1>2, <1>3, Shapes DEF Watched
<1>8. SentDelivered'
  BY <1>1, <1>2, <1>3 DEF PhoneKept, SentDelivered, Delivered, PassPlaces
<1>9. AllKept'
  <2> SUFFICES ASSUME NEW x \in Refs, Past(x)' PROVE Delivered(x)' \/ x \in (Queued \cup dead)'
    BY DEF AllKept
  <2>1. Past(x)
    BY <1>1 DEF Past
  <2>2. CASE x \in Queued /\ x \notin job[j].sent \cup job[j].dropped
    <3>1. PICK e \in Range(queue) : e.ref = x
      BY <2>2 DEF Queued, Range
    <3>2. e \in Range(queue')
      BY <1>1, <2>2, <3>1
    <3> QED BY <3>1, <3>2 DEF Queued, Range
  <2>3. CASE x \in job[j].sent
    BY <1>1, <2>3 DEF PhoneKept, SentDelivered, Delivered
  <2> QED BY <1>1, <2>1, <2>2, <2>3 DEF PhoneKept, AllKept, Delivered
<1> QED BY <1>4, <1>6, <1>7, <1>8, <1>9 DEF PhoneKept

LEMMA WorldSteps ==
    ASSUME PhoneKept,
           \/ UNCHANGED vars \/ \E r \in Refs : CloseIncident(r)
           \/ SignOut \/ \E u \in Users : SignIn(u)
           \/ NetworkLost \/ NetworkBack \/ Restart
    PROVE  PhoneKept'
<1>0. PhoneTyped /\ OneRuns /\ Watched /\ AllKept /\ SentDelivered
  BY DEF PhoneKept
<1>1. faults \in 0..MaxFaults /\ (faults < MaxFaults => faults + 1 \in 0..MaxFaults)
      /\ switches \in 0..MaxSwitches /\ (switches < MaxSwitches => switches + 1 \in 0..MaxSwitches)
  <2>1. faults \in 0..MaxFaults /\ MaxFaults \in Nat /\ switches \in 0..MaxSwitches /\ MaxSwitches \in Nat
    BY <1>0, PhoneAssumption DEF PhoneTyped
  <2> QED BY <2>1
<1>2. ASSUME PhoneTyped', Watched', UNCHANGED <<ladder, queue, dead, running, job, server, raisedBy, killed>>
      PROVE  PhoneKept'
  <2>1. OneRuns'
    BY <1>0, <1>2 DEF OneRuns, Serving
  <2>2. AllKept' /\ SentDelivered'
    BY <1>0, <1>2 DEF AllKept, SentDelivered, Past, Delivered, Queued
  <2> QED BY <1>2, <2>1, <2>2 DEF PhoneKept
<1>3. CASE UNCHANGED vars
  <2>1. PhoneTyped' /\ Watched'
    BY <1>0, <1>3 DEF vars, phone, trigger, ghosts, PhoneTyped, Watched, Ready, HasSession
  <2> QED BY <1>2, <1>3, <2>1 DEF vars, phone, trigger, ghosts
<1>4. ASSUME NEW r \in Refs, CloseIncident(r) PROVE PhoneKept'
  <2>1. /\ ServerMove(r)
        /\ UNCHANGED <<user, online, ladder, queue, dead, running, again, retry, poking, job, seen, raisedBy, killed, switches, faults>>
    BY <1>0, <1>4, ServerMoves DEF CloseIncident, phone, trigger, ghosts
  <2>2. DeliveredStays
    BY <1>0, <2>1, MoveStays
  <2>3. PhoneTyped'
    BY <1>0, <2>1 DEF PhoneTyped, ServerMove
  <2>4. OneRuns' /\ Watched'
    BY <1>0, <2>1 DEF OneRuns, Watched, Serving, Ready, HasSession
  <2>5. SentDelivered'
    <3> SUFFICES ASSUME NEW j \in Jobs, job[j].pc \in PassPlaces, NEW x \in job[j].sent PROVE Delivered(x)'
      BY <2>1 DEF SentDelivered
    <3>1. x \in Refs
      BY <1>0, Shapes DEF PhoneTyped, PassRecord
    <3> QED BY <1>0, <2>2, <3>1 DEF SentDelivered, DeliveredStays, Delivered
  <2>6. AllKept'
    BY <1>0, <2>1, <2>2 DEF AllKept, Past, DeliveredStays, Delivered, Queued
  <2> QED BY <2>3, <2>4, <2>5, <2>6 DEF PhoneKept
<1>5. CASE SignOut
  <2>1. /\ user' = NoUser /\ switches' \in 0..MaxSwitches
        /\ UNCHANGED <<online, ladder, queue, dead, running, again, retry, poking, job, seen, server, raisedBy, killed, faults>>
    BY <1>1, <1>5 DEF SignOut, Switch, phone, trigger, ghosts
  <2>2. PhoneTyped' /\ Watched'
    BY <1>0, <2>1 DEF PhoneTyped, Watched, Ready, HasSession
  <2> QED BY <1>2, <2>1, <2>2
<1>6. ASSUME NEW u \in Users, SignIn(u) PROVE PhoneKept'
  <2>1. /\ user' = u /\ ~seen /\ switches' \in 0..MaxSwitches
        /\ UNCHANGED <<online, ladder, queue, dead, running, again, retry, poking, job, seen, server, raisedBy, killed, faults>>
    BY <1>1, <1>6 DEF SignIn, Switch, phone, trigger, ghosts
  <2>2. PhoneTyped' /\ Watched'
    BY <1>0, <2>1 DEF PhoneTyped, Watched
  <2> QED BY <1>2, <2>1, <2>2
<1>7. CASE NetworkLost
  <2>1. /\ online' = FALSE /\ faults' \in 0..MaxFaults
        /\ UNCHANGED <<user, ladder, queue, dead, running, again, retry, poking, job, seen, server, raisedBy, killed, switches>>
    BY <1>1, <1>7 DEF NetworkLost, Fault, phone, trigger, ghosts
  <2>2. PhoneTyped' /\ Watched'
    BY <1>0, <2>1 DEF PhoneTyped, Watched
  <2> QED BY <1>2, <2>1, <2>2
<1>8. CASE NetworkBack
  <2>1. /\ online' = TRUE /\ again' = TRUE /\ poking' = poking \cup {"network"}
        /\ UNCHANGED <<user, ladder, queue, dead, running, retry, job, seen, server, raisedBy, killed, switches, faults>>
    BY <1>8 DEF NetworkBack, PokeBy, phone, ghosts
  <2>2. PhoneTyped' /\ Watched'
    BY <1>0, <2>1 DEF PhoneTyped, Watched, Pokers
  <2> QED BY <1>2, <2>1, <2>2
<1>9. CASE Restart
  <2>1. /\ ladder' = Idle /\ running' = FALSE /\ again' = FALSE /\ retry' = FALSE /\ seen' = FALSE
        /\ poking' = {"launch"} /\ job' = [k \in Jobs |-> Off] /\ faults' \in 0..MaxFaults
        /\ killed' = IF ladder = Idle \/ ladder.pc = "poke" THEN killed ELSE killed \cup {ladder.ref}
        /\ UNCHANGED <<user, online, queue, dead, server, raisedBy, switches>>
    BY <1>1, <1>9 DEF Restart, Fault, LadderAt, phone
  <2>2. Off \in JobRecord /\ Off.pc = "off" /\ ladder.pc # "confirmed"
    BY <1>0, Shapes DEF JobRecord, PhoneTyped
  <2>3. killed \subseteq killed' /\ killed' \subseteq Refs
    BY <1>0, <2>1, Shapes DEF PhoneTyped
  <2>4. PhoneTyped'
    BY <1>0, <2>1, <2>2, <2>3 DEF PhoneTyped, Pokers
  <2>5. OneRuns' /\ Watched'
    BY <2>1, <2>2 DEF OneRuns, Watched, Serving
  <2>6. SentDelivered'
    BY <2>1, <2>2 DEF SentDelivered, PassPlaces
  <2>7. \A x \in Refs : Past(x)' => Past(x)
    BY <1>0, <2>1, <2>3, Shapes DEF Past, LadderPlaces, PhoneTyped
  <2>8. AllKept'
    BY <1>0, <2>1, <2>7 DEF AllKept, Delivered, Queued
  <2> QED BY <2>4, <2>5, <2>6, <2>8 DEF PhoneKept
<1> QED BY <1>3, <1>4, <1>5, <1>6, <1>7, <1>8, <1>9

LEMMA PhoneStep == PhoneKept /\ [Next]_vars => PhoneKept'
BY LadderSteps, PassSteps, TriggerSteps, GateSteps, WriteStep, WorldSteps DEF Next, Ladder, Replay

LEMMA PhoneInitKept == Init => PhoneKept
<1> SUFFICES ASSUME Init PROVE PhoneKept
  OBVIOUS
<1>1. PhoneTyped
  <2>1. queue \in Seq(Entries) /\ raisedBy \in [Refs -> Users \cup {NoUser, NotRaised}]
    <3>1. CASE queue = <<>> /\ raisedBy = [r \in Refs |-> NotRaised]
      BY <3>1
    <3>2. ASSUME NEW left \in Refs, NEW owner \in Users \cup {NoUser},
                 queue = <<[ref |-> left, owner |-> owner]>>,
                 raisedBy = [r \in Refs |-> IF r = left THEN owner ELSE NotRaised]
          PROVE  queue \in Seq(Entries) /\ raisedBy \in [Refs -> Users \cup {NoUser, NotRaised}]
      <4>1. [ref |-> left, owner |-> owner] \in Entries
        BY DEF Entries
      <4> QED BY <3>2, <4>1
    <3> QED BY <3>1, <3>2 DEF Init
  <2>2. job \in [Jobs -> JobRecord] /\ \A j \in Jobs : job[j].pc = "off"
    BY Shapes DEF Init, JobRecord
  <2>3. 0 \in 0..MaxSwitches /\ 0 \in 0..MaxFaults
    <3>1. MaxSwitches \in Nat /\ MaxFaults \in Nat
      BY PhoneAssumption
    <3> QED BY <3>1
  <2> QED BY <2>1, <2>2, <2>3 DEF Init, PhoneTyped, Pokers
<1>2. OneRuns /\ Watched /\ SentDelivered
  BY Shapes DEF Init, OneRuns, Watched, SentDelivered, Serving, PassPlaces
<1>3. AllKept
  <2> SUFFICES ASSUME NEW r \in Refs, raisedBy[r] # NotRaised PROVE r \in Queued
    BY DEF AllKept, Past
  <2>1. PICK owner \in Users \cup {NoUser} : queue = <<[ref |-> r, owner |-> owner]>>
    BY DEF Init
  <2>2. 1 \in DOMAIN queue /\ queue[1].ref = r
    BY <2>1
  <2> QED BY <2>2 DEF Queued
<1> QED BY <1>1, <1>2, <1>3 DEF PhoneKept

LEMMA PhoneAlwaysKept == Spec => []PhoneKept
BY PhoneInitKept, PhoneStep, PTL DEF Spec

LEMMA KeptIsHeld == PhoneKept => NoneErased /\ QueueIsWatched
<1> SUFFICES ASSUME PhoneKept PROVE NoneErased /\ QueueIsWatched
  OBVIOUS
<1>1. NoneErased
  BY Shapes DEF PhoneKept, AllKept, Past, NoneErased, LadderPlaces
<1>2. QueueIsWatched
  BY DEF PhoneKept, OneRuns, Watched, Serving, QueueIsWatched, LadderAt
<1> QED BY <1>1, <1>2

\* The app, its queue, its jobs and the server's incidents have their types.
THEOREM PhoneSosTypes == Spec => []TypeOK
<1>1. PhoneKept => TypeOK
  BY DEF PhoneKept, PhoneTyped, TypeOK, LadderRecord, JobRecord, Bare, PassRecord, Incident, Steps
<1> QED BY <1>1, PhoneAlwaysKept, PTL

\* Emergency.queue, SosQueue.remaining and ReplayTrigger, whoever pokes and whatever is
\* killed: an SOS whose ladder has run is delivered, queued or among the refused, and
\* while the phone is online and signed in something is coming that will run the queue.
THEOREM NoSosIsForgotten == Spec => [](NoneErased /\ QueueIsWatched)
BY KeptIsHeld, PhoneAlwaysKept, PTL

\* Whose an SOS is, wherever it has got to.
Tagged(entries) == \A e \in entries : raisedBy[e.ref] = e.owner
OwnRecords ==
    /\ ladder # Idle => raisedBy[ladder.ref] = user
    /\ Tagged(Range(queue))
    /\ \A j \in Jobs : job[j].pc \in PassPlaces => job[j].as = user /\ Tagged(Range(job[j].todo))
    /\ \A r \in Refs : server[r] # NotThere => raisedBy[r] # NotRaised
    /\ RightRecord

LEMMA NobodyIsNobody == NotRaised \notin Users \cup {NoUser} /\ NoUser \notin Users
BY PhoneAssumption DEF NotRaised

\* A request sent for an SOS under the account that raised it makes a right record.
LEMMA RecordMade ==
    ASSUME PhoneTyped, OwnRecords, NEW r \in Refs, ServerMove(r), raisedBy' = raisedBy,
           server[r] = NotThere /\ server' # server =>
             raisedBy[r] # NotRaised /\ (raisedBy[r] \in Users => raisedBy[r] = user)
    PROVE  /\ \A x \in Refs : server'[x] # NotThere => raisedBy'[x] # NotRaised
           /\ RightRecord'
<1> SUFFICES ASSUME NEW x \in Refs, server'[x] # NotThere
             PROVE  raisedBy[x] # NotRaised /\ (raisedBy[x] \in Users => server'[x].owner = raisedBy[x])
  BY DEF RightRecord
<1>1. CASE x = r /\ server[r] = NotThere
  BY <1>1, NobodyIsNobody DEF ServerMove
<1>2. CASE x = r /\ server[r] # NotThere
  BY <1>2 DEF ServerMove, OwnRecords, RightRecord
<1>3. CASE x # r
  BY <1>3 DEF ServerMove, OwnRecords, RightRecord
<1> QED BY <1>1, <1>2, <1>3

LEMMA RecordsStay ==
    ASSUME OwnRecords, UNCHANGED <<server, raisedBy, queue>>,
           ladder' # Idle => raisedBy[ladder'.ref] = user',
           \A j \in Jobs : job'[j].pc \in PassPlaces => job'[j].as = user' /\ Tagged(Range(job'[j].todo))
    PROVE  OwnRecords'
BY DEF OwnRecords, Tagged, RightRecord

LEMMA RecordStep == ~SwitchInFlight /\ PhoneTyped /\ OwnRecords /\ [Next]_vars => OwnRecords'
<1> SUFFICES ASSUME ~SwitchInFlight, PhoneTyped, OwnRecords, [Next]_vars PROVE OwnRecords'
  OBVIOUS
<1>1. CASE UNCHANGED vars
  BY <1>1, RecordsStay DEF vars, phone, trigger, ghosts, OwnRecords
<1>2. ASSUME NEW r \in Refs, Fire(r) PROVE OwnRecords'
  <2>1. /\ ladder' = [pc |-> "start", ref |-> r] /\ raisedBy[r] = NotRaised /\ raisedBy' = [raisedBy EXCEPT ![r] = user]
        /\ UNCHANGED <<user, queue, job, server>>
    BY <1>2 DEF Fire, phone, trigger
  <2>2. raisedBy'[r] = user /\ user # NotRaised /\ \A x \in Refs : x # r => raisedBy'[x] = raisedBy[x]
    BY <2>1, NobodyIsNobody DEF PhoneTyped
  <2>3. \A e \in Entries : raisedBy[e.ref] = e.owner => e.ref # r /\ e.ref \in Refs
    BY <2>1, NobodyIsNobody DEF Entries
  <2>4. ASSUME NEW E \in SUBSET Entries, Tagged(E) PROVE Tagged(E)'
    BY <2>2, <2>3, <2>4 DEF Tagged
  <2>5. Range(queue) \subseteq Entries
    BY QueueParts DEF PhoneTyped
  <2>6. Tagged(Range(queue))'
    <3>1. Tagged(Range(queue))
      BY DEF OwnRecords
    <3>2. \A e \in Range(queue) : raisedBy'[e.ref] = e.owner
      BY <2>2, <2>3, <2>5, <3>1 DEF Tagged
    <3> QED BY <2>1, <3>2 DEF Tagged
  <2>7. ASSUME NEW j \in Jobs, job'[j].pc \in PassPlaces
        PROVE  job'[j].as = user' /\ Tagged(Range(job[j].todo))'
    <3>1. job[j].as = user /\ Tagged(Range(job[j].todo)) /\ job'[j] = job[j]
      BY <2>1, <2>7 DEF OwnRecords
    <3>2. Range(job[j].todo) \subseteq Entries
      <4>1. job[j] \in PassRecord
        BY <2>1, <2>7, Shapes DEF PhoneTyped
      <4>2. job[j].todo \in Seq(Entries)
        BY <4>1 DEF PassRecord
      <4> QED BY <4>2, QueueParts
    <3>3. \A e \in Range(job[j].todo) : raisedBy'[e.ref] = e.owner
      BY <2>2, <2>3, <3>1, <3>2 DEF Tagged
    <3> QED BY <2>1, <3>1, <3>3 DEF Tagged
  <2>8. server[r] = NotThere /\ RightRecord' /\ \A x \in Refs : server'[x] # NotThere => raisedBy'[x] # NotRaised
    <3>1. server[r] = NotThere
      BY <2>1 DEF OwnRecords
    <3> QED BY <2>1, <2>2, <3>1 DEF OwnRecords, RightRecord
  <2>9. raisedBy'[ladder'.ref] = user'
    BY <2>1, <2>2
  <2> QED BY <2>1, <2>6, <2>7, <2>8, <2>9 DEF OwnRecords
<1>3. ASSUME NEW r \in Refs, CloseIncident(r) PROVE OwnRecords'
  <2>1. ServerMove(r) /\ server[r] # NotThere /\ UNCHANGED <<user, ladder, queue, job, raisedBy>>
    BY <1>3, ServerMoves, Shapes DEF CloseIncident, phone, trigger, ghosts
  <2>2. RightRecord' /\ \A x \in Refs : server'[x] # NotThere => raisedBy'[x] # NotRaised
    BY <2>1, RecordMade
  <2> QED BY <2>1, <2>2 DEF OwnRecords, Tagged
<1>4. CASE ChooseRung \/ DataPost \/ DataConfirm \/ DataRefused \/ DataUnanswered
  <2>1. PICK r \in Refs : r = ladder.ref
    BY <1>4, LadderEffect
  <2>2. /\ ladder \in LadderRecord /\ ServerMove(r)
        /\ \/ ladder' \in LadderRecord /\ ladder'.ref = r
           \/ ladder' = Idle
        /\ UNCHANGED <<user, queue, job, raisedBy>>
    BY <1>4, <2>1, LadderEffect
  <2>3. raisedBy[r] = user
    BY <2>1, <2>2, Shapes DEF OwnRecords
  <2>4. raisedBy[r] # NotRaised
    BY <2>3, NobodyIsNobody DEF PhoneTyped
  <2>5. RightRecord' /\ \A x \in Refs : server'[x] # NotThere => raisedBy'[x] # NotRaised
    BY <2>2, <2>3, <2>4, RecordMade
  <2> QED BY <2>2, <2>3, <2>5 DEF OwnRecords, Tagged
<1>5. CASE Queue
  <2> DEFINE e == [ref |-> ladder.ref, owner |-> user]
  <2>1. /\ ladder \in LadderRecord /\ ladder' = [ladder EXCEPT !.pc = "poke"] /\ queue' = Append(queue, e)
        /\ UNCHANGED <<user, job, server, raisedBy>>
    BY <1>5, Shapes DEF Queue, LadderAt, LadderTo, PhoneTyped, trigger, ghosts
  <2>2. e \in Entries /\ e.ref = ladder.ref /\ e.owner = user
    BY <2>1, Shapes DEF Entries, PhoneTyped
  <2>3. raisedBy[ladder.ref] = user
    BY <2>1, Shapes DEF OwnRecords
  <2> HIDE DEF e
  <2>4. Range(queue') = Range(queue) \cup {e}
    BY <2>1, <2>2, QueueParts DEF PhoneTyped
  <2>5. ladder'.ref = ladder.ref
    BY <2>1 DEF LadderRecord
  <2>6. Tagged(Range(queue))'
    BY <2>1, <2>2, <2>3, <2>4 DEF OwnRecords, Tagged
  <2> QED BY <2>1, <2>3, <2>5, <2>6 DEF OwnRecords, Tagged, RightRecord
<1>6. CASE LadderPokes
  BY <1>6, RecordsStay DEF LadderPokes, phone, ghosts, OwnRecords
<1>7. ASSUME NEW p \in Pokers, Claim(p) PROVE OwnRecords'
  <2>1. /\ UNCHANGED <<user, ladder, queue, server, raisedBy>>
        /\ job' = job \/ \E j \in Jobs : job' = [job EXCEPT ![j] = [pc |-> "loop"]]
    BY <1>7 DEF Claim, phone, ghosts
  <2>2. \A k \in Jobs : job'[k] = job[k] \/ job'[k].pc = "loop"
    BY <2>1 DEF PhoneTyped
  <2> QED BY <2>1, <2>2, RecordsStay DEF OwnRecords, PassPlaces
<1>8. ASSUME NEW j \in Jobs, Pass(j) \/ Release(j) \/ End(j) PROVE OwnRecords'
  <2>1. UNCHANGED <<user, ladder, queue, server, raisedBy>>
    BY <1>8 DEF Pass, Release, End, phone, ghosts
  <2>2. /\ \A k \in Jobs : k # j => job'[k] = job[k]
        /\ \/ job'[j].pc \notin PassPlaces
           \/ job'[j].as = user /\ job'[j].todo = queue
    <3>1. job[j] \in JobRecord
      BY DEF PhoneTyped
    <3>2. ASSUME NEW pc \in {"release", "ending"}, JobTo(j, pc), job[j].pc \in {"loop", "release"}
          PROVE  job'[j].pc \notin PassPlaces /\ \A k \in Jobs : k # j => job'[k] = job[k]
      <4>1. job[j] \in Bare
        BY <3>1, <3>2, Shapes DEF JobRecord, PassPlaces
      <4> QED BY <3>2, <4>1 DEF JobTo, Bare, PassPlaces, PhoneTyped
    <3>3. CASE Release(j)
      BY <3>2, <3>3 DEF Release
    <3>4. CASE End(j)
      BY <3>4, Shapes DEF End, PhoneTyped, PassPlaces
    <3>5. CASE Pass(j)
      <4>1. job[j].pc = "loop"
        BY <3>5 DEF Pass
      <4>2. CASE ~again
        BY <3>2, <3>5, <4>1, <4>2 DEF Pass
      <4>3. CASE again /\ Ready /\ online
        BY <3>5, <4>3 DEF Pass, PhoneTyped
      <4>4. CASE again /\ ~(Ready /\ online)
        BY <3>5, <4>1, <4>4 DEF Pass, PassPlaces
      <4> QED BY <4>2, <4>3, <4>4
    <3> QED BY <1>8, <3>3, <3>4, <3>5
  <2>3. ASSUME NEW k \in Jobs, job'[k].pc \in PassPlaces
        PROVE  job'[k].as = user' /\ Tagged(Range(job'[k].todo))
    BY <2>1, <2>2, <2>3 DEF OwnRecords
  <2> QED BY <2>1, <2>3, RecordsStay DEF OwnRecords
<1>9. CASE TimerPokes \/ SessionPokes
  BY <1>9, RecordsStay DEF TimerPokes, SessionPokes, phone, ghosts, OwnRecords
<1>10. ASSUME NEW j \in Jobs, Skip(j) \/ Post(j) \/ Confirm(j) \/ Drop(j) \/ Stop(j) \/ Unanswered(j)
       PROVE  OwnRecords'
  <2>1. /\ job[j] \in PassRecord /\ PassGoesOn(j) /\ UNCHANGED <<user, ladder, queue, raisedBy>>
        /\ \E e \in Range(job[j].todo) :
             /\ e \in Entries /\ ServerMove(e.ref)
             /\ server[e.ref] = NotThere /\ server' # server => Mine(e, job[j].as)
    BY <1>10, PassEffect
  <2>2. PICK e \in Range(job[j].todo) :
             /\ e \in Entries /\ ServerMove(e.ref)
             /\ server[e.ref] = NotThere /\ server' # server => Mine(e, job[j].as)
    BY <2>1
  <2>3. job[j].pc \in PassPlaces
    BY <2>1, Shapes DEF JobRecord
  <2>4. e.ref \in Refs /\ raisedBy[e.ref] = e.owner /\ job[j].as = user /\ e.owner \in Users \cup {NoUser}
    BY <2>2, <2>3 DEF OwnRecords, Tagged, Entries
  <2>5. server[e.ref] = NotThere /\ server' # server =>
          raisedBy[e.ref] # NotRaised /\ (raisedBy[e.ref] \in Users => raisedBy[e.ref] = user)
    BY <2>2, <2>4, NobodyIsNobody DEF Mine
  <2>6. PICK r \in Refs : r = e.ref
    BY <2>4
  <2>7. RightRecord' /\ \A x \in Refs : server'[x] # NotThere => raisedBy'[x] # NotRaised
    BY <2>1, <2>2, <2>5, <2>6, RecordMade
  <2>8. PICK q \in PassRecord :
          job' = [job EXCEPT ![j] = q] /\ q.as = job[j].as /\ Range(q.todo) \subseteq Range(job[j].todo)
    BY <2>1 DEF PassGoesOn
  <2>9. job'[j] = q /\ \A k \in Jobs : k # j => job'[k] = job[k]
    BY <2>8 DEF PhoneTyped
  <2>10. ASSUME NEW k \in Jobs, job'[k].pc \in PassPlaces
         PROVE  job'[k].as = user' /\ \A d \in Range(job'[k].todo) : raisedBy[d.ref] = d.owner
    BY <2>1, <2>3, <2>4, <2>8, <2>9, <2>10 DEF OwnRecords, Tagged
  <2> QED BY <2>1, <2>7, <2>10 DEF OwnRecords, Tagged
<1>11. ASSUME NEW j \in Jobs, Write(j) PROVE OwnRecords'
  <2>1. /\ Range(queue') \subseteq Range(queue) /\ job' = [job EXCEPT ![j] = [pc |-> "loop"]]
        /\ UNCHANGED <<user, ladder, server, raisedBy>>
    BY <1>11, WriteEffect
  <2>2. \A k \in Jobs : job'[k] = job[k] \/ job'[k].pc = "loop"
    BY <2>1 DEF PhoneTyped
  <2>3. Tagged(Range(queue))'
    BY <2>1 DEF OwnRecords, Tagged
  <2>4. ASSUME NEW k \in Jobs, job'[k].pc \in PassPlaces
        PROVE  job'[k].as = user' /\ \A d \in Range(job'[k].todo) : raisedBy[d.ref] = d.owner
    BY <2>1, <2>2, <2>4 DEF OwnRecords, Tagged, PassPlaces
  <2> QED BY <2>1, <2>3, <2>4 DEF OwnRecords, Tagged, RightRecord
<1>12. CASE SignOut \/ \E u \in Users : SignIn(u)
  <2>1. /\ UNCHANGED <<ladder, queue, job, server, raisedBy>>
        /\ ladder = Idle /\ \A j \in Jobs : job[j].pc \notin PassPlaces
    BY <1>12 DEF SignOut, SignIn, Switch, InFlight, PassPlaces, phone, trigger, ghosts
  <2> QED BY <2>1, RecordsStay
<1>13. CASE NetworkLost \/ NetworkBack
  BY <1>13, RecordsStay DEF NetworkLost, NetworkBack, phone, trigger, ghosts, OwnRecords
<1>14. CASE Restart
  <2>1. /\ UNCHANGED <<user, queue, server, raisedBy>> /\ ladder' = Idle /\ job' = [j \in Jobs |-> Off]
    BY <1>14 DEF Restart, phone
  <2>2. \A j \in Jobs : job'[j].pc \notin PassPlaces
    BY <2>1, Shapes DEF PassPlaces
  <2> QED BY <2>1, <2>2, RecordsStay
<1> QED BY <1>1, <1>2, <1>3, <1>4, <1>5, <1>6, <1>7, <1>8, <1>9, <1>10, <1>11, <1>12, <1>13, <1>14
     DEF Next, Ladder, Replay

LEMMA RecordInit == Init => OwnRecords
<1> SUFFICES ASSUME Init PROVE OwnRecords
  OBVIOUS
<1>1. ladder = Idle /\ (\A j \in Jobs : job[j].pc \notin PassPlaces) /\ (\A r \in Refs : server[r] = NotThere)
  BY Shapes DEF Init, PassPlaces
<1>2. Tagged(Range(queue))
  <2>1. CASE queue = <<>>
    <3>1. Range(queue) = {}
      BY <2>1 DEF Range
    <3> QED BY <3>1 DEF Tagged
  <2>2. ASSUME NEW left \in Refs, NEW owner \in Users \cup {NoUser},
               queue = <<[ref |-> left, owner |-> owner]>>,
               raisedBy = [r \in Refs |-> IF r = left THEN owner ELSE NotRaised]
        PROVE  Tagged(Range(queue))
    <3> DEFINE e == [ref |-> left, owner |-> owner]
    <3>1. e.ref = left /\ e.owner = owner /\ queue = <<e>>
      BY <2>2
    <3> HIDE DEF e
    <3>2. DOMAIN queue = {1} /\ queue[1] = e
      BY <3>1
    <3>3. Range(queue) = {e}
      BY <3>2 DEF Range
    <3> QED BY <2>2, <3>1, <3>3 DEF Tagged
  <2> QED BY <2>1, <2>2 DEF Init
<1> QED BY <1>1, <1>2 DEF OwnRecords, RightRecord

\* SosQueue.isMine with the rest: where the account does not change while its SOS is
\* being raised or replayed, a queued emergency is kept, watched, and filed for the
\* account it was raised under.
THEOREM QueueAlwaysHolds == ~SwitchInFlight => (Spec => []QueueHolds)
<1> SUFFICES ASSUME ~SwitchInFlight PROVE Spec => []QueueHolds
  OBVIOUS
<1>1. (PhoneKept /\ OwnRecords) /\ [Next]_vars => (PhoneKept /\ OwnRecords)'
  BY PhoneStep, RecordStep DEF PhoneKept
<1>2. Spec => [](PhoneKept /\ OwnRecords)
  BY <1>1, PhoneInitKept, RecordInit, PTL DEF Spec
<1>3. PhoneKept /\ OwnRecords => QueueHolds
  BY KeptIsHeld DEF OwnRecords, QueueHolds, QueueIsKept
<1> QED BY <1>2, <1>3, PTL
=============================================================================
