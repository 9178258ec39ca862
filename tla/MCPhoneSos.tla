----------------------------- MODULE MCPhoneSos -----------------------------
(***************************************************************************)
(* Small instances for TLC of what a person without data can still send:   *)
(* the emergencies the Android app queues (PhoneSos), the changes the web  *)
(* app queues (WebQueue) and the texts of a feature phone (SmsLine).  They *)
(* share no variable, so one component moves in a behaviour: part, of the  *)
(* Parts of the run.                                                       *)
(***************************************************************************)
EXTENDS PhoneSos, WebQueue, SmsLine, TLC
CONSTANTS
    Parts, r1, r2, u1, u2, j1, j2,
    q1, q2, q3,     \* queued changes; q3 is u2's
    t1, t2          \* texts

TwoSos == {r1, r2}
TwoUsers == {u1, u2}
TwoJobs == {j1, j2}
ThreeOps == {q1, q2, q3}
WhoQueues == [q \in Ops |-> IF q = q3 THEN "p2" ELSE "p1"]
TwoTexts == {t1, t2}

\* What the two texts ask, in either order.
Pairs == {<<"sos", "sos">>, <<"sos", "help car">>, <<"cancel", "cancel">>, <<"cancel", "help">>,
          <<"cancel", "help car">>, <<"help", "help car">>, <<"help car", "help car">>}

VARIABLE part

OfflineInit ==
    /\ part \in Parts
    /\ Init /\ QueueInit /\ SmsInit
    /\ part # "sos" => user = NoUser /\ ~online /\ queue = <<>>
    /\ IF part = "sms" THEN <<verb[t1], verb[t2]>> \in Pairs
       ELSE verb[t1] = "sos" /\ verb[t2] = "sos" /\ account = "none" /\ request = <<>>

OfflineNext ==
    /\ UNCHANGED part
    /\ \/ part = "sos" /\ Next /\ UNCHANGED <<queueVars, smsVars>>
       \/ part = "queue" /\ QueueNext /\ UNCHANGED <<vars, smsVars>>
       \/ part = "sms" /\ SmsNext /\ UNCHANGED <<vars, queueVars>>

OfflineSpec == OfflineInit /\ [][OfflineNext]_<<part, vars, queueVars, smsVars>>

Symmetry == Permutations(TwoUsers) \cup Permutations(TwoSos) \cup Permutations(TwoJobs)
=============================================================================
