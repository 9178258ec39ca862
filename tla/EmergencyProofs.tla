--------------------------- MODULE EmergencyProofs ---------------------------
(***************************************************************************)
(* Theorems about Emergency, for any number of incidents, requests,        *)
(* contacts and faults (type correctness, the claim, what is texted, what  *)
(* the row means, what the owner's screen shows), and about LiveView, for  *)
(* any number of bookings, streams, taps and breaks (type correctness, one *)
(* stream, and the reads that its events ask for).                         *)
(***************************************************************************)
EXTENDS Emergency, LiveView, TLAPS

-----------------------------------------------------------------------------
(* Type correctness *)

Busy == {"read", "stale", "outdated", "claimed", "sending", "done", "answering"}
RequestRecord == [pc : {"idle"} \cup Busy, inc : Incidents \cup {NoIncident}, by : {"app", "sms"},
                  left : SUBSET AllContacts, seen : IncidentStatus \cup {"NONE"}]

\* A request at work is about an incident; one that is not is Idle.
Placed(q) == q = Idle \/ (q.pc \in Busy /\ q.inc \in Incidents)
RequestsPlaced == \A r \in Requests : Placed(req[r])

Typed == TypeOK /\ RequestsPlaced

\* A request at work is about an incident that has an owner, whose contacts are known.
LEMMA RequestFields ==
    ASSUME Typed, NEW r \in Requests
    PROVE  /\ req \in [Requests -> RequestRecord] /\ req[r] \in RequestRecord
           /\ req[r].pc # "idle" =>
                /\ req[r].inc \in Incidents
                /\ Owner[req[r].inc] \in Owners
                /\ Contacts[Owner[req[r].inc]] \subseteq AllContacts
<1>1. req \in [Requests -> RequestRecord]
  BY DEF Typed, TypeOK, RequestRecord, Busy
<1>2. req[r].pc # "idle" => req[r].inc \in Incidents
  BY DEF Typed, RequestsPlaced, Placed, Idle
<1> QED BY <1>1, <1>2, EmergencyAssumption DEF AllContacts

\* Requests stay of their type and placed when one of them moves on or ends
\* (Goto, Finish), or goes on with other contacts to text or with what it has seen.
LEMMA RequestMoves ==
    ASSUME Typed, NEW r \in Requests
    PROVE  /\ Finish(r) => req' \in [Requests -> RequestRecord] /\ RequestsPlaced'
           /\ \A pc \in Busy :
                req[r].pc # "idle" /\ Goto(r, pc)
                  => req' \in [Requests -> RequestRecord] /\ RequestsPlaced'
           /\ \A pc \in Busy, left \in SUBSET AllContacts :
                req[r].pc # "idle" /\ req' = [req EXCEPT ![r].pc = pc, ![r].left = left]
                  => req' \in [Requests -> RequestRecord] /\ RequestsPlaced'
           /\ \A pc \in Busy, seen \in IncidentStatus \cup {"NONE"} :
                req[r].pc # "idle" /\ req' = [req EXCEPT ![r].pc = pc, ![r].seen = seen]
                  => req' \in [Requests -> RequestRecord] /\ RequestsPlaced'
           /\ \A i \in Incidents :
                req' \in {[req EXCEPT ![r] = [Idle EXCEPT !.pc = "read", !.inc = i]],
                          [req EXCEPT ![r] = [Idle EXCEPT !.pc = "read", !.inc = i, !.by = "sms"]]}
                  => req' \in [Requests -> RequestRecord] /\ RequestsPlaced'
<1>1. req \in [Requests -> RequestRecord] /\ RequestsPlaced
  BY DEF Typed, TypeOK, RequestRecord, Busy
<1>2. req[r].pc # "idle" => req[r].pc \in Busy /\ req[r].inc \in Incidents
  BY <1>1 DEF RequestsPlaced, Placed, Idle
<1>3. Finish(r) => req' \in [Requests -> RequestRecord] /\ RequestsPlaced'
  <2>1. Idle \in RequestRecord
    BY DEF Idle, RequestRecord
  <2> QED BY <1>1, <2>1 DEF Finish, RequestsPlaced, Placed
<1>4. ASSUME NEW pc \in Busy, req[r].pc # "idle", Goto(r, pc)
      PROVE  req' \in [Requests -> RequestRecord] /\ RequestsPlaced'
  BY <1>1, <1>2, <1>4 DEF Goto, RequestsPlaced, Placed, RequestRecord
<1>5. ASSUME NEW pc \in Busy, NEW left \in SUBSET AllContacts, req[r].pc # "idle",
             req' = [req EXCEPT ![r].pc = pc, ![r].left = left]
      PROVE  req' \in [Requests -> RequestRecord] /\ RequestsPlaced'
  BY <1>1, <1>2, <1>5 DEF RequestsPlaced, Placed, RequestRecord
<1>7. ASSUME NEW pc \in Busy, NEW seen \in IncidentStatus \cup {"NONE"}, req[r].pc # "idle",
             req' = [req EXCEPT ![r].pc = pc, ![r].seen = seen]
      PROVE  req' \in [Requests -> RequestRecord] /\ RequestsPlaced'
  BY <1>1, <1>2, <1>7 DEF RequestsPlaced, Placed, RequestRecord
<1>6. ASSUME NEW i \in Incidents,
             req' \in {[req EXCEPT ![r] = [Idle EXCEPT !.pc = "read", !.inc = i]],
                       [req EXCEPT ![r] = [Idle EXCEPT !.pc = "read", !.inc = i, !.by = "sms"]]}
      PROVE  req' \in [Requests -> RequestRecord] /\ RequestsPlaced'
  <2>1. ASSUME NEW x \in RequestRecord, x.pc = "read", x.inc = i, req' = [req EXCEPT ![r] = x]
        PROVE  req' \in [Requests -> RequestRecord] /\ RequestsPlaced'
    BY <1>1, <2>1 DEF RequestsPlaced, Placed, Busy
  <2>2. ASSUME NEW x, x = [Idle EXCEPT !.pc = "read", !.inc = i]
        PROVE  x \in RequestRecord /\ x.pc = "read" /\ x.inc = i
    BY <2>2 DEF Idle, RequestRecord, Busy
  <2>3. ASSUME NEW x, x = [Idle EXCEPT !.pc = "read", !.inc = i, !.by = "sms"]
        PROVE  x \in RequestRecord /\ x.pc = "read" /\ x.inc = i
    BY <2>3 DEF Idle, RequestRecord, Busy
  <2> QED BY <1>6, <2>1, <2>2, <2>3
<1> QED BY <1>3, <1>4, <1>5, <1>6, <1>7

LEMMA TypeInit == Init => Typed
BY EmergencyAssumption
   DEF Init, Typed, TypeOK, RequestsPlaced, Placed, Idle, NotCancelling, IncidentStatus, Closed

\* Every step keeps the types, and requests placed.
LEMMA TypeStep == Typed /\ [Next]_vars => Typed'
<1> SUFFICES ASSUME Typed, [Next]_vars PROVE Typed'
  OBVIOUS
<1> USE EmergencyAssumption
<1>0. /\ req \in [Requests -> RequestRecord] /\ RequestsPlaced /\ TypeOK
      /\ req' \in [Requests -> RequestRecord] /\ RequestsPlaced'
           /\ status' \in [Incidents -> IncidentStatus \cup {"NONE"}]
           /\ stale' \in SUBSET Incidents /\ recorded' \in SUBSET Incidents
           /\ bySms' \in SUBSET Incidents
           /\ texted' \in [Incidents -> [AllContacts -> Nat]]
           /\ unsent' \in [Incidents -> SUBSET AllContacts]
           /\ screen' \in [Incidents -> IncidentStatus \cup {"NONE"}]
           /\ overtaken' \in SUBSET Incidents
           /\ cancelling' \in [Incidents -> [from : IncidentStatus \cup {"NONE"}, round : Nat]]
           /\ closing' \in [Incidents -> Closed \cup {"NONE"}]
           /\ batches' \in [Owners -> Nat] /\ faults' \in Nat
         => Typed'
  BY DEF Typed, TypeOK, RequestRecord, Busy
<1>u. req' = req => req' \in [Requests -> RequestRecord] /\ RequestsPlaced'
  BY <1>0 DEF RequestsPlaced
<1>00. {"CONFIRMED", "AWAITING_CONFIRMATION", "RESPONDING", "RESOLVED", "CANCELLED"} \subseteq IncidentStatus
       /\ {"RESOLVED", "CANCELLED"} \subseteq Closed /\ Closed \subseteq IncidentStatus
  BY DEF IncidentStatus, Closed
<1> USE DEF TypeOK, rows, alerts, published
<1>1. ASSUME NEW i \in Incidents, NEW s \in Sources, RaiseByApp(i, s) PROVE Typed'
  BY <1>0, <1>00, <1>u, <1>1 DEF RaiseByApp
<1>2. ASSUME NEW i \in Incidents, CancelRead(i) PROVE Typed'
  BY <1>0, <1>u, <1>2 DEF CancelRead
<1>3. ASSUME NEW i \in Incidents, CancelSwap(i) PROVE Typed'
  BY <1>0, <1>00, <1>u, <1>3 DEF CancelSwap, NotCancelling
<1>4. ASSUME NEW i \in Incidents, CancelAgain(i) PROVE Typed'
  BY <1>0, <1>u, <1>4 DEF CancelAgain
<1>5. ASSUME NEW i \in Incidents, CancelRefused(i) PROVE Typed'
  BY <1>0, <1>u, <1>5 DEF CancelRefused, NotCancelling
<1>6. ASSUME NEW i \in Incidents, Resolve(i) PROVE Typed'
  BY <1>0, <1>00, <1>u, <1>6 DEF Resolve
<1>7. ASSUME NEW i \in Incidents, PublishClosed(i) PROVE Typed'
  BY <1>0, <1>00, <1>u, <1>7 DEF PublishClosed
<1>8. ASSUME NEW i \in Incidents, LeasePasses(i) PROVE Typed'
  BY <1>0, <1>u, <1>8 DEF LeasePasses
<1>9. ASSUME NEW i \in Incidents, NEW r \in Requests, ConfirmRead(r, i) PROVE Typed'
  BY <1>0, <1>9, RequestMoves DEF ConfirmRead
<1>10. ASSUME NEW i \in Incidents, NEW r \in Requests, RaiseBySms(r, i) PROVE Typed'
  BY <1>0, <1>00, <1>10, RequestMoves DEF RaiseBySms
<1>11. ASSUME NEW r \in Requests, Claim(r) PROVE Typed'
  BY <1>0, <1>00, <1>11, RequestMoves DEF Claim, At, Busy
<1>12. ASSUME NEW r \in Requests, ClaimLost(r) PROVE Typed'
  BY <1>0, <1>12, RequestMoves DEF ClaimLost, At, Busy
<1>13. ASSUME NEW r \in Requests, Retake(r) PROVE Typed'
  <2>1. req' \in [Requests -> RequestRecord]
    <3>1. ASSUME NEW q \in Requests PROVE req'[q] \in RequestRecord
      <4>1. \A x \in RequestRecord, pc \in Busy : [x EXCEPT !.pc = pc] \in RequestRecord
        BY DEF RequestRecord
      <4>2. req[q] \in RequestRecord /\ "claimed" \in Busy /\ "outdated" \in Busy
        BY <1>0 DEF Busy
      <4> QED BY <1>13, <4>1, <4>2 DEF Retake
    <3> QED BY <1>13, <3>1 DEF Retake
  <2>2. RequestsPlaced'
    <3> SUFFICES ASSUME NEW q \in Requests PROVE Placed(req'[q])
      BY DEF RequestsPlaced, Placed, Idle
    <3>1. Placed(req[q]) /\ req[q] \in RequestRecord /\ Placed(req[r]) /\ req[r] \in RequestRecord
      BY <1>0 DEF RequestsPlaced
    <3>2. CASE req'[q] = req[q]
      BY <3>1, <3>2
    <3>3. CASE req'[q] = [req[q] EXCEPT !.pc = "claimed"] /\ req[q].pc # "idle"
      BY <3>1, <3>3 DEF Placed, Idle, Busy, RequestRecord
    <3>4. CASE req'[q] = [req[q] EXCEPT !.pc = "outdated"] /\ req[q].pc # "idle"
      BY <3>1, <3>4 DEF Placed, Idle, Busy, RequestRecord
    <3> QED BY <1>13, <3>2, <3>3, <3>4 DEF Retake, At
  <2> QED BY <1>0, <1>13, <2>1, <2>2 DEF Retake
<1>14. ASSUME NEW r \in Requests, RetakeLost(r) PROVE Typed'
  BY <1>0, <1>14, RequestMoves DEF RetakeLost
<1>15. ASSUME NEW r \in Requests, Withheld(r) PROVE Typed'
  BY <1>0, <1>15, RequestMoves DEF Withheld, At, Busy
<1>16. ASSUME NEW r \in Requests, StartSending(r) PROVE Typed'
  <2>1. /\ req[r].pc # "idle" /\ Contacts[Owner[req[r].inc]] \in SUBSET AllContacts
        /\ Owner[req[r].inc] \in Owners
    BY <1>16, RequestFields DEF StartSending, At
  <2>2. req' \in [Requests -> RequestRecord] /\ RequestsPlaced'
    BY <1>16, <2>1, RequestMoves DEF StartSending, Busy
  <2> QED BY <1>0, <1>16, <2>1, <2>2 DEF StartSending
<1>17. ASSUME NEW r \in Requests, NEW c \in AllContacts, Text(r, c) PROVE Typed'
  <2>1. req[r].pc # "idle" /\ req[r].inc \in Incidents /\ req[r].left \ {c} \in SUBSET AllContacts
    BY <1>0, <1>17, RequestFields DEF Text, At, RequestRecord
  <2>2. req' = [req EXCEPT ![r].pc = "sending", ![r].left = req[r].left \ {c}]
    BY <1>0, <1>17 DEF Text, At, RequestRecord
  <2>3. req' \in [Requests -> RequestRecord] /\ RequestsPlaced'
    BY <2>1, <2>2, RequestMoves DEF Busy
  <2>4. texted' \in [Incidents -> [AllContacts -> Nat]]
    BY <1>0, <1>17, <2>1 DEF Text
  <2> QED BY <1>0, <1>17, <2>3, <2>4 DEF Text
<1>18. ASSUME NEW r \in Requests, NEW c \in AllContacts, TextFails(r, c) PROVE Typed'
  <2>1. req[r].pc # "idle" /\ req[r].inc \in Incidents /\ req[r].left \ {c} \in SUBSET AllContacts
    BY <1>0, <1>18, RequestFields DEF TextFails, At, RequestRecord
  <2>2. req' = [req EXCEPT ![r].pc = "sending", ![r].left = req[r].left \ {c}]
    <3>1. req \in [Requests -> RequestRecord] /\ req[r].pc = "sending"
          /\ req' = [req EXCEPT ![r].left = @ \ {c}]
      BY <1>0, <1>18 DEF TextFails, At
    <3> QED BY <3>1 DEF RequestRecord
  <2>3. req' \in [Requests -> RequestRecord] /\ RequestsPlaced'
    BY <2>1, <2>2, RequestMoves DEF Busy
  <2> QED BY <1>0, <1>18, <2>1, <2>3 DEF TextFails
<1>19. ASSUME NEW r \in Requests, RecordContacts(r) PROVE Typed'
  BY <1>0, <1>19, RequestMoves, RequestFields DEF RecordContacts, At, Busy
<1>20. ASSUME NEW r \in Requests, Answer(r) PROVE Typed'
  BY <1>0, <1>00, <1>20, RequestMoves, RequestFields DEF Answer, At, RequestRecord
<1>25. ASSUME NEW r \in Requests, Reread(r) PROVE Typed'
  <2>1. PublishedStatus(r) \in IncidentStatus \cup {"NONE"} /\ req[r].pc # "idle"
    BY <1>0, <1>00, <1>25, RequestFields DEF Reread, At, PublishedStatus
  <2>2. req' \in [Requests -> RequestRecord] /\ RequestsPlaced'
    BY <1>25, <2>1, RequestMoves DEF Reread, Busy
  <2> QED BY <1>0, <1>25, <2>2 DEF Reread
<1>21. ASSUME NEW r \in Requests, RequestFails(r) PROVE Typed'
  <2>1. req' \in [Requests -> RequestRecord] /\ RequestsPlaced'
    BY <1>21, RequestMoves DEF RequestFails
  <2> QED BY <1>0, <1>21, <2>1 DEF RequestFails
<1>22. ASSUME NEW o \in Owners, WindowEnds(o) PROVE Typed'
  BY <1>0, <1>u, <1>22 DEF WindowEnds
<1>23. CASE Restart
  BY <1>0, <1>23 DEF Restart, RequestRecord, RequestsPlaced, Placed, Idle, NotCancelling
<1>24. CASE UNCHANGED vars
  BY <1>0, <1>u, <1>24 DEF vars
<1> QED BY <1>1, <1>2, <1>3, <1>4, <1>5, <1>6, <1>7, <1>8, <1>9, <1>10, <1>11, <1>12, <1>13,
           <1>14, <1>15, <1>16, <1>17, <1>18, <1>19, <1>20, <1>21, <1>22, <1>23, <1>24, <1>25
        DEF Next, Escalation

\* Every reachable state is of the declared types.
THEOREM EmergencyTypes == Spec => []TypeOK
<1>1. Typed => TypeOK
  BY DEF Typed
<1> QED BY <1>1, TypeInit, TypeStep, PTL DEF Spec

-----------------------------------------------------------------------------
(* The claim *)

\* Statuses an incident has before its escalation is claimed.
Unclaimed == {"NONE", "DETECTED", "AWAITING_CONFIRMATION", "CONFIRMED"}
Working(r, i) == req[r].inc = i /\ req[r].pc \in Sending

\* The lease runs out over an incident that is RESPONDING.
LeaseOfResponding == \A i \in stale : status[i] = "RESPONDING"

\* Nobody has been told of an incident that nobody has claimed.
UnclaimedIsUntold ==
    \A i \in Incidents :
        status[i] \in Unclaimed => i \notin recorded /\ \A c \in AllContacts : texted[i][c] = 0

\* A claim is held until the row is written, and its lease does not run out before.
ClaimIsCurrent ==
    \A i \in Incidents, r \in Requests :
        Working(r, i) => status[i] \notin Unclaimed /\ i \notin recorded \cup stale

\* A claim is held by one request.
OneClaimer ==
    \A i \in Incidents, q, r \in Requests : Working(q, i) /\ Working(r, i) => q = r

\* A request that is about to take a claim over has not been overtaken, if it can.
RetakeIsCurrent ==
    \A r \in Requests :
        At(r, "stale") => status[req[r].inc] \in Closed \/ req[r].inc \in stale \ recorded

ClaimHolds ==
    LeaseOfResponding /\ UnclaimedIsUntold /\ ClaimIsCurrent /\ OneClaimer /\ RetakeIsCurrent

\* A contact has at most one text for each claimer that died, and one more from the
\* claimer that recorded the row or is past that contact in its list.
TextsCounted ==
    \A i \in Incidents, c \in AllContacts :
        \/ texted[i][c] <= faults
        \/ /\ texted[i][c] = 1 + faults
           /\ \/ i \in recorded
              \/ \E r \in Requests : Working(r, i) /\ At(r, "sending") /\ c \notin req[r].left

\* Whom a claimer has been through was texted, or is reported.
ListKept ==
    \A r \in Requests :
        At(r, "sending") =>
            \A c \in Contacts[Owner[req[r].inc]] \ req[r].left :
                texted[req[r].inc][c] > 0 \/ c \in unsent[req[r].inc]

\* What has been answered for a closed incident is what closed it, and no confirm is
\* about to answer anything else; a request that came by SMS is about an incident that
\* came by SMS.
ClosedOnScreen ==
    /\ \A r \in Requests : req[r].by = "sms" => req[r].inc \in bySms
    /\ \A i \in Incidents \ (bySms \cup overtaken) :
         faults = 0 /\ status[i] \in Closed /\ closing[i] = "NONE" =>
             screen[i] \in Closed \cup {"NONE"} /\ \A r \in Requests : ~Outdated(r, i)

\* A step that leaves the incidents alone, and in which requests only end, begin or
\* go past the texting, leaves the claims as they are.
LEMMA ClaimFrame ==
    ASSUME ClaimHolds, UNCHANGED <<status, stale, recorded, texted>>,
           \A q \in Requests :
               req'[q] = req[q] \/ req'[q].pc \in {"idle", "read", "outdated", "done", "answering"}
    PROVE  ClaimHolds'
<1> USE DEF ClaimHolds
<1>1. LeaseOfResponding' /\ UnclaimedIsUntold'
  BY DEF LeaseOfResponding, UnclaimedIsUntold
<1>2. \A i \in Incidents, q \in Requests : Working(q, i)' => Working(q, i)
  BY DEF Working, Sending
<1>3. ClaimIsCurrent' /\ OneClaimer'
  BY <1>2 DEF ClaimIsCurrent, OneClaimer
<1>4. RetakeIsCurrent'
  BY DEF RetakeIsCurrent, At
<1> QED BY <1>1, <1>3, <1>4

\* A step of one incident that nobody is at work on, or that has its claim already,
\* and that no request takes part in.
LEMMA ClaimOfRow ==
    ASSUME Typed, ClaimHolds, UNCHANGED <<recorded, texted, req>>, NEW i \in Incidents,
           \A j \in Incidents \ {i} : status'[j] = status[j] /\ (j \in stale' <=> j \in stale),
           \/ status[i] = "NONE" /\ status'[i] \in Unclaimed
           \/ status'[i] \in Closed,
           i \notin stale', stale' \subseteq Incidents
    PROVE  ClaimHolds'
<1> USE DEF ClaimHolds
<1>1. stale \subseteq Incidents /\ Closed \cap Unclaimed = {} /\ "NONE" \in Unclaimed
  BY DEF Typed, TypeOK, Closed, Unclaimed
<1>2. LeaseOfResponding' /\ UnclaimedIsUntold'
  BY <1>1 DEF LeaseOfResponding, UnclaimedIsUntold
<1>3. \A j \in Incidents, q \in Requests : Working(q, j)' <=> Working(q, j)
  BY DEF Working
<1>4. ClaimIsCurrent' /\ OneClaimer'
  BY <1>1, <1>3 DEF ClaimIsCurrent, OneClaimer
<1>5. RetakeIsCurrent'
  <2> SUFFICES ASSUME NEW r \in Requests, At(r, "stale")
               PROVE  status'[req[r].inc] \in Closed \/ req[r].inc \in stale' \ recorded
    BY DEF RetakeIsCurrent, At
  <2>1. req[r].inc \in Incidents
    BY RequestFields DEF At
  <2>2. "NONE" \notin Closed /\ "NONE" # "RESPONDING"
    BY DEF Closed
  <2> QED BY <1>1, <2>1, <2>2 DEF RetakeIsCurrent, LeaseOfResponding
<1> QED BY <1>2, <1>4, <1>5

\* A step in which claimers go through their lists leaves the claims as they are.
LEMMA ClaimGoesOn ==
    ASSUME ClaimHolds, UNCHANGED <<status, stale, recorded>>,
           \A i \in Incidents : status[i] \in Unclaimed => texted'[i] = texted[i],
           \A q \in Requests :
               /\ req'[q].inc = req[q].inc
               /\ req'[q].pc \in Sending => req[q].pc \in Sending
               /\ req'[q].pc = "stale" => req[q].pc = "stale"
    PROVE  ClaimHolds'
<1> USE DEF ClaimHolds
<1>1. LeaseOfResponding' /\ UnclaimedIsUntold'
  BY DEF LeaseOfResponding, UnclaimedIsUntold
<1>2. \A i \in Incidents, q \in Requests : Working(q, i)' => Working(q, i)
  BY DEF Working
<1>3. ClaimIsCurrent' /\ OneClaimer'
  BY <1>2 DEF ClaimIsCurrent, OneClaimer
<1>4. RetakeIsCurrent'
  BY DEF RetakeIsCurrent, At
<1> QED BY <1>1, <1>3, <1>4

\* Claims are kept in every step, if a send loop does not outlast the lease.
LEMMA ClaimStep == ~SlowSends /\ Typed /\ ClaimHolds /\ [Next]_vars => ClaimHolds'
<1> SUFFICES ASSUME ~SlowSends, Typed, ClaimHolds, [Next]_vars PROVE ClaimHolds'
  OBVIOUS
<1>t. /\ TypeOK /\ req \in [Requests -> RequestRecord]
      /\ \A r \in Requests : req[r].pc # "idle" => req[r].inc \in Incidents
  BY RequestFields DEF Typed, TypeOK, RequestRecord, Busy
<1>s. /\ {"AWAITING_CONFIRMATION", "CONFIRMED"} \subseteq Unclaimed
      /\ "RESPONDING" \notin Unclaimed \cup Closed
      /\ {"CANCELLED", "RESOLVED"} \subseteq Closed /\ Closed \cap Unclaimed = {}
      /\ \A r \in Requests : Claimable(r) \subseteq Unclaimed
  BY DEF Unclaimed, Closed, Claimable
<1> USE DEF rows, alerts, published
<1>1. ASSUME NEW i \in Incidents, NEW s \in Sources, RaiseByApp(i, s) PROVE ClaimHolds'
  <2>1. i \notin stale
    BY <1>1 DEF RaiseByApp, ClaimHolds, LeaseOfResponding
  <2> QED BY <1>t, <1>s, <1>1, <2>1, ClaimOfRow DEF RaiseByApp, TypeOK
<1>2. ASSUME NEW i \in Incidents, CancelRead(i) PROVE ClaimHolds'
  BY <1>2, ClaimFrame DEF CancelRead
<1>3. ASSUME NEW i \in Incidents, CancelSwap(i) PROVE ClaimHolds'
  BY <1>t, <1>s, <1>3, ClaimOfRow DEF CancelSwap, TypeOK
<1>4. ASSUME NEW i \in Incidents, CancelAgain(i) PROVE ClaimHolds'
  BY <1>4, ClaimFrame DEF CancelAgain
<1>5. ASSUME NEW i \in Incidents, CancelRefused(i) PROVE ClaimHolds'
  BY <1>5, ClaimFrame DEF CancelRefused
<1>6. ASSUME NEW i \in Incidents, Resolve(i) PROVE ClaimHolds'
  BY <1>t, <1>s, <1>6, ClaimOfRow DEF Resolve, TypeOK
<1>7. ASSUME NEW i \in Incidents, PublishClosed(i) PROVE ClaimHolds'
  BY <1>7, ClaimFrame DEF PublishClosed
<1>9. ASSUME NEW i \in Incidents, NEW r \in Requests, ConfirmRead(r, i) PROVE ClaimHolds'
  BY <1>t, <1>9, ClaimFrame DEF ConfirmRead, Idle
<1>12. ASSUME NEW r \in Requests, RetakeLost(r) PROVE ClaimHolds'
  BY <1>t, <1>12, ClaimFrame DEF RetakeLost, Finish, Idle
<1>13. ASSUME NEW r \in Requests, Withheld(r) PROVE ClaimHolds'
  BY <1>t, <1>13, ClaimFrame DEF Withheld, Goto, RequestRecord
<1>25. ASSUME NEW r \in Requests, Reread(r) PROVE ClaimHolds'
  BY <1>t, <1>25, ClaimFrame DEF Reread, RequestRecord
<1>14. ASSUME NEW r \in Requests, Answer(r) PROVE ClaimHolds'
  BY <1>t, <1>14, ClaimFrame DEF Answer, Finish, Idle
<1>15. ASSUME NEW r \in Requests, RequestFails(r) PROVE ClaimHolds'
  BY <1>t, <1>15, ClaimFrame DEF RequestFails, Finish, Idle
<1>16. ASSUME NEW o \in Owners, WindowEnds(o) PROVE ClaimHolds'
  BY <1>16, ClaimFrame DEF WindowEnds
<1>17. CASE Restart
  BY <1>17, ClaimFrame DEF Restart, Idle
<1>18. CASE UNCHANGED vars
  BY <1>18, ClaimFrame DEF vars
<1>8. ASSUME NEW i \in Incidents, LeasePasses(i) PROVE ClaimHolds'
  <2> USE <1>8 DEF LeasePasses, ClaimHolds
  <2>1. \A q \in Requests : ~Working(q, i)
    BY DEF Working
  <2>2. LeaseOfResponding' /\ UnclaimedIsUntold'
    BY DEF LeaseOfResponding, UnclaimedIsUntold
  <2>3. ClaimIsCurrent' /\ OneClaimer'
    BY <2>1 DEF ClaimIsCurrent, OneClaimer, Working
  <2>4. RetakeIsCurrent'
    BY DEF RetakeIsCurrent, At
  <2> QED BY <2>2, <2>3, <2>4
<1>10. ASSUME NEW i \in Incidents, NEW r \in Requests, RaiseBySms(r, i) PROVE ClaimHolds'
  <2> USE <1>10 DEF RaiseBySms, ClaimHolds
  <2>1. i \notin stale
    BY DEF LeaseOfResponding
  <2>2. \A q \in Requests : q # r => req'[q] = req[q]
    BY <1>t
  <2>3. req'[r].pc = "read"
    BY <1>t DEF Idle
  <2>4. LeaseOfResponding' /\ UnclaimedIsUntold'
    BY <1>t, <1>s, <2>1 DEF LeaseOfResponding, UnclaimedIsUntold, TypeOK, Unclaimed
  <2>5. \A j \in Incidents, q \in Requests : Working(q, j)' => Working(q, j) /\ j # i
    BY <2>2, <2>3 DEF Working, Sending, ClaimIsCurrent, Unclaimed
  <2>6. ClaimIsCurrent' /\ OneClaimer'
    BY <1>t, <2>5 DEF ClaimIsCurrent, OneClaimer, TypeOK
  <2>7. RetakeIsCurrent'
    <3> SUFFICES ASSUME NEW q \in Requests, At(q, "stale")'
                 PROVE  status'[req'[q].inc] \in Closed \/ req'[q].inc \in stale' \ recorded'
      BY DEF RetakeIsCurrent
    <3>1. q # r /\ At(q, "stale") /\ req'[q] = req[q]
      BY <2>2, <2>3 DEF At
    <3>2. req[q].inc \in Incidents /\ req[q].inc # i
      BY <1>t, <2>1, <3>1 DEF RetakeIsCurrent, At, Closed
    <3> QED BY <1>t, <3>1, <3>2 DEF RetakeIsCurrent, TypeOK
  <2> QED BY <2>4, <2>6, <2>7
<1>11. ASSUME NEW r \in Requests, Claim(r) PROVE ClaimHolds'
  <2> DEFINE i == req[r].inc
  <2> USE <1>11 DEF Claim, ClaimHolds
  <2>1. /\ i \in Incidents /\ status[i] \in Unclaimed
        /\ i \notin recorded \cup stale /\ \A q \in Requests : ~Working(q, i)
    BY <1>t, <1>s DEF At, UnclaimedIsUntold, ClaimIsCurrent, LeaseOfResponding
  <2>2. \A q \in Requests : q # r => req'[q] = req[q]
    BY <1>t DEF Goto
  <2>3. req'[r].pc = "claimed" /\ req'[r].inc = i
    BY <1>t DEF Goto, RequestRecord
  <2>4. \A j \in Incidents, q \in Requests :
            Working(q, j)' <=> (j = i /\ q = r) \/ (j # i /\ Working(q, j))
    BY <2>1, <2>2, <2>3 DEF Working, Sending
  <2>5. status' = [status EXCEPT ![i] = "RESPONDING"] /\ stale' = stale /\ recorded' = recorded /\ texted' = texted
    BY <2>1
  <2>6. LeaseOfResponding' /\ UnclaimedIsUntold'
    BY <1>t, <1>s, <2>1, <2>5 DEF LeaseOfResponding, UnclaimedIsUntold, TypeOK
  <2>7. ClaimIsCurrent' /\ OneClaimer'
    BY <1>t, <1>s, <2>1, <2>4, <2>5 DEF ClaimIsCurrent, OneClaimer, TypeOK
  <2>8. RetakeIsCurrent'
    <3> SUFFICES ASSUME NEW q \in Requests, At(q, "stale")'
                 PROVE  status'[req'[q].inc] \in Closed \/ req'[q].inc \in stale' \ recorded'
      BY DEF RetakeIsCurrent
    <3>1. q # r /\ At(q, "stale") /\ req'[q] = req[q]
      BY <2>2, <2>3 DEF At
    <3>2. req[q].inc \in Incidents /\ req[q].inc # i
      BY <1>t, <1>s, <2>1, <3>1 DEF RetakeIsCurrent, At
    <3> QED BY <1>t, <2>5, <3>1, <3>2 DEF RetakeIsCurrent, TypeOK
  <2> QED BY <2>6, <2>7, <2>8
<1>19. ASSUME NEW r \in Requests, ClaimLost(r) PROVE ClaimHolds'
  <2> USE <1>19 DEF ClaimLost
  <2>1. CASE Finish(r)
    BY <1>t, <2>1, ClaimFrame DEF Finish, Idle
  <2>2. CASE status[req[r].inc] = "RESPONDING" /\ Abandoned(req[r].inc) /\ Goto(r, "stale")
    <3> USE <2>2 DEF ClaimHolds
    <3>1. \A q \in Requests : q # r => req'[q] = req[q]
      BY <1>t DEF Goto
    <3>2. req'[r].pc = "stale" /\ req'[r].inc = req[r].inc
      BY <1>t DEF Goto, RequestRecord
    <3>3. LeaseOfResponding' /\ UnclaimedIsUntold'
      BY DEF LeaseOfResponding, UnclaimedIsUntold
    <3>4. \A i \in Incidents, q \in Requests : Working(q, i)' => Working(q, i)
      BY <3>1, <3>2 DEF Working, Sending
    <3>5. ClaimIsCurrent' /\ OneClaimer'
      BY <3>4 DEF ClaimIsCurrent, OneClaimer
    <3>6. RetakeIsCurrent'
      BY <3>1, <3>2 DEF RetakeIsCurrent, At, Abandoned
    <3> QED BY <3>3, <3>5, <3>6
  <2> QED BY <2>1, <2>2
<1>20. ASSUME NEW r \in Requests, Retake(r) PROVE ClaimHolds'
  <2> DEFINE i == req[r].inc
  <2> USE <1>20 DEF Retake, ClaimHolds
  <2>1. /\ i \in Incidents /\ i \in stale \ recorded
        /\ \A q \in Requests : ~Working(q, i)
    BY <1>t, <1>s DEF RetakeIsCurrent, At, ClaimIsCurrent
  <2>2. req'[r].pc = "claimed" /\ req'[r].inc = i
    BY <1>t DEF RequestRecord
  <2>3. \A q \in Requests :
            /\ req'[q].inc = req[q].inc
            /\ q # r => /\ req'[q].pc \in {req[q].pc, "outdated"}
                        /\ req'[q].pc = "stale" => req[q].inc # i
    BY <1>t DEF RequestRecord
  <2>4. \A j \in Incidents, q \in Requests : Working(q, j)' => (j = i /\ q = r) \/ (j # i /\ Working(q, j))
    BY <2>1, <2>2, <2>3 DEF Working, Sending
  <2>5. LeaseOfResponding' /\ UnclaimedIsUntold'
    BY DEF LeaseOfResponding, UnclaimedIsUntold
  <2>6. ClaimIsCurrent' /\ OneClaimer'
    BY <1>s, <2>1, <2>4 DEF ClaimIsCurrent, OneClaimer
  <2>7. RetakeIsCurrent'
    BY <2>2, <2>3 DEF RetakeIsCurrent, At
  <2> QED BY <2>5, <2>6, <2>7
<1>21. ASSUME NEW r \in Requests, StartSending(r) PROVE ClaimHolds'
  BY <1>t, <1>21, ClaimGoesOn DEF StartSending, At, Sending, RequestRecord
<1>22. ASSUME NEW r \in Requests, NEW c \in AllContacts, Text(r, c) PROVE ClaimHolds'
  <2>1. Working(r, req[r].inc) /\ req[r].inc \in Incidents
    BY <1>t, <1>22 DEF Text, At, Working, Sending
  <2>2. \A i \in Incidents : status[i] \in Unclaimed => texted'[i] = texted[i]
    BY <1>t, <1>22, <2>1 DEF Text, TypeOK, ClaimHolds, ClaimIsCurrent
  <2> QED BY <1>t, <1>22, <2>2, ClaimGoesOn DEF Text, RequestRecord
<1>23. ASSUME NEW r \in Requests, NEW c \in AllContacts, TextFails(r, c) PROVE ClaimHolds'
  BY <1>t, <1>23, ClaimGoesOn DEF TextFails, RequestRecord
<1>24. ASSUME NEW r \in Requests, RecordContacts(r) PROVE ClaimHolds'
  <2> DEFINE i == req[r].inc
  <2> USE <1>24 DEF RecordContacts, ClaimHolds
  <2>1. Working(r, i) /\ i \in Incidents /\ status[i] \notin Unclaimed /\ i \notin stale
    BY <1>t DEF At, Working, Sending, ClaimIsCurrent
  <2>2. \A q \in Requests : q # r => req'[q] = req[q]
    BY <1>t DEF Goto
  <2>3. req'[r].pc = "done" /\ req'[r].inc = i
    BY <1>t DEF Goto, RequestRecord
  <2>4. LeaseOfResponding' /\ UnclaimedIsUntold'
    BY <2>1 DEF LeaseOfResponding, UnclaimedIsUntold
  <2>5. \A j \in Incidents, q \in Requests : Working(q, j)' => Working(q, j) /\ q # r
    BY <2>2, <2>3 DEF Working, Sending
  <2>6. ClaimIsCurrent' /\ OneClaimer'
    BY <2>1, <2>5 DEF ClaimIsCurrent, OneClaimer
  <2>7. RetakeIsCurrent'
    BY <2>1, <2>2, <2>3 DEF RetakeIsCurrent, At
  <2> QED BY <2>4, <2>6, <2>7
<1> QED BY <1>1, <1>2, <1>3, <1>4, <1>5, <1>6, <1>7, <1>8, <1>9, <1>10, <1>11, <1>12, <1>13,
           <1>14, <1>15, <1>16, <1>17, <1>18, <1>19, <1>20, <1>21, <1>22, <1>23, <1>24, <1>25
        DEF Next, Escalation

-----------------------------------------------------------------------------
(* What is texted *)

\* A step that texts nobody and disturbs nobody who is texting.
LEMMA CountFrame ==
    ASSUME TextsCounted, UNCHANGED <<texted, recorded, faults>>,
           \A q \in Requests : At(q, "sending") => req'[q] = req[q]
    PROVE  TextsCounted'
BY DEF TextsCounted, Working, At, Sending

\* A claimer that dies uses up a fault.
LEMMA CountFault ==
    ASSUME Typed, TextsCounted, UNCHANGED texted, faults' = faults + 1
    PROVE  TextsCounted'
<1> SUFFICES ASSUME NEW i \in Incidents, NEW c \in AllContacts PROVE texted[i][c] <= 1 + faults
  BY DEF TextsCounted, Typed, TypeOK
<1> QED BY DEF TextsCounted, Typed, TypeOK

\* Texts stay counted in every step that keeps the claims.
LEMMA CountStep == Typed /\ ClaimHolds /\ TextsCounted /\ [Next]_vars => TextsCounted'
<1> SUFFICES ASSUME Typed, ClaimHolds, TextsCounted, [Next]_vars PROVE TextsCounted'
  OBVIOUS
<1>t. /\ TypeOK /\ req \in [Requests -> RequestRecord]
      /\ \A r \in Requests : req[r].pc # "idle" => req[r].inc \in Incidents
  BY RequestFields DEF Typed, TypeOK, RequestRecord, Busy
<1> USE DEF rows, alerts, published, At
<1>1. ASSUME NEW i \in Incidents, NEW s \in Sources, RaiseByApp(i, s) PROVE TextsCounted'
  BY <1>1, CountFrame DEF RaiseByApp
<1>2. ASSUME NEW i \in Incidents, CancelRead(i) PROVE TextsCounted'
  BY <1>2, CountFrame DEF CancelRead
<1>3. ASSUME NEW i \in Incidents, CancelSwap(i) PROVE TextsCounted'
  BY <1>3, CountFrame DEF CancelSwap
<1>4. ASSUME NEW i \in Incidents, CancelAgain(i) PROVE TextsCounted'
  BY <1>4, CountFrame DEF CancelAgain
<1>5. ASSUME NEW i \in Incidents, CancelRefused(i) PROVE TextsCounted'
  BY <1>5, CountFrame DEF CancelRefused
<1>6. ASSUME NEW i \in Incidents, Resolve(i) PROVE TextsCounted'
  BY <1>6, CountFrame DEF Resolve
<1>7. ASSUME NEW i \in Incidents, PublishClosed(i) PROVE TextsCounted'
  BY <1>7, CountFrame DEF PublishClosed
<1>8. ASSUME NEW i \in Incidents, LeasePasses(i) PROVE TextsCounted'
  BY <1>8, CountFrame DEF LeasePasses
<1>9. ASSUME NEW i \in Incidents, NEW r \in Requests, ConfirmRead(r, i) PROVE TextsCounted'
  BY <1>t, <1>9, CountFrame DEF ConfirmRead, Idle
<1>10. ASSUME NEW i \in Incidents, NEW r \in Requests, RaiseBySms(r, i) PROVE TextsCounted'
  BY <1>t, <1>10, CountFrame DEF RaiseBySms, Idle
<1>11. ASSUME NEW r \in Requests, Claim(r) PROVE TextsCounted'
  BY <1>t, <1>11, CountFrame DEF Claim, Goto
<1>12. ASSUME NEW r \in Requests, ClaimLost(r) PROVE TextsCounted'
  BY <1>t, <1>12, CountFrame DEF ClaimLost, Goto, Finish
<1>13. ASSUME NEW r \in Requests, Retake(r) PROVE TextsCounted'
  BY <1>t, <1>13, CountFrame DEF Retake
<1>14. ASSUME NEW r \in Requests, RetakeLost(r) PROVE TextsCounted'
  BY <1>t, <1>14, CountFrame DEF RetakeLost, Finish
<1>15. ASSUME NEW r \in Requests, Withheld(r) PROVE TextsCounted'
  BY <1>t, <1>15, CountFrame DEF Withheld, Goto
<1>16. ASSUME NEW r \in Requests, StartSending(r) PROVE TextsCounted'
  BY <1>t, <1>16, CountFrame DEF StartSending
<1>17. ASSUME NEW r \in Requests, NEW c \in AllContacts, Text(r, c) PROVE TextsCounted'
  <2> DEFINE i == req[r].inc
  <2> USE <1>17 DEF Text
  <2>1. i \in Incidents /\ Working(r, i) /\ i \notin recorded
    BY <1>t DEF Working, Sending, ClaimHolds, ClaimIsCurrent
  <2>2. texted[i][c] <= faults
    BY <2>1 DEF TextsCounted, ClaimHolds, OneClaimer
  <2>3. /\ \A q \in Requests : q # r => req'[q] = req[q]
        /\ req'[r].pc = "sending" /\ req'[r].inc = i /\ req'[r].left = req[r].left \ {c}
    BY <1>t DEF RequestRecord
  <2>4. ASSUME NEW j \in Incidents, NEW d \in AllContacts, j = i, d = c
        PROVE  \/ texted'[j][d] <= faults
               \/ texted'[j][d] = 1 + faults /\ Working(r, j)' /\ d \notin req'[r].left
    <3>1. texted'[i][c] = texted[i][c] + 1 /\ texted[i][c] \in Nat /\ faults \in Nat
      BY <1>t, <2>1 DEF TypeOK
    <3> QED BY <2>2, <2>3, <2>4, <3>1 DEF Working, Sending
  <2>5. ASSUME NEW j \in Incidents, NEW d \in AllContacts, ~(j = i /\ d = c)
        PROVE  texted'[j][d] = texted[j][d]
    BY <1>t, <2>1, <2>5 DEF TypeOK
  <2>6. ASSUME NEW j \in Incidents, NEW d \in AllContacts, NEW q \in Requests,
               Working(q, j), At(q, "sending"), d \notin req[q].left
        PROVE  Working(q, j)' /\ At(q, "sending")' /\ d \notin req'[q].left
    BY <2>3, <2>6 DEF Working, Sending
  <2> QED BY <2>3, <2>4, <2>5, <2>6 DEF TextsCounted
<1>18. ASSUME NEW r \in Requests, NEW c \in AllContacts, TextFails(r, c) PROVE TextsCounted'
  BY <1>18, CountFault DEF TextFails
<1>19. ASSUME NEW r \in Requests, RecordContacts(r) PROVE TextsCounted'
  <2> USE <1>19 DEF RecordContacts
  <2>1. \A q \in Requests : q # r => req'[q] = req[q]
    BY <1>t DEF Goto
  <2>2. ASSUME NEW j \in Incidents, NEW q \in Requests, NEW d \in AllContacts,
               Working(q, j), At(q, "sending"), d \notin req[q].left
        PROVE  \/ j \in recorded'
               \/ Working(q, j)' /\ At(q, "sending")' /\ d \notin req'[q].left
    BY <2>1, <2>2 DEF Working
  <2> QED BY <2>2 DEF TextsCounted
<1>25. ASSUME NEW r \in Requests, Reread(r) PROVE TextsCounted'
  BY <1>t, <1>25, CountFrame DEF Reread
<1>20. ASSUME NEW r \in Requests, Answer(r) PROVE TextsCounted'
  BY <1>t, <1>20, CountFrame DEF Answer, Finish
<1>21. ASSUME NEW r \in Requests, RequestFails(r) PROVE TextsCounted'
  BY <1>21, CountFault DEF RequestFails
<1>22. ASSUME NEW o \in Owners, WindowEnds(o) PROVE TextsCounted'
  BY <1>22, CountFrame DEF WindowEnds
<1>23. CASE Restart
  BY <1>23, CountFault DEF Restart
<1>24. CASE UNCHANGED vars
  BY <1>24, CountFrame DEF vars
<1> QED BY <1>1, <1>2, <1>3, <1>4, <1>5, <1>6, <1>7, <1>8, <1>9, <1>10, <1>11, <1>12, <1>13,
           <1>14, <1>15, <1>16, <1>17, <1>18, <1>19, <1>20, <1>21, <1>22, <1>23, <1>24, <1>25
        DEF Next, Escalation

-----------------------------------------------------------------------------
(* What the row means *)

Told(i, c) == texted[i][c] > 0 \/ c \in unsent[i]

\* A step that neither texts nor records, and lets lists be.
LEMMA ListFrame ==
    ASSUME ListKept, RowMeansTexted, UNCHANGED <<alerts, recorded>>,
           \A q \in Requests : At(q, "sending")' => req'[q] = req[q]
    PROVE  ListKept' /\ RowMeansTexted'
BY DEF ListKept, RowMeansTexted, alerts, At

\* A step that goes on with the list of a claimer, past one contact who is then
\* texted or reported.
LEMMA ListGoesOn ==
    ASSUME Typed, Typed', ListKept, RowMeansTexted, UNCHANGED recorded,
           NEW r \in Requests, NEW c \in AllContacts, At(r, "sending"),
           req' = [req EXCEPT ![r].left = @ \ {c}],
           Told(req[r].inc, c)',
           \A i \in Incidents, d \in AllContacts : Told(i, d) => Told(i, d)'
    PROVE  ListKept' /\ RowMeansTexted'
<1>1. /\ req \in [Requests -> RequestRecord] /\ recorded \subseteq Incidents
      /\ \A q \in Requests : At(q, "sending") =>
            req[q].inc \in Incidents /\ Contacts[Owner[req[q].inc]] \subseteq AllContacts
  BY RequestFields DEF At, Typed, TypeOK
<1>2. RowMeansTexted'
  BY <1>1, EmergencyAssumption DEF RowMeansTexted, Told, AllContacts
<1>3. ListKept'
  <2> SUFFICES ASSUME NEW q \in Requests, At(q, "sending")',
                      NEW d \in Contacts[Owner[req'[q].inc]] \ req'[q].left
               PROVE  Told(req[q].inc, d)'
    BY DEF ListKept, Told
  <2>1. req'[q].inc = req[q].inc /\ At(q, "sending")
    BY <1>1 DEF At, RequestRecord
  <2>2. q # r => req'[q] = req[q]
    BY <1>1
  <2>3. q = r => req'[q].left = req[r].left \ {c}
    BY <1>1 DEF RequestRecord
  <2>4. CASE q = r /\ d = c
    BY <2>1, <2>4
  <2>5. CASE ~(q = r /\ d = c)
    <3>1. d \in Contacts[Owner[req[q].inc]] \ req[q].left
      BY <2>1, <2>2, <2>3, <2>5
    <3>2. Told(req[q].inc, d)
      BY <2>1, <3>1 DEF ListKept, Told
    <3>3. req[q].inc \in Incidents /\ d \in AllContacts
      BY <1>1, <2>1, <3>1
    <3>4. \A i \in Incidents : i = req[q].inc /\ Told(i, d)' => Told(req[q].inc, d)'
      BY <2>1 DEF Told
    <3> QED BY <3>2, <3>3, <3>4
  <2> QED BY <2>4, <2>5
<1> QED BY <1>2, <1>3

\* The row keeps telling the truth.
LEMMA ListStep ==
    Typed /\ ListKept /\ RowMeansTexted /\ [Next]_vars => ListKept' /\ RowMeansTexted'
<1> SUFFICES ASSUME Typed, ListKept, RowMeansTexted, [Next]_vars
             PROVE  ListKept' /\ RowMeansTexted'
  OBVIOUS
<1>t. /\ TypeOK /\ Typed' /\ req \in [Requests -> RequestRecord]
      /\ \A r \in Requests : req[r].pc # "idle" => req[r].inc \in Incidents
  BY RequestFields, TypeStep DEF Typed, TypeOK, RequestRecord, Busy
<1> DEFINE Kept == ListKept' /\ RowMeansTexted'
<1> USE DEF rows, At
<1>1. ASSUME NEW i \in Incidents, NEW s \in Sources, RaiseByApp(i, s) PROVE Kept
  BY <1>1, ListFrame DEF RaiseByApp
<1>2. ASSUME NEW i \in Incidents, CancelRead(i) PROVE Kept
  BY <1>2, ListFrame DEF CancelRead
<1>3. ASSUME NEW i \in Incidents, CancelSwap(i) PROVE Kept
  BY <1>3, ListFrame DEF CancelSwap
<1>4. ASSUME NEW i \in Incidents, CancelAgain(i) PROVE Kept
  BY <1>4, ListFrame DEF CancelAgain
<1>5. ASSUME NEW i \in Incidents, CancelRefused(i) PROVE Kept
  BY <1>5, ListFrame DEF CancelRefused
<1>6. ASSUME NEW i \in Incidents, Resolve(i) PROVE Kept
  BY <1>6, ListFrame DEF Resolve
<1>7. ASSUME NEW i \in Incidents, PublishClosed(i) PROVE Kept
  BY <1>7, ListFrame DEF PublishClosed
<1>8. ASSUME NEW i \in Incidents, LeasePasses(i) PROVE Kept
  BY <1>8, ListFrame DEF LeasePasses
<1>9. ASSUME NEW i \in Incidents, NEW r \in Requests, ConfirmRead(r, i) PROVE Kept
  BY <1>t, <1>9, ListFrame DEF ConfirmRead, Idle
<1>10. ASSUME NEW i \in Incidents, NEW r \in Requests, RaiseBySms(r, i) PROVE Kept
  BY <1>t, <1>10, ListFrame DEF RaiseBySms, Idle
<1>11. ASSUME NEW r \in Requests, Claim(r) PROVE Kept
  BY <1>t, <1>11, ListFrame DEF Claim, Goto, RequestRecord
<1>12. ASSUME NEW r \in Requests, ClaimLost(r) PROVE Kept
  BY <1>t, <1>12, ListFrame DEF ClaimLost, Goto, Finish, Idle, RequestRecord
<1>13. ASSUME NEW r \in Requests, Retake(r) PROVE Kept
  BY <1>t, <1>13, ListFrame DEF Retake, RequestRecord
<1>14. ASSUME NEW r \in Requests, RetakeLost(r) PROVE Kept
  BY <1>t, <1>14, ListFrame DEF RetakeLost, Finish, Idle
<1>15. ASSUME NEW r \in Requests, Withheld(r) PROVE Kept
  BY <1>t, <1>15, ListFrame DEF Withheld, Goto, RequestRecord
<1>16. ASSUME NEW r \in Requests, StartSending(r) PROVE Kept
  <2>1. \A q \in Requests : q # r => req'[q] = req[q]
    BY <1>t, <1>16 DEF StartSending
  <2>2. req'[r].inc = req[r].inc /\ req'[r].left = Contacts[Owner[req[r].inc]]
    BY <1>t, <1>16 DEF StartSending, RequestRecord
  <2>3. UNCHANGED <<texted, unsent, recorded>>
    BY <1>16 DEF StartSending, alerts
  <2> QED BY <2>1, <2>2, <2>3 DEF ListKept, RowMeansTexted
<1>17. ASSUME NEW r \in Requests, NEW c \in AllContacts, Text(r, c) PROVE Kept
  <2>1. req[r].inc \in Incidents
    BY <1>t, <1>17 DEF Text
  <2>2. Told(req[r].inc, c)'
    BY <1>t, <1>17, <2>1 DEF Text, Told, TypeOK
  <2>3. \A i \in Incidents, d \in AllContacts : Told(i, d) => Told(i, d)'
    BY <1>t, <1>17, <2>1 DEF Text, Told, TypeOK
  <2> QED BY <1>t, <1>17, <2>2, <2>3, ListGoesOn DEF Text
<1>18. ASSUME NEW r \in Requests, NEW c \in AllContacts, TextFails(r, c) PROVE Kept
  <2>1. req[r].inc \in Incidents
    BY <1>t, <1>18 DEF TextFails
  <2>2. Told(req[r].inc, c)'
    BY <1>t, <1>18, <2>1 DEF TextFails, Told, TypeOK
  <2>3. \A i \in Incidents, d \in AllContacts : Told(i, d) => Told(i, d)'
    BY <1>t, <1>18, <2>1 DEF TextFails, Told, TypeOK
  <2> QED BY <1>t, <1>18, <2>2, <2>3, ListGoesOn DEF TextFails
<1>19. ASSUME NEW r \in Requests, RecordContacts(r) PROVE Kept
  <2> USE <1>19 DEF RecordContacts
  <2>1. \A q \in Requests : At(q, "sending")' => req'[q] = req[q]
    BY <1>t DEF Goto, RequestRecord
  <2>2. ListKept'
    BY <2>1 DEF ListKept, alerts
  <2>3. RowMeansTexted'
    BY DEF ListKept, RowMeansTexted, alerts
  <2> QED BY <2>2, <2>3
<1>25. ASSUME NEW r \in Requests, Reread(r) PROVE Kept
  BY <1>t, <1>25, ListFrame DEF Reread, RequestRecord
<1>20. ASSUME NEW r \in Requests, Answer(r) PROVE Kept
  BY <1>t, <1>20, ListFrame DEF Answer, Finish, Idle
<1>21. ASSUME NEW r \in Requests, RequestFails(r) PROVE Kept
  BY <1>t, <1>21, ListFrame DEF RequestFails, Finish, Idle
<1>22. ASSUME NEW o \in Owners, WindowEnds(o) PROVE Kept
  BY <1>22, ListFrame DEF WindowEnds
<1>23. CASE Restart
  BY <1>23, ListFrame DEF Restart, Idle
<1>24. CASE UNCHANGED vars
  BY <1>24, ListFrame DEF vars
<1> QED BY <1>1, <1>2, <1>3, <1>4, <1>5, <1>6, <1>7, <1>8, <1>9, <1>10, <1>11, <1>12, <1>13,
           <1>14, <1>15, <1>16, <1>17, <1>18, <1>19, <1>20, <1>21, <1>22, <1>23, <1>24, <1>25
        DEF Next, Escalation

-----------------------------------------------------------------------------
(* What the owner's screen shows *)

\* A step that closes nothing, publishes nothing, reads nothing again and starts no
\* request by SMS.
LEMMA ScreenFrame ==
    ASSUME ClosedOnScreen, UNCHANGED published, faults' \in {faults, faults + 1}, faults \in Nat,
           bySms \subseteq bySms',
           \A i \in Incidents :
               status'[i] \in Closed => status'[i] = status[i] /\ (closing'[i] = closing[i] \/ faults' # 0),
           \A q \in Requests :
               req'[q].by = "sms" => (req[q].by = "sms" /\ req'[q].inc = req[q].inc)
                                        \/ req'[q].inc \in bySms',
           \A q \in Requests : req'[q].pc = "answering" => req'[q] = req[q]
    PROVE  ClosedOnScreen'
BY DEF ClosedOnScreen, Outdated, At, published

\* The screen of an owner with a connected app ends at what closed the emergency.
LEMMA ScreenStep == Typed /\ ClosedOnScreen /\ [Next]_vars => ClosedOnScreen'
<1> SUFFICES ASSUME Typed, ClosedOnScreen, [Next]_vars PROVE ClosedOnScreen'
  OBVIOUS
<1>t. /\ TypeOK /\ req \in [Requests -> RequestRecord] /\ faults \in Nat
      /\ \A r \in Requests : req[r].pc # "idle" => req[r].inc \in Incidents
  BY RequestFields DEF Typed, TypeOK, RequestRecord, Busy
<1>s. /\ "RESPONDING" \notin Closed /\ "CONFIRMED" \notin Closed
      /\ "AWAITING_CONFIRMATION" \notin Closed /\ "NONE" \notin Closed
  BY DEF Closed
<1> USE DEF rows, published, At, Outdated
<1>1. ASSUME NEW i \in Incidents, NEW s \in Sources, RaiseByApp(i, s) PROVE ClosedOnScreen'
  BY <1>t, <1>s, <1>1 DEF RaiseByApp, ClosedOnScreen, TypeOK
<1>2. ASSUME NEW i \in Incidents, CancelRead(i) PROVE ClosedOnScreen'
  BY <1>t, <1>2, ScreenFrame DEF CancelRead
<1>3. ASSUME NEW i \in Incidents, CancelSwap(i) PROVE ClosedOnScreen'
  BY <1>t, <1>3 DEF CancelSwap, ClosedOnScreen, TypeOK
<1>4. ASSUME NEW i \in Incidents, CancelAgain(i) PROVE ClosedOnScreen'
  BY <1>t, <1>4, ScreenFrame DEF CancelAgain
<1>5. ASSUME NEW i \in Incidents, CancelRefused(i) PROVE ClosedOnScreen'
  BY <1>t, <1>5, ScreenFrame DEF CancelRefused
<1>6. ASSUME NEW i \in Incidents, Resolve(i) PROVE ClosedOnScreen'
  BY <1>t, <1>6 DEF Resolve, ClosedOnScreen, TypeOK
<1>7. ASSUME NEW i \in Incidents, PublishClosed(i) PROVE ClosedOnScreen'
  BY <1>t, <1>7 DEF PublishClosed, ClosedOnScreen, TypeOK
<1>8. ASSUME NEW i \in Incidents, LeasePasses(i) PROVE ClosedOnScreen'
  BY <1>t, <1>8, ScreenFrame DEF LeasePasses
<1>9. ASSUME NEW i \in Incidents, NEW r \in Requests, ConfirmRead(r, i) PROVE ClosedOnScreen'
  BY <1>t, <1>9, ScreenFrame DEF ConfirmRead, Idle
<1>10. ASSUME NEW i \in Incidents, NEW r \in Requests, RaiseBySms(r, i) PROVE ClosedOnScreen'
  <2>1. req'[r].inc = i /\ i \in bySms' /\ \A q \in Requests : q # r => req'[q] = req[q]
    BY <1>t, <1>10 DEF RaiseBySms, Idle
  <2> QED BY <1>t, <1>s, <1>10, <2>1 DEF RaiseBySms, ClosedOnScreen, TypeOK
<1>11. ASSUME NEW r \in Requests, Claim(r) PROVE ClosedOnScreen'
  <2>1. status' = [status EXCEPT ![req[r].inc] = "RESPONDING"] /\ req[r].inc \in Incidents
    BY <1>t, <1>11 DEF Claim
  <2>2. \A q \in Requests : req'[q].by = req[q].by /\ req'[q].inc = req[q].inc
    BY <1>t, <1>11 DEF Claim, Goto, RequestRecord
  <2>3. \A q \in Requests : req'[q].pc = "answering" => req'[q] = req[q]
    BY <1>t, <1>11 DEF Claim, Goto, RequestRecord
  <2>4. \A i \in Incidents : status'[i] \in Closed => status'[i] = status[i]
    BY <1>t, <1>s, <2>1 DEF TypeOK
  <2> QED BY <1>t, <1>11, <2>2, <2>3, <2>4, ScreenFrame DEF Claim
<1>12. ASSUME NEW r \in Requests, ClaimLost(r) PROVE ClosedOnScreen'
  BY <1>t, <1>12, ScreenFrame DEF ClaimLost, Goto, Finish, Idle, RequestRecord
<1>13. ASSUME NEW r \in Requests, Retake(r) PROVE ClosedOnScreen'
  BY <1>t, <1>13, ScreenFrame DEF Retake, RequestRecord
<1>14. ASSUME NEW r \in Requests, RetakeLost(r) PROVE ClosedOnScreen'
  BY <1>t, <1>14, ScreenFrame DEF RetakeLost, Finish, Idle
<1>15. ASSUME NEW r \in Requests, Withheld(r) PROVE ClosedOnScreen'
  BY <1>t, <1>15, ScreenFrame DEF Withheld, Goto, RequestRecord
<1>16. ASSUME NEW r \in Requests, StartSending(r) PROVE ClosedOnScreen'
  BY <1>t, <1>16, ScreenFrame DEF StartSending, RequestRecord
<1>17. ASSUME NEW r \in Requests, NEW c \in AllContacts, Text(r, c) PROVE ClosedOnScreen'
  BY <1>t, <1>17, ScreenFrame DEF Text, RequestRecord
<1>18. ASSUME NEW r \in Requests, NEW c \in AllContacts, TextFails(r, c) PROVE ClosedOnScreen'
  BY <1>t, <1>18, ScreenFrame DEF TextFails, RequestRecord
<1>19. ASSUME NEW r \in Requests, RecordContacts(r) PROVE ClosedOnScreen'
  BY <1>t, <1>19, ScreenFrame DEF RecordContacts, Goto, RequestRecord
<1>25. ASSUME NEW r \in Requests, Reread(r) PROVE ClosedOnScreen'
  <2>1. /\ req[r].inc \in Incidents /\ req'[r].seen = PublishedStatus(r)
        /\ \A q \in Requests : req'[q].by = req[q].by /\ req'[q].inc = req[q].inc
        /\ \A q \in Requests : q # r => req'[q] = req[q]
    BY <1>t, <1>25 DEF Reread, RequestRecord
  <2>2. req[r].inc \notin bySms => req'[r].seen = status[req[r].inc]
    BY <1>t, <2>1 DEF PublishedStatus, ClosedOnScreen
  <2>3. \A i \in Incidents \ bySms, q \in Requests :
          status[i] \in Closed /\ Outdated(q, i)' => Outdated(q, i)
    BY <2>1, <2>2
  <2>4. UNCHANGED <<status, bySms, screen, overtaken, closing, faults>>
    BY <1>25 DEF Reread
  <2> QED BY <2>1, <2>3, <2>4 DEF ClosedOnScreen
<1>20. ASSUME NEW r \in Requests, Answer(r) PROVE ClosedOnScreen'
  <2>1. req[r].inc \in Incidents
    BY <1>t, <1>20 DEF Answer
  <2>2. /\ \A q \in Requests : req'[q].by = "sms" => req'[q] = req[q]
        /\ \A q \in Requests : req'[q].pc = "answering" => req'[q] = req[q]
    BY <1>t, <1>20 DEF Answer, Finish, Idle
  <2>3. screen'[req[r].inc] = req[r].seen /\ \A i \in Incidents \ {req[r].inc} : screen'[i] = screen[i]
    BY <1>t, <1>20, <2>1 DEF Answer, TypeOK
  <2> QED BY <1>20, <2>1, <2>2, <2>3 DEF Answer, ClosedOnScreen
<1>21. ASSUME NEW r \in Requests, RequestFails(r) PROVE ClosedOnScreen'
  BY <1>t, <1>21, ScreenFrame DEF RequestFails, Finish, Idle
<1>22. ASSUME NEW o \in Owners, WindowEnds(o) PROVE ClosedOnScreen'
  BY <1>t, <1>22, ScreenFrame DEF WindowEnds
<1>23. CASE Restart
  BY <1>t, <1>23 DEF Restart, ClosedOnScreen, Idle
<1>24. CASE UNCHANGED vars
  BY <1>t, <1>24, ScreenFrame DEF vars
<1> QED BY <1>1, <1>2, <1>3, <1>4, <1>5, <1>6, <1>7, <1>8, <1>9, <1>10, <1>11, <1>12, <1>13,
           <1>14, <1>15, <1>16, <1>17, <1>18, <1>19, <1>20, <1>21, <1>22, <1>23, <1>24, <1>25
        DEF Next, Escalation

-----------------------------------------------------------------------------
(* Theorems *)

LEMMA PromisesInit ==
    Init => ClaimHolds /\ TextsCounted /\ ListKept /\ RowMeansTexted /\ ClosedOnScreen
BY DEF Init, ClaimHolds, LeaseOfResponding, UnclaimedIsUntold, ClaimIsCurrent, OneClaimer,
       RetakeIsCurrent, TextsCounted, ListKept, RowMeansTexted, ClosedOnScreen,
       Working, Sending, At, Idle, Closed, Outdated

\* An escalation is claimed by one request at a time, whatever confirms, repeats
\* and take-overs race, if a send loop does not outlast the lease.
THEOREM ClaimHeldOnce == ~SlowSends => (Spec => []OneClaimer)
<1>1. ClaimHolds => OneClaimer
  BY DEF ClaimHolds
<1> SUFFICES ASSUME ~SlowSends PROVE Spec => []OneClaimer
  OBVIOUS
<1> QED BY <1>1, TypeInit, TypeStep, PromisesInit, ClaimStep, PTL DEF Spec

\* The "contacts" row tells the truth, also where a send loop outlasts the lease.
THEOREM RowTellsTruth == Spec => []RowMeansTexted
BY TypeInit, TypeStep, PromisesInit, ListStep, PTL DEF Spec

\* The family is texted once, and once more only for a claimer that died; and the
\* row that stops later confirms is never written over a contact passed over.
THEOREM FamilyTextedOnce == ~SlowSends => (Spec => []TextedOnce)
<1>1. Typed /\ TextsCounted => TextedOncePerClaimer
  BY DEF Typed, TypeOK, TextsCounted, TextedOncePerClaimer
<1> SUFFICES ASSUME ~SlowSends PROVE Spec => []TextedOnce
  OBVIOUS
<1>2. Spec => []TextedOncePerClaimer
  BY <1>1, TypeInit, TypeStep, PromisesInit, ClaimStep, CountStep, PTL DEF Spec
<1> QED BY <1>2, RowTellsTruth, PTL DEF TextedOnce

\* A stand-down that lands at any point of an escalation up to its re-read wins: the
\* owner's screen does not show the closed emergency as open, unless it was raised by
\* SMS or its closing was published between a re-read and the publication.
THEOREM ScreenTellsClosed == Spec => []ScreenShowsClosed
<1>1. ClosedOnScreen => ScreenShowsClosed
  <2> SUFFICES ASSUME ClosedOnScreen, NEW i \in Incidents \ (bySms \cup overtaken), AllAnswered(i)
               PROVE  screen[i] \in Closed \cup {"NONE"}
    BY DEF ScreenShowsClosed
  <2> QED BY DEF ClosedOnScreen, AllAnswered
<1> QED BY <1>1, TypeInit, TypeStep, PromisesInit, ScreenStep, PTL DEF Spec

\* Only a claim, first or taken over, makes a request a claimer, and it finds the
\* incident open.
LEMMA ClaimsOpenStep ==
    ASSUME Typed, [Next]_vars, NEW q \in Requests, req'[q].pc = "claimed", req[q].pc # "claimed"
    PROVE  status[req[q].inc] \in Unclosed
<1>t. req \in [Requests -> RequestRecord]
  BY RequestFields
<1>s. Idle.pc = "idle" /\ \A r \in Requests : Claimable(r) \cup {"RESPONDING"} \subseteq Unclosed
  BY DEF Idle, Claimable, Unclosed, IncidentStatus, Closed
<1> USE DEF rows, At, Goto, Finish, RequestRecord
<1>1. ASSUME NEW r \in Requests, Claim(r) PROVE status[req[q].inc] \in Unclosed
  BY <1>t, <1>s, <1>1 DEF Claim
<1>2. ASSUME NEW r \in Requests, Retake(r) PROVE status[req[q].inc] \in Unclosed
  BY <1>t, <1>s, <1>2 DEF Retake
<1>3. ASSUME NEW r \in Requests,
             ClaimLost(r) \/ RetakeLost(r) \/ Reread(r) \/ Answer(r) \/ RequestFails(r)
      PROVE  FALSE
  BY <1>t, <1>s, <1>3 DEF ClaimLost, RetakeLost, Reread, Answer, RequestFails
<1>4. ASSUME NEW r \in Requests, Withheld(r) \/ StartSending(r) \/ RecordContacts(r) PROVE FALSE
  BY <1>t, <1>4 DEF Withheld, StartSending, RecordContacts
<1>5. ASSUME NEW r \in Requests, NEW c \in AllContacts, Text(r, c) \/ TextFails(r, c) PROVE FALSE
  BY <1>t, <1>5 DEF Text, TextFails
<1>6. ASSUME NEW r \in Requests, NEW i \in Incidents, ConfirmRead(r, i) \/ RaiseBySms(r, i) PROVE FALSE
  <2>1. \A p \in Requests : p # r => req'[p] = req[p]
    BY <1>t, <1>6 DEF ConfirmRead, RaiseBySms
  <2>2. req'[r].pc = "read"
    BY <1>t, <1>6 DEF ConfirmRead, RaiseBySms, Idle
  <2> QED BY <2>1, <2>2
<1>7. ASSUME UNCHANGED req PROVE FALSE
  BY <1>7
<1>8. ASSUME NEW i \in Incidents,
             \/ \E s \in Sources : RaiseByApp(i, s)
             \/ CancelRead(i) \/ CancelSwap(i) \/ CancelAgain(i) \/ CancelRefused(i)
             \/ Resolve(i) \/ PublishClosed(i) \/ LeasePasses(i)
      PROVE  FALSE
  BY <1>7, <1>8 DEF RaiseByApp, CancelRead, CancelSwap, CancelAgain, CancelRefused, Resolve,
                    PublishClosed, LeasePasses
<1>9. ASSUME NEW o \in Owners, WindowEnds(o) PROVE FALSE
  BY <1>7, <1>9 DEF WindowEnds
<1>10. CASE Restart
  BY <1>s, <1>10 DEF Restart
<1>11. CASE UNCHANGED vars
  BY <1>7, <1>11 DEF vars
<1> QED BY <1>1, <1>2, <1>3, <1>4, <1>5, <1>6, <1>8, <1>9, <1>10, <1>11 DEF Next, Escalation

\* Nobody starts to alert the family of a closed emergency.
THEOREM ClaimsOnlyOpen == Spec => NoClaimOnClosed
<1>1. Typed /\ [Next]_vars =>
        [\A r \in Requests :
            req'[r].pc = "claimed" /\ req[r].pc # "claimed" => status[req[r].inc] \in Unclosed]_vars
  BY ClaimsOpenStep
<1> QED BY <1>1, TypeInit, TypeStep, PTL DEF Spec, NoClaimOnClosed

-----------------------------------------------------------------------------
(* The page that follows a booking *)

\* A read at work is of a booking.
ReadPlaced(q) == q \in Reads /\ (q = NoRead \/ q.of \in Followed)
ReadsPlaced == ReadPlaced(poll) /\ \A t \in Taps : ReadPlaced(tap[t])

LiveTyped == LiveTypeOK /\ ReadsPlaced

ConnStates == {"free", "fetching", "renewing", "reading"}

\* The parts of the type that the steps disturb.
ScreenTyped == shown \in [of : Followed \cup {NotFollowing}, status : 0 .. Last] /\ pollStatus \in 0 .. Unknown /\ ticking \in BOOLEAN
PollTyped == ReadPlaced(poll) /\ pollAgain \in BOOLEAN /\ owed \in BOOLEAN
TapsTyped == tap \in [Taps -> Reads] /\ \A t \in Taps : ReadPlaced(tap[t])
FeedTyped == st \in [Followed -> 0 .. Last] /\ fed \subseteq Conns /\ nudges \in [Conns -> SUBSET Followed] /\ fresh \in BOOLEAN
StreamTyped == ctrl \in Conns \cup {NoConn} /\ conn \in [Conns -> ConnStates] /\ retry \in BOOLEAN
RestTyped == cur \in Followed \cup {NotFollowing} /\ online \in BOOLEAN /\ hidden \in BOOLEAN /\ turns \in Nat /\ breaks \in Nat

LEMMA TypedParts ==
    LiveTyped <=> ScreenTyped /\ PollTyped /\ TapsTyped /\ FeedTyped /\ StreamTyped /\ RestTyped
BY DEF LiveTyped, LiveTypeOK, ReadsPlaced, ReadPlaced, ScreenTyped, PollTyped, TapsTyped, FeedTyped, StreamTyped, RestTyped, ConnStates

LEMMA TypedPartsNext ==
    ASSUME ScreenTyped', PollTyped', TapsTyped', FeedTyped', StreamTyped', RestTyped'
    PROVE  LiveTyped'
BY DEF LiveTyped, LiveTypeOK, ReadsPlaced, ReadPlaced, ScreenTyped, PollTyped, TapsTyped, FeedTyped, StreamTyped, RestTyped, ConnStates

\* Leaving a part alone leaves it typed.
LEMMA PartsStay ==
    ASSUME LiveTyped
    PROVE  /\ UNCHANGED <<shown, pollStatus, ticking>> => ScreenTyped'
           /\ UNCHANGED <<poll, pollAgain, owed>> => PollTyped'
           /\ UNCHANGED tap => TapsTyped'
           /\ UNCHANGED <<st, fed, nudges, fresh>> => FeedTyped'
           /\ UNCHANGED <<ctrl, conn, retry>> => StreamTyped'
           /\ UNCHANGED <<cur, online, hidden, turns, breaks>> => RestTyped'
BY TypedParts DEF ScreenTyped, PollTyped, TapsTyped, FeedTyped, StreamTyped, RestTyped

LEMMA Bounds == Last \in Nat /\ Last # 0 /\ NotFollowing \notin Followed /\ NoConn \notin Conns /\ Conns # {}
BY LiveViewAssumption DEF LiveViewAssumption

LEMMA NoReadPlaced == ReadPlaced(NoRead)
BY Bounds DEF ReadPlaced, Reads, NoRead

LEMMA NewRead ==
    ASSUME NEW b \in Followed
    PROVE  /\ ReadPlaced([NoRead EXCEPT !.pc = "sent", !.of = b])
           /\ [NoRead EXCEPT !.pc = "sent", !.of = b].pc = "sent"
<1>1. NoRead \in Reads
  BY NoReadPlaced DEF ReadPlaced
<1>2. PICK q \in Reads : q = [NoRead EXCEPT !.pc = "sent", !.of = b]
  BY <1>1 DEF Reads
<1>3. q.of = b /\ q.pc = "sent"
  BY <1>1, <1>2 DEF Reads
<1> QED BY <1>2, <1>3 DEF ReadPlaced

LEMMA ReadBack ==
    ASSUME NEW q, ReadPlaced(q), q.pc = "sent", NEW s \in 0 .. Last
    PROVE  ReadPlaced([q EXCEPT !.pc = "back", !.got = s])
<1>1. q \in Reads /\ q.of \in Followed
  BY DEF ReadPlaced, NoRead
<1>2. PICK p \in Reads : p = [q EXCEPT !.pc = "back", !.got = s]
  BY <1>1 DEF Reads
<1>3. p.of \in Followed
  BY <1>1, <1>2 DEF Reads
<1> QED BY <1>2, <1>3 DEF ReadPlaced

LEMMA ShowEffect ==
    ASSUME LiveTyped, NEW q, ReadPlaced(q), q.pc = "back", Show(q.of, q.got)
    PROVE  ScreenTyped'
<1>1. q.of \in Followed /\ q.got \in 0 .. Last
  BY DEF ReadPlaced, Reads, NoRead
<1>2. Last \in Nat /\ cur \in Followed \cup {NotFollowing} /\ online \in BOOLEAN
  BY Bounds, TypedParts DEF RestTyped
<1>3. shown' \in [of : Followed \cup {NotFollowing}, status : 0 .. Last]
  BY <1>1 DEF Show
<1>4. pollStatus' \in 0 .. Unknown /\ ticking' \in BOOLEAN
  <2>1. CASE q.got = Last
    <3>1. StopPoll
      BY <2>1 DEF Show
    <3>2. pollStatus' = Unknown /\ ticking' = FALSE
      BY <3>1 DEF StopPoll
    <3>3. Unknown \in 0 .. Unknown
      BY <1>2 DEF Unknown
    <3> QED BY <3>2, <3>3
  <2>2. CASE q.got # Last
    <3>1. pollStatus' = q.got /\ ticking' = (cur # NotFollowing /\ online)
      BY <2>2 DEF Show
    <3> QED BY <1>1, <1>2, <3>1 DEF Unknown
  <2> QED BY <2>1, <2>2
<1> QED BY <1>3, <1>4 DEF ScreenTyped

LEMMA PollBookingEffect ==
    ASSUME LiveTyped, PollBooking, owed' \in BOOLEAN
    PROVE  /\ PollTyped'
           /\ CanPoll => poll'.pc = "sent" \/ pollAgain'
           /\ poll.pc = "sent" \/ pollAgain => poll'.pc = "sent" \/ pollAgain'
<1>1. cur # NotFollowing => cur \in Followed
  BY TypedParts DEF RestTyped
<1>2. ReadPlaced(poll) /\ pollAgain \in BOOLEAN
  BY TypedParts DEF PollTyped
<1>3. CASE CanPoll /\ poll = NoRead
  <2>1. poll' = [NoRead EXCEPT !.pc = "sent", !.of = cur] /\ cur \in Followed
    BY <1>1, <1>3 DEF PollBooking, CanPoll
  <2>2. ReadPlaced(poll') /\ poll'.pc = "sent"
    BY <2>1, NewRead
  <2>3. pollAgain' \in BOOLEAN
    BY DEF PollBooking
  <2>4. ReadPlaced(poll)'
    BY <2>2 DEF ReadPlaced, Reads, NoRead
  <2> QED BY <2>2, <2>3, <2>4 DEF PollTyped
<1>4. CASE ~(CanPoll /\ poll = NoRead)
  <2>1. poll' = poll /\ pollAgain' = (pollAgain \/ (CanPoll /\ poll # NoRead))
    BY <1>4 DEF PollBooking
  <2>2. ReadPlaced(poll)'
    BY <1>2, <2>1 DEF ReadPlaced, Reads, NoRead
  <2> QED BY <1>2, <1>4, <2>1, <2>2 DEF PollTyped
<1> QED BY <1>3, <1>4

LEMMA PollDoneEffect ==
    ASSUME LiveTyped, PollDone
    PROVE  PollTyped' /\ NudgeHonoured'
<1>1. cur # NotFollowing => cur \in Followed
  BY TypedParts DEF RestTyped
<1>2. CASE pollAgain /\ CanPoll
  <2>1. poll' = [NoRead EXCEPT !.pc = "sent", !.of = cur] /\ cur \in Followed
    BY <1>1, <1>2 DEF PollDone, CanPoll
  <2>2. ReadPlaced(poll') /\ poll'.pc = "sent"
    BY <2>1, NewRead
  <2>3. ReadPlaced(poll)'
    BY <2>2 DEF ReadPlaced, Reads, NoRead
  <2>4. pollAgain' \in BOOLEAN /\ owed' \in BOOLEAN
    BY DEF PollDone
  <2> QED BY <2>2, <2>3, <2>4 DEF PollTyped, NudgeHonoured
<1>3. CASE ~(pollAgain /\ CanPoll)
  <2>1. poll' = NoRead /\ pollAgain' = FALSE /\ owed' = FALSE
    BY <1>3 DEF PollDone
  <2>2. ReadPlaced(poll)'
    BY <2>1, NoReadPlaced DEF ReadPlaced, Reads, NoRead
  <2> QED BY <2>1, <2>2 DEF PollTyped, NudgeHonoured
<1> QED BY <1>2, <1>3

\* What an opening and an ending leave: typed, and owned if what they began from was.
Owned(held, conns) == \A c \in Conns : conns[c] # "free" => c = held

LEMMA OpeningEffect ==
    ASSUME NEW held \in Conns \cup {NoConn}, NEW conns \in [Conns -> ConnStates], Opening(held, conns)
    PROVE  /\ ctrl' \in Conns \cup {NoConn} /\ conn' \in [Conns -> ConnStates]
           /\ Owned(held, conns) => Owned(ctrl', conn')
<1>1. CASE held # NoConn \/ ~online'
  BY <1>1 DEF Opening
<1>2. CASE ~(held # NoConn \/ ~online')
  <2>1. /\ Unused(conns) # {} /\ held = NoConn
        /\ ctrl' = OpenedOn(conns) /\ conn' = [conns EXCEPT ![OpenedOn(conns)] = "fetching"]
    BY <1>2 DEF Opening
  <2>2. OpenedOn(conns) \in Unused(conns)
    BY <2>1 DEF OpenedOn
  <2>3. OpenedOn(conns) \in Conns
    BY <2>2 DEF Unused
  <2>4. conn' \in [Conns -> ConnStates] /\ \A c \in Conns : c # ctrl' => conn'[c] = conns[c]
    BY <2>1, <2>3 DEF ConnStates
  <2>5. Owned(held, conns) => \A c \in Conns : conns[c] = "free"
    BY <2>1, LiveViewAssumption DEF Owned, LiveViewAssumption
  <2> QED BY <2>1, <2>3, <2>4, <2>5 DEF Owned
<1> QED BY <1>1, <1>2

LEMMA FinallyEffect ==
    ASSUME LiveTyped, NEW c \in Conns, NEW held \in Conns \cup {NoConn}, NEW conns \in [Conns -> ConnStates],
           Finally(c, held, conns)
    PROVE  /\ ctrl' \in Conns \cup {NoConn} /\ conn' \in [Conns -> ConnStates]
           /\ retry' \in BOOLEAN /\ ticking' \in BOOLEAN
           /\ (\A d \in Conns \ {c} : conns[d] # "free" => d = held) => Owned(ctrl', conn')
<1>1. retry \in BOOLEAN /\ ticking \in BOOLEAN /\ online \in BOOLEAN
  BY TypedParts DEF StreamTyped, ScreenTyped, RestTyped
<1>2. conn' \in [Conns -> ConnStates] /\ conn'[c] = "free" /\ \A d \in Conns \ {c} : conn'[d] = conns[d]
  BY DEF Finally, ConnStates
<1>3. CASE held = c
  BY <1>1, <1>2, <1>3 DEF Finally, Owned
<1>4. CASE held # c
  BY <1>1, <1>2, <1>4 DEF Finally, Owned
<1> QED BY <1>3, <1>4

LEMMA StoppedTyped ==
    ASSUME LiveTyped
    PROVE  /\ Stopped \in [Conns -> ConnStates]
           /\ (Owned(ctrl, conn) /\ \A c \in Conns : conn[c] # "renewing") => \A c \in Conns : Stopped[c] = "free"
BY TypedParts DEF StreamTyped, Stopped, Owned, ConnStates

\* What every step keeps: the types always, the owner of the streams while the
\* stream is not stopped as its token is renewed, and the promise to read.
PageKept == LiveTyped /\ (~FlapInRenewal => Owned(ctrl, conn)) /\ NudgeHonoured

LEMMA FeedSteps ==
    ASSUME PageKept, (\E b \in Followed : Move(b)) \/ TokenAges \/ Renewed \/ \E c \in Conns : Drop(c)
    PROVE  PageKept'
<1> USE DEF PageKept
<1>1. /\ UNCHANGED <<page, stream, online, hidden>>
      /\ turns' \in Nat /\ breaks' \in Nat
      /\ FeedTyped'
  <2>1. FeedTyped /\ turns \in Nat /\ breaks \in Nat
    BY TypedParts DEF RestTyped
  <2>2. ASSUME NEW b \in Followed, Move(b)
        PROVE  UNCHANGED <<page, stream, online, hidden, turns, breaks>> /\ FeedTyped'
    <3>1. st' \in [Followed -> 0 .. Last]
      BY <2>1, <2>2, LiveViewAssumption DEF Move, FeedTyped, LiveViewAssumption
    <3>2. nudges' \in [Conns -> SUBSET Followed]
      BY <2>1, <2>2 DEF Move, FeedTyped
    <3> QED BY <2>1, <2>2, <3>1, <3>2 DEF Move, FeedTyped, bounds
  <2>3. ASSUME TokenAges
        PROVE  UNCHANGED <<page, stream, online, hidden, breaks>> /\ turns' = turns + 1 /\ FeedTyped'
    BY <2>1, <2>3 DEF TokenAges, Turn, FeedTyped
  <2>4. ASSUME Renewed
        PROVE  UNCHANGED <<page, stream, online, hidden, turns, breaks>> /\ FeedTyped'
    BY <2>1, <2>4 DEF Renewed, FeedTyped, bounds
  <2>5. ASSUME NEW c \in Conns, Drop(c)
        PROVE  UNCHANGED <<page, stream, online, hidden, turns, breaks>> /\ FeedTyped'
    BY <2>1, <2>5 DEF Drop, FeedTyped, bounds
  <2> QED BY <2>1, <2>2, <2>3, <2>4, <2>5
<1>2. /\ UNCHANGED <<shown, pollStatus, ticking>> /\ UNCHANGED <<poll, pollAgain, owed>> /\ UNCHANGED tap
      /\ UNCHANGED <<ctrl, conn, retry>> /\ UNCHANGED <<cur, online, hidden>>
  BY <1>1 DEF page, stream
<1>3. RestTyped'
  BY <1>1, <1>2, TypedParts DEF RestTyped
<1>4. LiveTyped'
  BY <1>1, <1>2, <1>3, PartsStay, TypedPartsNext
<1> QED BY <1>2, <1>4 DEF Owned, NudgeHonoured

LEMMA PollSteps ==
    ASSUME PageKept, Tick \/ PollReads \/ PollBack \/ PollFails
    PROVE  PageKept'
<1> USE DEF PageKept
<1>1. /\ UNCHANGED <<st, fed, nudges, fresh>> /\ UNCHANGED <<ctrl, conn, retry>> /\ UNCHANGED tap
      /\ UNCHANGED <<cur, online, hidden>>
  BY DEF Tick, PollReads, PollBack, PollFails, feed, stream
<1>2. FeedTyped' /\ StreamTyped' /\ TapsTyped' /\ (~FlapInRenewal => Owned(ctrl, conn)')
  BY <1>1, PartsStay DEF Owned
<1>3. turns' \in Nat /\ breaks' \in Nat
  BY TypedParts DEF Tick, PollReads, PollBack, PollFails, Break, bounds, RestTyped
<1>4. RestTyped'
  BY <1>1, <1>3, TypedParts DEF RestTyped
<1>5. ScreenTyped' /\ PollTyped' /\ NudgeHonoured'
  <2>0. ReadPlaced(poll) /\ pollAgain \in BOOLEAN /\ owed \in BOOLEAN
    BY TypedParts DEF PollTyped
  <2>1. CASE Tick
    <3>1. PollBooking /\ owed' = owed /\ UNCHANGED <<shown, pollStatus, ticking>>
      BY <2>1 DEF Tick
    <3> QED BY <2>0, <3>1, PollBookingEffect, PartsStay DEF NudgeHonoured
  <2>2. CASE PollReads
    <3>1. /\ poll' = [poll EXCEPT !.pc = "back", !.got = st[poll.of]] /\ poll.pc = "sent"
          /\ owed' = (owed /\ pollAgain) /\ pollAgain' = pollAgain /\ UNCHANGED <<shown, pollStatus, ticking>>
      BY <2>2 DEF PollReads
    <3>2. st[poll.of] \in 0 .. Last
      BY <2>0, <3>1, TypedParts DEF FeedTyped, ReadPlaced, NoRead
    <3>3. ReadPlaced(poll')
      BY <2>0, <3>1, <3>2, ReadBack
    <3>4. ReadPlaced(poll)'
      BY <3>3 DEF ReadPlaced, Reads, NoRead
    <3> QED BY <2>0, <3>1, <3>4, PartsStay DEF PollTyped, NudgeHonoured
  <2>3. CASE PollBack
    <3>1. PollDone /\ poll.pc = "back" /\ (Show(poll.of, poll.got) \/ UNCHANGED <<shown, pollStatus, ticking>>)
      BY <2>3 DEF PollBack
    <3> QED BY <2>0, <3>1, PollDoneEffect, ShowEffect, PartsStay
  <2>4. CASE PollFails
    <3>1. PollDone /\ UNCHANGED <<shown, pollStatus, ticking>>
      BY <2>4 DEF PollFails
    <3> QED BY <3>1, PollDoneEffect, PartsStay
  <2> QED BY <2>1, <2>2, <2>3, <2>4
<1> QED BY <1>2, <1>4, <1>5, TypedPartsNext

LEMMA TapSteps ==
    ASSUME PageKept, NEW t \in Taps,
           TapReads(t) \/ TapBack(t) \/ TapFails(t) \/ \E b \in Followed : OpenBooking(t, b)
    PROVE  PageKept'
<1> USE DEF PageKept
<1>1. /\ UNCHANGED <<st, fed, nudges, fresh>> /\ UNCHANGED <<ctrl, conn, retry>>
      /\ UNCHANGED <<poll, pollAgain, online, hidden>>
  BY DEF TapReads, TapBack, TapFails, OpenBooking, feed, stream
<1>2. FeedTyped' /\ StreamTyped' /\ (~FlapInRenewal => Owned(ctrl, conn)')
  BY <1>1, PartsStay DEF Owned
<1>3. /\ owed' \in BOOLEAN /\ (owed' => owed)
      /\ cur' \in Followed \cup {NotFollowing} /\ turns' \in Nat /\ breaks' \in Nat
  <2>0. owed \in BOOLEAN /\ cur \in Followed \cup {NotFollowing} /\ turns \in Nat /\ breaks \in Nat
    BY TypedParts DEF RestTyped, PollTyped
  <2>1. CASE TapReads(t) \/ TapBack(t)
    BY <2>0, <2>1 DEF TapReads, TapBack, bounds
  <2>2. CASE TapFails(t)
    BY <2>0, <2>2 DEF TapFails, Break
  <2>3. ASSUME NEW b \in Followed, OpenBooking(t, b)
        PROVE  /\ owed' \in BOOLEAN /\ (owed' => owed)
               /\ cur' \in Followed \cup {NotFollowing} /\ turns' \in Nat /\ breaks' \in Nat
    <3>1. owed' = (owed /\ cur = b) /\ cur' = b
      BY <2>3 DEF OpenBooking
    <3>2. turns' = turns + 1 /\ breaks' = breaks
      BY <2>3 DEF OpenBooking, Turn
    <3>3. turns' \in Nat /\ breaks' \in Nat
      BY <2>0, <3>2
    <3> QED BY <2>0, <3>1, <3>3
  <2> QED BY <2>1, <2>2, <2>3
<1>4. RestTyped' /\ PollTyped' /\ NudgeHonoured'
  BY <1>1, <1>3, TypedParts DEF RestTyped, PollTyped, NudgeHonoured, ReadPlaced, Reads, NoRead
<1>5. ReadPlaced(tap[t]) /\ TapsTyped
  BY TypedParts DEF TapsTyped
<1>6. TapsTyped' /\ ScreenTyped'
  <2>0. ASSUME NEW q, ReadPlaced(q), tap' = [tap EXCEPT ![t] = q] PROVE TapsTyped'
    <3>1. \A u \in Taps : tap'[u] = IF u = t THEN q ELSE tap[u]
      BY <1>5, <2>0 DEF TapsTyped
    <3>2. \A u \in Taps : ReadPlaced(tap'[u])
      BY <1>5, <2>0, <3>1 DEF TapsTyped
    <3>3. \A u \in Taps : ReadPlaced(tap[u])'
      BY <3>2 DEF ReadPlaced, Reads, NoRead
    <3>4. tap' \in [Taps -> Reads]
      BY <1>5, <2>0 DEF TapsTyped, ReadPlaced
    <3> QED BY <3>3, <3>4 DEF TapsTyped
  <2>1. CASE TapReads(t)
    <3>1. tap[t].pc = "sent" /\ tap' = [tap EXCEPT ![t] = [tap[t] EXCEPT !.pc = "back", !.got = st[tap[t].of]]]
      BY <1>5, <2>1 DEF TapReads, TapsTyped
    <3>2. st[tap[t].of] \in 0 .. Last
      BY <1>5, <3>1, TypedParts DEF FeedTyped, ReadPlaced, NoRead
    <3>3. ReadPlaced([tap[t] EXCEPT !.pc = "back", !.got = st[tap[t].of]])
      BY <1>5, <3>1, <3>2, ReadBack
    <3>4. UNCHANGED <<shown, pollStatus, ticking>>
      BY <2>1 DEF TapReads
    <3> QED BY <2>0, <3>1, <3>3, <3>4, PartsStay
  <2>2. CASE TapBack(t)
    <3>1. tap[t].pc = "back" /\ Show(tap[t].of, tap[t].got) /\ tap' = [tap EXCEPT ![t] = NoRead]
      BY <2>2 DEF TapBack
    <3>2. ReadPlaced(NoRead)
      BY NoReadPlaced
    <3> QED BY <1>5, <2>0, <3>1, <3>2, ShowEffect
  <2>3. CASE TapFails(t)
    <3>1. tap' = [tap EXCEPT ![t] = NoRead] /\ UNCHANGED <<shown, pollStatus, ticking>>
      BY <2>3 DEF TapFails
    <3>2. ReadPlaced(NoRead)
      BY NoReadPlaced
    <3> QED BY <2>0, <3>1, <3>2, PartsStay
  <2>4. ASSUME NEW b \in Followed, OpenBooking(t, b) PROVE TapsTyped' /\ ScreenTyped'
    <3>1. tap' = [tap EXCEPT ![t] = [NoRead EXCEPT !.pc = "sent", !.of = b]] /\ UNCHANGED <<shown, pollStatus, ticking>>
      BY <2>4 DEF OpenBooking
    <3>2. ReadPlaced([NoRead EXCEPT !.pc = "sent", !.of = b])
      BY NewRead
    <3> QED BY <2>0, <3>1, <3>2, PartsStay
  <2> QED BY <2>1, <2>2, <2>3, <2>4
<1> QED BY <1>2, <1>4, <1>6, TypedPartsNext

LEMMA StreamSteps ==
    ASSUME PageKept, NEW c \in Conns,
           StreamOpens(c) \/ StreamExpired(c) \/ StreamRenewed(c) \/ StreamEnds(c) \/ StreamBreaks(c)
    PROVE  PageKept'
<1> USE DEF PageKept
<1>1. /\ UNCHANGED <<poll, pollAgain, owed>> /\ UNCHANGED tap
      /\ UNCHANGED <<cur, online, hidden, shown, pollStatus>>
  BY DEF StreamOpens, StreamExpired, StreamRenewed, StreamEnds, StreamBreaks, page
<1>2. PollTyped' /\ TapsTyped' /\ NudgeHonoured'
  BY <1>1, PartsStay DEF NudgeHonoured
<1>3. turns' \in Nat /\ breaks' \in Nat
  BY TypedParts DEF StreamOpens, StreamExpired, StreamRenewed, StreamEnds, StreamBreaks, Break, bounds, RestTyped
<1>4. RestTyped'
  BY <1>1, <1>3, TypedParts DEF RestTyped
<1>5. FeedTyped'
  BY TypedParts DEF FeedTyped, StreamOpens, StreamExpired, StreamRenewed, StreamEnds, StreamBreaks, feed
<1>6. ctrl \in Conns \cup {NoConn} /\ conn \in [Conns -> ConnStates] /\ retry \in BOOLEAN /\ ticking \in BOOLEAN
  BY TypedParts DEF StreamTyped, ScreenTyped
<1>7. StreamTyped' /\ ticking' \in BOOLEAN /\ (~FlapInRenewal => Owned(ctrl, conn)')
  <2>1. CASE StreamOpens(c) \/ StreamExpired(c)
    <3>1. /\ ctrl' = ctrl /\ retry' = retry /\ ticking' \in BOOLEAN /\ conn[c] # "free"
          /\ conn' = [conn EXCEPT ![c] = "reading"] \/ conn' = [conn EXCEPT ![c] = "renewing"]
      BY <1>6, <2>1 DEF StreamOpens, StreamExpired, page
    <3>2. conn' \in [Conns -> ConnStates] /\ \A d \in Conns \ {c} : conn'[d] = conn[d]
      BY <1>6, <3>1 DEF ConnStates
    <3> QED BY <1>6, <3>1, <3>2 DEF StreamTyped, Owned
  <2>2. CASE StreamEnds(c) \/ StreamBreaks(c)
    <3>1. Finally(c, ctrl, conn)
      BY <2>2 DEF StreamEnds, StreamBreaks
    <3> QED BY <1>6, <3>1, FinallyEffect DEF StreamTyped, Owned
  <2>3. CASE StreamRenewed(c)
    <3>0. conn[c] = "renewing"
      BY <2>3 DEF StreamRenewed
    <3>1. CASE ~online
      <4>1. Finally(c, NoConn, conn)
        BY <2>3, <3>1 DEF StreamRenewed
      <4>2. ~FlapInRenewal => \A d \in Conns \ {c} : conn[d] # "free" => d = NoConn
        BY <3>0 DEF Owned
      <4> QED BY <1>6, <4>1, <4>2, FinallyEffect DEF StreamTyped, Owned
    <3>2. CASE online
      <4> DEFINE o == OpenedOn(conn)
                 conns == [conn EXCEPT ![o] = "fetching"]
      <4>1. Unused(conn) # {} /\ Finally(c, o, conns)
        BY <2>3, <3>2 DEF StreamRenewed
      <4>2. o \in Conns
        BY <4>1 DEF OpenedOn, Unused
      <4>3. conns \in [Conns -> ConnStates] /\ \A d \in Conns : d # o => conns[d] = conn[d]
        BY <1>6, <4>2 DEF ConnStates
      <4>4. ~FlapInRenewal => \A d \in Conns \ {c} : conns[d] # "free" => d = o
        BY <3>0, <4>3 DEF Owned
      <4> HIDE DEF o, conns
      <4> QED BY <1>6, <4>1, <4>2, <4>3, <4>4, FinallyEffect DEF StreamTyped, Owned
    <3> QED BY <3>1, <3>2, TypedParts DEF RestTyped
  <2> QED BY <2>1, <2>2, <2>3
<1>8. ScreenTyped'
  BY <1>1, <1>7, TypedParts DEF ScreenTyped
<1> QED BY <1>2, <1>4, <1>5, <1>7, <1>8, TypedPartsNext

LEMMA FrameStep ==
    ASSUME PageKept, NEW c \in Conns, NEW b \in Followed, Frame(c, b)
    PROVE  PageKept'
<1> USE DEF PageKept
<1>1. /\ UNCHANGED <<shown, pollStatus, ticking>> /\ UNCHANGED tap
      /\ UNCHANGED <<ctrl, conn, retry>> /\ UNCHANGED <<cur, online, hidden, turns, breaks>>
  BY DEF Frame, stream, bounds
<1>2. FeedTyped'
  BY TypedParts DEF Frame, FeedTyped
<1>3. owed \in BOOLEAN
  BY TypedParts DEF PollTyped
<1>4. PollTyped' /\ NudgeHonoured'
  <2>1. CASE b = cur
    <3>1. PollBooking /\ owed' = (owed \/ CanPoll)
      BY <2>1 DEF Frame
    <3> QED BY <1>3, <3>1, PollBookingEffect DEF NudgeHonoured
  <2>2. CASE b # cur
    <3>1. UNCHANGED <<poll, pollAgain, owed>>
      BY <2>2 DEF Frame
    <3> QED BY <3>1, PartsStay DEF NudgeHonoured
  <2> QED BY <2>1, <2>2
<1> QED BY <1>1, <1>2, <1>4, PartsStay, TypedPartsNext DEF Owned

LEMMA PageSteps ==
    ASSUME PageKept, StreamRetry \/ GoOffline \/ GoOnline \/ Hide \/ Unhide \/ BackForward
    PROVE  PageKept'
<1> USE DEF PageKept
<1>1. /\ UNCHANGED <<st, fed, nudges, fresh>> /\ UNCHANGED tap /\ UNCHANGED shown /\ UNCHANGED cur
  BY DEF StreamRetry, GoOffline, GoOnline, Hide, Unhide, BackForward, feed, page
<1>2. FeedTyped' /\ TapsTyped'
  BY <1>1, PartsStay
<1>3. /\ online' \in BOOLEAN /\ hidden' \in BOOLEAN /\ turns' \in Nat /\ breaks' \in Nat
  <2>0. online \in BOOLEAN /\ hidden \in BOOLEAN /\ turns \in Nat /\ breaks \in Nat
    BY TypedParts DEF RestTyped
  <2>1. CASE StreamRetry \/ GoOnline \/ Unhide
    BY <2>0, <2>1 DEF StreamRetry, GoOnline, Unhide, bounds
  <2>2. CASE GoOffline \/ Hide \/ BackForward
    <3>1. Turn /\ online' \in {online, FALSE} /\ hidden' \in {hidden, TRUE}
      BY <2>2 DEF GoOffline, Hide, BackForward
    <3>2. turns' \in Nat /\ breaks' \in Nat
      BY <2>0, <3>1 DEF Turn
    <3> QED BY <2>0, <3>1, <3>2
  <2> QED BY <2>1, <2>2
<1>4. RestTyped'
  BY <1>1, <1>3, TypedParts DEF RestTyped
<1>5. pollStatus' \in 0 .. Unknown /\ ticking' \in BOOLEAN
  <2>0. pollStatus \in 0 .. Unknown /\ ticking \in BOOLEAN /\ Unknown \in 0 .. Unknown
    BY TypedParts, Bounds DEF ScreenTyped, Unknown
  <2>1. CASE StreamRetry \/ Hide \/ Unhide
    BY <2>0, <2>1 DEF StreamRetry, Hide, Unhide, page
  <2>2. CASE GoOffline
    BY <2>0, <2>2 DEF GoOffline, StopPoll
  <2>3. CASE GoOnline \/ BackForward
    <3>1. pollStatus' \in {pollStatus, Unknown} /\ (StartPoll \/ ticking' = ticking)
      BY <2>3 DEF GoOnline, BackForward
    <3> QED BY <2>0, <3>1 DEF StartPoll
  <2> QED BY <2>1, <2>2, <2>3
<1>6. ScreenTyped'
  BY <1>1, <1>5, TypedParts DEF ScreenTyped
<1>7. ctrl \in Conns \cup {NoConn} /\ conn \in [Conns -> ConnStates] /\ retry \in BOOLEAN
  BY TypedParts DEF StreamTyped
<1>8. StreamTyped' /\ (~FlapInRenewal => Owned(ctrl, conn)')
  <2>1. CASE StreamRetry \/ GoOnline
    <3>1. Opening(ctrl, conn) /\ retry' \in BOOLEAN
      BY <1>7, <2>1 DEF StreamRetry, GoOnline
    <3> QED BY <1>7, <3>1, OpeningEffect DEF StreamTyped, Owned
  <2>2. CASE GoOffline
    <3>1. conn' = Stopped /\ ctrl' = NoConn /\ retry' = FALSE /\ MayStop
      BY <2>2 DEF GoOffline
    <3> QED BY <3>1, StoppedTyped DEF StreamTyped, Owned, MayStop
  <2>3. CASE BackForward
    <3>1. Opening(NoConn, Stopped) /\ retry' = FALSE /\ MayStop
      BY <2>3 DEF BackForward
    <3>2. ~FlapInRenewal => Owned(NoConn, Stopped)
      BY <3>1, StoppedTyped DEF Owned, MayStop
    <3>3. Stopped \in [Conns -> ConnStates]
      BY StoppedTyped
    <3>4. ctrl' \in Conns \cup {NoConn} /\ conn' \in [Conns -> ConnStates] /\ (Owned(NoConn, Stopped) => Owned(ctrl', conn'))
      BY <3>1, <3>3, OpeningEffect
    <3> QED BY <3>1, <3>2, <3>4 DEF StreamTyped, Owned
  <2>4. CASE Hide \/ Unhide
    <3>1. UNCHANGED <<ctrl, conn, retry>>
      BY <2>4 DEF Hide, Unhide, stream
    <3> QED BY <3>1, PartsStay DEF Owned
  <2> QED BY <2>1, <2>2, <2>3, <2>4
<1>9. PollTyped' /\ NudgeHonoured'
  <2>1. CASE StreamRetry \/ GoOffline \/ GoOnline \/ Hide \/ BackForward
    <3>1. poll' = poll /\ pollAgain' = pollAgain /\ (owed' = owed \/ owed' = FALSE)
      BY <2>1 DEF StreamRetry, GoOffline, GoOnline, Hide, BackForward, page
    <3>2. ReadPlaced(poll) /\ pollAgain \in BOOLEAN /\ owed \in BOOLEAN
      BY TypedParts DEF PollTyped
    <3>3. ReadPlaced(poll)'
      BY <3>1, <3>2 DEF ReadPlaced, Reads, NoRead
    <3>4. pollAgain' \in BOOLEAN /\ owed' \in BOOLEAN /\ (owed' => owed)
      <4>1. pollAgain' \in BOOLEAN
        BY <3>1, <3>2
      <4>2. CASE owed' = owed
        BY <3>2, <4>1, <4>2
      <4>3. CASE owed' = FALSE
        BY <4>1, <4>3
      <4> QED BY <3>1, <4>2, <4>3
    <3>5. NudgeHonoured'
      BY <3>1, <3>4 DEF NudgeHonoured
    <3> QED BY <3>3, <3>4, <3>5 DEF PollTyped
  <2>2. CASE Unhide
    <3>0. ReadPlaced(poll) /\ pollAgain \in BOOLEAN /\ owed \in BOOLEAN /\ (cur # NotFollowing => cur \in Followed)
      BY TypedParts DEF PollTyped, RestTyped
    <3>1. CASE ticking /\ online /\ cur # NotFollowing /\ poll = NoRead
      <4>1. poll' = [NoRead EXCEPT !.pc = "sent", !.of = cur] /\ UNCHANGED <<pollAgain, owed>>
        BY <2>2, <3>1 DEF Unhide
      <4>2. ReadPlaced(poll') /\ poll'.pc = "sent"
        BY <3>0, <3>1, <4>1, NewRead
      <4>3. ReadPlaced(poll)'
        BY <4>2 DEF ReadPlaced, Reads, NoRead
      <4> QED BY <3>0, <4>1, <4>2, <4>3 DEF PollTyped, NudgeHonoured
    <3>2. CASE ~(ticking /\ online /\ cur # NotFollowing /\ poll = NoRead)
      <4>1. /\ poll' = poll /\ owed' = owed
            /\ pollAgain' = (pollAgain \/ (ticking /\ online /\ cur # NotFollowing))
        BY <2>2, <3>2 DEF Unhide
      <4>2. ReadPlaced(poll)'
        BY <3>0, <4>1 DEF ReadPlaced, Reads, NoRead
      <4> QED BY <3>0, <4>1, <4>2 DEF PollTyped, NudgeHonoured
    <3> QED BY <3>1, <3>2
  <2> QED BY <2>1, <2>2
<1> QED BY <1>2, <1>4, <1>6, <1>8, <1>9, TypedPartsNext

LEMMA LiveStarts == LiveInit => PageKept
<1> SUFFICES ASSUME LiveInit PROVE PageKept
  OBVIOUS
<1> USE Bounds
<1>1. ctrl \in Conns
  BY DEF LiveInit
<1>2. StreamTyped /\ Owned(ctrl, conn)
  BY <1>1 DEF LiveInit, StreamTyped, Owned, ConnStates
<1>3. ScreenTyped /\ FeedTyped /\ RestTyped
  <2>1. Unknown \in 0 .. Unknown /\ 0 \in 0 .. Last
    BY Bounds DEF Unknown
  <2>2. ScreenTyped
    BY <2>1 DEF LiveInit, ScreenTyped
  <2>3. FeedTyped
    BY <2>1 DEF LiveInit, FeedTyped
  <2>4. RestTyped
    BY DEF LiveInit, RestTyped
  <2> QED BY <2>2, <2>3, <2>4
<1>4. PollTyped /\ TapsTyped
  <2>1. poll = NoRead /\ pollAgain = FALSE /\ owed = FALSE /\ tap = [t \in Taps |-> NoRead]
    BY DEF LiveInit
  <2>2. NoRead \in Reads
    BY NoReadPlaced DEF ReadPlaced
  <2> QED BY <2>1, <2>2, NoReadPlaced DEF PollTyped, TapsTyped, ReadPlaced
<1>5. NudgeHonoured
  BY DEF LiveInit, NudgeHonoured
<1> QED BY <1>2, <1>3, <1>4, <1>5, TypedParts DEF PageKept

LEMMA LiveStep == PageKept /\ [LiveNext]_liveVars => PageKept'
<1> SUFFICES ASSUME PageKept, [LiveNext]_liveVars PROVE PageKept'
  OBVIOUS
<1>1. CASE PollStep
  BY <1>1, PollSteps DEF PollStep
<1>2. CASE TapStep
  BY <1>2, TapSteps DEF TapStep
<1>3. CASE StreamStep
  BY <1>3, FeedSteps, StreamSteps, FrameStep, PageSteps DEF StreamStep
<1>4. CASE Surroundings
  BY <1>4, FeedSteps, StreamSteps, TapSteps, PollSteps, PageSteps DEF Surroundings
<1>5. CASE UNCHANGED liveVars
  <2>1. /\ UNCHANGED <<shown, pollStatus, ticking>> /\ UNCHANGED <<poll, pollAgain, owed>> /\ UNCHANGED tap
        /\ UNCHANGED <<st, fed, nudges, fresh>> /\ UNCHANGED <<ctrl, conn, retry>>
        /\ UNCHANGED <<cur, online, hidden, turns, breaks>>
    BY <1>5 DEF liveVars, feed, page, stream, bounds
  <2> QED BY <2>1, PartsStay, TypedPartsNext DEF PageKept, Owned, NudgeHonoured
<1> QED BY <1>1, <1>2, <1>3, <1>4, <1>5 DEF LiveNext

LEMMA LiveInvariant == LiveSpec => []PageKept
BY LiveStarts, LiveStep, PTL DEF LiveSpec

\* Type correctness of the page that follows a booking (app.html, realtime.ts).
THEOREM LiveTypes == LiveSpec => []LiveTypeOK
<1>1. PageKept => LiveTypeOK
  BY DEF PageKept, LiveTyped
<1> QED BY <1>1, LiveInvariant, PTL

\* A page whose stream is not stopped as its token is renewed holds one stream, and
\* every event it hears is followed by a read, however streams break, the tab is
\* hidden, restored or offline and reads overlap.
THEOREM PageAlwaysFed == ~FlapInRenewal => (LiveSpec => []PageStaysFed)
<1> SUFFICES ASSUME ~FlapInRenewal PROVE LiveSpec => []PageStaysFed
  OBVIOUS
<1>1. PageKept => PageStaysFed
  BY DEF PageKept, PageStaysFed, OneStream, Owned
<1> QED BY <1>1, LiveInvariant, PTL
=============================================================================
