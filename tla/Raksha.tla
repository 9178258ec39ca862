------------------------------- MODULE Raksha -------------------------------
(***************************************************************************)
(* RAKSHA, the road-hazard pipeline of raksha.ts: batches of sightings     *)
(* from edge devices, the incidents that severe ones raise for a human to  *)
(* confirm, and the officers who verify, reject, close and dismiss.        *)
(*                                                                         *)
(* A sighting is its source key: the same one may be sent by any device,   *)
(* any number of times.  Each item of a batch is a transaction: its rows   *)
(* appear at ItemCommit.  A reject holds the row of its detection from     *)
(* RejectMark to RejectCommit, a dismissal the row of its incident from    *)
(* DismissMark to DismissCommit; each then wants the other's row.          *)
(***************************************************************************)
EXTENDS Naturals, FiniteSets, IncidentMachine

CONSTANTS
    Sightings, NoSighting,
    Reports,        \* those that citizens send, keyed by user and draft
    Severe,         \* obstructions severe and certain enough to raise an incident
    Spot,           \* Spot[x]: where; sightings of a spot are within 200 m
    Devices, NoDevice,
    Incidents, NoIncident,
    Batches,        \* ingest requests in flight
    Overlap,        \* whether a device may send a batch before the last is answered
    Budget,         \* newIncidentBudget
    Officers        \* review requests in flight

ASSUME RakshaAssumption ==
    /\ NoSighting \notin Sightings /\ NoDevice \notin Devices /\ NoIncident \notin Incidents
    /\ Reports \subseteq Sightings /\ Severe \subseteq Sightings \ Reports
    /\ DOMAIN Spot = Sightings
    /\ Overlap \in BOOLEAN
    /\ Budget \in Nat

VARIABLES
    status,         \* raksha_detections.status, or "NONE"
    device,         \* raksha_detections.device_id
    incident,       \* incidents.status, or "NONE"
    spot,           \* incidents.location
    fresh,          \* incidents created, or cancelled, less than an hour ago
    signals,        \* incident_signals: <<incident, sighting>>
    batch, officer

db == <<status, device, incident, spot, fresh, signals>>
rakshaVars == <<db, batch, officer>>

DetectionStatus == {"DETECTED", "VERIFIED", "REJECTED", "CLOSED"}
Spots == {Spot[x] : x \in Sightings}
NoBatch == [pc |-> "idle", device |-> NoDevice, todo |-> {}, item |-> NoSighting,
            target |-> NoIncident, budget |-> 0]
NoReview == [pc |-> "idle", det |-> NoSighting, inc |-> NoIncident, linked |-> {}]

RakshaTypeOK ==
    /\ status \in [Sightings -> DetectionStatus \cup {"NONE"}]
    /\ device \in [Sightings -> Devices \cup {NoDevice}]
    /\ incident \in [Incidents -> IncidentStatus \cup {"NONE"}]
    /\ DOMAIN spot = Incidents
    /\ fresh \subseteq Incidents
    /\ signals \subseteq Incidents \X Sightings
    /\ batch \in [Batches -> [pc : {"idle", "open", "inserted", "looked"},
                              device : Devices \cup {NoDevice}, todo : SUBSET Sightings,
                              item : Sightings \cup {NoSighting},
                              target : Incidents \cup {NoIncident}, budget : 0 .. Budget]]
    /\ officer \in [Officers -> [pc : {"idle", "rejecting", "dismissing"},
                                 det : Sightings \cup {NoSighting},
                                 inc : Incidents \cup {NoIncident}, linked : SUBSET Incidents]]

RakshaInit ==
    /\ status = [x \in Sightings |-> "NONE"]
    /\ device = [x \in Sightings |-> NoDevice]
    /\ incident = [i \in Incidents |-> "NONE"]
    /\ spot = [i \in Incidents |-> CHOOSE p \in Spots : TRUE]
    /\ fresh = {}
    /\ signals = {}
    /\ batch = [r \in Batches |-> NoBatch]
    /\ officer = [o \in Officers |-> NoReview]

-----------------------------------------------------------------------------
(* POST /v1/raksha/detections *)

Receive(r, dv, items) ==
    /\ batch[r] = NoBatch
    /\ ~Overlap => \A q \in Batches : batch[q].device # dv
    /\ batch' = [batch EXCEPT ![r] =
                   [NoBatch EXCEPT !.pc = "open", !.device = dv, !.todo = items, !.budget = Budget]]
    /\ UNCHANGED <<db, officer>>

\* An insert of a key that another transaction has inserted waits for its end.
KeyAlwaysFree(x) == TRUE        \* variant: no unique source key
KeyFree(x) == status[x] = "NONE" /\ \A q \in Batches : batch[q].item # x
KeyWaits(x) == \E q \in Batches : batch[q].item = x

ItemInsert(r, x) ==
    /\ batch[r].pc = "open" /\ x \in batch[r].todo
    /\ KeyFree(x)
    /\ batch' = [batch EXCEPT ![r].pc = "inserted", ![r].item = x]
    /\ UNCHANGED <<db, officer>>

\* The sighting is known, sent by whichever device and however judged since.
ItemDuplicate(r, x) ==
    /\ batch[r].pc = "open" /\ x \in batch[r].todo
    /\ ~KeyFree(x) /\ ~KeyWaits(x)
    /\ batch' = [batch EXCEPT ![r].todo = @ \ {x}]
    /\ UNCHANGED <<db, officer>>

\* Open and raised in the last hour, or dismissed in it.
CountsUnconfirmed(i) ==         \* variant: only the queue is looked at
    i \in fresh /\ incident[i] \in {"AWAITING_CONFIRMATION", "CANCELLED"}
Counts(i) ==
    i \in fresh /\ incident[i] \in {"AWAITING_CONFIRMATION", "CONFIRMED", "RESPONDING", "CANCELLED"}

\* The incidents that a sighting of device dv at p corroborates.
SameHazard(dv, p) ==
    {i \in Incidents :
        /\ Counts(i) /\ spot[i] = p
        /\ \E x \in Sightings : <<i, x>> \in signals /\ device[x] = dv}

MayOpen(r) == batch[r].budget > 0

\* The query for an incident of the same hazard; without one, a new one while the
\* budget of the batch lasts.
ItemLook(r) ==
    LET x == batch[r].item
        same == SameHazard(batch[r].device, Spot[x])
    IN /\ batch[r].pc = "inserted" /\ x \in Severe
       /\ \/ \E i \in same : batch' = [batch EXCEPT ![r].pc = "looked", ![r].target = i]
          \/ /\ same = {} /\ MayOpen(r)
             /\ \E i \in Incidents :
                  /\ incident[i] = "NONE" /\ \A q \in Batches : batch[q].target # i
                  /\ batch' = [batch EXCEPT ![r].pc = "looked", ![r].target = i, ![r].budget = @ - 1]
          \/ /\ same = {} /\ ~MayOpen(r)
             /\ batch' = [batch EXCEPT ![r].pc = "looked"]
    /\ UNCHANGED <<db, officer>>

\* Detection, incident and signal become visible together.
ItemCommit(r) ==
    LET x == batch[r].item
        i == batch[r].target
        raised == i # NoIncident /\ incident[i] = "NONE"
    IN /\ batch[r].pc = IF x \in Severe THEN "looked" ELSE "inserted"
       /\ status' = [status EXCEPT ![x] = "DETECTED"]
       /\ device' = [device EXCEPT ![x] = batch[r].device]
       /\ IF raised
            THEN /\ incident' = [incident EXCEPT ![i] = "AWAITING_CONFIRMATION"]
                 /\ spot' = [spot EXCEPT ![i] = Spot[x]]
                 /\ fresh' = fresh \cup {i}
            ELSE UNCHANGED <<incident, spot, fresh>>
       /\ signals' = IF i = NoIncident THEN signals ELSE signals \cup {<<i, x>>}
       /\ batch' = [batch EXCEPT ![r].pc = "open", ![r].todo = @ \ {x},
                                 ![r].item = NoSighting, ![r].target = NoIncident]
       /\ UNCHANGED officer

BatchAnswered(r) ==
    /\ batch[r].pc = "open" /\ batch[r].todo = {}
    /\ batch' = [batch EXCEPT ![r] = NoBatch]
    /\ UNCHANGED <<db, officer>>

\* A statement or the server fails: the item is rolled back and the rest is not
\* begun.  The device will send the batch again.
BatchFails(r) ==
    /\ batch[r].pc # "idle"
    /\ batch' = [batch EXCEPT ![r] = NoBatch]
    /\ UNCHANGED <<db, officer>>

\* POST /v1/raksha/report: a citizen's report raises nothing; a repeat of its key
\* finds the row and adds nothing.
Report(x) ==
    /\ x \in Reports /\ status[x] = "NONE"
    /\ status' = [status EXCEPT ![x] = "DETECTED"]
    /\ UNCHANGED <<device, incident, spot, fresh, signals, batch, officer>>

-----------------------------------------------------------------------------
(* The officers *)

Linked(x) == {i \in Incidents : <<i, x>> \in signals}
DetectionFree(x) == \A o \in Officers : officer[o].det # x
IncidentFree(i) == \A o \in Officers : officer[o].inc # i

\* verify: one guarded update.
Verify(x) ==
    /\ status[x] = "DETECTED" /\ DetectionFree(x)
    /\ status' = [status EXCEPT ![x] = "VERIFIED"]
    /\ UNCHANGED <<device, incident, spot, fresh, signals, batch, officer>>

\* reject: the guarded update, and the incidents of which no other signal is live.
Emptied(x) ==
    {i \in Linked(x) :
        /\ incident[i] = "AWAITING_CONFIRMATION"
        /\ \A y \in Sightings \ {x} : <<i, y>> \in signals => status[y] = "REJECTED"}

RejectMark(o, x) ==
    /\ officer[o] = NoReview
    /\ status[x] = "DETECTED" /\ DetectionFree(x)
    /\ officer' = [officer EXCEPT ![o] =
                     [NoReview EXCEPT !.pc = "rejecting", !.det = x, !.linked = Emptied(x)]]
    /\ UNCHANGED <<db, batch>>

\* They are cancelled with it, those that are still unconfirmed.
StillQueuedOrNot(L) == L        \* variant: the update names the incident only
StillQueued(L) == {i \in L : incident[i] = "AWAITING_CONFIRMATION"}

RejectCommit(o) ==
    LET moved == StillQueued(officer[o].linked)
    IN /\ officer[o].pc = "rejecting"
       /\ \A i \in officer[o].linked : IncidentFree(i)
       /\ status' = [status EXCEPT ![officer[o].det] = "REJECTED"]
       /\ incident' = [i \in Incidents |-> IF i \in moved THEN "CANCELLED" ELSE incident[i]]
       /\ fresh' = fresh \cup moved
       /\ officer' = [officer EXCEPT ![o] = NoReview]
       /\ UNCHANGED <<device, spot, signals, batch>>

\* close: a verified hazard was fixed.
Close(x) ==
    /\ status[x] = "VERIFIED" /\ DetectionFree(x)
    /\ status' = [status EXCEPT ![x] = "CLOSED"]
    /\ UNCHANGED <<device, incident, spot, fresh, signals, batch, officer>>

\* dismiss: the guarded update of the incident ...
DismissMark(o, i) ==
    /\ officer[o] = NoReview
    /\ incident[i] = "AWAITING_CONFIRMATION" /\ IncidentFree(i)
    /\ officer' = [officer EXCEPT ![o] = [NoReview EXCEPT !.pc = "dismissing", !.inc = i]]
    /\ UNCHANGED <<db, batch>>

\* ... and its detections, those that nobody has judged.
UnjudgedOf(i) == {x \in Sightings : <<i, x>> \in signals /\ status[x] = "DETECTED"}

DismissCommit(o) ==
    LET i == officer[o].inc
        rejected == UnjudgedOf(i)
    IN /\ officer[o].pc = "dismissing"
       /\ \A x \in rejected : DetectionFree(x)
       /\ incident' = [incident EXCEPT ![i] = "CANCELLED"]
       /\ fresh' = fresh \cup {i}
       /\ status' = [x \in Sightings |-> IF x \in rejected THEN "REJECTED" ELSE status[x]]
       /\ officer' = [officer EXCEPT ![o] = NoReview]
       /\ UNCHANGED <<device, spot, signals, batch>>

\* A reject and a dismissal wait for each other's row: one is rolled back.
OfficerAborted(o) ==
    /\ \E p, q \in Officers :
         /\ officer[p].pc = "dismissing" /\ officer[q].pc = "rejecting" /\ o \in {p, q}
         /\ officer[p].inc \in officer[q].linked
         /\ officer[q].det \in UnjudgedOf(officer[p].inc)
    /\ officer' = [officer EXCEPT ![o] = NoReview]
    /\ UNCHANGED <<db, batch>>

-----------------------------------------------------------------------------
(* An admin confirms and resolves (routes/emergency.ts), and time passes *)

Confirm(i) ==
    /\ incident[i] = "AWAITING_CONFIRMATION" /\ IncidentFree(i)
    /\ incident' = [incident EXCEPT ![i] = "RESPONDING"]
    /\ UNCHANGED <<status, device, spot, fresh, signals, batch, officer>>

Resolve(i) ==
    /\ AppliesIncident(incident[i], "resolve", "RESOLVED")
    /\ incident' = [incident EXCEPT ![i] = "RESOLVED"]
    /\ UNCHANGED <<status, device, spot, fresh, signals, batch, officer>>

HourPasses(i) ==
    /\ i \in fresh
    /\ fresh' = fresh \ {i}
    /\ UNCHANGED <<status, device, incident, spot, signals, batch, officer>>

Ingest(r) ==
    \/ \E dv \in Devices, items \in SUBSET (Sightings \ Reports) :
         items # {} /\ Receive(r, dv, items)
    \/ \E x \in Sightings : ItemInsert(r, x) \/ ItemDuplicate(r, x)
    \/ ItemLook(r) \/ ItemCommit(r) \/ BatchAnswered(r) \/ BatchFails(r)

Review(o) ==
    \/ \E x \in Sightings : RejectMark(o, x)
    \/ \E i \in Incidents : DismissMark(o, i)
    \/ RejectCommit(o) \/ DismissCommit(o) \/ OfficerAborted(o)

RakshaNext ==
    \/ \E r \in Batches : Ingest(r)
    \/ \E o \in Officers : Review(o)
    \/ \E x \in Sightings : Report(x) \/ Verify(x) \/ Close(x)
    \/ \E i \in Incidents : Confirm(i) \/ Resolve(i) \/ HourPasses(i)

RakshaSpec == RakshaInit /\ [][RakshaNext]_rakshaVars

-----------------------------------------------------------------------------
(* Safety *)

\* A sighting counts once, whichever devices send it and however often: one
\* signal, of the incident that it raised or corroborated (the source key).
OneSignalPerSighting ==
    /\ \A x \in Sightings : Cardinality(Linked(x)) <= 1
    /\ \A x \in Sightings : Linked(x) # {} => status[x] # "NONE"

(* Action properties *)

\* What a human has decided no other request undoes.  A verdict stands: no dismissal,
\* re-sent sighting or second officer judges again what was judged ("prior
\* verification evidence is never silently overwritten"); and an emergency that a
\* human stands behind is not cancelled by a reviewer who saw it before it was confirmed.
JudgementStands ==
    /\ \A x \in Sightings :
         status[x] # "DETECTED" /\ status'[x] # status[x] =>
           <<status[x], status'[x]>> \in {<<"NONE", "DETECTED">>, <<"VERIFIED", "CLOSED">>}
    /\ \A i \in Incidents :
         incident[i] \in {"RESPONDING", "RESOLVED"} => incident'[i] # "CANCELLED"

\* "it never opens a second one": an incident is not raised while the same device
\* has one at that spot, raised in the last hour, that a human could still act on.
OneIncidentPerHazard ==
    \A i \in Incidents :
        incident[i] = "NONE" /\ incident'[i] # "NONE" =>
          \A x \in Sightings, j \in Incidents :
            <<i, x>> \in signals' /\ j \in fresh /\ incident[j] \in Unclosed /\ spot[j] = spot'[i]
              => ~(\E y \in Sightings : <<j, y>> \in signals /\ device[y] = device'[x])

\* Both of the above, of every step: what is on the road's record is one thing once,
\* and stays judged.
RoadRecordStands == [][JudgementStands /\ OneIncidentPerHazard]_rakshaVars
=============================================================================
