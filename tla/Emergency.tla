----------------------------- MODULE Emergency -----------------------------
(***************************************************************************)
(* The emergency path of the API server: raise, confirm, cancel and        *)
(* resolve of routes/emergency.ts, and the SOS by SMS of routes/telecom.ts,*)
(* which escalates by itself (escalateSmsSos).                             *)
(*                                                                         *)
(* A confirm is several statements and many texts long.  The CONFIRMED ->  *)
(* RESPONDING update is the claim: who wins it texts the contacts and then *)
(* records the "contacts" step.  A claim without that row, older than the  *)
(* lease, is taken over by the next confirm (stale[i]: updated_at is older *)
(* than ESCALATION_LEASE_MS).  req[r] is a confirm request, or the webhook *)
(* of an SMS; batches counts the sosAlerts window of an owner.             *)
(***************************************************************************)
EXTENDS Naturals, FiniteSets, IncidentMachine

CONSTANTS
    Incidents, NoIncident, Requests,
    Owners, Owner,  \* Owner[i]: whose incident i is
    Contacts,       \* Contacts[o]: reachable emergency contacts of o
    Sources,        \* "manual", "crash_model", "sms": how incidents are raised
    MaxBatches,     \* LIMITS.sosAlerts.max
    MaxRounds,      \* rounds of the cancel's compare-and-swap
    SlowSends,      \* whether a send loop may outlast the lease
    Faults,         \* what may fail: "send", "request", "restart"
    MaxFaults       \* bound on how often

ASSUME EmergencyAssumption ==
    /\ NoIncident \notin Incidents
    /\ Owner \in [Incidents -> Owners]
    /\ \A o \in Owners : IsFiniteSet(Contacts[o])
    /\ Sources \subseteq {"manual", "crash_model", "sms"}
    /\ MaxBatches \in Nat /\ MaxRounds \in Nat \ {0}
    /\ SlowSends \in BOOLEAN
    /\ Faults \subseteq {"send", "request", "restart"}
    /\ MaxFaults \in Nat

VARIABLES
    status,         \* incidents.status, or "NONE"
    stale,          \* incidents whose updated_at is older than the lease
    recorded,       \* incidents with a "contacts" row
    bySms,          \* incidents whose signal came by SMS
    texted,         \* texted[i][c]: texts sent to contact c about i
    unsent,         \* unsent[i]: contacts a failed send was reported for
    screen,         \* the status last published to the owner
    overtaken,      \* history: incidents closed between an answer's re-read and its
                    \* publication
    req, cancelling, closing,   \* requests in flight
    batches,        \* alert batches in the owner's current window
    faults

rows == <<status, stale, recorded, bySms>>
alerts == <<texted, unsent>>
published == <<screen, overtaken>>
vars == <<rows, alerts, published, req, cancelling, closing, batches, faults>>

AllContacts == UNION {Contacts[o] : o \in Owners}
Idle == [pc |-> "idle", inc |-> NoIncident, by |-> "app", left |-> {},
         seen |-> "NONE"]
NotCancelling == [from |-> "NONE", round |-> 0]
Open(i) == status[i] \in Unclosed
\* Pcs of a request that has the claim and has not yet recorded its step.
Sending == {"claimed", "sending"}

TypeOK ==
    /\ status \in [Incidents -> IncidentStatus \cup {"NONE"}]
    /\ stale \subseteq Incidents
    /\ recorded \subseteq Incidents
    /\ bySms \subseteq Incidents
    /\ texted \in [Incidents -> [AllContacts -> Nat]]
    /\ unsent \in [Incidents -> SUBSET AllContacts]
    /\ screen \in [Incidents -> IncidentStatus \cup {"NONE"}]
    /\ overtaken \subseteq Incidents
    /\ req \in [Requests -> [pc : {"idle", "read", "stale", "outdated", "claimed", "sending", "done",
                                  "answering"},
                             inc : Incidents \cup {NoIncident}, by : {"app", "sms"},
                             left : SUBSET AllContacts, seen : IncidentStatus \cup {"NONE"}]]
    /\ cancelling \in [Incidents -> [from : IncidentStatus \cup {"NONE"}, round : Nat]]
    /\ closing \in [Incidents -> Closed \cup {"NONE"}]
    /\ batches \in [Owners -> Nat]
    /\ faults \in Nat

Init ==
    /\ status = [i \in Incidents |-> "NONE"]
    /\ stale = {}
    /\ recorded = {}
    /\ bySms = {}
    /\ texted = [i \in Incidents |-> [c \in AllContacts |-> 0]]
    /\ unsent = [i \in Incidents |-> {}]
    /\ screen = [i \in Incidents |-> "NONE"]
    /\ overtaken = {}
    /\ req = [r \in Requests |-> Idle]
    /\ cancelling = [i \in Incidents |-> NotCancelling]
    /\ closing = [i \in Incidents |-> "NONE"]
    /\ batches = [o \in Owners |-> 0]
    /\ faults = 0

-----------------------------------------------------------------------------
(* Raising *)

\* POST /v1/sos: a person's SOS stands confirmed, a model's signal waits.
RaiseByApp(i, source) ==
    /\ source # "sms"
    /\ status[i] = "NONE"
    /\ status' = [status EXCEPT ![i] =
                    IF source = "crash_model" THEN "AWAITING_CONFIRMATION" ELSE "CONFIRMED"]
    /\ screen' = [screen EXCEPT ![i] = status'[i]]
    /\ UNCHANGED <<bySms, stale, recorded, alerts, overtaken, req, cancelling, closing, batches, faults>>

\* POST /v1/telecom/sms, the SOS verb: raised confirmed, and escalated at once by
\* the same webhook request.
RaiseBySms(r, i) ==
    /\ status[i] = "NONE"
    /\ req[r] = Idle
    /\ status' = [status EXCEPT ![i] = "CONFIRMED"]
    /\ req' = [req EXCEPT ![r] = [Idle EXCEPT !.pc = "read", !.inc = i, !.by = "sms"]]
    /\ bySms' = bySms \cup {i}
    /\ UNCHANGED <<stale, recorded, alerts, published, cancelling, closing, batches, faults>>

-----------------------------------------------------------------------------
(* POST /v1/sos/:id/confirm, and escalateSmsSos *)

At(r, pc) == req[r].pc = pc
Goto(r, pc) == req' = [req EXCEPT ![r].pc = pc]
Finish(r) == req' = [req EXCEPT ![r] = Idle]

\* The incident is read; a closed one is refused.
ConfirmRead(r, i) ==
    /\ req[r] = Idle
    /\ Open(i)
    /\ req' = [req EXCEPT ![r] = [Idle EXCEPT !.pc = "read", !.inc = i]]
    /\ UNCHANGED <<rows, alerts, published, cancelling, closing, batches, faults>>

\* Where the claim may be won from: not RESPONDING, or a repeat would text again.
Claimable(r) == IF req[r].by = "sms" THEN {"CONFIRMED"}
                ELSE {"DETECTED", "AWAITING_CONFIRMATION", "CONFIRMED"}

\* The claim.
Claim(r) ==
    LET i == req[r].inc
    IN /\ At(r, "read")
       /\ status[i] \in Claimable(r)
       /\ status' = [status EXCEPT ![i] = "RESPONDING"]
       /\ stale' = stale \ {i}
       /\ Goto(r, "claimed")
       /\ UNCHANGED <<bySms, recorded, alerts, published, cancelling, closing, batches, faults>>

\* A claimer is taken for dead when the lease has run out and no row records it.
AbandonedAtOnce(i) == i \notin recorded             \* variant: there is no lease
AbandonedNever(i) == FALSE                          \* variant: a repeat never alerts
Abandoned(i) == i \in stale /\ i \notin recorded

\* The claim is lost: closed, or already escalated - unless it looks abandoned.
ClaimLost(r) ==
    LET i == req[r].inc
    IN /\ At(r, "read")
       /\ status[i] \notin Claimable(r)
       /\ IF req[r].by = "app" /\ status[i] = "RESPONDING" /\ Abandoned(i)
            THEN Goto(r, "stale") ELSE Finish(r)
       /\ UNCHANGED <<rows, alerts, published, cancelling, closing, batches, faults>>

\* Re-taken by compare-and-swap on updated_at: other retries find it changed.
RetakeAny(r) ==               \* variant: re-taken whatever updated_at and status are
    LET i == req[r].inc
    IN /\ req[r].pc \in {"stale", "outdated"}
       /\ stale' = stale \ {i}
       /\ Goto(r, "claimed")
       /\ UNCHANGED <<bySms, status, recorded, alerts, published, cancelling, closing, batches, faults>>
Retake(r) ==
    LET i == req[r].inc
    IN /\ At(r, "stale")
       /\ status[i] = "RESPONDING"
       /\ stale' = stale \ {i}
       /\ req' = [q \in Requests |->
                    IF q = r THEN [req[q] EXCEPT !.pc = "claimed"]
                    ELSE IF req[q].pc = "stale" /\ req[q].inc = i
                      THEN [req[q] EXCEPT !.pc = "outdated"] ELSE req[q]]
       /\ UNCHANGED <<bySms, status, recorded, alerts, published, cancelling, closing, batches, faults>>

RetakeLost(r) ==
    /\ \/ At(r, "outdated")
       \/ At(r, "stale") /\ ~(status[req[r].inc] = "RESPONDING")
    /\ Finish(r)
    /\ UNCHANGED <<rows, alerts, published, cancelling, closing, batches, faults>>

\* The contacts are read and the ceiling hit; over it the texts are withheld and
\* no row is written, so that a later retry can still alert them.
Withheld(r) ==
    LET o == Owner[req[r].inc]
    IN /\ At(r, "claimed")
       /\ Contacts[o] # {}
       /\ batches[o] >= MaxBatches
       /\ Goto(r, "done")
       /\ UNCHANGED <<rows, alerts, published, cancelling, closing, batches, faults>>

StartSending(r) ==
    LET o == Owner[req[r].inc]
    IN /\ At(r, "claimed")
       /\ Contacts[o] # {} => batches[o] < MaxBatches
       /\ batches' = [batches EXCEPT ![o] = IF Contacts[o] = {} THEN @ ELSE @ + 1]
       /\ req' = [req EXCEPT ![r].pc = "sending", ![r].left = Contacts[o]]
       /\ UNCHANGED <<rows, alerts, published, cancelling, closing, faults>>

\* One contact texted, or the send failed and is reported: the loop goes on.
Text(r, c) ==
    /\ At(r, "sending") /\ c \in req[r].left
    /\ texted' = [texted EXCEPT ![req[r].inc][c] = @ + 1]
    /\ req' = [req EXCEPT ![r].left = @ \ {c}]
    /\ UNCHANGED <<rows, unsent, published, cancelling, closing, batches, faults>>

TextFails(r, c) ==
    /\ "send" \in Faults /\ faults < MaxFaults
    /\ At(r, "sending") /\ c \in req[r].left
    /\ faults' = faults + 1
    /\ unsent' = [unsent EXCEPT ![req[r].inc] = @ \cup {c}]
    /\ req' = [req EXCEPT ![r].left = @ \ {c}]
    /\ UNCHANGED <<rows, texted, published, cancelling, closing, batches>>

\* The "contacts" row, once the whole list has been through.
RecordContacts(r) ==
    /\ At(r, "sending") /\ req[r].left = {}
    /\ recorded' = recorded \cup {req[r].inc}
    /\ Goto(r, "done")
    /\ UNCHANGED <<bySms, status, stale, alerts, published, cancelling, closing, batches, faults>>

\* The responder row, and what is to be published: the app's confirm reads what the
\* incident is now, the SMS path takes what it made it ...
PublishResponding(r) == "RESPONDING"                \* variant: confirm without the re-read
PublishedStatus(r) == IF req[r].by = "sms" THEN "RESPONDING" ELSE status[req[r].inc]

Reread(r) ==
    /\ At(r, "done")
    /\ req' = [req EXCEPT ![r].pc = "answering", ![r].seen = PublishedStatus(r)]
    /\ UNCHANGED <<rows, alerts, published, cancelling, closing, batches, faults>>

\* ... and the answer publishes it, whatever the incident has become since.
Answer(r) ==
    /\ At(r, "answering")
    /\ screen' = [screen EXCEPT ![req[r].inc] = req[r].seen]
    /\ Finish(r)
    /\ UNCHANGED <<rows, alerts, overtaken, cancelling, closing, batches, faults>>

\* A statement fails: the request ends where it is, in a 500 or, for a text, in
\* a log line.
RequestFails(r) ==
    /\ "request" \in Faults /\ faults < MaxFaults
    /\ req[r].pc # "idle"
    /\ faults' = faults + 1
    /\ Finish(r)
    /\ UNCHANGED <<rows, alerts, published, cancelling, closing, batches>>

-----------------------------------------------------------------------------
(* POST /v1/sos/:id/cancel: a compare-and-swap, retried *)

CancelRead(i) ==
    /\ cancelling[i] = NotCancelling /\ closing[i] = "NONE"
    /\ Open(i)
    /\ cancelling' = [cancelling EXCEPT ![i] = [from |-> status[i], round |-> 1]]
    /\ UNCHANGED <<rows, alerts, published, req, closing, batches, faults>>

CancelSwap(i) ==
    /\ cancelling[i].round > 0
    /\ status[i] = cancelling[i].from
    /\ status' = [status EXCEPT ![i] = "CANCELLED"]
    /\ stale' = stale \ {i}
    /\ cancelling' = [cancelling EXCEPT ![i] = NotCancelling]
    /\ closing' = [closing EXCEPT ![i] = "CANCELLED"]
    /\ UNCHANGED <<bySms, recorded, alerts, published, req, batches, faults>>

\* The swap is lost: read again and retry ...
CancelAgain(i) ==
    /\ cancelling[i].round \in 1 .. (MaxRounds - 1)
    /\ status[i] # cancelling[i].from
    /\ Open(i)
    /\ cancelling' = [cancelling EXCEPT ![i] = [from |-> status[i], round |-> @.round + 1]]
    /\ UNCHANGED <<rows, alerts, published, req, closing, batches, faults>>

\* ... or refused: somebody else closed it, or the rounds are used up.
RefusedAfter == MaxRounds
CancelRefused(i) ==
    /\ cancelling[i].round > 0
    /\ status[i] # cancelling[i].from
    /\ ~Open(i) \/ cancelling[i].round >= RefusedAfter
    /\ cancelling' = [cancelling EXCEPT ![i] = NotCancelling]
    /\ UNCHANGED <<rows, alerts, published, req, closing, batches, faults>>

\* POST /v1/sos/:id/resolve: one compare-and-swap from the status read.
Resolve(i) ==
    /\ closing[i] = "NONE"
    /\ AppliesIncident(status[i], "resolve", "RESOLVED")
    /\ status' = [status EXCEPT ![i] = "RESOLVED"]
    /\ stale' = stale \ {i}
    /\ closing' = [closing EXCEPT ![i] = "RESOLVED"]
    /\ UNCHANGED <<bySms, recorded, alerts, published, req, cancelling, batches, faults>>

\* A confirm is about to publish an incident as open that has been closed since it
\* was read again.
Outdated(r, i) == At(r, "answering") /\ req[r].inc = i /\ req[r].seen \notin Closed

\* Audited first, published second.
PublishClosed(i) ==
    /\ closing[i] # "NONE"
    /\ screen' = [screen EXCEPT ![i] = closing[i]]
    /\ overtaken' = IF \E r \in Requests : Outdated(r, i) THEN overtaken \cup {i} ELSE overtaken
    /\ closing' = [closing EXCEPT ![i] = "NONE"]
    /\ UNCHANGED <<rows, alerts, req, cancelling, batches, faults>>

-----------------------------------------------------------------------------
(* Time and failure *)

\* The lease of a claim runs out: "far longer than any send loop takes".
LeasePasses(i) ==
    /\ status[i] = "RESPONDING"
    /\ i \notin stale
    /\ ~SlowSends => ~(\E r \in Requests : req[r].inc = i /\ req[r].pc \in Sending)
    /\ stale' = stale \cup {i}
    /\ UNCHANGED <<bySms, status, recorded, alerts, published, req, cancelling, closing, batches, faults>>

\* The owner's sosAlerts window ends.
WindowEnds(o) ==
    /\ batches[o] > 0
    /\ batches' = [batches EXCEPT ![o] = 0]
    /\ UNCHANGED <<rows, alerts, published, req, cancelling, closing, faults>>

\* The server dies: requests end where they are, and the windows are forgotten.
Restart ==
    /\ "restart" \in Faults /\ faults < MaxFaults
    /\ faults' = faults + 1
    /\ req' = [r \in Requests |-> Idle]
    /\ cancelling' = [i \in Incidents |-> NotCancelling]
    /\ closing' = [i \in Incidents |-> "NONE"]
    /\ batches' = [o \in Owners |-> 0]
    /\ UNCHANGED <<rows, alerts, published>>

Escalation(r) ==
    \/ Claim(r) \/ ClaimLost(r) \/ Retake(r) \/ RetakeLost(r)
    \/ Withheld(r) \/ StartSending(r) \/ RecordContacts(r)
    \/ Reread(r) \/ Answer(r)
    \/ \E c \in AllContacts : Text(r, c) \/ TextFails(r, c)

Next ==
    \/ \E i \in Incidents :
         \/ \E s \in Sources : RaiseByApp(i, s)
         \/ CancelRead(i) \/ CancelSwap(i) \/ CancelAgain(i) \/ CancelRefused(i)
         \/ Resolve(i) \/ PublishClosed(i) \/ LeasePasses(i)
         \/ \E r \in Requests : ConfirmRead(r, i) \/ ("sms" \in Sources /\ RaiseBySms(r, i))
    \/ \E r \in Requests : Escalation(r) \/ RequestFails(r)
    \/ \E o \in Owners : WindowEnds(o)
    \/ Restart

\* A request that has begun runs on, and time passes.  That somebody keeps asking
\* - the owner's screen, which retries its confirm - is an assumption on people.
Fairness ==
    /\ \A r \in Requests : WF_vars(Escalation(r))
    /\ \A i \in Incidents : WF_vars(LeasePasses(i))
    /\ \A o \in Owners : WF_vars(WindowEnds(o))
SomebodyAsks == \A i \in Incidents : SF_vars(\E r \in Requests : ConfirmRead(r, i))

Spec == Init /\ [][Next]_vars

-----------------------------------------------------------------------------
(* Safety *)

\* A contact is texted about an emergency once, however many confirms, taps and
\* retries race - again only if the one that was texting died (the claim, the
\* row and the lease of confirm): "emergency contacts are alerted once per
\* incident".
TextedOncePerClaimer ==
    \A i \in Incidents, c \in AllContacts : texted[i][c] <= 1 + faults

\* The "contacts" row tells the truth: everybody on the list was texted, or that
\* their text failed was reported.  Confirm trusts the row and skips the family.
RowMeansTexted ==
    \A i \in recorded : \A c \in Contacts[Owner[i]] : texted[i][c] > 0 \/ c \in unsent[i]

\* The family is neither texted again nor passed over.
TextedOnce == TextedOncePerClaimer /\ RowMeansTexted

\* Once everybody has answered, and no request died before it could, the owner's
\* screen does not show a closed emergency as open: a stand-down that landed at any
\* point of an escalation up to its re-read wins (confirm: "publishing RESPONDING
\* after that put a closed emergency back on the person's screen as open").  Two
\* cases are excepted, and ClosedStaysClosedOnScreen fails in both: an SOS by SMS, whose
\* escalation does not read again, and a closing published between the re-read of a
\* confirm and its publication.
AllAnswered(i) ==
    /\ faults = 0
    /\ status[i] \in Closed /\ closing[i] = "NONE"
    /\ \A r \in Requests : req[r].inc # i

ScreenShowsClosed ==
    \A i \in Incidents \ (bySms \cup overtaken) : AllAnswered(i) => screen[i] \in Closed \cup {"NONE"}

\* What confirm's comment claims, without exception (emergency.ts:600): whatever order
\* a stand-down and an escalation are answered in, a closed emergency does not come
\* back on the owner's screen as open.
ClosedStaysClosedOnScreen ==
    \A i \in Incidents : AllAnswered(i) => screen[i] \in Closed \cup {"NONE"}

(* Action properties *)

\* Nobody starts to alert the family of an emergency that has been closed, not
\* even a retry that takes over a dead claimer's lease.
NoClaimOnClosed ==
    [][\A r \in Requests :
          req'[r].pc = "claimed" /\ req[r].pc # "claimed" => status[req[r].inc] \in Unclosed]_vars

(* Liveness *)

\* While somebody keeps asking, a claimed escalation reaches the family - through
\* crashes, failed requests and withheld texts - or the emergency is closed.
FamilyIsTold ==
    \A i \in Incidents :
        (status[i] = "RESPONDING") ~> (i \in recorded \/ status[i] \in Closed)
=============================================================================
