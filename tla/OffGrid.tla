------------------------------ MODULE OffGrid ------------------------------
(***************************************************************************)
(* The off-grid SOS of the web client: the IndexedDB store                 *)
(* (offline-store.js), the sheet and the sync loop (app.html), and the     *)
(* intake that receives the upload (POST /v1/sos/offline-sync of           *)
(* routes/emergency.ts).                                                   *)
(*                                                                         *)
(* Every IndexedDB transaction and every request is one action; a sync     *)
(* loop, a chip tap and a false-alarm tap interleave between them, and     *)
(* pages (tabs) share the store.  A request whose sender has given up or   *)
(* died is a stray: it may still arrive.  named is "serverId is set".      *)
(***************************************************************************)
EXTENDS Naturals, FiniteSets

CONSTANTS
    Emergencies,    \* client incident ids
    Types,          \* emergency types
    Pages,          \* open tabs; ogSyncing admits one sync loop in each
    SosPage,        \* the tab whose sheet shows the SOS
    MaxRetries,     \* MAX_AUTO_RETRIES
    MaxAlerts,      \* how often escalate is tried
    MaxMishaps,      \* bound on failing requests and closed tabs
    MaxEdits,       \* bound on changes of type
    SlowEdits       \* whether a sync loop may pass between the two transactions of an edit

ASSUME OffGridAssumption ==
    /\ SosPage \in Pages
    /\ MaxRetries \in Nat /\ MaxAlerts \in Nat \ {0}
    /\ MaxMishaps \in Nat /\ MaxEdits \in Nat
    /\ SlowEdits \in BOOLEAN

VARIABLES
    row, job,       \* the stores incidents and journal
    loop, again,    \* a page's sync loop; its timers of failed escalations
    wire, strays,   \* uploads awaited by a loop, and by nobody any more
    chip, abort,    \* tap handlers under way
    server,         \* incidents by client_incident_id
    told,           \* what the person has last been told
    died,           \* a tab has been closed
    mishaps, edits

device == <<row, job>>
taps == <<chip, abort>>
net == <<wire, strays>>
count == <<mishaps, edits>>
offGridVars == <<device, loop, again, net, taps, server, told, died, count>>

NoRow == [status |-> "NONE"]
NoJob == [status |-> "NONE"]
NotThere == [status |-> "NONE"]
LOCAL_ == "STORED_LOCALLY"
FAILED == "SYNC_RETRY_PENDING"
Unsent == {LOCAL_, FAILED}
StillOpen == {"CONFIRMED", "RESPONDING"}     \* RAJourney.sosActive, of what a sync can meet

Rows == [status : {LOCAL_, FAILED, "SYNCING", "SYNCED"}, type : Types, cancel : BOOLEAN, named : BOOLEAN]
Jobs == [status : {LOCAL_, FAILED, "SYNCING", "SYNCED"}, type : Types,
         retries : Nat, due : {"now", "later", "never"}]
Items == [em : Emergencies, type : Types]
IdleLoop == [pc |-> "idle", batch |-> {}, todo |-> {}, items |-> {}, em |-> {}, found |-> FALSE,
             sealed |-> <<>>, answer |-> <<>>]
IdleChip == [pc |-> "idle"]

OffGridTypeOK ==
    /\ row \in [Emergencies -> Rows \cup {NoRow}]
    /\ job \in [Emergencies -> Jobs \cup {NoJob}]
    /\ \A p \in Pages :
         /\ loop[p].pc \in {"idle", "due", "mark", "sent", "results", "patched", "look",
                            "cancel", "alert", "failing"}
         /\ loop[p].todo \subseteq loop[p].batch /\ loop[p].batch \subseteq Emergencies
         /\ loop[p].items \subseteq Items
    /\ again \in [Pages -> [Emergencies -> Nat]]
    /\ wire \in [Pages -> SUBSET Items] /\ strays \subseteq Items
    /\ \A e \in Emergencies :
         /\ chip[e].pc \in {"idle", "write"}
         /\ abort[e] \in {"idle", "discard", "refused", "cancel", "request"}
    /\ server \in [Emergencies -> [status : {"CONFIRMED", "RESPONDING", "CANCELLED"}, type : Types] \cup {NotThere}]
    /\ told \in [Emergencies -> {"nothing", "stored", "withdrawn", "promised", "late"}]
    /\ died \in BOOLEAN /\ mishaps \in Nat /\ edits \in Nat

OffGridInit ==
    /\ row = [e \in Emergencies |-> NoRow]
    /\ job = [e \in Emergencies |-> NoJob]
    /\ loop = [p \in Pages |-> IdleLoop]
    /\ again = [p \in Pages |-> [e \in Emergencies |-> 0]]
    /\ wire = [p \in Pages |-> {}] /\ strays = {}
    /\ chip = [e \in Emergencies |-> IdleChip]
    /\ abort = [e \in Emergencies |-> "idle"]
    /\ server = [e \in Emergencies |-> NotThere]
    /\ told = [e \in Emergencies |-> "nothing"]
    /\ died = FALSE /\ mishaps = 0 /\ edits = 0

Mishap == mishaps < MaxMishaps /\ mishaps' = mishaps + 1

-----------------------------------------------------------------------------
(* The sheet *)

\* createIncident: row and journal entry in one transaction, whatever was there.
Store(e, t) ==
    /\ row' = [row EXCEPT ![e] = [status |-> LOCAL_, type |-> t, cancel |-> FALSE, named |-> FALSE]]
    /\ job' = [job EXCEPT ![e] = [status |-> LOCAL_, type |-> t, retries |-> 0, due |-> "now"]]

Raise(e, t) ==
    /\ told[e] = "nothing"
    /\ Store(e, t)
    /\ told' = [told EXCEPT ![e] = "stored"]
    /\ UNCHANGED <<loop, again, net, taps, server, died, count>>

\* A person taps one thing at a time; the sync loop does not wait for them.
FreeHands(e) == chip[e] = IdleChip /\ abort[e] = "idle"

\* reviseIncident: reads the row, refuses one that is on the wire or sent, ...
ReviseRead(e, t) ==
    /\ FreeHands(e)
    /\ told[e] = "stored"
    /\ row[e].status \in Unsent
    /\ edits < MaxEdits
    /\ edits' = edits + 1
    /\ chip' = [chip EXCEPT ![e] = [pc |-> "write", type |-> t]]
    /\ UNCHANGED <<device, loop, again, net, abort, server, told, died, mishaps>>

\* ... and stores it anew in a transaction of its own.  The branch that renews a
\* pending false alarm is not taken: recording one closes the sheet and its chips.
ReviseWrite(e) ==
    /\ chip[e].pc = "write"
    /\ Store(e, chip[e].type)
    /\ chip' = [chip EXCEPT ![e] = IdleChip]
    /\ UNCHANGED <<loop, again, net, abort, server, told, died, count>>

SetCancel(e, flag) == IF row[e] = NoRow THEN row' = row
                                        ELSE row' = [row EXCEPT ![e].cancel = flag]

\* sos-abort: discardIncident reads the row and refuses one on the wire or sent.
AbortRead(e) ==
    /\ FreeHands(e)
    /\ told[e] = "stored"
    /\ abort' = [abort EXCEPT ![e] = IF row[e].status \in Unsent THEN "discard" ELSE "refused"]
    /\ UNCHANGED <<device, loop, again, net, chip, server, told, died, count>>

AbortDiscard(e) ==
    /\ abort[e] = "discard"
    /\ row' = [row EXCEPT ![e] = NoRow]
    /\ job' = [job EXCEPT ![e] = NoJob]
    /\ told' = [told EXCEPT ![e] = "withdrawn"]
    /\ abort' = [abort EXCEPT ![e] = "idle"]
    /\ UNCHANGED <<loop, again, net, chip, server, died, count>>

AbortLook(e) ==
    /\ abort[e] = "refused"
    /\ abort' = [abort EXCEPT ![e] = IF row[e] # NoRow /\ row[e].named THEN "cancel" ELSE "request"]
    /\ UNCHANGED <<device, loop, again, net, chip, server, told, died, count>>

\* POST /v1/sos/:id/cancel closes an open incident.
CancelOpen(e) == server' = [server EXCEPT ![e].status = IF @ \in StillOpen THEN "CANCELLED" ELSE @]

AbortCancel(e) ==
    /\ abort[e] = "cancel"
    /\ CancelOpen(e)
    /\ abort' = [abort EXCEPT ![e] = "idle"]
    /\ UNCHANGED <<device, loop, again, net, chip, told, died, count>>

AbortCancelFails(e) ==
    /\ abort[e] = "cancel"
    /\ Mishap
    /\ abort' = [abort EXCEPT ![e] = "idle"]
    /\ UNCHANGED <<device, loop, again, net, chip, server, told, died, edits>>

\* requestCancel; the toast says it will be cancelled, whether or not a sync has
\* named the incident since AbortLook ("late").
AbortRequest(e) ==
    /\ abort[e] = "request"
    /\ SetCancel(e, TRUE)
    /\ told' = [told EXCEPT ![e] = IF row[e] # NoRow /\ ~row[e].named THEN "promised" ELSE "late"]
    /\ abort' = [abort EXCEPT ![e] = "idle"]
    /\ UNCHANGED <<job, loop, again, net, chip, server, died, count>>

-----------------------------------------------------------------------------
(* syncOffGrid *)

LoopAt(p, pc) == loop[p].pc = pc
LoopTo(p, pc) == loop' = [loop EXCEPT ![p].pc = pc]

DueNow(e) == job[e] # NoJob /\ job[e].status # "SYNCED" /\ job[e].due = "now"

\* Boot, sign-in, a returning signal, a timer or "Sync now": ogSyncing is claimed.
Begin(p) ==
    /\ loop[p] = IdleLoop
    /\ \E e \in Emergencies : DueNow(e)
    /\ LoopTo(p, "due")
    /\ UNCHANGED <<device, again, net, taps, server, told, died, count>>

\* dueEntries; the payloads sent later are the ones sealed in these entries.
ReadDue(p) ==
    /\ LoopAt(p, "due")
    /\ LET due == {e \in Emergencies : DueNow(e)} IN
         loop' = [loop EXCEPT ![p] =
                    IF due = {} THEN IdleLoop
                    ELSE [IdleLoop EXCEPT !.pc = "mark", !.batch = due, !.todo = due,
                                          !.sealed = [e \in due |-> job[e].type]]]
    /\ UNCHANGED <<device, again, net, taps, server, told, died, count>>

\* No session and no refresh: every entry is failed without a request.
NotSignedIn(p) ==
    /\ LoopAt(p, "mark") /\ loop[p].todo = loop[p].batch
    /\ Mishap
    /\ LoopTo(p, "failing")
    /\ UNCHANGED <<device, again, net, taps, server, told, died, edits>>

\* markSyncing: entry and row; an entry withdrawn meanwhile is not sent.
MarkSyncing(p, e) ==
    /\ LoopAt(p, "mark") /\ e \in loop[p].todo
    /\ IF job[e] = NoJob
       THEN /\ loop' = [loop EXCEPT ![p].todo = @ \ {e}]
            /\ UNCHANGED device
       ELSE /\ loop' = [loop EXCEPT ![p].todo = @ \ {e},
                                    ![p].items = @ \cup {[em |-> e, type |-> loop[p].sealed[e]]}]
            /\ job' = [job EXCEPT ![e].status = "SYNCING"]
            /\ row' = IF row[e].status \in Unsent THEN [row EXCEPT ![e].status = "SYNCING"] ELSE row
    /\ UNCHANGED <<again, net, taps, server, told, died, count>>

Send(p) ==
    /\ LoopAt(p, "mark") /\ loop[p].todo = {}
    /\ IF loop[p].items = {}
       THEN loop' = [loop EXCEPT ![p] = IdleLoop] /\ UNCHANGED wire
       ELSE LoopTo(p, "sent") /\ wire' = [wire EXCEPT ![p] = loop[p].items]
    /\ UNCHANGED <<device, again, strays, taps, server, told, died, count>>

\* The intake: client_incident_id is unique, so a replay writes nothing.
Recorded(items) ==
    [e \in Emergencies |->
        IF server[e] = NotThere /\ \E i \in items : i.em = e
        THEN [status |-> "CONFIRMED", type |-> (CHOOSE i \in items : i.em = e).type]
        ELSE server[e]]

Arrive(p) ==
    /\ LoopAt(p, "sent")
    /\ server' = Recorded(wire[p])
    /\ LET sent == {i.em : i \in wire[p]} IN
         loop' = [loop EXCEPT ![p].pc = "results", ![p].todo = sent,
                    ![p].answer = [e \in sent |->
                        [kind |-> IF server[e] = NotThere THEN "created" ELSE "duplicate",
                         open |-> server'[e].status \in StillOpen]]]
    /\ wire' = [wire EXCEPT ![p] = {}]
    /\ UNCHANGED <<device, again, strays, taps, told, died, count>>

\* No answer: the whole batch is failed, and the request may still be on its way.
NoAnswer(p) ==
    /\ LoopAt(p, "sent")
    /\ Mishap
    /\ strays' = strays \cup wire[p]
    /\ wire' = [wire EXCEPT ![p] = {}]
    /\ loop' = [loop EXCEPT ![p].pc = "failing", ![p].todo = loop[p].batch]
    /\ UNCHANGED <<device, again, taps, server, told, died, edits>>

StrayArrives(i) ==
    /\ i \in strays
    /\ server' = Recorded({i})
    /\ strays' = strays \ {i}
    /\ UNCHANGED <<device, loop, again, wire, taps, told, died, count>>

StrayLost(i) ==
    /\ i \in strays
    /\ strays' = strays \ {i}
    /\ UNCHANGED <<device, loop, again, wire, taps, server, told, died, count>>

\* markSynced, first transaction: the entry is patched, and remembered if it was there.
Named(p, e) ==
    /\ LoopAt(p, "results") /\ e \in loop[p].todo
    /\ loop' = [loop EXCEPT ![p].pc = "patched", ![p].em = {e}, ![p].todo = @ \ {e},
                            ![p].found = job[e] # NoJob]
    /\ job' = IF job[e] = NoJob THEN job ELSE [job EXCEPT ![e].status = "SYNCED"]
    /\ UNCHANGED <<row, again, net, taps, server, told, died, count>>

Of(p, e) == loop[p].em = {e}

\* markSynced, second transaction: the entry goes, the row gets the server's id.
Synced(p, e) ==
    /\ LoopAt(p, "patched") /\ Of(p, e)
    /\ job' = [job EXCEPT ![e] = NoJob]
    /\ row' = IF loop[p].found /\ row[e] # NoRow
              THEN [row EXCEPT ![e].status = "SYNCED", ![e].named = TRUE] ELSE row
    /\ LoopTo(p, "look")
    /\ UNCHANGED <<again, net, taps, server, told, died, count>>

\* Variant: only an incident this upload created is escalated.
LookCreatedOnly(p, e) ==
    /\ LoopAt(p, "look") /\ Of(p, e)
    /\ LET stood == row[e] # NoRow /\ row[e].cancel
           answer == loop[p].answer[e] IN
         /\ LoopTo(p, IF stood THEN (IF answer.open THEN "cancel" ELSE "results")
                    ELSE IF answer.kind = "created" THEN "alert" ELSE "results")
         /\ IF stood /\ ~answer.open THEN SetCancel(e, FALSE) ELSE UNCHANGED row
    /\ UNCHANGED <<job, again, net, taps, server, told, died, count>>

\* The stored row is read again: a pending false alarm, or the escalation.
Look(p, e) ==
    /\ LoopAt(p, "look") /\ Of(p, e)
    /\ LET stood == row[e] # NoRow /\ row[e].cancel
           answer == loop[p].answer[e] IN
         /\ LoopTo(p, IF stood THEN (IF answer.open THEN "cancel" ELSE "results")
                    ELSE IF answer.kind = "created" \/ answer.open THEN "alert" ELSE "results")
         /\ IF stood /\ ~answer.open THEN SetCancel(e, FALSE) ELSE UNCHANGED row
    /\ UNCHANGED <<job, again, net, taps, server, told, died, count>>

SyncCancel(p, e) ==
    /\ LoopAt(p, "cancel") /\ Of(p, e)
    /\ CancelOpen(e)
    /\ IF server[e].status \in StillOpen THEN SetCancel(e, FALSE) ELSE UNCHANGED row
    /\ LoopTo(p, "results")
    /\ UNCHANGED <<job, again, net, taps, told, died, count>>

SyncCancelFails(p, e) ==
    /\ LoopAt(p, "cancel") /\ Of(p, e)
    /\ Mishap
    /\ LoopTo(p, "results")
    /\ UNCHANGED <<device, again, net, taps, server, told, died, edits>>

\* POST /v1/sos/:id/confirm: an open incident is escalated, a closed one refused (409).
Confirmed(e) == server' = [server EXCEPT ![e].status = IF @ = "CONFIRMED" THEN "RESPONDING" ELSE @]

Alert(p, e) ==
    /\ LoopAt(p, "alert") /\ Of(p, e)
    /\ Confirmed(e)
    /\ again' = [again EXCEPT ![p][e] = IF @ > MaxAlerts THEN 0 ELSE @]
    /\ LoopTo(p, "results")
    /\ UNCHANGED <<device, net, taps, told, died, count>>

AlertFails(p, e) ==
    /\ LoopAt(p, "alert") /\ Of(p, e)
    /\ Mishap
    /\ again' = [again EXCEPT ![p][e] = 1]
    /\ LoopTo(p, "results")
    /\ UNCHANGED <<device, net, taps, server, told, died, edits>>

\* The timer of a failed escalation, which only this page's memory knows of; past
\* MaxAlerts it is not set again.
AlertAgain(p, e) ==
    /\ again[p][e] \in 1..MaxAlerts
    /\ Confirmed(e)
    /\ again' = [again EXCEPT ![p][e] = 0]
    /\ UNCHANGED <<device, loop, net, taps, told, died, count>>

AlertAgainFails(p, e) ==
    /\ again[p][e] \in 1..MaxAlerts
    /\ Mishap
    /\ again' = [again EXCEPT ![p][e] = @ + 1]
    /\ UNCHANGED <<device, loop, net, taps, server, told, died, edits>>

\* Variant: an entry past the ceiling is dropped.
MarkFailedDrops(p, e) ==
    /\ LoopAt(p, "failing") /\ e \in loop[p].todo
    /\ loop' = [loop EXCEPT ![p].todo = @ \ {e}]
    /\ IF job[e] = NoJob THEN UNCHANGED device
       ELSE LET n == job[e].retries + 1 IN
            /\ job' = [job EXCEPT ![e] = IF n > MaxRetries THEN NoJob
                                         ELSE [@ EXCEPT !.status = FAILED, !.retries = n, !.due = "later"]]
            /\ row' = IF row[e] # NoRow /\ row[e].status # "SYNCED"
                      THEN [row EXCEPT ![e].status = FAILED] ELSE row
    /\ UNCHANGED <<again, net, taps, server, told, died, count>>

\* Variant: a failed upload clears the pending false alarm.
MarkFailedForgets(p, e) ==
    /\ LoopAt(p, "failing") /\ e \in loop[p].todo
    /\ loop' = [loop EXCEPT ![p].todo = @ \ {e}]
    /\ IF job[e] = NoJob THEN UNCHANGED device
       ELSE /\ job' = [job EXCEPT ![e].status = FAILED, ![e].retries = @ + 1, ![e].due = "later"]
            /\ row' = IF row[e] # NoRow /\ row[e].status # "SYNCED"
                      THEN [row EXCEPT ![e].status = FAILED, ![e].cancel = FALSE] ELSE row
    /\ UNCHANGED <<again, net, taps, server, told, died, count>>

\* markFailed: the entry goes back on the schedule, past the ceiling for ever.
MarkFailed(p, e) ==
    /\ LoopAt(p, "failing") /\ e \in loop[p].todo
    /\ loop' = [loop EXCEPT ![p].todo = @ \ {e}]
    /\ IF job[e] = NoJob THEN UNCHANGED device
       ELSE LET n == job[e].retries + 1 IN
            /\ job' = [job EXCEPT ![e].status = FAILED, ![e].retries = n,
                                  ![e].due = IF n > MaxRetries THEN "never" ELSE "later"]
            /\ row' = IF row[e] # NoRow /\ row[e].status # "SYNCED"
                      THEN [row EXCEPT ![e].status = FAILED] ELSE row
    /\ UNCHANGED <<again, net, taps, server, told, died, count>>

\* No tap and no other loop is busy with the emergency.
AtRest(e, p) == FreeHands(e) /\ \A q \in Pages \ {p} : e \notin loop[q].batch

\* The loop ends: the flag is released and purge drops synced rows past retention,
\* a day, which outlasts every handler under way.
EndLoop(p) ==
    /\ loop[p].pc \in {"results", "failing"} /\ loop[p].todo = {}
    /\ \E old \in SUBSET {e \in Emergencies : row[e].status = "SYNCED" /\ AtRest(e, p)} :
         row' = [e \in Emergencies |-> IF e \in old THEN NoRow ELSE row[e]]
    /\ loop' = [loop EXCEPT ![p] = IdleLoop]
    /\ UNCHANGED <<job, again, net, taps, server, told, died, count>>

-----------------------------------------------------------------------------
(* Time, and closed tabs *)

Elapse(e) ==
    /\ job[e] # NoJob /\ job[e].due = "later"
    /\ job' = [job EXCEPT ![e].due = "now"]
    /\ UNCHANGED <<row, loop, again, net, taps, server, told, died, count>>

\* A tab is closed or reloaded: its handlers and timers are gone, the store and
\* what it has sent are not.
Close(p) ==
    /\ Mishap
    /\ died' = TRUE
    /\ loop' = [loop EXCEPT ![p] = IdleLoop]
    /\ again' = [again EXCEPT ![p] = [e \in Emergencies |-> 0]]
    /\ strays' = strays \cup wire[p]
    /\ wire' = [wire EXCEPT ![p] = {}]
    /\ IF p = SosPage
       THEN /\ chip' = [e \in Emergencies |-> IdleChip]
            /\ abort' = [e \in Emergencies |-> "idle"]
       ELSE UNCHANGED taps
    /\ UNCHANGED <<device, server, told, edits>>

Sheet(e) ==
    \/ \E t \in Types : Raise(e, t) \/ ReviseRead(e, t)
    \/ ReviseWrite(e)
    \/ AbortRead(e) \/ AbortDiscard(e) \/ AbortLook(e)
    \/ AbortCancel(e) \/ AbortCancelFails(e) \/ AbortRequest(e)

\* The steps of a loop that need no fault.
Sync(p) ==
    \/ ReadDue(p) \/ Send(p) \/ Arrive(p) \/ EndLoop(p)
    \/ \E e \in Emergencies :
         \/ MarkSyncing(p, e) \/ Named(p, e) \/ Synced(p, e) \/ Look(p, e)
         \/ SyncCancel(p, e) \/ Alert(p, e) \/ MarkFailed(p, e)

SyncFails(p) ==
    \/ NotSignedIn(p) \/ NoAnswer(p)
    \/ \E e \in Emergencies : SyncCancelFails(p, e) \/ AlertFails(p, e) \/ AlertAgainFails(p, e)

\* An edit is on its way from one transaction to the next.
Editing == \E e \in Emergencies : chip[e] # IdleChip
Undisturbed == SlowEdits \/ ~Editing

OffGridNext ==
    \/ \E e \in Emergencies : Sheet(e) \/ Elapse(e)
    \/ Undisturbed /\ \E p \in Pages : Begin(p) \/ Sync(p) \/ SyncFails(p)
    \/ \E p \in Pages : Close(p)
    \/ \E p \in Pages, e \in Emergencies : AlertAgain(p, e)
    \/ \E i \in strays : StrayArrives(i) \/ StrayLost(i)

OffGridSpec == OffGridInit /\ [][OffGridNext]_offGridVars

\* A loop that has begun runs on, timers fire, and the link fails only finitely
\* often (MaxMishaps).  Nobody is assumed to tap; a handler that has begun runs on.
OffGridFairness ==
    /\ \A p \in Pages : WF_offGridVars(Begin(p)) /\ WF_offGridVars(Sync(p))
    /\ \A p \in Pages, e \in Emergencies : WF_offGridVars(AlertAgain(p, e))
    /\ \A e \in Emergencies :
         /\ WF_offGridVars(Elapse(e))
         /\ WF_offGridVars(ReviseWrite(e))
         /\ WF_offGridVars(AbortDiscard(e) \/ AbortLook(e) \/ AbortCancel(e) \/ AbortRequest(e))

OffGridFairSpec == OffGridSpec /\ OffGridFairness

-----------------------------------------------------------------------------
(* Properties *)

\* An emergency that was stored and not withdrawn has an entry that will carry it,
\* or the server has it: createIncident and markSynced leave no gap between the
\* two, whatever tabs, taps, lost answers and closed tabs do (offline-store.js:
\* "an incident stored without its journal entry would sit on the device forever").
NothingLost ==
    \A e \in Emergencies :
        told[e] \notin {"nothing", "withdrawn"} => job[e] # NoJob \/ server[e] # NotThere

\* A false alarm stored before the server had named the incident is never escalated
\* by the device: requestCancel survives failed uploads, closed tabs, edits and a
\* second tab's loop (app.html: "a sync that fails and a reload in between must not
\* turn this false alarm into an alert").
StandDownKept ==
    \A e \in Emergencies : told[e] = "promised" => server[e].status # "RESPONDING"

\* Both of the above: what the sheet told the person stays true.
DeviceKeepsItsWord == NothingLost /\ StandDownKept

\* Past the ceiling an entry stays on the device and nothing sends it any more, not
\* even "Sync now", which asks for the entries that are due.
GivenUp(e) == job[e] # NoJob /\ job[e].due = "never"

\* A stored emergency reaches the server unless its owner withdrew it or the attempts
\* ran out, though tabs are closed on the way and answers are lost: no other status an
\* entry may be left in keeps dueEntries from finding it again.
EventuallyRecorded ==
    \A e \in Emergencies :
        told[e] = "stored" ~> (server[e] # NotThere \/ told[e] = "withdrawn" \/ GivenUp(e))

\* And it is escalated, or its owner stood it down, though uploads, their answers
\* and confirms fail.  A closed tab excuses it: a pending escalation is kept in the
\* memory of the tab alone, and its entry is gone; so does a tab that has run out of
\* attempts.
AlertGivenUp(e) == died \/ \E p \in Pages : again[p][e] > MaxAlerts

EventuallyAlerted ==
    \A e \in Emergencies :
        told[e] = "stored" ~> (server[e].status = "RESPONDING" \/ told[e] # "stored"
                               \/ server[e].status = "CANCELLED" \/ GivenUp(e) \/ AlertGivenUp(e))

\* A stored emergency is dealt with in the end.
EventuallyDealtWith == EventuallyRecorded /\ EventuallyAlerted
=============================================================================
