---------------------------- MODULE OffGridProofs ----------------------------
(***************************************************************************)
(* Theorems about OffGrid, for every number of emergencies, tabs, faults   *)
(* and edits.  What an emergency is worth is spread over the device's two  *)
(* stores, the tabs' loops and the server, so neither promise is inductive *)
(* alone: nothing is lost because an entry goes only once the server has   *)
(* its emergency (OnServer), and a false alarm stands because nothing is   *)
(* escalated that the device has not named first (NamedFirst).             *)
(***************************************************************************)
EXTENDS OffGrid, TLAPS

-----------------------------------------------------------------------------
(* Types *)

\* A loop is a record of these fields.
Fields == {"pc", "batch", "todo", "items", "em", "found", "sealed", "answer"}
LoopRecord(l) == l = [f \in Fields |-> l[f]]

Places == {"idle", "due", "mark", "sent", "results", "patched", "look", "cancel", "alert", "failing"}

\* What a loop has in hand comes from the batch it has read.
LoopTyped(l) ==
    /\ LoopRecord(l)
    /\ l.pc \in Places
    /\ l.batch \subseteq Emergencies /\ l.todo \subseteq l.batch /\ l.em \subseteq l.batch
    /\ l.items \subseteq Items /\ (\A i \in l.items : i.em \in l.batch)
    /\ l.found \in BOOLEAN
    /\ l.pc = "mark" => l.sealed \in [l.batch -> Types]

StoresTyped ==
    /\ row \in [Emergencies -> Rows \cup {NoRow}]
    /\ job \in [Emergencies -> Jobs \cup {NoJob}]

LoopsTyped ==
    /\ loop = [p \in Pages |-> loop[p]]
    /\ \A p \in Pages : /\ LoopTyped(loop[p])
                        /\ \A i \in wire[p] : i.em \in loop[p].batch
                        /\ loop[p].pc # "sent" => wire[p] = {}

Incident == [status : {"CONFIRMED", "RESPONDING", "CANCELLED"}, type : Types]
Taps == {"idle", "discard", "refused", "cancel", "request"}
Words == {"nothing", "stored", "withdrawn", "promised", "late"}

Typed ==
    /\ StoresTyped
    /\ LoopsTyped
    /\ again \in [Pages -> [Emergencies -> Nat]]
    /\ wire \in [Pages -> SUBSET Items] /\ strays \subseteq Items
    /\ chip \in [Emergencies -> {IdleChip} \cup [pc : {"write"}, type : Types]]
    /\ abort \in [Emergencies -> Taps]
    /\ server \in [Emergencies -> Incident \cup {NotThere}]
    /\ told \in [Emergencies -> Words]
    /\ died \in BOOLEAN /\ mishaps \in Nat /\ edits \in Nat

-----------------------------------------------------------------------------
(* What holds of every emergency *)

\* Nothing is known of an emergency that nobody has raised.
Fresh(e) ==
    /\ row[e] = NoRow /\ job[e] = NoJob /\ server[e] = NotThere
    /\ FreeHands(e)
    /\ \A p \in Pages : again[p][e] = 0 /\ e \notin loop[p].batch
    /\ \A i \in strays : i.em # e
FreshKept == \A e \in Emergencies : told[e] = "nothing" => Fresh(e)

\* Who taps has been told "stored", and taps one thing at a time.
HandsKept ==
    \A e \in Emergencies :
        /\ abort[e] # "idle" => told[e] = "stored" /\ chip[e] = IdleChip
        /\ chip[e] # IdleChip => told[e] = "stored"

\* What a loop handles the results of is on the server, and an answer that says
\* "closed" stays true.
Answered(p, e) ==
    /\ server[e] # NotThere
    /\ loop[p].answer[e].open \/ server[e].status = "CANCELLED"
Handling == {"patched", "look", "cancel", "alert"}
OnServer ==
    \A p \in Pages :
        /\ loop[p].pc \in Handling \cup {"results"} => \A e \in loop[p].todo : Answered(p, e)
        /\ loop[p].pc \in Handling => \A e \in loop[p].em : Answered(p, e)

\* While an edit is on its way its row is neither sent nor on the wire.
EditsUnsent == \A e \in Emergencies : chip[e] # IdleChip => row[e].status \in Unsent

\* A row is marked sent as it is named, and its entry goes with that.
NamedOrGone(e) == row[e] # NoRow => row[e].named
RowsKept ==
    \A e \in Emergencies :
        /\ row[e] # NoRow /\ row[e].named => row[e].status = "SYNCED"
        /\ row[e].status = "SYNCED" => job[e] = NoJob
        /\ job[e] = NoJob => NamedOrGone(e)

\* Nothing is escalated, or about to be, that the device has not named.
NamedFirst ==
    \A e \in Emergencies :
        /\ server[e].status = "RESPONDING" => NamedOrGone(e)
        /\ \A p \in Pages :
             /\ again[p][e] # 0 => NamedOrGone(e)
             /\ loop[p].em = {e} =>
                  /\ loop[p].pc \in {"look", "cancel", "alert"} => NamedOrGone(e)
                  /\ loop[p].pc = "patched" /\ ~loop[p].found => NamedOrGone(e)

\* A false alarm that was promised is carried out, or is still in the row that every
\* loop reads before it escalates, or there is nothing left to escalate from.
Withdrawing(e) ==
    \/ server[e].status = "CANCELLED"
    \/ /\ server[e].status # "RESPONDING"
       /\ \A p \in Pages : again[p][e] = 0 /\ ~(loop[p].pc = "alert" /\ loop[p].em = {e})
       /\ \/ row[e] # NoRow /\ row[e].cancel
          \/ row[e] = NoRow /\ job[e] = NoJob /\ \A p \in Pages : e \notin loop[p].batch
PromisesKept == \A e \in Emergencies : told[e] = "promised" => Withdrawing(e)

-----------------------------------------------------------------------------
(* The loops: what each way of writing one leaves in its fields *)

OnlyLoop(p) ==
    /\ loop' = [q \in Pages |-> loop'[q]]
    /\ \A q \in Pages \ {p} : loop'[q] = loop[q]
    /\ LoopRecord(loop'[p])

\* What is left of a loop by a step that does not read its batch anew.
Written(p, pc, todo, items, em, found, answer) ==
    /\ OnlyLoop(p)
    /\ loop'[p].pc = pc /\ loop'[p].todo = todo /\ loop'[p].items = items
    /\ loop'[p].em = em /\ loop'[p].found = found /\ loop'[p].answer = answer
    /\ loop'[p].batch = loop[p].batch /\ loop'[p].sealed = loop[p].sealed

LEMMA LoopMoves ==
    ASSUME Typed, NEW p \in Pages
    PROVE  LET l == loop[p] IN
           /\ \A x : LoopTo(p, x) => Written(p, x, l.todo, l.items, l.em, l.found, l.answer)
           /\ \A e : loop' = [loop EXCEPT ![p].todo = @ \ {e}]
                => Written(p, l.pc, l.todo \ {e}, l.items, l.em, l.found, l.answer)
           /\ \A e, i : loop' = [loop EXCEPT ![p].todo = @ \ {e}, ![p].items = @ \cup {i}]
                => Written(p, l.pc, l.todo \ {e}, l.items \cup {i}, l.em, l.found, l.answer)
           /\ \A x, t : loop' = [loop EXCEPT ![p].pc = x, ![p].todo = t]
                => Written(p, x, t, l.items, l.em, l.found, l.answer)
           /\ \A x, t, a : loop' = [loop EXCEPT ![p].pc = x, ![p].todo = t, ![p].answer = a]
                => Written(p, x, t, l.items, l.em, l.found, a)
           /\ \A x, m, e, f :
                loop' = [loop EXCEPT ![p].pc = x, ![p].em = m, ![p].todo = @ \ {e}, ![p].found = f]
                => Written(p, x, l.todo \ {e}, l.items, m, f, l.answer)
<1>1. LoopRecord(loop[p]) /\ loop = [q \in Pages |-> loop[q]]
  BY DEF Typed, LoopsTyped, LoopTyped
<1>2. ASSUME NEW x, LoopTo(p, x)
      PROVE  LET l == loop[p] IN Written(p, x, l.todo, l.items, l.em, l.found, l.answer)
  BY <1>1, <1>2 DEF LoopTo, Written, OnlyLoop, LoopRecord, Fields
<1>3. ASSUME NEW e, loop' = [loop EXCEPT ![p].todo = @ \ {e}]
      PROVE  LET l == loop[p] IN Written(p, l.pc, l.todo \ {e}, l.items, l.em, l.found, l.answer)
  BY <1>1, <1>3 DEF Written, OnlyLoop, LoopRecord, Fields
<1>4. ASSUME NEW e, NEW i, loop' = [loop EXCEPT ![p].todo = @ \ {e}, ![p].items = @ \cup {i}]
      PROVE  LET l == loop[p] IN
             Written(p, l.pc, l.todo \ {e}, l.items \cup {i}, l.em, l.found, l.answer)
  BY <1>1, <1>4 DEF Written, OnlyLoop, LoopRecord, Fields
<1>5. ASSUME NEW x, NEW t, loop' = [loop EXCEPT ![p].pc = x, ![p].todo = t]
      PROVE  LET l == loop[p] IN Written(p, x, t, l.items, l.em, l.found, l.answer)
  BY <1>1, <1>5 DEF Written, OnlyLoop, LoopRecord, Fields
<1>6. ASSUME NEW x, NEW t, NEW a, loop' = [loop EXCEPT ![p].pc = x, ![p].todo = t, ![p].answer = a]
      PROVE  LET l == loop[p] IN Written(p, x, t, l.items, l.em, l.found, a)
  BY <1>1, <1>6 DEF Written, OnlyLoop, LoopRecord, Fields
<1>7. ASSUME NEW x, NEW m, NEW e, NEW f,
             loop' = [loop EXCEPT ![p].pc = x, ![p].em = m, ![p].todo = @ \ {e}, ![p].found = f]
      PROVE  LET l == loop[p] IN Written(p, x, l.todo \ {e}, l.items, m, f, l.answer)
  BY <1>1, <1>7 DEF Written, OnlyLoop, LoopRecord, Fields
<1> QED BY <1>2, <1>3, <1>4, <1>5, <1>6, <1>7

\* A loop that ends, and one that has read what is due.
LEMMA LoopEnds ==
    ASSUME Typed, NEW p \in Pages, loop' = [loop EXCEPT ![p] = IdleLoop]
    PROVE  OnlyLoop(p) /\ loop'[p] = IdleLoop
<1>1. LoopRecord(IdleLoop)
  BY DEF IdleLoop, LoopRecord, Fields
<1> QED BY <1>1 DEF Typed, LoopsTyped, OnlyLoop

LEMMA LoopBegins ==
    ASSUME Typed, NEW p \in Pages, NEW due, NEW sealed,
           loop' = [loop EXCEPT ![p] = [IdleLoop EXCEPT !.pc = "mark", !.batch = due, !.todo = due,
                                                        !.sealed = sealed]]
    PROVE  /\ OnlyLoop(p)
           /\ loop'[p].pc = "mark" /\ loop'[p].batch = due /\ loop'[p].todo = due
           /\ loop'[p].sealed = sealed /\ loop'[p].items = {} /\ loop'[p].em = {}
           /\ loop'[p].found = FALSE
<1> DEFINE l == [IdleLoop EXCEPT !.pc = "mark", !.batch = due, !.todo = due, !.sealed = sealed]
<1>1. LoopRecord(l) /\ loop'[p] = l
  BY DEF IdleLoop, LoopRecord, Fields, Typed, LoopsTyped
<1>2. /\ l.pc = "mark" /\ l.batch = due /\ l.todo = due /\ l.sealed = sealed
      /\ l.items = {} /\ l.em = {} /\ l.found = FALSE
  BY DEF IdleLoop
<1>3. loop' = [q \in Pages |-> loop'[q]] /\ \A q \in Pages \ {p} : loop'[q] = loop[q]
  BY DEF Typed, LoopsTyped
<1> QED BY <1>1, <1>2, <1>3 DEF OnlyLoop

-----------------------------------------------------------------------------
(* Types are kept *)

LEMMA TypedIsTypeOK == ASSUME Typed PROVE OffGridTypeOK
<1>1. ASSUME NEW e \in Emergencies PROVE chip[e].pc \in {"idle", "write"}
  BY DEF Typed, IdleChip
<1> QED BY <1>1 DEF Typed, StoresTyped, LoopsTyped, LoopTyped, Places, OffGridTypeOK, Incident, Taps, Words

LEMMA TypedInit == OffGridInit => Typed
<1> SUFFICES ASSUME OffGridInit PROVE Typed
  OBVIOUS
<1>1. LoopTyped(IdleLoop)
  BY DEF LoopTyped, LoopRecord, Fields, IdleLoop, Places
<1>2. LoopsTyped
  BY <1>1 DEF OffGridInit, LoopsTyped, IdleLoop
<1> QED BY <1>2 DEF OffGridInit, Typed, StoresTyped, Taps, Words

\* A step that writes one loop, and at most that page's wire.
LEMMA LoopsStay ==
    ASSUME Typed, NEW p \in Pages, OnlyLoop(p), LoopTyped(loop'[p]),
           \A q \in Pages \ {p} : wire'[q] = wire[q],
           \A i \in wire'[p] : i.em \in loop'[p].batch,
           loop'[p].pc # "sent" => wire'[p] = {}
    PROVE  LoopsTyped'
  BY DEF Typed, LoopsTyped, OnlyLoop

\* The stores.
LEMMA Stored ==
    ASSUME Typed, NEW e \in Emergencies, NEW t \in Types, Store(e, t)
    PROVE  StoresTyped'
<1>1. [status |-> LOCAL_, type |-> t, cancel |-> FALSE, named |-> FALSE] \in Rows
  BY DEF Rows, LOCAL_
<1>2. [status |-> LOCAL_, type |-> t, retries |-> 0, due |-> "now"] \in Jobs
  BY DEF Jobs, LOCAL_
<1> QED BY <1>1, <1>2 DEF Typed, StoresTyped, Store

LEMMA RowFields ==
    ASSUME Typed, NEW e \in Emergencies
    PROVE  /\ row[e].status = "NONE" <=> row[e] = NoRow
           /\ job[e].status = "NONE" <=> job[e] = NoJob
           /\ row[e] # NoRow => row[e] \in Rows
           /\ job[e] # NoJob => job[e] \in Jobs
           /\ row[e].status \in Unsent => row[e] \in Rows
           /\ row[e].status = "SYNCED" => row[e] \in Rows
  BY DEF Typed, StoresTyped, Rows, Jobs, NoRow, NoJob, Unsent, LOCAL_, FAILED

LEMMA RowMoves ==
    ASSUME Typed, NEW e \in Emergencies
    PROVE  /\ \A s \in {LOCAL_, FAILED, "SYNCING", "SYNCED"} :
                row[e] # NoRow /\ row' = [row EXCEPT ![e].status = s]
                  => row' \in [Emergencies -> Rows \cup {NoRow}]
           /\ row[e] # NoRow /\ row' = [row EXCEPT ![e].status = "SYNCED", ![e].named = TRUE]
                  => row' \in [Emergencies -> Rows \cup {NoRow}]
           /\ \A f \in BOOLEAN : SetCancel(e, f) => row' \in [Emergencies -> Rows \cup {NoRow}]
           /\ row' = [row EXCEPT ![e] = NoRow] => row' \in [Emergencies -> Rows \cup {NoRow}]
<1>1. ASSUME NEW s \in {LOCAL_, FAILED, "SYNCING", "SYNCED"}, row[e] # NoRow,
             row' = [row EXCEPT ![e].status = s]
      PROVE  row' \in [Emergencies -> Rows \cup {NoRow}]
  BY <1>1, RowFields DEF Typed, StoresTyped, Rows
<1>2. ASSUME row[e] # NoRow, row' = [row EXCEPT ![e].status = "SYNCED", ![e].named = TRUE]
      PROVE  row' \in [Emergencies -> Rows \cup {NoRow}]
  BY <1>2, RowFields DEF Typed, StoresTyped, Rows
<1>3. ASSUME NEW f \in BOOLEAN, SetCancel(e, f)
      PROVE  row' \in [Emergencies -> Rows \cup {NoRow}]
  <2>1. CASE row[e] = NoRow
    BY <1>3, <2>1 DEF SetCancel, Typed, StoresTyped
  <2>2. CASE row[e] # NoRow
    <3>1. row[e] \in Rows /\ row' = [row EXCEPT ![e] = [row[e] EXCEPT !.cancel = f]]
      BY <1>3, <2>2, RowFields DEF SetCancel, Typed, StoresTyped
    <3>2. [row[e] EXCEPT !.cancel = f] \in Rows
      BY <3>1 DEF Rows
    <3> QED BY <3>1, <3>2 DEF Typed, StoresTyped
  <2> QED BY <2>1, <2>2
<1>4. ASSUME row' = [row EXCEPT ![e] = NoRow]
      PROVE  row' \in [Emergencies -> Rows \cup {NoRow}]
  BY <1>4, RowFields DEF Typed, StoresTyped, Rows
<1> QED BY <1>1, <1>2, <1>3, <1>4

LEMMA JobMoves ==
    ASSUME Typed, NEW e \in Emergencies
    PROVE  /\ \A s \in {"SYNCING", "SYNCED"} :
                job[e] # NoJob /\ job' = [job EXCEPT ![e].status = s]
                  => job' \in [Emergencies -> Jobs \cup {NoJob}]
           /\ \A d \in {"now", "later", "never"} :
                job[e] # NoJob /\ job' = [job EXCEPT ![e].due = d]
                  => job' \in [Emergencies -> Jobs \cup {NoJob}]
           /\ \A n \in Nat, d \in {"now", "later", "never"} :
                job[e] # NoJob /\ job' = [job EXCEPT ![e].status = FAILED, ![e].retries = n, ![e].due = d]
                  => job' \in [Emergencies -> Jobs \cup {NoJob}]
           /\ job' = [job EXCEPT ![e] = NoJob] => job' \in [Emergencies -> Jobs \cup {NoJob}]
<1>1. ASSUME NEW s \in {"SYNCING", "SYNCED"}, job[e] # NoJob, job' = [job EXCEPT ![e].status = s]
      PROVE  job' \in [Emergencies -> Jobs \cup {NoJob}]
  BY <1>1, RowFields DEF Typed, StoresTyped, Jobs, FAILED
<1>2. ASSUME NEW d \in {"now", "later", "never"}, job[e] # NoJob, job' = [job EXCEPT ![e].due = d]
      PROVE  job' \in [Emergencies -> Jobs \cup {NoJob}]
  BY <1>2, RowFields DEF Typed, StoresTyped, Jobs, FAILED
<1>3. ASSUME NEW n \in Nat, NEW d \in {"now", "later", "never"}, job[e] # NoJob,
             job' = [job EXCEPT ![e].status = FAILED, ![e].retries = n, ![e].due = d]
      PROVE  job' \in [Emergencies -> Jobs \cup {NoJob}]
  <2>1. job[e] \in Jobs
    BY <1>3, RowFields
  <2>2. job' = [job EXCEPT ![e] = [job[e] EXCEPT !.status = FAILED, !.retries = n, !.due = d]]
    BY <1>3, <2>1 DEF Typed, StoresTyped, Jobs
  <2>3. [job[e] EXCEPT !.status = FAILED, !.retries = n, !.due = d] \in Jobs
    BY <2>1 DEF Jobs, FAILED
  <2> QED BY <2>2, <2>3 DEF Typed, StoresTyped
<1>4. ASSUME job' = [job EXCEPT ![e] = NoJob]
      PROVE  job' \in [Emergencies -> Jobs \cup {NoJob}]
  BY <1>4, RowFields DEF Typed, StoresTyped, Jobs, FAILED
<1> QED BY <1>1, <1>2, <1>3, <1>4

LEMMA ServerMoves ==
    ASSUME Typed
    PROVE  /\ \A e \in Emergencies : CancelOpen(e) => server' \in [Emergencies -> Incident \cup {NotThere}]
           /\ \A e \in Emergencies : Confirmed(e) => server' \in [Emergencies -> Incident \cup {NotThere}]
           /\ \A items \in SUBSET Items :
                server' = Recorded(items) => server' \in [Emergencies -> Incident \cup {NotThere}]
<1>1. ASSUME NEW e \in Emergencies PROVE CancelOpen(e) => server' \in [Emergencies -> Incident \cup {NotThere}]
  BY DEF Typed, CancelOpen, Incident, NotThere, StillOpen
<1>2. ASSUME NEW e \in Emergencies PROVE Confirmed(e) => server' \in [Emergencies -> Incident \cup {NotThere}]
  BY DEF Typed, Confirmed, Incident, NotThere
<1>3. ASSUME NEW items \in SUBSET Items, server' = Recorded(items)
      PROVE  server' \in [Emergencies -> Incident \cup {NotThere}]
  <2>1. ASSUME NEW e \in Emergencies, \E i \in items : i.em = e
        PROVE  (CHOOSE i \in items : i.em = e) \in items
    BY <2>1
  <2>2. \A i \in items : i.type \in Types
    BY DEF Items
  <2>3. ASSUME NEW e \in Emergencies
        PROVE  Recorded(items)[e] \in Incident \cup {NotThere}
    BY <2>1, <2>2 DEF Typed, Recorded, Incident
  <2> QED BY <1>3, <2>3 DEF Recorded
<1> QED BY <1>1, <1>2, <1>3

LEMMA LoopGoesOn ==
    ASSUME Typed, NEW p \in Pages, NEW x \in Places \ {"mark"}, LoopTo(p, x),
           \A q \in Pages \ {p} : wire'[q] = wire[q],
           wire'[p] \in {wire[p], loop[p].items},
           x # "sent" => wire'[p] = {}
    PROVE  LoopsTyped'
<1>1. LoopTyped(loop[p]) /\ \A i \in wire[p] : i.em \in loop[p].batch
  BY DEF Typed, LoopsTyped
<1>2. LET l == loop[p] IN Written(p, x, l.todo, l.items, l.em, l.found, l.answer)
  BY LoopMoves
<1>3. OnlyLoop(p) /\ LoopTyped(loop'[p])
  BY <1>1, <1>2 DEF Written, OnlyLoop, LoopTyped
<1>4. \A i \in wire'[p] : i.em \in loop'[p].batch
  BY <1>1, <1>2 DEF Written, LoopTyped
<1>5. loop'[p].pc # "sent" => wire'[p] = {}
  BY <1>2 DEF Written
<1> QED BY <1>3, <1>4, <1>5, LoopsStay

LEMMA LoopRests ==
    ASSUME Typed, NEW p \in Pages, loop' = [loop EXCEPT ![p] = IdleLoop],
           \A q \in Pages \ {p} : wire'[q] = wire[q],
           wire'[p] = {}
    PROVE  LoopsTyped'
<1>1. OnlyLoop(p) /\ loop'[p] = IdleLoop
  BY LoopEnds
<1>2. LoopTyped(IdleLoop)
  BY DEF LoopTyped, LoopRecord, Fields, IdleLoop, Places
<1> QED BY <1>1, <1>2, LoopsStay

\* A loop that has one entry less to do, and goes to x.
LEMMA LoopTakes ==
    ASSUME Typed, NEW p \in Pages, NEW e \in loop[p].todo, UNCHANGED wire, loop[p].pc # "sent",
           \/ loop' = [loop EXCEPT ![p].todo = @ \ {e}]
           \/ /\ loop[p].pc = "mark"
              /\ loop' = [loop EXCEPT ![p].todo = @ \ {e},
                                      ![p].items = @ \cup {[em |-> e, type |-> loop[p].sealed[e]]}]
           \/ \E f \in BOOLEAN :
                loop' = [loop EXCEPT ![p].pc = "patched", ![p].em = {e}, ![p].todo = @ \ {e}, ![p].found = f]
    PROVE  LoopsTyped'
<1>1. LoopTyped(loop[p]) /\ wire[p] = {}
  BY DEF Typed, LoopsTyped
<1>2. e \in Emergencies /\ e \in loop[p].batch
  BY <1>1 DEF LoopTyped
<1>3. CASE loop' = [loop EXCEPT ![p].todo = @ \ {e}]
  <2>1. LET l == loop[p] IN Written(p, l.pc, l.todo \ {e}, l.items, l.em, l.found, l.answer)
    BY <1>3, LoopMoves
  <2>2. OnlyLoop(p) /\ LoopTyped(loop'[p]) /\ loop'[p].pc = loop[p].pc
    BY <1>1, <2>1 DEF Written, OnlyLoop, LoopTyped
  <2> QED BY <1>1, <2>2, LoopsStay
<1>4. CASE /\ loop[p].pc = "mark"
           /\ loop' = [loop EXCEPT ![p].todo = @ \ {e},
                                   ![p].items = @ \cup {[em |-> e, type |-> loop[p].sealed[e]]}]
  <2>1. PICK i : i = [em |-> e, type |-> loop[p].sealed[e]]
    OBVIOUS
  <2>2. i \in Items /\ i.em = e
    <3>1. loop[p].sealed[e] \in Types
      BY <1>1, <1>2, <1>4 DEF LoopTyped
    <3> QED BY <1>2, <2>1, <3>1 DEF Items
  <2>3. LET l == loop[p] IN Written(p, l.pc, l.todo \ {e}, l.items \cup {i}, l.em, l.found, l.answer)
    BY <1>4, <2>1, LoopMoves
  <2>4. OnlyLoop(p) /\ LoopTyped(loop'[p]) /\ loop'[p].pc = loop[p].pc
    BY <1>1, <1>2, <2>2, <2>3 DEF Written, OnlyLoop, LoopTyped
  <2> QED BY <1>1, <2>4, LoopsStay
<1>5. ASSUME NEW f \in BOOLEAN,
             loop' = [loop EXCEPT ![p].pc = "patched", ![p].em = {e}, ![p].todo = @ \ {e}, ![p].found = f]
      PROVE  LoopsTyped'
  <2>1. LET l == loop[p] IN Written(p, "patched", l.todo \ {e}, l.items, {e}, f, l.answer)
    BY <1>5, LoopMoves
  <2>2. OnlyLoop(p) /\ LoopTyped(loop'[p]) /\ loop'[p].pc = "patched"
    BY <1>1, <1>2, <2>1 DEF Written, OnlyLoop, LoopTyped, Places
  <2> QED BY <1>1, <2>2, LoopsStay
<1> QED BY <1>3, <1>4, <1>5

LEMMA ReadDueTyped ==
    ASSUME Typed, NEW p \in Pages, ReadDue(p)
    PROVE  LoopsTyped'
<1> DEFINE due == {e \in Emergencies : DueNow(e)}
<1>1. LoopTyped(loop[p]) /\ wire[p] = {} /\ wire' = wire
  BY DEF Typed, LoopsTyped, ReadDue, LoopAt, net
<1>2. CASE due = {}
  <2>1. loop' = [loop EXCEPT ![p] = IdleLoop]
    BY <1>2 DEF ReadDue
  <2> QED BY <2>1, <1>1, LoopRests
<1>3. CASE due # {}
  <2>1. PICK sealed : sealed = [e \in due |-> job[e].type]
    OBVIOUS
  <2>2. sealed \in [due -> Types]
    BY <2>1, RowFields DEF DueNow, Jobs
  <2>3. PICK d : d = due
    OBVIOUS
  <2>4. loop' = [loop EXCEPT ![p] = [IdleLoop EXCEPT !.pc = "mark", !.batch = d, !.todo = d,
                                                     !.sealed = sealed]]
    BY <1>3, <2>1, <2>3 DEF ReadDue
  <2>5. /\ OnlyLoop(p)
        /\ loop'[p].pc = "mark" /\ loop'[p].batch = d /\ loop'[p].todo = d
        /\ loop'[p].sealed = sealed /\ loop'[p].items = {} /\ loop'[p].em = {}
        /\ loop'[p].found = FALSE
    BY <2>4, LoopBegins
  <2>6. LoopTyped(loop'[p])
    BY <2>2, <2>3, <2>5 DEF LoopTyped, OnlyLoop, Places
  <2> QED BY <1>1, <2>5, <2>6, LoopsStay
<1> QED BY <1>2, <1>3

LEMMA AnsweredTyped ==
    ASSUME Typed, NEW p \in Pages, Arrive(p) \/ NoAnswer(p)
    PROVE  LoopsTyped'
<1>1. /\ LoopTyped(loop[p]) /\ wire'[p] = {} /\ \A q \in Pages \ {p} : wire'[q] = wire[q]
      /\ {i.em : i \in wire[p]} \subseteq loop[p].batch
  BY DEF Typed, LoopsTyped, Arrive, NoAnswer
<1>2. CASE Arrive(p)
  <2>1. PICK sent, answer :
          /\ loop' = [loop EXCEPT ![p].pc = "results", ![p].todo = sent, ![p].answer = answer]
          /\ sent = {i.em : i \in wire[p]}
    BY <1>2 DEF Arrive
  <2>2. LET l == loop[p] IN Written(p, "results", sent, l.items, l.em, l.found, answer)
    BY <2>1, LoopMoves
  <2>3. OnlyLoop(p) /\ LoopTyped(loop'[p])
    BY <1>1, <2>1, <2>2 DEF Written, OnlyLoop, LoopTyped, Places
  <2> QED BY <1>1, <2>3, LoopsStay
<1>3. CASE NoAnswer(p)
  <2>1. loop' = [loop EXCEPT ![p].pc = "failing", ![p].todo = loop[p].batch]
    BY <1>3 DEF NoAnswer
  <2>2. LET l == loop[p] IN Written(p, "failing", l.batch, l.items, l.em, l.found, l.answer)
    BY <2>1, LoopMoves
  <2>3. OnlyLoop(p) /\ LoopTyped(loop'[p])
    BY <1>1, <2>2 DEF Written, OnlyLoop, LoopTyped, Places
  <2> QED BY <1>1, <2>3, LoopsStay
<1> QED BY <1>2, <1>3

LEMMA TypedStep == Typed /\ [OffGridNext]_offGridVars => Typed'
<1> SUFFICES ASSUME Typed, [OffGridNext]_offGridVars PROVE Typed'
  OBVIOUS
<1>0. /\ StoresTyped /\ LoopsTyped /\ mishaps \in Nat /\ edits \in Nat
      /\ Mishap => mishaps' \in Nat
  BY DEF Typed, Mishap
<1>1. ASSUME NEW e \in Emergencies, NEW t \in Types, Raise(e, t) PROVE Typed'
  <2>1. StoresTyped'
    BY <1>1, Stored DEF Raise
  <2> QED BY <1>1, <1>0, <2>1 DEF Typed, LoopsTyped, Raise, Words, net, taps, count
<1>2. ASSUME NEW e \in Emergencies, NEW t \in Types, ReviseRead(e, t) PROVE Typed'
  <2>1. [pc |-> "write", type |-> t] \in [pc : {"write"}, type : Types]
    OBVIOUS
  <2> QED BY <1>2, <1>0, <2>1 DEF Typed, StoresTyped, LoopsTyped, ReviseRead, device, net
<1>3. ASSUME NEW e \in Emergencies, ReviseWrite(e) PROVE Typed'
  <2>1. chip[e].type \in Types
    BY <1>3 DEF ReviseWrite, Typed, IdleChip
  <2>2. StoresTyped'
    BY <1>3, <2>1, Stored DEF ReviseWrite
  <2> QED BY <1>3, <1>0, <2>2 DEF Typed, LoopsTyped, ReviseWrite, net, count
<1>4. ASSUME NEW e \in Emergencies, AbortRead(e) PROVE Typed'
  BY <1>4, <1>0 DEF Typed, StoresTyped, LoopsTyped, AbortRead, Taps, device, net, count
<1>5. ASSUME NEW e \in Emergencies, AbortDiscard(e) PROVE Typed'
  <2>1. StoresTyped'
    BY <1>5, RowMoves, JobMoves DEF AbortDiscard, StoresTyped
  <2> QED BY <1>5, <1>0, <2>1 DEF Typed, LoopsTyped, AbortDiscard, Taps, Words, net, count
<1>6. ASSUME NEW e \in Emergencies, AbortLook(e) PROVE Typed'
  BY <1>6, <1>0 DEF Typed, StoresTyped, LoopsTyped, AbortLook, Taps, device, net, count
<1>7. ASSUME NEW e \in Emergencies, AbortCancel(e) PROVE Typed'
  <2>1. server' \in [Emergencies -> Incident \cup {NotThere}]
    BY <1>7, ServerMoves DEF AbortCancel
  <2> QED BY <1>7, <1>0, <2>1 DEF Typed, StoresTyped, LoopsTyped, AbortCancel, Taps, device, net, count
<1>8. ASSUME NEW e \in Emergencies, AbortCancelFails(e) PROVE Typed'
  BY <1>8, <1>0 DEF Typed, StoresTyped, LoopsTyped, AbortCancelFails, Taps, device, net
<1>9. ASSUME NEW e \in Emergencies, AbortRequest(e) PROVE Typed'
  <2>1. StoresTyped'
    BY <1>9, <1>0, RowMoves DEF AbortRequest, StoresTyped
  <2> QED BY <1>9, <1>0, <2>1 DEF Typed, LoopsTyped, AbortRequest, Taps, Words, net, count
<1>10. ASSUME NEW e \in Emergencies, Elapse(e) PROVE Typed'
  <2>1. StoresTyped'
    BY <1>10, <1>0, JobMoves DEF Elapse, StoresTyped
  <2> QED BY <1>10, <1>0, <2>1 DEF Typed, LoopsTyped, Elapse, net, taps, count
<1>11. ASSUME NEW p \in Pages, Begin(p) PROVE Typed'
  <2>1. wire[p] = {}
    BY <1>11 DEF Begin, IdleLoop, Typed, LoopsTyped
  <2>2. LoopsTyped'
    BY <1>11, <2>1, LoopGoesOn DEF Begin, net, Places
  <2> QED BY <1>11, <1>0, <2>2 DEF Typed, StoresTyped, Begin, device, net, taps, count
<1>12. ASSUME NEW p \in Pages, ReadDue(p) PROVE Typed'
  BY <1>12, <1>0, ReadDueTyped DEF Typed, StoresTyped, ReadDue, device, net, taps, count
<1>13. ASSUME NEW p \in Pages, NotSignedIn(p) PROVE Typed'
  <2>1. wire[p] = {}
    BY <1>13 DEF NotSignedIn, LoopAt, Typed, LoopsTyped
  <2>2. LoopsTyped'
    BY <1>13, <2>1, LoopGoesOn DEF NotSignedIn, net, Places
  <2> QED BY <1>13, <1>0, <2>2 DEF Typed, StoresTyped, NotSignedIn, device, net, taps
<1>14. ASSUME NEW p \in Pages, NEW e \in Emergencies, MarkSyncing(p, e) PROVE Typed'
  <2>1. LoopsTyped'
    BY <1>14, LoopTakes DEF MarkSyncing, LoopAt, net
  <2>2. StoresTyped'
    <3>1. CASE job[e] = NoJob
      BY <1>14, <1>0, <3>1 DEF MarkSyncing, StoresTyped, device
    <3>2. CASE job[e] # NoJob
      BY <1>14, <1>0, <3>2, RowMoves, JobMoves, RowFields DEF MarkSyncing, StoresTyped, Unsent, NoRow, LOCAL_, FAILED
    <3> QED BY <3>1, <3>2
  <2> QED BY <1>14, <1>0, <2>1, <2>2 DEF Typed, MarkSyncing, net, taps, count
<1>15. ASSUME NEW p \in Pages, Send(p) PROVE Typed'
  <2>1. wire[p] = {} /\ p \in DOMAIN wire
    BY <1>15 DEF Send, LoopAt, Typed, LoopsTyped
  <2>2. wire' \in [Pages -> SUBSET Items] /\ LoopsTyped'
    <3>1. CASE loop[p].items = {}
      BY <1>15, <2>1, <3>1, LoopRests DEF Send, Typed
    <3>2. CASE loop[p].items # {}
      <4>1. wire' = [wire EXCEPT ![p] = loop[p].items] /\ LoopTo(p, "sent")
        BY <1>15, <3>2 DEF Send
      <4>2. loop[p].items \subseteq Items
        BY DEF Typed, LoopsTyped, LoopTyped
      <4> QED BY <2>1, <4>1, <4>2, LoopGoesOn DEF Typed, Places
    <3> QED BY <3>1, <3>2
  <2> QED BY <1>15, <1>0, <2>2 DEF Typed, StoresTyped, Send, device, taps, count
<1>16. ASSUME NEW p \in Pages, Arrive(p) PROVE Typed'
  <2>1. server' \in [Emergencies -> Incident \cup {NotThere}]
    BY <1>16, ServerMoves DEF Arrive, Typed
  <2> QED BY <1>16, <1>0, <2>1, AnsweredTyped DEF Typed, StoresTyped, Arrive, device, taps, count
<1>17. ASSUME NEW p \in Pages, NoAnswer(p) PROVE Typed'
  BY <1>17, <1>0, AnsweredTyped DEF Typed, StoresTyped, NoAnswer, device, taps
<1>18. ASSUME NEW i \in strays, StrayArrives(i) \/ StrayLost(i) PROVE Typed'
  <2>1. server' \in [Emergencies -> Incident \cup {NotThere}]
    BY <1>18, ServerMoves DEF StrayArrives, StrayLost, Typed
  <2> QED BY <1>18, <1>0, <2>1 DEF Typed, StoresTyped, LoopsTyped, StrayArrives, StrayLost, device, taps, count
<1>19. ASSUME NEW p \in Pages, NEW e \in Emergencies, Named(p, e) PROVE Typed'
  <2>1. LoopsTyped'
    BY <1>19, LoopTakes DEF Named, LoopAt, net
  <2>2. StoresTyped'
    BY <1>19, <1>0, JobMoves DEF Named, StoresTyped
  <2> QED BY <1>19, <1>0, <2>1, <2>2 DEF Typed, Named, net, taps, count
<1>20. ASSUME NEW p \in Pages, NEW e \in Emergencies, Synced(p, e) PROVE Typed'
  <2>1. wire[p] = {} /\ wire' = wire
    BY <1>20 DEF Synced, LoopAt, Typed, LoopsTyped, net
  <2>2. LoopsTyped'
    BY <1>20, <2>1, LoopGoesOn DEF Synced, Places
  <2>3. StoresTyped'
    BY <1>20, <1>0, RowMoves, JobMoves DEF Synced, StoresTyped
  <2> QED BY <1>20, <1>0, <2>2, <2>3 DEF Typed, Synced, net, taps, count
<1>21. ASSUME NEW p \in Pages, NEW e \in Emergencies, Look(p, e) PROVE Typed'
  <2>1. wire[p] = {} /\ wire' = wire
    BY <1>21 DEF Look, LoopAt, Typed, LoopsTyped, net
  <2>2. LoopsTyped'
    BY <1>21, <2>1, LoopGoesOn DEF Look, Places
  <2>3. StoresTyped'
    BY <1>21, <1>0, RowMoves, JobMoves DEF Look, StoresTyped
  <2> QED BY <1>21, <1>0, <2>2, <2>3 DEF Typed, Look, net, taps, count
<1>22. ASSUME NEW p \in Pages, NEW e \in Emergencies, SyncCancel(p, e) PROVE Typed'
  <2>1. wire[p] = {} /\ wire' = wire
    BY <1>22 DEF SyncCancel, LoopAt, Typed, LoopsTyped, net
  <2>2. LoopsTyped'
    BY <1>22, <2>1, LoopGoesOn DEF SyncCancel, Places
  <2>3. StoresTyped'
    BY <1>22, <1>0, RowMoves, JobMoves DEF SyncCancel, StoresTyped
  <2>4. server' \in [Emergencies -> Incident \cup {NotThere}]
    BY <1>22, ServerMoves DEF SyncCancel
  <2> QED BY <1>22, <1>0, <2>2, <2>3, <2>4 DEF Typed, SyncCancel, net, taps, count
<1>23. ASSUME NEW p \in Pages, NEW e \in Emergencies, SyncCancelFails(p, e) PROVE Typed'
  <2>1. wire[p] = {} /\ wire' = wire
    BY <1>23 DEF SyncCancelFails, LoopAt, Typed, LoopsTyped, net
  <2>2. LoopsTyped'
    BY <1>23, <2>1, LoopGoesOn DEF SyncCancelFails, Places
  <2> QED BY <1>23, <1>0, <2>2 DEF Typed, SyncCancelFails, net, taps, StoresTyped, device
<1>24. ASSUME NEW p \in Pages, NEW e \in Emergencies, Alert(p, e) PROVE Typed'
  <2>1. wire[p] = {} /\ wire' = wire
    BY <1>24 DEF Alert, LoopAt, Typed, LoopsTyped, net
  <2>2. LoopsTyped'
    BY <1>24, <2>1, LoopGoesOn DEF Alert, Places
  <2>4. server' \in [Emergencies -> Incident \cup {NotThere}]
    BY <1>24, ServerMoves DEF Alert
  <2>5. again' \in [Pages -> [Emergencies -> Nat]]
    BY <1>24 DEF Alert, Typed
  <2> QED BY <1>24, <1>0, <2>2, <2>4, <2>5 DEF Typed, Alert, net, taps, count, StoresTyped, device
<1>25. ASSUME NEW p \in Pages, NEW e \in Emergencies, AlertFails(p, e) PROVE Typed'
  <2>1. wire[p] = {} /\ wire' = wire
    BY <1>25 DEF AlertFails, LoopAt, Typed, LoopsTyped, net
  <2>2. LoopsTyped'
    BY <1>25, <2>1, LoopGoesOn DEF AlertFails, Places
  <2>5. again' \in [Pages -> [Emergencies -> Nat]]
    BY <1>25 DEF AlertFails, Typed
  <2> QED BY <1>25, <1>0, <2>2, <2>5 DEF Typed, AlertFails, net, taps, StoresTyped, device
<1>26. ASSUME NEW p \in Pages, NEW e \in Emergencies, AlertAgain(p, e) \/ AlertAgainFails(p, e) PROVE Typed'
  <2>1. again' \in [Pages -> [Emergencies -> Nat]]
    BY <1>26 DEF AlertAgain, AlertAgainFails, Typed
  <2>2. server' \in [Emergencies -> Incident \cup {NotThere}]
    BY <1>26, ServerMoves DEF AlertAgain, AlertAgainFails, Typed
  <2> QED BY <1>26, <1>0, <2>1, <2>2
         DEF Typed, StoresTyped, LoopsTyped, AlertAgain, AlertAgainFails, device, net, taps, count
<1>27. ASSUME NEW p \in Pages, NEW e \in Emergencies, MarkFailed(p, e) PROVE Typed'
  <2>1. LoopsTyped'
    BY <1>27, LoopTakes DEF MarkFailed, LoopAt, net
  <2>2. StoresTyped'
    <3>1. CASE job[e] = NoJob
      BY <1>27, <1>0, <3>1 DEF MarkFailed, StoresTyped, device
    <3>2. CASE job[e] # NoJob
      <4>1. job[e].retries + 1 \in Nat
        BY <3>2, RowFields DEF Jobs
      <4>2. PICK k \in Nat : k = job[e].retries + 1
        BY <4>1
      <4>3. PICK d \in {"now", "later", "never"} : d = IF k > MaxRetries THEN "never" ELSE "later"
        OBVIOUS
      <4>4. job' = [job EXCEPT ![e].status = FAILED, ![e].retries = k, ![e].due = d]
        BY <1>27, <3>2, <4>2, <4>3 DEF MarkFailed
      <4>5. row' \in [Emergencies -> Rows \cup {NoRow}]
        BY <1>27, <1>0, <3>2, RowMoves DEF MarkFailed, StoresTyped
      <4> QED BY <3>2, <4>4, <4>5, JobMoves DEF StoresTyped
    <3> QED BY <3>1, <3>2
  <2> QED BY <1>27, <1>0, <2>1, <2>2 DEF Typed, MarkFailed, net, taps, count
<1>28. ASSUME NEW p \in Pages, EndLoop(p) PROVE Typed'
  <2>1. wire[p] = {} /\ wire' = wire
    BY <1>28 DEF EndLoop, Typed, LoopsTyped, net
  <2>2. LoopsTyped'
    BY <1>28, <2>1, LoopRests DEF EndLoop
  <2>3. StoresTyped'
    BY <1>28, <1>0 DEF EndLoop, StoresTyped
  <2> QED BY <1>28, <1>0, <2>2, <2>3 DEF Typed, EndLoop, net, taps, count
<1>29. ASSUME NEW p \in Pages, Close(p) PROVE Typed'
  <2>1. LoopsTyped'
    BY <1>29, LoopRests DEF Close, Typed
  <2>2. /\ chip' \in [Emergencies -> {IdleChip} \cup [pc : {"write"}, type : Types]]
        /\ abort' \in [Emergencies -> Taps]
    BY <1>29 DEF Close, Typed, Taps, taps
  <2>3. wire' \in [Pages -> SUBSET Items] /\ strays' \subseteq Items
    BY <1>29 DEF Close, Typed
  <2> QED BY <1>29, <1>0, <2>1, <2>2, <2>3 DEF Typed, StoresTyped, Close, device
<1>30. CASE UNCHANGED offGridVars
  BY <1>30, <1>0 DEF Typed, StoresTyped, LoopsTyped, offGridVars, device, net, taps, count
<1> QED BY <1>1, <1>2, <1>3, <1>4, <1>5, <1>6, <1>7, <1>8, <1>9, <1>10, <1>11, <1>12, <1>13, <1>14, <1>15, <1>16, <1>17, <1>18, <1>19, <1>20, <1>21, <1>22, <1>23, <1>24, <1>25, <1>26, <1>27, <1>28, <1>29, <1>30
       DEF OffGridNext, Sheet, Sync, SyncFails

-----------------------------------------------------------------------------
(* What each step leaves in the loop it moves *)

Going(p, pc, todo, em, found, answer) ==
    /\ OnlyLoop(p)
    /\ loop'[p].pc = pc /\ loop'[p].todo = todo /\ loop'[p].em = em
    /\ loop'[p].found = found /\ loop'[p].answer = answer /\ loop'[p].batch = loop[p].batch

Rests(p) == OnlyLoop(p) /\ loop'[p] = IdleLoop

LEMMA LoopSteps ==
    ASSUME Typed, NEW p \in Pages
    PROVE  LET l == loop[p]
               Goes(x) == Going(p, x, l.todo, l.em, l.found, l.answer)
           IN
           /\ Begin(p) => Goes("due")
           /\ NotSignedIn(p) => Goes("failing")
           /\ Send(p) => Rests(p) \/ Goes("sent")
           /\ NoAnswer(p) => Going(p, "failing", l.batch, l.em, l.found, l.answer)
           /\ EndLoop(p) \/ Close(p) => Rests(p)
           /\ \A e \in Emergencies :
                /\ MarkSyncing(p, e) \/ MarkFailed(p, e) =>
                     Going(p, l.pc, l.todo \ {e}, l.em, l.found, l.answer)
                /\ Named(p, e) => Going(p, "patched", l.todo \ {e}, {e}, job[e] # NoJob, l.answer)
                /\ Synced(p, e) => Goes("look")
                /\ SyncCancel(p, e) \/ SyncCancelFails(p, e) \/ Alert(p, e) \/ AlertFails(p, e)
                     => Goes("results")
                /\ Look(p, e) =>
                     \/ Goes("results")
                     \/ Goes("cancel") /\ row[e] # NoRow /\ row[e].cancel
                     \/ Goes("alert") /\ ~(row[e] # NoRow /\ row[e].cancel)
<1> DEFINE l == loop[p]
           Goes(x) == Going(p, x, l.todo, l.em, l.found, l.answer)
<1>1. \A x : LoopTo(p, x) => Goes(x)
  BY LoopMoves DEF Going, Written
<1>2. Begin(p) => Goes("due")
  BY <1>1 DEF Begin
<1>3. NotSignedIn(p) => Goes("failing")
  BY <1>1 DEF NotSignedIn
<1>4. Send(p) => Rests(p) \/ Goes("sent")
  BY <1>1, LoopEnds DEF Send, Rests
<1>5. NoAnswer(p) => Going(p, "failing", l.batch, l.em, l.found, l.answer)
  <2>1. ASSUME NoAnswer(p) PROVE loop' = [loop EXCEPT ![p].pc = "failing", ![p].todo = loop[p].batch]
    BY <2>1 DEF NoAnswer
  <2>2. NoAnswer(p) => Written(p, "failing", l.batch, l.items, l.em, l.found, l.answer)
    BY <2>1, LoopMoves
  <2> QED BY <2>2 DEF Going, Written
<1>6. EndLoop(p) \/ Close(p) => Rests(p)
  BY LoopEnds DEF EndLoop, Close, Rests
<1>7. ASSUME NEW e \in Emergencies
      PROVE  MarkSyncing(p, e) \/ MarkFailed(p, e)
               => Going(p, l.pc, l.todo \ {e}, l.em, l.found, l.answer)
  <2>1. ASSUME MarkSyncing(p, e) \/ MarkFailed(p, e)
        PROVE  \/ loop' = [loop EXCEPT ![p].todo = @ \ {e}]
               \/ \E i : loop' = [loop EXCEPT ![p].todo = @ \ {e}, ![p].items = @ \cup {i}]
    BY <2>1 DEF MarkSyncing, MarkFailed
  <2>2. ASSUME loop' = [loop EXCEPT ![p].todo = @ \ {e}]
        PROVE  Written(p, l.pc, l.todo \ {e}, l.items, l.em, l.found, l.answer)
    BY <2>2, LoopMoves
  <2>3. ASSUME NEW i, loop' = [loop EXCEPT ![p].todo = @ \ {e}, ![p].items = @ \cup {i}]
        PROVE  Written(p, l.pc, l.todo \ {e}, l.items \cup {i}, l.em, l.found, l.answer)
    BY <2>3, LoopMoves
  <2> QED BY <2>1, <2>2, <2>3 DEF Going, Written
<1>8. ASSUME NEW e \in Emergencies
      PROVE  Named(p, e) => Going(p, "patched", l.todo \ {e}, {e}, job[e] # NoJob, l.answer)
  <2>1. PICK f : f = (job[e] # NoJob)
    OBVIOUS
  <2>2. ASSUME Named(p, e)
        PROVE  loop' = [loop EXCEPT ![p].pc = "patched", ![p].em = {e}, ![p].todo = @ \ {e}, ![p].found = f]
    BY <2>1, <2>2 DEF Named
  <2>3. Named(p, e) => Written(p, "patched", l.todo \ {e}, l.items, {e}, f, l.answer)
    BY <2>2, LoopMoves
  <2> QED BY <2>1, <2>3 DEF Going, Written
<1>9. ASSUME NEW e \in Emergencies
      PROVE  /\ Synced(p, e) => Goes("look")
             /\ SyncCancel(p, e) \/ SyncCancelFails(p, e) \/ Alert(p, e) \/ AlertFails(p, e)
                     => Goes("results")
  BY <1>1 DEF Synced, SyncCancel, SyncCancelFails, Alert, AlertFails
<1>10. ASSUME NEW e \in Emergencies, Look(p, e)
       PROVE  \/ Goes("results")
              \/ Goes("cancel") /\ row[e] # NoRow /\ row[e].cancel
              \/ Goes("alert") /\ ~(row[e] # NoRow /\ row[e].cancel)
  BY <1>1, <1>10 DEF Look
<1> QED BY <1>2, <1>3, <1>4, <1>5, <1>6, <1>7, <1>8, <1>9, <1>10

LEMMA ReadDueSteps ==
    ASSUME Typed, NEW p \in Pages, ReadDue(p)
    PROVE  \/ Rests(p)
           \/ /\ OnlyLoop(p) /\ loop'[p].pc = "mark" /\ loop'[p].em = {} /\ loop'[p].found = FALSE
              /\ loop'[p].batch = {e \in Emergencies : DueNow(e)}
<1>1. CASE loop' = [loop EXCEPT ![p] = IdleLoop]
  BY <1>1, LoopEnds DEF Rests
<1>2. ASSUME NEW due, NEW sealed, due = {e \in Emergencies : DueNow(e)},
             loop' = [loop EXCEPT ![p] = [IdleLoop EXCEPT !.pc = "mark", !.batch = due, !.todo = due,
                                                          !.sealed = sealed]]
      PROVE  /\ OnlyLoop(p) /\ loop'[p].pc = "mark" /\ loop'[p].em = {} /\ loop'[p].found = FALSE
             /\ loop'[p].batch = {e \in Emergencies : DueNow(e)}
  BY <1>2, LoopBegins
<1> QED BY <1>1, <1>2 DEF ReadDue

LEMMA ArriveSteps ==
    ASSUME Typed, NEW p \in Pages, Arrive(p)
    PROVE  LET l == loop[p]
               answer == [e \in {i.em : i \in wire[p]} |->
                            [kind |-> IF server[e] = NotThere THEN "created" ELSE "duplicate",
                             open |-> server'[e].status \in StillOpen]]
           IN Going(p, "results", {i.em : i \in wire[p]}, l.em, l.found, answer)
<1>1. PICK sent, answer :
        /\ loop' = [loop EXCEPT ![p].pc = "results", ![p].todo = sent, ![p].answer = answer]
        /\ sent = {i.em : i \in wire[p]}
        /\ answer = [e \in sent |-> [kind |-> IF server[e] = NotThere THEN "created" ELSE "duplicate",
                                     open |-> server'[e].status \in StillOpen]]
  BY DEF Arrive
<1>2. LET l == loop[p] IN Written(p, "results", sent, l.items, l.em, l.found, answer)
  BY <1>1, LoopMoves
<1> QED BY <1>1, <1>2 DEF Going, Written

\* What is on the server stays there, and what is closed stays closed.
LEMMA ServerGrows ==
    ASSUME Typed, [OffGridNext]_offGridVars, NEW e \in Emergencies
    PROVE  /\ server[e] # NotThere => server'[e] # NotThere
           /\ server[e].status = "CANCELLED" => server'[e].status = "CANCELLED"
<1>1. \A f \in Emergencies : CancelOpen(f) =>
        /\ server[e] # NotThere => server'[e] # NotThere
        /\ server[e].status = "CANCELLED" => server'[e].status = "CANCELLED"
  BY DEF Typed, CancelOpen, Incident, NotThere, StillOpen
<1>2. \A f \in Emergencies : Confirmed(f) =>
        /\ server[e] # NotThere => server'[e] # NotThere
        /\ server[e].status = "CANCELLED" => server'[e].status = "CANCELLED"
  BY DEF Typed, Confirmed, Incident, NotThere
<1>3. \A items : server' = Recorded(items) =>
        /\ server[e] # NotThere => server'[e] # NotThere
        /\ server[e].status = "CANCELLED" => server'[e].status = "CANCELLED"
  BY DEF Typed, Recorded, Incident, NotThere
<1> DEFINE Writes == \/ server' = server
                     \/ \E f \in Emergencies : CancelOpen(f) \/ Confirmed(f)
                     \/ \E items : server' = Recorded(items)
<1>4. ASSUME NEW f \in Emergencies, Sheet(f) \/ Elapse(f) PROVE Writes
  BY <1>4 DEF Sheet, Raise, ReviseRead, ReviseWrite, AbortRead, AbortDiscard, AbortLook, AbortCancel,
              AbortCancelFails, AbortRequest, Elapse
<1>5. ASSUME NEW p \in Pages, Begin(p) \/ Sync(p) PROVE Writes
  BY <1>5 DEF Begin, Sync, ReadDue, Send, Arrive, EndLoop, MarkSyncing, Named, Synced, Look, SyncCancel,
              Alert, MarkFailed
<1>6. ASSUME NEW p \in Pages, SyncFails(p) \/ Close(p) \/ \E f \in Emergencies : AlertAgain(p, f) PROVE Writes
  BY <1>6 DEF SyncFails, NotSignedIn, NoAnswer, SyncCancelFails, AlertFails, AlertAgainFails, Close, AlertAgain
<1>7. ASSUME NEW i \in strays, StrayArrives(i) \/ StrayLost(i) PROVE Writes
  BY <1>7 DEF StrayArrives, StrayLost
<1>8. Writes
  BY <1>4, <1>5, <1>6, <1>7 DEF OffGridNext, offGridVars
<1> QED BY <1>1, <1>2, <1>3, <1>8

-----------------------------------------------------------------------------
(* The results of an upload are on the server *)

LEMMA AnsweredStays ==
    ASSUME Typed, [OffGridNext]_offGridVars, NEW p \in Pages, NEW e \in Emergencies, Answered(p, e),
           loop'[p].answer = loop[p].answer
    PROVE  Answered(p, e)'
  BY ServerGrows DEF Answered

\* Loops that do not move keep theirs.
LEMMA OnServerMoves ==
    ASSUME Typed, OnServer, [OffGridNext]_offGridVars, NEW p \in Pages, OnlyLoop(p),
           loop'[p].pc \in Handling \cup {"results"} => \A e \in loop'[p].todo : Answered(p, e)',
           loop'[p].pc \in Handling => \A e \in loop'[p].em : Answered(p, e)'
    PROVE  OnServer'
<1>1. ASSUME NEW q \in Pages \ {p}
      PROVE  /\ loop'[q] = loop[q]
             /\ \A e \in Emergencies : Answered(q, e) => Answered(q, e)'
             /\ loop[q].todo \subseteq Emergencies /\ loop[q].em \subseteq Emergencies
  BY AnsweredStays DEF OnlyLoop, Typed, LoopsTyped, LoopTyped
<1> QED BY <1>1 DEF OnServer

LEMMA OnServerRests ==
    ASSUME Typed, OnServer, [OffGridNext]_offGridVars, NEW p \in Pages, Rests(p)
    PROVE  OnServer'
  BY OnServerMoves DEF Rests, IdleLoop, Handling

\* A loop that goes on with what it has in hand.
LEMMA OnServerGoes ==
    ASSUME Typed, OnServer, [OffGridNext]_offGridVars, NEW p \in Pages, NEW x, NEW t, NEW m, NEW f,
           Going(p, x, t, m, f, loop[p].answer),
           x \in Handling \cup {"results"} =>
             t \subseteq loop[p].todo /\ loop[p].pc \in Handling \cup {"results"},
           x \in Handling =>
             \/ m \subseteq loop[p].em /\ loop[p].pc \in Handling
             \/ m \subseteq loop[p].todo /\ loop[p].pc = "results"
    PROVE  OnServer'
<1>1. loop[p].todo \subseteq Emergencies /\ loop[p].em \subseteq Emergencies
  BY DEF Typed, LoopsTyped, LoopTyped
<1>2. \A e \in Emergencies : Answered(p, e) => Answered(p, e)'
  BY AnsweredStays DEF Going
<1>3. x \in Handling \cup {"results"} => \A e \in t : Answered(p, e)'
  BY <1>1, <1>2 DEF OnServer
<1>4. x \in Handling => \A e \in m : Answered(p, e)'
  BY <1>1, <1>2 DEF OnServer
<1> QED BY <1>3, <1>4, OnServerMoves DEF Going

LEMMA OnServerStep ==
    ASSUME Typed, OnServer, [OffGridNext]_offGridVars
    PROVE  OnServer'
<1>1. CASE UNCHANGED loop
  <2>1. ASSUME NEW p \in Pages
        PROVE  /\ \A e \in Emergencies : Answered(p, e) => Answered(p, e)'
               /\ loop[p].todo \subseteq Emergencies /\ loop[p].em \subseteq Emergencies
    BY <1>1, AnsweredStays DEF Typed, LoopsTyped, LoopTyped
  <2> QED BY <1>1, <2>1 DEF OnServer
<1>2. ASSUME NEW p \in Pages, Begin(p) \/ NotSignedIn(p) \/ Send(p) \/ NoAnswer(p) \/ EndLoop(p) \/ Close(p)
      PROVE  OnServer'
  BY <1>2, LoopSteps, OnServerRests, OnServerGoes DEF Handling
<1>3. ASSUME NEW p \in Pages, ReadDue(p) PROVE OnServer'
  <2>1. CASE Rests(p)
    BY <2>1, OnServerRests
  <2>2. CASE OnlyLoop(p) /\ loop'[p].pc = "mark"
    BY <2>2, OnServerMoves DEF Handling
  <2> QED BY <1>3, <2>1, <2>2, ReadDueSteps
<1>4. ASSUME NEW p \in Pages, Arrive(p) PROVE OnServer'
  <2>1. /\ OnlyLoop(p) /\ loop'[p].pc = "results" /\ loop'[p].todo = {i.em : i \in wire[p]}
        /\ loop'[p].answer = [e \in {i.em : i \in wire[p]} |->
                            [kind |-> IF server[e] = NotThere THEN "created" ELSE "duplicate",
                             open |-> server'[e].status \in StillOpen]]
    BY <1>4, ArriveSteps DEF Going
  <2>2. ASSUME NEW e \in {i.em : i \in wire[p]} PROVE Answered(p, e)'
    <3>1. loop'[p].answer[e].open = (server'[e].status \in StillOpen)
      BY <2>1
    <3>2. e \in Emergencies /\ server'[e] # NotThere
      <4>1. PICK i \in wire[p] : i.em = e
        OBVIOUS
      <4>2. e \in Emergencies
        BY <4>1 DEF Typed, LoopsTyped, LoopTyped
      <4>3. server' = Recorded(wire[p])
        BY <1>4 DEF Arrive
      <4> QED BY <4>1, <4>2, <4>3 DEF Recorded, NotThere
    <3>3. Typed'
      BY TypedStep
    <3>4. server'[e].status \in StillOpen \cup {"CANCELLED"}
      BY <3>2, <3>3 DEF Typed, Incident, StillOpen
    <3> QED BY <3>1, <3>2, <3>4 DEF Answered
  <2> QED BY <2>1, <2>2, OnServerMoves DEF Handling
<1>5. ASSUME NEW p \in Pages, NEW e \in Emergencies,
             MarkSyncing(p, e) \/ Named(p, e) \/ Synced(p, e) \/ Look(p, e) \/ SyncCancel(p, e)
             \/ SyncCancelFails(p, e) \/ Alert(p, e) \/ AlertFails(p, e) \/ MarkFailed(p, e)
      PROVE  OnServer'
  <2>1. CASE MarkSyncing(p, e) \/ MarkFailed(p, e)
    <3>1. loop[p].pc \notin Handling \cup {"results"}
      BY <2>1 DEF MarkSyncing, MarkFailed, LoopAt, Handling
    <3> QED BY <2>1, <3>1, LoopSteps, OnServerGoes
  <2>2. CASE Named(p, e)
    <3>1. loop[p].pc = "results" /\ e \in loop[p].todo
      BY <2>2 DEF Named, LoopAt
    <3>2. Going(p, "patched", loop[p].todo \ {e}, {e}, job[e] # NoJob, loop[p].answer)
      BY <2>2, LoopSteps
    <3> QED BY <3>1, <3>2, OnServerGoes DEF Handling
  <2>3. CASE Synced(p, e) \/ Look(p, e) \/ SyncCancel(p, e) \/ SyncCancelFails(p, e) \/ Alert(p, e)
             \/ AlertFails(p, e)
    <3>1. loop[p].pc \in Handling
      BY <2>3 DEF Synced, Look, SyncCancel, SyncCancelFails, Alert, AlertFails, LoopAt, Handling
    <3>2. PICK x : Going(p, x, loop[p].todo, loop[p].em, loop[p].found, loop[p].answer)
      BY <2>3, LoopSteps
    <3>3. /\ OnlyLoop(p)
          /\ loop'[p].todo = loop[p].todo /\ loop'[p].em = loop[p].em /\ loop'[p].answer = loop[p].answer
      BY <3>2 DEF Going
    <3>4. \A f \in Emergencies : Answered(p, f) => Answered(p, f)'
      BY <3>3, AnsweredStays
    <3>5. loop[p].todo \subseteq Emergencies /\ loop[p].em \subseteq Emergencies
      BY DEF Typed, LoopsTyped, LoopTyped
    <3> QED BY <3>1, <3>3, <3>4, <3>5, OnServerMoves DEF OnServer
  <2> QED BY <1>5, <2>1, <2>2, <2>3
<1>6. ASSUME NEW f \in Emergencies, Sheet(f) \/ Elapse(f) PROVE UNCHANGED loop
  BY <1>6 DEF Sheet, Raise, ReviseRead, ReviseWrite, AbortRead, AbortDiscard, AbortLook, AbortCancel,
              AbortCancelFails, AbortRequest, Elapse
<1>7. ASSUME NEW p \in Pages, NEW f \in Emergencies, AlertAgain(p, f) \/ AlertAgainFails(p, f)
      PROVE  UNCHANGED loop
  BY <1>7 DEF AlertAgain, AlertAgainFails
<1>8. ASSUME NEW i \in strays, StrayArrives(i) \/ StrayLost(i) PROVE UNCHANGED loop
  BY <1>8 DEF StrayArrives, StrayLost
<1> QED BY <1>1, <1>2, <1>3, <1>4, <1>5, <1>6, <1>7, <1>8 DEF OffGridNext, Sync, SyncFails, offGridVars

\* No loop takes up what has no entry.
LEMMA BatchStep ==
    ASSUME Typed, [OffGridNext]_offGridVars, NEW f \in Emergencies, NEW q \in Pages, f \notin loop[q].batch, job[f] = NoJob
    PROVE  f \notin loop'[q].batch
<1>1. CASE UNCHANGED loop
  BY <1>1
<1>2. ASSUME NEW p \in Pages,
             \/ Rests(p)
             \/ OnlyLoop(p) /\ loop'[p].batch = loop[p].batch
             \/ OnlyLoop(p) /\ loop'[p].batch = {e \in Emergencies : DueNow(e)}
      PROVE  f \notin loop'[q].batch
  BY <1>2 DEF Rests, OnlyLoop, IdleLoop, DueNow
<1>3. ASSUME NEW p \in Pages, Begin(p) \/ NotSignedIn(p) \/ Send(p) \/ NoAnswer(p) \/ EndLoop(p) \/ Close(p)
      PROVE  f \notin loop'[q].batch
  BY <1>2, <1>3, LoopSteps DEF Going
<1>4. ASSUME NEW p \in Pages, ReadDue(p) PROVE f \notin loop'[q].batch
  BY <1>2, <1>4, ReadDueSteps
<1>5. ASSUME NEW p \in Pages, Arrive(p) PROVE f \notin loop'[q].batch
  BY <1>2, <1>5, ArriveSteps DEF Going
<1>6. ASSUME NEW p \in Pages, NEW e \in Emergencies,
             MarkSyncing(p, e) \/ Named(p, e) \/ Synced(p, e) \/ Look(p, e) \/ SyncCancel(p, e)
             \/ SyncCancelFails(p, e) \/ Alert(p, e) \/ AlertFails(p, e) \/ MarkFailed(p, e)
      PROVE  f \notin loop'[q].batch
  BY <1>2, <1>6, LoopSteps DEF Going
<1>7. ASSUME NEW e \in Emergencies, Sheet(e) \/ Elapse(e) PROVE UNCHANGED loop
  BY <1>7 DEF Sheet, Raise, ReviseRead, ReviseWrite, AbortRead, AbortDiscard, AbortLook, AbortCancel,
              AbortCancelFails, AbortRequest, Elapse
<1>8. ASSUME NEW p \in Pages, NEW e \in Emergencies, AlertAgain(p, e) \/ AlertAgainFails(p, e)
      PROVE  UNCHANGED loop
  BY <1>8 DEF AlertAgain, AlertAgainFails
<1>9. ASSUME NEW i \in strays, StrayArrives(i) \/ StrayLost(i) PROVE UNCHANGED loop
  BY <1>9 DEF StrayArrives, StrayLost
<1> QED BY <1>1, <1>3, <1>4, <1>5, <1>6, <1>7, <1>8, <1>9 DEF OffGridNext, Sync, SyncFails, offGridVars

-----------------------------------------------------------------------------
(* Nothing is known of what nobody raised *)

LEMMA FreshStep ==
    ASSUME Typed, [OffGridNext]_offGridVars, NEW f \in Emergencies, told[f] = "nothing", Fresh(f), told'[f] = "nothing"
    PROVE  Fresh(f)'
<1> DEFINE Stays == /\ row'[f] = NoRow /\ job'[f] = NoJob /\ server'[f] = NotThere
                    /\ chip'[f] = IdleChip /\ abort'[f] = "idle"
                    /\ \A q \in Pages : again'[q][f] = 0
                    /\ \A i \in strays' : i.em # f
<1>0. /\ \A q \in Pages : /\ f \notin loop[q].batch /\ f \notin loop[q].todo /\ loop[q].em # {f}
                         /\ again[q][f] = 0
                         /\ \A i \in wire[q] : i.em # f
      /\ \A i \in strays : i.em # f
      /\ row[f] = NoRow /\ job[f] = NoJob /\ server[f] = NotThere /\ chip[f] = IdleChip /\ abort[f] = "idle"
  BY DEF Fresh, FreeHands, Typed, LoopsTyped, LoopTyped
<1>1. ASSUME NEW e \in Emergencies, NEW t \in Types, Raise(e, t) PROVE Stays
  BY <1>1, <1>0
  DEF Typed, StoresTyped, Raise, Store, device, net, taps, count
<1>2. ASSUME NEW e \in Emergencies, NEW t \in Types, ReviseRead(e, t) PROVE Stays
  BY <1>2, <1>0
  DEF Typed, StoresTyped, ReviseRead, device, net, taps, count
<1>3. ASSUME NEW e \in Emergencies, ReviseWrite(e) PROVE Stays
  BY <1>3, <1>0
  DEF Typed, StoresTyped, ReviseWrite, Store, IdleChip, device, net, taps, count
<1>4. ASSUME NEW e \in Emergencies, AbortRead(e) \/ AbortDiscard(e) PROVE Stays
  BY <1>4, <1>0
  DEF Typed, StoresTyped, AbortRead, AbortDiscard, device, net, taps, count
<1>5. ASSUME NEW e \in Emergencies, AbortLook(e) \/ AbortCancel(e) \/ AbortCancelFails(e) \/ AbortRequest(e) PROVE Stays
  BY <1>5, <1>0
  DEF Typed, StoresTyped, AbortLook, AbortCancel, AbortCancelFails, AbortRequest, CancelOpen, SetCancel, device, net, taps, count
<1>6. ASSUME NEW e \in Emergencies, Elapse(e) PROVE Stays
  BY <1>6, <1>0
  DEF Typed, StoresTyped, Elapse, device, net, taps, count
<1>7. ASSUME NEW p \in Pages, Begin(p) \/ NotSignedIn(p) \/ ReadDue(p) \/ Send(p) PROVE Stays
  BY <1>7, <1>0
  DEF Typed, StoresTyped, Begin, NotSignedIn, ReadDue, Send, device, net, taps, count
<1>8. ASSUME NEW p \in Pages, Arrive(p) PROVE Stays
  BY <1>8, <1>0
  DEF Typed, StoresTyped, Arrive, Recorded, device, net, taps, count
<1>9. ASSUME NEW p \in Pages, NoAnswer(p) PROVE Stays
  BY <1>9, <1>0
  DEF Typed, StoresTyped, NoAnswer, device, net, taps, count
<1>10. ASSUME NEW p \in Pages, EndLoop(p) PROVE Stays
  BY <1>10, <1>0
  DEF Typed, StoresTyped, EndLoop, device, net, taps, count
<1>11. ASSUME NEW p \in Pages, Close(p) PROVE Stays
  BY <1>11, <1>0
  DEF Typed, StoresTyped, Close, device, net, taps, count
<1>12. ASSUME NEW p \in Pages, NEW e \in Emergencies, MarkSyncing(p, e) PROVE Stays
  BY <1>12, <1>0
  DEF Typed, StoresTyped, MarkSyncing, device, net, taps, count
<1>13. ASSUME NEW p \in Pages, NEW e \in Emergencies, Named(p, e) PROVE Stays
  BY <1>13, <1>0
  DEF Typed, StoresTyped, Named, device, net, taps, count
<1>14. ASSUME NEW p \in Pages, NEW e \in Emergencies, Synced(p, e) PROVE Stays
  BY <1>14, <1>0
  DEF Typed, StoresTyped, Synced, Of, device, net, taps, count
<1>15. ASSUME NEW p \in Pages, NEW e \in Emergencies, Look(p, e) PROVE Stays
  BY <1>15, <1>0
  DEF Typed, StoresTyped, Look, Of, SetCancel, device, net, taps, count
<1>16. ASSUME NEW p \in Pages, NEW e \in Emergencies, SyncCancel(p, e) PROVE Stays
  BY <1>16, <1>0
  DEF Typed, StoresTyped, SyncCancel, Of, CancelOpen, SetCancel, device, net, taps, count
<1>17. ASSUME NEW p \in Pages, NEW e \in Emergencies, SyncCancelFails(p, e) PROVE Stays
  BY <1>17, <1>0
  DEF Typed, StoresTyped, SyncCancelFails, Of, device, net, taps, count
<1>18. ASSUME NEW p \in Pages, NEW e \in Emergencies, Alert(p, e) PROVE Stays
  BY <1>18, <1>0
  DEF Typed, StoresTyped, Alert, Of, Confirmed, device, net, taps, count
<1>19. ASSUME NEW p \in Pages, NEW e \in Emergencies, AlertFails(p, e) PROVE Stays
  BY <1>19, <1>0
  DEF Typed, StoresTyped, AlertFails, Of, device, net, taps, count
<1>20. ASSUME NEW p \in Pages, NEW e \in Emergencies, AlertAgain(p, e) \/ AlertAgainFails(p, e) PROVE Stays
  BY <1>20, <1>0
  DEF Typed, StoresTyped, AlertAgain, AlertAgainFails, Confirmed, device, net, taps, count
<1>21. ASSUME NEW p \in Pages, NEW e \in Emergencies, MarkFailed(p, e) PROVE Stays
  BY <1>21, <1>0
  DEF Typed, StoresTyped, MarkFailed, device, net, taps, count
<1>22. ASSUME NEW i \in strays, StrayArrives(i) \/ StrayLost(i) PROVE Stays
  BY <1>22, <1>0
  DEF Typed, StoresTyped, StrayArrives, StrayLost, Recorded, device, net, taps, count
<1>23. ASSUME UNCHANGED offGridVars PROVE Stays
  <2>1. /\ row' = row /\ job' = job /\ server' = server /\ chip' = chip /\ abort' = abort
        /\ again' = again /\ strays' = strays
    BY <1>23 DEF offGridVars, device, net, taps
  <2> QED BY <2>1, <1>0
<1>24. Stays
  <2> HIDE DEF Stays
  <2>1. ASSUME NEW e \in Emergencies, Sheet(e) \/ Elapse(e) PROVE Stays
    BY <2>1, <1>1, <1>2, <1>3, <1>4, <1>5, <1>6 DEF Sheet
  <2>2. ASSUME NEW p \in Pages, Begin(p) \/ Sync(p) PROVE Stays
    BY <2>2, <1>7, <1>8, <1>10, <1>12, <1>13, <1>14, <1>15, <1>16, <1>18, <1>21 DEF Sync
  <2>3. ASSUME NEW p \in Pages, SyncFails(p) \/ Close(p) PROVE Stays
    BY <2>3, <1>7, <1>9, <1>11, <1>17, <1>19, <1>20 DEF SyncFails
  <2> QED BY <2>1, <2>2, <2>3, <1>20, <1>22, <1>23 DEF OffGridNext
<1>25. \A q \in Pages : f \notin loop'[q].batch
  BY <1>0, BatchStep
<1> QED BY <1>24, <1>25 DEF Fresh, FreeHands

-----------------------------------------------------------------------------
(* Nothing is lost *)

\* Who is told something, and by which tap.
LEMMA ToldStep ==
    ASSUME Typed, [OffGridNext]_offGridVars, NEW f \in Emergencies, told'[f] # told[f]
    PROVE  \/ \E t \in Types : Raise(f, t)
           \/ AbortDiscard(f) /\ told'[f] = "withdrawn"
           \/ AbortRequest(f) /\ told'[f] # "nothing"
<1>1. ASSUME NEW e \in Emergencies, Sheet(e)
      PROVE  \/ \E t \in Types : Raise(f, t)
             \/ AbortDiscard(f) /\ told'[f] = "withdrawn"
             \/ AbortRequest(f) /\ told'[f] # "nothing"
  BY <1>1 DEF Sheet, Raise, ReviseRead, ReviseWrite, AbortRead, AbortDiscard, AbortLook, AbortCancel,
              AbortCancelFails, AbortRequest, Typed
<1>2. ASSUME NEW e \in Emergencies, Elapse(e) PROVE told' = told
  BY <1>2 DEF Elapse
<1>3. ASSUME NEW p \in Pages, Begin(p) \/ Sync(p) PROVE told' = told
  BY <1>3 DEF Begin, Sync, ReadDue, Send, Arrive, EndLoop, MarkSyncing, Named, Synced, Look, SyncCancel,
              Alert, MarkFailed
<1>4. ASSUME NEW p \in Pages, SyncFails(p) \/ Close(p) \/ \E e \in Emergencies : AlertAgain(p, e)
      PROVE  told' = told
  BY <1>4 DEF SyncFails, NotSignedIn, NoAnswer, SyncCancelFails, AlertFails, AlertAgainFails, Close, AlertAgain
<1>5. ASSUME NEW i \in strays, StrayArrives(i) \/ StrayLost(i) PROVE told' = told
  BY <1>5 DEF StrayArrives, StrayLost
<1> QED BY <1>1, <1>2, <1>3, <1>4, <1>5 DEF OffGridNext, offGridVars

\* Only the sheet, and a closed tab, touch what a person has in hand.
LEMMA HandsStep ==
    ASSUME Typed, HandsKept, [OffGridNext]_offGridVars
    PROVE  HandsKept'
<1>1. ASSUME UNCHANGED <<taps, told>> PROVE HandsKept'
  BY <1>1 DEF HandsKept, taps
<1>2. ASSUME NEW e \in Emergencies, NEW t \in Types, Raise(e, t) PROVE HandsKept'
  BY <1>2 DEF Raise, HandsKept, taps, Typed
<1>3. ASSUME NEW e \in Emergencies, NEW t \in Types, ReviseRead(e, t) PROVE HandsKept'
  BY <1>3 DEF ReviseRead, FreeHands, HandsKept, Typed
<1>4. ASSUME NEW e \in Emergencies, ReviseWrite(e) PROVE HandsKept'
  BY <1>4 DEF ReviseWrite, HandsKept, Typed
<1>5. ASSUME NEW e \in Emergencies, AbortRead(e) PROVE HandsKept'
  BY <1>5 DEF AbortRead, FreeHands, HandsKept, Typed
<1>6. ASSUME NEW e \in Emergencies, AbortDiscard(e) PROVE HandsKept'
  BY <1>6 DEF AbortDiscard, HandsKept, Typed
<1>7. ASSUME NEW e \in Emergencies, AbortLook(e) \/ AbortCancel(e) \/ AbortCancelFails(e) PROVE HandsKept'
  BY <1>7 DEF AbortLook, AbortCancel, AbortCancelFails, HandsKept, Typed
<1>8. ASSUME NEW e \in Emergencies, AbortRequest(e) PROVE HandsKept'
  BY <1>8 DEF AbortRequest, HandsKept, Typed
<1>9. ASSUME NEW p \in Pages, Close(p) PROVE HandsKept'
  BY <1>9 DEF Close, HandsKept, taps
<1>10. ASSUME NEW e \in Emergencies, Elapse(e) PROVE UNCHANGED <<taps, told>>
  BY <1>10 DEF Elapse
<1>11. ASSUME NEW p \in Pages, Begin(p) \/ Sync(p) PROVE UNCHANGED <<taps, told>>
  BY <1>11 DEF Begin, Sync, ReadDue, Send, Arrive, EndLoop, MarkSyncing, Named, Synced, Look, SyncCancel,
               Alert, MarkFailed
<1>12. ASSUME NEW p \in Pages, SyncFails(p) \/ \E e \in Emergencies : AlertAgain(p, e)
       PROVE  UNCHANGED <<taps, told>>
  BY <1>12 DEF SyncFails, NotSignedIn, NoAnswer, SyncCancelFails, AlertFails, AlertAgainFails, AlertAgain
<1>13. ASSUME NEW i \in strays, StrayArrives(i) \/ StrayLost(i) PROVE UNCHANGED <<taps, told>>
  BY <1>13 DEF StrayArrives, StrayLost
<1>14. ASSUME NEW e \in Emergencies, Sheet(e) PROVE HandsKept'
  BY <1>14, <1>2, <1>3, <1>4, <1>5, <1>6, <1>7, <1>8 DEF Sheet
<1> QED BY <1>1, <1>9, <1>10, <1>11, <1>12, <1>13, <1>14 DEF OffGridNext, offGridVars

\* An entry goes when its owner withdraws it, or when the server has its emergency.
LEMMA EntryStep ==
    ASSUME Typed, OnServer, [OffGridNext]_offGridVars, NEW f \in Emergencies, job[f] # NoJob, job'[f] = NoJob
    PROVE  AbortDiscard(f) \/ server[f] # NotThere
<1> DEFINE Goal == AbortDiscard(f) \/ server[f] # NotThere
<1>0. job[f] \in Jobs
  BY RowFields
<1>1. ASSUME job' = job PROVE Goal
  BY <1>1
<1>2. ASSUME NEW e \in Emergencies, NEW t \in Types, Raise(e, t) PROVE Goal
  BY <1>2, <1>0 DEF Raise, Store, NoJob, LOCAL_, Typed, StoresTyped
<1>3. ASSUME NEW e \in Emergencies, ReviseWrite(e) PROVE Goal
  BY <1>3, <1>0 DEF ReviseWrite, Store, NoJob, LOCAL_, Typed, StoresTyped
<1>4. ASSUME NEW e \in Emergencies, AbortDiscard(e) PROVE Goal
  BY <1>4 DEF AbortDiscard, Typed, StoresTyped
<1>5. ASSUME NEW e \in Emergencies, Elapse(e) PROVE Goal
  BY <1>5, <1>0 DEF Elapse, Typed, StoresTyped, Jobs, NoJob
<1>6. ASSUME NEW p \in Pages, NEW e \in Emergencies, MarkSyncing(p, e) PROVE Goal
  <2>1. job' \in {job, [job EXCEPT ![e].status = "SYNCING"]}
    BY <1>6 DEF MarkSyncing, device
  <2>2. e # f => job'[f] = job[f]
    BY <2>1 DEF Typed, StoresTyped
  <2>3. job'[f] = job[f] \/ job'[f].status = "SYNCING"
    BY <2>1, <2>2, <1>0 DEF Typed, StoresTyped, Jobs
  <2> QED BY <2>3, <1>0 DEF NoJob
<1>7. ASSUME NEW p \in Pages, NEW e \in Emergencies, Named(p, e) PROVE Goal
  BY <1>7, <1>0 DEF Named, Typed, StoresTyped, Jobs, NoJob
<1>8. ASSUME NEW p \in Pages, NEW e \in Emergencies, MarkFailed(p, e) PROVE Goal
  <2>1. PICK n, d : job' \in {job, [job EXCEPT ![e].status = FAILED, ![e].retries = n, ![e].due = d]}
    BY <1>8 DEF MarkFailed, device
  <2>2. e # f => job'[f] = job[f]
    BY <2>1 DEF Typed, StoresTyped
  <2>3. job'[f] = job[f] \/ job'[f].status = FAILED
    BY <2>1, <2>2, <1>0 DEF Typed, StoresTyped, Jobs
  <2> QED BY <2>3, <1>0 DEF NoJob, FAILED
<1>9. ASSUME NEW p \in Pages, NEW e \in Emergencies, Synced(p, e) PROVE Goal
  BY <1>9 DEF Synced, LoopAt, Of, Handling, OnServer, Answered, Typed, StoresTyped
<1>10. ASSUME NEW e \in Emergencies, Sheet(e) PROVE Goal
  <2>1. ASSUME NEW t \in Types, ReviseRead(e, t) \/ AbortRead(e) \/ AbortLook(e) \/ AbortCancel(e)
                                \/ AbortCancelFails(e) \/ AbortRequest(e)
        PROVE  job' = job
    BY <2>1 DEF ReviseRead, AbortRead, AbortLook, AbortCancel, AbortCancelFails, AbortRequest, device
  <2>2. AbortRead(e) \/ AbortLook(e) \/ AbortCancel(e) \/ AbortCancelFails(e) \/ AbortRequest(e) => job' = job
    BY DEF AbortRead, AbortLook, AbortCancel, AbortCancelFails, AbortRequest, device
  <2> QED BY <1>10, <2>1, <2>2, <1>1, <1>2, <1>3, <1>4 DEF Sheet
<1>11. ASSUME NEW p \in Pages, Begin(p) \/ Sync(p) PROVE Goal
  <2>1. Begin(p) \/ ReadDue(p) \/ Send(p) \/ Arrive(p) \/ EndLoop(p) => job' = job
    BY DEF Begin, ReadDue, Send, Arrive, EndLoop, device
  <2>2. ASSUME NEW e \in Emergencies, Look(p, e) \/ SyncCancel(p, e) \/ Alert(p, e) PROVE job' = job
    BY <2>2 DEF Look, SyncCancel, Alert, device
  <2> QED BY <1>11, <2>1, <2>2, <1>1, <1>6, <1>7, <1>8, <1>9 DEF Sync
<1>12. ASSUME NEW p \in Pages, SyncFails(p) \/ Close(p) \/ \E e \in Emergencies : AlertAgain(p, e)
       PROVE  job' = job
  BY <1>12 DEF SyncFails, NotSignedIn, NoAnswer, SyncCancelFails, AlertFails, AlertAgainFails, Close,
               AlertAgain, device
<1>13. ASSUME NEW i \in strays, StrayArrives(i) \/ StrayLost(i) PROVE job' = job
  BY <1>13 DEF StrayArrives, StrayLost, device
<1> HIDE DEF Goal
<1>14. UNCHANGED offGridVars => job' = job
  BY DEF offGridVars, device
<1>15. Goal
  BY <1>1, <1>5, <1>10, <1>11, <1>12, <1>13, <1>14 DEF OffGridNext
<1> QED BY <1>15 DEF Goal

Carried == Typed /\ OnServer /\ FreshKept /\ HandsKept /\ NothingLost

LEMMA CarriedInit == OffGridInit => Carried
<1> SUFFICES ASSUME OffGridInit PROVE Carried
  OBVIOUS
<1>1. Typed
  BY TypedInit
<1>2. OnServer
  BY DEF OffGridInit, OnServer, IdleLoop, Handling
<1>3. FreshKept
  BY DEF OffGridInit, FreshKept, Fresh, FreeHands, IdleLoop
<1> QED BY <1>1, <1>2, <1>3 DEF OffGridInit, Carried, HandsKept, NothingLost

LEMMA CarriedStep == Carried /\ [OffGridNext]_offGridVars => Carried'
<1> SUFFICES ASSUME Carried, [OffGridNext]_offGridVars PROVE Carried'
  OBVIOUS
<1>1. Typed' /\ OnServer' /\ HandsKept'
  BY TypedStep, OnServerStep, HandsStep DEF Carried
<1>2. FreshKept'
  <2>1. ASSUME NEW f \in Emergencies, told'[f] = "nothing" PROVE Fresh(f)'
    <3>1. told[f] = "nothing"
      BY <2>1, ToldStep DEF Carried, Raise, Typed
    <3> QED BY <2>1, <3>1, FreshStep DEF Carried, FreshKept
  <2> QED BY <2>1 DEF FreshKept
<1>3. NothingLost'
  <2>1. ASSUME NEW f \in Emergencies, told'[f] \notin {"nothing", "withdrawn"}
        PROVE  job'[f] # NoJob \/ server'[f] # NotThere
    <3>1. CASE \E t \in Types : Raise(f, t)
      BY <3>1 DEF Raise, Store, NoJob, LOCAL_, Carried, Typed, StoresTyped
    <3>2. CASE ~ \E t \in Types : Raise(f, t)
      <4>1. ~AbortDiscard(f)
        BY <2>1 DEF AbortDiscard, Carried, Typed
      <4>2. told[f] \notin {"nothing", "withdrawn"}
        <5>1. CASE told'[f] = told[f]
          BY <2>1, <5>1
        <5>2. CASE AbortRequest(f)
          BY <5>2 DEF AbortRequest, Carried, HandsKept
        <5> QED BY <3>2, <4>1, <5>1, <5>2, ToldStep DEF Carried
      <4>3. job[f] # NoJob \/ server[f] # NotThere
        BY <4>2 DEF Carried, NothingLost
      <4> QED BY <4>1, <4>3, EntryStep, ServerGrows DEF Carried
    <3> QED BY <3>1, <3>2
  <2> QED BY <2>1 DEF NothingLost
<1> QED BY <1>1, <1>2, <1>3 DEF Carried

-----------------------------------------------------------------------------
(* Which steps touch one emergency *)

LEMMA DeviceStep ==
    ASSUME Typed, [OffGridNext]_offGridVars, NEW f \in Emergencies
    PROVE  \/ row'[f] = row[f] /\ job'[f] = job[f]
           \/ \E t \in Types : Raise(f, t)
           \/ ReviseWrite(f) \/ AbortDiscard(f) \/ AbortRequest(f) \/ Elapse(f)
           \/ /\ Undisturbed
              /\ \E p \in Pages : MarkSyncing(p, f) \/ Named(p, f) \/ Synced(p, f) \/ Look(p, f)
                                 \/ SyncCancel(p, f) \/ MarkFailed(p, f) \/ EndLoop(p)
<1> DEFINE Same == row'[f] = row[f] /\ job'[f] = job[f]
<1>1. ASSUME NEW e \in Emergencies, e # f, Sheet(e) \/ Elapse(e) PROVE Same
  <2>1. ASSUME NEW t \in Types, Raise(e, t) \/ ReviseRead(e, t) PROVE Same
    BY <1>1, <2>1 DEF Raise, Store, ReviseRead, device, Typed, StoresTyped
  <2>2. ASSUME ReviseWrite(e) \/ AbortDiscard(e) PROVE Same
    BY <1>1, <2>2 DEF ReviseWrite, Store, AbortDiscard, Typed, StoresTyped
  <2>3. ASSUME AbortRead(e) \/ AbortLook(e) \/ AbortCancel(e) \/ AbortCancelFails(e) PROVE Same
    BY <2>3 DEF AbortRead, AbortLook, AbortCancel, AbortCancelFails, device
  <2>4. ASSUME AbortRequest(e) \/ Elapse(e) PROVE Same
    BY <1>1, <2>4 DEF AbortRequest, SetCancel, Elapse, Typed, StoresTyped
  <2> QED BY <1>1, <2>1, <2>2, <2>3, <2>4 DEF Sheet
<1>2. ASSUME NEW t \in Types, ReviseRead(f, t) \/ AbortRead(f) \/ AbortLook(f) \/ AbortCancel(f)
                              \/ AbortCancelFails(f)
      PROVE  Same
  BY <1>2 DEF ReviseRead, AbortRead, AbortLook, AbortCancel, AbortCancelFails, device
<1>3. AbortRead(f) \/ AbortLook(f) \/ AbortCancel(f) \/ AbortCancelFails(f) => Same
  BY DEF AbortRead, AbortLook, AbortCancel, AbortCancelFails, device
<1>4. ASSUME NEW p \in Pages, Begin(p) \/ ReadDue(p) \/ Send(p) \/ Arrive(p) PROVE Same
  BY <1>4 DEF Begin, ReadDue, Send, Arrive, device
<1>5. ASSUME NEW p \in Pages, NEW e \in Emergencies, e # f,
             MarkSyncing(p, e) \/ Named(p, e) \/ Synced(p, e) \/ MarkFailed(p, e)
      PROVE  Same
  <2>1. CASE MarkSyncing(p, e)
    BY <1>5, <2>1 DEF MarkSyncing, device, Typed, StoresTyped
  <2>2. CASE Named(p, e)
    BY <1>5, <2>2 DEF Named, Typed, StoresTyped
  <2>3. CASE Synced(p, e)
    BY <1>5, <2>3 DEF Synced, Typed, StoresTyped
  <2>4. CASE MarkFailed(p, e)
    BY <1>5, <2>4 DEF MarkFailed, device, Typed, StoresTyped
  <2> QED BY <1>5, <2>1, <2>2, <2>3, <2>4
<1>6. ASSUME NEW p \in Pages, NEW e \in Emergencies, e # f, Look(p, e) \/ SyncCancel(p, e) PROVE Same
  BY <1>6 DEF Look, SyncCancel, SetCancel, Typed, StoresTyped
<1>7. ASSUME NEW p \in Pages, NEW e \in Emergencies,
             Alert(p, e) \/ AlertAgain(p, e) \/ SyncFails(p) \/ Close(p)
      PROVE  Same
  BY <1>7 DEF Alert, AlertAgain, SyncFails, NotSignedIn, NoAnswer, SyncCancelFails, AlertFails,
              AlertAgainFails, Close, device
<1>8. ASSUME NEW i \in strays, StrayArrives(i) \/ StrayLost(i) PROVE Same
  BY <1>8 DEF StrayArrives, StrayLost, device
<1>9. UNCHANGED offGridVars => Same
  BY DEF offGridVars, device
<1>10. ASSUME NEW p \in Pages, SyncFails(p) \/ Close(p) PROVE Same
  BY <1>7, <1>10
<1> DEFINE Touched == \/ \E t \in Types : Raise(f, t)
                      \/ ReviseWrite(f) \/ AbortDiscard(f) \/ AbortRequest(f) \/ Elapse(f)
                      \/ /\ Undisturbed
                         /\ \E p \in Pages :
                              \/ MarkSyncing(p, f) \/ Named(p, f) \/ Synced(p, f) \/ Look(p, f)
                              \/ SyncCancel(p, f) \/ MarkFailed(p, f) \/ EndLoop(p)
<1>11. ASSUME Sheet(f) \/ Elapse(f) PROVE Same \/ Touched
  BY <1>2, <1>3, <1>11 DEF Sheet
<1>12. ASSUME NEW p \in Pages, Undisturbed, Begin(p) \/ Sync(p) PROVE Same \/ Touched
  BY <1>4, <1>5, <1>6, <1>7, <1>12 DEF Sync
<1> HIDE DEF Same, Touched
<1>13. Same \/ Touched
  BY <1>1, <1>7, <1>8, <1>9, <1>10, <1>11, <1>12 DEF OffGridNext
<1> QED BY <1>13 DEF Same, Touched

\* What brings an emergency to the alert, and what has it tried again.
LEMMA AlertStep ==
    ASSUME Typed, [OffGridNext]_offGridVars, NEW f \in Emergencies
    PROVE  /\ server'[f].status = "RESPONDING" =>
                server[f].status = "RESPONDING" \/ \E p \in Pages : Alert(p, f) \/ AlertAgain(p, f)
           /\ \A p \in Pages : again'[p][f] # 0 => again[p][f] # 0 \/ AlertFails(p, f)
<1> DEFINE Quiet == /\ server'[f].status = "RESPONDING" => server[f].status = "RESPONDING"
                    /\ \A p \in Pages : again'[p][f] # 0 => again[p][f] # 0
<1>1. ASSUME UNCHANGED <<server, again>> PROVE Quiet
  BY <1>1
<1>2. ASSUME NEW items, server' = Recorded(items), UNCHANGED again PROVE Quiet
  BY <1>2 DEF Recorded
<1>3. ASSUME NEW e \in Emergencies, CancelOpen(e), UNCHANGED again PROVE Quiet
  BY <1>3 DEF CancelOpen, Typed, StillOpen
<1>4. ASSUME NEW p \in Pages, NEW e \in Emergencies, e # f,
             Alert(p, e) \/ AlertAgain(p, e) \/ AlertFails(p, e) PROVE Quiet
  BY <1>4 DEF Alert, AlertAgain, AlertFails, Confirmed, Typed
<1>5. ASSUME NEW p \in Pages, NEW e \in Emergencies, AlertAgainFails(p, e) PROVE Quiet
  BY <1>5 DEF AlertAgainFails, Typed
<1>6. ASSUME NEW p \in Pages, Close(p) PROVE Quiet
  BY <1>6 DEF Close, Typed
<1>7. ASSUME NEW p \in Pages, Alert(p, f) \/ AlertAgain(p, f)
      PROVE  \A q \in Pages : again'[q][f] # 0 => again[q][f] # 0
  BY <1>7 DEF Alert, AlertAgain, Typed
<1>8. ASSUME NEW p \in Pages, AlertFails(p, f)
      PROVE  server' = server /\ \A q \in Pages \ {p} : again'[q][f] = again[q][f]
  BY <1>8 DEF AlertFails, Typed
<1>9. ASSUME NEW e \in Emergencies, Sheet(e) \/ Elapse(e)
      PROVE  UNCHANGED again /\ (server' = server \/ CancelOpen(e))
  BY <1>9 DEF Sheet, Raise, ReviseRead, ReviseWrite, AbortRead, AbortDiscard, AbortLook, AbortCancel,
              AbortCancelFails, AbortRequest, Elapse
<1>10. ASSUME NEW p \in Pages, Begin(p) \/ Sync(p)
       PROVE  Quiet \/ \E e \in Emergencies : Alert(p, e)
  <2>1. Begin(p) \/ ReadDue(p) \/ Send(p) \/ EndLoop(p) => UNCHANGED <<server, again>>
    BY DEF Begin, ReadDue, Send, EndLoop
  <2>2. Arrive(p) => UNCHANGED again /\ server' = Recorded(wire[p])
    BY DEF Arrive
  <2>3. ASSUME NEW e \in Emergencies,
               MarkSyncing(p, e) \/ Named(p, e) \/ Synced(p, e) \/ Look(p, e) \/ MarkFailed(p, e)
        PROVE  UNCHANGED <<server, again>>
    BY <2>3 DEF MarkSyncing, Named, Synced, Look, MarkFailed
  <2>4. ASSUME NEW e \in Emergencies, SyncCancel(p, e) PROVE UNCHANGED again /\ CancelOpen(e)
    BY <2>4 DEF SyncCancel
  <2>5. ASSUME Arrive(p) PROVE Quiet
    BY <2>2, <2>5, <1>2
  <2>6. ASSUME NEW e \in Emergencies, SyncCancel(p, e) PROVE Quiet
    BY <2>4, <2>6, <1>3
  <2> HIDE DEF Quiet
  <2> QED BY <1>10, <1>1, <2>1, <2>3, <2>5, <2>6 DEF Sync
<1>11. ASSUME NEW p \in Pages, SyncFails(p)
       PROVE  \/ UNCHANGED <<server, again>>
              \/ \E e \in Emergencies : AlertFails(p, e) \/ AlertAgainFails(p, e)
  BY <1>11 DEF SyncFails, NotSignedIn, NoAnswer, SyncCancelFails
<1>12. ASSUME NEW i \in strays, StrayArrives(i) \/ StrayLost(i)
       PROVE  UNCHANGED again /\ (server' = server \/ server' = Recorded({i}))
  BY <1>12 DEF StrayArrives, StrayLost
<1>13. UNCHANGED offGridVars => UNCHANGED <<server, again>>
  BY DEF offGridVars
<1> HIDE DEF Quiet
<1>14. \/ Quiet
       \/ \E p \in Pages : Alert(p, f) \/ AlertAgain(p, f) \/ AlertFails(p, f)
  BY <1>1, <1>2, <1>3, <1>4, <1>5, <1>6, <1>9, <1>10, <1>11, <1>12, <1>13 DEF OffGridNext
<1> QED BY <1>7, <1>8, <1>14 DEF Quiet

\* How a loop comes to handle an emergency.
LEMMA HandlingStep ==
    ASSUME Typed, [OffGridNext]_offGridVars, NEW f \in Emergencies, NEW p \in Pages, loop'[p].em = {f}
    PROVE  /\ loop'[p].pc \in {"look", "cancel", "alert"} =>
                \/ loop[p].em = {f} /\ loop[p].pc \in {"look", "cancel", "alert"}
                \/ Synced(p, f)
           /\ loop'[p].pc = "alert" =>
                \/ loop[p].em = {f} /\ loop[p].pc = "alert"
                \/ Look(p, f) /\ ~(row[f] # NoRow /\ row[f].cancel)
           /\ loop'[p].pc = "patched" /\ ~loop'[p].found =>
                \/ loop[p].em = {f} /\ loop[p].pc = "patched" /\ ~loop[p].found
                \/ Named(p, f) /\ job[f] = NoJob
<1> DEFINE Goal == /\ loop'[p].pc \in {"look", "cancel", "alert"} =>
                        \/ loop[p].em = {f} /\ loop[p].pc \in {"look", "cancel", "alert"}
                        \/ Synced(p, f)
                   /\ loop'[p].pc = "alert" =>
                        \/ loop[p].em = {f} /\ loop[p].pc = "alert"
                        \/ Look(p, f) /\ ~(row[f] # NoRow /\ row[f].cancel)
                   /\ loop'[p].pc = "patched" /\ ~loop'[p].found =>
                        \/ loop[p].em = {f} /\ loop[p].pc = "patched" /\ ~loop[p].found
                        \/ Named(p, f) /\ job[f] = NoJob
<1>0. loop[p].found \in BOOLEAN
  BY DEF Typed, LoopsTyped, LoopTyped
<1>1. ASSUME loop'[p] = loop[p] PROVE Goal
  <2>1. loop[p].em = {f}
    BY <1>1
  <2>2. loop'[p].pc = loop[p].pc /\ loop'[p].found = loop[p].found
    BY <1>1
  <2>3. loop'[p].pc \in {"look", "cancel", "alert"} => loop[p].em = {f} /\ loop[p].pc \in {"look", "cancel", "alert"}
    BY <2>1, <2>2
  <2>4. loop'[p].pc = "alert" => loop[p].em = {f} /\ loop[p].pc = "alert"
    BY <2>1, <2>2
  <2>5. loop'[p].pc = "patched" /\ ~loop'[p].found => loop[p].em = {f} /\ loop[p].pc = "patched" /\ ~loop[p].found
    BY <1>0, <2>1, <2>2
  <2> QED BY <2>3, <2>4, <2>5
<1>2. ASSUME NEW q \in Pages, q # p, OnlyLoop(q) PROVE Goal
  BY <1>1, <1>2 DEF OnlyLoop
<1>3. ASSUME loop'[p].pc \notin {"look", "cancel", "alert", "patched"} PROVE Goal
  BY <1>3
<1>4. Rests(p) => loop'[p].pc \notin {"look", "cancel", "alert", "patched"}
  BY DEF Rests, IdleLoop
<1>5. ASSUME Begin(p) \/ NotSignedIn(p) \/ Send(p) \/ NoAnswer(p) \/ EndLoop(p) \/ Close(p)
      PROVE  loop'[p].pc \notin {"look", "cancel", "alert", "patched"}
  BY <1>4, <1>5, LoopSteps DEF Going
<1>6. ASSUME ReadDue(p) PROVE loop'[p].pc \notin {"look", "cancel", "alert", "patched"}
  BY <1>4, <1>6, ReadDueSteps
<1>7. ASSUME Arrive(p) PROVE loop'[p].pc \notin {"look", "cancel", "alert", "patched"}
  BY <1>7, ArriveSteps DEF Going
<1>8. ASSUME NEW e \in Emergencies,
             \/ MarkSyncing(p, e) \/ MarkFailed(p, e) \/ SyncCancel(p, e) \/ SyncCancelFails(p, e)
             \/ Alert(p, e) \/ AlertFails(p, e)
      PROVE  loop'[p].pc \notin {"look", "cancel", "alert", "patched"}
  BY <1>8, LoopSteps DEF Going, MarkSyncing, MarkFailed, LoopAt
<1>9. ASSUME NEW e \in Emergencies, Named(p, e) PROVE Goal
  <2>1. loop'[p].pc = "patched" /\ loop'[p].em = {e} /\ loop'[p].found = (job[e] # NoJob)
    BY <1>9, LoopSteps DEF Going
  <2>2. e = f
    BY <2>1
  <2> QED BY <1>9, <2>1, <2>2
<1>10. ASSUME NEW e \in Emergencies, Synced(p, e) PROVE Goal
  <2>1. loop'[p].pc = "look" /\ loop'[p].em = {e}
    BY <1>10, LoopSteps DEF Going, Synced, Of
  <2>2. e = f
    BY <2>1
  <2> QED BY <1>10, <2>1, <2>2
<1>11. ASSUME NEW e \in Emergencies, Look(p, e) PROVE Goal
  BY <1>11, LoopSteps DEF Going, Look, Of, LoopAt
<1>12. ASSUME NEW q \in Pages, NEW e \in Emergencies,
              \/ Begin(q) \/ NotSignedIn(q) \/ Send(q) \/ NoAnswer(q) \/ EndLoop(q) \/ Close(q)
              \/ MarkSyncing(q, e) \/ MarkFailed(q, e) \/ Named(q, e) \/ Synced(q, e) \/ Look(q, e)
              \/ SyncCancel(q, e) \/ SyncCancelFails(q, e) \/ Alert(q, e) \/ AlertFails(q, e)
       PROVE  OnlyLoop(q)
  BY <1>12, LoopSteps DEF Going, Rests
<1>13. ASSUME NEW q \in Pages, ReadDue(q) \/ Arrive(q) PROVE OnlyLoop(q)
  BY <1>13, ReadDueSteps, ArriveSteps DEF Going, Rests
<1>14. ASSUME NEW e \in Emergencies, Sheet(e) \/ Elapse(e) PROVE loop' = loop
  BY <1>14 DEF Sheet, Raise, ReviseRead, ReviseWrite, AbortRead, AbortDiscard, AbortLook, AbortCancel,
               AbortCancelFails, AbortRequest, Elapse
<1>15. ASSUME NEW q \in Pages, NEW e \in Emergencies, AlertAgain(q, e) \/ AlertAgainFails(q, e)
       PROVE  loop' = loop
  BY <1>15 DEF AlertAgain, AlertAgainFails
<1>16. ASSUME NEW i \in strays, StrayArrives(i) \/ StrayLost(i) PROVE loop' = loop
  BY <1>16 DEF StrayArrives, StrayLost
<1>17. UNCHANGED offGridVars => loop' = loop
  BY DEF offGridVars
<1> HIDE DEF Goal
<1>18. ASSUME NEW q \in Pages, Begin(q) \/ Sync(q) \/ SyncFails(q) \/ Close(q) PROVE Goal
  <2>1. CASE q = p
    BY <1>18, <2>1, <1>1, <1>3, <1>5, <1>6, <1>7, <1>8, <1>9, <1>10, <1>11, <1>15 DEF Sync, SyncFails
  <2>2. CASE q # p
    BY <1>18, <2>2, <1>1, <1>2, <1>12, <1>13, <1>15 DEF Sync, SyncFails
  <2> QED BY <2>1, <2>2
<1>19. Goal
  BY <1>1, <1>14, <1>15, <1>16, <1>17, <1>18 DEF OffGridNext
<1> QED BY <1>19 DEF Goal

-----------------------------------------------------------------------------
(* A false alarm stands *)

\* While an edit is on its way no loop takes a step (the hypothesis on SlowEdits), and
\* no tap of its own emergency either.
LEMMA EditsStep ==
    ASSUME Carried, EditsUnsent, ~SlowEdits, [OffGridNext]_offGridVars
    PROVE  EditsUnsent'
<1> SUFFICES ASSUME NEW f \in Emergencies, chip'[f] # IdleChip PROVE row'[f].status \in Unsent
  BY DEF EditsUnsent
<1>0. Typed /\ HandsKept
  BY DEF Carried
<1>1. \/ \E t \in Types : ReviseRead(f, t)
      \/ chip[f] # IdleChip
  <2>1. ASSUME NEW e \in Emergencies, Sheet(e) \/ Elapse(e)
        PROVE  chip'[f] = chip[f] \/ \E t \in Types : ReviseRead(f, t)
    BY <2>1, <1>0 DEF Typed, Sheet, Raise, ReviseRead, ReviseWrite, AbortRead, AbortDiscard, AbortLook,
              AbortCancel, AbortCancelFails, AbortRequest, Elapse, taps
  <2>2. ASSUME NEW p \in Pages, Begin(p) \/ Sync(p) PROVE chip' = chip
    BY <2>2 DEF Begin, Sync, ReadDue, Send, Arrive, EndLoop, MarkSyncing, Named, Synced, Look, SyncCancel,
                Alert, MarkFailed, taps
  <2>3. ASSUME NEW p \in Pages, SyncFails(p) \/ \E e \in Emergencies : AlertAgain(p, e) PROVE chip' = chip
    BY <2>3 DEF SyncFails, NotSignedIn, NoAnswer, SyncCancelFails, AlertFails, AlertAgainFails, AlertAgain, taps
  <2>4. ASSUME NEW p \in Pages, Close(p) PROVE chip'[f] = chip[f]
    BY <2>4 DEF Close, taps
  <2>5. ASSUME NEW i \in strays, StrayArrives(i) \/ StrayLost(i) PROVE chip' = chip
    BY <2>5 DEF StrayArrives, StrayLost, taps
  <2> QED BY <2>1, <2>2, <2>3, <2>4, <2>5 DEF OffGridNext, offGridVars, taps
<1>2. CASE \E t \in Types : ReviseRead(f, t)
  BY <1>2 DEF ReviseRead, device
<1>3. CASE chip[f] # IdleChip
  <2>1. row[f].status \in Unsent /\ told[f] = "stored" /\ abort[f] = "idle"
    BY <1>3, <1>0 DEF EditsUnsent, HandsKept
  <2>2. ~Undisturbed
    BY <1>3 DEF Undisturbed, Editing
  <2>3. ~ \E t \in Types : Raise(f, t)
    BY <2>1 DEF Raise
  <2>4. ~ReviseWrite(f) /\ ~AbortDiscard(f) /\ ~AbortRequest(f)
    BY <2>1, <1>0 DEF ReviseWrite, AbortDiscard, AbortRequest, Typed
  <2>5. Elapse(f) => row' = row
    BY DEF Elapse
  <2> QED BY <1>0, <2>1, <2>2, <2>3, <2>4, <2>5, DeviceStep
<1> QED BY <1>1, <1>2, <1>3

LEMMA CancelMoves ==
    ASSUME Typed, NEW f \in Emergencies, NEW c \in BOOLEAN, SetCancel(f, c)
    PROVE  /\ row'[f] = NoRow <=> row[f] = NoRow
           /\ row[f] # NoRow => /\ row'[f].status = row[f].status /\ row'[f].named = row[f].named
                                /\ row'[f].cancel = c
<1>1. CASE row[f] = NoRow
  BY <1>1 DEF SetCancel
<1>2. CASE row[f] # NoRow
  <2>1. row[f] \in Rows /\ row'[f] = [row[f] EXCEPT !.cancel = c]
    BY <1>2, RowFields DEF SetCancel, Typed, StoresTyped
  <2> QED BY <1>2, <2>1 DEF Rows, NoRow, LOCAL_, FAILED
<1> QED BY <1>1, <1>2

\* What the steps that touch an emergency make of its row and its entry.
LEMMA StoreEffect ==
    ASSUME Typed, NEW f \in Emergencies, NEW t, Store(f, t)
    PROVE  /\ row'[f] # NoRow /\ row'[f].status = LOCAL_ /\ row'[f].named = FALSE
           /\ job'[f] # NoJob
<1>1. /\ row'[f] = [status |-> LOCAL_, type |-> t, cancel |-> FALSE, named |-> FALSE]
      /\ job'[f] = [status |-> LOCAL_, type |-> t, retries |-> 0, due |-> "now"]
  BY DEF Typed, StoresTyped, Store
<1>2. row'[f].status = LOCAL_ /\ row'[f].named = FALSE /\ job'[f].status = LOCAL_
  BY <1>1
<1> QED BY <1>2 DEF NoRow, NoJob, LOCAL_

LEMMA MarkEffect ==
    ASSUME Typed, NEW f \in Emergencies, NEW p \in Pages, MarkSyncing(p, f) \/ MarkFailed(p, f)
    PROVE  /\ job'[f] = NoJob <=> job[f] = NoJob
           /\ \/ row'[f] = row[f]
              \/ /\ job[f] # NoJob /\ row[f] # NoRow /\ row[f].status # "SYNCED"
                 /\ row'[f] # NoRow /\ row'[f].status # "SYNCED"
                 /\ row'[f].named = row[f].named /\ row'[f].cancel = row[f].cancel
<1>1. CASE job[f] = NoJob
  BY <1>1 DEF MarkSyncing, MarkFailed, device
<1>2. CASE job[f] # NoJob
  <2>0. job[f] \in Jobs
    BY <1>2, RowFields
  <2>1. job'[f] # NoJob
    <3>1. CASE MarkSyncing(p, f)
      <4>1. job' = [job EXCEPT ![f].status = "SYNCING"]
        BY <1>2, <3>1 DEF MarkSyncing
      <4>2. job'[f].status = "SYNCING"
        BY <2>0, <4>1 DEF Typed, StoresTyped, Jobs
      <4> QED BY <4>2 DEF NoJob
    <3>2. CASE MarkFailed(p, f)
      <4>1. PICK n, d : job' = [job EXCEPT ![f].status = FAILED, ![f].retries = n, ![f].due = d]
        BY <1>2, <3>2 DEF MarkFailed
      <4>2. job'[f].status = FAILED
        BY <2>0, <4>1 DEF Typed, StoresTyped, Jobs
      <4> QED BY <4>2 DEF NoJob, FAILED
    <3> QED BY <3>1, <3>2
  <2>2. \/ row' = row
        \/ /\ row[f] # NoRow /\ row[f].status # "SYNCED"
           /\ \E s \in {"SYNCING", FAILED} : row' = [row EXCEPT ![f].status = s]
    BY <1>2, RowFields DEF MarkSyncing, MarkFailed, Unsent, NoRow, LOCAL_, FAILED
  <2>3. ASSUME NEW s \in {"SYNCING", FAILED}, row[f] # NoRow, row' = [row EXCEPT ![f].status = s]
        PROVE  /\ row'[f] # NoRow /\ row'[f].status # "SYNCED"
               /\ row'[f].named = row[f].named /\ row'[f].cancel = row[f].cancel
    <3>1. row[f] \in Rows
      BY <2>3, RowFields
    <3>2. /\ row'[f].status = s
          /\ row'[f].named = row[f].named /\ row'[f].cancel = row[f].cancel
      BY <2>3, <3>1 DEF Typed, StoresTyped, Rows
    <3> QED BY <3>2 DEF NoRow, FAILED
  <2> QED BY <1>2, <2>1, <2>2, <2>3
<1> QED BY <1>1, <1>2

LEMMA SyncedEffect ==
    ASSUME Typed, NEW f \in Emergencies, NEW p \in Pages, Synced(p, f)
    PROVE  /\ loop[p].em = {f} /\ loop[p].pc = "patched"
           /\ job'[f] = NoJob
           /\ \/ row'[f] = row[f] /\ (~loop[p].found \/ row[f] = NoRow)
              \/ /\ row[f] # NoRow /\ row'[f] # NoRow
                 /\ row'[f].status = "SYNCED" /\ row'[f].named /\ row'[f].cancel = row[f].cancel
<1>1. loop[p].em = {f} /\ loop[p].pc = "patched" /\ job'[f] = NoJob
  BY DEF Synced, LoopAt, Of, Typed, StoresTyped
<1>2. CASE loop[p].found /\ row[f] # NoRow
  <2>1. row[f] \in Rows /\ row' = [row EXCEPT ![f].status = "SYNCED", ![f].named = TRUE]
    BY <1>2, RowFields DEF Synced
  <2>2. row'[f].status = "SYNCED" /\ row'[f].named = TRUE /\ row'[f].cancel = row[f].cancel
    BY <2>1 DEF Typed, StoresTyped, Rows
  <2> QED BY <1>1, <1>2, <2>2 DEF NoRow
<1>3. CASE ~(loop[p].found /\ row[f] # NoRow)
  BY <1>1, <1>3 DEF Synced
<1> QED BY <1>2, <1>3

LEMMA NamedEffect ==
    ASSUME Typed, NEW f \in Emergencies, (\E p \in Pages : Named(p, f)) \/ Elapse(f)
    PROVE  row'[f] = row[f] /\ (job'[f] = NoJob <=> job[f] = NoJob)
<1>1. CASE job[f] = NoJob
  BY <1>1 DEF Named, Elapse
<1>2. CASE job[f] # NoJob
  <2>1. job[f] \in Jobs
    BY <1>2, RowFields
  <2>2. /\ row' = row
        /\ \/ job' = [job EXCEPT ![f].status = "SYNCED"]
           \/ job' = [job EXCEPT ![f].due = "now"]
    BY <1>2 DEF Named, Elapse
  <2>3. job'[f].status \in {job[f].status, "SYNCED"}
    BY <2>1, <2>2 DEF Typed, StoresTyped, Jobs
  <2> QED BY <1>2, <2>1, <2>2, <2>3 DEF NoJob, Jobs, LOCAL_, FAILED
<1> QED BY <1>1, <1>2

\* A pending false alarm is cleared once the incident is closed.
LEMMA ClearedEffect ==
    ASSUME Typed, OnServer, NEW f \in Emergencies, NEW p \in Pages, Look(p, f) \/ SyncCancel(p, f)
    PROVE  /\ job'[f] = job[f]
           /\ \/ row'[f] = row[f]
              \/ SetCancel(f, FALSE) /\ (server[f].status = "CANCELLED" \/ server'[f].status = "CANCELLED")
<1>1. CASE Look(p, f)
  <2>1. loop[p].answer[f].open \/ server[f].status = "CANCELLED"
    BY <1>1 DEF Look, LoopAt, Of, Handling, OnServer, Answered
  <2> QED BY <1>1, <2>1 DEF Look
<1>2. CASE SyncCancel(p, f)
  <2>1. server[f].status \in StillOpen => server'[f].status = "CANCELLED"
    BY <1>2 DEF SyncCancel, CancelOpen, Typed, Incident, NotThere, StillOpen
  <2> QED BY <1>2, <2>1 DEF SyncCancel
<1> QED BY <1>1, <1>2

LEMMA PurgeEffect ==
    ASSUME Typed, NEW f \in Emergencies, NEW p \in Pages, EndLoop(p)
    PROVE  /\ job'[f] = job[f]
           /\ \/ row'[f] = row[f]
              \/ row'[f] = NoRow /\ row[f].status = "SYNCED" /\ AtRest(f, p)
  BY DEF EndLoop

\* A step leaves a row and its entry in keeping with each other.
LEMMA RowsStep ==
    ASSUME Carried, RowsKept, NamedFirst, [OffGridNext]_offGridVars
    PROVE  RowsKept'
<1> DEFINE Kept(r, j) == /\ r # NoRow /\ r.named => r.status = "SYNCED"
                         /\ r.status = "SYNCED" => j = NoJob
                         /\ j = NoJob => (r # NoRow => r.named)
<1> SUFFICES ASSUME NEW f \in Emergencies PROVE Kept(row'[f], job'[f])
  BY DEF RowsKept, NamedOrGone
<1>0. Typed /\ OnServer /\ Kept(row[f], job[f])
  BY DEF Carried, RowsKept, NamedOrGone
<1>1. ASSUME row'[f] = row[f], job'[f] = NoJob <=> job[f] = NoJob PROVE Kept(row'[f], job'[f])
  BY <1>0, <1>1
<1>2. ASSUME NEW t, Store(f, t) PROVE Kept(row'[f], job'[f])
  BY <1>0, <1>2, StoreEffect DEF LOCAL_
<1>3. ASSUME NEW c \in BOOLEAN, SetCancel(f, c), job'[f] = job[f] PROVE Kept(row'[f], job'[f])
  BY <1>0, <1>3, CancelMoves DEF NoRow
<1>4. ASSUME AbortDiscard(f) PROVE Kept(row'[f], job'[f])
  BY <1>0, <1>4 DEF AbortDiscard, NoRow, Typed, StoresTyped
<1>5. ASSUME NEW p \in Pages, MarkSyncing(p, f) \/ MarkFailed(p, f) PROVE Kept(row'[f], job'[f])
  BY <1>0, <1>5, MarkEffect
<1>6. ASSUME NEW p \in Pages, Synced(p, f) PROVE Kept(row'[f], job'[f])
  BY <1>0, <1>6, SyncedEffect DEF NamedFirst, NamedOrGone
<1>7. ASSUME NEW p \in Pages, EndLoop(p) PROVE Kept(row'[f], job'[f])
  BY <1>0, <1>7, PurgeEffect DEF NoRow
<1>8. ASSUME NEW p \in Pages, Look(p, f) \/ SyncCancel(p, f) PROVE Kept(row'[f], job'[f])
  BY <1>0, <1>1, <1>3, <1>8, ClearedEffect
<1>9. ASSUME AbortRequest(f) PROVE Kept(row'[f], job'[f])
  BY <1>3, <1>9 DEF AbortRequest
<1>10. ASSUME NEW t \in Types, Raise(f, t) PROVE Kept(row'[f], job'[f])
  BY <1>2, <1>10 DEF Raise
<1>11. ASSUME ReviseWrite(f) PROVE Kept(row'[f], job'[f])
  BY <1>2, <1>11 DEF ReviseWrite
<1>12. ASSUME (\E p \in Pages : Named(p, f)) \/ Elapse(f) PROVE Kept(row'[f], job'[f])
  BY <1>0, <1>1, <1>12, NamedEffect
<1> HIDE DEF Kept
<1> QED BY <1>0, <1>1, <1>4, <1>5, <1>6, <1>7, <1>8, <1>9, <1>10, <1>11, <1>12, DeviceStep

\* A row that is named, or gone, stays so: what an edit stores anew was not sent yet.
LEMMA NamedStep ==
    ASSUME Carried, EditsUnsent, RowsKept, [OffGridNext]_offGridVars,
           NEW f \in Emergencies, told[f] # "nothing", NamedOrGone(f)
    PROVE  NamedOrGone(f)'
<1>0. Typed /\ OnServer
  BY DEF Carried
<1>1. ASSUME row'[f] = row[f] PROVE NamedOrGone(f)'
  BY <1>1 DEF NamedOrGone
<1>2. ASSUME NEW c \in BOOLEAN, SetCancel(f, c) PROVE NamedOrGone(f)'
  BY <1>0, <1>2, CancelMoves DEF NamedOrGone
<1>3. ~ \E t \in Types : Raise(f, t)
  BY DEF Raise
<1>4. ~ReviseWrite(f)
  <2>1. SUFFICES ASSUME ReviseWrite(f) PROVE FALSE
    OBVIOUS
  <2>2. chip[f] # IdleChip
    BY <2>1 DEF ReviseWrite, IdleChip
  <2>3. row[f].status \in Unsent /\ row[f] # NoRow
    BY <2>2 DEF EditsUnsent, NoRow, Unsent, LOCAL_, FAILED
  <2> QED BY <2>3 DEF RowsKept, NamedOrGone, Unsent, LOCAL_, FAILED
<1>5. ASSUME AbortDiscard(f) PROVE NamedOrGone(f)'
  BY <1>0, <1>5 DEF AbortDiscard, NamedOrGone, Typed, StoresTyped
<1>6. ASSUME AbortRequest(f) PROVE NamedOrGone(f)'
  BY <1>2, <1>6 DEF AbortRequest
<1>7. ASSUME (\E p \in Pages : Named(p, f)) \/ Elapse(f) PROVE NamedOrGone(f)'
  BY <1>0, <1>1, <1>7, NamedEffect
<1>8. ASSUME NEW p \in Pages, MarkSyncing(p, f) \/ MarkFailed(p, f) PROVE NamedOrGone(f)'
  BY <1>0, <1>8, MarkEffect DEF NamedOrGone
<1>9. ASSUME NEW p \in Pages, Synced(p, f) PROVE NamedOrGone(f)'
  BY <1>0, <1>9, SyncedEffect DEF NamedOrGone
<1>10. ASSUME NEW p \in Pages, Look(p, f) \/ SyncCancel(p, f) PROVE NamedOrGone(f)'
  BY <1>0, <1>1, <1>2, <1>10, ClearedEffect
<1>11. ASSUME NEW p \in Pages, EndLoop(p) PROVE NamedOrGone(f)'
  BY <1>0, <1>11, PurgeEffect DEF NamedOrGone
<1> QED BY <1>0, <1>1, <1>3, <1>4, <1>5, <1>6, <1>7, <1>8, <1>9, <1>10, <1>11, DeviceStep

LEMMA NamedFirstStep ==
    ASSUME Carried, EditsUnsent, RowsKept, NamedFirst, [OffGridNext]_offGridVars
    PROVE  NamedFirst'
<1> DEFINE Behind(f) == \/ server[f].status = "RESPONDING"
                        \/ \E p \in Pages :
                             \/ again[p][f] # 0
                             \/ /\ loop[p].em = {f}
                                /\ \/ loop[p].pc \in {"look", "cancel", "alert"}
                                   \/ loop[p].pc = "patched" /\ ~loop[p].found
<1>0. Typed /\ FreshKept /\ \A f \in Emergencies : Behind(f) => NamedOrGone(f)
  BY DEF Carried, NamedFirst
<1> SUFFICES ASSUME NEW f \in Emergencies, Behind(f)' PROVE NamedOrGone(f)'
  BY DEF NamedFirst
<1>1. CASE told[f] = "nothing"
  <2>1. Fresh(f)
    BY <1>0, <1>1 DEF FreshKept
  <2>2. Fresh(f)' => ~Behind(f)'
    <3>1. Typed'
      BY <1>0, TypedStep
    <3> QED BY <3>1 DEF Fresh, Typed, LoopsTyped, LoopTyped, NotThere
  <2>3. ~Behind(f)
    BY <2>1, <1>0 DEF Fresh, Typed, LoopsTyped, LoopTyped, NotThere
  <2>4. ASSUME NEW t \in Types, Raise(f, t) PROVE FALSE
    <3>1. server' = server /\ again' = again /\ loop' = loop
      BY <2>4 DEF Raise
    <3>2. Behind(f)
      BY <3>1
    <3> QED BY <2>3, <3>2
  <2>5. CASE told'[f] = told[f]
    BY <1>0, <1>1, <2>1, <2>2, <2>5, FreshStep
  <2>6. CASE told'[f] # told[f]
    <3>1. AbortDiscard(f) \/ AbortRequest(f) => told[f] = "stored"
      BY DEF AbortDiscard, AbortRequest, Carried, HandsKept
    <3> QED BY <1>0, <1>1, <2>4, <2>6, <3>1, ToldStep
  <2> QED BY <2>5, <2>6
<1>2. CASE told[f] # "nothing"
  <2>1. ASSUME NamedOrGone(f) PROVE NamedOrGone(f)'
    BY <1>2, <2>1, NamedStep
  <2>2. ASSUME Behind(f) PROVE NamedOrGone(f)'
    BY <1>0, <2>1, <2>2
  <2>3. ASSUME NEW p \in Pages, Alert(p, f) \/ AlertFails(p, f) PROVE Behind(f)
    BY <2>3 DEF Alert, AlertFails, LoopAt, Of
  <2>4. ASSUME NEW p \in Pages, AlertAgain(p, f) PROVE Behind(f)
    BY <2>4, OffGridAssumption DEF AlertAgain
  <2>5. ASSUME NEW p \in Pages, Synced(p, f) PROVE NamedOrGone(f)'
    <3>1. CASE row'[f] = row[f] /\ ~loop[p].found
      BY <1>0, <2>2, <2>5, <3>1, SyncedEffect
    <3>2. CASE row'[f] = row[f] /\ row[f] = NoRow
      BY <3>2 DEF NamedOrGone
    <3>3. CASE row'[f].named
      BY <3>3 DEF NamedOrGone
    <3> QED BY <1>0, <2>5, <3>1, <3>2, <3>3, SyncedEffect
  <2>6. ASSUME job[f] = NoJob PROVE NamedOrGone(f)'
    BY <2>1, <2>6 DEF RowsKept
  <2>7. CASE server'[f].status = "RESPONDING"
    BY <1>0, <2>2, <2>3, <2>4, <2>7, AlertStep
  <2>8. ASSUME NEW p \in Pages, again'[p][f] # 0 PROVE NamedOrGone(f)'
    BY <1>0, <2>2, <2>3, <2>8, AlertStep
  <2>9. ASSUME NEW p \in Pages, loop'[p].em = {f}, loop'[p].pc \in {"look", "cancel", "alert"}
        PROVE  NamedOrGone(f)'
    BY <1>0, <2>2, <2>5, <2>9, HandlingStep
  <2>10. ASSUME NEW p \in Pages, loop'[p].em = {f}, loop'[p].pc = "patched", ~loop'[p].found
         PROVE  NamedOrGone(f)'
    BY <1>0, <2>2, <2>6, <2>10, HandlingStep
  <2> QED BY <2>7, <2>8, <2>9, <2>10
<1> QED BY <1>1, <1>2

\* The promise is made before the device has named the incident, and so before anything
\* is escalated; from then on every way to the alert reads the row that holds it.
LEMMA PromiseMade ==
    ASSUME Carried, NamedFirst, [OffGridNext]_offGridVars, NEW f \in Emergencies, AbortRequest(f), told'[f] = "promised"
    PROVE  Withdrawing(f)'
<1>0. Typed
  BY DEF Carried
<1>1. row[f] # NoRow /\ ~row[f].named
  BY <1>0 DEF AbortRequest, Typed
<1>2. ~NamedOrGone(f)
  BY <1>1 DEF NamedOrGone
<1>3. /\ server[f].status # "RESPONDING"
      /\ \A p \in Pages : again[p][f] = 0 /\ ~(loop[p].pc = "alert" /\ loop[p].em = {f})
  BY <1>2 DEF NamedFirst
<1>4. server' = server /\ again' = again /\ loop' = loop
  BY DEF AbortRequest
<1>5. row'[f] # NoRow /\ row'[f].cancel
  BY <1>0, <1>1, CancelMoves DEF AbortRequest
<1> QED BY <1>3, <1>4, <1>5 DEF Withdrawing

LEMMA PromiseHeld ==
    ASSUME Carried, RowsKept, [OffGridNext]_offGridVars, NEW f \in Emergencies, told[f] = "promised", Withdrawing(f)
    PROVE  Withdrawing(f)'
<1> DEFINE Held == row[f] # NoRow /\ row[f].cancel
           Gone == row[f] = NoRow /\ job[f] = NoJob /\ \A p \in Pages : f \notin loop[p].batch
<1>0. Typed /\ OnServer /\ abort[f] = "idle" /\ chip[f] = IdleChip
  BY DEF Carried, HandsKept
<1>1. CASE server[f].status = "CANCELLED" \/ server'[f].status = "CANCELLED"
  BY <1>0, <1>1, ServerGrows DEF Withdrawing
<1>2. CASE server[f].status # "CANCELLED" /\ server'[f].status # "CANCELLED"
  <2>1. /\ server[f].status # "RESPONDING"
        /\ \A p \in Pages : again[p][f] = 0 /\ ~(loop[p].pc = "alert" /\ loop[p].em = {f})
        /\ Held \/ Gone
    BY <1>2 DEF Withdrawing
  <2>2. \A p \in Pages : ~Alert(p, f) /\ ~AlertFails(p, f) /\ ~AlertAgain(p, f)
    BY <2>1, OffGridAssumption DEF Alert, AlertFails, AlertAgain, LoopAt, Of
  <2>3. server'[f].status # "RESPONDING" /\ \A p \in Pages : again'[p][f] = 0
    BY <1>0, <2>1, <2>2, AlertStep
  <2>4. ASSUME NEW p \in Pages PROVE ~(loop'[p].pc = "alert" /\ loop'[p].em = {f})
    <3>1. ASSUME Look(p, f) PROVE f \in loop[p].batch
      <4>1. loop[p].em = {f} /\ loop[p].em \subseteq loop[p].batch
        BY <1>0, <3>1 DEF Look, Of, Typed, LoopsTyped, LoopTyped
      <4> QED BY <4>1
    <3>2. Look(p, f) => Held
      BY <2>1, <3>1
    <3> QED BY <1>0, <2>1, <3>2, HandlingStep
  <2>5. (Held \/ Gone)'
    <3>1. ASSUME row'[f] = row[f], job'[f] = NoJob <=> job[f] = NoJob PROVE (Held \/ Gone)'
      BY <1>0, <2>1, <3>1, BatchStep
    <3>2. ASSUME job[f] # NoJob PROVE Held
      BY <2>1, <3>2
    <3>3. ASSUME row[f] # NoRow PROVE Held
      BY <2>1, <3>3
    <3>4. ~ \E t \in Types : Raise(f, t)
      BY DEF Raise
    <3>5. ~ReviseWrite(f) /\ ~AbortDiscard(f) /\ ~AbortRequest(f)
      BY <1>0 DEF ReviseWrite, AbortDiscard, AbortRequest, IdleChip
    <3>6. ASSUME (\E p \in Pages : Named(p, f)) \/ Elapse(f) PROVE (Held \/ Gone)'
      BY <1>0, <3>1, <3>6, NamedEffect
    <3>7. ASSUME NEW p \in Pages, MarkSyncing(p, f) \/ MarkFailed(p, f) PROVE (Held \/ Gone)'
      BY <1>0, <3>1, <3>3, <3>7, MarkEffect
    <3>8. ASSUME NEW p \in Pages, Synced(p, f) PROVE (Held \/ Gone)'
      <4>1. f \in loop[p].batch
        <5>1. loop[p].em = {f} /\ loop[p].em \subseteq loop[p].batch
          BY <1>0, <3>8 DEF Synced, Of, Typed, LoopsTyped, LoopTyped
        <5> QED BY <5>1
      <4>2. Held
        BY <2>1, <4>1
      <4> QED BY <1>0, <3>8, <4>2, SyncedEffect
    <3>9. ASSUME NEW p \in Pages, Look(p, f) \/ SyncCancel(p, f) PROVE (Held \/ Gone)'
      BY <1>0, <1>2, <3>1, <3>9, ClearedEffect
    <3>10. ASSUME NEW p \in Pages, EndLoop(p) PROVE (Held \/ Gone)'
      <4>1. CASE row'[f] = row[f]
        BY <1>0, <3>1, <3>10, <4>1, PurgeEffect
      <4>2. CASE row'[f] = NoRow /\ row[f].status = "SYNCED" /\ AtRest(f, p)
        <5>1. job[f] = NoJob /\ job'[f] = NoJob
          BY <1>0, <3>10, <4>2, PurgeEffect DEF RowsKept
        <5>2. \A q \in Pages : f \notin loop'[q].batch
          BY <1>0, <3>10, <4>2, LoopSteps DEF Rests, OnlyLoop, IdleLoop, AtRest
        <5> QED BY <4>2, <5>1, <5>2
      <4> QED BY <1>0, <3>10, <4>1, <4>2, PurgeEffect
    <3> HIDE DEF Held, Gone
    <3> QED BY <1>0, <3>1, <3>4, <3>5, <3>6, <3>7, <3>8, <3>9, <3>10, DeviceStep
  <2> QED BY <2>3, <2>4, <2>5 DEF Withdrawing
<1> QED BY <1>1, <1>2

\* The whole invariant, for edits that no sync loop comes between.
Kept == Carried /\ EditsUnsent /\ RowsKept /\ NamedFirst /\ PromisesKept

LEMMA KeptInit == OffGridInit => Kept
<1> SUFFICES ASSUME OffGridInit PROVE Kept
  OBVIOUS
<1>1. RowsKept /\ NamedFirst
  BY DEF OffGridInit, RowsKept, NamedFirst, NamedOrGone, NoRow, NotThere, IdleLoop
<1> QED BY <1>1, CarriedInit DEF OffGridInit, Kept, EditsUnsent, PromisesKept

LEMMA KeptStep == Kept /\ ~SlowEdits /\ [OffGridNext]_offGridVars => Kept'
<1> SUFFICES ASSUME Kept, ~SlowEdits, [OffGridNext]_offGridVars PROVE Kept'
  OBVIOUS
<1>1. Carried' /\ EditsUnsent' /\ RowsKept' /\ NamedFirst'
  BY CarriedStep, EditsStep, RowsStep, NamedFirstStep DEF Kept
<1>2. PromisesKept'
  <2>1. ASSUME NEW f \in Emergencies, told'[f] = "promised" PROVE Withdrawing(f)'
    <3>1. CASE told[f] = "promised"
      BY <3>1, PromiseHeld DEF Kept, PromisesKept
    <3>2. CASE told[f] # "promised"
      <4>1. ~ \E t \in Types : Raise(f, t)
        BY <2>1 DEF Raise, Kept, Carried, Typed
      <4> QED BY <2>1, <3>2, <4>1, ToldStep, PromiseMade DEF Kept, Carried
    <3> QED BY <3>1, <3>2
  <2> QED BY <2>1 DEF PromisesKept
<1> QED BY <1>1, <1>2 DEF Kept

-----------------------------------------------------------------------------
(* The theorems *)

\* The stores, the loops and the server hold what the code's types say.
THEOREM OffGridTypes == OffGridSpec => []OffGridTypeOK
<1>1. Carried => OffGridTypeOK
  BY TypedIsTypeOK DEF Carried
<1> QED BY <1>1, CarriedInit, CarriedStep, PTL DEF OffGridSpec

\* createIncident and markSynced leave no gap: an emergency that was stored and not
\* withdrawn has an entry that will carry it, or the server has it, however edits,
\* tabs, lost answers and closed tabs interleave.
THEOREM NothingIsLost == OffGridSpec => []NothingLost
<1>1. Carried => NothingLost
  BY DEF Carried
<1> QED BY <1>1, CarriedInit, CarriedStep, PTL DEF OffGridSpec

\* What the sheet told the person stays true: a false alarm stored before the server had
\* named the incident is never escalated by the device, and nothing is lost, where no
\* sync loop passes between the two transactions of an edit.
THEOREM PromisesStand == ~SlowEdits => (OffGridSpec => []DeviceKeepsItsWord)
<1> SUFFICES ASSUME ~SlowEdits PROVE OffGridSpec => []DeviceKeepsItsWord
  OBVIOUS
<1>1. Kept /\ [OffGridNext]_offGridVars => Kept'
  BY KeptStep
<1>2. Kept => DeviceKeepsItsWord
  <2>1. ASSUME Kept, NEW e \in Emergencies, told[e] = "promised" PROVE server[e].status # "RESPONDING"
    BY <2>1 DEF Kept, PromisesKept, Withdrawing
  <2> QED BY <2>1 DEF DeviceKeepsItsWord, StandDownKept, Kept, Carried
<1> QED BY <1>1, <1>2, KeptInit, PTL DEF OffGridSpec
=============================================================================
