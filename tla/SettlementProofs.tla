-------------------------- MODULE SettlementProofs --------------------------
(***************************************************************************)
(* Theorems about what the server keeps of a booking and of a person:      *)
(* Settlement, for any number of bookings, payment rows, methods and       *)
(* faults (type correctness and the promises about money); BookingIntake,  *)
(* for any number of phones, requests and drafts (a draft makes one        *)
(* booking); ContactLinks, for any number of requests and codes (the cap,  *)
(* and links that are made once); Reviews, for any finite set of reviewers *)
(* (a rating is what its reviews make it), from what a sum over a finite   *)
(* set comes to in whatever order it is taken; AuditChain, for any log and *)
(* any changes of its rows (what a verification answers is true).          *)
(***************************************************************************)
EXTENDS Settlement, BookingIntake, ContactLinks, Reviews, AuditChain, WellFoundedInduction, TLAPS, FiniteSetTheorems

\* What the table says of the statuses money is about.
LEMMA MoneyTable ==
    /\ Applies("COMPLETED", "payment.settled", "PAID")
    /\ \A s, t \in Status : Applies(s, "payment.settled", t) => s = "COMPLETED"
    /\ \A s \in Status : Applies(s, "work.complete", "COMPLETED") => s = "IN_PROGRESS"
BY DEF Applies, Transitions, Cancellable, Status

\* The guarded update moves COMPLETED to PAID and nothing else.
LEMMA ClaimStep ==
    ASSUME TypeOK, NEW b \in Bookings, Claim(b)
    PROVE  /\ status' \in [Bookings -> {"IN_PROGRESS", "COMPLETED", "PAID"}]
           /\ \A c \in Bookings \ {b} : status'[c] = status[c]
           /\ status[b] = "IN_PROGRESS" => status'[b] = "IN_PROGRESS"
           /\ status[b] # "IN_PROGRESS" => status'[b] = "PAID"
<1>1. CASE status[b] = "COMPLETED"
  BY <1>1, MoneyTable DEF Claim, TypeOK
<1>2. CASE status[b] # "COMPLETED"
  <2>1. status[b] \in {"IN_PROGRESS", "PAID"}
    BY <1>2 DEF TypeOK
  <2>2. ~Applies(status[b], "payment.settled", "PAID")
    BY <1>2, <2>1, MoneyTable DEF Status
  <2>3. status' = status
    BY <2>2 DEF Claim
  <2> QED BY <2>1, <2>3 DEF TypeOK
<1> QED BY <1>1, <1>2

-----------------------------------------------------------------------------
(* Everything that is inductive together *)

Books == TypeOK /\ KnowledgeHolds /\ SettledOnce /\ PaidIsCovered /\ SettledIsCaptured
           /\ AckedIsAccountedFor

LEMMA BooksInit == Init => Books
<1> SUFFICES ASSUME Init PROVE Books
  OBVIOUS
<1>1. TypeOK
  BY SettlementAssumption DEF Init, TypeOK
<1>2. KnowledgeHolds /\ SettledOnce /\ SettledIsCaptured /\ AckedIsAccountedFor
  BY DEF Init, KnowledgeHolds, SettledOnce, SettledIsCaptured, AckedIsAccountedFor
<1>3. PaidIsCovered
  BY DEF Init, PaidIsCovered, InvoiceIsSettled, SettledRows
<1> QED BY <1>1, <1>2, <1>3 DEF Books

\* A step that claims a booking money covers, and at most ends requests, keeps
\* the books.
LEMMA ClaimKeepsBooks ==
    ASSUME Books, NEW b \in Bookings, Claim(b), InvoiceIsSettled(b),
           UNCHANGED <<row, of, method, captured, acked, refund, paying>>,
           \A p \in Payments : confirming'[p] \in {confirming[p], "idle"},
           \A p \in Payments :
               hooking'[p] = hooking[p]
                 \/ (hooking[p] = "recorded" /\ hooking'[p] = "done" /\ of[p] = b)
    PROVE  /\ status' \in [Bookings -> {"IN_PROGRESS", "COMPLETED", "PAID"}]
           /\ KnowledgeHolds' /\ SettledOnce' /\ PaidIsCovered'
           /\ SettledIsCaptured' /\ AckedIsAccountedFor'
<1> USE DEF Books
<1>1. \A c \in Bookings : InvoiceIsSettled(c)' <=> InvoiceIsSettled(c)
  BY DEF InvoiceIsSettled, SettledRows
<1>2. status[b] # "IN_PROGRESS"
  BY DEF PaidIsCovered
<1>3. /\ status' \in [Bookings -> {"IN_PROGRESS", "COMPLETED", "PAID"}]
      /\ \A c \in Bookings : status[c] # "IN_PROGRESS" => status'[c] # "IN_PROGRESS"
      /\ \A c \in Bookings : status[c] = "PAID" => status'[c] = "PAID"
      /\ \A c \in Bookings : status'[c] = "PAID" => c = b \/ status[c] = "PAID"
      /\ \A c \in Bookings : status'[c] # "IN_PROGRESS" => status[c] # "IN_PROGRESS"
      /\ status'[b] = "PAID"
  BY <1>2, ClaimStep
<1>4. PaidIsCovered'
  BY <1>1, <1>3 DEF PaidIsCovered
<1>5. SettledOnce' /\ SettledIsCaptured'
  BY DEF SettledOnce, SettledIsCaptured
<1>6. \A p \in Payments : row[p] # "NONE" => of[p] \in Bookings
  BY DEF KnowledgeHolds
<1>7. AckedIsAccountedFor'
  BY <1>1, <1>3, <1>6 DEF AckedIsAccountedFor, TypeOK
<1>8. KnowledgeHolds'
  <2>1. ASSUME NEW p \in Payments, hooking'[p] = "done"
        PROVE  p \in refund' \/ (row'[p] = "SETTLED" /\ status'[of'[p]] = "PAID")
    BY <2>1, <1>3, <1>6 DEF KnowledgeHolds
  <2>2. ASSUME NEW p \in Payments
        PROVE  /\ confirming'[p] # "idle" \/ hooking'[p] # "idle" => p \in captured'
               /\ confirming'[p] = "recorded" \/ hooking'[p] = "recorded" => row'[p] = "SETTLED"
    BY DEF KnowledgeHolds
  <2> QED BY <2>1, <2>2, <1>3, <1>6 DEF KnowledgeHolds
<1> QED BY <1>3, <1>4, <1>5, <1>7, <1>8

\* A row that turns SETTLED where the index allows it is its invoice's only one.
LEMMA RecordKeepsBooks ==
    ASSUME Books, NEW p \in Payments, row[p] # "SETTLED", of[p] \in Bookings, IndexAllows(p),
           method[p] = "checkout" => p \in captured,
           row' = [row EXCEPT ![p] = "SETTLED"], UNCHANGED <<of, method, captured>>
    PROVE  /\ SettledOnce' /\ SettledIsCaptured'
           /\ InvoiceIsSettled(of[p])'
           /\ \A c \in Bookings : InvoiceIsSettled(c) => InvoiceIsSettled(c)'
           /\ \A c \in Bookings : InvoiceIsSettled(c)' => InvoiceIsSettled(c) \/ c = of[p]
<1> USE DEF Books, TypeOK
<1>1. \A q \in Payments : row'[q] = "SETTLED" <=> (q = p \/ row[q] = "SETTLED")
  OBVIOUS
<1>2. \A q \in Payments : row[q] = "SETTLED" => of[q] # of[p]
  BY DEF IndexAllows, InvoiceIsSettled, SettledRows
<1>3. SettledOnce'
  BY <1>1, <1>2 DEF SettledOnce
<1>4. SettledIsCaptured'
  BY <1>1 DEF SettledIsCaptured
<1> QED BY <1>1, <1>3, <1>4 DEF InvoiceIsSettled, SettledRows

\* A step that leaves rows, bookings and the gateway's account alone keeps all
\* but what requests know.
LEMMA FrameKeepsBooks ==
    ASSUME Books, UNCHANGED <<status, row, method, captured, acked, refund>>,
           \A p \in Payments : row[p] # "NONE" => of'[p] = of[p]
    PROVE  SettledOnce' /\ PaidIsCovered' /\ SettledIsCaptured' /\ AckedIsAccountedFor'
<1> USE DEF Books
<1>1. \A c \in Bookings : InvoiceIsSettled(c)' <=> InvoiceIsSettled(c)
  BY DEF InvoiceIsSettled, SettledRows
<1>2. SettledOnce' /\ SettledIsCaptured' /\ PaidIsCovered'
  BY <1>1 DEF SettledOnce, SettledIsCaptured, PaidIsCovered
<1>3. \A p \in acked : row[p] # "NONE" \/ p \in refund
  BY DEF AckedIsAccountedFor
<1>4. \A p \in refund : row[p] # "NONE"
  BY DEF AckedIsAccountedFor
<1>5. \A p \in refund : of[p] \in Bookings
  BY <1>4 DEF KnowledgeHolds, TypeOK
<1>6. AckedIsAccountedFor'
  BY <1>1, <1>3, <1>4, <1>5 DEF AckedIsAccountedFor, TypeOK
<1> QED BY <1>2, <1>6

LEMMA BooksStep == Books /\ [Next]_vars => Books'
<1> SUFFICES ASSUME Books, [Next]_vars PROVE Books'
  OBVIOUS
<1> USE DEF Books
<1>1. ASSUME NEW b \in Bookings, Complete(b) PROVE Books'
  <2>1. status[b] = "IN_PROGRESS" /\ status' = [status EXCEPT ![b] = "COMPLETED"]
    BY <1>1, MoneyTable DEF Complete, TypeOK, Status
  <2>2. UNCHANGED <<row, of, method, captured, acked, refund, paying, confirming, hooking, faults>>
    BY <1>1 DEF Complete, gateway, requests
  <2>3. TypeOK'
    BY <2>1, <2>2 DEF TypeOK
  <2>4. KnowledgeHolds'
    BY <2>1, <2>2 DEF KnowledgeHolds, TypeOK
  <2>5. SettledOnce' /\ SettledIsCaptured'
    BY <2>2 DEF SettledOnce, SettledIsCaptured
  <2>6. \A c \in Bookings : InvoiceIsSettled(c)' <=> InvoiceIsSettled(c)
    BY <2>2 DEF InvoiceIsSettled, SettledRows
  <2>7. PaidIsCovered'
    BY <2>1, <2>6 DEF PaidIsCovered, TypeOK
  <2>8. AckedIsAccountedFor'
    BY <2>1, <2>2, <2>6 DEF AckedIsAccountedFor, KnowledgeHolds, TypeOK
  <2> QED BY <2>3, <2>4, <2>5, <2>7, <2>8
<1>2. ASSUME NEW b \in Bookings, RecordSettled(b) PROVE Books'
  <2>1. /\ Claim(b) /\ InvoiceIsSettled(b)
        /\ UNCHANGED <<row, of, method, captured, acked, refund, paying, confirming, hooking, faults>>
    BY <1>2 DEF RecordSettled, gateway, requests
  <2>2. /\ status' \in [Bookings -> {"IN_PROGRESS", "COMPLETED", "PAID"}]
        /\ KnowledgeHolds' /\ SettledOnce' /\ PaidIsCovered'
        /\ SettledIsCaptured' /\ AckedIsAccountedFor'
    BY <2>1, ClaimKeepsBooks
  <2>3. TypeOK'
    BY <2>1, <2>2 DEF TypeOK
  <2> QED BY <2>2, <2>3
<1>3. ASSUME NEW p \in Payments, NEW b \in Bookings, NEW how \in Methods, PayRead(p, b, how)
      PROVE  Books'
  <2> USE <1>3 DEF PayRead, gateway
  <2>1. row[p] = "NONE"
    BY DEF KnowledgeHolds, TypeOK
  <2>2. SettledOnce' /\ PaidIsCovered' /\ SettledIsCaptured' /\ AckedIsAccountedFor'
    <3>1. \A q \in Payments : row[q] # "NONE" => of'[q] = of[q]
      BY <2>1 DEF TypeOK
    <3>2. \A q \in Payments : row[q] # "NONE" => method'[q] = method[q]
      BY <2>1 DEF TypeOK
    <3>3. \A c \in Bookings : InvoiceIsSettled(c)' <=> InvoiceIsSettled(c)
      BY <3>1 DEF InvoiceIsSettled, SettledRows
    <3>4. SettledOnce' /\ PaidIsCovered' /\ SettledIsCaptured'
      BY <3>1, <3>2, <3>3 DEF SettledOnce, PaidIsCovered, SettledIsCaptured
    <3>5. \A q \in Payments : q \in acked \/ q \in refund => row[q] # "NONE"
      BY DEF AckedIsAccountedFor
    <3>6. \A q \in refund : of[q] \in Bookings
      BY <3>5 DEF KnowledgeHolds, TypeOK
    <3>7. AckedIsAccountedFor'
      BY <3>1, <3>3, <3>5, <3>6 DEF AckedIsAccountedFor, TypeOK
    <3> QED BY <3>4, <3>7
  <2>3. TypeOK'
    BY SettlementAssumption DEF TypeOK
  <2>4. KnowledgeHolds'
    BY <2>1, SettlementAssumption DEF KnowledgeHolds, TypeOK
  <2> QED BY <2>2, <2>3, <2>4
<1>4. ASSUME NEW p \in Payments, PayCheckout(p) PROVE Books'
  <2> USE <1>4 DEF PayCheckout, gateway
  <2>1. row[p] = "NONE" /\ of[p] \in Bookings
    BY DEF KnowledgeHolds
  <2>2. \A q \in Payments : row'[q] = "SETTLED" <=> row[q] = "SETTLED"
    BY <2>1 DEF TypeOK
  <2>3. \A q \in Payments : row[q] # "NONE" => row'[q] = row[q]
    BY <2>1 DEF TypeOK
  <2>4. \A c \in Bookings : InvoiceIsSettled(c)' <=> InvoiceIsSettled(c)
    BY <2>2 DEF InvoiceIsSettled, SettledRows
  <2>5. SettledOnce' /\ PaidIsCovered' /\ SettledIsCaptured'
    BY <2>2, <2>4 DEF SettledOnce, PaidIsCovered, SettledIsCaptured
  <2>6. \A q \in refund : of[q] \in Bookings
    BY DEF AckedIsAccountedFor, KnowledgeHolds, TypeOK
  <2>7. AckedIsAccountedFor'
    BY <2>3, <2>4, <2>6 DEF AckedIsAccountedFor, TypeOK
  <2>8. TypeOK' /\ KnowledgeHolds'
    BY <2>1, <2>2, <2>3 DEF KnowledgeHolds, TypeOK
  <2> QED BY <2>5, <2>7, <2>8
<1>5. ASSUME NEW p \in Payments, PayDirect(p) PROVE Books'
  <2> USE <1>5 DEF gateway
  <2>0. row[p] = "NONE" /\ of[p] \in Bookings /\ method[p] = "direct" /\ p \in paying
    BY DEF PayDirect, KnowledgeHolds
  <2>1. CASE ~(status[of[p]] = "COMPLETED" /\ IndexAllows(p))
    <3>1. UNCHANGED <<status, row, of, method, captured, acked, refund, confirming, hooking, faults>>
      BY <2>1 DEF PayDirect
    <3>2. SettledOnce' /\ PaidIsCovered' /\ SettledIsCaptured' /\ AckedIsAccountedFor'
      BY <3>1, FrameKeepsBooks
    <3>3. TypeOK' /\ KnowledgeHolds'
      BY <3>1 DEF PayDirect, TypeOK, KnowledgeHolds
    <3> QED BY <3>2, <3>3
  <2>2. CASE status[of[p]] = "COMPLETED" /\ IndexAllows(p)
    <3>1. /\ row' = [row EXCEPT ![p] = "SETTLED"]
          /\ status' = [status EXCEPT ![of[p]] = "PAID"]
          /\ paying' = paying \ {p}
          /\ UNCHANGED <<of, method, captured, acked, refund, confirming, hooking, faults>>
      BY <2>2, MoneyTable DEF PayDirect, Claim
    <3>2. /\ SettledOnce' /\ SettledIsCaptured'
          /\ InvoiceIsSettled(of[p])'
          /\ \A c \in Bookings : InvoiceIsSettled(c) => InvoiceIsSettled(c)'
          /\ \A c \in Bookings : InvoiceIsSettled(c)' => InvoiceIsSettled(c) \/ c = of[p]
      BY <2>0, <2>2, <3>1, RecordKeepsBooks
    <3>3. PaidIsCovered'
      BY <2>0, <2>2, <3>1, <3>2 DEF PaidIsCovered, TypeOK
    <3>4. \A q \in Payments : q \in acked \/ q \in refund => row[q] # "NONE" /\ of[q] \in Bookings
      BY DEF AckedIsAccountedFor, KnowledgeHolds, TypeOK
    <3>5. AckedIsAccountedFor'
      BY <2>0, <3>1, <3>2, <3>4 DEF AckedIsAccountedFor, TypeOK
    <3>6. TypeOK' /\ KnowledgeHolds'
      BY <2>0, <3>1 DEF TypeOK, KnowledgeHolds
    <3> QED BY <3>2, <3>3, <3>5, <3>6
  <2> QED BY <2>1, <2>2
<1>6. ASSUME NEW p \in Payments, Capture(p) PROVE Books'
  <2> USE <1>6 DEF Capture, db, requests
  <2>1. \A c \in Bookings : InvoiceIsSettled(c)' <=> InvoiceIsSettled(c)
    BY DEF InvoiceIsSettled, SettledRows
  <2>2. SettledOnce' /\ PaidIsCovered' /\ SettledIsCaptured'
    BY <2>1 DEF SettledOnce, PaidIsCovered, SettledIsCaptured
  <2>3. AckedIsAccountedFor'
    BY DEF AckedIsAccountedFor, InvoiceIsSettled, SettledRows
  <2>4. TypeOK' /\ KnowledgeHolds'
    BY DEF TypeOK, KnowledgeHolds
  <2> QED BY <2>2, <2>3, <2>4
<1>7. ASSUME NEW p \in Payments, ConfirmVerify(p) \/ HookRead(p) PROVE Books'
  <2>1. UNCHANGED <<status, row, of, method, captured, acked, refund, paying, faults>>
    BY <1>7 DEF ConfirmVerify, HookRead, db, gateway
  <2>2. SettledOnce' /\ PaidIsCovered' /\ SettledIsCaptured' /\ AckedIsAccountedFor'
    BY <2>1, FrameKeepsBooks
  <2>3. p \in captured
    BY <1>7 DEF ConfirmVerify, HookRead
  <2>4. TypeOK'
    BY <1>7, <2>1 DEF ConfirmVerify, HookRead, TypeOK
  <2>5. /\ \A q \in Payments : confirming'[q] # confirming[q] =>
              q = p /\ confirming'[q] \in {"payable", "closed"}
        /\ \A q \in Payments : hooking'[q] # hooking[q] =>
              q = p /\ (hooking'[q] = "found" \/ (hooking'[q] = "recorded" /\ row[q] = "SETTLED"))
    <3>1. CASE ConfirmVerify(p)
      BY <3>1 DEF ConfirmVerify, TypeOK
    <3>2. CASE HookRead(p)
      BY <3>2 DEF HookRead, TypeOK
    <3> QED BY <1>7, <3>1, <3>2
  <2>6. KnowledgeHolds'
    BY <2>1, <2>3, <2>5 DEF KnowledgeHolds
  <2> QED BY <2>2, <2>4, <2>6
<1>8. ASSUME NEW p \in Payments, ConfirmRecord(p) \/ HookRecord(p) PROVE Books'
  <2>0. /\ p \in captured /\ row[p] \in {"PENDING", "SETTLED"}
        /\ of[p] \in Bookings /\ status[of[p]] # "IN_PROGRESS" /\ method[p] = "checkout"
    BY <1>8 DEF ConfirmRecord, HookRecord, KnowledgeHolds, TypeOK
  <2>1. /\ UNCHANGED <<status, of, method, captured, acked, refund, paying, faults>>
        /\ \/ row[p] = "PENDING" /\ IndexAllows(p) /\ row' = [row EXCEPT ![p] = "SETTLED"]
           \/ row' = row
    BY <1>8, <2>0 DEF ConfirmRecord, HookRecord, gateway, TypeOK
  <2>2. TypeOK'
    BY <1>8, <2>1 DEF ConfirmRecord, HookRecord, TypeOK
  <2>3. /\ \A q \in Payments : confirming'[q] # confirming[q] =>
              q = p /\ confirming'[q] \in {"idle", "recorded"}
                /\ (confirming'[q] = "recorded" => row'[q] = "SETTLED")
        /\ \A q \in Payments : hooking'[q] # hooking[q] =>
              q = p /\ hooking'[q] = "recorded" /\ row'[q] = "SETTLED"
    <3>1. CASE ConfirmRecord(p)
      BY <3>1 DEF ConfirmRecord, TypeOK
    <3>2. CASE HookRecord(p)
      BY <3>2 DEF HookRecord, TypeOK
    <3> QED BY <1>8, <3>1, <3>2
  <2>4. \A q \in Payments : row'[q] = row[q] \/ (q = p /\ row'[q] = "SETTLED")
    BY <2>1 DEF TypeOK
  <2>5. KnowledgeHolds'
    BY <2>0, <2>1, <2>3, <2>4 DEF KnowledgeHolds
  <2>6. CASE row' = row
    BY <2>1, <2>2, <2>5, <2>6, FrameKeepsBooks
  <2>7. CASE row[p] = "PENDING" /\ IndexAllows(p) /\ row' = [row EXCEPT ![p] = "SETTLED"]
    <3>1. /\ SettledOnce' /\ SettledIsCaptured'
          /\ InvoiceIsSettled(of[p])'
          /\ \A c \in Bookings : InvoiceIsSettled(c) => InvoiceIsSettled(c)'
          /\ \A c \in Bookings : InvoiceIsSettled(c)' => InvoiceIsSettled(c) \/ c = of[p]
      BY <2>0, <2>1, <2>7, RecordKeepsBooks
    <3>2. PaidIsCovered'
      BY <2>0, <2>1, <3>1 DEF PaidIsCovered
    <3>3. \A q \in Payments : q \in refund => q # p /\ of[q] \in Bookings
      BY <2>7 DEF AckedIsAccountedFor, IndexAllows, KnowledgeHolds, TypeOK
    <3>4. AckedIsAccountedFor'
      BY <2>1, <2>4, <3>1, <3>3 DEF AckedIsAccountedFor, TypeOK
    <3> QED BY <2>2, <2>5, <3>1, <3>2, <3>4
  <2> QED BY <2>1, <2>6, <2>7
<1>9. ASSUME NEW p \in Payments, ConfirmSettle(p) \/ HookSettle(p) PROVE Books'
  <2>1. row[p] = "SETTLED" /\ of[p] \in Bookings
    BY <1>9 DEF ConfirmSettle, HookSettle, KnowledgeHolds
  <2>2. InvoiceIsSettled(of[p])
    BY <2>1 DEF InvoiceIsSettled, SettledRows
  <2>3. /\ Claim(of[p])
        /\ UNCHANGED <<row, of, method, captured, acked, refund, paying, faults>>
    BY <1>9 DEF ConfirmSettle, HookSettle, gateway
  <2>4. /\ \A q \in Payments : confirming'[q] \in {confirming[q], "idle"}
        /\ \A q \in Payments :
             hooking'[q] = hooking[q]
               \/ (hooking[q] = "recorded" /\ hooking'[q] = "done" /\ of[q] = of[p])
    BY <1>9 DEF ConfirmSettle, HookSettle, TypeOK
  <2>5. /\ status' \in [Bookings -> {"IN_PROGRESS", "COMPLETED", "PAID"}]
        /\ KnowledgeHolds' /\ SettledOnce' /\ PaidIsCovered'
        /\ SettledIsCaptured' /\ AckedIsAccountedFor'
    BY <2>1, <2>2, <2>3, <2>4, ClaimKeepsBooks
  <2>6. TypeOK'
    BY <1>9, <2>3, <2>5 DEF ConfirmSettle, HookSettle, TypeOK
  <2> QED BY <2>5, <2>6
<1>10. ASSUME NEW p \in Payments, HookRefund(p) PROVE Books'
  <2> USE <1>10 DEF HookRefund, db, gateway
  <2>1. InvoiceIsSettled(of[p]) /\ row[p] = "PENDING"
    BY DEF IndexAllows
  <2>2. \A c : InvoiceIsSettled(c)' <=> InvoiceIsSettled(c)
    BY DEF InvoiceIsSettled, SettledRows
  <2>3. SettledOnce' /\ PaidIsCovered' /\ SettledIsCaptured'
    BY <2>2 DEF SettledOnce, PaidIsCovered, SettledIsCaptured
  <2>4. AckedIsAccountedFor'
    BY <2>1, <2>2 DEF AckedIsAccountedFor, TypeOK
  <2>5. TypeOK' /\ KnowledgeHolds'
    BY DEF TypeOK, KnowledgeHolds
  <2> QED BY <2>3, <2>4, <2>5
<1>11. ASSUME NEW p \in Payments, HookAck(p) PROVE Books'
  <2> USE <1>11 DEF HookAck, db
  <2>1. p \in refund \/ (row[p] = "SETTLED" /\ status[of[p]] = "PAID")
    BY DEF KnowledgeHolds
  <2>2. \A c : InvoiceIsSettled(c)' <=> InvoiceIsSettled(c)
    BY DEF InvoiceIsSettled, SettledRows
  <2>3. SettledOnce' /\ PaidIsCovered' /\ SettledIsCaptured'
    BY <2>2 DEF SettledOnce, PaidIsCovered, SettledIsCaptured
  <2>4. AckedIsAccountedFor'
    BY <2>1, <2>2 DEF AckedIsAccountedFor, TypeOK
  <2>5. TypeOK' /\ KnowledgeHolds'
    BY DEF TypeOK, KnowledgeHolds
  <2> QED BY <2>3, <2>4, <2>5
<1>12. ASSUME Restart \/ (\E p \in Payments : HookLost(p)) PROVE Books'
  <2>1. UNCHANGED <<status, row, of, method, captured, acked, refund>>
    BY <1>12 DEF Restart, HookLost, db, gateway
  <2>2. SettledOnce' /\ PaidIsCovered' /\ SettledIsCaptured' /\ AckedIsAccountedFor'
    BY <2>1, FrameKeepsBooks
  <2>3. TypeOK'
    BY <1>12, <2>1 DEF Restart, HookLost, TypeOK
  <2>4. KnowledgeHolds'
    BY <1>12, <2>1 DEF Restart, HookLost, KnowledgeHolds, TypeOK
  <2> QED BY <2>2, <2>3, <2>4
<1>13. CASE UNCHANGED vars
  <2>1. UNCHANGED <<status, row, of, method, captured, acked, refund, paying, confirming, hooking, faults>>
    BY <1>13 DEF vars, db, gateway, requests
  <2>2. SettledOnce' /\ PaidIsCovered' /\ SettledIsCaptured' /\ AckedIsAccountedFor'
    BY <2>1, FrameKeepsBooks
  <2>3. TypeOK' /\ KnowledgeHolds'
    BY <2>1 DEF TypeOK, KnowledgeHolds
  <2> QED BY <2>2, <2>3
<1> QED
  BY <1>1, <1>2, <1>3, <1>4, <1>5, <1>6, <1>7, <1>8, <1>9, <1>10, <1>11, <1>12, <1>13
  DEF Next

\* The books are in order in every reachable state: the inductive invariant.
THEOREM BooksInOrder == Spec => []Books
<1>1. Init => Books
  BY BooksInit
<1>2. Books /\ [Next]_vars => Books'
  BY BooksStep
<1> QED BY <1>1, <1>2, PTL DEF Spec

-----------------------------------------------------------------------------
(* The promises about money, each for every instance *)

\* An invoice is settled once, a PAID booking is covered by a payment, and a
\* gateway payment reads SETTLED only for money the gateway has taken.
THEOREM LedgerAlwaysTrue == Spec => []LedgerIsTrue
<1>1. Books => LedgerIsTrue
  BY DEF Books, LedgerIsTrue
<1> QED BY <1>1, BooksInOrder, PTL

\* Every capture acknowledged to the gateway closed its booking or was reported
\* for a refund.
THEOREM AckedAlwaysAccountedFor == Spec => []AckedIsAccountedFor
<1>1. Books => AckedIsAccountedFor
  BY DEF Books
<1> QED BY <1>1, BooksInOrder, PTL

-----------------------------------------------------------------------------
(* One booking per draft *)

\* What a draft's key is, what a request carries, what a booking was made with.
Use == [by : Users, nth : 1..MaxDrafts, key : BookingKeys]
Uses ==
    {x \in Use :
        \/ draft[x.by].nth = x.nth /\ draft[x.by].key = x.key
        \/ \E r \in Calls : /\ call[r].pc # "idle"
                            /\ call[r].by = x.by /\ call[r].nth = x.nth /\ call[r].key = x.key
        \/ \E b \in booked : b.by = x.by /\ b.nth = x.nth /\ b.key = x.key}

DraftRecord == [nth : 1..MaxDrafts, key : BookingKeys \cup {NoBookingKey}, has : BOOLEAN, waits : BOOLEAN]

\* A request in hand is of a phone and its draft, and bookings can be counted.
IntakeTyped ==
    /\ IntakeTypeOK
    /\ IsFiniteSet(booked)
    /\ \A r \in Calls :
         IF call[r].pc = "idle" THEN call[r] = NoCall
         ELSE call[r].by \in Users /\ call[r].nth \in 1..MaxDrafts /\ call[r].key \in BookingKeys

\* A key and a draft determine each other.
OneUse == \A x, y \in Uses : x.key = y.key <=> (x.by = y.by /\ x.nth = y.nth)

\* Nothing is done under a draft to come, nor under one that has no key yet.
UsesOfDrafts ==
    \A x \in Uses : /\ x.nth <= draft[x.by].nth
                    /\ draft[x.by].key = NoBookingKey => x.nth # draft[x.by].nth

\* A row is free until a request reserves it, of that request until it ends, and
\* stored with the one booking made with its key.
KeyRowsTrue ==
    /\ \A r \in Calls : call[r].pc = "commit" => keyRow[call[r].key] = [state |-> "reserved", by |-> call[r].by]
    /\ \A r, s \in Calls : call[r].pc = "commit" /\ call[s].pc = "commit" /\ call[r].key = call[s].key => r = s
    /\ \A b \in booked : keyRow[b.key] = [state |-> "stored", by |-> b.by]
    /\ \A b, c \in booked : b.key = c.key => b = c
    /\ \A k \in BookingKeys : keyRow[k].state = "stored" => \E b \in booked : b.key = k

DraftsTrue == \A u \in Users : draft[u].has => \E b \in booked : b.by = u /\ b.nth = draft[u].nth

IntakeKept == IntakeTyped /\ OneUse /\ UsesOfDrafts /\ KeyRowsTrue /\ DraftsTrue

\* Taking uses away disturbs nothing that is said of them.
LEMMA FewerUses ==
    ASSUME Uses' \subseteq Uses, OneUse, UsesOfDrafts,
           \A u \in Users : draft'[u].nth = draft[u].nth /\ draft'[u].key = draft[u].key
    PROVE  OneUse' /\ UsesOfDrafts'
<1>1. \A x \in Uses' : x.by \in Users
  BY DEF Uses, Use
<1> QED BY <1>1 DEF OneUse, UsesOfDrafts

LEMMA KeySaved ==
    ASSUME NEW d \in [Users -> DraftRecord], NEW u \in Users, NEW k \in BookingKeys
    PROVE  [d EXCEPT ![u].key = k, ![u].waits = TRUE] \in [Users -> DraftRecord]
BY DEF DraftRecord

LEMMA ReplyHeard ==
    ASSUME NEW d \in [Users -> DraftRecord], NEW u \in Users, NEW booking \in BOOLEAN, NEW e,
           e = [d EXCEPT ![u].waits = FALSE, ![u].has = booking]
    PROVE  /\ e \in [Users -> DraftRecord]
           /\ e[u].nth = d[u].nth /\ e[u].key = d[u].key /\ e[u].has = booking
           /\ \A v \in Users \ {u} : e[v] = d[v]
BY DEF DraftRecord

LEMMA RowStates ==
    ASSUME IntakeKept
    PROVE  /\ \A s \in Calls : call[s].pc = "commit" =>
                  call[s].key \in BookingKeys /\ keyRow[call[s].key].state = "reserved"
           /\ \A b \in booked : b.key \in BookingKeys /\ keyRow[b.key].state = "stored"
<1>1. \A s \in Calls : call[s].pc = "commit" => keyRow[call[s].key] = [state |-> "reserved", by |-> call[s].by]
  BY DEF IntakeKept, KeyRowsTrue
<1>2. \A b \in booked : keyRow[b.key] = [state |-> "stored", by |-> b.by]
  BY DEF IntakeKept, KeyRowsTrue
<1>3. \A s \in Calls : call[s].pc = "commit" => call[s].key \in BookingKeys
  BY DEF IntakeKept, IntakeTyped
<1>4. \A b \in booked : b.key \in BookingKeys
  BY DEF IntakeKept, IntakeTyped, IntakeTypeOK
<1>5. ASSUME NEW s \in Calls, call[s].pc = "commit" PROVE keyRow[call[s].key].state = "reserved"
  <2>1. keyRow[call[s].key] = [state |-> "reserved", by |-> call[s].by]
    BY <1>1, <1>5
  <2> QED BY <2>1
<1>6. ASSUME NEW b \in booked PROVE keyRow[b.key].state = "stored"
  <2>1. keyRow[b.key] = [state |-> "stored", by |-> b.by]
    BY <1>2, <1>6
  <2> QED BY <2>1
<1> QED BY <1>3, <1>4, <1>5, <1>6

LEMMA TapKeeps ==
    ASSUME NEW u \in Users, Tap(u), IntakeKept
    PROVE  IntakeKept'
<1> USE IntakeAssumption
<1>0. PICK r \in Calls, k \in KeyFor(u) :
         /\ call[r] = NoCall
         /\ draft' = [draft EXCEPT ![u].key = k, ![u].waits = TRUE]
         /\ call' = [call EXCEPT ![r] = [pc |-> "arrived", by |-> u, nth |-> draft[u].nth, key |-> k]]
  BY DEF Tap
<1>1. UNCHANGED <<keyRow, booked>>
  BY DEF Tap
<1>2. k \in BookingKeys /\ draft[u].nth \in 1..MaxDrafts /\ draft[u].key \in BookingKeys \cup {NoBookingKey}
  BY DEF KeyFor, NewKeys, IntakeKept, IntakeTyped, IntakeTypeOK
<1>3. IntakeTyped'
  <2>1. draft' \in [Users -> [nth : 1..MaxDrafts, key : BookingKeys \cup {NoBookingKey}, has : BOOLEAN, waits : BOOLEAN]]
    <3>1. draft \in [Users -> DraftRecord]
      BY DEF IntakeKept, IntakeTyped, IntakeTypeOK, DraftRecord
    <3>2. draft' \in [Users -> DraftRecord]
      BY <1>0, <1>2, <3>1, KeySaved
    <3> QED BY <3>2 DEF DraftRecord
  <2>2. \A s \in Calls : call'[s] = IF s = r THEN [pc |-> "arrived", by |-> u, nth |-> draft[u].nth, key |-> k] ELSE call[s]
    BY <1>0 DEF IntakeKept, IntakeTyped, IntakeTypeOK
  <2>3. call' \in [Calls -> [pc : {"idle", "arrived", "insert", "commit"}, by : Users \cup {"nobody"},
                             nth : 0..MaxDrafts, key : BookingKeys \cup {NoBookingKey}]]
    BY <1>0, <1>2 DEF IntakeKept, IntakeTyped, IntakeTypeOK
  <2> QED BY <1>1, <1>2, <2>1, <2>2, <2>3 DEF IntakeKept, IntakeTyped, IntakeTypeOK
<1> DEFINE new == [by |-> u, nth |-> draft[u].nth, key |-> k]
<1>4. new \in Use /\ new.by = u /\ new.nth = draft[u].nth /\ new.key = k
  BY <1>2 DEF Use
<1>5. Uses' \subseteq Uses \cup {new}
  <2> SUFFICES ASSUME NEW x \in Uses', x # new
               PROVE  x \in Uses
    OBVIOUS
  <2>1. x \in Use /\ ~(x.by = u /\ x.nth = draft[u].nth /\ x.key = k)
    BY <1>4 DEF Uses, Use
  <2> QED BY <2>1, <1>0, <1>1 DEF Uses, Use, IntakeKept, IntakeTyped, IntakeTypeOK
<1>6. OneUse' /\ UsesOfDrafts'
  <2>1. CASE draft[u].key # NoBookingKey
    <3>1. k = draft[u].key
      BY <2>1 DEF KeyFor
    <3>2. new \in Uses
      BY <3>1, <1>4, <1>2 DEF Uses
    <3>3. \A v \in Users : draft'[v].nth = draft[v].nth /\ draft'[v].key = draft[v].key
      BY <3>1, <1>0 DEF IntakeKept, IntakeTyped, IntakeTypeOK
    <3> QED BY <3>2, <3>3, <1>5, FewerUses DEF IntakeKept
  <2>2. CASE draft[u].key = NoBookingKey
    <3>1. k \in NewKeys(u)
      BY <2>2 DEF KeyFor
    <3>2. \A x \in Uses : x.key # k
      <4> SUFFICES ASSUME NEW x \in Uses, x.key = k PROVE FALSE
        OBVIOUS
      <4>1. x.by \in Users /\ \A v \in Users : draft[v].key # k
        BY <3>1 DEF NewKeys, Uses, Use
      <4>2. \A q \in Calls : call[q].key # k
        BY <3>1 DEF NewKeys
      <4>3. \A b \in booked : b.key # k
        BY <3>1, RowStates DEF NewKeys, FreeKey
      <4> QED BY <4>1, <4>2, <4>3 DEF Uses
    <3>3. \A x \in Uses : ~(x.by = u /\ x.nth = draft[u].nth)
      BY <2>2 DEF IntakeKept, UsesOfDrafts
    <3>4. OneUse'
      BY <3>2, <3>3, <1>4, <1>5 DEF IntakeKept, OneUse
    <3>5. UsesOfDrafts'
      <4> SUFFICES ASSUME NEW x \in Uses'
                   PROVE  x.nth <= draft'[x.by].nth /\ (draft'[x.by].key = NoBookingKey => x.nth # draft'[x.by].nth)
        BY DEF UsesOfDrafts
      <4>1. CASE x \in Uses
        <5>1. x.by \in Users /\ draft'[x.by].nth = draft[x.by].nth
          BY <4>1, <1>0 DEF Uses, Use, IntakeKept, IntakeTyped, IntakeTypeOK
        <5>2. draft'[x.by].key = NoBookingKey => draft[x.by].key = NoBookingKey
          BY <5>1, <1>0, <1>2 DEF IntakeKept, IntakeTyped, IntakeTypeOK
        <5> QED BY <4>1, <5>1, <5>2 DEF IntakeKept, UsesOfDrafts
      <4>2. CASE x = new
        BY <4>2, <1>0, <1>2, <1>4 DEF IntakeKept, IntakeTyped, IntakeTypeOK
      <4> QED BY <4>1, <4>2, <1>5
    <3> QED BY <3>4, <3>5
  <2> QED BY <2>1, <2>2
<1>7. KeyRowsTrue' /\ DraftsTrue'
  BY <1>0, <1>1 DEF IntakeKept, IntakeTyped, IntakeTypeOK, KeyRowsTrue, DraftsTrue
<1> QED BY <1>3, <1>6, <1>7 DEF IntakeKept

LEMMA PhoneKeeps ==
    ASSUME NEW u \in Users, StopsWaiting(u) \/ DraftEnds(u), IntakeKept
    PROVE  IntakeKept'
<1> USE IntakeAssumption
<1>0. UNCHANGED <<call, keyRow, booked>>
  BY DEF StopsWaiting, DraftEnds
<1>1. CASE StopsWaiting(u)
  <2>1. \A v \in Users : draft'[v].nth = draft[v].nth /\ draft'[v].key = draft[v].key /\ draft'[v].has = draft[v].has
    BY <1>1 DEF StopsWaiting, IntakeKept, IntakeTyped, IntakeTypeOK
  <2>2. Uses' \subseteq Uses
    BY <2>1, <1>0 DEF Uses, Use
  <2>3. IntakeTyped'
    BY <1>0, <1>1 DEF StopsWaiting, IntakeKept, IntakeTyped, IntakeTypeOK
  <2> QED BY <1>0, <2>1, <2>2, <2>3, FewerUses DEF IntakeKept, KeyRowsTrue, DraftsTrue
<1>2. CASE DraftEnds(u)
  <2>0. draft[u].nth \in 1..MaxDrafts /\ draft[u].nth < MaxDrafts /\ draft' = [draft EXCEPT ![u] = NewDraft(draft[u].nth + 1)]
    BY <1>2 DEF DraftEnds, IntakeKept, IntakeTyped, IntakeTypeOK
  <2>1. draft'[u].nth = draft[u].nth + 1 /\ draft'[u].key = NoBookingKey /\ draft'[u].has = FALSE
    BY <2>0 DEF NewDraft, IntakeKept, IntakeTyped, IntakeTypeOK
  <2>2. \A v \in Users \ {u} : draft'[v] = draft[v]
    BY <2>0 DEF IntakeKept, IntakeTyped, IntakeTypeOK
  <2>3. Uses' \subseteq Uses
    BY <2>1, <2>2, <1>0 DEF Uses, Use
  <2>4. IntakeTyped'
    BY <1>0, <2>0 DEF NewDraft, IntakeKept, IntakeTyped, IntakeTypeOK
  <2>5. OneUse'
    BY <2>3 DEF IntakeKept, OneUse
  <2>6. UsesOfDrafts'
    <3> SUFFICES ASSUME NEW x \in Uses'
                 PROVE  x.nth <= draft'[x.by].nth /\ (draft'[x.by].key = NoBookingKey => x.nth # draft'[x.by].nth)
      BY DEF UsesOfDrafts
    <3>1. x \in Uses /\ x.by \in Users /\ x.nth \in 1..MaxDrafts
      BY <2>3 DEF Uses, Use
    <3>2. x.nth <= draft[x.by].nth
      BY <3>1 DEF IntakeKept, UsesOfDrafts
    <3>3. CASE x.by = u
      BY <3>1, <3>2, <3>3, <2>0, <2>1
    <3>4. CASE x.by # u
      BY <3>1, <3>4, <2>2 DEF IntakeKept, UsesOfDrafts
    <3> QED BY <3>3, <3>4
  <2>7. KeyRowsTrue'
    BY <1>0 DEF IntakeKept, KeyRowsTrue
  <2>8. DraftsTrue'
    BY <1>0, <2>1, <2>2 DEF IntakeKept, DraftsTrue
  <2> QED BY <2>4, <2>5, <2>6, <2>7, <2>8 DEF IntakeKept
<1> QED BY <1>1, <1>2

\* A reply leaves the draft's number and key, and says there is a booking only if told so.
LEMMA ReplyEffect ==
    ASSUME NEW r \in Calls, NEW booking \in BOOLEAN, Reply(r, booking), IntakeTyped, call[r].pc # "idle"
    PROVE  /\ draft' \in [Users -> [nth : 1..MaxDrafts, key : BookingKeys \cup {NoBookingKey}, has : BOOLEAN, waits : BOOLEAN]]
           /\ \A v \in Users : draft'[v].nth = draft[v].nth /\ draft'[v].key = draft[v].key
           /\ \A v \in Users : draft'[v].has =>
                 draft[v].has \/ (booking /\ call[r].by = v /\ call[r].nth = draft[v].nth)
           /\ call' = [call EXCEPT ![r] = NoCall]
<1>1. call[r].by \in Users
  BY DEF IntakeTyped
<1>2. CASE UNCHANGED draft
  BY <1>2 DEF Reply, IntakeTyped, IntakeTypeOK
<1>3. CASE /\ draft[call[r].by].waits /\ draft[call[r].by].nth = call[r].nth
           /\ draft' = [draft EXCEPT ![call[r].by].waits = FALSE, ![call[r].by].has = booking]
  <2>1. draft \in [Users -> DraftRecord]
    BY DEF IntakeTyped, IntakeTypeOK, DraftRecord
  <2>3. draft' = [draft EXCEPT ![call[r].by].waits = FALSE, ![call[r].by].has = booking]
    BY <1>3
  <2>2. /\ draft' \in [Users -> DraftRecord]
        /\ draft'[call[r].by].nth = draft[call[r].by].nth /\ draft'[call[r].by].key = draft[call[r].by].key
        /\ draft'[call[r].by].has = booking
        /\ \A v \in Users \ {call[r].by} : draft'[v] = draft[v]
    BY <1>1, <2>1, <2>3, ReplyHeard
  <2> QED BY <1>3, <2>2 DEF Reply, DraftRecord
<1> QED BY <1>2, <1>3 DEF Reply

\* Seen, Refuse and Replay: the request ends, and nothing of the tables changes.
LEMMA AnswerKeeps ==
    ASSUME NEW r \in Calls, NEW booking \in BOOLEAN, Reply(r, booking), UNCHANGED <<keyRow, booked>>,
           call[r].pc # "idle", IntakeKept,
           booking => keyRow[call[r].key] = [state |-> "stored", by |-> call[r].by]
    PROVE  IntakeKept'
<1> USE IntakeAssumption
<1>1. /\ draft' \in [Users -> [nth : 1..MaxDrafts, key : BookingKeys \cup {NoBookingKey}, has : BOOLEAN, waits : BOOLEAN]]
      /\ \A v \in Users : draft'[v].nth = draft[v].nth /\ draft'[v].key = draft[v].key
      /\ \A v \in Users : draft'[v].has =>
            draft[v].has \/ (booking /\ call[r].by = v /\ call[r].nth = draft[v].nth)
      /\ call' = [call EXCEPT ![r] = NoCall]
  BY ReplyEffect DEF IntakeKept
<1>2. IntakeTyped'
  BY <1>1 DEF IntakeKept, IntakeTyped, IntakeTypeOK, NoCall
<1>3. Uses' \subseteq Uses
  BY <1>1 DEF Uses, Use, NoCall, IntakeKept, IntakeTyped, IntakeTypeOK
<1>4. OneUse' /\ UsesOfDrafts'
  BY <1>1, <1>3, FewerUses DEF IntakeKept
<1>5. KeyRowsTrue'
  BY <1>1 DEF IntakeKept, KeyRowsTrue, NoCall, IntakeTyped, IntakeTypeOK
<1>6. ASSUME booking PROVE \E b \in booked : b.by = call[r].by /\ b.nth = call[r].nth
  <2>1. /\ call[r].by \in Users /\ call[r].nth \in 1..MaxDrafts /\ call[r].key \in BookingKeys
    BY DEF IntakeKept, IntakeTyped
  <2>2. PICK b \in booked : b.key = call[r].key
    BY <1>6, <2>1 DEF IntakeKept, KeyRowsTrue
  <2> DEFINE x == [by |-> b.by, nth |-> b.nth, key |-> b.key]
             y == [by |-> call[r].by, nth |-> call[r].nth, key |-> call[r].key]
  <2>3. x \in Uses
    BY DEF IntakeKept, IntakeTyped, IntakeTypeOK, Uses, Use
  <2>4. y \in Uses
    BY <2>1 DEF Uses, Use
  <2>5. x.by = y.by /\ x.nth = y.nth
    BY <2>2, <2>3, <2>4 DEF IntakeKept, OneUse
  <2> QED BY <2>5
<1>7. DraftsTrue'
  BY <1>1, <1>6 DEF IntakeKept, DraftsTrue
<1> QED BY <1>2, <1>4, <1>5, <1>7 DEF IntakeKept

LEMMA ReserveKeeps ==
    ASSUME NEW r \in Calls, Unseen(r) \/ Reserve(r), IntakeKept
    PROVE  IntakeKept'
<1> USE IntakeAssumption
<1>1. PICK pc \in {"insert", "commit"} : Proceed(r, pc) /\ pc = IF Reserve(r) THEN "commit" ELSE "insert"
  BY DEF Unseen, Reserve
<1>2. call[r].pc # "idle" /\ UNCHANGED <<draft, booked>>
  BY DEF Unseen, Reserve
<1>3. call[r].by \in Users /\ call[r].nth \in 1..MaxDrafts /\ call[r].key \in BookingKeys
  BY <1>2 DEF IntakeKept, IntakeTyped
<1>4. /\ call' = [call EXCEPT ![r].pc = pc]
      /\ \A s \in Calls : call'[s].by = call[s].by /\ call'[s].nth = call[s].nth /\ call'[s].key = call[s].key
      /\ \A s \in Calls : call'[s].pc = IF s = r THEN pc ELSE call[s].pc
  BY <1>1 DEF Proceed, IntakeKept, IntakeTyped, IntakeTypeOK
<1>5. keyRow' \in [BookingKeys -> [state : {"free", "reserved", "stored"}, by : Users \cup {"nobody"}]]
  BY <1>3 DEF Unseen, Reserve, IntakeKept, IntakeTyped, IntakeTypeOK
<1>6. IntakeTyped'
  BY <1>1, <1>2, <1>3, <1>4, <1>5 DEF IntakeKept, IntakeTyped, IntakeTypeOK
<1>7. Uses' \subseteq Uses
  BY <1>2, <1>4 DEF Uses, Use
<1>8. OneUse' /\ UsesOfDrafts' /\ DraftsTrue'
  BY <1>2, <1>7, FewerUses DEF IntakeKept, DraftsTrue
<1>9. KeyRowsTrue'
  <2>1. CASE Reserve(r)
    <3>1. keyRow[call[r].key].state = "free" /\ pc = "commit"
      BY <1>1, <2>1 DEF Reserve, Reserves
    <3>2. \A k \in BookingKeys : keyRow'[k] = IF k = call[r].key THEN [state |-> "reserved", by |-> call[r].by] ELSE keyRow[k]
      BY <2>1, <1>3 DEF Reserve, IntakeKept, IntakeTyped, IntakeTypeOK
    <3>3. \A s \in Calls : call[s].pc = "commit" => call[s].key # call[r].key /\ call[s].key \in BookingKeys
      BY <3>1, RowStates
    <3>4. \A b \in booked : b.key # call[r].key /\ b.key \in BookingKeys
      BY <3>1, RowStates
    <3>5. \A s \in Calls : call'[s].pc = "commit" => s = r \/ call[s].pc = "commit"
      BY <1>4
    <3>6. \A s \in Calls : call'[s].pc = "commit" =>
              keyRow'[call'[s].key] = [state |-> "reserved", by |-> call'[s].by]
      BY <1>3, <1>4, <3>2, <3>3, <3>5 DEF IntakeKept, KeyRowsTrue
    <3>7. \A s, q \in Calls : call'[s].pc = "commit" /\ call'[q].pc = "commit" /\ call'[s].key = call'[q].key => s = q
      BY <1>4, <3>3, <3>5 DEF IntakeKept, KeyRowsTrue
    <3>8. \A k \in BookingKeys : keyRow'[k].state = "stored" => keyRow[k].state = "stored"
      BY <3>2
    <3> QED BY <1>2, <3>2, <3>4, <3>6, <3>7, <3>8 DEF IntakeKept, KeyRowsTrue
  <2>2. CASE ~Reserve(r)
    BY <1>1, <1>2, <1>4, <2>2 DEF Unseen, IntakeKept, KeyRowsTrue
  <2> QED BY <2>1, <2>2
<1> QED BY <1>6, <1>8, <1>9 DEF IntakeKept

LEMMA CommitKeeps ==
    ASSUME NEW r \in Calls, Commit(r), IntakeKept
    PROVE  IntakeKept'
<1> USE IntakeAssumption
<1> DEFINE new == [by |-> call[r].by, nth |-> call[r].nth, key |-> call[r].key, n |-> Cardinality(booked)]
<1>0. /\ call[r].pc = "commit"
      /\ booked' = booked \cup {new}
      /\ keyRow' = [keyRow EXCEPT ![call[r].key].state = "stored"]
      /\ Reply(r, TRUE)
  BY DEF Commit
<1>1. call[r].by \in Users /\ call[r].nth \in 1..MaxDrafts /\ call[r].key \in BookingKeys
  BY <1>0 DEF IntakeKept, IntakeTyped
<1>2. /\ draft' \in [Users -> [nth : 1..MaxDrafts, key : BookingKeys \cup {NoBookingKey}, has : BOOLEAN, waits : BOOLEAN]]
      /\ \A v \in Users : draft'[v].nth = draft[v].nth /\ draft'[v].key = draft[v].key
      /\ \A v \in Users : draft'[v].has =>
            draft[v].has \/ (call[r].by = v /\ call[r].nth = draft[v].nth)
      /\ call' = [call EXCEPT ![r] = NoCall]
  BY <1>0, ReplyEffect DEF IntakeKept
<1>3. new.by = call[r].by /\ new.nth = call[r].nth /\ new.key = call[r].key /\ new.n = Cardinality(booked)
  OBVIOUS
<1>4. Cardinality(booked) \in Nat /\ IsFiniteSet(booked')
  BY <1>0, FS_CardinalityType, FS_AddElement DEF IntakeKept, IntakeTyped
<1> HIDE DEF new
<1>5. IntakeTyped'
  <2>1. \A b \in booked' : b.by \in Users /\ b.nth \in 1..MaxDrafts /\ b.key \in BookingKeys /\ b.n \in Nat
    BY <1>0, <1>1, <1>3, <1>4 DEF IntakeKept, IntakeTyped, IntakeTypeOK
  <2>2. keyRow' \in [BookingKeys -> [state : {"free", "reserved", "stored"}, by : Users \cup {"nobody"}]]
    BY <1>0 DEF IntakeKept, IntakeTyped, IntakeTypeOK
  <2> QED BY <1>2, <1>4, <2>1, <2>2 DEF IntakeKept, IntakeTyped, IntakeTypeOK, NoCall
<1>6. Uses' \subseteq Uses
  BY <1>0, <1>2, <1>3 DEF Uses, Use, NoCall, IntakeKept, IntakeTyped, IntakeTypeOK
<1>7. OneUse' /\ UsesOfDrafts'
  BY <1>2, <1>6, FewerUses DEF IntakeKept
<1>8. KeyRowsTrue'
  <2>1. keyRow[call[r].key] = [state |-> "reserved", by |-> call[r].by]
    BY <1>0 DEF IntakeKept, KeyRowsTrue
  <2>2. \A k \in BookingKeys : keyRow'[k] = IF k = call[r].key THEN [state |-> "stored", by |-> call[r].by] ELSE keyRow[k]
    BY <1>0, <1>1, <2>1 DEF IntakeKept, IntakeTyped, IntakeTypeOK
  <2>3. \A s \in Calls : call'[s].pc = "commit" => s # r /\ call'[s] = call[s] /\ call[s].key # call[r].key
    BY <1>0, <1>2 DEF NoCall, IntakeKept, IntakeTyped, IntakeTypeOK, KeyRowsTrue
  <2>4. \A s \in Calls : call'[s].pc = "commit" => call[s].key \in BookingKeys
    BY <2>3 DEF IntakeKept, IntakeTyped
  <2>5. \A b \in booked : b.key # call[r].key /\ b.key \in BookingKeys
    BY <2>1, RowStates
  <2> QED BY <1>0, <1>1, <1>3, <2>2, <2>3, <2>4, <2>5 DEF IntakeKept, KeyRowsTrue
<1>9. DraftsTrue'
  BY <1>0, <1>2, <1>3 DEF IntakeKept, DraftsTrue
<1> QED BY <1>5, <1>7, <1>8, <1>9 DEF IntakeKept

LEMMA RollbackKeeps ==
    ASSUME NEW r \in Calls, Rollback(r), IntakeKept
    PROVE  IntakeKept'
<1> USE IntakeAssumption
<1>0. /\ call[r].pc = "commit" /\ booked' = booked
      /\ keyRow' = [keyRow EXCEPT ![call[r].key] = FreeKey]
      /\ Reply(r, FALSE)
  BY DEF Rollback
<1>1. call[r].by \in Users /\ call[r].nth \in 1..MaxDrafts /\ call[r].key \in BookingKeys
  BY <1>0 DEF IntakeKept, IntakeTyped
<1>2. /\ draft' \in [Users -> [nth : 1..MaxDrafts, key : BookingKeys \cup {NoBookingKey}, has : BOOLEAN, waits : BOOLEAN]]
      /\ \A v \in Users : draft'[v].nth = draft[v].nth /\ draft'[v].key = draft[v].key
      /\ \A v \in Users : draft'[v].has => draft[v].has
      /\ call' = [call EXCEPT ![r] = NoCall]
  BY <1>0, ReplyEffect DEF IntakeKept
<1>3. IntakeTyped'
  BY <1>0, <1>1, <1>2 DEF IntakeKept, IntakeTyped, IntakeTypeOK, NoCall, FreeKey
<1>4. Uses' \subseteq Uses
  BY <1>0, <1>2 DEF Uses, Use, NoCall, IntakeKept, IntakeTyped, IntakeTypeOK
<1>5. OneUse' /\ UsesOfDrafts' /\ DraftsTrue'
  BY <1>0, <1>2, <1>4, FewerUses DEF IntakeKept, DraftsTrue
<1>6. KeyRowsTrue'
  <2>1. \A k \in BookingKeys : keyRow'[k] = IF k = call[r].key THEN FreeKey ELSE keyRow[k]
    BY <1>0, <1>1 DEF IntakeKept, IntakeTyped, IntakeTypeOK
  <2>2. \A s \in Calls : call'[s].pc = "commit" => s # r /\ call'[s] = call[s] /\ call[s].key # call[r].key
    BY <1>0, <1>2 DEF NoCall, IntakeKept, IntakeTyped, IntakeTypeOK, KeyRowsTrue
  <2>3. \A s \in Calls : call'[s].pc = "commit" => call[s].key \in BookingKeys
    BY <2>2 DEF IntakeKept, IntakeTyped
  <2>4. \A b \in booked : b.key # call[r].key /\ b.key \in BookingKeys
    BY <1>0, RowStates
  <2> QED BY <1>0, <2>1, <2>2, <2>3, <2>4 DEF IntakeKept, KeyRowsTrue, FreeKey
<1> QED BY <1>3, <1>5, <1>6 DEF IntakeKept

LEMMA IntakeStarts == IntakeInit => IntakeKept
<1> SUFFICES ASSUME IntakeInit PROVE IntakeKept
  OBVIOUS
<1> USE IntakeAssumption
<1>1. IntakeTyped
  BY FS_EmptySet DEF IntakeInit, IntakeTyped, IntakeTypeOK, NoCall, FreeKey, NewDraft
<1>2. Uses = {}
  BY DEF IntakeInit, Uses, Use, NoCall, NewDraft
<1> QED BY <1>1, <1>2 DEF IntakeKept, OneUse, UsesOfDrafts, KeyRowsTrue, DraftsTrue, IntakeInit, NoCall, FreeKey, NewDraft

LEMMA IntakeSteps == IntakeKept /\ [IntakeNext]_intakeVars => IntakeKept'
<1> SUFFICES ASSUME IntakeKept, [IntakeNext]_intakeVars PROVE IntakeKept'
  OBVIOUS
<1>1. ASSUME NEW u \in Users, Tap(u) \/ StopsWaiting(u) \/ DraftEnds(u) PROVE IntakeKept'
  BY <1>1, TapKeeps, PhoneKeeps
<1>2. ASSUME NEW r \in Calls, Seen(r) PROVE IntakeKept'
  <2>1. call[r].pc # "idle" /\ UNCHANGED <<keyRow, booked>>
    BY <1>2 DEF Seen
  <2>2. call[r].key \in BookingKeys /\ call[r].by \in Users
    BY <2>1 DEF IntakeKept, IntakeTyped
  <2>3. PICK booking \in BOOLEAN : booking = (keyRow[call[r].key].by = call[r].by)
    OBVIOUS
  <2>4. Reply(r, booking)
    BY <1>2, <2>3 DEF Seen
  <2>5. booking => keyRow[call[r].key] = [state |-> "stored", by |-> call[r].by]
    BY <1>2, <2>2, <2>3 DEF Seen, IntakeKept, IntakeTyped, IntakeTypeOK
  <2> QED BY <2>1, <2>4, <2>5, AnswerKeeps
<1>3. ASSUME NEW r \in Calls, Refuse(r) PROVE IntakeKept'
  <2>1. call[r].pc # "idle" /\ UNCHANGED <<keyRow, booked>> /\ Reply(r, FALSE)
    BY <1>3 DEF Refuse
  <2> QED BY <2>1, AnswerKeeps
<1>4. ASSUME NEW r \in Calls, Replay(r) PROVE IntakeKept'
  <2>1. call[r].pc # "idle" /\ UNCHANGED <<keyRow, booked>>
    BY <1>4 DEF Replay
  <2>2. call[r].key \in BookingKeys /\ call[r].by \in Users
    BY <2>1 DEF IntakeKept, IntakeTyped
  <2>3. PICK booking \in BOOLEAN : booking = (keyRow[call[r].key].by = call[r].by)
    OBVIOUS
  <2>4. Reply(r, booking)
    BY <1>4, <2>3 DEF Replay
  <2>5. booking => keyRow[call[r].key] = [state |-> "stored", by |-> call[r].by]
    BY <1>4, <2>2, <2>3 DEF Replay, IntakeKept, IntakeTyped, IntakeTypeOK
  <2> QED BY <2>1, <2>4, <2>5, AnswerKeeps
<1>5. ASSUME NEW r \in Calls, Unseen(r) \/ Reserve(r) PROVE IntakeKept'
  BY <1>5, ReserveKeeps
<1>6. ASSUME NEW r \in Calls, Commit(r) PROVE IntakeKept'
  BY <1>6, CommitKeeps
<1>7. ASSUME NEW r \in Calls, Rollback(r) PROVE IntakeKept'
  BY <1>7, RollbackKeeps
<1>8. CASE UNCHANGED intakeVars
  BY <1>8 DEF intakeVars, IntakeKept, IntakeTyped, IntakeTypeOK, OneUse, UsesOfDrafts, Uses, KeyRowsTrue, DraftsTrue
<1> QED BY <1>1, <1>2, <1>3, <1>4, <1>5, <1>6, <1>7, <1>8 DEF IntakeNext

LEMMA IntakeInvariant == IntakeSpec => []IntakeKept
BY IntakeStarts, IntakeSteps, PTL DEF IntakeSpec

\* The drafts, requests, keys and bookings have their types.
THEOREM IntakeTypes == IntakeSpec => []IntakeTypeOK
<1>1. IntakeKept => IntakeTypeOK
  BY DEF IntakeKept, IntakeTyped
<1> QED BY <1>1, IntakeInvariant, PTL

\* However often a draft is tapped, its tab left, its replies lost and its requests
\* overlapped in POST /v1/bookings, it makes one booking, whose reply is stored.
THEOREM BookedOnce == IntakeSpec => []OneBookingPerDraft
<1>1. IntakeKept => OneBookingPerDraft
  <2> SUFFICES ASSUME IntakeKept PROVE OneBookingPerDraft
    OBVIOUS
  <2>1. ASSUME NEW b \in booked, NEW c \in booked, b.by = c.by, b.nth = c.nth PROVE b = c
    <3> DEFINE x == [by |-> b.by, nth |-> b.nth, key |-> b.key]
               y == [by |-> c.by, nth |-> c.nth, key |-> c.key]
    <3>1. x \in Uses /\ y \in Uses
      BY DEF IntakeKept, IntakeTyped, IntakeTypeOK, Uses, Use
    <3>2. x.key = y.key
      BY <2>1, <3>1 DEF IntakeKept, OneUse
    <3> QED BY <3>2 DEF IntakeKept, KeyRowsTrue
  <2> QED BY <2>1 DEF OneBookingPerDraft, IntakeKept, KeyRowsTrue, DraftsTrue
<1> QED BY <1>1, IntakeInvariant, PTL

-----------------------------------------------------------------------------
(* The emergency contacts *)

ContactRecord == [state : {"absent", "listed", "removed"}, number : Numbers \cup {NoRow}, chat : Chats \cup {NoChat}]
CodeRecord == [state : {"unmade", "live", "used", "withdrawn", "expired"}, of : Rows \cup {NoRow}]
InviteRecord == [of : Rows \cup {NoRow}, wrote : BOOLEAN, old : SUBSET Codes]

\* A request in hand has what it needs.
ContactsTyped ==
    /\ ContactsTypeOK
    /\ \A r \in Adds : adding[r] = NotAdding \/ adding[r].number \in Numbers
    /\ \A r \in Starts : starting[r] = NotStarting \/ starting[r].code \in Codes
    /\ \A r \in Invites : inviting[r].wrote => inviting[r].of \in Rows

\* One request at a time holds the list, and it has seen everybody on it.
ListSeen ==
    /\ IsFiniteSet(Listed)
    /\ \A r, s \in Adds : adding[r] # NotAdding /\ adding[s] # NotAdding => r = s
    /\ \A r \in Adds : adding[r] # NotAdding => Listed \subseteq adding[r].seen /\ IsFiniteSet(adding[r].seen)

\* One invitation at a time holds a contact.  One that has written withdraws every
\* live code of its contact; what it withdraws is live until it does.
Live(k) == code[k].state = "live"
InvitesKept ==
    /\ \A i, j \in Invites : inviting[i].of = inviting[j].of /\ inviting[i].of # NoRow => i = j
    /\ \A i \in Invites : \A k \in inviting[i].old : Live(k) /\ code[k].of = inviting[i].of
    /\ \A i \in Invites : inviting[i].wrote =>
         \A k \in Codes : Live(k) /\ code[k].of = inviting[i].of => k \in inviting[i].old

OneLive == \A k, l \in Codes : Live(k) /\ Live(l) /\ code[k].of = code[l].of => k = l

\* A claimed code is live, claimed once, and no invitation withdraws it.
ClaimsKept ==
    /\ \A r \in Starts : starting[r] # NotStarting =>
         Live(starting[r].code) /\ \A i \in Invites : starting[r].code \notin inviting[i].old
    /\ \A r, s \in Starts : starting[r] # NotStarting /\ starting[s] # NotStarting
                              /\ starting[r].code = starting[s].code => r = s

\* Only a used code has linked a chat.
LinksKept == \A k \in Codes : links[k] <= 1 /\ (code[k].state # "used" => links[k] = 0)

ContactsKept ==
    ContactsTyped /\ ListSeen /\ ContactsCapped /\ InvitesKept /\ OneLive /\ ClaimsKept /\ LinksKept

\* The two halves: the list, and the links.
ListKept == ListSeen /\ ContactsCapped
CodesKept == InvitesKept /\ OneLive /\ ClaimsKept /\ LinksKept

\* A change that lists nobody keeps the cap.
LEMMA NobodyListed ==
    ASSUME ContactsKept, UNCHANGED adding,
           \A x \in Rows : contact'[x].number = contact[x].number,
           \A x \in Rows : contact'[x].state = "listed" => contact[x].state = "listed"
    PROVE  ListKept'
<1>1. Listed' \subseteq Listed
  BY DEF Listed
<1>2. IsFiniteSet(Listed) /\ Cardinality(Listed) <= MaxContacts /\ MaxContacts \in Nat
  BY ContactsAssumption DEF ContactsKept, ListSeen, ContactsCapped
<1>3. IsFiniteSet(Listed') /\ Cardinality(Listed') <= Cardinality(Listed)
  BY <1>1, <1>2, FS_Subset
<1>4. Cardinality(Listed') \in Nat /\ Cardinality(Listed) \in Nat
  BY <1>2, <1>3, FS_CardinalityType
<1>5. Cardinality(Listed') <= MaxContacts
  BY <1>2, <1>3, <1>4
<1>6. ListSeen'
  BY <1>1, <1>3 DEF ContactsKept, ListSeen
<1>7. \A x, y \in Listed' : contact'[x].number = contact'[y].number => x = y
  <2>1. \A x \in Listed' : x \in Listed /\ contact'[x].number = contact[x].number
    BY <1>1 DEF Listed
  <2> QED BY <2>1 DEF ContactsKept, ContactsCapped
<1> QED BY <1>5, <1>6, <1>7 DEF ListKept, ContactsCapped

LEMMA SameCodes ==
    ASSUME ContactsKept, UNCHANGED <<code, links, inviting, starting>>
    PROVE  CodesKept'
BY DEF ContactsKept, CodesKept, InvitesKept, OneLive, ClaimsKept, LinksKept, Live

LEMMA SameList ==
    ASSUME ContactsKept, UNCHANGED <<contact, adding>>
    PROVE  ListKept'
BY DEF ContactsKept, ListKept, ListSeen, ContactsCapped, Listed

LEMMA Halves == ContactsTyped' /\ ListKept' /\ CodesKept' => ContactsKept'
BY DEF ContactsKept, ListKept, CodesKept

LEMMA AddReadKeeps ==
    ASSUME ContactsKept, NEW r \in Adds, NEW n \in Numbers, AddRead(r, n)
    PROVE  ContactsKept'
<1> USE ContactsAssumption
<1>1. /\ adding' = [adding EXCEPT ![r] = [number |-> n, seen |-> Listed]]
      /\ UNCHANGED <<contact, code, links, inviting, starting>>
      /\ \A s \in Adds : adding[s] = NotAdding
  BY DEF AddRead, ListFree, rowsOfContacts
<1>2. Listed \in SUBSET Rows /\ Listed' = Listed
  BY <1>1 DEF Listed
<1>3. \A s \in Adds : adding'[s] = IF s = r THEN [number |-> n, seen |-> Listed] ELSE NotAdding
  BY <1>1 DEF ContactsKept, ContactsTyped, ContactsTypeOK
<1>4. ContactsTyped'
  BY <1>1, <1>2, <1>3 DEF ContactsKept, ContactsTyped, ContactsTypeOK
<1>5. ListKept'
  BY <1>1, <1>2, <1>3 DEF ContactsKept, ListKept, ListSeen, ContactsCapped
<1> QED BY <1>1, <1>4, <1>5, SameCodes, Halves

LEMMA AddInsertKeeps ==
    ASSUME ContactsKept, NEW r \in Adds, AddInsert(r)
    PROVE  ContactsKept'
<1> USE ContactsAssumption
<1>1. /\ adding[r] # NotAdding
      /\ adding' = [adding EXCEPT ![r] = NotAdding]
      /\ UNCHANGED <<code, links, inviting, starting>>
  BY DEF AddInsert
<1>2. /\ Listed \subseteq adding[r].seen /\ IsFiniteSet(adding[r].seen) /\ IsFiniteSet(Listed)
      /\ \A s \in Adds : s # r => adding[s] = NotAdding
      /\ adding[r].number \in Numbers
  BY <1>1 DEF ContactsKept, ContactsTyped, ListSeen
<1>3. \A s \in Adds : adding'[s] = NotAdding
  BY <1>1, <1>2 DEF ContactsKept, ContactsTyped, ContactsTypeOK
<1>4. adding' \in [Adds -> [number : Numbers \cup {NoRow}, seen : SUBSET Rows]]
  BY <1>1 DEF ContactsKept, ContactsTyped, ContactsTypeOK, NotAdding
<1>5. CASE UNCHANGED contact
  <2>1. ContactsTyped'
    BY <1>1, <1>3, <1>4, <1>5 DEF ContactsKept, ContactsTyped, ContactsTypeOK
  <2>2. ListKept'
    BY <1>3, <1>5 DEF ContactsKept, ListKept, ListSeen, ContactsCapped, Listed
  <2> QED BY <1>1, <2>1, <2>2, SameCodes, Halves
<1>6. CASE contact' # contact
  <2>1. /\ \A x \in adding[r].seen : contact[x].number # adding[r].number
        /\ ~(Cardinality(adding[r].seen) >= MaxContacts)
    BY <1>6 DEF AddInsert
  <2>2. PICK x \in Rows :
          /\ contact[x].state = "absent"
          /\ contact' = [contact EXCEPT ![x] = [Absent EXCEPT !.state = "listed", !.number = adding[r].number]]
    BY <1>6 DEF AddInsert
  <2> DEFINE new == [Absent EXCEPT !.state = "listed", !.number = adding[r].number]
  <2>3. new \in ContactRecord /\ new.state = "listed" /\ new.number = adding[r].number
    BY <1>2 DEF Absent, ContactRecord
  <2>4. \A y \in Rows : contact'[y] = IF y = x THEN new ELSE contact[y]
    BY <2>2 DEF ContactsKept, ContactsTyped, ContactsTypeOK
  <2> HIDE DEF new
  <2>5. contact' \in [Rows -> [state : {"absent", "listed", "removed"}, number : Numbers \cup {NoRow},
                              chat : Chats \cup {NoChat}]]
    BY <2>2, <2>3 DEF ContactsKept, ContactsTyped, ContactsTypeOK, ContactRecord, new
  <2>6. ContactsTyped'
    BY <1>1, <1>3, <1>4, <2>5 DEF ContactsKept, ContactsTyped, ContactsTypeOK
  <2>7. Listed' = Listed \cup {x} /\ x \notin Listed
    BY <2>2, <2>3, <2>4 DEF Listed
  <2>8. /\ IsFiniteSet(Listed')
        /\ Cardinality(Listed') = Cardinality(Listed) + 1
        /\ Cardinality(Listed) <= Cardinality(adding[r].seen)
        /\ Cardinality(Listed) \in Nat /\ Cardinality(adding[r].seen) \in Nat
    BY <1>2, <2>7, FS_AddElement, FS_Subset, FS_CardinalityType
  <2>9. Cardinality(Listed') <= MaxContacts
    BY <2>1, <2>8
  <2>10. \A y, z \in Listed' : contact'[y].number = contact'[z].number => y = z
    <3>1. \A y \in Listed : y \in Rows /\ y # x /\ contact'[y] = contact[y] /\ contact[y].number # adding[r].number
      BY <1>2, <2>1, <2>4, <2>7 DEF Listed
    <3>2. contact'[x].number = adding[r].number
      BY <2>3, <2>4
    <3> QED BY <2>7, <3>1, <3>2 DEF ContactsKept, ContactsCapped
  <2>11. ListKept'
    BY <1>3, <2>8, <2>9, <2>10 DEF ListKept, ListSeen, ContactsCapped
  <2> QED BY <1>1, <2>6, <2>11, SameCodes, Halves
<1> QED BY <1>5, <1>6

\* Unlist and Stop change a contact's state or chat, never its number.
LEMMA UnlistKeeps ==
    ASSUME ContactsKept, NEW x \in Rows, Unlist(x)
    PROVE  ContactsKept'
<1>1. /\ contact' = [contact EXCEPT ![x].state = "removed"]
      /\ UNCHANGED <<code, links, adding, inviting, starting>>
  BY DEF Unlist
<1>2. ContactsTyped'
  BY <1>1 DEF ContactsKept, ContactsTyped, ContactsTypeOK
<1>3. /\ \A y \in Rows : contact'[y].number = contact[y].number
      /\ \A y \in Rows : contact'[y].state = "listed" => contact[y].state = "listed"
  BY <1>1 DEF ContactsKept, ContactsTyped, ContactsTypeOK
<1> QED BY <1>1, <1>2, <1>3, NobodyListed, SameCodes, Halves

LEMMA StopKeeps ==
    ASSUME ContactsKept, NEW h \in Chats, Stop(h)
    PROVE  ContactsKept'
<1>1. /\ contact' = [x \in Rows |-> IF contact[x].chat = h THEN [contact[x] EXCEPT !.chat = NoChat] ELSE contact[x]]
      /\ UNCHANGED <<code, links, adding, inviting, starting>>
  BY DEF Stop
<1>2. ASSUME NEW y \in Rows
      PROVE  /\ contact'[y] \in ContactRecord
             /\ contact'[y].number = contact[y].number /\ contact'[y].state = contact[y].state
  <2>1. contact[y] \in ContactRecord
    BY DEF ContactsKept, ContactsTyped, ContactsTypeOK, ContactRecord
  <2>2. contact'[y] = contact[y] \/ contact'[y] = [contact[y] EXCEPT !.chat = NoChat]
    BY <1>1
  <2> QED BY <2>1, <2>2 DEF ContactRecord
<1>3. contact' \in [Rows -> ContactRecord]
  BY <1>1, <1>2
<1>4. ContactsTyped'
  BY <1>1, <1>3 DEF ContactsKept, ContactsTyped, ContactsTypeOK, ContactRecord
<1> QED BY <1>1, <1>2, <1>4, NobodyListed, SameCodes, Halves

LEMMA InviteLockKeeps ==
    ASSUME ContactsKept, NEW r \in Invites, NEW x \in Rows, InviteLock(r, x)
    PROVE  ContactsKept'
<1> USE ContactsAssumption
<1>1. /\ inviting[r] = NotInviting /\ inviting' = [inviting EXCEPT ![r].of = x]
      /\ \A i \in Invites : inviting[i].of # x
      /\ UNCHANGED <<contact, code, links, adding, starting>>
  BY DEF InviteLock, MayInvite, ContactFree, rowsOfContacts
<1>2. /\ \A i \in Invites \ {r} : inviting'[i] = inviting[i]
      /\ inviting'[r].of = x /\ inviting'[r].wrote = FALSE /\ inviting'[r].old = {}
  BY <1>1 DEF ContactsKept, ContactsTyped, ContactsTypeOK, NotInviting
<1>3. inviting' \in [Invites -> [of : Rows \cup {NoRow}, wrote : BOOLEAN, old : SUBSET Codes]]
  BY <1>1 DEF ContactsKept, ContactsTyped, ContactsTypeOK
<1>4. ContactsTyped'
  BY <1>1, <1>2, <1>3 DEF ContactsKept, ContactsTyped, ContactsTypeOK
<1>5. CodesKept'
  BY <1>1, <1>2 DEF ContactsKept, CodesKept, InvitesKept, OneLive, ClaimsKept, LinksKept, Live
<1> QED BY <1>1, <1>4, <1>5, SameList, Halves

LEMMA InviteWithdrawKeeps ==
    ASSUME ContactsKept, NEW r \in Invites, InviteWithdraw(r)
    PROVE  ContactsKept'
<1> USE ContactsAssumption
<1>1. /\ inviting[r].of # NoRow
      /\ \A k \in LiveCodes(inviting[r].of) : CodeFree(k)
      /\ inviting' = [inviting EXCEPT ![r].wrote = TRUE, ![r].old = LiveCodes(inviting[r].of)]
      /\ UNCHANGED <<contact, code, links, adding, starting>>
  BY DEF InviteWithdraw, rowsOfContacts
<1>0. inviting \in [Invites -> InviteRecord] /\ LiveCodes(inviting[r].of) \in SUBSET Codes
  BY DEF ContactsKept, ContactsTyped, ContactsTypeOK, InviteRecord, LiveCodes
<1>2. /\ \A i \in Invites \ {r} : inviting'[i] = inviting[i]
      /\ inviting'[r].of = inviting[r].of /\ inviting'[r].old = LiveCodes(inviting[r].of)
  BY <1>0, <1>1 DEF InviteRecord
<1>3. inviting' \in [Invites -> InviteRecord]
  BY <1>0, <1>1 DEF InviteRecord
<1>4. ContactsTyped'
  BY <1>0, <1>1, <1>2, <1>3 DEF ContactsKept, ContactsTyped, ContactsTypeOK, InviteRecord
<1>5. \A k \in Codes : k \in LiveCodes(inviting[r].of) <=> (Live(k) /\ code[k].of = inviting[r].of)
  BY DEF LiveCodes, Live
<1>6. \A s \in Starts : starting[s].code \notin LiveCodes(inviting[r].of)
  BY <1>1 DEF CodeFree
<1>7. InvitesKept'
  BY <1>0, <1>1, <1>2, <1>5 DEF ContactsKept, InvitesKept, Live
<1>8. OneLive' /\ ClaimsKept' /\ LinksKept'
  BY <1>1, <1>2, <1>6 DEF ContactsKept, OneLive, ClaimsKept, LinksKept, Live
<1> QED BY <1>1, <1>4, <1>7, <1>8, SameList, Halves DEF CodesKept

LEMMA InviteInsertKeeps ==
    ASSUME ContactsKept, NEW r \in Invites, InviteInsert(r)
    PROVE  ContactsKept'
<1> USE ContactsAssumption
<1>1. /\ inviting[r].wrote
      /\ inviting' = [inviting EXCEPT ![r] = NotInviting]
      /\ UNCHANGED <<contact, links, adding, starting>>
  BY DEF InviteInsert
<1>2. PICK k \in Codes :
         /\ code[k].state = "unmade"
         /\ code' = [j \in Codes |-> IF j = k THEN [state |-> "live", of |-> inviting[r].of]
                                     ELSE IF j \in inviting[r].old THEN [code[j] EXCEPT !.state = "withdrawn"]
                                     ELSE code[j]]
  BY DEF InviteInsert
<1>3. inviting[r].of \in Rows
  BY <1>1 DEF ContactsKept, ContactsTyped
<1>4. /\ code'[k] = [state |-> "live", of |-> inviting[r].of]
      /\ \A j \in inviting[r].old : j \in Codes /\ j # k
      /\ \A j \in Codes \ {k} : IF j \in inviting[r].old THEN code'[j] = [code[j] EXCEPT !.state = "withdrawn"]
                                ELSE code'[j] = code[j]
  BY <1>2 DEF ContactsKept, ContactsTyped, ContactsTypeOK, InvitesKept, Live
<1>5. \A j \in Codes : code[j] \in CodeRecord
  BY DEF ContactsKept, ContactsTyped, ContactsTypeOK, CodeRecord
<1>6. \A j \in Codes : code'[j] \in CodeRecord
  <2>1. ASSUME NEW j \in Codes, j # k PROVE code'[j] \in CodeRecord
    <3>1. code'[j] = code[j] \/ code'[j] = [code[j] EXCEPT !.state = "withdrawn"]
      BY <1>4, <2>1
    <3> QED BY <1>5, <3>1 DEF CodeRecord
  <2>2. code'[k] \in CodeRecord
    BY <1>3, <1>4 DEF CodeRecord
  <2> QED BY <2>1, <2>2
<1>7. /\ code'[k].state = "live" /\ code'[k].of = inviting[r].of
      /\ \A j \in Codes \ {k} : code'[j].of = code[j].of
      /\ \A j \in Codes \ {k} : IF j \in inviting[r].old THEN code'[j].state = "withdrawn"
                                ELSE code'[j].state = code[j].state
  <2>1. ASSUME NEW j \in Codes, j # k, j \in inviting[r].old
        PROVE  code'[j].of = code[j].of /\ code'[j].state = "withdrawn"
    <3>1. code'[j] = [code[j] EXCEPT !.state = "withdrawn"] /\ code[j] \in CodeRecord
      BY <1>4, <1>5, <2>1
    <3> QED BY <3>1 DEF CodeRecord
  <2>2. ASSUME NEW j \in Codes, j # k, j \notin inviting[r].old PROVE code'[j] = code[j]
    BY <1>4, <2>2
  <2> QED BY <1>4, <2>1, <2>2
<1>8. \A j \in Codes : Live(j)' <=> (j = k \/ (Live(j) /\ j \notin inviting[r].old))
  BY <1>2, <1>7 DEF Live
<1>9. /\ \A i \in Invites \ {r} : inviting'[i] = inviting[i]
      /\ inviting'[r] = NotInviting
  BY <1>1 DEF ContactsKept, ContactsTyped, ContactsTypeOK
<1>10. ContactsTyped'
  <2>1. inviting' \in [Invites -> [of : Rows \cup {NoRow}, wrote : BOOLEAN, old : SUBSET Codes]]
    BY <1>1 DEF ContactsKept, ContactsTyped, ContactsTypeOK, NotInviting
  <2>2. code' \in [Codes -> CodeRecord]
    BY <1>2, <1>6
  <2> QED BY <1>1, <1>9, <2>1, <2>2 DEF ContactsKept, ContactsTyped, ContactsTypeOK, CodeRecord, NotInviting
<1>11. \A i \in Invites \ {r} : inviting[i].of # inviting[r].of
  BY <1>3 DEF ContactsKept, InvitesKept
<1>12. \A j \in Codes : Live(j) /\ code[j].of = inviting[r].of => j \in inviting[r].old
  BY <1>1 DEF ContactsKept, InvitesKept
<1>13. \A i \in Invites \ {r} : \A j \in inviting[i].old : j \in Codes /\ j # k /\ j \notin inviting[r].old
  <2>1. \A i \in Invites : \A j \in inviting[i].old : j \in Codes /\ Live(j) /\ code[j].of = inviting[i].of
    BY DEF ContactsKept, ContactsTyped, ContactsTypeOK, InvitesKept
  <2> QED BY <1>2, <1>11, <2>1 DEF Live
<1>14. InvitesKept'
  <2>1. \A i, j \in Invites : inviting'[i].of = inviting'[j].of /\ inviting'[i].of # NoRow => i = j
    BY <1>9 DEF ContactsKept, InvitesKept, NotInviting
  <2>2. \A i \in Invites : \A j \in inviting'[i].old : Live(j)' /\ code'[j].of = inviting'[i].of
    BY <1>7, <1>8, <1>9, <1>13 DEF ContactsKept, InvitesKept, NotInviting
  <2>3. ASSUME NEW i \in Invites, inviting'[i].wrote, NEW j \in Codes, Live(j)', code'[j].of = inviting'[i].of
        PROVE  j \in inviting'[i].old
    <3>1. i # r /\ inviting'[i] = inviting[i]
      BY <1>9, <2>3 DEF NotInviting
    <3>2. j # k
      BY <1>7, <1>11, <2>3, <3>1
    <3> QED BY <1>7, <1>8, <2>3, <3>1, <3>2 DEF ContactsKept, InvitesKept
  <2> QED BY <2>1, <2>2, <2>3 DEF InvitesKept
<1>15. OneLive'
  BY <1>7, <1>8, <1>12 DEF ContactsKept, OneLive
<1>16. ClaimsKept'
  <2>1. \A s \in Starts : starting[s] # NotStarting => starting[s].code \in Codes /\ starting[s].code \notin inviting[r].old
    BY DEF ContactsKept, ContactsTyped, ClaimsKept
  <2> QED BY <1>1, <1>8, <1>9, <2>1 DEF ContactsKept, ClaimsKept, NotInviting
<1>17. LinksKept'
  <2>1. \A j \in Codes : code'[j].state # "used" => code[j].state # "used"
    BY <1>2, <1>7 DEF ContactsKept, InvitesKept, Live
  <2> QED BY <1>1, <2>1 DEF ContactsKept, LinksKept
<1> QED BY <1>1, <1>10, <1>14, <1>15, <1>16, <1>17, SameList, Halves DEF CodesKept

LEMMA CodeExpiresKeeps ==
    ASSUME ContactsKept, NEW k \in Codes, CodeExpires(k)
    PROVE  ContactsKept'
<1>1. /\ code[k].state = "live" /\ CodeFree(k)
      /\ code' = [code EXCEPT ![k].state = "expired"]
      /\ UNCHANGED <<contact, links, adding, inviting, starting>>
  BY DEF CodeExpires
<1>2. ContactsTyped'
  BY <1>1 DEF ContactsKept, ContactsTyped, ContactsTypeOK
<1>3. /\ \A j \in Codes : code'[j].of = code[j].of
      /\ \A j \in Codes : code'[j].state = IF j = k THEN "expired" ELSE code[j].state
  BY <1>1 DEF ContactsKept, ContactsTyped, ContactsTypeOK
<1>4. \A j \in Codes : Live(j)' <=> (Live(j) /\ j # k)
  BY <1>3 DEF Live
<1>5. \A i \in Invites : \A j \in inviting[i].old : j \in Codes /\ j # k
  BY <1>1 DEF CodeFree, ContactsKept, ContactsTyped, ContactsTypeOK
<1>6. \A s \in Starts : starting[s] # NotStarting => starting[s].code \in Codes \ {k}
  BY <1>1 DEF CodeFree, ContactsKept, ContactsTyped
<1>7. InvitesKept'
  BY <1>1, <1>3, <1>4, <1>5 DEF ContactsKept, InvitesKept
<1>8. OneLive'
  BY <1>3, <1>4 DEF ContactsKept, OneLive
<1>9. ClaimsKept'
  BY <1>1, <1>4, <1>6 DEF ContactsKept, ClaimsKept
<1>10. LinksKept'
  BY <1>1, <1>3 DEF ContactsKept, LinksKept
<1> QED BY <1>1, <1>2, <1>7, <1>8, <1>9, <1>10, SameList, Halves DEF CodesKept

LEMMA StartClaimKeeps ==
    ASSUME ContactsKept, NEW r \in Starts, NEW k \in Codes, NEW h \in Chats, StartClaim(r, k, h)
    PROVE  ContactsKept'
<1>1. /\ Live(k) /\ CodeFree(k)
      /\ starting' = [starting EXCEPT ![r] = [code |-> k, chat |-> h]]
      /\ UNCHANGED <<contact, code, links, adding, inviting>>
  BY DEF StartClaim, CodeClaimable, Live, rowsOfContacts
<1>2. \A s \in Starts : starting'[s] = IF s = r THEN [code |-> k, chat |-> h] ELSE starting[s]
  BY <1>1 DEF ContactsKept, ContactsTyped, ContactsTypeOK
<1>3. ContactsTyped'
  BY <1>1, <1>2 DEF ContactsKept, ContactsTyped, ContactsTypeOK
<1>4. ClaimsKept'
  BY <1>1, <1>2 DEF ContactsKept, ClaimsKept, CodeFree, Live
<1>5. InvitesKept' /\ OneLive' /\ LinksKept'
  BY <1>1 DEF ContactsKept, InvitesKept, OneLive, LinksKept, Live
<1> QED BY <1>1, <1>3, <1>4, <1>5, SameList, Halves DEF CodesKept

LEMMA StartLinkKeeps ==
    ASSUME ContactsKept, NEW r \in Starts, StartLink(r)
    PROVE  ContactsKept'
<1> DEFINE k == starting[r].code
<1>1. /\ starting[r] # NotStarting
      /\ code' = [code EXCEPT ![k].state = "used"]
      /\ starting' = [starting EXCEPT ![r] = NotStarting]
      /\ UNCHANGED <<adding, inviting>>
  BY DEF StartLink
<1>2. /\ k \in Codes /\ Live(k) /\ \A i \in Invites : k \notin inviting[i].old
      /\ starting[r].chat \in Chats \cup {NoChat}
  BY <1>1 DEF ContactsKept, ContactsTyped, ContactsTypeOK, ClaimsKept
<1>3. \/ UNCHANGED <<contact, links>>
      \/ /\ code[k].of \in Rows
         /\ contact' = [contact EXCEPT ![code[k].of].chat = starting[r].chat]
         /\ links' = [links EXCEPT ![k] = @ + 1]
  BY DEF StartLink, Listed
<1>4. /\ contact' \in [Rows -> ContactRecord]
      /\ \A y \in Rows : contact'[y].number = contact[y].number /\ contact'[y].state = contact[y].state
  <2>1. contact \in [Rows -> ContactRecord]
    BY DEF ContactsKept, ContactsTyped, ContactsTypeOK, ContactRecord
  <2>2. CASE contact' = contact
    BY <2>1, <2>2
  <2>3. CASE contact' # contact
    <3>1. PICK x \in Rows : contact' = [contact EXCEPT ![x].chat = starting[r].chat]
      BY <1>3, <2>3
    <3> QED BY <1>2, <2>1, <3>1 DEF ContactRecord
  <2> QED BY <2>2, <2>3
<1>5. /\ links' \in [Codes -> Nat]
      /\ \A j \in Codes \ {k} : links'[j] = links[j]
      /\ links'[k] <= 1
  BY <1>2, <1>3 DEF ContactsKept, ContactsTyped, ContactsTypeOK, LinksKept, Live
<1>6. /\ \A j \in Codes : code'[j].of = code[j].of
      /\ \A j \in Codes : code'[j].state = IF j = k THEN "used" ELSE code[j].state
      /\ code' \in [Codes -> [state : {"unmade", "live", "used", "withdrawn", "expired"}, of : Rows \cup {NoRow}]]
  BY <1>1, <1>2 DEF ContactsKept, ContactsTyped, ContactsTypeOK
<1>7. /\ \A s \in Starts : starting'[s] = IF s = r THEN NotStarting ELSE starting[s]
      /\ starting' \in [Starts -> [code : Codes \cup {NoRow}, chat : Chats \cup {NoChat}]]
  BY <1>1 DEF ContactsKept, ContactsTyped, ContactsTypeOK, NotStarting
<1> HIDE DEF k
<1>8. ContactsTyped'
  BY <1>1, <1>4, <1>5, <1>6, <1>7 DEF ContactsKept, ContactsTyped, ContactsTypeOK, ContactRecord
<1>9. \A j \in Codes : Live(j)' <=> (Live(j) /\ j # k)
  BY <1>6 DEF Live
<1>10. InvitesKept'
  <2>1. \A i \in Invites : \A j \in inviting[i].old : j \in Codes /\ j # k
    BY <1>2 DEF ContactsKept, ContactsTyped, ContactsTypeOK
  <2> QED BY <1>1, <1>6, <1>9, <2>1 DEF ContactsKept, InvitesKept
<1>11. OneLive'
  BY <1>6, <1>9 DEF ContactsKept, OneLive
<1>12. ClaimsKept'
  <2>1. \A s \in Starts : starting'[s] # NotStarting =>
           s # r /\ starting'[s] = starting[s] /\ starting[s].code \in Codes /\ starting[s].code # k
    BY <1>1, <1>7 DEF ContactsKept, ContactsTyped, ClaimsKept, k
  <2> QED BY <1>1, <1>9, <2>1 DEF ContactsKept, ClaimsKept
<1>13. LinksKept'
  BY <1>5, <1>6 DEF ContactsKept, LinksKept
<1>14. ListKept'
  BY <1>1, <1>4, NobodyListed
<1> QED BY <1>8, <1>10, <1>11, <1>12, <1>13, <1>14, Halves DEF CodesKept

LEMMA AbortsKeep ==
    ASSUME ContactsKept, (\E r \in Invites : InviteAborts(r)) \/ (\E r \in Starts : StartAborts(r))
    PROVE  ContactsKept'
<1>1. ASSUME NEW r \in Invites, InviteAborts(r) PROVE ContactsKept'
  <2>1. /\ inviting' = [inviting EXCEPT ![r] = NotInviting]
        /\ UNCHANGED <<contact, code, links, adding, starting>>
    BY <1>1 DEF InviteAborts, rowsOfContacts
  <2>2. \A i \in Invites : inviting'[i] = IF i = r THEN NotInviting ELSE inviting[i]
    BY <2>1 DEF ContactsKept, ContactsTyped, ContactsTypeOK
  <2>3. ContactsTyped'
    BY <2>1, <2>2 DEF ContactsKept, ContactsTyped, ContactsTypeOK, NotInviting
  <2>4. InvitesKept'
    BY <2>1, <2>2 DEF ContactsKept, InvitesKept, Live, NotInviting
  <2>5. OneLive' /\ ClaimsKept' /\ LinksKept'
    BY <2>1, <2>2 DEF ContactsKept, OneLive, ClaimsKept, LinksKept, Live, NotInviting
  <2> QED BY <2>1, <2>3, <2>4, <2>5, SameList, Halves DEF CodesKept
<1>2. ASSUME NEW r \in Starts, StartAborts(r) PROVE ContactsKept'
  <2>1. /\ starting' = [starting EXCEPT ![r] = NotStarting]
        /\ UNCHANGED <<contact, code, links, adding, inviting>>
    BY <1>2 DEF StartAborts, rowsOfContacts
  <2>2. \A s \in Starts : starting'[s] = IF s = r THEN NotStarting ELSE starting[s]
    BY <2>1 DEF ContactsKept, ContactsTyped, ContactsTypeOK
  <2>3. ContactsTyped'
    BY <2>1, <2>2 DEF ContactsKept, ContactsTyped, ContactsTypeOK, NotStarting
  <2>4. InvitesKept' /\ OneLive' /\ LinksKept'
    BY <2>1 DEF ContactsKept, InvitesKept, OneLive, LinksKept, Live
  <2>5. ClaimsKept'
    BY <2>1, <2>2 DEF ContactsKept, ClaimsKept, Live
  <2> QED BY <2>1, <2>3, <2>4, <2>5, SameList, Halves DEF CodesKept
<1> QED BY <1>1, <1>2

LEMMA ContactsStart == ContactsInit => ContactsKept
<1> SUFFICES ASSUME ContactsInit PROVE ContactsKept
  OBVIOUS
<1> USE ContactsAssumption
<1>1. ContactsTyped
  BY DEF ContactsInit, ContactsTyped, ContactsTypeOK, Absent, Unmade, NotAdding, NotInviting, NotStarting
<1>2. Listed = {} /\ IsFiniteSet(Listed) /\ Cardinality(Listed) = 0
  BY FS_EmptySet DEF ContactsInit, Listed, Absent
<1>3. ListSeen /\ ContactsCapped
  BY <1>2 DEF ContactsInit, ListSeen, ContactsCapped
<1>4. InvitesKept /\ OneLive /\ ClaimsKept /\ LinksKept
  BY DEF ContactsInit, InvitesKept, OneLive, ClaimsKept, LinksKept, Live, Unmade, NotInviting, NotStarting
<1> QED BY <1>1, <1>3, <1>4 DEF ContactsKept

LEMMA ContactsStep == ContactsKept /\ [ContactsNext]_contactVars => ContactsKept'
<1> SUFFICES ASSUME ContactsKept, [ContactsNext]_contactVars PROVE ContactsKept'
  OBVIOUS
<1>1. CASE \E r \in Adds : AddInsert(r) \/ \E n \in Numbers : AddRead(r, n)
  BY <1>1, AddInsertKeeps, AddReadKeeps
<1>2. CASE \E x \in Rows : Unlist(x)
  BY <1>2, UnlistKeeps
<1>3. CASE \E r \in Invites :
             InviteWithdraw(r) \/ InviteInsert(r) \/ InviteAborts(r) \/ \E x \in Rows : InviteLock(r, x)
  BY <1>3, InviteWithdrawKeeps, InviteInsertKeeps, AbortsKeep, InviteLockKeeps
<1>4. CASE \E k \in Codes : CodeExpires(k)
  BY <1>4, CodeExpiresKeeps
<1>5. CASE \E r \in Starts : StartLink(r) \/ StartAborts(r) \/ \E k \in Codes, h \in Chats : StartClaim(r, k, h)
  BY <1>5, StartLinkKeeps, AbortsKeep, StartClaimKeeps
<1>6. CASE \E h \in Chats : Stop(h)
  BY <1>6, StopKeeps
<1>7. CASE UNCHANGED contactVars
  <2>1. UNCHANGED <<contact, code, links, adding, inviting, starting>>
    BY <1>7 DEF contactVars, rowsOfContacts
  <2>2. ContactsTyped'
    BY <2>1 DEF ContactsKept, ContactsTyped, ContactsTypeOK
  <2> QED BY <2>1, <2>2, SameList, SameCodes, Halves
<1> QED BY <1>1, <1>2, <1>3, <1>4, <1>5, <1>6, <1>7 DEF ContactsNext

\* Contacts, invitations and requests have their types.
THEOREM ContactsTypes == ContactsSpec => []ContactsTypeOK
<1>1. ContactsKept => ContactsTypeOK
  BY DEF ContactsKept, ContactsTyped
<1> QED BY <1>1, ContactsStart, ContactsStep, PTL DEF ContactsSpec

\* The list never passes the cap nor holds a number twice, a contact has one live
\* code, and a code links a chat once, however adds, invitations and /starts overlap.
THEOREM ContactsAlwaysHold == ContactsSpec => []ContactsHold
<1>1. ContactsKept => ContactsHold
  <2> SUFFICES ASSUME ContactsKept PROVE ContactsHold
    OBVIOUS
  <2>1. ASSUME NEW x \in Rows PROVE Cardinality(LiveCodes(x)) <= 1
    <3>1. CASE LiveCodes(x) = {}
      BY <3>1, FS_EmptySet
    <3>2. CASE LiveCodes(x) # {}
      <4>1. PICK k : k \in LiveCodes(x)
        BY <3>2
      <4>2. LiveCodes(x) = {k}
        BY <4>1 DEF LiveCodes, Live, ContactsKept, OneLive
      <4>3. Cardinality({k}) = 1
        BY FS_Singleton
      <4> QED BY <4>2, <4>3
    <3> QED BY <3>1, <3>2
  <2> QED BY <2>1 DEF ContactsHold, ContactsKept, InviteLinksOnce, OneLiveInvite, LinksKept
<1> QED BY <1>1, ContactsStart, ContactsStep, PTL DEF ContactsSpec

-----------------------------------------------------------------------------
(* Counting *)

\* A set of numbers has a least one.
LEMMA LeastIsThere ==
    ASSUME NEW N, N \subseteq Nat, N # {}
    PROVE  \E m \in N : \A k \in N : m <= k
<1> DEFINE R == OpToRel(<, Nat)
<1>1. IsWellFoundedOn(R, Nat)
  BY NatLessThanWellFounded
<1>2. \A k, m \in Nat : k < m => <<k, m>> \in R
  BY DEF OpToRel
<1> HIDE DEF R
<1>3. PICK m \in N : \A k \in N : <<k, m>> \notin R
  BY <1>1, WFMin
<1>4. \A k \in N : ~(k < m)
  BY <1>2, <1>3
<1> QED BY <1>4

\* What holds of 0, and of n + 1 where it holds of n, holds of every number.
LEMMA ByCounting ==
    ASSUME NEW G, 0 \in G, \A n \in Nat : n \in G => n + 1 \in G
    PROVE  Nat \subseteq G
<1> SUFFICES ASSUME Nat \ G # {} PROVE FALSE
  OBVIOUS
<1>1. PICK m \in Nat \ G : \A k \in Nat \ G : m <= k
  BY LeastIsThere
<1>2. m # 0 /\ m - 1 \in Nat /\ (m - 1) + 1 = m
  BY <1>1
<1>3. m - 1 \in G
  BY <1>1, <1>2
<1> QED BY <1>1, <1>2, <1>3

-----------------------------------------------------------------------------
(* Sums over finite sets *)

Total(v, b, T) == FoldSet(LAMBDA q, s : v[q] + s, b, T)

\* One of a set, and a sum that takes it first: how FoldSet goes through T.
One(T) == CHOOSE x \in T : TRUE
SumFrom(h, v, b, T) == IF T = {} THEN b ELSE v[One(T)] + h[T \ {One(T)}]

Upto(S, n) == {T \in SUBSET S : Cardinality(T) <= n}

\* Without one of it, a set is smaller.
LEMMA Smaller ==
    ASSUME NEW S, IsFiniteSet(S), NEW n \in Nat, NEW T \in Upto(S, n + 1), NEW x \in T
    PROVE  T \ {x} \in Upto(S, n)
BY FS_Subset, FS_RemoveElement, FS_CardinalityType DEF Upto

LEMMA OneIsIn == ASSUME NEW T, T # {} PROVE One(T) \in T
BY DEF One

LEMMA SumGoes ==
    ASSUME NEW S, IsFiniteSet(S), NEW v, NEW b
    PROVE  \E h : h = [T \in SUBSET S |-> SumFrom(h, v, b, T)] /\ Total(v, b, S) = h[S]
<1> DEFINE G == {m \in Nat : \E h : h = [T \in Upto(S, m) |-> SumFrom(h, v, b, T)]}
<1>1. 0 \in G
  <2> DEFINE h == [T \in Upto(S, 0) |-> b]
  <2>1. \A T \in Upto(S, 0) : T = {}
    BY FS_Subset, FS_EmptySet, FS_CardinalityType DEF Upto
  <2>2. h = [T \in Upto(S, 0) |-> SumFrom(h, v, b, T)]
    BY <2>1 DEF SumFrom
  <2> QED BY <2>2
<1>2. ASSUME NEW m \in Nat, m \in G PROVE m + 1 \in G
  <2>1. PICK h : h = [T \in Upto(S, m) |-> SumFrom(h, v, b, T)]
    BY <1>2
  <2> DEFINE g == [T \in Upto(S, m + 1) |-> SumFrom(h, v, b, T)]
  <2>2. \A T \in Upto(S, m) : T \in Upto(S, m + 1) /\ h[T] = SumFrom(h, v, b, T)
    <3>1. \A T \in Upto(S, m) : h[T] = SumFrom(h, v, b, T)
      BY <2>1
    <3>2. \A T \in Upto(S, m) : T \in Upto(S, m + 1)
      BY FS_Subset, FS_CardinalityType DEF Upto
    <3> QED BY <3>1, <3>2
  <2>3. \A T \in Upto(S, m) : g[T] = h[T]
    BY <2>2
  <2>4. ASSUME NEW T \in Upto(S, m + 1) PROVE SumFrom(g, v, b, T) = SumFrom(h, v, b, T)
    <3> HIDE DEF g
    <3>1. CASE T = {}
      BY <3>1 DEF SumFrom
    <3>2. CASE T # {}
      <4>1. T \ {One(T)} \in Upto(S, m)
        BY <3>2, OneIsIn, Smaller
      <4>2. g[T \ {One(T)}] = h[T \ {One(T)}]
        BY <2>3, <4>1
      <4> QED BY <4>2 DEF SumFrom
    <3> QED BY <3>1, <3>2
  <2>5. \A T \in Upto(S, m + 1) : g[T] = SumFrom(g, v, b, T)
    BY <2>4
  <2>6. g = [T \in Upto(S, m + 1) |-> SumFrom(g, v, b, T)]
    BY <2>5
  <2> HIDE DEF g
  <2> QED BY <2>6
<1> HIDE DEF G
<1>3. Cardinality(S) \in G
  BY <1>1, <1>2, ByCounting, FS_CardinalityType
<1>4. Upto(S, Cardinality(S)) = SUBSET S
  BY FS_Subset DEF Upto
<1>5. \E h : h = [T \in SUBSET S |-> SumFrom(h, v, b, T)]
  BY <1>3, <1>4 DEF G
<1> DEFINE sums == CHOOSE h : h = [T \in SUBSET S |-> SumFrom(h, v, b, T)]
<1>6. sums = [T \in SUBSET S |-> SumFrom(sums, v, b, T)]
  BY <1>5
<1>7. Total(v, b, S) = sums[S]
  BY DEF Total, FoldSet, MapThenFoldSet, SumFrom, One
<1> HIDE DEF sums
<1> QED BY <1>6, <1>7

\* A sum does not depend on which is taken first.
LEMMA SumTakesAny ==
    ASSUME NEW S, IsFiniteSet(S), NEW v, \A x \in S : v[x] \in Nat, NEW b \in Nat,
           NEW h, h = [T \in SUBSET S |-> SumFrom(h, v, b, T)]
    PROVE  /\ h[{}] = b
           /\ \A T \in SUBSET S : h[T] \in Nat /\ \A y \in T : h[T] = v[y] + h[T \ {y}]
<1> DEFINE Right(T) == h[T] \in Nat /\ \A y \in T : h[T] = v[y] + h[T \ {y}]
           Rights(n) == \A T \in Upto(S, n) : Right(T)
           G == {n \in Nat : Rights(n)}
<1>0. \A T \in SUBSET S : h[T] = SumFrom(h, v, b, T)
  OBVIOUS
<1>1. h[{}] = b
  BY <1>0 DEF SumFrom
<1>2. 0 \in G
  <2>1. \A T \in Upto(S, 0) : T = {}
    BY FS_Subset, FS_EmptySet, FS_CardinalityType DEF Upto
  <2> QED BY <1>1, <2>1
<1>3. ASSUME NEW n \in Nat, n \in G PROVE n + 1 \in G
  <2>0. Rights(n)
    BY <1>3
  <2> SUFFICES ASSUME NEW T \in Upto(S, n + 1), T # {} PROVE Right(T)
    <3>1. ASSUME NEW T \in Upto(S, n + 1), T = {} PROVE Right(T)
      BY <1>1, <3>1
    <3> HIDE DEF Right
    <3> QED BY <3>1
  <2> DEFINE x == One(T)
  <2>1. x \in T /\ T \in SUBSET S
    BY OneIsIn DEF Upto
  <2>2. \A y \in T : T \ {y} \in Upto(S, n)
    BY Smaller
  <2>3. \A y \in T : Right(T \ {y})
    BY <2>0, <2>2
  <2>4. h[T] = v[x] + h[T \ {x}]
    BY <1>0, <2>1 DEF SumFrom
  <2> HIDE DEF x
  <2>5. \A y \in T : v[y] \in Nat /\ h[T \ {y}] \in Nat
    BY <2>1, <2>3
  <2>6. ASSUME NEW y \in T, y # x PROVE h[T] = v[y] + h[T \ {y}]
    <3>1. h[T \ {x}] = v[y] + h[(T \ {x}) \ {y}]
      BY <2>1, <2>3, <2>6
    <3>2. h[T \ {y}] = v[x] + h[(T \ {y}) \ {x}]
      BY <2>1, <2>3, <2>6
    <3>3. (T \ {x}) \ {y} = (T \ {y}) \ {x}
      OBVIOUS
    <3>4. h[(T \ {x}) \ {y}] \in Nat
      <4>1. (T \ {x}) \ {y} \in Upto(S, n)
        BY <2>2, <2>1, <2>6, FS_Subset, FS_CardinalityType DEF Upto
      <4> QED BY <2>0, <4>1
    <3>5. PICK k \in Nat : h[T \ {x}] = v[y] + k /\ h[T \ {y}] = v[x] + k
      BY <3>1, <3>2, <3>3, <3>4
    <3>6. v[x] \in Nat /\ v[y] \in Nat
      BY <2>1, <2>5
    <3> QED BY <2>4, <3>5, <3>6
  <2>7. h[T] \in Nat
    <3>1. v[x] \in Nat /\ h[T \ {x}] \in Nat
      BY <2>1, <2>5
    <3> QED BY <2>4, <3>1
  <2> QED BY <2>4, <2>6, <2>7
<1> HIDE DEF G
<1>4. Cardinality(S) \in G
  BY <1>2, <1>3, ByCounting, FS_CardinalityType
<1>5. Upto(S, Cardinality(S)) = SUBSET S
  BY FS_Subset DEF Upto
<1> QED BY <1>1, <1>4, <1>5 DEF G

\* Over the parts of a set it is one sum, whichever way FoldSet goes through each.
LEMMA SumOfPart ==
    ASSUME NEW S, IsFiniteSet(S), NEW v, \A x \in S : v[x] \in Nat, NEW b \in Nat,
           NEW h, h = [T \in SUBSET S |-> SumFrom(h, v, b, T)], NEW R \in SUBSET S
    PROVE  Total(v, b, R) = h[R]
<1>1. IsFiniteSet(R)
  BY FS_Subset
<1>2. PICK g : g = [T \in SUBSET R |-> SumFrom(g, v, b, T)] /\ Total(v, b, R) = g[R]
  BY <1>1, SumGoes
<1> DEFINE Same(n) == \A T \in Upto(R, n) : g[T] = h[T]
           G == {n \in Nat : Same(n)}
<1>3. /\ \A T \in SUBSET R : g[T] = SumFrom(g, v, b, T)
      /\ \A T \in SUBSET R : h[T] = SumFrom(h, v, b, T)
  BY <1>2
<1>4. 0 \in G
  <2>1. \A T \in Upto(R, 0) : T = {}
    BY <1>1, FS_Subset, FS_EmptySet, FS_CardinalityType DEF Upto
  <2>2. g[{}] = b /\ h[{}] = b
    BY <1>3 DEF SumFrom
  <2> QED BY <2>1, <2>2
<1>5. ASSUME NEW n \in Nat, n \in G PROVE n + 1 \in G
  <2>0. Same(n)
    BY <1>5
  <2> SUFFICES ASSUME NEW T \in Upto(R, n + 1) PROVE g[T] = h[T]
    <3> HIDE DEF Same
    <3>1. Same(n + 1) => n + 1 \in G
      OBVIOUS
    <3> QED BY <3>1 DEF Same
  <2>1. T \in SUBSET R
    BY DEF Upto
  <2>2. CASE T = {}
    BY <1>3, <2>1, <2>2 DEF SumFrom
  <2>3. CASE T # {}
    <3>1. T \ {One(T)} \in Upto(R, n)
      BY <1>1, <2>3, OneIsIn, Smaller
    <3>2. g[T \ {One(T)}] = h[T \ {One(T)}]
      BY <2>0, <3>1
    <3> QED BY <1>3, <2>1, <3>2 DEF SumFrom
  <2> QED BY <2>2, <2>3
<1> HIDE DEF G
<1>6. Cardinality(R) \in G
  BY <1>1, <1>4, <1>5, ByCounting, FS_CardinalityType
<1>7. R \in Upto(R, Cardinality(R))
  BY <1>1, FS_CardinalityType DEF Upto
<1> QED BY <1>2, <1>6, <1>7 DEF G

LEMMA TotalTakesAny ==
    ASSUME NEW S, IsFiniteSet(S), NEW v, \A x \in S : v[x] \in Nat, NEW b \in Nat
    PROVE  /\ Total(v, b, {}) = b /\ Total(v, b, S) \in Nat
           /\ \A y \in S : Total(v, b, S) = v[y] + Total(v, b, S \ {y})
<1>1. PICK h : h = [T \in SUBSET S |-> SumFrom(h, v, b, T)] /\ Total(v, b, S) = h[S]
  BY SumGoes
<1>2. \A T \in SUBSET S : Total(v, b, T) = h[T]
  BY <1>1, SumOfPart
<1>3. h = [T \in SUBSET S |-> SumFrom(h, v, b, T)]
  BY <1>1
<1>4. /\ h[{}] = b
      /\ \A T \in SUBSET S : h[T] \in Nat /\ \A y \in T : h[T] = v[y] + h[T \ {y}]
  BY <1>3, SumTakesAny
<1> QED BY <1>2, <1>4

\* What a sum starts from is added to it, and only what it sums up matters.
LEMMA TotalStarts ==
    ASSUME NEW S, IsFiniteSet(S), NEW v, NEW w, \A x \in S : v[x] \in Nat /\ w[x] = v[x], NEW b \in Nat
    PROVE  Total(v, b, S) = b + Total(w, 0, S)
<1> DEFINE AddsUp(T) == Total(v, b, T) = b + Total(w, 0, T)
           Started(n) == \A T \in Upto(S, n) : AddsUp(T)
           G == {n \in Nat : Started(n)}
<1>0. \A n \in Nat : \A T \in Upto(S, n) : T \in SUBSET S /\ IsFiniteSet(T)
  BY FS_Subset DEF Upto
<1>1. 0 \in G
  <2>1. \A T \in Upto(S, 0) : T = {}
    BY FS_Subset, FS_EmptySet, FS_CardinalityType DEF Upto
  <2>2. Total(v, b, {}) = b /\ Total(w, 0, {}) = 0
    BY TotalTakesAny, FS_EmptySet
  <2>3. AddsUp({})
    BY <2>2
  <2> HIDE DEF AddsUp
  <2> QED BY <2>1, <2>3
<1>2. ASSUME NEW n \in Nat, n \in G PROVE n + 1 \in G
  <2>0. Started(n)
    BY <1>2
  <2> SUFFICES ASSUME NEW T \in Upto(S, n + 1) PROVE AddsUp(T)
    <3> HIDE DEF AddsUp
    <3> QED OBVIOUS
  <2>1. T \in SUBSET S /\ IsFiniteSet(T)
    BY <1>0
  <2>2. CASE T = {}
    BY TotalTakesAny, <2>2, FS_EmptySet
  <2>3. CASE T # {}
    <3>1. PICK x \in T : TRUE
      BY <2>3
    <3> DEFINE U == T \ {x}
    <3>2. U \in Upto(S, n) /\ IsFiniteSet(U)
      BY Smaller, <1>0
    <3>3. (\A y \in T : v[y] \in Nat /\ w[y] \in Nat) /\ \A y \in U : v[y] \in Nat /\ w[y] \in Nat
      BY <2>1
    <3> HIDE DEF U
    <3>4. Total(v, b, U) \in Nat /\ Total(w, 0, U) \in Nat
      BY <3>2, <3>3, TotalTakesAny
    <3>5. Total(v, b, T) = v[x] + Total(v, b, U) /\ Total(w, 0, T) = w[x] + Total(w, 0, U)
      BY <2>1, <3>3, TotalTakesAny DEF U
    <3>6. AddsUp(U)
      BY <2>0, <3>2
    <3>7. v[x] \in Nat /\ w[x] = v[x]
      BY <2>1
    <3> QED BY <3>4, <3>5, <3>6, <3>7
  <2> QED BY <2>2, <2>3
<1> HIDE DEF G
<1>3. Cardinality(S) \in G
  BY <1>1, <1>2, ByCounting, FS_CardinalityType
<1>4. S \in Upto(S, Cardinality(S))
  BY FS_CardinalityType DEF Upto
<1> QED BY <1>3, <1>4 DEF G

-----------------------------------------------------------------------------
(* Reviews *)

Ratings == [prior : {"none", "arrived", "mean"}, sum : Nat, count : Nat]
Baselines == {"none", "arrived"}
ReviewRecord == [pc : {"idle", "locked", "over"}, rating : Ratings, baseline : Baselines]

ReviewsTyped ==
    /\ stars \in [Reviewers -> 0..MaxStars]
    /\ rating \in [Workers -> Ratings] /\ baseline \in [Workers -> Baselines]
    /\ reviewing \in [Reviewers -> ReviewRecord]

Of(m) == {q \in Reviewers : MechanicOf[q] = m /\ stars[q] > 0}

\* Who has the mechanic's row has it alone, and it is as it was read.
RowHeld ==
    /\ \A q, r \in Reviewers :
         reviewing[q].pc = "locked" /\ reviewing[r].pc = "locked" /\ MechanicOf[q] = MechanicOf[r] => q = r
    /\ \A r \in Reviewers : reviewing[r].pc = "locked" =>
         reviewing[r].rating = rating[MechanicOf[r]] /\ reviewing[r].baseline = baseline[MechanicOf[r]]

\* A request that is not over has no review in.
NotYetIn == \A r \in Reviewers : reviewing[r].pc # "over" => stars[r] = 0

\* Before the first review a mechanic is as they came, after it their baseline says how.
BaselineRight ==
    \A m \in Workers :
        /\ Of(m) = {} => rating[m] = RatingOnArrival(m) /\ baseline[m] = "none"
        /\ Of(m) # {} => baseline[m] = IF Arrival[m] = "arrived" THEN "arrived" ELSE "none"

PriorOf(m) == IF Arrival[m] = "arrived" THEN "arrived" ELSE "mean"
RatingRight ==
    \A m \in Workers : Of(m) # {} =>
        rating[m] = Rating(PriorOf(m), EarlierOf(m) * MaxStars + Total(stars, 0, Of(m)),
                           EarlierOf(m) + Cardinality(Of(m)))
OneReviewEach == \A q, r \in Reviewers : BookingOf[q] = BookingOf[r] /\ stars[q] > 0 /\ stars[r] > 0 => q = r

\* Starting from one term is summing it with the others.
LEMMA TotalWith ==
    ASSUME NEW all, IsFiniteSet(all), NEW x \in all, NEW S, S = all \ {x}, NEW v, NEW w,
           \A s \in all : w[s] \in Nat, \A s \in S : w[s] = v[s], NEW n, n = w[x]
    PROVE  Total(v, n, S) = Total(w, 0, all) /\ Total(w, 0, all) \in Nat
<1>1. IsFiniteSet(S) /\ n \in Nat /\ \A s \in S : v[s] \in Nat /\ w[s] = v[s]
  BY FS_Subset
<1>2. Total(v, n, S) = n + Total(w, 0, S)
  BY <1>1, TotalStarts
<1>3. Total(w, 0, all) \in Nat /\ \A y \in all : Total(w, 0, all) = w[y] + Total(w, 0, all \ {y})
  BY TotalTakesAny
<1> QED BY <1>2, <1>3

ReviewsKept == ReviewsTyped /\ RowHeld /\ NotYetIn /\ BaselineRight /\ RatingRight /\ OneReviewEach

LEMMA LockStep == ASSUME ReviewsKept, NEW r \in Reviewers, ReviewLock(r) PROVE ReviewsKept'
<1> USE DEF ReviewLock, ReviewsKept
<1> DEFINE m == MechanicOf[r]
           seen == [pc |-> "locked", rating |-> rating[m], baseline |-> baseline[m]]
<1>1. m \in Workers /\ seen \in ReviewRecord
  BY ReviewsAssumption DEF ReviewsTyped, ReviewRecord
<1>2. /\ reviewing' \in [Reviewers -> ReviewRecord]
      /\ reviewing'[r] = seen /\ reviewing[r].pc = "idle"
      /\ \A q \in Reviewers \ {r} : reviewing'[q] = reviewing[q]
  BY <1>1 DEF ReviewsTyped
<1>3. ReviewsTyped'
  BY <1>2 DEF ReviewsTyped
<1>4. RowHeld'
  BY <1>2 DEF RowHeld, MechanicFree
<1>5. NotYetIn'
  BY <1>2 DEF NotYetIn
<1>6. Of(m)' = Of(m) /\ \A x \in Workers : Of(x)' = Of(x)
  BY DEF Of
<1>7. BaselineRight' /\ RatingRight' /\ OneReviewEach'
  BY <1>6 DEF BaselineRight, RatingRight, OneReviewEach
<1> QED BY <1>3, <1>4, <1>5, <1>7

Given(r, n) == stars' = [stars EXCEPT ![r] = n]

\* What a commit writes is right for the mechanic it is about.
LEMMA CommitWrites ==
    ASSUME ReviewsKept, NEW r \in Reviewers, NEW n \in 1..MaxStars, reviewing[r].pc = "locked",
           Given(r, n)
    PROVE  LET m == MechanicOf[r]
               count == EarlierOf(m) + Cardinality(Of(m)) + 1
               sum == EarlierOf(m) * MaxStars + Total(stars, n, Of(m))
               b == RatingBaseline(reviewing[r].baseline, reviewing[r].rating, count - 1)
           IN /\ m \in Workers /\ Of(m)' = Of(m) \cup {r} /\ Of(m) \cup {r} # {}
              /\ \A x \in Workers \ {m} : Of(x)' = Of(x)
              /\ b = IF Arrival[m] = "arrived" THEN "arrived" ELSE "none"
              /\ RatingPrior(b) = PriorOf(m) /\ count \in Nat /\ sum \in Nat
              /\ count = EarlierOf(m) + Cardinality(Of(m)')
              /\ sum = EarlierOf(m) * MaxStars + Total(stars', 0, Of(m)')
<1> USE DEF ReviewsKept
<1> DEFINE m == MechanicOf[r]
           e == EarlierOf(m)
           old == Of(m)
<1>1. /\ m \in Workers /\ MaxStars \in Nat /\ e \in {0, 1} /\ IsFiniteSet(old) /\ Cardinality(old) \in Nat
      /\ \A x \in Workers : Of(x) \subseteq Reviewers
  BY ReviewsAssumption, FS_Subset, FS_CardinalityType DEF EarlierOf, Of
<1>2. stars[r] = 0 /\ stars'[r] = n /\ \A q \in Reviewers \ {r} : stars'[q] = stars[q]
  BY DEF NotYetIn, ReviewsTyped, Given
<1>3. n > 0 /\ n \in Nat
  BY <1>1
<1>4. r \notin old /\ Of(m)' = old \cup {r} /\ \A x \in Workers \ {m} : Of(x)' = Of(x)
  BY <1>2, <1>3 DEF Of
<1>5. Cardinality(old \cup {r}) = Cardinality(old) + 1 /\ IsFiniteSet(old \cup {r})
  BY <1>1, <1>4, FS_AddElement
<1>6. \A q \in old : stars[q] \in Nat /\ stars'[q] = stars[q]
  BY <1>1, <1>2, <1>4 DEF ReviewsTyped
<1>7. Total(stars, n, old) = Total(stars', 0, old \cup {r}) /\ Total(stars', 0, old \cup {r}) \in Nat
  <2> DEFINE all == old \cup {r}
  <2>1. IsFiniteSet(all) /\ r \in all /\ old = all \ {r} /\ n = stars'[r]
    BY <1>2, <1>4, <1>5
  <2>2. (\A q \in all : stars'[q] \in Nat) /\ \A q \in old : stars'[q] = stars[q]
    BY <1>2, <1>3, <1>6
  <2> HIDE DEF all, old
  <2>3. Total(stars, n, old) = Total(stars', 0, all) /\ Total(stars', 0, all) \in Nat
    BY <2>1, <2>2, TotalWith
  <2> QED BY <2>3 DEF all, old
<1>10. reviewing[r].rating = rating[m] /\ reviewing[r].baseline = baseline[m]
  BY DEF RowHeld
<1> DEFINE count == e + Cardinality(old) + 1
           b == RatingBaseline(baseline[m], rating[m], count - 1)
<1>11. count \in Nat /\ count - 1 = e + Cardinality(old) /\ count = e + Cardinality(old \cup {r})
  BY <1>1, <1>5
<1>12. b = IF Arrival[m] = "arrived" THEN "arrived" ELSE "none"
  <2>1. CASE old # {}
    <3>1. Cardinality(old) # 0
      BY <1>1, <2>1, FS_EmptySet
    <3>2. count - 1 # 0
      BY <1>1, <1>11, <3>1
    <3> HIDE DEF count
    <3> QED BY <1>1, <2>1, <3>2 DEF BaselineRight, RatingBaseline
  <2>2. CASE old = {}
    <3>1. Cardinality(old) = 0
      BY <2>2, FS_EmptySet
    <3>2. count - 1 = e
      BY <1>1, <1>11, <3>1
    <3>3. rating[m] = RatingOnArrival(m) /\ baseline[m] = "none"
      BY <1>1, <2>2 DEF BaselineRight
    <3>4. Arrival[m] \in {"never", "arrived", "before"}
      BY <1>1, ReviewsAssumption
    <3> HIDE DEF count
    <3>5. CASE Arrival[m] = "never"
      BY <3>2, <3>3, <3>5 DEF RatingBaseline, RatingOnArrival, EarlierOf
    <3>6. CASE Arrival[m] = "arrived"
      <4>1. rating[m] = Rating("arrived", 0, 0) /\ count - 1 = 0
        BY <3>2, <3>3, <3>6 DEF RatingOnArrival, EarlierOf
      <4>2. rating[m] # Unrated /\ rating[m].prior = "arrived"
        BY <4>1 DEF Rating, Unrated
      <4> QED BY <3>3, <3>6, <4>1, <4>2 DEF RatingBaseline
    <3>7. CASE Arrival[m] = "before"
      BY <3>2, <3>3, <3>7 DEF RatingBaseline, EarlierOf
    <3> QED BY <3>4, <3>5, <3>6, <3>7
  <2> QED BY <2>1, <2>2
<1>13. RatingPrior(b) = PriorOf(m)
  <2> HIDE DEF b
  <2> QED BY <1>12 DEF RatingPrior, PriorOf
<1>14. e * MaxStars \in Nat
  BY <1>1
<1>15. e * MaxStars + Total(stars, n, old) = e * MaxStars + Total(stars', 0, old \cup {r})
  BY <1>7
<1>16. e * MaxStars + Total(stars, n, old) \in Nat
  BY <1>7, <1>14
<1> QED BY <1>1, <1>4, <1>10, <1>11, <1>12, <1>13, <1>15, <1>16

LEMMA CommitStep ==
    ASSUME ReviewsKept, NEW r \in Reviewers, NEW n \in 1..MaxStars, ReviewCommit(r, n)
    PROVE  ReviewsKept'
<1> USE DEF ReviewsKept
<1> DEFINE m == MechanicOf[r]
           over == [NotReviewing EXCEPT !.pc = "over"]
<1>1. m \in Workers /\ over \in ReviewRecord /\ over.pc = "over"
  BY ReviewsAssumption DEF NotReviewing, ReviewRecord, Ratings, Baselines, Unrated, Rating
<1>2. reviewing[r].pc = "locked" /\ reviewing' = [reviewing EXCEPT ![r] = over]
  BY DEF ReviewCommit
<1> HIDE DEF over
<1>3. /\ reviewing' \in [Reviewers -> ReviewRecord] /\ reviewing'[r].pc = "over"
      /\ \A q \in Reviewers \ {r} : reviewing'[q] = reviewing[q]
  BY <1>1, <1>2 DEF ReviewsTyped
<1>4. CASE UNCHANGED <<stars, rating, baseline>>
  <2>1. ReviewsTyped' /\ RowHeld' /\ NotYetIn'
    BY <1>3, <1>4 DEF ReviewsTyped, RowHeld, NotYetIn
  <2>2. \A x \in Workers : Of(x)' = Of(x)
    BY <1>4 DEF Of
  <2>3. BaselineRight' /\ RatingRight' /\ OneReviewEach'
    BY <1>4, <2>2 DEF BaselineRight, RatingRight, OneReviewEach
  <2> QED BY <2>1, <2>3
<1> DEFINE count == EarlierOf(m) + Cardinality(Of(m)) + 1
           sum == EarlierOf(m) * MaxStars + Total(stars, n, Of(m))
           b == RatingBaseline(reviewing[r].baseline, reviewing[r].rating, count - 1)
<1>5. CASE /\ ~\E q \in Reviewers : BookingOf[q] = BookingOf[r] /\ stars[q] > 0
           /\ stars' = [stars EXCEPT ![r] = n]
           /\ rating' = [rating EXCEPT ![m] = Rating(RatingPrior(b), sum, count)]
           /\ baseline' = [baseline EXCEPT ![m] = b]
  <2>0. Given(r, n)
    BY <1>5 DEF Given
  <2>1. /\ Of(m)' = Of(m) \cup {r} /\ Of(m)' # {}
        /\ \A x \in Workers \ {m} : Of(x)' = Of(x)
        /\ b = IF Arrival[m] = "arrived" THEN "arrived" ELSE "none"
        /\ RatingPrior(b) = PriorOf(m) /\ count \in Nat /\ sum \in Nat
        /\ count = EarlierOf(m) + Cardinality(Of(m)')
        /\ sum = EarlierOf(m) * MaxStars + Total(stars', 0, Of(m)')
    BY <1>2, <2>0, CommitWrites
  <2> HIDE DEF count, sum, b
  <2>2. Rating(RatingPrior(b), sum, count) \in Ratings /\ b \in Baselines
    BY <2>1 DEF Rating, Ratings, Baselines, PriorOf
  <2>3. stars' \in [Reviewers -> 0..MaxStars]
    BY <1>5, ReviewsAssumption DEF ReviewsTyped
  <2>4. ReviewsTyped'
    BY <1>3, <1>5, <2>2, <2>3 DEF ReviewsTyped
  <2>5. /\ rating'[m] = Rating(RatingPrior(b), sum, count) /\ baseline'[m] = b
        /\ \A x \in Workers \ {m} : rating'[x] = rating[x] /\ baseline'[x] = baseline[x]
        /\ stars'[r] = n /\ \A q \in Reviewers \ {r} : stars'[q] = stars[q]
    BY <1>1, <1>5 DEF ReviewsTyped
  <2>6. \A q \in Reviewers \ {r} : reviewing[q].pc = "locked" => MechanicOf[q] \in Workers \ {m}
    BY <1>2, ReviewsAssumption DEF RowHeld
  <2>7. RowHeld'
    BY <1>3, <2>5, <2>6 DEF RowHeld
  <2>8. NotYetIn'
    BY <1>3, <2>5 DEF NotYetIn
  <2>9. BaselineRight'
    BY <2>1, <2>5 DEF BaselineRight, RatingOnArrival
  <2>10. RatingRight'
    <3>1. ASSUME NEW x \in Workers \ {m}, Of(x)' # {}
          PROVE  Total(stars', 0, Of(x)') = Total(stars, 0, Of(x))
      <4>1. IsFiniteSet(Of(x)) /\ \A q \in Of(x) : q \in Reviewers \ {r} /\ stars[q] \in Nat
        BY <3>1, ReviewsAssumption, FS_Subset DEF Of, ReviewsTyped
      <4>2. \A q \in Of(x) : stars[q] \in Nat /\ stars'[q] = stars[q]
        BY <2>5, <4>1
      <4>3. Total(stars, 0, Of(x)) = 0 + Total(stars', 0, Of(x))
        BY <4>1, <4>2, TotalStarts
      <4>4. Total(stars', 0, Of(x)) \in Nat
        BY <4>1, <4>2, TotalTakesAny
      <4> QED BY <2>1, <4>3, <4>4
    <3>2. ASSUME NEW x \in Workers \ {m}, Of(x)' # {}
          PROVE  rating'[x] = Rating(PriorOf(x), EarlierOf(x) * MaxStars + Total(stars', 0, Of(x)'),
                                     EarlierOf(x) + Cardinality(Of(x)'))
      BY <2>1, <2>5, <3>1, <3>2 DEF RatingRight
    <3>3. rating'[m] = Rating(PriorOf(m), EarlierOf(m) * MaxStars + Total(stars', 0, Of(m)'),
                              EarlierOf(m) + Cardinality(Of(m)'))
      BY <2>1, <2>5
    <3> QED BY <3>2, <3>3 DEF RatingRight, PriorOf, EarlierOf
  <2>11. OneReviewEach'
    BY <1>5, <2>5 DEF OneReviewEach
  <2> QED BY <2>4, <2>7, <2>8, <2>9, <2>10, <2>11
<1> QED BY <1>4, <1>5 DEF ReviewCommit, Of, Total

LEMMA ReviewsInitKept == ReviewsInit => ReviewsKept
<1> SUFFICES ASSUME ReviewsInit PROVE ReviewsKept
  OBVIOUS
<1> USE DEF ReviewsInit
<1>1. \A m \in Workers : Of(m) = {}
  BY DEF Of
<1>2. \A m \in Workers : RatingOnArrival(m) \in Ratings
  <2> SUFFICES ASSUME NEW m \in Workers PROVE RatingOnArrival(m) \in Ratings
    OBVIOUS
  <2>1. CASE Arrival[m] = "never"
    BY <2>1 DEF RatingOnArrival, Ratings, Rating, Unrated
  <2>2. CASE Arrival[m] = "arrived"
    BY <2>2 DEF RatingOnArrival, Ratings, Rating, Unrated
  <2>3. CASE Arrival[m] = "before"
    BY <2>3, ReviewsAssumption DEF RatingOnArrival, Ratings, Rating, Unrated
  <2> QED BY <2>1, <2>2, <2>3, ReviewsAssumption
<1>3. NotReviewing \in ReviewRecord /\ NotReviewing.pc = "idle"
  BY DEF NotReviewing, ReviewRecord, Ratings, Baselines, Unrated, Rating
<1>4. ReviewsTyped
  BY <1>2, <1>3, ReviewsAssumption DEF ReviewsTyped, Baselines
<1>5. RowHeld /\ NotYetIn
  BY <1>3 DEF RowHeld, NotYetIn
<1>6. BaselineRight /\ RatingRight /\ OneReviewEach
  BY <1>1 DEF BaselineRight, RatingRight, OneReviewEach
<1> QED BY <1>4, <1>5, <1>6 DEF ReviewsKept

LEMMA ReviewsAlwaysKept == ReviewsSpec => []ReviewsKept
<1>1. ReviewsKept /\ [ReviewsNext]_reviewVars => ReviewsKept'
  <2> SUFFICES ASSUME ReviewsKept, [ReviewsNext]_reviewVars PROVE ReviewsKept'
    OBVIOUS
  <2>1. CASE UNCHANGED reviewVars
    <3>1. \A x \in Workers : Of(x)' = Of(x)
      BY <2>1 DEF reviewVars, Of
    <3> QED BY <2>1, <3>1 DEF ReviewsKept, reviewVars, ReviewsTyped, RowHeld, NotYetIn, BaselineRight,
                              RatingRight, OneReviewEach
  <2> QED BY <2>1, LockStep, CommitStep DEF ReviewsNext
<1> QED BY <1>1, ReviewsInitKept, PTL DEF ReviewsSpec

\* Reviews, ratings and baselines have their types.
THEOREM ReviewsTypes == ReviewsSpec => []ReviewsTypeOK
<1>1. ReviewsKept => ReviewsTypeOK
  BY DEF ReviewsKept, ReviewsTyped, ReviewsTypeOK, Ratings, Baselines, ReviewRecord
<1> QED BY <1>1, ReviewsAlwaysKept, PTL

\* RatingReproducible, for any reviewers and mechanics: a rating has every review in it
\* once, and is shrunk to what its mechanic arrived with (POST .../review).
THEOREM RatingAlwaysReproducible == ReviewsSpec => []RatingReproducible
<1>1. ReviewsKept => RatingReproducible
  <2> SUFFICES ASSUME ReviewsKept PROVE RatingReproducible
    OBVIOUS
  <2>1. \A m \in Workers : Of(m) # {} =>
          rating[m] = Rating(PriorOf(m), EarlierOf(m) * MaxStars + Total(stars, 0, Of(m)),
                             EarlierOf(m) + Cardinality(Of(m)))
    BY DEF ReviewsKept, RatingRight
  <2> QED BY <2>1 DEF ReviewsKept, OneReviewEach, RatingReproducible, Of, Total, PriorOf
<1> QED BY <1>1, ReviewsAlwaysKept, PTL


-----------------------------------------------------------------------------
(* Digests *)

Bodies == {"written", "changed"}
Hashes == Seq(Nat \X Bodies)
AuditRows == [id : 1..Entries, at : Nat, body : Bodies, prev : Hashes, hash : Hashes]

\* The stamp of the row whose hash this is.
StampOf(h) == IF h = Genesis THEN 0 ELSE h[Len(h)][1]

LEMMA DigestTells ==
    ASSUME NEW p \in Hashes, NEW at \in Nat, NEW body \in Bodies
    PROVE  /\ Digest(p, at, body) \in Hashes /\ StampOf(Digest(p, at, body)) = at
           /\ \A other \in Bodies : Digest(p, at, body) = Digest(p, at, other) => body = other
<1> DEFINE h(x) == Digest(p, at, x)
<1>1. \A x \in Bodies : /\ h(x) \in Hashes /\ Len(h(x)) = Len(p) + 1 /\ h(x)[Len(p) + 1] = <<at, x>>
  BY DEF Hashes, Digest
<1>2. Len(p) \in Nat
  BY DEF Hashes
<1>3. h(body) # Genesis
  BY <1>1, <1>2 DEF Genesis
<1> HIDE DEF h
<1>4. StampOf(h(body)) = at
  BY <1>1, <1>3 DEF StampOf
<1>5. \A x \in Bodies : h(body) = h(x) => body = x
  BY <1>1
<1> QED BY <1>1, <1>4, <1>5 DEF h

LEMMA GenesisTells == Genesis \in Hashes /\ StampOf(Genesis) = 0
BY DEF Genesis, Hashes, StampOf

-----------------------------------------------------------------------------
(* What an append, a harm and a verification keep *)

AuditTyped ==
    /\ log \subseteq AuditRows /\ IsFiniteSet(log)
    /\ clock \in Nat /\ clock >= 1 /\ lastStamp \in Nat /\ changes \in Nat
    /\ append \subseteq Hashes /\ \A p, q \in append : p = q
    /\ checkpoint \in [id : Nat, hash : Hashes, count : Nat]

\* Stamps only rise, across restarts too, and every row has one of its own.
StampsRise == \A r \in log : 1 <= r.at /\ r.at < Stamp
RowsApart == \A r, s \in log : r.id = s.id \/ r.at = s.at => r = s

\* A hash is of what was written, and stays.
HashedOnce == \A r \in log : r.hash = Digest(r.prev, r.at, "written")

\* A row chains from what was last when it was written: nothing has come between.
Linked ==
    /\ \A r \in log : /\ StampOf(r.prev) < r.at
                      /\ \A s \in log : ~(StampOf(r.prev) < s.at /\ s.at < r.at)
    /\ \A p \in append : StampOf(p) < Stamp /\ \A s \in log : s.at <= StampOf(p)

\* No walk gets past a row that was changed or has lost its predecessor.
Broken(r) ==
    \/ r.body = "changed"
    \/ StampOf(r.prev) # 0 /\ \A s \in log : s.at # StampOf(r.prev)

\* What was harmed shows, and what was harmed before the last full walk lies after the
\* checkpoint, where an incremental walk still comes.
HarmShows ==
    \A i \in harmed : \E r \in log :
        r.id = i /\ Broken(r) /\ (i \in sinceWalk \/ StampOf(checkpoint.hash) < r.at)

Predecessor(p) == p = Genesis \/ \E t \in log : p = t.hash

Intact ==
    changes = 0 => /\ \A r \in log : r.body = "written" /\ Predecessor(r.prev)
                   /\ \A p \in append : Predecessor(p)

ChainKept == AuditTyped /\ StampsRise /\ RowsApart /\ HashedOnce /\ Linked /\ HarmShows /\ Intact

LEMMA RowFacts ==
    ASSUME ChainKept
    PROVE  /\ Stamp \in Nat /\ lastStamp < Stamp /\ clock <= Stamp
           /\ \A r \in log : /\ r.id \in Nat /\ r.at \in Nat /\ r.at # 0 /\ r.body \in Bodies
                             /\ r.prev \in Hashes /\ r.hash \in Hashes
                             /\ StampOf(r.hash) = r.at /\ StampOf(r.prev) \in Nat
           /\ \A p \in append : p \in Hashes /\ StampOf(p) \in Nat
           /\ StampOf(checkpoint.hash) \in Nat
<1> USE DEF ChainKept, AuditTyped
<1>1. Stamp \in Nat /\ lastStamp < Stamp /\ clock <= Stamp
  BY DEF Stamp
<1>2. \A h \in Hashes : StampOf(h) \in Nat
  BY DEF StampOf, Hashes, Genesis
<1>3. \A r \in log : /\ r.id \in 1..Entries /\ r.at \in Nat /\ r.body \in Bodies
                     /\ r.prev \in Hashes /\ r.hash \in Hashes /\ 1 <= r.at
  BY DEF AuditRows, StampsRise
<1>4. \A r \in log : r.id \in Nat /\ r.at # 0
  BY <1>3, AuditAssumption
<1>5. \A r \in log : StampOf(r.hash) = r.at
  <2> SUFFICES ASSUME NEW r \in log PROVE StampOf(r.hash) = r.at
    OBVIOUS
  <2>1. r.hash = Digest(r.prev, r.at, "written") /\ "written" \in Bodies
    BY DEF HashedOnce, Bodies
  <2>2. StampOf(Digest(r.prev, r.at, "written")) = r.at
    BY <1>3, <2>1, DigestTells
  <2> QED BY <2>1, <2>2
<1> QED BY <1>1, <1>2, <1>3, <1>4, <1>5

LEMMA BeforeIs == ASSUME ChainKept, NEW r \in log, NEW s \in log PROVE Before(r, s) <=> r.at < s.at
BY RowFacts DEF Before, ChainKept, RowsApart

\* The ends of a part of the log.
LEMMA EarliestIs ==
    ASSUME ChainKept, NEW rows, rows \subseteq log, rows # {}
    PROVE  Earliest(rows) \in rows /\ \A s \in rows : s = Earliest(rows) \/ Earliest(rows).at < s.at
<1>1. PICK m \in {r.at : r \in rows} : \A k \in {r.at : r \in rows} : m <= k
  BY RowFacts, LeastIsThere
<1>2. PICK r \in rows : r.at = m
  BY <1>1
<1>3. \A s \in rows \ {r} : r.at < s.at
  <2> SUFFICES ASSUME NEW s \in rows \ {r} PROVE r.at < s.at
    OBVIOUS
  <2>1. s.at \in {q.at : q \in rows}
    OBVIOUS
  <2>2. m <= s.at
    BY <1>1, <2>1
  <2>3. s.at # r.at
    BY DEF ChainKept, RowsApart
  <2> QED BY <1>2, <2>2, <2>3, RowFacts
<1>4. \A s \in rows \ {r} : Before(r, s)
  BY <1>3, BeforeIs
<1>5. Earliest(rows) \in rows /\ \A s \in rows \ {Earliest(rows)} : Before(Earliest(rows), s)
  BY <1>4 DEF Earliest
<1> QED BY <1>5, BeforeIs

LEMMA LatestIs ==
    ASSUME ChainKept, NEW rows, rows \subseteq log, rows # {}
    PROVE  Latest(rows) \in rows /\ \A s \in rows : s = Latest(rows) \/ s.at < Latest(rows).at
<1> DEFINE Gaps == {Stamp - r.at : r \in rows}
<1>0. Gaps \subseteq Nat /\ Gaps # {}
  BY RowFacts DEF ChainKept, StampsRise
<1> HIDE DEF Gaps
<1>1. PICK m \in Gaps : \A k \in Gaps : m <= k
  BY <1>0, LeastIsThere
<1>2. PICK r \in rows : Stamp - r.at = m
  BY <1>1 DEF Gaps
<1>3. \A s \in rows \ {r} : s.at < r.at
  <2> SUFFICES ASSUME NEW s \in rows \ {r} PROVE s.at < r.at
    OBVIOUS
  <2>1. Stamp - r.at <= Stamp - s.at
    BY <1>1, <1>2 DEF Gaps
  <2>2. s.at # r.at
    BY DEF ChainKept, RowsApart
  <2> QED BY <2>1, <2>2, RowFacts
<1>4. \A s \in rows \ {r} : Before(s, r)
  BY <1>3, BeforeIs
<1>5. Latest(rows) \in rows /\ \A s \in rows \ {Latest(rows)} : Before(s, Latest(rows))
  BY <1>4 DEF Latest
<1> QED BY <1>5, BeforeIs

-----------------------------------------------------------------------------
(* Walks *)

\* A walk stops before what is broken.
LEMMA WalkStops ==
    ASSUME ChainKept, NEW rows, rows \subseteq log, NEW start, Predecessor(start),
           NEW h \in rows, Broken(h), NEW g \in Walked(start, rows)
    PROVE  g.at < h.at
<1> SUFFICES ASSUME ~(g.at < h.at) PROVE FALSE
  OBVIOUS
<1> DEFINE earlier == {t \in rows : Before(t, h)}
           prev == IF h = Earliest(rows) THEN start ELSE Latest(earlier).hash
<1>1. g \in log /\ h \in log /\ g \in rows
  BY DEF Walked
<1>2. h = g \/ Before(h, g)
  <2>1. g.at = h.at \/ h.at < g.at
    BY <1>1, RowFacts
  <2> QED BY <1>1, <2>1, BeforeIs DEF ChainKept, RowsApart
<1>3. Follows(h, prev)
  BY <1>2 DEF Walked
<1>4. Predecessor(prev)
  <2>1. CASE h = Earliest(rows)
    BY <2>1
  <2>2. CASE h # Earliest(rows)
    <3>1. Earliest(rows) \in rows /\ Earliest(rows).at < h.at
      BY <2>2, EarliestIs
    <3>2. earlier # {} /\ earlier \subseteq log
      BY <1>1, <3>1, BeforeIs
    <3> HIDE DEF earlier
    <3>3. Latest(earlier) \in log
      BY <3>2, LatestIs
    <3> QED BY <2>2, <3>3 DEF Predecessor
  <2> QED BY <2>1, <2>2
<1> HIDE DEF prev
<1>5. h.prev = prev /\ h.hash = Digest(h.prev, h.at, h.body)
  BY <1>3 DEF Follows
<1>6. h.body = "written"
  <2>1. h.hash = Digest(h.prev, h.at, "written") /\ "written" \in Bodies
    BY <1>1 DEF ChainKept, HashedOnce, Bodies
  <2>2. h.prev \in Hashes /\ h.at \in Nat /\ h.body \in Bodies
    BY <1>1, RowFacts
  <2>3. \A other \in Bodies : Digest(h.prev, h.at, h.body) = Digest(h.prev, h.at, other) => h.body = other
    BY <2>2, DigestTells
  <2> QED BY <1>5, <2>1, <2>3
<1>7. StampOf(prev) # 0 /\ \A s \in log : s.at # StampOf(prev)
  BY <1>5, <1>6 DEF Broken
<1> QED BY <1>4, <1>7, RowFacts, GenesisTells DEF Predecessor

\* Where nothing was changed, a walk of rows with nothing between them and its start
\* goes through them all.
LEMMA WalkGoes ==
    ASSUME ChainKept, changes = 0, NEW rows, rows \subseteq log, NEW start,
           \A s \in rows : (\A t \in rows : s.at <= t.at) => s.prev = start,
           \A s \in rows, t \in log, u \in rows : u.at < s.at /\ u.at <= t.at => t \in rows
    PROVE  Walked(start, rows) = rows
<1> DEFINE earlier(s) == {t \in rows : Before(t, s)}
           prev(s) == IF s = Earliest(rows) THEN start ELSE Latest(earlier(s)).hash
<1> SUFFICES ASSUME NEW s \in rows PROVE Follows(s, prev(s))
  BY DEF Walked
<1>1. s \in log /\ s.body = "written" /\ Predecessor(s.prev) /\ s.hash = Digest(s.prev, s.at, "written")
  BY DEF ChainKept, Intact, HashedOnce
<1>2. Earliest(rows) \in rows /\ \A t \in rows : t = Earliest(rows) \/ Earliest(rows).at < t.at
  BY EarliestIs
<1>3. CASE s = Earliest(rows)
  <2>1. \A t \in rows : s.at <= t.at
    BY <1>2, <1>3, RowFacts
  <2> QED BY <1>1, <1>3, <2>1 DEF Follows
<1>4. CASE s # Earliest(rows)
  <2> DEFINE e == Earliest(rows)
  <2>1. e \in rows /\ e \in log /\ e.at < s.at
    BY <1>2, <1>4
  <2>2. ~(StampOf(s.prev) < e.at)
    BY <1>1, <2>1 DEF ChainKept, Linked
  <2>3. e.at # 0 /\ e.at \in Nat /\ StampOf(s.prev) \in Nat
    BY <1>1, <2>1, RowFacts
  <2>4. s.prev # Genesis
    BY <2>2, <2>3, GenesisTells
  <2>5. PICK t \in log : s.prev = t.hash
    BY <1>1, <2>4 DEF Predecessor
  <2>6. StampOf(s.prev) = t.at /\ t.at \in Nat
    BY <2>5, RowFacts
  <2>7. t.at < s.at /\ e.at <= t.at /\ \A q \in log : ~(t.at < q.at /\ q.at < s.at)
    BY <1>1, <2>2, <2>3, <2>6 DEF ChainKept, Linked
  <2>8. t \in earlier(s) /\ earlier(s) \subseteq log
    BY <1>1, <2>1, <2>7, BeforeIs
  <2>9. \A q \in earlier(s) : q.at < s.at
    BY <1>1, BeforeIs
  <2> HIDE DEF earlier
  <2>10. Latest(earlier(s)) \in earlier(s) /\ \A q \in earlier(s) : q = Latest(earlier(s)) \/ q.at < Latest(earlier(s)).at
    BY <2>8, LatestIs
  <2>11. Latest(earlier(s)) = t
    BY <2>7, <2>8, <2>9, <2>10
  <2> QED BY <1>1, <1>4, <2>5, <2>11 DEF Follows
<1> QED BY <1>3, <1>4

\* Where a walk starts, and what it is of.
LEMMA WalkFrom ==
    ASSUME ChainKept, NEW full \in BOOLEAN
    PROVE  LET w == Walk(full)
               rows == IF w.anchored THEN After(RowWith(w.start.id)) ELSE log
           IN /\ w.good = Walked(w.start.hash, rows)
              /\ w.ok = (w.good = rows /\ w.start.count + Cardinality(w.good) = Cardinality(log))
              /\ w.start \in [id : Nat, hash : Hashes, count : Nat] /\ Predecessor(w.start.hash)
              /\ w.anchored => /\ w.start = checkpoint /\ RowWith(w.start.id) \in log
                               /\ RowWith(w.start.id).hash = w.start.hash
                               /\ RowWith(w.start.id).at = StampOf(w.start.hash)
                               /\ Cardinality(Through(RowWith(w.start.id))) = w.start.count
              /\ ~w.anchored => w.start = NoCheckpoint
<1> DEFINE w == Walk(full)
<1>1. /\ w.anchored = (~full /\ checkpoint # NoCheckpoint /\ AnchorHolds)
      /\ w.start = IF w.anchored THEN checkpoint ELSE NoCheckpoint
      /\ w.good = Walked(w.start.hash, IF w.anchored THEN After(RowWith(w.start.id)) ELSE log)
      /\ w.ok = (/\ w.good = (IF w.anchored THEN After(RowWith(w.start.id)) ELSE log)
                 /\ w.start.count + Cardinality(w.good) = Cardinality(log))
  BY DEF Walk
<1> HIDE DEF w
<1>2. NoCheckpoint \in [id : Nat, hash : Hashes, count : Nat] /\ NoCheckpoint.hash = Genesis
  BY GenesisTells DEF NoCheckpoint
<1>3. CASE ~w.anchored
  BY <1>1, <1>2, <1>3 DEF Predecessor, w
<1>4. CASE w.anchored
  <2>1. PICK r \in log : /\ r.id = checkpoint.id /\ r.hash = checkpoint.hash
                         /\ Cardinality(Through(r)) = checkpoint.count
    BY <1>1, <1>4 DEF AnchorHolds
  <2>2. RowWith(checkpoint.id) = r
    <3>1. \A q \in log : q.id = checkpoint.id => q = r
      BY <2>1 DEF ChainKept, RowsApart
    <3> QED BY <2>1, <3>1 DEF RowWith
  <2>3. r.at = StampOf(checkpoint.hash)
    BY <2>1, RowFacts
  <2> QED BY <1>1, <1>4, <2>1, <2>2, <2>3 DEF ChainKept, AuditTyped, Predecessor, w
<1> QED BY <1>3, <1>4

-----------------------------------------------------------------------------
(* Every step keeps it *)

LEMMA ChainStarts == AuditInit => ChainKept
<1> SUFFICES ASSUME AuditInit PROVE ChainKept
  OBVIOUS
<1>1. AuditTyped
  BY GenesisTells, FS_EmptySet DEF AuditInit, AuditTyped, NoCheckpoint
<1> QED BY <1>1 DEF AuditInit, ChainKept, StampsRise, RowsApart, HashedOnce, Linked, HarmShows, Intact

LEMMA NextStamp == ASSUME clock' \in Nat, lastStamp' \in Nat PROVE Stamp' \in Nat
<1>1. clock' > lastStamp' => Stamp' = clock'
  BY DEF Stamp
<1>2. ~(clock' > lastStamp') => Stamp' = lastStamp' + 1
  BY DEF Stamp
<1> QED BY <1>1, <1>2

\* The clock and the process move; the log does not.
LEMMA LogStays ==
    ASSUME ChainKept, UNCHANGED <<log, harmed, sinceWalk, changes>>,
           clock' \in Nat, clock' >= 1, lastStamp' \in Nat, Stamp <= Stamp',
           append' \subseteq append, checkpoint' \in {checkpoint, NoCheckpoint}
    PROVE  ChainKept'
<1> USE DEF ChainKept
<1>1. AuditTyped'
  BY GenesisTells DEF AuditTyped, NoCheckpoint
<1>2. Stamp' \in Nat
  BY NextStamp
<1>3. StampsRise' /\ Linked'
  BY <1>2, RowFacts DEF StampsRise, Linked
<1>4. RowsApart' /\ HashedOnce' /\ Intact'
  BY DEF RowsApart, HashedOnce, Intact, Predecessor
<1>5. StampOf(checkpoint'.hash) <= StampOf(checkpoint.hash)
  BY RowFacts, GenesisTells DEF NoCheckpoint
<1>6. StampOf(checkpoint'.hash) \in Nat
  BY RowFacts, GenesisTells DEF NoCheckpoint
<1>7. HarmShows'
  <2> SUFFICES ASSUME NEW i \in harmed
               PROVE  \E r \in log : r.id = i /\ Broken(r)' /\ (i \in sinceWalk \/ StampOf(checkpoint'.hash) < r.at)
    BY DEF HarmShows
  <2>1. PICK r \in log : r.id = i /\ Broken(r) /\ (i \in sinceWalk \/ StampOf(checkpoint.hash) < r.at)
    BY DEF HarmShows
  <2>2. Broken(r)'
    BY <2>1 DEF Broken
  <2> QED BY <1>5, <1>6, <2>1, <2>2, RowFacts
<1> QED BY <1>1, <1>3, <1>4, <1>7

LEMMA ReadTipKeeps == ASSUME ChainKept, ReadTip PROVE ChainKept'
<1> USE DEF ChainKept, ReadTip
<1>1. append' = {Tip}
  BY DEF MayReadTip
<1>2. /\ Tip \in Hashes /\ Predecessor(Tip)
      /\ StampOf(Tip) \in Nat /\ StampOf(Tip) < Stamp /\ \A s \in log : s.at <= StampOf(Tip)
  <2>1. CASE log = {}
    BY <2>1, GenesisTells, RowFacts DEF Tip, Predecessor, AuditTyped
  <2>2. CASE log # {}
    <3>1. Latest(log) \in log /\ \A s \in log : s = Latest(log) \/ s.at < Latest(log).at
      BY <2>2, LatestIs
    <3>2. Tip = Latest(log).hash
      BY <2>2 DEF Tip
    <3>3. StampOf(Tip) = Latest(log).at
      BY <3>1, <3>2, RowFacts
    <3>4. \A s \in log : s.at <= Latest(log).at
      BY <3>1, RowFacts
    <3> QED BY <3>1, <3>2, <3>3, <3>4, RowFacts DEF Predecessor, StampsRise
  <2> QED BY <2>1, <2>2
<1>3. AuditTyped'
  BY <1>1, <1>2 DEF AuditTyped
<1>4. Stamp' = Stamp
  BY DEF Stamp
<1>5. StampsRise' /\ RowsApart' /\ HashedOnce' /\ Linked'
  BY <1>1, <1>2, <1>4 DEF StampsRise, RowsApart, HashedOnce, Linked
<1>6. HarmShows' /\ Intact'
  BY <1>1, <1>2 DEF HarmShows, Broken, Intact, Predecessor
<1> QED BY <1>3, <1>5, <1>6

LEMMA InsertKeeps == ASSUME ChainKept, NEW prev \in append, Insert(prev) PROVE ChainKept'
<1> USE DEF ChainKept
<1>1. PICK id \in 1..Entries :
        /\ \A r \in log : r.id # id
        /\ log' = log \cup {[id |-> id, at |-> Stamp, body |-> "written", prev |-> prev,
                             hash |-> Digest(prev, Stamp, "written")]}
  BY DEF Insert
<1> DEFINE new == [id |-> id, at |-> Stamp, body |-> "written", prev |-> prev, hash |-> Digest(prev, Stamp, "written")]
<1>2. Stamp \in Nat /\ prev \in Hashes /\ StampOf(prev) \in Nat
  BY RowFacts
<1>3. new \in AuditRows /\ "written" \in Bodies
  BY <1>2, DigestTells DEF AuditRows, Bodies
<1>4. /\ log' = log \cup {new} /\ new \notin log /\ new.id = id /\ new.at = Stamp /\ new.body = "written"
      /\ new.prev = prev /\ new.hash = Digest(prev, Stamp, "written")
  BY <1>1
<1> HIDE DEF new
<1>5. append' = {} /\ lastStamp' = Stamp /\ Stamp' \in Nat /\ Stamp < Stamp'
  <2>1. append' = {} /\ lastStamp' = Stamp /\ clock' = clock
    BY DEF Insert, AuditTyped
  <2> QED BY <2>1, <1>2 DEF Stamp, AuditTyped
<1>6. AuditTyped'
  BY <1>2, <1>3, <1>4, <1>5, FS_AddElement DEF AuditTyped, Insert
<1>7. \A r \in log : r.at < Stamp /\ 1 <= r.at /\ r.at \in Nat
  BY RowFacts DEF StampsRise
<1>8. StampsRise'
  BY <1>2, <1>4, <1>5, <1>7, RowFacts DEF StampsRise, AuditTyped
<1>9. RowsApart'
  BY <1>1, <1>4, <1>7 DEF RowsApart
<1>10. HashedOnce'
  BY <1>4 DEF HashedOnce
<1>11. Linked'
  BY <1>2, <1>4, <1>5, <1>7, RowFacts DEF Linked
<1>12. \A r \in log : Broken(r) => Broken(r)'
  BY <1>4, <1>7, RowFacts DEF Broken, Linked
<1>13. HarmShows'
  BY <1>4, <1>12 DEF HarmShows, Insert
<1>14. Intact'
  BY <1>4, <1>5 DEF Intact, Predecessor, Insert
<1> QED BY <1>6, <1>8, <1>9, <1>10, <1>11, <1>13, <1>14

LEMMA ChangeKeeps == ASSUME ChainKept, NEW r \in log, ChangeRow(r) PROVE ChainKept'
<1> USE DEF ChainKept
<1> DEFINE new == [r EXCEPT !.body = "changed"]
<1>1. new \in AuditRows /\ new.id = r.id /\ new.at = r.at /\ new.body = "changed" /\ new.prev = r.prev /\ new.hash = r.hash
  BY DEF AuditTyped, AuditRows, Bodies
<1>2. /\ log' = (log \ {r}) \cup {new} /\ harmed' = harmed \cup {r.id} /\ sinceWalk' = sinceWalk \cup {r.id}
      /\ changes' = changes + 1 /\ UNCHANGED <<rules, clock, lastStamp, append, checkpoint>>
  BY DEF ChangeRow, Harms, process
<1> HIDE DEF new
<1>3. AuditTyped'
  <2>1. IsFiniteSet(log \ {r})
    BY FS_RemoveElement DEF AuditTyped
  <2>2. IsFiniteSet(log')
    BY <1>2, <2>1, FS_AddElement
  <2> QED BY <1>1, <1>2, <2>2 DEF AuditTyped
<1>4. Stamp' = Stamp /\ changes' # 0
  BY <1>2 DEF Stamp, AuditTyped
<1>5. \A s \in log' : \E q \in log : s.id = q.id /\ s.at = q.at /\ s.prev = q.prev /\ s.hash = q.hash
  BY <1>1, <1>2
<1>7. StampsRise' /\ HashedOnce' /\ Linked'
  BY <1>2, <1>4, <1>5 DEF StampsRise, HashedOnce, Linked
<1>8. RowsApart'
  BY <1>1, <1>2 DEF RowsApart
<1>9. HarmShows'
  <2> SUFFICES ASSUME NEW i \in harmed'
               PROVE  \E s \in log' : s.id = i /\ Broken(s)' /\ (i \in sinceWalk' \/ StampOf(checkpoint'.hash) < s.at)
    BY Zenon DEF HarmShows
  <2>1. CASE i = r.id
    BY <1>1, <1>2, <2>1 DEF Broken
  <2>2. CASE i # r.id
    <3>1. PICK q \in log : q.id = i /\ Broken(q) /\ (i \in sinceWalk \/ StampOf(checkpoint.hash) < q.at)
      BY <1>2, <2>2 DEF HarmShows
    <3>2. q \in log'
      BY <1>2, <2>2, <3>1
    <3>3. Broken(q)'
      BY <1>5, <3>1 DEF Broken
    <3> QED BY <1>2, <3>1, <3>2, <3>3
  <2> QED BY <2>1, <2>2
<1>10. Intact'
  BY <1>4 DEF Intact
<1> QED BY <1>3, <1>7, <1>8, <1>9, <1>10

LEMMA RemoveKeeps == ASSUME ChainKept, NEW r \in log, RemoveRow(r) PROVE ChainKept'
<1> USE DEF ChainKept
<1> DEFINE next == {t \in After(r) : t = Earliest(After(r))}
           ids == {s.id : s \in next}
<1>1. /\ log' = log \ {r} /\ harmed' = (harmed \ {r.id}) \cup ids /\ sinceWalk' = (sinceWalk \ {r.id}) \cup ids
      /\ changes' = changes + 1 /\ UNCHANGED <<rules, clock, lastStamp, append, checkpoint>>
  BY DEF RemoveRow, process
<1>2. \A t \in next : /\ t \in log /\ r.at < t.at /\ t # r
                      /\ \A s \in log : r.at < s.at => t.at <= s.at
  <2> SUFFICES ASSUME NEW t \in next
               PROVE  /\ t \in log /\ r.at < t.at /\ t # r
                      /\ \A s \in log : r.at < s.at => t.at <= s.at
    OBVIOUS
  <2> DEFINE rows == After(r)
  <2>1. \A s \in log : s \in rows <=> r.at < s.at
    BY BeforeIs DEF After
  <2>2. rows \subseteq log /\ rows # {} /\ t \in rows /\ t = Earliest(rows)
    BY DEF After
  <2> HIDE DEF rows
  <2>3. \A s \in rows : s = t \/ t.at < s.at
    BY <2>2, EarliestIs
  <2>4. t \in log /\ r.at < t.at
    BY <2>1, <2>2
  <2>5. \A s \in log : r.at < s.at => t.at <= s.at
    BY <2>1, <2>3, <2>4, RowFacts
  <2> QED BY <2>4, <2>5, RowFacts
<1> HIDE DEF next
<1>3. AuditTyped'
  BY <1>1, FS_RemoveElement DEF AuditTyped
<1>4. Stamp' = Stamp /\ changes' # 0
  BY <1>1 DEF Stamp, AuditTyped
<1>5. StampsRise' /\ HashedOnce' /\ Linked' /\ RowsApart' /\ Intact'
  BY <1>1, <1>4 DEF StampsRise, HashedOnce, Linked, RowsApart, Intact
<1>6. \A t \in next : Broken(t)'
  <2> SUFFICES ASSUME NEW t \in next, NEW s \in log \ {r}, s.at = StampOf(t.prev) PROVE FALSE
    <3>1. \A t \in next : StampOf(t.prev) # 0
      <4> SUFFICES ASSUME NEW t \in next PROVE StampOf(t.prev) # 0
        OBVIOUS
      <4>1. ~(StampOf(t.prev) < r.at)
        BY <1>2 DEF Linked
      <4> QED BY <1>2, <4>1, RowFacts DEF StampsRise
    <3> QED BY <1>1, <3>1 DEF Broken
  <2>1. ~(StampOf(t.prev) < r.at) /\ StampOf(t.prev) < t.at
    BY <1>2 DEF Linked
  <2>2. s.at # r.at
    BY DEF RowsApart
  <2>3. r.at < s.at
    BY <2>1, <2>2, RowFacts
  <2>4. t.at <= s.at
    BY <1>2, <2>3
  <2> QED BY <1>2, <2>1, <2>4, RowFacts
<1>7. HarmShows'
  <2> SUFFICES ASSUME NEW i \in harmed'
               PROVE  \E s \in log' : s.id = i /\ Broken(s)' /\ (i \in sinceWalk' \/ StampOf(checkpoint'.hash) < s.at)
    BY Zenon DEF HarmShows
  <2>1. CASE i \in ids
    <3>1. PICK t \in next : t.id = i
      BY <2>1
    <3> QED BY <1>1, <1>2, <1>6, <2>1, <3>1
  <2>2. CASE i \in harmed \ {r.id}
    <3>1. PICK q \in log : q.id = i /\ Broken(q) /\ (i \in sinceWalk \/ StampOf(checkpoint.hash) < q.at)
      BY <2>2 DEF HarmShows
    <3>2. q \in log'
      BY <1>1, <2>2, <3>1
    <3>3. Broken(q)'
      BY <1>1, <3>1 DEF Broken
    <3> QED BY <1>1, <2>2, <3>1, <3>2, <3>3
  <2> QED BY <1>1, <2>1, <2>2
<1> QED BY <1>3, <1>5, <1>7

LEMMA VerifyKeeps == ASSUME ChainKept, NEW full \in BOOLEAN, VerifyChain(full) PROVE ChainKept'
<1> USE DEF ChainKept
<1> DEFINE w == Walk(full)
           rows == IF w.anchored THEN After(RowWith(w.start.id)) ELSE log
           reached == NextCheckpoint(w.start, w.good)
<1>1. /\ w.good = Walked(w.start.hash, rows) /\ rows \subseteq log
      /\ w.start \in [id : Nat, hash : Hashes, count : Nat] /\ Predecessor(w.start.hash)
      /\ w.anchored => w.start = checkpoint /\ RowWith(w.start.id) \in log
                       /\ RowWith(w.start.id).at = StampOf(w.start.hash)
      /\ ~w.anchored => w.start = NoCheckpoint
  BY WalkFrom DEF After
<1>2. /\ checkpoint' = reached /\ sinceWalk' = IF w.anchored THEN sinceWalk ELSE {}
      /\ UNCHANGED <<log, rules, clock, lastStamp, append, harmed, changes>>
  BY DEF VerifyChain
<1>3. w.anchored => \A s \in log : StampOf(checkpoint.hash) < s.at => s \in rows
  BY <1>1, BeforeIs DEF After
<1>4. ~w.anchored => rows = log
  OBVIOUS
<1> HIDE DEF w, rows
<1>5. w.good \subseteq rows /\ IsFiniteSet(w.good)
  <2>1. w.good \subseteq rows
    BY <1>1 DEF Walked
  <2> QED BY <1>1, <2>1, FS_Subset DEF AuditTyped
<1>6. \/ w.good = {} /\ reached = w.start
      \/ /\ w.good # {} /\ Latest(w.good) \in w.good
         /\ reached = [id |-> Latest(w.good).id, hash |-> Latest(w.good).hash,
                       count |-> w.start.count + Cardinality(w.good)]
  BY <1>1, <1>5, LatestIs DEF NextCheckpoint
<1>7. reached \in [id : Nat, hash : Hashes, count : Nat]
  BY <1>1, <1>5, <1>6, RowFacts, FS_CardinalityType
<1>8. ASSUME NEW h \in rows, Broken(h), StampOf(w.start.hash) < h.at PROVE StampOf(reached.hash) < h.at
  <2>1. CASE w.good = {} /\ reached = w.start
    BY <1>8, <2>1
  <2>2. CASE Latest(w.good) \in w.good /\ reached.hash = Latest(w.good).hash
    <3>1. Latest(w.good).at < h.at
      BY <1>1, <1>8, <2>2, WalkStops
    <3> QED BY <1>1, <1>5, <2>2, <3>1, RowFacts
  <2> QED BY <1>6, <2>1, <2>2
<1> HIDE DEF reached
<1>9. AuditTyped'
  BY <1>2, <1>7 DEF AuditTyped
<1>10. Stamp' = Stamp
  BY <1>2 DEF Stamp
<1>11. StampsRise' /\ HashedOnce' /\ Linked' /\ RowsApart' /\ Intact'
  BY <1>2, <1>10 DEF StampsRise, HashedOnce, Linked, RowsApart, Intact, Predecessor
<1>12. HarmShows'
  <2> SUFFICES ASSUME NEW i \in harmed'
               PROVE  \E s \in log' : s.id = i /\ Broken(s)' /\ (i \in sinceWalk' \/ StampOf(checkpoint'.hash) < s.at)
    BY Zenon DEF HarmShows
  <2>1. PICK h \in log : h.id = i /\ Broken(h) /\ (i \in sinceWalk \/ StampOf(checkpoint.hash) < h.at)
    BY <1>2 DEF HarmShows
  <2>2. Broken(h)'
    BY <1>2, <2>1 DEF Broken
  <2>3. CASE w.anchored
    BY <1>1, <1>2, <1>3, <1>8, <2>1, <2>2, <2>3
  <2>4. CASE ~w.anchored
    <3>1. StampOf(w.start.hash) < h.at
      BY <1>1, <2>4, GenesisTells, RowFacts DEF NoCheckpoint, StampsRise
    <3> QED BY <1>2, <1>4, <1>8, <2>1, <2>2, <2>4, <3>1
  <2> QED BY <2>3, <2>4
<1> QED BY <1>9, <1>11, <1>12

\* The clock of ProcessRestarts has passed every stamp.
LEMMA ChainSteps == ASSUME ~ClockSteps, ChainKept, [AuditNext]_auditVars PROVE ChainKept'
<1> USE DEF ChainKept
<1>1. CASE UNCHANGED auditVars
  BY <1>1, LogStays, RowFacts DEF auditVars, process, AuditTyped, Stamp
<1>2. CASE ClockTicks
  <2>1. Stamp <= Stamp'
    BY <1>2 DEF ClockTicks, process, Stamp, AuditTyped
  <2> QED BY <1>2, <2>1, LogStays DEF ClockTicks, process, AuditTyped
<1>3. CASE ReadTip
  BY <1>3, ReadTipKeeps
<1>4. CASE ProcessRestarts
  <2>1. PICK now \in 1..MaxClock : now >= clock /\ now > lastStamp /\ clock' = now
    BY <1>4 DEF ProcessRestarts
  <2>2. now \in Nat /\ now >= 1
    BY AuditAssumption
  <2>3. Stamp <= Stamp'
    BY <1>4, <2>1, <2>2 DEF ProcessRestarts, Stamp, AuditTyped
  <2> QED BY <1>4, <2>1, <2>2, <2>3, LogStays DEF ProcessRestarts
<1>5. CASE RulesChange
  <2>1. Stamp' = Stamp
    BY <1>5 DEF RulesChange, process, Stamp
  <2> QED BY <1>5, <2>1, LogStays, RowFacts DEF RulesChange, process, AuditTyped
<1>6. ASSUME NEW prev \in append, Insert(prev) PROVE ChainKept'
  BY <1>6, InsertKeeps
<1>7. ASSUME NEW prev \in append, InsertFails(prev) PROVE ChainKept'
  <2>1. Stamp <= Stamp' /\ Stamp \in Nat
    BY <1>7, RowFacts DEF InsertFails, Stamp, AuditTyped
  <2> QED BY <1>7, <2>1, LogStays DEF InsertFails, AuditTyped
<1>8. ASSUME NEW r \in log, ChangeRow(r) \/ RemoveRow(r) PROVE ChainKept'
  BY <1>8, ChangeKeeps, RemoveKeeps
<1>9. ASSUME NEW full \in BOOLEAN, VerifyChain(full) PROVE ChainKept'
  BY <1>9, VerifyKeeps
<1> QED BY <1>1, <1>2, <1>3, <1>4, <1>5, <1>6, <1>7, <1>8, <1>9 DEF AuditNext

-----------------------------------------------------------------------------
(* What a verification answers *)

LEMMA IntactVerifies ==
    ASSUME ChainKept, changes = 0, NEW full \in BOOLEAN
    PROVE  Walk(full).ok
<1> DEFINE w == Walk(full)
           rows == IF w.anchored THEN After(RowWith(w.start.id)) ELSE log
<1>1. /\ w.good = Walked(w.start.hash, rows) /\ rows \subseteq log
      /\ w.ok = (w.good = rows /\ w.start.count + Cardinality(w.good) = Cardinality(log))
      /\ w.anchored => /\ RowWith(w.start.id) \in log
                       /\ RowWith(w.start.id).hash = w.start.hash
                       /\ RowWith(w.start.id).at = StampOf(w.start.hash)
                       /\ Cardinality(Through(RowWith(w.start.id))) = w.start.count
      /\ ~w.anchored => w.start = NoCheckpoint
  BY WalkFrom DEF After
<1>2. IsFiniteSet(log) /\ Cardinality(log) \in Nat
  BY FS_CardinalityType DEF ChainKept, AuditTyped
<1>3. \A s \in log : Predecessor(s.prev) /\ StampOf(s.prev) < s.at /\ StampOf(s.prev) \in Nat /\ s.at \in Nat /\ s.at # 0
  BY RowFacts DEF ChainKept, Intact, Linked
<1>4. \A s, t \in log : ~(StampOf(s.prev) < t.at /\ t.at < s.at)
  BY DEF ChainKept, Linked
<1>5. CASE ~w.anchored
  <2>1. rows = log /\ w.start.hash = Genesis /\ w.start.count = 0
    BY <1>1, <1>5 DEF NoCheckpoint
  <2> HIDE DEF w, rows
  <2>2. ASSUME NEW s \in rows, \A t \in rows : s.at <= t.at PROVE s.prev = Genesis
    <3>1. ASSUME NEW t \in log, s.prev = t.hash PROVE FALSE
      <4>1. StampOf(s.prev) = t.at
        BY <3>1, RowFacts
      <4>2. s.at <= t.at /\ t.at < s.at
        BY <1>3, <2>1, <2>2, <4>1
      <4> QED BY <1>3, <2>1, <4>2
    <3> QED BY <1>3, <2>1, <3>1 DEF Predecessor
  <2>3. Walked(Genesis, rows) = rows
    BY <1>1, <2>1, <2>2, WalkGoes
  <2>4. w.good = rows /\ w.start.count + Cardinality(w.good) = Cardinality(log)
    BY <1>1, <1>2, <2>1, <2>3
  <2>5. w.ok
    BY <1>1, <2>4
  <2> QED BY <2>5 DEF w
<1>6. CASE w.anchored
  <2> DEFINE a == RowWith(w.start.id)
  <2>1. /\ a \in log /\ a.hash = w.start.hash /\ a.at = StampOf(w.start.hash) /\ rows = After(a)
        /\ Cardinality(Through(a)) = w.start.count
    BY <1>1, <1>6
  <2>2. \A s \in log : (s \in rows <=> a.at < s.at) /\ (s \in Through(a) <=> ~(a.at < s.at))
    <3> SUFFICES ASSUME NEW s \in log
                 PROVE  (s \in After(a) <=> a.at < s.at) /\ (s \in Through(a) <=> ~(a.at < s.at))
      BY <2>1
    <3>1. s \in After(a) <=> a.at < s.at
      BY <2>1, BeforeIs DEF After
    <3>2. s \in Through(a) <=> s = a \/ s.at < a.at
      BY <2>1, BeforeIs DEF Through
    <3>3. s.at = a.at => s = a
      BY <2>1 DEF ChainKept, RowsApart
    <3> QED BY <1>3, <2>1, <3>1, <3>2, <3>3
  <2>3. rows \subseteq log /\ Through(a) \subseteq log
    BY <1>1 DEF Through
  <2> HIDE DEF a, w, rows
  <2>4. ASSUME NEW s \in rows, \A t \in rows : s.at <= t.at PROVE s.prev = w.start.hash
    <3>1. s \in log /\ a.at < s.at
      BY <2>2, <2>3
    <3>2. ~(StampOf(s.prev) < a.at)
      BY <1>4, <2>1, <3>1
    <3>3. s.prev # Genesis
      BY <1>3, <2>1, <3>2, GenesisTells
    <3>4. PICK t \in log : s.prev = t.hash
      BY <1>3, <3>1, <3>3 DEF Predecessor
    <3>5. StampOf(s.prev) = t.at
      BY <3>4, RowFacts
    <3>6. t.at < s.at
      BY <1>3, <3>1, <3>5
    <3>7. ~(a.at < t.at)
      BY <1>3, <2>2, <2>4, <3>1, <3>6
    <3>8. t.at = a.at
      BY <1>3, <2>1, <3>2, <3>5, <3>7
    <3>9. t = a
      BY <2>1, <3>8 DEF ChainKept, RowsApart
    <3> QED BY <2>1, <3>4, <3>9
  <2>5. ASSUME NEW s \in rows, NEW t \in log, NEW u \in rows, u.at < s.at, u.at <= t.at PROVE t \in rows
    BY <1>3, <2>1, <2>2, <2>3, <2>5
  <2>6. Walked(w.start.hash, rows) = rows
    BY <2>3, <2>4, <2>5, WalkGoes
  <2>7. Cardinality(Through(a)) + Cardinality(rows) = Cardinality(log)
    <3>1. Through(a) \cup rows = log /\ Through(a) \cap rows = {}
      BY <2>2, <2>3
    <3>2. IsFiniteSet(Through(a)) /\ IsFiniteSet(rows)
      BY <1>2, <2>3, FS_Subset
    <3>3. Cardinality(Through(a)) \in Nat /\ Cardinality(rows) \in Nat
      BY <3>2, FS_CardinalityType
    <3> QED BY <3>1, <3>2, <3>3, FS_Union, FS_EmptySet
  <2> QED BY <1>1, <2>1, <2>6, <2>7 DEF w
<1> QED BY <1>5, <1>6

LEMMA HarmShowsUp ==
    ASSUME ChainKept, NEW full \in BOOLEAN, Walk(full).ok
    PROVE  harmed \subseteq IF Walk(full).anchored THEN sinceWalk ELSE {}
<1> DEFINE w == Walk(full)
           rows == IF w.anchored THEN After(RowWith(w.start.id)) ELSE log
<1>1. /\ rows = Walked(w.start.hash, rows) /\ rows \subseteq log /\ Predecessor(w.start.hash)
      /\ w.anchored => /\ w.start = checkpoint /\ RowWith(w.start.id) \in log
                       /\ RowWith(w.start.id).at = StampOf(w.start.hash)
  BY WalkFrom DEF After
<1>2. \A s \in log : w.anchored /\ StampOf(checkpoint.hash) < s.at => s \in rows
  BY <1>1, BeforeIs DEF After
<1>3. ~w.anchored => rows = log
  OBVIOUS
<1> HIDE DEF w, rows
<1>4. ASSUME NEW h \in rows, Broken(h) PROVE FALSE
  <2>1. h.at < h.at
    BY <1>1, <1>4, WalkStops
  <2> QED BY <1>1, <2>1, RowFacts
<1>5. ASSUME NEW i \in harmed PROVE w.anchored /\ i \in sinceWalk
  <2>1. PICK h \in log : h.id = i /\ Broken(h) /\ (i \in sinceWalk \/ StampOf(checkpoint.hash) < h.at)
    BY DEF ChainKept, HarmShows
  <2>2. h \notin rows
    BY <1>4, <2>1
  <2> QED BY <1>2, <1>3, <2>1, <2>2
<1> QED BY <1>5 DEF w

\* VerifyTellsTruth, for any log: where a restart finds the clock past every stamp, no
\* failed insert or restart makes an intact log verify as broken, and none that was
\* changed in place verifies as intact to a walk that comes by (verifyAuditChain).
THEOREM VerificationTellsTruth == ~ClockSteps => (AuditSpec => []VerifyTellsTruth)
<1> SUFFICES ASSUME ~ClockSteps PROVE AuditSpec => []VerifyTellsTruth
  OBVIOUS
<1>1. ChainKept /\ [AuditNext]_auditVars => ChainKept'
  BY ChainSteps
<1>2. ChainKept => VerifyTellsTruth
  BY IntactVerifies, HarmShowsUp DEF VerifyTellsTruth, NoFalseAlarm, HarmIsFound
<1> QED BY <1>1, <1>2, ChainStarts, PTL DEF AuditSpec
=============================================================================
