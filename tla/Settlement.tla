----------------------------- MODULE Settlement -----------------------------
(***************************************************************************)
(* Money: routes/payments.ts and the payment.settled record of             *)
(* POST /v1/bookings/:id/transition.  An attempt to pay is one row of      *)
(* payments; a row is opened PENDING with a gateway order, or written      *)
(* SETTLED at once (cash, or a provider that settles synchronously).       *)
(*                                                                         *)
(* Three doors settle an invoice, each a request of several statements:    *)
(*   paying[p]      POST /v1/bookings/:id/pay, after its reads             *)
(*   confirming[p]  POST /v1/payments/:id/confirm                          *)
(*   hooking[p]     POST /v1/webhooks/razorpay, retried until acknowledged *)
(* and a fourth, the payment.settled command, records what they have done. *)
(* payments_invoice_settled_uq is the guard of every UPDATE and INSERT.    *)
(***************************************************************************)
EXTENDS Naturals, FiniteSets, BookingMachine

CONSTANTS
    Bookings, Payments, NoBooking,
    Methods,        \* "direct": settles at once (cash); "checkout": a gateway order
    MaxFaults       \* bound on restarts and lost acknowledgements

ASSUME SettlementAssumption ==
    /\ NoBooking \notin Bookings
    /\ Methods \subseteq {"direct", "checkout"}
    /\ MaxFaults \in Nat

VARIABLES
    status,             \* bookings.status
    row, of, method,    \* payments.status, its invoice's booking, payments.method
    captured,           \* orders whose money the gateway has taken
    refund,             \* captures the webhook has reported as to be refunded
    acked,              \* captures whose webhook the gateway has a 2xx for
    paying, confirming, hooking,
    faults

db == <<status, row, of, method>>
gateway == <<captured, acked>>
requests == <<paying, confirming, hooking>>
vars == <<db, gateway, refund, requests, faults>>

TypeOK ==
    /\ status \in [Bookings -> {"IN_PROGRESS", "COMPLETED", "PAID"}]
    /\ row \in [Payments -> {"NONE", "PENDING", "SETTLED"}]
    /\ of \in [Payments -> Bookings \cup {NoBooking}]
    /\ method \in [Payments -> {"none", "direct", "checkout"}]
    /\ captured \subseteq Payments
    /\ refund \subseteq Payments
    /\ acked \subseteq Payments
    /\ paying \subseteq Payments
    /\ confirming \in [Payments -> {"idle", "payable", "closed", "recorded"}]
    /\ hooking \in [Payments -> {"idle", "found", "recorded", "done"}]
    /\ faults \in Nat

Init ==
    /\ status = [b \in Bookings |-> "IN_PROGRESS"]
    /\ row = [p \in Payments |-> "NONE"]
    /\ of = [p \in Payments |-> NoBooking]
    /\ method = [p \in Payments |-> "none"]
    /\ captured = {}
    /\ refund = {}
    /\ acked = {}
    /\ paying = {}
    /\ confirming = [p \in Payments |-> "idle"]
    /\ hooking = [p \in Payments |-> "idle"]
    /\ faults = 0

-----------------------------------------------------------------------------
SettledRows(b) == {p \in Payments : of[p] = b /\ row[p] = "SETTLED"}
InvoiceIsSettled(b) == SettledRows(b) # {}

\* payments_invoice_settled_uq: a second SETTLED row of one invoice is refused.
IndexAllows(p) == ~InvoiceIsSettled(of[p])

\* claimForSettlement: the guarded COMPLETED -> PAID update.
Claim(b) ==
    status' = IF Applies(status[b], "payment.settled", "PAID")
                THEN [status EXCEPT ![b] = "PAID"] ELSE status

\* work.complete: the job is done and its invoice written.
Complete(b) ==
    /\ Applies(status[b], "work.complete", "COMPLETED")
    /\ status' = [status EXCEPT ![b] = "COMPLETED"]
    /\ UNCHANGED <<row, of, method, gateway, refund, requests, faults>>

-----------------------------------------------------------------------------
(* POST /v1/bookings/:id/pay *)

\* The booking is read COMPLETED, and a gateway order created.
PayRead(p, b, how) ==
    /\ method[p] = "none"
    /\ status[b] = "COMPLETED"
    /\ paying' = paying \cup {p}
    /\ of' = [of EXCEPT ![p] = b]
    /\ method' = [method EXCEPT ![p] = how]
    /\ UNCHANGED <<status, row, gateway, refund, confirming, hooking, faults>>

\* Not settled yet: the intent is recorded and the checkout handed out.
PayCheckout(p) ==
    /\ p \in paying /\ method[p] = "checkout"
    /\ row' = [row EXCEPT ![p] = "PENDING"]
    /\ paying' = paying \ {p}
    /\ UNCHANGED <<status, of, method, gateway, refund, confirming, hooking, faults>>

\* Settled at once: the booking is claimed and the money written in one
\* transaction, which a lost claim or the index rolls back.
PayDirect(p) ==
    /\ p \in paying /\ method[p] = "direct"
    /\ IF status[of[p]] = "COMPLETED" /\ IndexAllows(p)
         THEN Claim(of[p]) /\ row' = [row EXCEPT ![p] = "SETTLED"]
         ELSE UNCHANGED <<status, row>>
    /\ paying' = paying \ {p}
    /\ UNCHANGED <<of, method, gateway, refund, confirming, hooking, faults>>

\* The customer finishes the checkout they were handed.
Capture(p) ==
    /\ row[p] # "NONE" /\ method[p] = "checkout" /\ p \notin captured
    /\ captured' = captured \cup {p}
    /\ UNCHANGED <<db, acked, refund, requests, faults>>

-----------------------------------------------------------------------------
(* POST /v1/payments/:id/confirm *)

\* The payment is read PENDING and the booking payable or not; the gateway's
\* signature is genuine only if it has the money.
ConfirmUnverified(p) ==       \* variant: the browser's word is taken
    /\ confirming[p] = "idle"
    /\ row[p] = "PENDING"
    /\ confirming' = [confirming EXCEPT ![p] =
                        IF status[of[p]] = "COMPLETED" THEN "payable" ELSE "closed"]
    /\ UNCHANGED <<db, gateway, refund, paying, hooking, faults>>
ConfirmVerify(p) ==
    /\ confirming[p] = "idle"
    /\ row[p] = "PENDING"
    /\ p \in captured
    /\ confirming' = [confirming EXCEPT ![p] =
                        IF status[of[p]] = "COMPLETED" THEN "payable" ELSE "closed"]
    /\ UNCHANGED <<db, gateway, refund, paying, hooking, faults>>

\* PENDING -> SETTLED, or refused by the index and left PENDING for a refund.
ConfirmRecord(p) ==
    /\ confirming[p] \in {"payable", "closed"}
    /\ IF row[p] = "PENDING" /\ IndexAllows(p)
         THEN row' = [row EXCEPT ![p] = "SETTLED"] ELSE UNCHANGED row
    /\ confirming' = [confirming EXCEPT ![p] =
                        IF confirming[p] = "payable" /\ row'[p] = "SETTLED"
                          THEN "recorded" ELSE "idle"]
    /\ UNCHANGED <<status, of, method, gateway, refund, paying, hooking, faults>>

\* settleBooking, for a booking that was read COMPLETED.
ConfirmSettle(p) ==
    /\ confirming[p] = "recorded"
    /\ Claim(of[p])
    /\ confirming' = [confirming EXCEPT ![p] = "idle"]
    /\ UNCHANGED <<row, of, method, gateway, refund, paying, hooking, faults>>

-----------------------------------------------------------------------------
(* POST /v1/webhooks/razorpay: payment.captured, delivered at least once *)

HookRead(p) ==
    /\ hooking[p] = "idle"
    /\ p \in captured
    /\ hooking' = [hooking EXCEPT ![p] =
                     IF row[p] = "SETTLED" THEN "recorded" ELSE "found"]
    /\ UNCHANGED <<db, gateway, refund, paying, confirming, faults>>

\* PENDING -> SETTLED ...
HookRecord(p) ==
    /\ hooking[p] = "found"
    /\ row[p] = "PENDING" => IndexAllows(p)
    /\ row' = [row EXCEPT ![p] = "SETTLED"]
    /\ hooking' = [hooking EXCEPT ![p] = "recorded"]
    /\ UNCHANGED <<status, of, method, gateway, refund, paying, confirming, faults>>

\* ... or refused by the index: captured, acknowledged, and to be refunded.
HookForget(p) ==              \* variant: a refused capture is acknowledged and forgotten
    /\ hooking[p] = "found"
    /\ row[p] = "PENDING" /\ ~IndexAllows(p)
    /\ hooking' = [hooking EXCEPT ![p] = "done"]
    /\ UNCHANGED <<db, gateway, refund, paying, confirming, faults>>
HookRefund(p) ==
    /\ hooking[p] = "found"
    /\ row[p] = "PENDING" /\ ~IndexAllows(p)
    /\ refund' = refund \cup {p}
    /\ hooking' = [hooking EXCEPT ![p] = "done"]
    /\ UNCHANGED <<db, gateway, paying, confirming, faults>>

\* The booking is read again, and settled if it still awaits payment.
HookLeaveBooking(p) ==        \* variant: the booking is left to the browser's confirm
    /\ hooking[p] = "recorded"
    /\ hooking' = [hooking EXCEPT ![p] = "done"]
    /\ UNCHANGED <<db, gateway, refund, paying, confirming, faults>>
HookSettle(p) ==
    /\ hooking[p] = "recorded"
    /\ Claim(of[p])
    /\ hooking' = [hooking EXCEPT ![p] = "done"]
    /\ UNCHANGED <<row, of, method, gateway, refund, paying, confirming, faults>>

\* 2xx, or a 2xx lost on the way.
HookAck(p) ==
    /\ hooking[p] = "done"
    /\ acked' = acked \cup {p}
    /\ hooking' = [hooking EXCEPT ![p] = "idle"]
    /\ UNCHANGED <<db, captured, refund, paying, confirming, faults>>

HookLost(p) ==
    /\ hooking[p] = "done"
    /\ faults < MaxFaults
    /\ faults' = faults + 1
    /\ hooking' = [hooking EXCEPT ![p] = "idle"]
    /\ UNCHANGED <<db, gateway, refund, paying, confirming>>

-----------------------------------------------------------------------------
\* The payment.settled command: only the record of money that has arrived.
RecordSettled(b) ==
    /\ status[b] = "COMPLETED"
    /\ InvoiceIsSettled(b)
    /\ Claim(b)
    /\ UNCHANGED <<row, of, method, gateway, refund, requests, faults>>

\* The server dies: every request stops between two of its statements.
Restart ==
    /\ faults < MaxFaults
    /\ faults' = faults + 1
    /\ paying' = {}
    /\ confirming' = [p \in Payments |-> "idle"]
    /\ hooking' = [p \in Payments |-> "idle"]
    /\ UNCHANGED <<db, gateway, refund>>

Next ==
    \/ \E b \in Bookings : Complete(b) \/ RecordSettled(b)
    \/ \E p \in Payments :
         \/ \E b \in Bookings, how \in Methods : PayRead(p, b, how)
         \/ PayCheckout(p) \/ PayDirect(p) \/ Capture(p)
         \/ ConfirmVerify(p) \/ ConfirmRecord(p) \/ ConfirmSettle(p)
         \/ HookRead(p) \/ HookRecord(p) \/ HookRefund(p) \/ HookSettle(p)
         \/ HookAck(p) \/ HookLost(p)
    \/ Restart

\* The gateway delivers until it is acknowledged, and a webhook request that has
\* begun runs on.  Nobody has to pay, and no browser has to confirm.
Fairness ==
    \A p \in Payments :
        /\ WF_vars(p \notin acked /\ HookRead(p))
        /\ WF_vars(HookRecord(p) \/ HookRefund(p) \/ HookSettle(p) \/ HookAck(p))

Spec == Init /\ [][Next]_vars
FairSpec == Spec /\ Fairness

-----------------------------------------------------------------------------
(* Safety *)

\* An invoice is settled once, through whichever doors and however they race
\* (payments_invoice_settled_uq): the ledger never reads twice the total.
SettledOnce ==
    \A p, q \in Payments :
        row[p] = "SETTLED" /\ row[q] = "SETTLED" /\ of[p] = of[q] => p = q

\* A booking reads PAID only when a payment covers its invoice, and a payment
\* settles no invoice that does not exist yet.
PaidIsCovered ==
    \A b \in Bookings :
        /\ status[b] = "PAID" => InvoiceIsSettled(b)
        /\ InvoiceIsSettled(b) => status[b] # "IN_PROGRESS"

\* A gateway payment reads SETTLED only for money the gateway has taken: a
\* browser cannot confirm its own payment.
SettledIsCaptured ==
    \A p \in Payments : row[p] = "SETTLED" /\ method[p] = "checkout" => p \in captured

\* The ledger is true: what reads SETTLED was taken once, and what reads PAID is paid.
LedgerIsTrue == SettledOnce /\ PaidIsCovered /\ SettledIsCaptured

\* Every capture the gateway has been told to stop delivering is accounted for:
\* it closed its booking, or it was reported for a refund - and it really was a
\* second payment of an invoice somebody else settled.
AckedIsAccountedFor ==
    /\ \A p \in acked \ refund : row[p] = "SETTLED" /\ status[of[p]] = "PAID"
    /\ \A p \in refund : row[p] = "PENDING" /\ InvoiceIsSettled(of[p])

\* What a request has learnt still holds when it acts on it, however long it
\* takes: a confirmation or a webhook is about captured money, its record is in
\* place before the booking is claimed, and only a finished job is paid for.
KnowledgeHolds ==
    \A p \in Payments :
        /\ confirming[p] # "idle" \/ hooking[p] # "idle" => p \in captured
        /\ confirming[p] = "recorded" \/ hooking[p] = "recorded" => row[p] = "SETTLED"
        /\ hooking[p] = "done" =>
             p \in refund \/ (row[p] = "SETTLED" /\ status[of[p]] = "PAID")
        /\ p \in captured => row[p] # "NONE" /\ method[p] = "checkout"
        /\ p \in paying => row[p] = "NONE"
        /\ p \in paying \/ row[p] # "NONE" =>
             /\ of[p] \in Bookings /\ method[p] # "none"
             /\ status[of[p]] # "IN_PROGRESS"

(* Liveness *)

\* "this is what actually guarantees the invoice closes": money taken by the
\* gateway ends in a PAID booking, browser or no browser.
CaptureClosesInvoice ==
    \A p \in Payments :
        (p \in captured) ~> (\E b \in Bookings : of[p] = b /\ status[b] = "PAID")
=============================================================================
