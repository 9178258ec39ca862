------------------------------ MODULE SmsLine ------------------------------
(***************************************************************************)
(* The feature-phone line: POST /v1/telecom/sms (routes/telecom.ts) for    *)
(* one number.  The vendor delivers a text and delivers it again when the  *)
(* webhook fails; texts are handled concurrently, one await at a time.     *)
(* What an SOS then sends to the family is module Emergency's; STOP, START,*)
(* LANG and STATUS change nothing that these verbs read and are left out.  *)
(* The bookings are also the app's: it makes, moves and cancels them under *)
(* the rules of BookingMachine.                                            *)
(***************************************************************************)
EXTENDS BookingMachine, Naturals, Sequences, FiniteSets, Functions

CONSTANTS
    Texts,
    MaxRequests,        \* bound on the bookings of the number
    MaxVersion,         \* bound on the moves of a booking
    MaxCuts             \* bound on the handlings that are cut off

ASSUME SmsAssumption ==
    /\ "app" \notin Texts /\ "nobody" \notin Texts
    /\ MaxRequests \in Nat /\ MaxVersion \in Nat /\ MaxCuts \in Nat

VARIABLES
    verb,               \* verb[t]: what a text asks; "help car" names a vehicle class
    account,            \* the number's row of users, and its role
    vehicle,            \* a vehicle of this number's: none, a row, a row linked to it
    request,            \* its bookings, oldest first
    alarm,              \* its incidents: raised by which text, and their status
    line,               \* line[t]: the handling of a text, and what it read
    cut                 \* cut[t]: handlings that ended in no answer
smsVars == <<verb, account, vehicle, request, alarm, line, cut>>

Nobody == "nobody"
Unread == [n |-> 0, status |-> "DRAFT", version |-> 0, mech |-> Nobody]

Request(by) ==
    [by |-> by, status |-> "REQUESTED", version |-> 1, mech |-> Nobody,
     over |-> [by |-> Nobody, was |-> "DRAFT", knew |-> Nobody]]

Verbs == {"sos", "cancel", "help", "help car"}

SmsTypeOK ==
    /\ verb \in [Texts -> Verbs]
    /\ account \in {"none", "row", "citizen"} /\ vehicle \in {"none", "row", "linked"}
    /\ \A n \in DOMAIN request : request[n].status \in Status /\ request[n].version \in 1..MaxVersion + 1
    /\ \A n \in DOMAIN alarm : alarm[n].status \in {"CONFIRMED", "RESPONDING", "CANCELLED"}
    /\ \A t \in Texts : line[t].saw.n \in Nat /\ cut[t] \in 0..MaxCuts

SmsInit ==
    /\ verb \in [Texts -> Verbs]
    /\ \/ account = "none" /\ vehicle = "none"
       \/ account = "citizen" /\ vehicle \in {"none", "linked"}
    /\ request \in {<<>>, <<[Request("app") EXCEPT !.status = "MATCHING"]>>,
                   <<[Request("app") EXCEPT !.status = "IN_PROGRESS", !.mech = "mechanic"]>>}
    /\ alarm = <<>>
    /\ line = [t \in Texts |-> [pc |-> "unsent", saw |-> Unread, says |-> "nothing yet"]]
    /\ cut = [t \in Texts |-> 0]

-----------------------------------------------------------------------------
(* The handling of a text *)

At(t, pc) == line[t].pc = pc
Goes(t, pc) == line' = [line EXCEPT ![t].pc = pc]
Answers(t, key) == line' = [line EXCEPT ![t].pc = "reply", ![t].says = key]

Deliver(t) ==
    /\ line[t].pc \in {"unsent", "failed"}
    /\ Goes(t, "arrived")
    /\ UNCHANGED <<verb, account, vehicle, request, alarm, cut>>

FindAccount(t) ==
    /\ At(t, "arrived")
    /\ Goes(t, IF account = "none" THEN "register" ELSE "verb")
    /\ UNCHANGED <<verb, account, vehicle, request, alarm, cut>>

\* users_msisdn_uq: the second of two first texts fails here, and comes again.
Register(t) ==
    /\ At(t, "register")
    /\ \/ account = "none" /\ account' = "row" /\ Goes(t, "grant")
       \/ account # "none" /\ Goes(t, "failed") /\ UNCHANGED account
    /\ UNCHANGED <<verb, vehicle, request, alarm, cut>>

Grant(t) ==
    /\ At(t, "grant")
    /\ account' = "citizen"
    /\ Goes(t, "verb")
    /\ UNCHANGED <<verb, vehicle, request, alarm, cut>>

\* What the vendor is answered: 200, whether or not the reply could be texted.
ReplyOrThrow == {"answered", "failed"}           \* variant: a reply that cannot be sent is a 500
AfterReply == {"answered"}

TextBack(t) ==
    /\ At(t, "reply")
    /\ \E pc \in AfterReply : Goes(t, pc)
    /\ UNCHANGED <<verb, account, vehicle, request, alarm, cut>>

\* A database error, the end of the process, or an answer that never arrives.
CutOff(t) ==
    /\ line[t].pc \notin {"unsent", "failed", "answered"}
    /\ SumFunction(cut) < MaxCuts
    /\ cut' = [cut EXCEPT ![t] = @ + 1]
    /\ Goes(t, "failed")
    /\ UNCHANGED <<verb, account, vehicle, request, alarm>>

-----------------------------------------------------------------------------
(* SOS *)

RaiseSos(t) ==
    /\ At(t, "verb") /\ verb[t] = "sos"
    /\ alarm' = Append(alarm, [by |-> t, status |-> "CONFIRMED"])
    /\ line' = [line EXCEPT ![t].pc = "claim", ![t].saw.n = Len(alarm) + 1]
    /\ UNCHANGED <<verb, account, vehicle, request, cut>>

\* escalateSmsSos claims the incident; closed from the app in between, it tells nobody.
ClaimSos(t) ==
    LET n == line[t].saw.n
    IN /\ At(t, "claim")
       /\ \/ alarm[n].status = "CONFIRMED" /\ alarm' = [alarm EXCEPT ![n].status = "RESPONDING"]
             /\ Goes(t, "alert")
          \/ alarm[n].status # "CONFIRMED" /\ Answers(t, "received") /\ UNCHANGED alarm
       /\ UNCHANGED <<verb, account, vehicle, request, cut>>

\* The rest of the escalation, done or failed: a failure is logged, not thrown.
Escalated(t) ==
    /\ line[t].pc \in {"claim", "alert"}
    /\ Answers(t, "received")
    /\ UNCHANGED <<verb, account, vehicle, request, alarm, cut>>

AppStandsDown(n) ==
    /\ alarm[n].status # "CANCELLED"
    /\ alarm' = [alarm EXCEPT ![n].status = "CANCELLED"]
    /\ UNCHANGED <<verb, account, vehicle, request, line, cut>>

-----------------------------------------------------------------------------
(* CANCEL *)

IsOpen(n) == request[n].status \notin {"PAID", "CANCELLED"}

\* activeBooking: the latest booking, if it is open.
Active == {n \in DOMAIN request : n = Len(request) /\ IsOpen(n)}

CancelRead(t) ==
    /\ At(t, "verb") /\ verb[t] = "cancel"
    /\ \/ Active = {} /\ Answers(t, "nothingToCancel")
       \/ \E n \in Active :
            \/ /\ request[n].status \notin Cancellable
               /\ Answers(t, "tooLate")
            \/ /\ request[n].status \in Cancellable
               /\ line' = [line EXCEPT ![t].pc = "cancel", ![t].saw =
                     [n |-> n, status |-> request[n].status, version |-> request[n].version,
                      mech |-> request[n].mech]]
    /\ UNCHANGED <<verb, account, vehicle, request, alarm, cut>>

\* The row is compared with what was read.
SameId(t) == TRUE                                \* variant: WHERE id = ?
SameRow(t) ==
    LET b == request[line[t].saw.n]
    IN b.status = line[t].saw.status /\ b.version = line[t].saw.version

CancelWrite(t) ==
    LET n == line[t].saw.n
    IN /\ At(t, "cancel")
       /\ \/ /\ SameRow(t)
             /\ request' = [request EXCEPT ![n] =
                   [@ EXCEPT !.status = "CANCELLED", !.version = line[t].saw.version + 1,
                             !.over = [by |-> t, was |-> request[n].status, knew |-> line[t].saw.mech]]]
             /\ Answers(t, "cancelled")
          \/ ~SameRow(t) /\ Goes(t, "again") /\ UNCHANGED request
       /\ UNCHANGED <<verb, account, vehicle, alarm, cut>>

\* The race is lost: the reply says what won.
ReadAgain(t) ==
    LET now == request[line[t].saw.n]
    IN /\ At(t, "again")
       /\ Answers(t, IF now.mech # Nobody /\ now.mech # line[t].saw.mech THEN "accepted" ELSE "changed")
       /\ UNCHANGED <<verb, account, vehicle, request, alarm, cut>>

-----------------------------------------------------------------------------
(* HELP *)

HelpFind(t) ==
    /\ At(t, "verb") /\ verb[t] \in {"help", "help car"}
    /\ \/ vehicle = "linked" /\ Goes(t, "open")
       \/ vehicle # "linked" /\ verb[t] = "help car" /\ Goes(t, "vehicle")
       \/ vehicle # "linked" /\ verb[t] = "help" /\ Answers(t, "whichVehicle")
    /\ UNCHANGED <<verb, account, vehicle, request, alarm, cut>>

\* vehicles_reg_uq: a vehicle added and never linked makes this fail for good.
AddVehicle(t) ==
    /\ At(t, "vehicle")
    /\ \/ vehicle = "none" /\ vehicle' = "row" /\ Goes(t, "link")
       \/ vehicle # "none" /\ Goes(t, "failed") /\ UNCHANGED vehicle
    /\ UNCHANGED <<verb, account, request, alarm, cut>>

LinkVehicle(t) ==
    /\ At(t, "link")
    /\ vehicle' = "linked"
    /\ Goes(t, "open")
    /\ UNCHANGED <<verb, account, request, alarm, cut>>

OpenRead(t) ==
    /\ At(t, "open")
    /\ IF Active = {} THEN Goes(t, "book") ELSE Answers(t, "alreadyOpen")
    /\ UNCHANGED <<verb, account, vehicle, request, alarm, cut>>

Book(t) ==
    /\ At(t, "book") /\ Len(request) < MaxRequests
    /\ request' = Append(request, Request(t))
    /\ Answers(t, "requested")
    /\ UNCHANGED <<verb, account, vehicle, alarm, cut>>

-----------------------------------------------------------------------------
(* The app, the mechanics and dispatch *)

AppBooks ==
    /\ account # "none" /\ Len(request) < MaxRequests
    /\ request' = Append(request, Request("app"))
    /\ UNCHANGED <<verb, account, vehicle, alarm, line, cut>>

AppMoves(n) ==
    /\ request[n].version < MaxVersion
    /\ \E c \in Command, s \in Status :
         /\ Applies(request[n].status, c, s)
         /\ request' = [request EXCEPT ![n].status = s, ![n].version = @ + 1,
                                       ![n].mech = IF c = "mechanic.accept" THEN "mechanic" ELSE @]
    /\ UNCHANGED <<verb, account, vehicle, alarm, line, cut>>

SmsNext ==
    \/ \E t \in Texts :
         \/ Deliver(t) \/ FindAccount(t) \/ Register(t) \/ Grant(t) \/ TextBack(t) \/ CutOff(t)
         \/ RaiseSos(t) \/ ClaimSos(t) \/ Escalated(t)
         \/ CancelRead(t) \/ CancelWrite(t) \/ ReadAgain(t)
         \/ HelpFind(t) \/ AddVehicle(t) \/ LinkVehicle(t) \/ OpenRead(t) \/ Book(t)
    \/ AppBooks
    \/ \E n \in DOMAIN request : AppMoves(n)
    \/ \E n \in DOMAIN alarm : AppStandsDown(n)

SmsSpec == SmsInit /\ [][SmsNext]_smsVars

-----------------------------------------------------------------------------
(* Safety *)

Made(t) == {n \in DOMAIN request : request[n].by = t}
Raised(t) == {n \in DOMAIN alarm : alarm[n].by = t}

\* However often the vendor delivers a text, it raises one emergency or opens one
\* booking, and one more for each handling that was cut off before its answer: a
\* failed escalation or a reply that could not be sent never brings it in again.
TextActsOnce == \A t \in Texts : Cardinality(Made(t)) + Cardinality(Raised(t)) <= 1 + cut[t]

\* A booking that a text cancelled was in a status that may be cancelled, and nobody
\* had been assigned to it whom the text had not seen: an accept that lands between
\* the reading and the writing wins.
NoBlindCancel ==
    \A n \in DOMAIN request :
        LET b == request[n]
        IN b.over.by # Nobody =>
               b.status = "CANCELLED" /\ b.over.was \in Cancellable /\ b.mech = b.over.knew

\* Both of the above: what a text asked is done once, and undoes nothing it never saw.
TextsHold == TextActsOnce /\ NoBlindCancel
=============================================================================
