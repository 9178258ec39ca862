--------------------------- MODULE BookingMachine ---------------------------
(***************************************************************************)
(* The booking state machine of domain/booking-machine.ts: the table of    *)
(* legal commands, the terminal statuses and the set of statuses in which  *)
(* a mechanic is committed to a customer.  The table is kept as its set of *)
(* edges <<from, command, to>>; apply() is membership in it, and a command *)
(* with no edge is the IllegalTransition the code throws.                  *)
(***************************************************************************)

Status == {"DRAFT", "REQUESTED", "MATCHING", "NO_SUPPLY", "ASSIGNED",
           "EN_ROUTE", "ON_SITE", "IN_PROGRESS", "AWAITING_PARTS",
           "ESCALATED", "COMPLETED", "PAID", "CANCELLED"}

Cancellable == {"DRAFT", "REQUESTED", "MATCHING", "NO_SUPPLY", "ASSIGNED",
                "EN_ROUTE", "ON_SITE", "AWAITING_PARTS", "ESCALATED"}

Transitions ==
    {<<"DRAFT",          "submit",                "REQUESTED">>,
     <<"REQUESTED",      "dispatch.start",        "MATCHING">>,
     <<"MATCHING",       "mechanic.accept",       "ASSIGNED">>,
     <<"MATCHING",       "offers.exhausted",      "NO_SUPPLY">>,
     <<"NO_SUPPLY",      "retry.widen",           "MATCHING">>,
     <<"ASSIGNED",       "mechanic.start_travel", "EN_ROUTE">>,
     <<"EN_ROUTE",       "arrive",                "ON_SITE">>,
     <<"ON_SITE",        "work.start",            "IN_PROGRESS">>,
     <<"IN_PROGRESS",    "work.complete",         "COMPLETED">>,
     <<"IN_PROGRESS",    "parts.required",        "AWAITING_PARTS">>,
     <<"IN_PROGRESS",    "tow.required",          "ESCALATED">>,
     <<"AWAITING_PARTS", "parts.received",        "IN_PROGRESS">>,
     <<"ESCALATED",      "tow.assigned",          "ASSIGNED">>,
     <<"COMPLETED",      "payment.settled",       "PAID">>}
    \cup {<<s, "cancel", "CANCELLED">> : s \in Cancellable}

Command == {edge[2] : edge \in Transitions}

\* apply(): command c takes a booking from s to t, and is legal in s.
Applies(s, c, t) == <<s, c, t>> \in Transitions

\* The statuses dispatch and accept count as "on a job".
Committed == {"ASSIGNED", "EN_ROUTE", "ON_SITE", "IN_PROGRESS",
              "AWAITING_PARTS", "ESCALATED"}

=============================================================================
