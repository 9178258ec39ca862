----------------------------- MODULE ScanReport -----------------------------
(***************************************************************************)
(* Sending what the scanner saw (scan.js): a panel with a draft, one       *)
(* report held by the page while it cannot be sent, and one send at a      *)
(* time, which goes on whatever is opened or closed meanwhile.  The server *)
(* knows a draft by the id made with it (clientReportId, module Raksha's   *)
(* source key), so filing it again files it once.                          *)
(***************************************************************************)
EXTENDS FiniteSets

CONSTANTS Drafts, NoDraft

VARIABLES
    panel,              \* R.snap: the draft on the panel
    opened,             \* the drafts there have been
    sent,               \* the drafts whose snap is marked sent
    pending,            \* S.pending: the report that the page holds
    sending,            \* sendReport at work: on which draft, at which await
    online,             \* navigator.onLine
    filed               \* the server's reports
reportVars == <<panel, opened, sent, pending, sending, online, filed>>

NotSending == [pc |-> "idle", draft |-> NoDraft]

ReportTypeOK ==
    /\ {panel, pending} \subseteq Drafts \cup {NoDraft}
    /\ opened \subseteq Drafts /\ sent \subseteq Drafts /\ filed \subseteq Drafts
    /\ sending \in [pc : {"idle", "photo", "post"}, draft : Drafts \cup {NoDraft}]
    /\ online \in BOOLEAN

ReportInit ==
    /\ panel = NoDraft /\ pending = NoDraft /\ sending = NotSending
    /\ opened = {} /\ sent = {} /\ filed = {}
    /\ online \in BOOLEAN

\* openReport: "a new report replaces one that was never sent".
OpenPanel(d) ==
    /\ d \notin opened
    /\ opened' = opened \cup {d}
    /\ panel' = d
    /\ pending' = NoDraft
    /\ UNCHANGED <<sent, sending, online, filed>>

ClosePanel ==
    /\ panel # NoDraft
    /\ panel' = NoDraft
    /\ UNCHANGED <<opened, sent, pending, sending, online, filed>>

\* sendReport: what is held goes first, else what is on the panel, once its photo is shrunk.
Send ==
    /\ sending = NotSending
    /\ IF pending # NoDraft THEN sending' = [pc |-> "post", draft |-> pending]
       ELSE panel # NoDraft /\ sending' = [pc |-> "photo", draft |-> panel]

\* The button is off once the draft on the panel was sent.
TapSend ==
    /\ panel # NoDraft /\ panel \notin sent
    /\ Send
    /\ UNCHANGED <<panel, opened, sent, pending, online, filed>>

Shrunk ==
    /\ sending.pc = "photo"
    /\ pending' = sending.draft
    /\ sending' = [sending EXCEPT !.pc = "post"]
    /\ UNCHANGED <<panel, opened, sent, online, filed>>

ShrinkFails ==
    /\ sending.pc = "photo"
    /\ sending' = NotSending
    /\ UNCHANGED <<panel, opened, sent, pending, online, filed>>

\* What a good answer marks: what was held, if a new report has not replaced it.
MarkPanel == {panel} \ {NoDraft}                 \* variant: whichever panel is open now
Mark == {pending} \ {NoDraft}

Filed ==
    /\ sending.pc = "post" /\ online
    /\ filed' = filed \cup {sending.draft}
    /\ sent' = sent \cup Mark
    /\ pending' = NoDraft /\ sending' = NotSending
    /\ UNCHANGED <<panel, opened, online>>

\* A refusal, a failed server - filed or not - or no session: nothing is held.
Refused ==
    /\ sending.pc = "post" /\ online
    /\ filed' \in {filed, filed \cup {sending.draft}}
    /\ pending' = NoDraft /\ sending' = NotSending
    /\ UNCHANGED <<panel, opened, sent, online>>

\* No network, or the answer is lost: the page holds it.
Unreachable ==
    /\ sending.pc = "post"
    /\ filed' \in {filed} \cup (IF online THEN {filed \cup {sending.draft}} ELSE {})
    /\ sending' = NotSending
    /\ UNCHANGED <<panel, opened, sent, pending, online>>

GoesOffline ==
    /\ online /\ online' = FALSE
    /\ UNCHANGED <<panel, opened, sent, pending, sending, filed>>

\* The "online" event sends what is held, unless a send is at work.
ComesOnline ==
    /\ ~online /\ online' = TRUE
    /\ IF pending # NoDraft /\ sending = NotSending THEN Send ELSE UNCHANGED sending
    /\ UNCHANGED <<panel, opened, sent, pending, filed>>

ReportNext ==
    \/ \E d \in Drafts : OpenPanel(d)
    \/ ClosePanel \/ TapSend \/ Shrunk \/ ShrinkFails
    \/ Filed \/ Refused \/ Unreachable \/ GoesOffline \/ ComesOnline

ReportSpec == ReportInit /\ [][ReportNext]_reportVars

-----------------------------------------------------------------------------
(* Safety *)

\* A draft reads "Sent" only if the server has it: an answer that comes late, after
\* another frame was opened or the panel closed, marks "the frame that was sent, not
\* whichever report panel is open now".
SentMeansFiled == sent \subseteq filed
=============================================================================
