------------------------------ MODULE LiveView ------------------------------
(***************************************************************************)
(* The customer's page following a booking (app.html): the live stream     *)
(* with its reconnects and expiring tokens, the poll under it, the reads   *)
(* of the customer's own taps - and the server's side of the stream        *)
(* (realtime.ts).  An event is a nudge to read the booking, never the      *)
(* booking itself; every answer that arrives is drawn.                     *)
(*                                                                         *)
(* A booking's status is the number of moves it has made; Last is          *)
(* terminal.  A connection that the page aborts is free for it at once,    *)
(* while the server feeds it until it notices.                             *)
(***************************************************************************)
EXTENDS Naturals, FiniteSets

CONSTANTS
    Followed, Conns, Taps, NotFollowing, NoConn,
    Last,           \* moves to a terminal status
    MaxFed,         \* MAX_STREAMS_PER_USER
    MaxTurns,       \* bound on what the customer and the signal do
    MaxBreaks,      \* bound on failing requests and streams
    SwitchInFlight, \* whether the booking may be changed while an answer is awaited, and
                    \* the read that opens it may fail
    FlapInRenewal   \* whether the stream may be stopped while its token is renewed

ASSUME LiveViewAssumption ==
    /\ NotFollowing \notin Followed /\ NoConn \notin Conns /\ Conns # {}
    /\ Last \in Nat \ {0} /\ MaxFed \in Nat \ {0} /\ MaxTurns \in Nat /\ MaxBreaks \in Nat
    /\ SwitchInFlight \in BOOLEAN /\ FlapInRenewal \in BOOLEAN

VARIABLES
    st,             \* the server's booking
    fed, nudges,    \* connections the server feeds, and what is on them
    fresh,          \* the access token has not expired
    cur,            \* state.bookingId
    shown,          \* what the screen shows
    pollStatus, ticking, poll, pollAgain,
    tap,            \* reads of own taps
    ctrl, conn, retry,      \* stream.ctrl, the calls of streamOpen, stream.timer
    online, hidden,
    owed,           \* an event was heard that no read has followed
    turns, breaks

feed == <<st, fed, nudges, fresh>>
page == <<cur, shown, pollStatus, ticking, poll, pollAgain, tap, owed>>
stream == <<ctrl, conn, retry>>
bounds == <<turns, breaks>>
liveVars == <<feed, page, stream, online, hidden, bounds>>

Unknown == Last + 1
NoRead == [pc |-> "idle", of |-> NotFollowing, got |-> 0]
Reads == [pc : {"idle", "sent", "back"}, of : Followed \cup {NotFollowing}, got : 0 .. Last]

LiveTypeOK ==
    /\ st \in [Followed -> 0 .. Last]
    /\ fed \subseteq Conns /\ nudges \in [Conns -> SUBSET Followed] /\ fresh \in BOOLEAN
    /\ cur \in Followed \cup {NotFollowing}
    /\ shown \in [of : Followed \cup {NotFollowing}, status : 0 .. Last]
    /\ pollStatus \in 0 .. Unknown
    /\ ticking \in BOOLEAN /\ poll \in Reads /\ pollAgain \in BOOLEAN
    /\ tap \in [Taps -> Reads]
    /\ ctrl \in Conns \cup {NoConn}
    /\ conn \in [Conns -> {"free", "fetching", "renewing", "reading"}]
    /\ retry \in BOOLEAN /\ online \in BOOLEAN /\ hidden \in BOOLEAN /\ owed \in BOOLEAN
    /\ turns \in Nat /\ breaks \in Nat

LiveInit ==
    /\ st = [b \in Followed |-> 0]
    /\ fed = {} /\ nudges = [c \in Conns |-> {}] /\ fresh = TRUE
    /\ cur = NotFollowing /\ shown = [of |-> NotFollowing, status |-> 0]
    /\ pollStatus = Unknown /\ ticking = FALSE /\ poll = NoRead /\ pollAgain = FALSE
    /\ tap = [t \in Taps |-> NoRead]
    \* entering the app opens the stream
    /\ ctrl = CHOOSE c \in Conns : TRUE
    /\ conn = [c \in Conns |-> IF c = ctrl THEN "fetching" ELSE "free"]
    /\ retry = FALSE
    /\ online = TRUE /\ hidden = FALSE /\ owed = FALSE
    /\ turns = 0 /\ breaks = 0

Turn == turns < MaxTurns /\ turns' = turns + 1 /\ breaks' = breaks
Break == breaks < MaxBreaks /\ breaks' = breaks + 1 /\ turns' = turns

-----------------------------------------------------------------------------
(* The server *)

\* A move is persisted first and published second, to every stream that is fed.
Move(b) ==
    /\ st[b] < Last
    /\ st' = [st EXCEPT ![b] = @ + 1]
    /\ nudges' = [c \in Conns |-> IF c \in fed THEN nudges[c] \cup {b} ELSE nudges[c]]
    /\ UNCHANGED <<fed, fresh, page, stream, online, hidden, bounds>>

\* The stream of an expired token is ended; the page reads the end.
TokenAges ==
    /\ fresh
    /\ Turn
    /\ fresh' = FALSE
    /\ fed' = {} /\ nudges' = [c \in Conns |-> {}]
    /\ UNCHANGED <<st, page, stream, online, hidden>>

\* The socket of an aborted or broken connection closes.
Drop(c) ==
    /\ c \in fed /\ conn[c] = "free"
    /\ fed' = fed \ {c} /\ nudges' = [nudges EXCEPT ![c] = {}]
    /\ UNCHANGED <<st, fresh, page, stream, online, hidden, bounds>>

-----------------------------------------------------------------------------
(* The poll, and what is drawn *)

StartPoll == ticking' = (cur' # NotFollowing /\ online')

StopPoll == ticking' = FALSE /\ pollStatus' = Unknown

\* showBooking: a terminal booking is polled no more.
Show(b, s) ==
    /\ shown' = [of |-> b, status |-> s]
    /\ IF s = Last THEN StopPoll
       ELSE pollStatus' = s /\ ticking' = (cur # NotFollowing /\ online)

CanPoll == ~hidden /\ online /\ cur # NotFollowing

\* Variant: one asked for mid-flight is dropped.
PollOrDrop ==
    /\ poll' = IF CanPoll /\ poll = NoRead THEN [NoRead EXCEPT !.pc = "sent", !.of = cur] ELSE poll
    /\ pollAgain' = pollAgain

\* pollBooking: one at a time; one asked for mid-flight runs after it.
PollBooking ==
    /\ poll' = IF CanPoll /\ poll = NoRead THEN [NoRead EXCEPT !.pc = "sent", !.of = cur] ELSE poll
    /\ pollAgain' = (pollAgain \/ (CanPoll /\ poll # NoRead))

\* The end of pollBooking, which may begin the next.
PollDone ==
    /\ pollAgain' = FALSE
    /\ poll' = IF pollAgain /\ CanPoll THEN [NoRead EXCEPT !.pc = "sent", !.of = cur] ELSE NoRead
    /\ owed' = (owed /\ pollAgain /\ CanPoll)

Tick ==
    /\ ticking /\ CanPoll /\ poll = NoRead
    /\ PollBooking
    /\ UNCHANGED <<feed, cur, shown, pollStatus, ticking, tap, owed, stream, online, hidden, bounds>>

PollReads ==
    /\ poll.pc = "sent"
    /\ poll' = [poll EXCEPT !.pc = "back", !.got = st[poll.of]]
    /\ owed' = (owed /\ pollAgain)
    /\ UNCHANGED <<feed, cur, shown, pollStatus, ticking, pollAgain, tap, stream, online, hidden, bounds>>

\* Drawn when the status is news.
PollBack ==
    /\ poll.pc = "back"
    /\ IF poll.got # pollStatus THEN Show(poll.of, poll.got) ELSE UNCHANGED <<shown, pollStatus, ticking>>
    /\ PollDone
    /\ UNCHANGED <<feed, cur, tap, stream, online, hidden, bounds>>

PollFails ==
    /\ poll # NoRead
    /\ Break
    /\ PollDone
    /\ UNCHANGED <<feed, cur, shown, pollStatus, ticking, tap, stream, online, hidden>>

\* refreshBooking, after a tap: read, and drawn whatever else is on its way.
TapReads(t) ==
    /\ tap[t].pc = "sent"
    /\ tap' = [tap EXCEPT ![t].pc = "back", ![t].got = st[tap[t].of]]
    /\ UNCHANGED <<feed, cur, shown, pollStatus, ticking, poll, pollAgain, owed, stream, online, hidden, bounds>>

TapBack(t) ==
    /\ tap[t].pc = "back"
    /\ Show(tap[t].of, tap[t].got)
    /\ tap' = [tap EXCEPT ![t] = NoRead]
    /\ UNCHANGED <<feed, cur, poll, pollAgain, owed, stream, online, hidden, bounds>>

\* The booking followed is the tapped one all the same.
TapFails(t) ==
    /\ tap[t] # NoRead
    /\ SwitchInFlight \/ tap[t].of = shown.of
    /\ Break
    /\ tap' = [tap EXCEPT ![t] = NoRead]
    /\ UNCHANGED <<feed, cur, shown, pollStatus, ticking, poll, pollAgain, owed, stream, online, hidden>>

\* Another booking is opened: from the list, after being made, or at sign-in.
Settled == poll = NoRead /\ \A t \in Taps : tap[t] = NoRead
OpenBooking(t, b) ==
    /\ tap[t] = NoRead
    /\ cur # b => SwitchInFlight \/ Settled
    /\ Turn
    /\ cur' = b
    /\ tap' = [tap EXCEPT ![t] = [NoRead EXCEPT !.pc = "sent", !.of = b]]
    /\ owed' = (owed /\ cur = b)
    /\ UNCHANGED <<feed, shown, pollStatus, ticking, poll, pollAgain, stream, online, hidden>>

-----------------------------------------------------------------------------
(* The stream *)

\* A connection nobody uses; which one makes no difference.
Unused(conns) == {c \in Conns : conns[c] = "free" /\ c \notin fed}
OpenedOn(conns) == CHOOSE c \in Unused(conns) : TRUE

\* streamOpen begins: a connection is claimed, unless one is held.
Opening(held, conns) ==
    IF held # NoConn \/ ~online' THEN ctrl' = held /\ conn' = conns
    ELSE /\ Unused(conns) # {}
         /\ ctrl' = OpenedOn(conns) /\ conn' = [conns EXCEPT ![OpenedOn(conns)] = "fetching"]

\* streamStop: whatever is held is aborted, and that call ends without a trace - but
\* for one that awaits its new token, which no abort reaches.
Stopped == [c \in Conns |-> IF c = ctrl /\ conn[c] # "renewing" THEN "free" ELSE conn[c]]

StreamRetry ==
    /\ retry
    /\ retry' = FALSE
    /\ UNCHANGED online
    /\ Opening(ctrl, conn)
    /\ UNCHANGED <<feed, page, hidden, bounds>>

\* The request is answered: fed, if the token is good and the account has room -
\* a refused stream is one that opens and ends at once.
StreamOpens(c) ==
    /\ conn[c] = "fetching" /\ fresh
    /\ fed' = IF Cardinality(fed) < MaxFed THEN fed \cup {c} ELSE fed
    /\ conn' = [conn EXCEPT ![c] = "reading"]
    /\ ticking' = (cur # NotFollowing /\ online)
    /\ UNCHANGED <<st, nudges, fresh, cur, shown, pollStatus, poll, pollAgain, tap, owed,
                   ctrl, retry, online, hidden, bounds>>

StreamExpired(c) ==
    /\ conn[c] = "fetching" /\ ~fresh
    /\ conn' = [conn EXCEPT ![c] = "renewing"]
    /\ UNCHANGED <<feed, page, ctrl, retry, online, hidden, bounds>>

\* Any other call's 401 renews the token too.
Renewed ==
    /\ ~fresh
    /\ fresh' = TRUE
    /\ UNCHANGED <<st, fed, nudges, page, stream, online, hidden, bounds>>

\* An event: a booking the page follows is read.
Frame(c, b) ==
    /\ conn[c] = "reading" /\ b \in nudges[c]
    /\ nudges' = [nudges EXCEPT ![c] = @ \ {b}]
    /\ IF b = cur THEN PollBooking /\ owed' = (owed \/ CanPoll) ELSE UNCHANGED <<poll, pollAgain, owed>>
    /\ UNCHANGED <<st, fed, fresh, cur, shown, pollStatus, ticking, tap, stream, online, hidden, bounds>>

\* Variant: the end of a call tears down whatever stream there is.
FinallyAny(c, held, conns) ==
    /\ conn' = [conns EXCEPT ![c] = "free"]
    /\ ctrl' = NoConn /\ retry' = online
    /\ ticking' = (cur # NotFollowing /\ online)

\* The end of a call of streamOpen: only the stream it owns.
Finally(c, held, conns) ==
    /\ conn' = [conns EXCEPT ![c] = "free"]
    /\ IF held = c
       THEN ctrl' = NoConn /\ retry' = online /\ ticking' = (cur # NotFollowing /\ online)
       ELSE ctrl' = held /\ UNCHANGED <<retry, ticking>>

\* refreshSession has succeeded: the controller is given up, whosever it is by now,
\* and the stream opened again; then this call ends.
StreamRenewed(c) ==
    /\ conn[c] = "renewing"
    /\ fresh' = TRUE
    /\ IF ~online THEN Finally(c, NoConn, conn)
       ELSE /\ Unused(conn) # {}
            /\ Finally(c, OpenedOn(conn), [conn EXCEPT ![OpenedOn(conn)] = "fetching"])
    /\ UNCHANGED <<st, fed, nudges, cur, shown, pollStatus, poll, pollAgain, tap, owed,
                   online, hidden, bounds>>

\* The server has ended the stream, or never fed it.
StreamEnds(c) ==
    /\ conn[c] = "reading" /\ c \notin fed
    /\ Finally(c, ctrl, conn)
    /\ UNCHANGED <<feed, cur, shown, pollStatus, poll, pollAgain, tap, owed, online, hidden, bounds>>

StreamBreaks(c) ==
    /\ conn[c] # "free"
    /\ Break
    /\ Finally(c, ctrl, conn)
    /\ nudges' = [nudges EXCEPT ![c] = {}]
    /\ UNCHANGED <<st, fed, fresh, cur, shown, pollStatus, poll, pollAgain, tap, owed, online, hidden>>

-----------------------------------------------------------------------------
(* The page *)

MayStop == FlapInRenewal \/ \A c \in Conns : conn[c] # "renewing"

\* applyTier
GoOffline ==
    /\ online /\ MayStop
    /\ Turn
    /\ online' = FALSE
    /\ StopPoll
    /\ conn' = Stopped /\ ctrl' = NoConn /\ retry' = FALSE
    /\ owed' = FALSE
    /\ UNCHANGED <<feed, cur, shown, poll, pollAgain, tap, hidden>>

GoOnline ==
    /\ ~online
    /\ online' = TRUE
    /\ cur' = cur
    /\ IF cur # NotFollowing THEN StartPoll ELSE UNCHANGED ticking
    /\ Opening(ctrl, conn)
    /\ UNCHANGED <<feed, shown, pollStatus, poll, pollAgain, tap, owed, retry, hidden, bounds>>

Hide ==
    /\ ~hidden
    /\ Turn
    /\ hidden' = TRUE /\ owed' = FALSE
    /\ UNCHANGED <<feed, cur, shown, pollStatus, ticking, poll, pollAgain, tap, stream, online>>

\* Coming back does not wait out the interval.
Unhide ==
    /\ hidden
    /\ hidden' = FALSE
    /\ IF ticking /\ online /\ cur # NotFollowing /\ poll = NoRead
       THEN poll' = [NoRead EXCEPT !.pc = "sent", !.of = cur] /\ UNCHANGED pollAgain
       ELSE poll' = poll /\ pollAgain' = (pollAgain \/ (ticking /\ online /\ cur # NotFollowing))
    /\ UNCHANGED <<feed, cur, shown, pollStatus, ticking, tap, owed, stream, online, bounds>>

\* Variant: a page restored from the back/forward cache has neither stream nor poll.
BackForwardDead ==
    /\ MayStop
    /\ Turn
    /\ StopPoll
    /\ conn' = Stopped /\ ctrl' = NoConn /\ retry' = FALSE
    /\ UNCHANGED <<feed, cur, shown, poll, pollAgain, tap, owed, online, hidden>>

\* pagehide stops both, pageshow starts both.
BackForward ==
    /\ MayStop
    /\ Turn
    /\ UNCHANGED <<online, cur>>
    /\ StartPoll /\ pollStatus' = Unknown
    /\ retry' = FALSE
    /\ Opening(NoConn, Stopped)
    /\ UNCHANGED <<feed, shown, poll, pollAgain, tap, owed, hidden>>

PollStep == Tick \/ PollReads \/ PollBack
TapStep == \E t \in Taps : TapReads(t) \/ TapBack(t)

StreamStep ==
    \/ StreamRetry \/ Renewed
    \/ \E c \in Conns :
         \/ StreamOpens(c) \/ StreamExpired(c) \/ StreamRenewed(c) \/ StreamEnds(c) \/ Drop(c)
         \/ \E b \in Followed : Frame(c, b)

Surroundings ==
    \/ \E b \in Followed : Move(b) \/ \E t \in Taps : OpenBooking(t, b)
    \/ PollFails \/ TokenAges
    \/ \E t \in Taps : TapFails(t)
    \/ \E c \in Conns : StreamBreaks(c)
    \/ GoOffline \/ GoOnline \/ Hide \/ Unhide \/ BackForward

LiveNext == PollStep \/ TapStep \/ StreamStep \/ Surroundings

\* The poll's timer fires and its requests are answered in the end, and so are the
\* reads of taps.  The stream owes nothing; what the customer, the signal and the
\* faults do is bounded, and nobody is assumed to do it.
LiveFairness == WF_liveVars(PollStep) /\ WF_liveVars(TapStep)

LiveSpec == LiveInit /\ [][LiveNext]_liveVars /\ LiveFairness

-----------------------------------------------------------------------------
(* Properties *)

\* The screen catches up: a customer who keeps looking, with signal, in the end
\* sees the booking they opened as the server has it, though streams break, events
\* are lost, answers overtake each other, the tab was hidden or restored (app.html:
\* "the poll remains the thing that is actually correct").
ScreenCatchesUp ==
    <>[](cur # NotFollowing /\ online /\ ~hidden)
        => <>[](cur # NotFollowing /\ shown = [of |-> cur, status |-> st[cur]])

\* A page holds one stream: none is open that its controller does not own, so none
\* is left that nothing can abort and that takes one of the account's places
\* (app.html: "only tear down the stream this call actually owns").
OneStream == \A c \in Conns : conn[c] \in {"fetching", "reading"} => c = ctrl

\* An event heard is followed by a read of the server: the one on its way has not
\* read yet, or another will follow it (app.html: "so the request is honoured
\* instead of dropped").
NudgeHonoured == owed => poll.pc = "sent" \/ pollAgain

\* Both of the above: the page is fed by one stream, and acts on what it hears.
PageStaysFed == OneStream /\ NudgeHonoured
=============================================================================
