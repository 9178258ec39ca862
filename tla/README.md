# RoadAssist Bharat: a TLA+ verification project

RoadAssist Bharat is a roadside-assistance platform: a citizen books a mechanic,
pays for the job, raises an SOS when things are worse than a breakdown, and
road-watching edge devices (RAKSHA) report hazards.  One Node server
(`src/app/apps/api/src`) over one Postgres database serves a web client
(`src/app/apps/web`), an Android app (`src/mobile`), SMS, Telegram and the
devices.  What the platform knows is in Postgres rows; the server keeps a little
memory of its own (the sweeper's due time, rate windows, open streams, the tail of
the audit chain), which a restart forgets.  The clients keep what the network has
not taken yet: an IndexedDB journal, two queues, a draft, a session.

The difficulty of this code is in what overlaps.  Handlers are sequences of
autocommitted statements and short transactions with `await` between them, and rely
on compare-and-swap updates, row locks, advisory locks and unique indexes to be
right under any interleaving.  The clients are single-threaded, but every `await`
lets a tap, a timer, a second tab or a dead network in, and the Android app has
coroutines and binder threads besides.  That is what is modelled: **one action per
statement, transaction or await-free stretch another actor can be ordered against**,
with the locks it holds meanwhile.

Contents: 1 the system, 2 modules, 3 runs and bounds, 4 proofs, 5 abstractions,
6 where the code and its comments disagree, 7 not modelled, 8 plan.

## 1. The system, part by part

| Part (code) | State | Operations | What is hard | What makes it right |
|---|---|---|---|---|
| Booking state machine (`domain/booking-machine.ts`, `provider-state.ts`) | `bookings.status` | 15 commands in a table | nothing by itself | every other part moves along the table |
| Booking intake (`POST /v1/bookings`; `BookingDraft.kt`) | `idempotency_keys`, `bookings`; the phone's draft | tap, retry, reserve, replay, commit | the answer is lost, the tap repeated while the first request is open | one booking per draft |
| Dispatch (`dispatch.ts`, dispatch/decline/accept/transition routes of `server.ts`, duty toggle of `routes/mechanic.ts`) | bookings, `dispatch_offers`, `mechanics`; memory: `sweepDueAt`, escalations under way | search, wave, escalate, decline, accept, transition, sweep | two accepts of one mechanic, decline against accept, escalations racing each other and the route, cancel against a wave, a sweeper that sleeps until a remembered time | one job per mechanic; offers agree with the assignment; one wave at a time; a search does not stall |
| Payments (`routes/payments.ts`, `providers.ts`) | bookings, `invoices`, `payments`; the gateway's own orders | pay, confirm, webhook | three ways to settle one invoice, webhooks repeated and reordered, a crash between two transactions | settled once, for captured money; every capture accounted for |
| Reviews (`POST .../review`, `domain/ai-rules.ts`) | `reviews`, `mechanics.rating`, `rating_baseline` | review | ratings recomputed by concurrent requests from what they read | the rating can be recomputed from the reviews and the baseline |
| Emergency (`routes/emergency.ts`, `domain/incident-machine.ts`) | `incidents`, `incident_responses`; memory: rate windows | raise, confirm, cancel, resolve, escalate by SMS | a confirm is a claim, a loop of texts and a record; cancels race it; claimers die | family told, once; a closed emergency stays closed |
| SMS line (`routes/telecom.ts`) | users, vehicles, bookings, incidents of a number | register, SOS, CANCEL, HELP | texts delivered again, and over a booking that the app moves | a text acts once unless its handling was cut off; a cancel is never blind |
| Contacts and Telegram (`server.ts`, `routes/telegram.ts`) | `emergency_contacts`, link codes | add, remove, invite, /start, /stop | counting before inserting; two flows lock the same rows in opposite order | the cap holds; a link works once and only the last invitation's |
| Off-grid SOS (`offline-store.js`, `app.html`, `/v1/sos/offline-sync`) | IndexedDB stores `incidents` and `journal`; sync loops of each tab; `incidents.client_incident_id` | create, revise, discard, cancel request, sync, escalate | the sheet edits what a loop is sending, answers are lost, tabs closed, two tabs | nothing stored is lost; a stand-down is never followed by an alert; all is dealt with in the end |
| Web queue and sync journal (`app.html`, `POST /v1/sync/ops`) | `state.queue` and its copy in localStorage | enqueue, journal, replay | two triggers, sign-out or reload in mid-flight | an operation is applied once, for the person who asked |
| Android SOS (`Emergency.kt`, `SosQueue.kt`, `SosReplay.kt`) | the queue on the phone, the set of dead references, the trigger's flags | ladder, queue, poke, replay | replays write back a list that has grown meanwhile; the account changes; a poke lands as the loop ends | no entry erased or told to the wrong account; whatever is queued is looked after |
| Live page (`app.html`, `realtime.ts`) | what is on screen; polls, stream, timers | open, poll, tap, stream, renew, hide | answers overtake each other; a stream outlives who holds it | the screen catches up |
| Connectivity (`connectivity.js`, `offline-engine.js`) | tier, failure count, last reading, timer | browser events, probe, outcome of requests | a probe that straddles a change | the tier follows a network that stays |
| Sessions (`auth.ts`, `routes/auth.ts`, `routes/account.ts`, `realtime.ts`) | `sessions`, `users.deleted_at`; memory: streams | sign in, refresh, reuse burn, sign out, delete account, stream | refresh tokens presented twice, sign-out or deletion while a rotation is under way | one live session per family; ended means ended |
| Session of the phone (`Api.kt`, `Session.kt`, `SessionStore.kt`) | tokens in memory and on disk | refresh, sign in, sign out, verify at launch | several callers meet a 401 at once; the process dies between the exchange and the disk | a sign-out sticks; the phone does not burn its own family |
| Sign-in codes (`auth.ts`, `routes/auth.ts`, `routes/email-auth.ts`) | `otp_challenges` | request, verify | simultaneous requests and guesses | limits hold; a code is used once |
| Google sign-in (`routes/google-auth.ts`, `domain/google-signin.ts`, unlink of `routes/account.ts`) | `users.google_sub`, `users.msisdn`, nonces | sign in, link and move, unlink, attach phone, delete | decisions taken on facts read before | every account keeps a door; only empty accounts are merged |
| RAKSHA (`raksha.ts`) | `raksha_detections`, `incidents`, `incident_signals` | ingest, citizen report, verify, reject, close, dismiss | batches resent and overlapping, reviewers racing each other and the intake | a sighting counts once; verdicts and confirmations stand |
| Scanner page (`scan.js`) | source, camera, ticket `S.gen`, engine queue; held report | start, stop, sample, pass, engine, hide; report | starts and passes that end after the source was changed | no camera left on, boxes of the frame on screen, the scan goes on; "Sent" means filed |
| Audit chain (`audit.ts`) | `audit_log` hash chain; memory: last stamp, checkpoint | append, verify | restarts, clock steps, rows changed under the checkpoint | the verification tells the truth |
| The rest (geo, tiles, i18n, impact, AI rules, detectors, layout) | none of their own | reads | - | out of scope, see 7 |

How they interact: intake, dispatch, settlement, SMS and cancel all write
`bookings`, each by compare-and-swap along one table; escalation by SMS, by the app,
by the off-grid journal and by the phone's queue meet in the incident row and its
claim; RAKSHA incidents enter the emergency path when an admin confirms them; the
tier starts and stops the page's polls and sends what is stored; a deletion closes the
account that sessions, bookings, SOS and Google identities reference; every sign-in
ends in `startSession`.  The modules share these interfaces through `BookingMachine`,
`IncidentMachine` and `RefreshTokens`; where one component's model needs another's
rule (`SmsLine` needs the app to move bookings, `OffGrid` and `PhoneSos` need the
server's confirm and cancel), that rule is an action of the module that needs it, mapped
to the same lines.

`PROJECT.json` lists every component with its status, and the hazards line by line.

## 2. Modules

| Module | Models | EXTENDS / INSTANCE |
|---|---|---|
| `BookingMachine` | the transition table, `Committed`, `Terminal` | - |
| `Allocation` | abstract specification: bookings follow the table and get a free mechanic once | BookingMachine |
| `Dispatch` | ladder, offers, accept race, sweeper | BookingMachine; INSTANCE Allocation WITH |
| `Settlement` | payments | BookingMachine |
| `BookingIntake`, `Reviews`, `AuditChain`, `ContactLinks` | intake, ratings, audit log, contacts | - |
| `IncidentMachine`, `Emergency` | incident table; raise, confirm, cancel, resolve | - |
| `LiveView`, `Connectivity` | the page that follows a booking; the tier | - |
| `OffGrid` | the browser's journal with its upload | - |
| `PhoneSos`, `WebQueue` | the two queues of changes and emergencies | Filter |
| `Filter` | a queue without some of its entries | - |
| `SmsLine` | texts of one number | BookingMachine |
| `Session` | refresh families, sign-out, deletion, streams | - |
| `OtpSignIn`, `GoogleSignIn` | codes and guesses; identities | - |
| `RefreshTokens`, `PhoneSession` | the server as a phone sees it; the phone's session | - |
| `Raksha`, `Scanner`, `ScanReport` | the road's record, the page that scans, the report it sends | IncidentMachine |
| `DispatchProofs` | theorems about Dispatch | Dispatch |
| `SettlementProofs` | theorems about what the server keeps of a booking and a person | Settlement, BookingIntake, ContactLinks, Reviews, AuditChain |
| `EmergencyProofs` | theorems about the emergency and the page | Emergency, LiveView |
| `OffGridProofs` | theorems about the browser's journal | OffGrid |
| `PhoneSosProofs` | theorems about both queues and the text line | PhoneSos, WebQueue, SmsLine |
| `SessionProofs` | theorems about the server's sessions | Session |
| `SignInProofs` | theorems about both ways in and the phone's session | GoogleSignIn, OtpSignIn, PhoneSession |
| `RakshaProofs` | theorems about the road's record and the scanner | Raksha, Scanner, ScanReport |
| `MC*` | instances for TLC: model values, symmetry, the composition of parts | the modules |

Every model names its bounds as constants.  Operators marked `\* variant` are
mutated forms of the definition that follows them: nothing uses them, except that
each property is known to fail when its variant replaces the original
(`mutants` in `PROJECT.json`).

**Dispatch.**  `status`, `mechanic`, `offer`, `onDuty`, `jobs`, `plan` are columns
(`plan` is the radius and wave size that the search's `booking_events` row
recorded, which `escalate` reads back).  An offer reads `OVERDUE` when its row says
`SENT` and `expires_at` has passed.  A search or escalation goes
`read -> found -> sent -> commit` under advisory lock (6, booking): `RouteRead`,
`RouteClaim` (the compare-and-swap), `FindWave` (`findCandidates`), `SendWave` (the
insert, which also calls `noteOfferExpiry` before the commit), `LadderCommit`.  An
accept locks its booking (`AcceptLock`, all checks), then its mechanic
(`AcceptBusy`, `AcceptWrite`), then commits; an accept that waits for offers which
another accept has written is `WaitsFor`, and a circle of those is resolved as
Postgres does (`AcceptVictim`).  The memory of the process is `owed` (calls to
`escalate` not yet made), `noted` and `dueNow` (`sweepDueAt`: past, the earliest
of `noted`, or Infinity) and `sweeping`.  `Restart` rolls transactions back and
forgets the memory; `EscalateFails` is a rolled-back escalation.

**Settlement.**  A payment attempt `p` is a `payments` row; `gateway` state is what
the payment provider knows (`captured`, `acked`).  `PayRead/PayDirect/PayCheckout`
are POST `/pay`, `ConfirmVerify/ConfirmRecord/ConfirmSettle` the browser's
confirmation in its two transactions, `Hook...` the webhook, `RecordSettled` the
`payment.settled` command of the transition route (which requires a settled row).
`IndexAllows` is `payments_invoice_settled_uq`.

**BookingIntake.**  `Tap` mints or keeps the key of the draft and sends a request;
`Replay` answers from a committed key, `Reserve` takes it in the transaction that
`Commit` ends or `Rollback` undoes (a second request of the key waits for either).
`StopsWaiting` is the tab left: the request lives on.

**Reviews.**  `ReviewLock` locks the mechanic's row; `ReviewCommit` inserts, decides
the baseline (`RatingBaseline`) and writes the rating, kept as what it is computed
from (prior, sum, count) so that rounding is not modelled and nothing is compared that
rounding could hide.

**AuditChain.**  `log` is read in the order (created_at, id), `id` being chosen
freely.  `ReadTip` and `Insert` are the two statements of an append, `Stamp` the
strictly increasing clock kept in memory, `Walk` the re-hashing of either kind of
verification and `VerifyChain` its checkpoint.  `ChangeRow`, `RemoveRow` and
`RulesChange` are what the owner of the database can do and the verification exists
to find.

**ContactLinks.**  An addition holds the account's advisory lock from `AddRead` to
`AddInsert`.  An invitation goes lock contact, withdraw codes, insert
(`InviteLock/Withdraw/Insert`), a /start claims the code and then locks the contact
(`StartClaim/StartLink`); when each waits for the other (`Crossed`) one of them is
aborted.

**Emergency.**  `req[r]` is a confirm, or the webhook of an SOS text.  `Claim` is
the update into RESPONDING; `Text`, `TextFails`, `RecordContacts` the loop and the
`contacts` row; `Abandoned`, `Retake` the two-minute lease; `Withheld` the alert
ceiling; `Cancel...` the cancel's five rounds of compare-and-swap.  What reaches the
owner's `screen` are `PublishClosed` and the two halves of a confirm's end: `Reread`, the
awaited select of the status, and `Answer`, which publishes what was read (`seen`).  An
emergency whose end is published between the two is remembered as `overtaken`.

**SmsLine.**  `verb[t]` is what a text asks.  `Deliver` starts a handling, which goes
`FindAccount`, `Register`/`Grant`, then `RaiseSos`, `ClaimSos`, `Escalated`, or
`CancelRead`, `CancelWrite` (with its comparison of status and version) and
`ReadAgain`, or `HelpFind`, `AddVehicle`, `LinkVehicle`, `OpenRead`, `Book`.
`ReplyOrThrow` is the answer; a handling that is cut off is delivered again.  `AppBooks`,
`AppMoves`, `AppStandsDown` are everybody else.

**LiveView.**  An event on the stream is a nudge to read.  `poll` is the one poll
with its flag `pollAgain`; `Tick` its timer; `tap[t]` a read that a tap started.
`ctrl` is the controller the page holds, `conn[c]` the calls of `streamOpen` under
way, each of which ends in `Finally` - the clean-up, which touches only what its call
still owns.  `fed` is what the server thinks it feeds.

**Connectivity.**  Each of the browser's events, the probe's going out and coming
back, the timer, and each request of the app with its outcome is an action; all of them
settle in `Classify`, which is `classifyConnectivity` branch by branch.

**OffGrid.**  `row` and `job` are the two IndexedDB stores; every transaction is one
action.  A sync loop goes read due, mark SYNCING, send, look for a stand-down, mark
synced, alert (`ReadDue, MarkSyncing, Send, Look, Synced, Alert, Finish`), for each
of its entries and in each page.  `ReviseRead/ReviseWrite` and
`AbortRead ... AbortRequest` are the sheet's tap handlers.  `wire` is an upload awaited,
`strays` those whose sender gave up or died.  `told` is what the sheet last said.

**PhoneSos, WebQueue.**  `ladder` is the SOS being raised; `Queue` puts it away;
`running`, `again`, `retry` are `ReplayTrigger`'s flags, read and written one by one
because pokes come from several threads; `job[j]` is a replay, which works on the
snapshot it took (`Pass`) and then writes back `Remaining`.  In `WebQueue` a flush takes
its batch out of both copies (`Taken`), journals it, replays entry by entry and puts
back what got no answer.

**Session.**  `reason[s]` is `revoked_reason` ("live" for null).  A rotation claims
(`RotateClaim`, holding the family lock and the row) and commits (`RotateCommit`);
`BurnStart/BurnEnd` is `burnFamily`, whose statement sees only what was committed
when it began; `SignOutCommit` takes the family lock; `DeleteLock/Erase` hold the
users row.  `Accepted(s)` is `authenticate`.

**PhoneSession.**  `mem` and `gen` are the token and the generation, `disk` the copy in
`SessionStore` as the process sees it and `file` what of it is written: the edit of the
preferences is an `apply()`, so `Flush` follows at any later time and a death before it
loses the edit.  A refresh reads what was presented and the generation, takes the lock,
asks, adopts if the generation is still the same, and then persists outside
`sessionLock`, in two steps (`PersistRead`, `PersistWrite`), as a sign-in does
(`SignInPersistRead`, `SignInPersistWrite`).  A sign-in that stores a token the memory has
moved on from is remembered in `overwritten`.  `RefreshTokens` is the server reduced to what
a holder of tokens can tell: which is current, which is spent, which family is burnt.

**OtpSignIn, GoogleSignIn.**  `RequestLock/RequestInsert` is `claimOtpChallenge` under
its two advisory locks; `VerifyRead, Take, Compare, Consume, SignIn` the verification,
which is the same sequence in three routes.  With Google, every request reads accounts,
decides and writes later; the link's transaction, which locks its rows and rolls back as a
whole, is one action with the guards of its statements.

**Raksha.**  A sighting is its source key.  `ItemInsert, ItemLook, ItemCommit` is
one item's transaction: the unique key makes a second insert wait, the query looks
for an incident of the same hazard, and the rows become visible at the commit.  A
reject holds its detection from `RejectMark` (the guarded update and the query for
emptied incidents) to `RejectCommit`, a dismissal its incident from `DismissMark`
to `DismissCommit`; each then needs the other's row, so one of two may be aborted
(`OfficerAborted`).

**Scanner, ScanReport.**  Every async function is cut at its awaits.  `start[c]` and
`pass[k]` carry the ticket they were given, which is fresh until `stopAll` or a new
still takes it away; `jobs` is the queue of engine loads, `Upgraded` the second half of
one.  A report goes shrink, send, mark (`Shrunk, Filed/Refused/Unreachable, Mark`), over a
panel that may have been closed or reopened.

## 3. Runs

| Run | Parts and instance | Checks | Distinct states |
|---|---|---|---|
| `accept_race` | 2 bookings, 2 mechanics, waves of one, cancels, late accepts | OneJob, OffersMatchBooking, NeverReopened | 1.96 million |
| `job_lifecycle` | 2 bookings, 1 mechanic, all commands of all roles, one failing escalation or restart | JobsCountedOnce, Allocates (refinement) | 0.95 million |
| `ladder` | 1 booking, 3 mechanics, a narrow search and a wide one with waves of two, fairness | OneWaveAtATime, NoOrphanedSearch, SearchMovesOn | 0.3 million |
| `settlement` | *payments*: 1 invoice, 3 attempts, cash or checkout, one fault, fairness; *intake*: 2 phones, 2 drafts each, 2 requests, 3 keys; *reviews*: 6 reviews of 3 mechanics; *audit*: 3 entries, 4 ticks, 2 changes; *contacts*: 3 rows, 2 numbers, cap of one, two of each request | LedgerIsTrue, AckedIsAccountedFor, CaptureClosesInvoice, OneBookingPerDraft, RatingReproducible, VerifyTellsTruth, ContactsHold | 0.77 million |
| `emergency` | *emergency*: 1 emergency by app, model or SMS, 2 requests, 2 contacts, ceiling of one batch, 1 fault, fairness; *offgrid*: 1 emergency, 2 tabs, 1 edit, 1 mishap, one automatic retry of an upload and one of an alert, fairness; *page*: 2 bookings of 2 moves, 2 connections, 1 tap at a time, 1 place for a stream, 2 turns, 1 break; *tier*: all events and answers, OFFLINE after 3 failures | ScreenShowsClosed, TextedOnce, NoClaimOnClosed, FamilyIsTold, DeviceKeepsItsWord, EventuallyDealtWith, PageStaysFed, ScreenCatchesUp, TierFollowsNetwork | 0.45 million |
| `phone_sos` | *sos*: 2 SOS, 2 accounts, 2 replays, 1 switch, 1 fault; *queue*: 3 changes of 2 people, 3 sign-ins, 2 lost answers; *sms*: 2 texts in seven pairs of verbs, 2 bookings, 1 cut | QueueHolds, ReplayedOnce, TextsHold | 4.1 million |
| `token_family` | 4 sessions, 2 families, 2 requests, every kind | OneLivePerFamily, OwnersEndIsFinal, EndedStaysEnded, NoOpenWorkScrubbed | 1.1 million |
| `sign_in` | *otp*: 2 keys, 1 connection, 2 requests, 3 codes, limits of two; *google*: 3 accounts, 1 identity, 2 phones, 2 requests; *phone*: 3 tokens, 2 callers, 1 fault | CodesLimited, DoorsHold, MergesOnlyEmptyAccounts, SignOutSticks, NoFalseTheft | 5.5 million |
| `raksha` | *record*: 2 devices, 2 severe sightings of one hazard, 1 report, 2 officers, budget of one; *scanner*: 2 streams, 2 passes, 1 engine picked, 1 time hidden; *report*: 3 drafts | OneSignalPerSighting, RoadRecordStands, ScanFollowsSource, SentMeansFiled | 1.3 million |
| `lost_wakeup` | 1 booking, 2 mechanics | violates InfinityMeansNoOffer | - |
| `closed_door` | as `sign_in`, *google* alone | violates ClosedHasNoDoor | - |
| `standdown_overtaken` | as `emergency`, *emergency* alone, raised in the app, without faults | violates ClosedStaysClosedOnScreen | - |

*Parts.*  Components that share no variable are checked by one run: the variable
`part` of the MC module names the one that moves in a behaviour, and the others rest
in their initial states.  The states of a run are the sum over its parts, not their
product, and nothing is claimed about two of them moving together (there is nothing
to claim: they share no variable).  Resting components must not upset liveness: in
`emergency`, the one run with several fair components, fairness is owed to an action only
where its component moves (`AskedFairness`, which lists the fairness of each, so guarded).

*What the properties say* is in a comment before each of them.  Several are
conjunctions of named promises of one module (`LedgerIsTrue`, `DeviceKeepsItsWord`,
`TextsHold`, ...), stated separately above their conjunction.  Each module has a type
invariant (`TypeOK`, or prefixed as in `LiveTypeOK` where modules are composed).  The
runs leave them out, so that their properties are about behaviour; all of them hold on
the instances above, and all but those of AuditChain, Connectivity, Scanner and SmsLine are
proved.

*Why these bounds.*  A race in this code is between two requests over the rows of
one booking, incident, family, key or list, or between two such things over one shared
row (a mechanic, an alert budget, an identity).  Two bookings and two mechanics give every
shape of accept race, deadlock included; three mechanics give a wave after a wave of two.
Three payment attempts let a third door come late.  Four sessions are two families,
each rotated once, or one rotated three times.  Three tokens let a refresh hold one
that has been spent twice over.  Three entries are the fewest for which an audit row can be
changed between two others, with one under the checkpoint.  Three accounts with one
registered phone give every pair a link can meet: with and without a phone, made by the
link's own first sign-in or before it.  Limits are set to one or two so that they are reached,
the ceilings of retries included.  Fault budgets of one or two place a failure at every point
of every behaviour.  The page was also checked with three and four turns (1.6 million
states for itself), the phone with two switches of account and no fault (1.6 million) and with
one switch at any moment (6.5 million), with nothing new; the theorems of section 4 remove the bounds altogether
for the properties they cover.

*Symmetry* is used only in runs without liveness properties, and only over sets that the
specification treats alike.

*Deadlock checking is off* where the system may rightly stop: all bookings closed,
all payments made, no more requests, no more taps.

*Fairness.*  Dispatch: a handler that has begun runs on (weak fairness of each
statement); escalations are made (strong, since a lock may be taken between two
attempts - Postgres queues lock waiters, so a waiter is not passed over for ever);
`setInterval` fires and time passes.  Nobody is assumed to search, accept or
decline.  Settlement: the gateway redelivers until it is acknowledged, and a webhook
request runs on; nobody is assumed to pay or to confirm.  Emergency: requests run
on, the lease and the rate window end.  `SomebodyAsks` in addition assumes that the
owner, whose screen retries its confirm, keeps asking: it is an assumption about
people, not about the code, and FamilyIsTold is checked under it because without a
confirm there is no process of the server that would take an abandoned claim over.
LiveView: the page's own poll with its timer, and the read behind a tap, run on; nobody
is assumed to tap, the stream is assumed to do nothing at all, and the property asks for the
truth only of a page that stays in front and on line.  Connectivity: an answer, or the time
limit of the probe, comes, and a timer that is set fires.  OffGrid: a loop that is due begins
and runs on, timers fire, a tap handler that has begun ends; nobody is assumed to tap, and
failures are finitely many.  All other runs check safety and assume nothing.

*Switches* restrict what a run assumes; each is there because the property fails without
it, and section 6 says how:

| Switch | FALSE means |
|---|---|
| `LateAccepts` (`ladder`, with no failing escalation) | the last open offer is not closed by a late Accept |
| `SlowSends` (`emergency`) | a send loop is shorter than its lease |
| `SwitchInFlight` (page of `emergency`) | the booking followed is not changed while an answer is awaited |
| `FlapInRenewal` (page of `emergency`) | the stream is not stopped while its token is renewed |
| `SwitchInFlight` (sos of `phone_sos`) | the account does not change while its SOS is raised or replayed |
| `JoinInFlight` (queue of `phone_sos`) | nobody else signs in during a flush |
| `SlowEdits` (offgrid of `emergency`) | no sync loop gets between the two transactions of an edit |
| `Overlap` (record of `raksha`) | a device awaits an answer before it sends again |
| `LateImage` (scanner of `raksha`) | no other source is chosen while an image loads |
| `ClockSteps` (audit of `settlement`) | the clock does not step back across a restart |

## 4. What is proved

Every safety property that a passing run checks - invariant, action property or
refinement - is also a theorem, for every set of bookings, mechanics, payments, sessions,
emergencies, requests, queued entries and texts, and for every bound.  A run finds out
cheaply whether a formula holds; the theorem removes the instance.

| Module | Theorems | Statement |
|---|---|---|
| `DispatchProofs` | `TypeCorrect`, `AcceptRaceIsSafe`, `LocksAreKept` | `[]TypeOK`, the inductive invariant, what each lock buys |
| | `OneJobAlways`, `OffersAlwaysMatch`, `AnswersAreKept` | OneJob, OffersMatchBooking, NeverReopened |
| | `DispatchAllocates` | `Spec => Allocates`: Dispatch implements Allocation |
| | `OneWave` | OneWaveAtATime, given `ExhaustedByLadder` |
| | `NoSearchForgotten` | NoOrphanedSearch until something fails, given `SearchedByLadder` and `~LateAccepts` |
| | `JobsAlwaysCountedOnce` | JobsCountedOnce |
| `SettlementProofs` | `BooksInOrder`, `LedgerAlwaysTrue`, `AckedAlwaysAccountedFor` | the inductive invariant, LedgerIsTrue, AckedIsAccountedFor |
| | `IntakeTypes`, `BookedOnce` | OneBookingPerDraft |
| | `ContactsTypes`, `ContactsAlwaysHold` | ContactsHold |
| | `ReviewsTypes`, `RatingAlwaysReproducible` | RatingReproducible |
| | `VerificationTellsTruth` | VerifyTellsTruth, given `~ClockSteps` |
| `EmergencyProofs` | `EmergencyTypes`, `ClaimHeldOnce`, `RowTellsTruth` | one claimer given `~SlowSends`; what the `contacts` row means |
| | `FamilyTextedOnce`, `ScreenTellsClosed`, `ClaimsOnlyOpen` | TextedOnce given `~SlowSends`; ScreenShowsClosed, which excepts emergencies by SMS and overtaken ones; NoClaimOnClosed |
| | `LiveTypes`, `PageAlwaysFed` | PageStaysFed, given `~FlapInRenewal` |
| `OffGridProofs` | `OffGridTypes`, `NothingIsLost` | NothingLost |
| | `PromisesStand` | DeviceKeepsItsWord, given `~SlowEdits` |
| `PhoneSosProofs` | `PhoneSosTypes`, `NoSosIsForgotten` | NoneErased and QueueIsWatched, whatever is killed and whoever signs in |
| | `QueueAlwaysHolds` | QueueHolds, given `~SwitchInFlight` |
| | `QueueTypes`, `NoChangeIsLost`, `ChangesAreReplayedOnce` | KeptOrAnswered; ReplayedOnce given `~JoinInFlight` |
| | `TextsAlwaysHold` | TextsHold |
| `SessionProofs` | `SessionsInOrder`, `SessionTypes` | the inductive invariant, TypeOK |
| | `OneLiveAlways`, `OwnersEndAlwaysFinal`, `EndedForGood`, `NothingOpenScrubbed` | OneLivePerFamily, OwnersEndIsFinal, EndedStaysEnded, NoOpenWorkScrubbed |
| `SignInProofs` | `GoogleTypes`, `DoorsAlwaysHold`, `MergesOnlyEmpty` | DoorsHold, MergesOnlyEmptyAccounts |
| | `OtpTypes`, `CodesStayLimited` | CodesLimited |
| | `PhoneTypes`, `SignOutAlwaysSticks`, `NeverFalseTheft` | SignOutSticks; NoFalseTheft, which excepts lost answers, deaths before what is written has followed the memory, and overtaken sign-ins |
| `RakshaProofs` | `RakshaTypes`, `SightingCountsOnce`, `VerdictsStand` | OneSignalPerSighting; no step takes a verdict back |
| | `RoadRecordAlwaysStands` | RoadRecordStands, given `~Overlap` |
| | `NoLightLeftOn`, `ScanAlwaysFollows` | no camera left on; ScanFollowsSource given `~LateImage` |
| | `ReportTypes`, `SentIsFiled` | SentMeansFiled |

*Assumptions.*  Those the modules name (`DispatchAssumption` ... `AuditAssumption`): the
types of the constants, values such as `Nobody` or `NoRow` not being members of the sets they
stand outside of, and finiteness where something is counted (bookings, mechanics, sessions,
reviewers, the contacts of one owner).  TLC evaluates them on every run whose
module extends theirs.

*Hypotheses.*  A theorem with a switch holds where the run that checks its property puts the
switch; section 3 says what each means and section 6 how the property fails without it.  What is
proved without the switch is stated separately, so that the hypothesis covers no more than it
must: a light left on, an SOS erased, an entry of the journal lost or a verdict taken back cannot
happen even with it.  Three hypotheses are about commands of the transition route, which
changes a booking's status and asks nobody.  `ExhaustedByLadder`: an administrator does not send
`offers.exhausted` (server.ts:1306), which would declare a search over while offers are live.
`SearchedByLadder`: nobody sends `retry.widen`, and no administrator `dispatch.start`, by that route:
"Widen and retry" of the app sends the first and then asks for the search in a second request
(server.ts:944-951), and in between - for good, if the second request is lost - the booking is
MATCHING with nothing owed.  `faults = 0`, in the conclusion: no escalation has failed and no
process died yet.

*Dispatch.*  OneJob alone is not inductive: an accept that has checked its mechanic
has not yet written.  `LockDiscipline` says what each lock buys - while an accept
decides, its booking is MATCHING and unassigned and no wave is being sent for it;
once it has written, its mechanic is on no other job and no other accept has them; a
wave being sent names nobody who was asked before - and with the two parts of
OffersMatchBooking it is inductive (`Safe`).  The refinement maps `status` and
`mechanic` to themselves: `AcceptCommit` is Assign, `LadderCommit` is Search, every
transition is Do, all else stutters.  On `Safe` rest the counts: whoever holds the ladder's
lock finds no live offer and brings no more than a wave (`WavesKept`), and a finished job is a
booking that its mechanic keeps.

*Settlement.*  The strengthening is `KnowledgeHolds`: what a request has learnt
(that money was captured, that its record is in place) still holds when it acts.

*Intake, contacts.*  A key and a draft determine each other (`OneUse`), nothing is done under a
draft to come, and a key's row says which booking it stored.  Whoever holds the account's lock has
seen all who are listed; whoever holds a contact's row withdraws every live code of it but its own.

*Reviews.*  A rating is a sum over a set in no particular order.  `Total` is proved not to depend
on the order (`SumTakesAny`), hence to grow by one review's stars when that review comes in; a
request that holds the mechanic's row has read what is still there (`RowHeld`).

*Audit chain.*  Four facts keep each other: stamps only rise (`StampsRise`: this is where
`~ClockSteps` is used), every row has its own, a row chains from the row that was last when it was
written and nothing comes between (`Linked`), and a hash is of what was written.  From them a row
that was changed, or whose predecessor was deleted, can be pointed at by no walk (`Broken`,
`WalkStops`), and one harmed before the last full walk lies after the checkpoint (`HarmShows`).

*Emergency.*  A claim belongs to one request from `Claim` to the lease's end, and only RESPONDING
rows have one; who is still to be texted, who was texted and whose claimer died add up
(`TextsCounted`).  What a request is about to answer is closed if the incident is, unless the end
is still to be published or came in between (`overtaken`): so once all have answered, the page of
an emergency that was not overtaken shows the end.  On the page, a controller and the call that
feeds it name each other (`Owned`), and an event that is heard leaves a read owed, under way, or a later one (`NudgeHonoured`).

*OffGrid.*  What an emergency is worth is spread over two stores, the loops of the tabs and the
server.  An entry leaves the journal only for one that the server has (`OnServer`); a false alarm
stands because nothing is escalated that the device has not named to the server first (`NamedFirst`).

*Queues.*  An entry is in the store, in the hands of the pass that works on it, or answered.  For
the phone: one replay runs at a time, and if there is something to do, a job, a retry, an `again` or a
poke in progress is going to do it (`Watched`).  For the browser: a change is in one place, a
flush is its owner's, and what has been answered is nowhere (`WebKept`).

*Text line.*  Bookings and SOS made for a text are at most its handlings that were cut off, plus
one if the one under way has got that far (`ActsCounted`); what a CANCEL saw is current unless the
version has moved (`CancelSees`).

*Sessions.*  A token claimed by a rotation is still live and alone in its family, and a
family with a row ended by its owner has nothing live and nothing accepted.  While a deletion holds
the users row there is no open work (`ErasedWithoutWork`): it was counted under the lock that new work
waits for.  On the phone: a token adopted is of the generation that asked for it
(`SameGeneration`), and memory and disk hold good tokens or are about to be overwritten
(`MemGood`, `DiskGood`), where good is live, ended, or of a family that a lost answer or an overtaken
sign-in accounts for; a caller asks only with one (`AskedGood`, `DiskAsked`), and a death with
the file behind accounts for its family (`Behind`).

*Signing in.*  For codes: a consumed code has one holder (`RedeemedOnce`), attempts taken bound
the comparisons (`GuessesTaken`), and the challenges of a key and of a connection were counted under
both locks.  For Google: every request knows by its program counter what it holds, and a link
re-checks under its locks what it decided on.

*Raksha and the scanner.*  `RoadKept` says in whose hands a sighting is and what the incident it
is matched to has counted; a device that awaits its answer finds the incident its hazard already
has (`HazardSeen`).  One start holds the ticket, no camera is on while it asks for one, and a
pass that is fresh is of the source on screen.

*How induction over data is avoided.*  The theorems of the library that do induction take an
operator as a parameter, which the installed provers cannot instantiate.  Well-founded minima do not:
`LeastIsThere` (every set of numbers has a least one) gives `ByCounting` (a set that contains 0 and,
with n, n + 1 contains every number), and with sets in place of operators that is induction enough
for sums over finite sets (`Total`) and for filtered queues.  For the same reason the queues
use `Filtered`, a function on a queue's prefixes with a set for the test, and not `SelectSeq`, whose
test is an operator.

*Only model-checked:* liveness - SearchMovesOn, CaptureClosesInvoice, FamilyIsTold,
ScreenCatchesUp, TierFollowsNetwork, EventuallyDealtWith - since liveness under fairness is beyond
the proof system; and that `AuditTypeOK`, `NetTypeOK`, `ScanTypeOK` and `SmsTypeOK` hold, of which
`AuditTyped`, `ScanTyped` and `SmsTyped` prove what the theorems above need.

## 5. Abstractions

- A booking's `version` column is a flag in Dispatch: a search that has read the booking
  finds it "changed" (SmsLine counts it).  One sweep runs at a time, where the
  code lets a slow one overlap the next tick (`dispatch.ts:544-556`); its multi-row update is
  one step.  `escalate` takes `now()` when its statement runs.
- Ranking, distance and arrival times are left out: any `waveSize` of the candidates
  may be asked.
- Settlement: the webhook secret is configured and signatures are checked; an amount
  equals its invoice.
- BookingIntake: keys are random, so that two phones never mint one; the body that a key was
  first sent with is not compared with a later one's, as in the code.
- Emergency: the responder search is left out; the rate window is a counter that may end at any time.
- SmsLine: one number; STATUS and LANG change nothing the other verbs read, and STOP and
  START only the consent; a text's wording is its verb.
- LiveView: a booking's status is how many moves it has made; a token either works or does
  not; drawing is what is shown last.
- Connectivity: of a probe's delay only whether it was slow.
- OffGrid: a payload is its type; the store's encryption is left out; `reviseIncident` has a
  branch for a pending false alarm that the sheet, which closes with it, never takes.  The
  server's `rejected` answer to an item that is not well formed (`emergency.ts:717-725`,
  `822-825`; `app.html:4109-4112`) is left out: the page builds well-formed ones.
- PhoneSos: the SMS rungs of the ladder are what is left when no request got through; a
  request uses the session of its moment.  The stored queue is written at once, where
  `prefs.edit` is an asynchronous `apply()` (`Emergency.kt:370`): what a death within those
  moments loses is not seen.
- WebQueue: the journal's rows and conflicts, which nothing in the replay reads, are left out.
  One page is modelled.  The stored copy is a localStorage entry that the tabs share and each
  overwrites with its own list (`app.html:881`, `1060-1068`); two tabs that hold one change and both
  replay it, or erase one another's, are outside the model.
- Session: one account; the access token is issued with the row, so "young" stands for
  both; refusals of a deletion other than open work only restrict it; the 30-day
  expiry of refresh tokens is left out (it only disables).
- PhoneSession: a sign-in is stored by the main thread; the server
  is `RefreshTokens`, without its races among requests (those are Session's).
- OtpSignIn: which numbers may use codes at all is left out; the right guess is a
  nondeterministic choice.
- GoogleSignIn: tokens are verified; a nonce is a row that is issued, spent or expired.
- Raksha: an item is identified by its source key, of which an op id is one case; places
  are spots more than 200 m apart; the mark and the query of a reject are one step; the
  pool of incidents bounds how many are raised.
- Scanner: boxes are "of what they were computed from"; a photo or a video that is opened goes
  the way of a sample and of the camera and is left out; an engine may start the camera while
  the page is hidden, as in the code.
- AuditChain: a hash is what it was computed from, so that no two things collide.

## 6. Where code and comments disagree

Found while modelling.  Three are runs (`findings`): `lost_wakeup`, `closed_door` and
`standdown_overtaken`; the others are reachable in
the models named, most of them behind a switch of section 3.

*Dispatch and payments*

- `dispatch.ts:248`: `noteOfferExpiry` runs before its wave commits, so a sweep in
  between sets the due time to Infinity with offers SENT (`lost_wakeup`).
- `server.ts:1219`: a decline or an expiry that lands between accept's re-read of the
  offer and its update is overwritten by ACCEPTED; 1086-1087 says it must not be.
- `server.ts:1185`: a late Accept closes the last offer and does not escalate, and the
  sweeper only reads SENT rows; `server.ts:1270`: a failed escalation after a withdrawal
  is left to that same sweeper.  Both leave a search MATCHING until the customer retries.
- `payments.ts:168`: "already settled" is decided from the booking's status, so between
  the two transactions of a confirmation another checkout may be handed out.

*Accounts and sessions*

- `google-auth.ts:468`: a phone is attached to an account that a link or a deletion has
  closed meanwhile, and a code then enters the closed row (`closed_door`).
- `google-auth.ts:175`: a link overwrites a Google identity that was linked to the same
  account between its reading and its write.  A sign-in that has decided to enter an account
  gets its session even if a link has just moved the identity away.
- `auth.ts:188`: the burn does not take the family lock, and misses the successor of a
  rotation in progress; 187 says it ends the family.
- `auth.ts:96`: a sign-in that waits for a deletion starts a live session of the deleted
  account; a late sign-out relabels deleted sessions.  `server.ts:364`: a stream
  subscribed after a sign-out stays until its token expires.
- `Api.kt:361-364`: `persist` reads the token and stores it in two steps outside every lock.  A
  sign-in reads t1, another thread meets a 401, refreshes t1 to t2 and stores t2, and the sign-in
  then stores t1.  The process dies, the next one is launched with t1 from the disk, presents it and
  its family is burnt, though no answer was lost and nothing was left unwritten: "sending it is
  precisely the reuse this lock exists to prevent" (462-464).  NoFalseTheft excepts these families
  (`overwritten`); without the exception TLC finds this behaviour, 18 states long, with one ended
  process.
- `Api.kt` persists outside `sessionLock`, so a write to disk that had begun may land
  after a sign-out's wipe. At launch a 5xx on the refresh leaves the check with the 401
  it had met, which signs the user out (`MainActivity.kt:549`), where
  `Session.kt:153-155` says that a 5xx keeps the session; and the check clears whatever
  session there is by then. `Rejected` is followed by a clear that does not look again.
- `app.html:955-981`: two tabs refresh with one cookie, and the second burns the family; a
  refresh that returns after a sign-out in the page is adopted.

*Emergencies*

- `emergency.ts:607`: a confirm reads the status and publishes it, with an `await` between.  A
  stand-down that commits and publishes CANCELLED there is followed by RESPONDING, and the screen
  shows a closed emergency as open, which 600-605 says the re-read prevents
  (`standdown_overtaken`).  ScreenShowsClosed therefore speaks of emergencies that were not
  overtaken so: for those the re-read does what it is there for, which is to cover the whole send loop.
- `telecom.ts:200`: `escalateSmsSos` publishes RESPONDING without the re-read that
  `confirm` makes, after a stand-down has published CANCELLED; an emergency raised by SMS
  is then shown open after it was closed, and ScreenShowsClosed excepts it too.
- `emergency.ts:480`: nothing keeps a send loop shorter than the lease (`SlowSends`).
- `telecom.ts:407` logs that a failed SMS escalation "stands CONFIRMED"; it is
  RESPONDING if the failure came after the claim.
- `offline-store.js:509-511` promises that past the ceiling "Sync now" still sends an entry;
  it asks `dueEntries` for what is due by the clock (424), which an entry due at Infinity
  never is.  `app.html:4190-4192` promises an alert that is retried "until it lands or the incident
  is closed"; it stops after eight times.
- `offline-store.js:312`: an edit checks in one transaction and writes in another.  A loop in
  between sends and alerts the old type, and the record then stored anew has no server name:
  a false alarm is only promised for later, with the family already told (`SlowEdits`).
- `Emergency.kt`, `SosReplay.kt`: a request uses the session of its moment, so an account that is
  changed while its SOS is being raised or replayed puts it on the other account's record
  (`SwitchInFlight`).

*By text*

- Two HELP texts handled at once open two bookings; CANCEL and HELP look at the latest
  booking only and may answer "nothing to cancel" over an older open one (`i18n.ts:143`).
- `telecom.ts:525-529`: a crash between inserting the vehicle and linking it leaves a row whose
  registration number is taken: every later HELP with a vehicle class fails with 500.
- A STOP delivered again after a START ends the consent again.

*The web page*

- `app.html:1491`, `2809`: an answer is drawn without asking whether its booking is still the
  one followed, and when the opening read fails the poll compares with the old booking's status
  and never draws: the page shows another booking for good, against "the poll remains the thing
  that is actually correct" (1299) (`SwitchInFlight`).
- `app.html:1334`: a stream stopped while its token is renewed is opened again by the renewal,
  and nobody holds it: "only tear down the stream this call actually owns" (1357) is kept, the
  stop is not (`FlapInRenewal`).
- `app.html:898-900`: a flush runs on under the token of whoever signs in meanwhile, against
  "never under someone else's token" (`JoinInFlight`).  What a flush holds when the page
  reloads is in no copy of the queue (1102 covers answers, not reloads).
- `app.html:2310`: `bookingKey` survives a sign-out; the next user's first booking on the page
  is sent with it.

*RAKSHA and the scanner*

- `raksha.ts:454-461`: two overlapping batches of one device open two incidents (`Overlap`).
  `raksha.ts:957-960`, `965`: two rejects at once each see the other's detection unrejected, and
  the incident stays queued; a signal that commits between a reject's query and its commit
  leaves a cancelled incident with a live sighting, as it does after a dismissal (1103-1105).
- `scan.js:779-783` keeps the model "that produced these boxes" by reading it after an await,
  when an upgrade may have replaced it.
- An image that finishes loading after the camera was chosen kills its start or its loop and
  draws the sample's boxes over the camera, against 595 (`LateImage`).  An engine that finishes
  while the page is hidden turns the camera on.  A fresh loop does not wait for the pass of the
  one before, against "one inference at a time" (548) and "never overlap an inference" (313).
- A report held while another is being sent misses the `online` event; `openReport` may clear
  what "This page holds it" (918) has just promised to keep.

*Audit*

- `audit.ts:116`: the stamp is kept increasing in memory only.  A clock that steps back across a
  restart orders a new entry before older ones, and the verification reports a break that nobody
  made (`ClockSteps`).

## 7. Not modelled, and why

The map covers about a sixth of the lines that hold code.  Most of the rest cannot hold a
property of this kind: end-to-end and audit scripts (`app/scripts`), screens and their
layout in `app.html` and in Compose, translations, seed data, numeric detectors.  Where a file
is modelled, its control is (`dispatch.ts`, `payments.ts`, `emergency.ts`, `auth.ts`,
`google-auth.ts`, `telegram.ts`, `audit.ts`, `offline-store.js`, `connectivity.js`, `scan.js`).

- Read-only proxies and aggregates (geo, tiles, impact, fleet), wording and layout (i18n,
  logging), configuration (environment, headers, webhook start-up rules) hold no state a
  property could be about.  The AI rules are a stateless classifier with a fallback.
- Image models with their pre- and post-processing, on the web and on Android, are numeric code
  out of TLC's reach.
- `AlertGate` (a counter of suppressed sign-in mails that nothing reads), break-glass access to
  the medical record (a read with an audit row) and SMS consent (a filter before `Contacts`) are
  single guarded writes.
- The service worker caches the page's own files.  `TripGuardian`, `HazardQueue` and
  `OpenIncidents` of the Android app follow the protocol of `SosQueue` with less at stake.
- Device registration, token exchange and heartbeat, the review queue's ordering and road-health
  scores; the export and the list of blanked columns of a deletion; the per-route rate limits; the
  conflict log of the sync journal.

## 8. Plan

Modelled and checked: everything in section 2.  Proved: every safety property of every passing
run (section 4).

What is worth proving next, in this order:

1. An abstract `Alarm` (raised, claimed, family told, closed) for Emergency to implement, and the
   server's part of `OffGrid` and `PhoneSos` with it, so that the three models of one incident
   row are shown to agree.
2. `Session` as an implementation of `RefreshTokens`, which is what `PhoneSession` takes the server
   to be.
3. The four type invariants that are only model-checked, and `Connectivity`'s classification.
