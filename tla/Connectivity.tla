---------------------------- MODULE Connectivity ----------------------------
(***************************************************************************)
(* The connectivity manager of the web app (connectivity.js) and the       *)
(* decision it feeds (classifyConnectivity, offline-engine.js): one tier   *)
(* from what the browser says, what a probe brought back and how many      *)
(* requests in a row went unanswered.  The page stops its polls and its    *)
(* stream on OFFLINE and sends what it stored on leaving it, so a tier     *)
(* that stays wrong is an emergency that stays on the device.              *)
(*                                                                         *)
(* A reading that is under way when the network changes may bring either   *)
(* answer: it is "crossed".                                                *)
(***************************************************************************)
EXTENDS Naturals

CONSTANTS
    OfflineFailures,    \* OFFLINE_FAILURES; the tally is capped there
    LimitedFailures     \* LIMITED_FAILURES

VARIABLES
    network,            \* requests get through
    radio,              \* navigator.onLine
    thin,               \* 2g, or the data saver is on
    unseen,             \* document.hidden
    simulated,          \* simulatedOffline
    failures,           \* consecutiveFailures
    probeOk,            \* the last reading that counts: none, ok, slow, bad
    probing,            \* _probing: a probe under way
    asking,             \* a request of the app under way
    timer,              \* _timer is set
    tier
netVars == <<network, radio, thin, unseen, simulated, failures, probeOk, probing, asking, timer, tier>>

Flight == {"none", "steady", "crossed"}

NetTypeOK ==
    /\ {network, radio, thin, unseen, simulated, timer} \subseteq BOOLEAN
    /\ failures \in 0..OfflineFailures
    /\ probeOk \in {"none", "ok", "slow", "bad"}
    /\ probing \in Flight /\ asking \in Flight
    /\ tier \in {"ONLINE", "LIMITED", "OFFLINE"}

-----------------------------------------------------------------------------
(* The decision *)

Classify(on, sim, count, read, weak) ==
    LET many == count >= OfflineFailures
    IN IF ~on \/ sim THEN "OFFLINE"
       ELSE CASE read = "bad"  -> IF many THEN "OFFLINE" ELSE "LIMITED"
              [] read = "slow" -> "LIMITED"
              [] read = "ok"   -> IF many THEN "LIMITED" ELSE "ONLINE"
              [] read = "none" -> IF many THEN "OFFLINE"
                                  ELSE IF count >= LimitedFailures \/ weak THEN "LIMITED" ELSE "ONLINE"

\* _reschedule, called however the verdict came out.
TimerUponChange(next) == timer \/ next # tier    \* variant: only when the tier changed
TimerSet(next) == TRUE

\* _settle, of the inputs as they now are.
Settle ==
    LET next == Classify(radio', simulated', failures', probeOk', thin')
    IN tier' = next /\ timer' = TimerSet(next)

\* probe(), after the inputs changed: the one under way, or a new one.
Probe == probing' = IF probing = "none" THEN "steady" ELSE probing

NetInit ==
    /\ network \in BOOLEAN /\ radio \in BOOLEAN /\ thin \in BOOLEAN /\ unseen \in BOOLEAN
    /\ network => radio
    /\ simulated = FALSE /\ failures = 0 /\ probeOk = "none"
    /\ probing = "steady" /\ asking = "none" /\ timer = TRUE
    /\ tier = Classify(radio, simulated, failures, probeOk, thin)

-----------------------------------------------------------------------------
(* The network *)

Crossed(flight) == IF flight = "none" THEN "none" ELSE "crossed"

\* It changes without the browser noticing: a cell with no backhaul.
NetworkChanges ==
    /\ radio
    /\ network' = ~network
    /\ probing' = Crossed(probing) /\ asking' = Crossed(asking)
    /\ UNCHANGED <<radio, thin, unseen, simulated, failures, probeOk, timer, tier>>

BrowserOnline ==
    /\ ~radio
    /\ radio' = TRUE /\ network' \in BOOLEAN
    /\ failures' = 0
    /\ IF simulated /\ probing = "none"
       THEN probeOk' = "bad" /\ UNCHANGED probing
       ELSE probeOk' = "none" /\ probing' = IF probing = "none" THEN "steady" ELSE "crossed"
    /\ UNCHANGED <<thin, unseen, simulated>>
    /\ Settle
    /\ asking' = Crossed(asking)

BrowserOffline ==
    /\ radio
    /\ radio' = FALSE /\ network' = FALSE
    /\ probeOk' = "bad"
    /\ UNCHANGED <<thin, unseen, simulated, failures>>
    /\ Settle
    /\ probing' = Crossed(probing) /\ asking' = Crossed(asking)

NetworkInformation ==
    /\ thin' = ~thin
    /\ UNCHANGED <<network, radio, unseen, simulated, failures, probeOk, probing, asking>>
    /\ Settle

-----------------------------------------------------------------------------
(* The probe and its timer *)

\* What a reading may bring: a bad one while nothing gets through.
Readings(flight) ==
    (IF network \/ flight = "crossed" THEN {"ok", "slow"} ELSE {})
    \cup (IF ~network \/ flight = "crossed" THEN {"bad"} ELSE {})

ProbeBack ==
    /\ probing # "none"
    /\ probeOk' \in Readings(probing)
    /\ probing' = "none"
    /\ UNCHANGED <<network, radio, thin, unseen, simulated, failures, asking>>
    /\ Settle

\* probe() called on its own; simulating, it brings a bad reading at once.
CallProbe ==
    \/ /\ probing = "none" /\ simulated
       /\ probeOk' = "bad"
       /\ UNCHANGED <<network, radio, thin, simulated, failures, probing, asking>>
       /\ Settle
    \/ /\ probing # "none" \/ ~simulated
       /\ Probe
       /\ UNCHANGED <<network, radio, thin, simulated, failures, probeOk, asking, tier>>

\* A unseen tab probes nothing and looks again later.
TimerFires ==
    /\ timer
    /\ IF unseen
       THEN timer' = TRUE /\ UNCHANGED <<network, radio, thin, simulated, failures, probeOk, probing, asking, tier>>
       ELSE CallProbe /\ (probing # "none" \/ ~simulated => timer' = FALSE)
    /\ UNCHANGED unseen

LookAway == ~unseen /\ unseen' = TRUE
        /\ UNCHANGED <<network, radio, thin, simulated, failures, probeOk, probing, asking, timer, tier>>

LookBack == /\ unseen /\ unseen' = FALSE
        /\ CallProbe
        /\ (probing # "none" \/ ~simulated => UNCHANGED timer)

-----------------------------------------------------------------------------
(* The app's requests, and its toggle *)

Ask ==
    /\ asking = "none" /\ asking' = "steady"
    /\ UNCHANGED <<network, radio, thin, unseen, simulated, failures, probeOk, probing, timer, tier>>

\* noteSuccess: settled unless there was nothing to correct.
Answered ==
    /\ asking = "crossed" \/ (asking = "steady" /\ network)
    /\ asking' = "none" /\ failures' = 0
    /\ UNCHANGED <<network, radio, thin, unseen, simulated, probeOk, probing>>
    /\ IF failures > 0 \/ tier # "ONLINE" THEN Settle ELSE UNCHANGED <<timer, tier>>

\* noteFailure: the reading no longer counts, and a new one is asked for.
Unanswered ==
    /\ asking = "crossed" \/ (asking = "steady" /\ ~network)
    /\ asking' = "none"
    /\ failures' = IF failures < OfflineFailures THEN failures + 1 ELSE failures
    /\ IF simulated /\ probing = "none"
       THEN probeOk' = "bad" /\ UNCHANGED probing
       ELSE probeOk' = "none" /\ Probe
    /\ UNCHANGED <<network, radio, thin, unseen, simulated>>
    /\ Settle

\* The toggle goes by the tier on the screen.
Simulate ==
    /\ simulated' = (tier # "OFFLINE")
    /\ \/ simulated' /\ UNCHANGED <<failures, probeOk, probing>>
       \/ ~simulated' /\ failures' = 0 /\ probeOk' = "none" /\ Probe
    /\ UNCHANGED <<network, radio, thin, unseen, asking>>
    /\ Settle

NetNext ==
    \/ NetworkChanges \/ BrowserOnline \/ BrowserOffline \/ NetworkInformation
    \/ ProbeBack \/ TimerFires \/ LookAway \/ LookBack
    \/ Ask \/ Answered \/ Unanswered \/ Simulate

\* A probe ends (it is aborted after PROBE_TIMEOUT_MS), and a timer that is set fires.
NetFairness == WF_netVars(ProbeBack) /\ WF_netVars(TimerFires)

NetSpec == NetInit /\ [][NetNext]_netVars /\ NetFairness

-----------------------------------------------------------------------------
(* Properties *)

\* A network that comes back and stays is noticed, and an outage that lasts is too:
\* whatever events the browser sent or failed to send, and whatever readings crossed
\* the change, the tier stops saying OFFLINE, or stops saying ONLINE, on a page that
\* stays in front, whose toggle is left alone and whose browser has made up its mind.
Agrees == IF network THEN tier # "OFFLINE" ELSE tier # "ONLINE"

TierFollowsNetwork ==
    /\ <>[](~unseen /\ ~simulated)
    /\ <>[][~Simulate /\ UNCHANGED <<network, radio, unseen>>]_netVars
    => <>[]Agrees
=============================================================================
