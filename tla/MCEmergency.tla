---------------------------- MODULE MCEmergency ----------------------------
(***************************************************************************)
(* Small instances for TLC of what a person in trouble waits for: an       *)
(* emergency (Emergency), one stored without a signal (OffGrid), the page  *)
(* that follows a booking (LiveView) and the tier that starts and stops    *)
(* the page's polls (Connectivity).  They share no variable - the page     *)
(* lets its signal come and go - so one component moves in a behaviour:    *)
(* part, of the Parts of the run, and its fairness is owed where it moves. *)
(***************************************************************************)
EXTENDS Emergency, OffGrid, LiveView, Connectivity, TLC
CONSTANTS Parts, i1, o1, c1, c2, r1, r2, e1, w1, w2

OneIncident == {i1}
TwoRequests == {r1, r2}
SameOwner == [i \in Incidents |-> o1]
TwoContacts == [o \in Owners |-> {c1, c2}]
OneEmergency == {e1}
TwoTabs == {w1, w2}

VARIABLE part

AskedInit ==
    /\ part \in Parts
    /\ Init /\ OffGridInit /\ LiveInit /\ NetInit
    /\ part # "tier" => network /\ radio /\ ~thin /\ ~unseen

AskedNext ==
    /\ UNCHANGED part
    /\ \/ part = "emergency" /\ Next /\ UNCHANGED <<offGridVars, liveVars, netVars>>
       \/ part = "offgrid" /\ OffGridNext /\ UNCHANGED <<vars, liveVars, netVars>>
       \/ part = "page" /\ LiveNext /\ UNCHANGED <<vars, offGridVars, netVars>>
       \/ part = "tier" /\ NetNext /\ UNCHANGED <<vars, offGridVars, liveVars>>

\* Fairness and SomebodyAsks, OffGridFairness, LiveFairness and NetFairness, conjunct
\* by conjunct, each owed where its component moves.
AskedFairness ==
    /\ \A r \in Requests : WF_vars(part = "emergency" /\ Escalation(r))
    /\ \A i \in Incidents :
         /\ WF_vars(part = "emergency" /\ LeasePasses(i))
         /\ SF_vars(part = "emergency" /\ \E r \in Requests : ConfirmRead(r, i))
    /\ \A o \in Owners : WF_vars(part = "emergency" /\ WindowEnds(o))
    /\ \A p \in Pages :
         /\ WF_offGridVars(part = "offgrid" /\ Begin(p))
         /\ WF_offGridVars(part = "offgrid" /\ Sync(p))
         /\ \A e \in Emergencies : WF_offGridVars(part = "offgrid" /\ AlertAgain(p, e))
    /\ \A e \in Emergencies :
         /\ WF_offGridVars(part = "offgrid" /\ Elapse(e))
         /\ WF_offGridVars(part = "offgrid" /\ ReviseWrite(e))
         /\ WF_offGridVars(part = "offgrid"
                             /\ (AbortDiscard(e) \/ AbortLook(e) \/ AbortCancel(e) \/ AbortRequest(e)))
    /\ WF_liveVars(part = "page" /\ PollStep) /\ WF_liveVars(part = "page" /\ TapStep)
    /\ WF_netVars(part = "tier" /\ ProbeBack) /\ WF_netVars(part = "tier" /\ TimerFires)

AskedSpec ==
    /\ AskedInit
    /\ [][AskedNext]_<<part, vars, offGridVars, liveVars, netVars>>
    /\ AskedFairness
=============================================================================
