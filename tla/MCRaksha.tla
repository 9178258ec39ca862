------------------------------ MODULE MCRaksha ------------------------------
(***************************************************************************)
(* Small instances for TLC of the road's record (Raksha) and of the        *)
(* scanner page that reports to it (Scanner, ScanReport).  They share no   *)
(* variable, so one component moves in a behaviour: part, of the Parts of  *)
(* the run.                                                                *)
(***************************************************************************)
EXTENDS Raksha, Scanner, ScanReport, TLC
CONSTANTS
    Parts,
    x1, x2, x3, d1, d2, i1, i2, r1, r2, o1, o2, here,   \* the road
    c1, c2, k1, k2, g1, g2, g3                          \* the scanner

\* x1 and x2 are severe sightings of one hazard, x3 is a citizen's report.
OneSpot == [x \in Sightings |-> here]

Symmetry == Permutations(Devices) \cup Permutations(Incidents) \cup Permutations(Batches)
            \cup Permutations(Officers)

VARIABLE part

RoadInit ==
    /\ part \in Parts
    /\ RakshaInit /\ ScanInit /\ ReportInit
    /\ part # "scanner" => jobs[1].then = "none"
    /\ part # "report" => online

RoadNext ==
    /\ UNCHANGED part
    /\ \/ part = "record" /\ RakshaNext /\ UNCHANGED <<scanVars, reportVars>>
       \/ part = "scanner" /\ ScanNext /\ UNCHANGED <<rakshaVars, reportVars>>
       \/ part = "report" /\ ReportNext /\ UNCHANGED <<rakshaVars, scanVars>>

RoadSpec == RoadInit /\ [][RoadNext]_<<part, rakshaVars, scanVars, reportVars>>
=============================================================================
