--------------------------- MODULE MCAutonomousRun ---------------------------
(* Two postings of one company, one scored already and one not, and the values of *)
(* an instance.                                                                   *)
EXTENDS AutonomousRun

CONSTANTS j1, j2

MCCompanyOf == [j \in Jobs |-> "acme"]
MCWaiting   == {"discovered", "shortlisted", "ready_to_apply"}
MCStageAtFirst == [j \in Jobs |-> IF j = j1 THEN "discovered" ELSE "ready_to_apply"]
=============================================================================
