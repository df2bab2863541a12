----------------------------- MODULE MCCostCache -----------------------------
(* Two overlapping reports of one profile, which may move between endpoints.  *)
EXTENDS CostCache

MCProfiles == {"p"}
MCEndpoints == {"e", "f"}
MCReports == {"r", "q"}
MCBoth == BOOLEAN
=============================================================================
