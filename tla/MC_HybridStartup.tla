------------------------- MODULE MC_HybridStartup --------------------------
(* Hybrid startup under fairness: a witness that may never become ready. *)
EXTENDS SessionClockGuard

CONSTANTS sim, phy

MCRoutes == {sim, phy}
MCDomain == [r \in Routes |-> IF r = sim THEN "simulation" ELSE "physical"]
MCGazeboStamps == 1..3
MCRawStamps == {2}
MCViolations == {{}}
MCWallErrors == {0, 2}
=============================================================================
