----------------------------- MODULE MC_Hybrid -----------------------------
(* Hybrid mode: station authority, a private Gazebo witness, both domains. *)
EXTENDS SessionClockGuard

CONSTANTS sim, phy

MCRoutes == {sim, phy}
MCDomain == [r \in Routes |-> IF r = sim THEN "simulation" ELSE "physical"]
MCGazeboStamps == 1..3
MCRawStamps == {2, 3}
MCViolations == {{}}
MCWallErrors == {0}
=============================================================================
