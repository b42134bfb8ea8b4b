--------------------------- MODULE MC_Simulation ---------------------------
(* Simulation mode: Gazebo is the authority, the mapping is the identity. *)
EXTENDS SessionClockGuard

MCDomain == [r \in Routes |-> "simulation"]
MCStamps == 0..3
MCGazeboStamps == 0..2
MCViolations == {{}}
MCWallErrors == {0}
=============================================================================
