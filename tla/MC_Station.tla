---------------------------- MODULE MC_Station -----------------------------
(* An authority-only Physical Session: no routes, every wall behaviour. *)
EXTENDS SessionClockGuard

MCDomain == [r \in Routes |-> "physical"]
MCNone == {}
MCWallErrors == -3..3
=============================================================================
