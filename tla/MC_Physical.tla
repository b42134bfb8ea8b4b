---------------------------- MODULE MC_Physical ----------------------------
(* Physical mode: station authority, the affine fit computed. *)
EXTENDS FittedGuard

MCDomain == [r \in Routes |-> "physical"]
MCStamps == 0..4
MCNone == {}
MCViolations == SUBSET Gates
MCWallErrors == {0, 2}
=============================================================================
