----------------------------- MODULE MC_Health -----------------------------
(* Guards of two epochs, and the health checker run beside them. *)
EXTENDS HealthCheck
=============================================================================
