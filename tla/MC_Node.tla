------------------------------ MODULE MC_Node ------------------------------
(* Guards of consecutive epochs over one Session directory. *)
EXTENDS GuardNode
=============================================================================
