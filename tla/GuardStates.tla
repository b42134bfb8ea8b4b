---------------------------- MODULE GuardStates ----------------------------
(***************************************************************************)
(* The states a route, the authority and the aggregate go through, and the *)
(* moves the aggregate may make in one call of the guard.                  *)
(***************************************************************************)

GuardState == {"initializing", "locked", "degraded", "lost"}

\* Nothing leaves lost within an epoch, and an open gate never falls back to
\* initializing: it closes with a reason that is announced.
Moves ==
  [initializing |-> {"locked", "degraded", "lost"},
   locked       |-> {"degraded", "lost"},
   degraded     |-> {"initializing", "locked", "lost"},
   lost         |-> {}]
=============================================================================
