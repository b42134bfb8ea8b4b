--------------------------- MODULE AdmissionGate ---------------------------
(***************************************************************************)
(* What the guard promises its consumers, without clocks: one gate over    *)
(* the whole Session, and canonical streams that only flow through it.     *)
(* SessionClockGuard is shown to implement this specification.             *)
(***************************************************************************)
EXTENDS Naturals, GuardStates

CONSTANTS Slots, Streams

VARIABLES
  gate,       \* the aggregate state
  projected   \* newest source stamp published on each canonical stream

gateVars == <<gate, projected>>

GateInit ==
  /\ gate \in {"initializing", "locked"}
  /\ projected = [r \in Slots |-> [s \in Streams |-> 0]]

\* Open, close or lose the gate; nothing is projected.
Move ==
  /\ gate' \in Moves[gate]
  /\ UNCHANGED projected

\* One sample of one stream goes out through a locked gate, the sample that
\* locks it included; each stream moves strictly forward in source time.
Project ==
  /\ gate # "lost"
  /\ gate' = "locked"
  /\ \E r \in Slots, s \in Streams :
       /\ projected' = [projected EXCEPT ![r][s] = projected'[r][s]]
       /\ projected'[r][s] > projected[r][s]

GateNext == Move \/ Project

GateSpec == GateInit /\ [][GateNext]_gateVars
=============================================================================
