----------------------------- MODULE AtomicRead -----------------------------
(***************************************************************************)
(* What readSecureEpochState promises its caller: either it refuses, or it *)
(* answers with the document that the path holds, securely, at the moment  *)
(* of the answer.  An empty document is no secure file at all.             *)
(***************************************************************************)
EXTENDS Sequences

VARIABLES document, answer

Refused == [ok |-> FALSE, bytes |-> << >>]

ARInit == answer = Refused

\* The directory changes; the caller has nothing new.
Change == answer' = answer

Answer ==
  /\ document' = document
  /\ \/ answer' = Refused
     \/ document # << >> /\ answer' = [ok |-> TRUE, bytes |-> document]

ARSpec == ARInit /\ [][Change \/ Answer]_<<document, answer>>
=============================================================================
