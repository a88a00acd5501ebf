-------------------------- MODULE MCQueuedAnchoring --------------------------
(* Instances of QueuedAnchoring for TLC: two requests of one client for one  *)
(* stream, r2 the newer.                                                     *)
EXTENDS QueuedAnchoring

CONSTANTS r1, r2

OneStream == [r \in Requests |-> "s"]
OneOrigin == [r \in Requests |-> "o"]
Timestamps == [r \in Requests |-> IF r = r2 THEN 2 ELSE 1]
=============================================================================
