-------------------------- MODULE MCAnchorPipeline --------------------------
(* Instances of AnchorPipeline for TLC: the requests of one client, either   *)
(* two for one stream, r2 the newer, or each for a stream of its own.        *)
EXTENDS AnchorPipeline, TLC

CONSTANTS r1, r2, r3

OneStream == [r \in Requests |-> "s"]
OwnStreams == [r \in Requests |-> r]
OneOrigin == [r \in Requests |-> "o"]
Timestamps == [r \in Requests |-> IF r = r2 THEN 2 ELSE 1]

\* Workers are interchangeable (safety run only).
WorkerSymmetry == Permutations(Workers)
=============================================================================
