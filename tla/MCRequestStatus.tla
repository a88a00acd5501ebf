--------------------------- MODULE MCRequestStatus ---------------------------
(* Instance of RequestStatus for TLC: two requests for one stream, r2 the newer. *)
EXTENDS RequestStatus

CONSTANTS r1, r2

OneStream == [r \in Requests |-> "s"]
OneOrigin == [r \in Requests |-> "o"]
Timestamps == [r \in Requests |-> IF r = r2 THEN 2 ELSE 1]
=============================================================================
