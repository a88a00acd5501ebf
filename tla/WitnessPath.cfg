SPECIFICATION Spec
CONSTANTS
    MaxLeaves = 4
    MaxLost = 2
INVARIANTS TypeOK CommitsLeadToCandidates BuiltWitnessVerifies VerifiedIsProven
CHECK_DEADLOCK FALSE
