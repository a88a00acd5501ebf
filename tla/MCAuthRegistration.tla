-------------------------- MODULE MCAuthRegistration --------------------------
(* Instances of AuthKeys for TLC: one email has the others as substrings.     *)
EXTENDS AuthKeys, TLC

Longest == CHOOSE e \in Emails : TRUE
WithinLongest == [e \in Emails |-> {e, Longest}]

\* Calls and codes are interchangeable.
Interchangeable == Permutations(Calls) \cup Permutations(Codes)
=============================================================================
