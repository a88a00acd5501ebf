------------------------------ MODULE SendOnce ------------------------------
(***************************************************************************)
(* What sendTransaction promises the worker that calls it, whatever nonces,*)
(* attempts and locks it takes: the call ends anchored or with an error;   *)
(* one of its transactions at most gets on chain, for good, at any time    *)
(* after the call began, be it long after it ended with an error; and it   *)
(* ends anchored only when that transaction is there and has succeeded.    *)
(***************************************************************************)
EXTENDS Naturals

CONSTANT Calls  \* executions of sendTransaction

VARIABLES
    outcome,  \* [Calls -> {"waiting", "sending", "anchored", "failed"}]
    onChain   \* [Calls -> SUBSET Entries], what the chain holds of the call

sends == <<outcome, onChain>>

\* A transaction of a call, by the attempt that sent it.
Entries == [attempt : Nat, succeeded : BOOLEAN]

SendInit ==
    /\ outcome = [c \in Calls |-> "waiting"]
    /\ onChain = [c \in Calls |-> {}]

Becomes(c, from, to) == outcome[c] = from /\ outcome' = [outcome EXCEPT ![c] = to]

Begin(c) == Becomes(c, "waiting", "sending") /\ UNCHANGED onChain
Fail(c) == Becomes(c, "sending", "failed") /\ UNCHANGED onChain

Land(c) ==
    /\ outcome[c] # "waiting" /\ onChain[c] = {}
    /\ \E e \in onChain'[c] : e \in Entries /\ onChain' = [onChain EXCEPT ![c] = {e}]
    /\ UNCHANGED outcome

Return(c) ==
    /\ \E e \in onChain[c] : e.succeeded
    /\ Becomes(c, "sending", "anchored")
    /\ UNCHANGED onChain

SendNext == \E c \in Calls : Begin(c) \/ Fail(c) \/ Land(c) \/ Return(c)

SendSpec == SendInit /\ [][SendNext]_sends
=============================================================================
