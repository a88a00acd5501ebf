------------------------ MODULE EthereumTransactions ------------------------
(***************************************************************************)
(* EthereumBlockchainService.sendTransaction under the advisory lock of    *)
(* TransactionRepository.withTransactionMutex.  A call is one execution of *)
(* sendTransaction for one Merkle root, by one worker; all of them share   *)
(* the wallet, whose transactions the chain orders by nonce.               *)
(*                                                                         *)
(* The node and the chain are external: a transaction they were given, even *)
(* one the caller got an error for or one that was outbid, may be mined at *)
(* any later time, as long as its nonce is the wallet's next one.          *)
(***************************************************************************)
EXTENDS Integers, FiniteSets

CONSTANTS
    Calls,          \* executions of sendTransaction
    NoCall,         \* the advisory lock is free
    MaxRetries,     \* MAX_RETRIES
    Byzantium,      \* the receipts of the network have a status
    MaxLockLosses   \* bound: times the lock's database connection drops

ASSUME RetriesAssumption == MaxRetries \in Nat /\ MaxLockLosses \in Nat
ASSUME NoCallAssumption == NoCall \notin Calls
ASSUME ByzantiumAssumption == Byzantium \in BOOLEAN

VARIABLES
    pc,         \* [Calls -> CallStep]
    nonce,      \* [Calls -> Nat], the nonce of txData
    attempt,    \* [Calls -> Nat], attemptNum
    responses,  \* [Calls -> SUBSET Nat], the attempts in txResponses
    returned,   \* [Calls -> SUBSET Transactions], the transaction returned, if any
    lock,       \* holder of the advisory lock
    pool,       \* transactions the network was given
    mined,      \* transactions in a block
    reverted,   \* those of them with a failure status
    txCount,    \* the wallet's transaction count in the latest block
    lockLosses

callVars == <<pc, nonce, attempt, responses, returned>>
lockVars == <<lock, lockLosses>>
chainVars == <<pool, mined, reverted, txCount>>
vars == <<callVars, lockVars, chainVars>>

CallStep ==
    {"waiting", "building", "pricing", "submitting", "confirming", "checking", "ended"}
Sending == {"building", "pricing", "submitting", "confirming", "checking"}

\* The transaction of an attempt.  The root is the call's, whatever the attempt.
Tx(c, a) == [call |-> c, attempt |-> a, nonce |-> nonce[c]]

\* The transactions whose receipt does not report a failure: one without a status is
\* taken for a success.
Succeeded == IF Byzantium THEN mined \ reverted ELSE mined

Init ==
    /\ pc = [c \in Calls |-> "waiting"]
    /\ nonce = [c \in Calls |-> 0]
    /\ attempt = [c \in Calls |-> 0]
    /\ responses = [c \in Calls |-> {}]
    /\ returned = [c \in Calls |-> {}]
    /\ lock = NoCall /\ lockLosses = 0
    /\ pool = {} /\ mined = {} /\ reverted = {}
    /\ txCount = 0

-----------------------------------------------------------------------------
(* The call.                                                               *)

Goto(c, step) == pc' = [pc EXCEPT ![c] = step]
ReleaseLock(c) == lock' = IF lock = c THEN NoCall ELSE lock

\* A mutant: the answer of pg_try_advisory_xact_lock is not looked at.
AcquireAnyway(c) ==
    /\ pc[c] = "waiting"
    /\ lock' = c
    /\ Goto(c, "building")
    /\ UNCHANGED <<nonce, attempt, responses, returned, lockLosses, chainVars>>

\* pg_try_advisory_xact_lock succeeds.
Acquire(c) ==
    /\ pc[c] = "waiting"
    /\ lock = NoCall
    /\ lock' = c
    /\ Goto(c, "building")
    /\ UNCHANGED <<nonce, attempt, responses, returned, lockLosses, chainVars>>

\* A mutant: the nonce of the last transaction, not the next one.
BuildWithLastNonce(c) ==
    /\ pc[c] = "building"
    /\ nonce' = [nonce EXCEPT ![c] = txCount - 1]
    /\ Goto(c, "pricing")
    /\ UNCHANGED <<attempt, responses, returned, lockVars, chainVars>>

\* _buildTransactionRequest: the nonce is that of the latest block, pending
\* transactions are not counted, and it is the nonce of every attempt.
BuildTransactionRequest(c) ==
    /\ pc[c] = "building"
    /\ nonce' = [nonce EXCEPT ![c] = txCount]
    /\ Goto(c, "pricing")
    /\ UNCHANGED <<attempt, responses, returned, lockVars, chainVars>>

\* An error ends the call: thrown before or out of the attempts, or by the
\* transaction around a lock that was lost.
Throw(c) ==
    /\ Goto(c, "ended")
    /\ ReleaseLock(c)
    /\ UNCHANGED <<nonce, attempt, responses, returned, lockLosses>>

\* A mutant: attempts that end without a result are not counted.
RetryForever(c) ==
    /\ Goto(c, "pricing")
    /\ UNCHANGED <<nonce, attempt, responses, returned, lockVars>>

\* The operation of attempt() gave no result: five seconds later the next one.
NextAttempt(c) ==
    /\ attempt[c] + 1 < MaxRetries
    /\ attempt' = [attempt EXCEPT ![c] = @ + 1]
    /\ Goto(c, "pricing")
    /\ UNCHANGED <<nonce, responses, returned, lockVars>>
OutOfAttempts(c) == attempt[c] + 1 >= MaxRetries /\ Throw(c)
AttemptFails(c) == NextAttempt(c) \/ OutOfAttempts(c)

\* A mutant: each attempt asks for the transaction count again.
PriceAndRefreshNonce(c) ==
    /\ pc[c] = "pricing"
    /\ Goto(c, "submitting")
    /\ nonce' = [nonce EXCEPT ![c] = txCount]
    /\ UNCHANGED <<attempt, responses, returned, lockVars, chainVars>>

SetGasPrice(c) ==
    /\ pc[c] = "pricing"
    /\ Goto(c, "submitting")
    /\ UNCHANGED <<nonce, attempt, responses, returned, lockVars, chainVars>>

\* The RPC for the balance, the nonce, the fees or the gas fails; or funds are
\* short, which ends the call if they do not cover the price asked.
PreparationFails(c) ==
    /\ \/ pc[c] = "building" /\ Throw(c)
       \/ pc[c] = "pricing" /\ (AttemptFails(c) \/ Throw(c))
    /\ UNCHANGED chainVars

NonceExpired(c) == nonce[c] < txCount

\* wallet.sendTransaction takes the transaction.
SubmitTransaction(c) ==
    /\ pc[c] = "submitting"
    /\ ~NonceExpired(c)
    /\ pool' = pool \cup {Tx(c, attempt[c])}
    /\ responses' = [responses EXCEPT ![c] = @ \cup {attempt[c]}]
    /\ Goto(c, "confirming")
    /\ UNCHANGED <<nonce, attempt, returned, lockVars, mined, reverted, txCount>>

\* It throws anything but NONCE_EXPIRED: the transaction is refused (outbid, out
\* of funds), or it was sent and the answer is lost or is of another chain.
SubmissionFails(c) ==
    /\ pc[c] = "submitting"
    /\ \/ pool' = pool /\ (AttemptFails(c) \/ Throw(c))
       \/ /\ ~NonceExpired(c)
          /\ pool' = pool \cup {Tx(c, attempt[c])}
          /\ AttemptFails(c)
    /\ UNCHANGED <<mined, reverted, txCount>>

\* It throws NONCE_EXPIRED: one of our transactions may have been mined.
NonceHasExpired(c) ==
    /\ pc[c] = "submitting"
    /\ NonceExpired(c)
    /\ IF attempt[c] = 0 \/ responses[c] = {}
         THEN Throw(c)
         ELSE /\ Goto(c, "checking")
              /\ UNCHANGED <<nonce, attempt, responses, returned, lockVars>>
    /\ UNCHANGED chainVars

\* The transaction of the lock commits and the caller gets tx.  If the lock's
\* connection is gone the commit fails, and so does the call.
Return(c, tx) ==
    /\ returned' = [returned EXCEPT ![c] = IF lock = c THEN {tx} ELSE {}]
    /\ Goto(c, "ended")
    /\ ReleaseLock(c)
    /\ UNCHANGED <<nonce, attempt, responses, lockLosses, chainVars>>

\* A mutant: a receipt is returned without a look at its status.
ConfirmMined(c) ==
    /\ pc[c] = "confirming"
    /\ Tx(c, attempt[c]) \in mined
    /\ Return(c, Tx(c, attempt[c]))

\* waitForTransaction finds the receipt of this attempt.
ConfirmTransaction(c) ==
    /\ pc[c] = "confirming"
    /\ Tx(c, attempt[c]) \in Succeeded
    /\ Return(c, Tx(c, attempt[c]))

\* TIMEOUT, a failure status, or another error of the RPC.
ConfirmationFails(c) ==
    /\ pc[c] = "confirming"
    /\ AttemptFails(c)
    /\ UNCHANGED chainVars

\* _checkForPreviousTransactionSuccess: no response of this call is confirmed.
CheckFails(c) ==
    /\ pc[c] = "checking"
    /\ Throw(c)
    /\ UNCHANGED chainVars

CheckSucceeds(c) ==
    /\ pc[c] = "checking"
    /\ \E a \in responses[c] : Tx(c, a) \in Succeeded /\ Return(c, Tx(c, a))

CallRuns(c) ==
    \/ BuildTransactionRequest(c) \/ SetGasPrice(c) \/ PreparationFails(c)
    \/ SubmitTransaction(c) \/ SubmissionFails(c) \/ NonceHasExpired(c)
    \/ ConfirmTransaction(c) \/ ConfirmationFails(c)
    \/ CheckSucceeds(c) \/ CheckFails(c)

-----------------------------------------------------------------------------
(* The environment.                                                        *)

\* A block holds the wallet's next transaction.  Those it competed with for the
\* nonce can never be mined any more.
Mine(tx) ==
    /\ tx.nonce = txCount
    /\ mined' = mined \cup {tx}
    /\ reverted' \in {reverted, reverted \cup {tx}}
    /\ txCount' = txCount + 1
    /\ pool' = {t \in pool : t.nonce > txCount}
    /\ UNCHANGED <<callVars, lockVars>>

\* PostgreSQL drops the connection and with it the lock; the operation runs on.
LoseLock ==
    /\ lock # NoCall
    /\ lockLosses < MaxLockLosses
    /\ lock' = NoCall
    /\ lockLosses' = lockLosses + 1
    /\ UNCHANGED <<callVars, chainVars>>

\* The worker process dies, or the wallet's balance cannot be read afterwards.
Die(c) ==
    /\ pc[c] \in Sending
    /\ Throw(c)
    /\ UNCHANGED chainVars

Next ==
    \/ \E c \in Calls : Acquire(c) \/ CallRuns(c) \/ Die(c)
    \/ \E tx \in pool : Mine(tx)
    \/ LoseLock

\* A call that has the lock runs on, and one that waits polls for it: a free lock
\* that is taken and released again and again is won in the end.  Nothing makes
\* the network mine, a process die or a connection drop.
Fairness == \A c \in Calls : WF_vars(CallRuns(c)) /\ SF_vars(Acquire(c))
SafetySpec == Init /\ [][Next]_vars
Spec == SafetySpec /\ Fairness

-----------------------------------------------------------------------------
(* Properties.                                                             *)

Transactions == [call : Calls, attempt : Nat, nonce : Nat]

\* Every variable stays in its domain.
TypeOK ==
    /\ pc \in [Calls -> CallStep]
    /\ nonce \in [Calls -> Nat]
    /\ attempt \in [Calls -> Nat]
    /\ responses \in [Calls -> SUBSET Nat]
    /\ returned \in [Calls -> SUBSET Transactions]
    /\ lock \in Calls \cup {NoCall}
    /\ lockLosses \in 0..MaxLockLosses
    /\ pool \subseteq Transactions
    /\ mined \subseteq Transactions
    /\ reverted \subseteq mined
    /\ txCount \in Nat

\* What sendTransaction returns is a transaction of this call, with this call's
\* root, mined with success: never one of another call that took the nonce, one
\* that was outbid or one that failed, if receipts say so (mined it is in any case).
ReturnedIsAnchored ==
    \A c \in Calls : \A tx \in returned[c] : tx.call = c /\ tx \in Succeeded

\* However many attempts time out, are refused, lose their answer or are mined
\* late, a call anchors its root at most once: its attempts compete for one nonce.
AnchorsAtMostOnce ==
    \A t, u \in mined : t.call = u.call => t = u

\* While no connection is lost, a call that is sending has the wallet to itself.
SendsAlone ==
    lockLosses = 0 =>
        \A c, d \in Calls : pc[c] \in Sending /\ pc[d] \in Sending => c = d

\* Every call ends, with a transaction or with an error: no number of timeouts or
\* stolen nonces keeps it, or the calls that wait for its lock, from returning.
EveryCallEnds == \A c \in Calls : <>(pc[c] = "ended")
=============================================================================
