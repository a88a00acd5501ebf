--------------------- MODULE EthereumTransactionsProofs ---------------------
(***************************************************************************)
(* Proofs about EthereumTransactions for any number of calls, attempts and *)
(* lost locks.                                                             *)
(***************************************************************************)
EXTENDS EthereumTransactions, TLAPS

\* Every variable stays in its domain in every behaviour.
THEOREM TypeCorrect == SafetySpec => []TypeOK
  <1> USE RetriesAssumption DEF TypeOK, CallStep, Transactions
  <1>1. Init => TypeOK
    BY DEF Init
  <1>2. TypeOK /\ [Next]_vars => TypeOK'
    <2> SUFFICES ASSUME TypeOK, [Next]_vars PROVE TypeOK'
      OBVIOUS
    <2>1. ASSUME NEW c \in Calls, Acquire(c) \/ Die(c) PROVE TypeOK'
      BY <2>1 DEF Acquire, Die, Throw, Goto, ReleaseLock, chainVars
    <2>2. ASSUME NEW c \in Calls, CallRuns(c) PROVE TypeOK'
      <3>1. Tx(c, attempt[c]) \in Transactions /\ \A a \in responses[c] : Tx(c, a) \in Transactions
        BY DEF Tx
      <3>2. CASE BuildTransactionRequest(c) \/ SetGasPrice(c)
        BY <3>2 DEF BuildTransactionRequest, SetGasPrice, Goto, lockVars, chainVars
      <3>3. CASE PreparationFails(c) \/ NonceHasExpired(c) \/ ConfirmationFails(c)
                   \/ CheckFails(c)
        BY <3>3
        DEF PreparationFails, NonceHasExpired, ConfirmationFails, CheckFails,
            AttemptFails, NextAttempt, OutOfAttempts, Throw, Goto, ReleaseLock, lockVars,
            chainVars
      <3>4. CASE SubmitTransaction(c)
        BY <3>1, <3>4 DEF SubmitTransaction, Goto, lockVars
      <3>5. CASE SubmissionFails(c)
        BY <3>1, <3>5
        DEF SubmissionFails, AttemptFails, NextAttempt, OutOfAttempts, Throw, Goto,
            ReleaseLock, lockVars
      <3>6. CASE ConfirmTransaction(c) \/ CheckSucceeds(c)
        BY <3>1, <3>6
        DEF ConfirmTransaction, CheckSucceeds, Return, Goto, ReleaseLock, chainVars
      <3> QED
        BY <2>2, <3>2, <3>3, <3>4, <3>5, <3>6 DEF CallRuns
    <2>3. ASSUME NEW tx \in pool, Mine(tx) PROVE TypeOK'
      BY <2>3 DEF Mine, callVars, lockVars
    <2>4. CASE LoseLock
      BY <2>4 DEF LoseLock, callVars, chainVars
    <2>5. CASE UNCHANGED vars
      BY <2>5 DEF vars, callVars, lockVars, chainVars
    <2> QED
      BY <2>1, <2>2, <2>3, <2>4, <2>5 DEF Next
  <1> QED
    BY <1>1, <1>2, PTL DEF SafetySpec

-----------------------------------------------------------------------------
(* The wallet's nonces.                                                    *)

\* The inductive invariant: all the transactions of a call have the nonce it chose
\* before its first attempt, and a nonce below the count is that of one block entry.
NonceInv ==
    /\ \A t \in pool \cup mined :
         t.nonce = nonce[t.call] /\ pc[t.call] \notin {"waiting", "building"}
    /\ \A t \in mined : t.nonce < txCount
    /\ \A t, u \in mined : t.nonce = u.nonce => t = u
    /\ ReturnedIsAnchored

LEMMA NonceInvStep ==
  ASSUME TypeOK, NonceInv, [Next]_vars
  PROVE  NonceInv'
  <1> USE DEF TypeOK, Transactions, NonceInv, ReturnedIsAnchored, Succeeded
  <1>1. ASSUME NEW c \in Calls, Acquire(c) \/ Die(c) PROVE NonceInv'
    BY <1>1 DEF Acquire, Die, Throw, Goto, Sending, chainVars
  <1>2. ASSUME NEW c \in Calls, CallRuns(c) PROVE NonceInv'
    <2>1. CASE BuildTransactionRequest(c)
      BY <2>1 DEF BuildTransactionRequest, Goto, lockVars, chainVars
    <2>2. CASE SetGasPrice(c)
      BY <2>2 DEF SetGasPrice, Goto, lockVars, chainVars
    <2>3. CASE PreparationFails(c)
      BY <2>3
      DEF PreparationFails, AttemptFails, NextAttempt, OutOfAttempts, Throw, Goto,
          chainVars
    <2>4. CASE NonceHasExpired(c) \/ ConfirmationFails(c) \/ CheckFails(c)
      BY <2>4
      DEF NonceHasExpired, ConfirmationFails, CheckFails, AttemptFails, NextAttempt,
          OutOfAttempts, Throw, Goto, chainVars
    <2>5. CASE SubmitTransaction(c)
      BY <2>5 DEF SubmitTransaction, Tx, Goto
    <2>6. CASE SubmissionFails(c)
      <3>1. /\ pc' \in [Calls -> CallStep] /\ \A d \in Calls \ {c} : pc'[d] = pc[d]
            /\ pc'[c] \in {"pricing", "ended"}
            /\ UNCHANGED <<nonce, returned, mined, reverted, txCount>>
        BY <2>6
        DEF SubmissionFails, AttemptFails, NextAttempt, OutOfAttempts, Throw, Goto,
            CallStep
      <3>2. \A t \in pool' : t \in pool \/ t = Tx(c, attempt[c])
        BY <2>6 DEF SubmissionFails
      <3>3. \A t \in pool' \cup mined' :
              t.nonce = nonce'[t.call] /\ pc'[t.call] \notin {"waiting", "building"}
        <4>1. ASSUME NEW t \in pool' \cup mined', t # Tx(c, attempt[c])
              PROVE  /\ t \in pool \cup mined /\ t.call \in Calls
                     /\ t.nonce = nonce[t.call] /\ pc[t.call] \notin {"waiting", "building"}
          BY <3>1, <3>2, <4>1
        <4>2. Tx(c, attempt[c]).nonce = nonce[c] /\ Tx(c, attempt[c]).call = c
          BY DEF Tx
        <4> QED
          BY <3>1, <4>1, <4>2
      <3> QED
        BY <3>1, <3>3
    <2>7. CASE ConfirmTransaction(c) \/ CheckSucceeds(c)
      <3>1. PICK tx \in Succeeded : tx.call = c /\ Return(c, tx)
        BY <2>7 DEF ConfirmTransaction, CheckSucceeds, Tx
      <3>2. UNCHANGED <<nonce, pool, mined, reverted, txCount>>
        BY <3>1 DEF Return, chainVars
      <3>3. \A d \in Calls : pc'[d] = pc[d] \/ pc'[d] = "ended"
        BY <3>1 DEF Return, Goto
      <3>4. \A d \in Calls : \A t \in returned'[d] :
              t \in returned[d] \/ (d = c /\ t = tx)
        BY <3>1 DEF Return
      <3>5. ReturnedIsAnchored'
        BY <3>1, <3>2, <3>4
      <3>6. \A t \in pool' \cup mined' :
              t.nonce = nonce'[t.call] /\ pc'[t.call] \notin {"waiting", "building"}
        <4>1. ASSUME NEW t \in pool' \cup mined'
              PROVE  /\ t \in pool \cup mined /\ t.call \in Calls
                     /\ t.nonce = nonce[t.call] /\ pc[t.call] \notin {"waiting", "building"}
          BY <3>2, <4>1
        <4> QED
          BY <3>2, <3>3, <4>1
      <3> QED
        BY <3>2, <3>5, <3>6
    <2> QED
      BY <1>2, <2>1, <2>2, <2>3, <2>4, <2>5, <2>6, <2>7 DEF CallRuns
  <1>3. ASSUME NEW tx \in pool, Mine(tx) PROVE NonceInv'
    <2>1. tx \notin mined
      BY <1>3 DEF Mine
    <2>2. Succeeded \subseteq Succeeded'
      BY <1>3, <2>1 DEF Mine
    <2> QED
      BY <1>3, <2>1, <2>2 DEF Mine, callVars
  <1>4. CASE LoseLock \/ UNCHANGED vars
    BY <1>4 DEF LoseLock, vars, callVars, chainVars
  <1> QED
    BY <1>1, <1>2, <1>3, <1>4 DEF Next

LEMMA NonceInvHolds == SafetySpec => []NonceInv
  <1>1. Init => NonceInv
    BY DEF Init, NonceInv, ReturnedIsAnchored
  <1> QED
    BY <1>1, NonceInvStep, TypeCorrect, PTL DEF SafetySpec

\* AnchorsAtMostOnce: whatever times out or is mined late, one call puts its root
\* on chain once at most.
THEOREM RootsAnchoredOnce == SafetySpec => []AnchorsAtMostOnce
  <1>1. NonceInv => AnchorsAtMostOnce
    BY DEF NonceInv, AnchorsAtMostOnce
  <1> QED
    BY <1>1, NonceInvHolds, PTL

\* ReturnedIsAnchored: a call returns only its own transaction, mined with success.
THEOREM ReturnedAreAnchored == SafetySpec => []ReturnedIsAnchored
  <1>1. NonceInv => ReturnedIsAnchored
    BY DEF NonceInv
  <1> QED
    BY <1>1, NonceInvHolds, PTL

-----------------------------------------------------------------------------
(* The advisory lock.                                                      *)

LockInv == lockLosses = 0 => \A c \in Calls : pc[c] \in Sending => lock = c

\* SendsAlone: as long as the lock's connections live, calls do not overlap.
THEOREM CallsDoNotOverlap == SafetySpec => []SendsAlone
  <1>1. Init => LockInv
    BY DEF Init, LockInv, Sending
  <1>2. TypeOK /\ LockInv /\ [Next]_vars => LockInv'
    <2> SUFFICES ASSUME TypeOK, LockInv, [Next]_vars PROVE LockInv'
      OBVIOUS
    <2> USE NoCallAssumption DEF TypeOK, LockInv, Sending
    <2>1. ASSUME NEW c \in Calls, Acquire(c) \/ Die(c) PROVE LockInv'
      BY <2>1 DEF Acquire, Die, Throw, Goto, ReleaseLock
    <2>2. ASSUME NEW c \in Calls, CallRuns(c) PROVE LockInv'
      <3>1. CASE BuildTransactionRequest(c) \/ SetGasPrice(c) \/ SubmitTransaction(c)
        BY <3>1
        DEF BuildTransactionRequest, SetGasPrice, SubmitTransaction, Goto, lockVars
      <3>2. CASE PreparationFails(c) \/ NonceHasExpired(c)
        BY <3>2
        DEF PreparationFails, NonceHasExpired, AttemptFails, NextAttempt, OutOfAttempts,
            Throw, Goto, ReleaseLock, lockVars
      <3>3. CASE SubmissionFails(c) \/ ConfirmationFails(c) \/ CheckFails(c)
        BY <3>3
        DEF SubmissionFails, ConfirmationFails, CheckFails, AttemptFails, NextAttempt,
            OutOfAttempts, Throw, Goto, ReleaseLock, lockVars
      <3>4. CASE ConfirmTransaction(c) \/ CheckSucceeds(c)
        BY <3>4 DEF ConfirmTransaction, CheckSucceeds, Return, Goto, ReleaseLock
      <3> QED
        BY <2>2, <3>1, <3>2, <3>3, <3>4 DEF CallRuns
    <2>3. ASSUME NEW tx \in pool, Mine(tx) PROVE LockInv'
      BY <2>3 DEF Mine, callVars, lockVars
    <2>4. CASE LoseLock
      BY <2>4, RetriesAssumption DEF LoseLock
    <2>5. CASE UNCHANGED vars
      BY <2>5 DEF vars, callVars, lockVars
    <2> QED
      BY <2>1, <2>2, <2>3, <2>4, <2>5 DEF Next
  <1>3. LockInv => SendsAlone
    BY DEF LockInv, SendsAlone
  <1> QED
    BY <1>1, <1>2, <1>3, TypeCorrect, PTL DEF SafetySpec
-----------------------------------------------------------------------------
(* The abstract call.                                                      *)

\* What a call looks like from outside, and what the chain holds of it.
OutcomeOf(c) ==
    IF pc[c] = "waiting" THEN "waiting"
    ELSE IF pc[c] # "ended" THEN "sending"
    ELSE IF returned[c] = {} THEN "failed" ELSE "anchored"
EntryOf(t) == [attempt |-> t.attempt, succeeded |-> t \in Succeeded]

Once == INSTANCE SendOnce
          WITH outcome <- [c \in Calls |-> OutcomeOf(c)],
               onChain <- [c \in Calls |-> {EntryOf(t) : t \in {u \in mined : u.call = c}}]
ImplementsSendOnce == Once!SendSpec

\* A step of a call, seen from outside: it goes on, ends, or returns a transaction.
LEMMA CallMoves ==
  ASSUME TypeOK, NEW c \in Calls, Acquire(c) \/ CallRuns(c) \/ Die(c)
  PROVE  /\ UNCHANGED <<mined, reverted>>
         /\ \/ pc[c] = "waiting" /\ pc'[c] \in Sending
            \/ pc[c] \in Sending /\ pc'[c] \in Sending \cup {"ended"}
         /\ \A d \in Calls \ {c} : pc'[d] = pc[d] /\ returned'[d] = returned[d]
         /\ \/ returned'[c] = returned[c]
            \/ /\ pc'[c] = "ended"
               /\ \/ returned'[c] = {}
                  \/ \E tx \in Succeeded : tx.call = c /\ returned'[c] = {tx}
  <1> USE DEF TypeOK, Sending
  <1>1. CASE Acquire(c) \/ Die(c)
    BY <1>1 DEF Acquire, Die, Throw, Goto, chainVars
  <1>2. CASE BuildTransactionRequest(c) \/ SetGasPrice(c) \/ SubmitTransaction(c)
    BY <1>2 DEF BuildTransactionRequest, SetGasPrice, SubmitTransaction, Goto, chainVars
  <1>3. CASE PreparationFails(c) \/ NonceHasExpired(c)
    BY <1>3
    DEF PreparationFails, NonceHasExpired, AttemptFails, NextAttempt, OutOfAttempts,
        Throw, Goto, chainVars
  <1>4. CASE SubmissionFails(c) \/ ConfirmationFails(c) \/ CheckFails(c)
    BY <1>4
    DEF SubmissionFails, ConfirmationFails, CheckFails, AttemptFails, NextAttempt,
        OutOfAttempts, Throw, Goto, chainVars
  <1>5. CASE ConfirmTransaction(c) \/ CheckSucceeds(c)
    <2>1. PICK tx \in Succeeded : tx.call = c /\ Return(c, tx)
      BY <1>5 DEF ConfirmTransaction, CheckSucceeds, Tx
    <2> QED
      BY <1>5, <2>1 DEF ConfirmTransaction, CheckSucceeds, Return, Goto, chainVars
  <1> QED
    BY <1>1, <1>2, <1>3, <1>4, <1>5 DEF CallRuns

\* A call that has not ended has returned nothing.
UnreturnedInv == \A c \in Calls : pc[c] # "ended" => returned[c] = {}

LEMMA UnreturnedStep ==
  ASSUME TypeOK, UnreturnedInv, [Next]_vars
  PROVE  UnreturnedInv'
  <1>1. ASSUME NEW c \in Calls, Acquire(c) \/ CallRuns(c) \/ Die(c) PROVE UnreturnedInv'
    BY <1>1, CallMoves DEF UnreturnedInv, Sending
  <1>2. CASE UNCHANGED callVars
    BY <1>2 DEF callVars, UnreturnedInv
  <1> QED
    BY <1>1, <1>2 DEF Next, Mine, LoseLock, vars

\* A step of a call begins it, ends it or is invisible.
LEMMA CallStepMaps ==
  ASSUME TypeOK, UnreturnedInv, NEW c \in Calls, Acquire(c) \/ CallRuns(c) \/ Die(c)
  PROVE  [Once!SendNext]_(Once!sends)
  <1> DEFINE outcome == [d \in Calls |-> OutcomeOf(d)]
             onChain == [d \in Calls |-> {EntryOf(t) : t \in {u \in mined : u.call = d}}]
  <1>1. UNCHANGED onChain
    <2>1. UNCHANGED <<mined, Succeeded>>
      BY CallMoves DEF Succeeded
    <2> QED
      BY <2>1 DEF EntryOf
  <1>2. outcome' = [outcome EXCEPT ![c] = OutcomeOf(c)']
    <2>1. ASSUME NEW d \in Calls \ {c} PROVE OutcomeOf(d)' = OutcomeOf(d)
      BY CallMoves DEF OutcomeOf
    <2> QED
      BY <2>1
  <1>3. CASE pc[c] = "waiting"
    <2>1. OutcomeOf(c) = "waiting" /\ OutcomeOf(c)' = "sending"
      BY <1>3, CallMoves DEF OutcomeOf, Sending
    <2>2. Once!Begin(c)
      BY <1>1, <1>2, <2>1 DEF Once!Begin, Once!Becomes
    <2> QED
      BY <2>2 DEF Once!SendNext
  <1>4. CASE pc[c] \in Sending
    <2>1. OutcomeOf(c) = "sending" /\ returned[c] = {}
      BY <1>4 DEF OutcomeOf, UnreturnedInv, Sending
    <2>2. CASE pc'[c] \in Sending
      <3>1. OutcomeOf(c)' = "sending"
        BY <2>2 DEF OutcomeOf, Sending
      <3> QED
        BY <1>1, <1>2, <2>1, <3>1 DEF Once!sends
    <2>3. CASE pc'[c] = "ended" /\ returned'[c] = {}
      <3>1. OutcomeOf(c)' = "failed"
        BY <2>3 DEF OutcomeOf, Sending
      <3>2. Once!Fail(c)
        BY <1>1, <1>2, <2>1, <3>1 DEF Once!Fail, Once!Becomes
      <3> QED
        BY <3>2 DEF Once!SendNext
    <2>4. CASE pc'[c] = "ended" /\ returned'[c] # {}
      <3>1. OutcomeOf(c)' = "anchored"
        BY <2>4 DEF OutcomeOf, Sending
      <3>2. PICK tx \in Succeeded : tx.call = c
        BY <2>1, <2>4, CallMoves
      <3>3. EntryOf(tx) \in onChain[c] /\ EntryOf(tx).succeeded
        BY <3>2 DEF Succeeded, EntryOf
      <3>4. Once!Return(c)
        BY <1>1, <1>2, <2>1, <3>1, <3>3 DEF Once!Return, Once!Becomes
      <3> QED
        BY <3>4 DEF Once!SendNext
    <2> QED
      BY <1>4, <2>2, <2>3, <2>4, CallMoves
  <1> QED
    BY <1>3, <1>4, CallMoves

\* A block puts a transaction on chain for a call that has none there.
LEMMA MiningMaps ==
  ASSUME TypeOK, NonceInv, NEW tx \in pool, Mine(tx)
  PROVE  [Once!SendNext]_(Once!sends)
  <1> DEFINE outcome == [d \in Calls |-> OutcomeOf(d)]
             onChain == [d \in Calls |-> {EntryOf(t) : t \in {u \in mined : u.call = d}}]
             c == tx.call
             entry == [attempt |-> tx.attempt, succeeded |-> (tx \in Succeeded)']
  <1>1. tx \in Transactions /\ c \in Calls
    BY DEF TypeOK, Transactions
  <1>2. UNCHANGED outcome
    <2>1. UNCHANGED <<pc, returned>>
      BY DEF Mine, callVars
    <2> QED
      BY <2>1 DEF OutcomeOf
  <1>3. ASSUME NEW u \in mined PROVE u.call # c
    <2>1. tx.nonce = txCount /\ tx.nonce = nonce[c]
      BY DEF Mine, NonceInv
    <2>2. u.nonce < txCount /\ u.nonce = nonce[u.call]
      BY DEF NonceInv
    <2> QED
      BY <2>1, <2>2 DEF TypeOK, Transactions
  <1>4. mined' = mined \cup {tx} /\ \A u \in mined : EntryOf(u)' = EntryOf(u)
    <2>1. mined' = mined \cup {tx} /\ tx \notin mined
      BY <1>3 DEF Mine
    <2>2. ASSUME NEW u \in mined PROVE u \in Succeeded <=> (u \in Succeeded)'
      BY <2>1 DEF Mine, Succeeded
    <2>3. ASSUME NEW u \in mined PROVE EntryOf(u)' = EntryOf(u)
      BY <2>2 DEF EntryOf
    <2> QED
      BY <2>1, <2>3
  <1>5. onChain[c] = {}
    BY <1>1, <1>3
  <1>6. onChain' = [onChain EXCEPT ![c] = {entry}]
    <2>1. ASSUME NEW d \in Calls, d # c PROVE onChain'[d] = onChain[d]
      BY <1>4, <2>1
    <2>2. onChain'[c] = {entry}
      BY <1>1, <1>3, <1>4 DEF EntryOf
    <2> QED
      BY <1>1, <2>1, <2>2
  <1>7. entry \in Once!Entries
    BY <1>1 DEF Once!Entries, Transactions
  <1>8. outcome[c] # "waiting"
    BY <1>1 DEF NonceInv, OutcomeOf, TypeOK, CallStep, Sending
  <1>9. Once!Land(c)
    BY <1>1, <1>2, <1>5, <1>6, <1>7, <1>8 DEF Once!Land
  <1> QED
    BY <1>1, <1>9 DEF Once!SendNext

\* The service implements SendOnce: calls that share a wallet, and a lock that may be
\* lost, each put one transaction on chain at most and return only what is there.
THEOREM SendsImplementOnce == SafetySpec => ImplementsSendOnce
  <1>1. Init => UnreturnedInv /\ Once!SendInit
    BY DEF Init, UnreturnedInv, Once!SendInit, OutcomeOf
  <1>2. TypeOK /\ NonceInv /\ UnreturnedInv /\ [Next]_vars => [Once!SendNext]_(Once!sends)
    <2> SUFFICES ASSUME TypeOK, NonceInv, UnreturnedInv, [Next]_vars
                 PROVE  [Once!SendNext]_(Once!sends)
      OBVIOUS
    <2>1. CASE LoseLock \/ UNCHANGED vars
      <3>1. UNCHANGED <<pc, returned, mined, Succeeded>>
        BY <2>1 DEF LoseLock, vars, callVars, chainVars, Succeeded
      <3> QED
        BY <3>1 DEF Once!sends, OutcomeOf, EntryOf
    <2> QED
      BY <2>1, CallStepMaps, MiningMaps DEF Next
  <1> QED
    BY <1>1, <1>2, UnreturnedStep, TypeCorrect, NonceInvHolds, PTL
    DEF SafetySpec, ImplementsSendOnce, Once!SendSpec
=============================================================================
