------------------------------ MODULE GasPrice ------------------------------
(***************************************************************************)
(* The fees of the attempts of one sendTransaction call                    *)
(* (EthereumBlockchainService.setGasPrice): every attempt competes with    *)
(* the earlier ones for the same nonce, and the network takes a            *)
(* replacement only if it pays enough more, while its own estimates go up  *)
(* and down between the attempts.  Fees are BigNumbers of wei: they do not *)
(* overflow, and their division rounds down.                               *)
(***************************************************************************)
EXTENDS Integers, Sequences

CONSTANTS
    Estimates,   \* maxPriorityFeePerGas (or gasPrice) the node may estimate
    BaseFees,    \* how much higher it may estimate maxFeePerGas
    MaxRetries   \* MAX_RETRIES

ASSUME FeesAssumption ==
    Estimates \subseteq Nat /\ BaseFees \subseteq Nat /\ MaxRetries \in Nat

VARIABLES
    eip1559,            \* the network has EIP-1559 fees
    overrideGasConfig,  \* the gas limit is configured
    step,               \* of the attempt: "pricing", then "sending"
    attempt,            \* its index
    txData,             \* {} or {the fees of the transaction request}
    highest,            \* the highest estimate of the price so far
    sent                \* the fees of the transactions given to the network, in order

vars == <<eip1559, overrideGasConfig, step, attempt, txData, highest, sent>>

\* The price is maxPriorityFeePerGas and the cap maxFeePerGas, with the base fee
\* they were estimated beside; without EIP-1559 both are gasPrice, beside nothing.
Fees == [price : Nat, baseFee : Nat, cap : Nat]
EstimatedBaseFees == IF eip1559 THEN BaseFees ELSE {0}

Init ==
    /\ eip1559 \in BOOLEAN /\ overrideGasConfig \in BOOLEAN
    /\ step = "pricing" /\ attempt = 0
    /\ txData = {} /\ sent = <<>>
    /\ highest = 0

Larger(m, n) == IF m > n THEN m ELSE n

\* Mutants: only the estimate is increased; the increase of the transaction's own
\* price is multiplied by the attempt, too.
IncreaseEstimate(est, n, previous) == est + (est \div 10) * n
IncreaseBoth(est, n, previous) ==
    Larger(est + (est \div 10) * n, previous + (previous \div 10) * n)

\* increaseGasPricePerAttempt
Increase(est, n, previous) ==
    LET increaseEstimate == est + (est \div 10) * n
        increaseTransaction == previous + previous \div 10
    IN  IF n = 0 THEN increaseEstimate ELSE Larger(increaseEstimate, increaseTransaction)

\* A mutant: the cap stays as it was estimated.
EstimatedMaxFee(new, est, base) == base + est

\* What is added to the price is added to the estimated cap.
MaxFee(new, est, base) == base + new

\* The price before is that of txData, or the estimate if txData has none yet.
PreviousPrices(est) == IF txData = {} THEN {est} ELSE {fees.price : fees \in txData}

SetGasPrice ==
    /\ step = "pricing" /\ attempt < MaxRetries
    /\ ~overrideGasConfig
    /\ \E est \in Estimates, base \in EstimatedBaseFees :
         /\ highest' = Larger(highest, est)
         /\ \E previous \in PreviousPrices(est) :
              LET new == Increase(est, attempt, previous)
              IN  txData' = {[price |-> new, baseFee |-> base, cap |-> MaxFee(new, est, base)]}
    /\ step' = "sending"
    /\ UNCHANGED <<eip1559, overrideGasConfig, attempt, sent>>

\* With overrideGasConfig only the gas limit is set, and no fee is.
SetGasLimit ==
    /\ step = "pricing" /\ attempt < MaxRetries
    /\ overrideGasConfig
    /\ step' = "sending"
    /\ UNCHANGED <<eip1559, overrideGasConfig, attempt, txData, highest, sent>>

\* The attempt is over, with or without a transaction; txData stays as it is.
NextAttempt ==
    /\ step' = "pricing" /\ attempt' = attempt + 1
    /\ UNCHANGED <<eip1559, overrideGasConfig, txData>>

\* The node gives no estimate.
NoEstimate ==
    /\ step = "pricing" /\ attempt < MaxRetries
    /\ ~overrideGasConfig
    /\ NextAttempt
    /\ UNCHANGED <<highest, sent>>

\* The wallet fills in the node's estimates where txData has no fees.
SendTransaction ==
    /\ step = "sending"
    /\ \/ \E fees \in txData : sent' = Append(sent, fees) /\ UNCHANGED highest
       \/ /\ txData = {}
          /\ \E est \in Estimates, base \in EstimatedBaseFees :
               /\ sent' = Append(sent, [price |-> est, baseFee |-> base, cap |-> base + est])
               /\ highest' = Larger(highest, est)
    /\ NextAttempt

\* The gas cannot be estimated, or the transaction is refused.
NothingSent ==
    /\ step = "sending"
    /\ NextAttempt
    /\ UNCHANGED <<highest, sent>>

Next == SetGasPrice \/ SetGasLimit \/ NoEstimate \/ SendTransaction \/ NothingSent
Spec == Init /\ [][Next]_vars

-----------------------------------------------------------------------------
(* Properties.                                                             *)

FeesTyped ==
    /\ overrideGasConfig \in BOOLEAN
    /\ step \in {"pricing", "sending"}
    /\ attempt \in Nat
    /\ txData \subseteq Fees
    /\ highest \in Nat
    /\ sent \in Seq(Fees)

\* A tenth more, short of the part of a wei that division drops.  From ten wei on it is
\* a wei more at least; below ten it may be no more at all, and the comment of the code
\* (a tenth at least, or the transaction fails) does not hold.
Outbids(new, old) == 10 * new > 11 * old - 10

\* A transaction outbids every one that was sent before it for the same nonce,
\* however far the estimates have fallen since and whatever attempts were lost in
\* between (increaseGasPricePerAttempt).
RetriesOutbid ==
    ~overrideGasConfig =>
        \A j \in DOMAIN sent : \A i \in 1..(j - 1) : Outbids(sent[j].price, sent[i].price)

\* As long as the base fee has not fallen, the cap of a transaction rises above that
\* of every earlier one by a tenth of the price at least, although it is made anew of
\* the latest estimate each time.  (Where the base fee falls the cap may fall too.)
CapsRise ==
    ~overrideGasConfig =>
        \A j \in DOMAIN sent : \A i \in 1..(j - 1) :
            sent[j].baseFee >= sent[i].baseFee =>
                10 * (sent[j].cap - sent[i].cap) > sent[i].price - 10

\* A call does not bid against itself: after n attempts it offers 1.1^n times the
\* highest estimate it was given at most, although each attempt is increased over
\* the larger of the estimate and its own last price.
PriceIsBounded ==
    \A fees \in txData : fees.price * 10 ^ attempt <= highest * 11 ^ attempt
=============================================================================
