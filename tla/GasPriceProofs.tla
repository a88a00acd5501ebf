--------------------------- MODULE GasPriceProofs ---------------------------
(* Proofs about GasPrice for all estimates and any number of attempts.      *)
EXTENDS GasPrice, TLAPS

\* A tenth, rounded down.
LEMMA Tenth ==
  ASSUME NEW n \in Nat
  PROVE  n \div 10 \in Nat /\ 10 * (n \div 10) <= n /\ n < 10 * (n \div 10) + 10
  OBVIOUS

\* A new price is natural and, after the first attempt, outbids every price up to
\* the one before it.
LEMMA IncreaseOutbids ==
  ASSUME NEW est \in Nat, NEW n \in Nat, NEW previous \in Nat
  PROVE  /\ Increase(est, n, previous) \in Nat
         /\ n > 0 => \A old \in Nat :
                       old <= previous => Outbids(Increase(est, n, previous), old)
  <1> DEFINE increaseEstimate == est + (est \div 10) * n
             increaseTransaction == previous + previous \div 10
             new == Increase(est, n, previous)
  <1>1. (est \div 10) * n \in Nat
    BY Tenth
  <1>2. increaseEstimate \in Nat
    BY <1>1
  <1>3. increaseTransaction \in Nat /\ 10 * increaseTransaction > 11 * previous - 10
    BY Tenth
  <1>4. new = IF n = 0 THEN increaseEstimate ELSE Larger(increaseEstimate, increaseTransaction)
    BY DEF Increase
  <1> HIDE DEF increaseEstimate, increaseTransaction, new
  <1>5. new \in Nat /\ (n > 0 => new >= increaseTransaction)
    BY <1>2, <1>3, <1>4 DEF Larger
  <1>6. n > 0 => \A old \in Nat : old <= previous => Outbids(new, old)
    BY <1>3, <1>5 DEF Outbids
  <1> QED
    BY <1>5, <1>6 DEF new

-----------------------------------------------------------------------------

Capped(fees) == fees.cap = fees.baseFee + fees.price

\* Where the call prices its transactions itself: txData has fees once something was
\* sent, these are not below those of any transaction sent, and above them when the
\* attempt is about to send.
PricedInv ==
    /\ step = "sending" => txData # {}
    /\ step = "pricing" /\ attempt = 0 => txData = {}
    /\ \A f, g \in txData : f = g
    /\ \A f \in txData : Capped(f)
    /\ \A i \in DOMAIN sent : Capped(sent[i]) /\ txData # {}
    /\ \A f \in txData : \A i \in DOMAIN sent :
         /\ f.price >= sent[i].price
         /\ step = "sending" => Outbids(f.price, sent[i].price)
    /\ \A j \in DOMAIN sent : \A i \in 1..(j - 1) : Outbids(sent[j].price, sent[i].price)

FeesInv == FeesTyped /\ (~overrideGasConfig => PricedInv)

LEMMA FeesStayTyped ==
  ASSUME FeesTyped, [Next]_vars
  PROVE  FeesTyped'
  <1>0. EstimatedBaseFees \subseteq Nat
    BY FeesAssumption DEF EstimatedBaseFees
  <1>1. CASE SetGasPrice
    <2>1. PICK est \in Estimates, base \in EstimatedBaseFees :
            /\ highest' = Larger(highest, est)
            /\ \E previous \in PreviousPrices(est) :
                 txData' = {[price |-> Increase(est, attempt, previous), baseFee |-> base,
                             cap |-> MaxFee(Increase(est, attempt, previous), est, base)]}
      BY <1>1 DEF SetGasPrice
    <2>2. PICK previous \in PreviousPrices(est) :
            txData' = {[price |-> Increase(est, attempt, previous), baseFee |-> base,
                        cap |-> MaxFee(Increase(est, attempt, previous), est, base)]}
      BY <2>1
    <2>3. est \in Nat /\ base \in Nat /\ previous \in Nat /\ attempt \in Nat
      BY <1>0, FeesAssumption DEF FeesTyped, Fees, PreviousPrices
    <2>4. Increase(est, attempt, previous) \in Nat
      BY <2>3, IncreaseOutbids
    <2>5. MaxFee(Increase(est, attempt, previous), est, base) \in Nat
      BY <2>3, <2>4 DEF MaxFee
    <2>6. txData' \subseteq Fees
      BY <2>2, <2>3, <2>4, <2>5 DEF Fees
    <2>7. highest' \in Nat
      BY <2>1, <2>3 DEF Larger, FeesTyped
    <2> QED
      BY <1>1, <2>6, <2>7 DEF SetGasPrice, FeesTyped
  <1>2. CASE SetGasLimit
    BY <1>2 DEF SetGasLimit, FeesTyped
  <1>3. CASE NoEstimate \/ NothingSent
    BY <1>3 DEF NoEstimate, NothingSent, NextAttempt, FeesTyped
  <1>4. CASE SendTransaction
    <2>1. CASE \E fees \in txData : sent' = Append(sent, fees) /\ UNCHANGED highest
      BY <1>4, <2>1 DEF SendTransaction, NextAttempt, FeesTyped
    <2>2. ASSUME NEW est \in Estimates, NEW base \in EstimatedBaseFees,
                 sent' = Append(sent, [price |-> est, baseFee |-> base, cap |-> base + est]),
                 highest' = Larger(highest, est)
          PROVE  FeesTyped'
      <3>1. est \in Nat /\ base \in Nat /\ base + est \in Nat
        BY <1>0, FeesAssumption
      <3>2. [price |-> est, baseFee |-> base, cap |-> base + est] \in Fees
        BY <3>1 DEF Fees
      <3>3. highest' \in Nat
        BY <2>2, <3>1 DEF Larger, FeesTyped
      <3>4. sent' \in Seq(Fees)
        BY <2>2, <3>2 DEF FeesTyped
      <3> QED
        BY <1>4, <3>3, <3>4 DEF SendTransaction, NextAttempt, FeesTyped
    <2> QED
      BY <1>4, <2>1, <2>2 DEF SendTransaction
  <1>5. CASE UNCHANGED vars
    BY <1>5 DEF vars, FeesTyped
  <1> QED
    BY <1>1, <1>2, <1>3, <1>4, <1>5 DEF Next

\* What setGasPrice leaves in txData outbids all that was sent.
LEMMA PricingOutbids ==
  ASSUME FeesTyped, PricedInv, SetGasPrice
  PROVE  PricedInv'
  <1>1. PICK est \in Estimates, base \in EstimatedBaseFees :
          \E previous \in PreviousPrices(est) :
            txData' = {[price |-> Increase(est, attempt, previous), baseFee |-> base,
                        cap |-> MaxFee(Increase(est, attempt, previous), est, base)]}
    BY DEF SetGasPrice
  <1>2. PICK previous \in PreviousPrices(est) :
          txData' = {[price |-> Increase(est, attempt, previous), baseFee |-> base,
                      cap |-> MaxFee(Increase(est, attempt, previous), est, base)]}
    BY <1>1
  <1>3. est \in Nat /\ base \in Nat /\ previous \in Nat /\ attempt \in Nat
    BY FeesAssumption DEF FeesTyped, Fees, PreviousPrices, EstimatedBaseFees
  <1> DEFINE new == Increase(est, attempt, previous)
             fees == [price |-> new, baseFee |-> base, cap |-> MaxFee(new, est, base)]
  <1>4. new \in Nat /\ (attempt > 0 => \A old \in Nat : old <= previous => Outbids(new, old))
    BY <1>3, IncreaseOutbids
  <1>5. txData' = {fees} /\ fees.price = new /\ Capped(fees)
    BY <1>2 DEF Capped, MaxFee
  <1> HIDE DEF new, fees
  <1>6. step = "pricing" /\ step' = "sending" /\ UNCHANGED sent
    BY DEF SetGasPrice
  <1>7. ASSUME NEW i \in DOMAIN sent
        PROVE  new >= sent[i].price /\ Outbids(new, sent[i].price)
    <2>0. sent[i] \in Fees
      BY <1>7 DEF FeesTyped
    <2>1. sent[i].price \in Nat
      BY <2>0 DEF Fees
    <2>2. txData # {} /\ attempt > 0
      BY <1>3, <1>6, <1>7 DEF PricedInv
    <2>3. PICK f \in txData : previous = f.price
      BY <2>2 DEF PreviousPrices
    <2>4. sent[i].price <= previous
      BY <1>7, <2>1, <2>3, <1>3 DEF PricedInv
    <2>5. Outbids(new, sent[i].price)
      BY <1>4, <2>1, <2>2, <2>4
    <2> QED
      BY <1>4, <2>1, <2>5 DEF Outbids
  <1>8. \A f \in txData' : \A i \in DOMAIN sent :
          f.price >= sent[i].price /\ Outbids(f.price, sent[i].price)
    BY <1>5, <1>7
  <1> QED
    BY <1>5, <1>6, <1>8 DEF PricedInv

\* The transaction that is sent is the one that was priced.
LEMMA SendingOutbids ==
  ASSUME FeesTyped, PricedInv, SendTransaction
  PROVE  PricedInv'
  <1>1. step = "sending" /\ txData # {}
    BY DEF SendTransaction, PricedInv
  <1>2. PICK fees \in txData : sent' = Append(sent, fees)
    BY <1>1 DEF SendTransaction
  <1>3. step' = "pricing" /\ txData' = txData /\ attempt' # 0
    BY DEF SendTransaction, NextAttempt, FeesTyped
  <1>4. fees \in Fees /\ sent \in Seq(Fees)
    BY DEF FeesTyped
  <1>5. DOMAIN sent = 1..Len(sent) /\ DOMAIN sent' = 1..(Len(sent) + 1)
    BY <1>2, <1>4
  <1>6. \A i \in 1..Len(sent) : sent'[i] = sent[i]
    BY <1>2, <1>4
  <1>7. sent'[Len(sent) + 1] = fees /\ Len(sent) \in Nat
    BY <1>2, <1>4
  <1>8. \A f \in txData : f = fees
    BY DEF PricedInv
  <1>9. \A i \in DOMAIN sent' : Capped(sent'[i])
    BY <1>5, <1>6, <1>7 DEF PricedInv
  <1>10. \A i \in DOMAIN sent' : fees.price >= sent'[i].price
    <2>1. \A i \in DOMAIN sent : fees.price >= sent[i].price
      BY DEF PricedInv
    <2>2. fees.price >= fees.price
      BY <1>4 DEF Fees
    <2> QED
      BY <1>5, <1>6, <1>7, <2>1, <2>2
  <1>11. \A j \in DOMAIN sent' : \A i \in 1..(j - 1) : Outbids(sent'[j].price, sent'[i].price)
    <2> TAKE j \in DOMAIN sent'
    <2> TAKE i \in 1..(j - 1)
    <2>1. CASE j \in 1..Len(sent)
      <3>1. i \in 1..Len(sent) /\ j \in DOMAIN sent
        BY <1>5, <1>7, <2>1
      <3>2. Outbids(sent[j].price, sent[i].price)
        BY <3>1 DEF PricedInv
      <3> QED
        BY <1>6, <2>1, <3>1, <3>2
    <2>2. CASE j = Len(sent) + 1
      <3>1. i \in 1..Len(sent) /\ i \in DOMAIN sent
        BY <1>5, <1>7, <2>2
      <3>2. Outbids(fees.price, sent[i].price)
        BY <1>1, <3>1 DEF PricedInv
      <3> QED
        BY <1>6, <1>7, <2>2, <3>1, <3>2
    <2> QED
      BY <1>5, <1>7, <2>1, <2>2
  <1>12. \A f, g \in txData : f = g
    BY <1>8
  <1>13. \A f \in txData : Capped(f)
    BY DEF PricedInv
  <1> QED
    BY <1>1, <1>3, <1>8, <1>9, <1>10, <1>11, <1>12, <1>13 DEF PricedInv

LEMMA FeesInvHolds == Spec => []FeesInv
  <1>1. Init => FeesInv
    BY DEF Init, FeesInv, FeesTyped, PricedInv
  <1>2. ASSUME FeesInv, [Next]_vars PROVE FeesInv'
    <2>1. FeesTyped /\ FeesTyped'
      BY <1>2, FeesStayTyped DEF FeesInv
    <2>2. ASSUME ~overrideGasConfig PROVE PricedInv'
      <3>1. PricedInv
        BY <1>2, <2>2 DEF FeesInv
      <3>2. CASE SetGasPrice
        BY <2>1, <3>1, <3>2, PricingOutbids
      <3>3. CASE SendTransaction
        BY <2>1, <3>1, <3>3, SendingOutbids
      <3>4. CASE NoEstimate \/ NothingSent
        BY <2>1, <3>1, <3>4 DEF NoEstimate, NothingSent, NextAttempt, PricedInv, FeesTyped
      <3>5. CASE UNCHANGED vars
        BY <3>1, <3>5 DEF vars, PricedInv
      <3> QED
        BY <1>2, <2>2, <3>2, <3>3, <3>4, <3>5 DEF Next, SetGasLimit
    <2>3. overrideGasConfig' = overrideGasConfig
      BY <1>2 DEF Next, SetGasPrice, SetGasLimit, NoEstimate, SendTransaction, NothingSent,
                  NextAttempt, vars
    <2> QED
      BY <2>1, <2>2, <2>3 DEF FeesInv
  <1> QED
    BY <1>1, <1>2, PTL DEF Spec

\* Every transaction outbids all that were sent before it, whatever the node estimates
\* and however many attempts there are (increaseGasPricePerAttempt).
THEOREM AttemptsOutbid == Spec => []RetriesOutbid
  <1>1. FeesInv => RetriesOutbid
    BY DEF FeesInv, PricedInv, RetriesOutbid
  <1> QED
    BY <1>1, FeesInvHolds, PTL

\* Unless the base fee falls, every cap rises above all caps before it, by a tenth of
\* the price at least (setGasPrice adds the increase to maxFeePerGas too).
THEOREM CapsRiseWithPrices == Spec => []CapsRise
  <1>1. FeesInv => CapsRise
    <2> SUFFICES ASSUME FeesInv, ~overrideGasConfig,
                        NEW j \in DOMAIN sent, NEW i \in 1..(j - 1),
                        sent[j].baseFee >= sent[i].baseFee
                 PROVE  10 * (sent[j].cap - sent[i].cap) > sent[i].price - 10
      BY DEF CapsRise
    <2>1. sent \in Seq(Fees) /\ i \in DOMAIN sent
      BY DEF FeesInv, FeesTyped
    <2>2. sent[i] \in Fees /\ sent[j] \in Fees
      BY <2>1
    <2>3. sent[i].cap = sent[i].baseFee + sent[i].price
      BY <2>1 DEF FeesInv, PricedInv, Capped
    <2>4. sent[j].cap = sent[j].baseFee + sent[j].price
      BY DEF FeesInv, PricedInv, Capped
    <2>5. 10 * sent[j].price > 11 * sent[i].price - 10
      BY DEF FeesInv, PricedInv, Outbids
    <2> QED
      BY <2>2, <2>3, <2>4, <2>5 DEF Fees
  <1> QED
    BY <1>1, FeesInvHolds, PTL
=============================================================================
