---------------------------- MODULE Aggregation ----------------------------
(***************************************************************************)
(* splitSortedAggregatableTransactions, getMaxKeyAndValueFormMap and       *)
(* AggregateFundsTransactions (src/miner/block.go 351-483).               *)
(*                                                                         *)
(* The before-aggregation store and the two tallies DifferentSenders and   *)
(* DifferentReceivers are global storage: they persist from one call to    *)
(* the next, and funds transactions arrive in between.  Amounts and the    *)
(* fee of the AggTx are left out: no property here is about them.         *)
(***************************************************************************)
EXTENDS Naturals, Sequences, SequencesExt, FiniteSetsExt

CONSTANTS
    Addrs,      \* account addresses
    ZeroAddr,   \* [32]byte{}, getMaxKeyAndValueFormMap's initial key
    Txs,        \* the funds transactions that may arrive
    From,       \* Txs -> Addrs
    To,         \* Txs -> Addrs
    TallyMod    \* 2^32 scaled down: the tallies are uint32

ASSUME ZeroAddr \notin Addrs
ASSUME From \in [Txs -> Addrs] /\ To \in [Txs -> Addrs]

VARIABLES
    store,        \* storage's FundsTxBeforeAggregation
    ds,           \* storage.DifferentSenders
    dr,           \* storage.DifferentReceivers
    pc,           \* "idle" between calls, "loop" inside the for loop
    fundsTxData,  \* the FundsTx hashes the call appended to b
    aggTxs,       \* the AggTxs the call appended to b.AggTxData
    start,        \* the store when the call began (history)
    arrived       \* the transactions written so far (each at most once)

vars == <<store, ds, dr, pc, fundsTxData, aggTxs, start, arrived>>

AggTx == [senders : Seq(Addrs), receivers : Seq(Addrs), members : Seq(Txs)]
-----------------------------------------------------------------------------
(* The pairs <<max, key>> getMaxKeyAndValueFormMap may return: the first  *)
(* key with the largest value in Go's random map order, or <<0, [32]byte{}>> *)
(* when every value is 0.                                                  *)
getMaxKeyAndValueFormMap(m) ==
    LET max == Max(Range(m))
    IN  IF max = 0 THEN {<<0, ZeroAddr>>}
                   ELSE {<<max, k>> : k \in {a \in DOMAIN m : m[a] = max}}

(* storage.DifferentX[k] = storage.DifferentX[k] - 1 for each tx of group, *)
(* in uint32.                                                              *)
Decrement(m, group, Side) ==
    [a \in DOMAIN m |-> (m[a] - Cardinality({t \in group : Side[t] = a})) % TallyMod]

(* Mutant: len(SortedAndSelectedFundsTx) > 0 builds an AggTx. *)
AggregateFundsTransactionsFromOne(seq) ==
    \/ /\ Len(seq) > 0
       /\ aggTxs' = Append(aggTxs, [senders |-> [i \in 1..Len(seq) |-> From[seq[i]]],
                                    receivers |-> [i \in 1..Len(seq) |-> To[seq[i]]],
                                    members |-> seq])
       /\ UNCHANGED fundsTxData
    \/ Len(seq) = 0 /\ UNCHANGED <<fundsTxData, aggTxs>>

(* Mutant: the single-tx branch is missing. *)
AggregateFundsTransactionsDropsSingle(seq) ==
    \/ /\ Len(seq) > 1
       /\ aggTxs' = Append(aggTxs, [senders |-> [i \in 1..Len(seq) |-> From[seq[i]]],
                                    receivers |-> [i \in 1..Len(seq) |-> To[seq[i]]],
                                    members |-> seq])
       /\ UNCHANGED fundsTxData
    \/ Len(seq) <= 1 /\ UNCHANGED <<fundsTxData, aggTxs>>

(* Mutant: the sender side is cut when senders outnumber receivers. *)
AggregateFundsTransactionsSwapped(seq) ==
    \/ /\ Len(seq) > 1
       /\ LET senders   == [i \in 1..Len(seq) |-> From[seq[i]]]
              receivers == [i \in 1..Len(seq) |-> To[seq[i]]]
              nS == Cardinality(Range(senders))
              nR == Cardinality(Range(receivers))
          IN  aggTxs' = Append(aggTxs,
                 [senders   |-> IF nS > nR THEN SubSeq(senders, 1, 1) ELSE senders,
                  receivers |-> IF nS < nR THEN SubSeq(receivers, 1, 1) ELSE receivers,
                  members   |-> seq])
       /\ UNCHANGED fundsTxData
    \/ Len(seq) = 1 /\ fundsTxData' = Append(fundsTxData, seq[1]) /\ UNCHANGED aggTxs
    \/ Len(seq) = 0 /\ UNCHANGED <<fundsTxData, aggTxs>>

(* AggregateFundsTransactions on the selected transactions in store order: *)
(* more than one becomes an AggTx that lists the single common sender if   *)
(* there are fewer distinct senders than receivers, else the single common *)
(* receiver if there are fewer receivers; a single one goes to FundsTxData; *)
(* none is the "NullPointer" error, which the caller ignores.              *)
AggregateFundsTransactions(seq) ==
    \/ /\ Len(seq) > 1
       /\ LET senders   == [i \in 1..Len(seq) |-> From[seq[i]]]
              receivers == [i \in 1..Len(seq) |-> To[seq[i]]]
              nrOfSender    == Cardinality(Range(senders))
              nrOfReceivers == Cardinality(Range(receivers))
          IN  aggTxs' = Append(aggTxs,
                 [senders   |-> IF nrOfSender < nrOfReceivers THEN SubSeq(senders, 1, 1) ELSE senders,
                  receivers |-> IF nrOfSender > nrOfReceivers THEN SubSeq(receivers, 1, 1) ELSE receivers,
                  members   |-> seq])
       /\ UNCHANGED fundsTxData
    \/ /\ Len(seq) = 1
       /\ fundsTxData' = Append(fundsTxData, seq[1])
       /\ UNCHANGED aggTxs
    \/ /\ Len(seq) = 0
       /\ UNCHANGED <<fundsTxData, aggTxs>>
-----------------------------------------------------------------------------
Init ==
    /\ store = {}
    /\ ds = [a \in Addrs |-> 0]
    /\ dr = [a \in Addrs |-> 0]
    /\ pc = "idle"
    /\ fundsTxData = <<>>
    /\ aggTxs = <<>>
    /\ start = {}
    /\ arrived = {}

(* A funds transaction is written to the before-aggregation store and     *)
(* counted in both tallies, between calls.                                *)
Arrive(t) ==
    /\ pc = "idle"
    /\ t \notin arrived
    /\ store' = store \cup {t}
    /\ ds' = [ds EXCEPT ![From[t]] = (@ + 1) % TallyMod]
    /\ dr' = [dr EXCEPT ![To[t]] = (@ + 1) % TallyMod]
    /\ arrived' = arrived \cup {t}
    /\ UNCHANGED <<pc, fundsTxData, aggTxs, start>>

(* splitSortedAggregatableTransactions(b) is called on a new block. *)
Start ==
    /\ pc = "idle"
    /\ pc' = "loop"
    /\ fundsTxData' = <<>>
    /\ aggTxs' = <<>>
    /\ start' = store
    /\ UNCHANGED <<store, ds, dr, arrived>>

(* Mutant: the receiver branch does not decrement DifferentSenders. *)
IterateKeepsSenderTally ==
    /\ pc = "loop"
    /\ \E <<maxSender, addressSender>> \in getMaxKeyAndValueFormMap(ds) :
       \E <<maxReceiver, addressReceiver>> \in getMaxKeyAndValueFormMap(dr) :
         LET bySender == maxSender >= maxReceiver
             group == IF bySender THEN {t \in store : From[t] = addressSender}
                                  ELSE {t \in store : To[t] = addressReceiver}
         IN  /\ \E seq \in SetToSeqs(group) : AggregateFundsTransactions(seq)
             /\ ds' = IF bySender THEN Decrement(ds, group, From) ELSE ds
             /\ dr' = Decrement(dr, group, To)
             /\ store' = store \ group
             /\ pc' = IF store' # {} THEN "loop" ELSE "idle"
    /\ UNCHANGED <<start, arrived>>

(* One pass of the for loop: select every stored tx of the most common    *)
(* sender (or, if the receiver count is larger, receiver), decrement both *)
(* tallies for each, aggregate them, delete them, and stop when the store *)
(* is empty (then DeleteAllFundsTxBeforeAggregation).                     *)
Iterate ==
    /\ pc = "loop"
    /\ \E <<maxSender, addressSender>> \in getMaxKeyAndValueFormMap(ds) :
       \E <<maxReceiver, addressReceiver>> \in getMaxKeyAndValueFormMap(dr) :
         LET txToAggregate ==
               IF maxSender >= maxReceiver
                 THEN {t \in store : From[t] = addressSender}
                 ELSE {t \in store : To[t] = addressReceiver}
         IN  /\ \E seq \in SetToSeqs(txToAggregate) : AggregateFundsTransactions(seq)
             /\ ds' = Decrement(ds, txToAggregate, From)
             /\ dr' = Decrement(dr, txToAggregate, To)
             /\ store' = store \ txToAggregate
             /\ pc' = IF store' # {} THEN "loop" ELSE "idle"
    /\ UNCHANGED <<start, arrived>>

Next ==
    \/ \E t \in Txs : Arrive(t)
    \/ Start
    \/ Iterate

Spec == Init /\ [][Next]_vars

(* The loop runs in the caller's goroutine and never blocks: weak         *)
(* fairness on a pass.  Arrivals and calls get none.                      *)
FairSpec == Spec /\ WF_vars(Iterate)
-----------------------------------------------------------------------------
TypeOK ==
    /\ store \subseteq Txs /\ arrived \subseteq Txs /\ start \subseteq Txs
    /\ ds \in [Addrs -> 0..(TallyMod - 1)] /\ dr \in [Addrs -> 0..(TallyMod - 1)]
    /\ pc \in {"idle", "loop"}
    /\ fundsTxData \in Seq(Txs)
    /\ \A i \in 1..Len(aggTxs) : aggTxs[i] \in AggTx /\ Len(aggTxs[i].members) > 1

(* The transactions of the block in the order they were appended: the    *)
(* plain FundsTxs, then the members of each AggTx.                        *)
BlockTxs == fundsTxData \o FlattenSeq([i \in 1..Len(aggTxs) |-> aggTxs[i].members])

(* When a call has returned, every transaction that was in the store when *)
(* it began is in the block exactly once, either as a plain FundsTx or as *)
(* a member of one AggTx, and no other is (spec 4.5, steps 5-7).          *)
BlockHoldsStoreOnce == pc = "idle" => IsInjective(BlockTxs) /\ Range(BlockTxs) = start

(* An AggTx names exactly its members' senders and receivers: the side    *)
(* that AggregateFundsTransactions cuts to one entry has a single common  *)
(* address (spec 4.5, step 4).                                            *)
AggTxNamesItsParties ==
    \A i \in 1..Len(aggTxs) :
        /\ Range(aggTxs[i].senders) = {From[m] : m \in Range(aggTxs[i].members)}
        /\ Range(aggTxs[i].receivers) = {To[m] : m \in Range(aggTxs[i].members)}

(* Every call of splitSortedAggregatableTransactions returns: the tallies *)
(* kept across calls always point at a sender or receiver that still has  *)
(* a stored transaction, so each pass empties a group.                    *)
AggregationTerminates == pc = "loop" ~> pc = "idle"
====
