------------------------------ MODULE TxFetcher ------------------------------
(* The fetch phase of preValidate (src/miner/block.go 591-982, 1139-1170): *)
(* one goroutine per transaction category fetches the block's transactions *)
(* of that category and reports on the buffered errChan; preValidate reads *)
(* errChan until it has one message per goroutine or the first error.  A  *)
(* transaction is found in closed storage, in open storage, or requested   *)
(* from peers; the answer arrives on the category's p2p channel, or the    *)
(* TXFETCH_TIMEOUT fires first.  The AggTx fetcher starts a nested         *)
(* goroutine per aggregate that fetches its member FundsTxs over the same  *)
(* p2p.FundsTxChan as the funds fetcher and reports on a channel of one.   *)
EXTENDS Naturals, Sequences, SequencesExt

CONSTANTS
    Fetchers,          \* the categories whose fetch goroutines are modelled
    ReturnsOnTimeout,  \* categories whose fetcher returns after a timeout
    TxsOf,             \* TxsOf[f]: the block's tx hashes of category f
    Members,           \* Members[a]: the member FundsTx hashes of AggTx a
    Nested,            \* ids of the nested goroutines the AggTx fetcher starts
    Byzantine,         \* categories whose peers may answer with another tx
    Wrong,             \* the tx such a peer sends
    Nil,               \* the nil transaction pointer
    ChanCap            \* capacity of a p2p response channel

NrOfChannels == Cardinality(Fetchers)   \* nrOfChannels := 6
Goroutines == Fetchers \cup Nested
AggHashes == IF "agg" \in Fetchers THEN ToSet(TxsOf["agg"]) ELSE {}
Hashes == UNION {ToSet(TxsOf[f]) : f \in Fetchers}
            \cup UNION {ToSet(Members[a]) : a \in AggHashes}

ASSUME "funds" \in Fetchers /\ ReturnsOnTimeout \subseteq Fetchers
ASSUME \A f, g \in Fetchers : f # g => ToSet(TxsOf[f]) \cap ToSet(TxsOf[g]) = {}
ASSUME Wrong \notin Hashes /\ Nil \notin Hashes \cup {Wrong}
ASSUME DOMAIN Members = AggHashes \cup {Wrong} /\ Members[Wrong] = <<>>

VARIABLES
    initialSetup, \* the initialSetup argument of validate
    where,        \* where[h]: "closed", "open" or "net" (must be requested)
    pc,           \* pc[g]: the control point of goroutine g
    list,         \* list[g]: the hashes goroutine g fetches
    idx,          \* idx[g]: the loop index cnt + 1 of goroutine g
    got,          \* got[g]: the tx received, or Nil after a timeout
    msg,          \* msg[g]: the message g is sending on its error channel
    cont,         \* cont[g]: where g continues after that send
    slot,         \* slot[g]: the tx slice g has filled so far
    asked,        \* asked[c]: hashes requested on channel c, not yet answered
    p2p,          \* p2p[c]: the p2p response channel of category c
    errChan,      \* preValidate's error channel, capacity nrOfChannels
    errAgg,       \* errAggFundsTxFetchChan, capacity 1
    aggCnt,       \* the retry counter cnt of the AggTx fetcher
    pv,           \* preValidate: "collect", "ok" or "err"
    nils          \* nil messages preValidate has read

vars == <<initialSetup, where, pc, list, idx, got, msg, cont, slot, asked,
          p2p, errChan, errAgg, aggCnt, pv, nils>>

Tx(g) == list[g][idx[g]]

(* The p2p channel a goroutine receives on: the nested fetchers use the  *)
(* funds channel.                                                         *)
ChanOf(g) == IF g \in Nested THEN "funds" ELSE g

(* preValidate's own aggregatedFundsTxSlice: fetchAggTxData receives it   *)
(* by value and assigns a new slice to its parameter, so the one that     *)
(* preValidate appends to fundsTxSlice stays empty.                       *)
aggregatedFundsTxSlice == <<>>

(* A goroutine panic (nil pointer dereference) ends the whole process. *)
Crashed == \E g \in Goroutines : pc[g] = "panic"

(* errCh <- m, then continue at k.  The send blocks while the channel is *)
(* full, so it is a step of its own (SendErr).                            *)
SendThen(g, m, k) ==
    /\ pc' = [pc EXCEPT ![g] = "send"]
    /\ msg' = [msg EXCEPT ![g] = m]
    /\ cont' = [cont EXCEPT ![g] = k]

(* txSlice[cnt] = tx and on to the next hash. *)
Store(g, tx) ==
    /\ slot' = [slot EXCEPT ![g] = Append(@, tx)]
    /\ idx' = [idx EXCEPT ![g] = @ + 1]

(* What a goroutine step leaves alone, and the process still running.  *)
Frame == ~Crashed /\ UNCHANGED <<initialSetup, where, list, errChan, errAgg, pv, nils>>
-----------------------------------------------------------------------------
Init ==
    /\ initialSetup \in BOOLEAN
    /\ where \in [Hashes -> {"closed", "open", "net"}]
    /\ pc = [g \in Goroutines |-> IF g \in Nested THEN "idle" ELSE "loop"]
    /\ list = [g \in Goroutines |-> IF g \in Nested THEN <<>> ELSE TxsOf[g]]
    /\ idx = [g \in Goroutines |-> 1]
    /\ got = [g \in Goroutines |-> Nil]
    /\ msg = [g \in Goroutines |-> "nil"]
    /\ cont = [g \in Goroutines |-> "done"]
    /\ slot = [g \in Goroutines |-> <<>>]
    /\ asked = [c \in Fetchers |-> {}]
    /\ p2p = [c \in Fetchers |-> <<>>]
    /\ errChan = <<>>
    /\ errAgg = <<>>
    /\ aggCnt = 0
    /\ pv = "collect"
    /\ nils = 0

(* The goroutines that run the common fetch loop. *)
Plain == (Fetchers \ {"agg"}) \cup Nested

(* The loop body up to the request: a closed tx is taken during initial   *)
(* setup and otherwise fails the block; an open tx (or, for FundsTxs, a   *)
(* verified one of the invalid stash) is taken; else the tx is requested, *)
(* and a failing TxReq reports an error and returns.                      *)
Lookup(g) ==
    /\ g \in Plain /\ pc[g] = "loop"
    /\ idx[g] <= Len(list[g])
    /\ Frame
    /\ \/ /\ where[Tx(g)] = "closed" /\ initialSetup
          /\ Store(g, Tx(g))
          /\ UNCHANGED <<pc, msg, cont, asked>>
       \/ /\ where[Tx(g)] = "closed" /\ ~initialSetup
          /\ SendThen(g, "err", "done")
          /\ UNCHANGED <<idx, slot, asked>>
       \/ /\ where[Tx(g)] = "open"
          /\ Store(g, Tx(g))
          /\ UNCHANGED <<pc, msg, cont, asked>>
       \/ /\ where[Tx(g)] = "net"
          /\ SendThen(g, "err", "done")
          /\ UNCHANGED <<idx, slot, asked>>
       \/ /\ where[Tx(g)] = "net"
          /\ asked' = [asked EXCEPT ![ChanOf(g)] = @ \cup {Tx(g)}]
          /\ pc' = [pc EXCEPT ![g] = "wait"]
          /\ UNCHANGED <<idx, slot, msg, cont>>
    /\ UNCHANGED <<got, p2p, aggCnt>>

(* Mutant: the nested fetcher returns without its final nil. *)
FinishNoNestedNil(g) ==
    /\ pc[g] = "loop"
    /\ idx[g] > Len(list[g])
    /\ Frame
    /\ IF g \in Nested
         THEN pc' = [pc EXCEPT ![g] = "done"] /\ UNCHANGED <<msg, cont>>
         ELSE SendThen(g, "nil", "done")
    /\ UNCHANGED <<idx, got, slot, asked, p2p, aggCnt>>

(* After the loop: errChan <- nil (errAggFundsTxFetchChan <- nil). *)
Finish(g) ==
    /\ pc[g] = "loop"
    /\ idx[g] > Len(list[g])
    /\ Frame
    /\ SendThen(g, "nil", "done")
    /\ UNCHANGED <<idx, got, slot, asked, p2p, aggCnt>>

(* The channel goroutine g reports on, and its capacity. *)
OutCap(g) == IF g \in Nested THEN 1 ELSE NrOfChannels
Out(g) == IF g \in Nested THEN errAgg ELSE errChan
Put(g) ==
    IF g \in Nested
      THEN errAgg' = Append(errAgg, msg[g]) /\ UNCHANGED errChan
      ELSE errChan' = Append(errChan, msg[g]) /\ UNCHANGED errAgg

(* Mutant: the error channel is treated as unbounded; a send never blocks. *)
SendErrNoBlock(g) ==
    /\ ~Crashed
    /\ pc[g] = "send"
    /\ Put(g)
    /\ pc' = [pc EXCEPT ![g] = cont[g]]
    /\ UNCHANGED <<initialSetup, where, list, idx, got, msg, cont, slot, asked, p2p,
                   aggCnt, pv, nils>>

(* The send on the error channel completes once the channel has room. *)
SendErr(g) ==
    /\ ~Crashed
    /\ pc[g] = "send"
    /\ Len(Out(g)) < OutCap(g)
    /\ Put(g)
    /\ pc' = [pc EXCEPT ![g] = cont[g]]
    /\ UNCHANGED <<initialSetup, where, list, idx, got, msg, cont, slot, asked, p2p,
                   aggCnt, pv, nils>>

(* case tx = <-p2p.XTxChan *)
Receive(g) ==
    /\ g \in Plain /\ pc[g] = "wait"
    /\ p2p[ChanOf(g)] # <<>>
    /\ Frame
    /\ got' = [got EXCEPT ![g] = Head(p2p[ChanOf(g)])]
    /\ p2p' = [p2p EXCEPT ![ChanOf(g)] = Tail(@)]
    /\ pc' = [pc EXCEPT ![g] = "check"]
    /\ UNCHANGED <<idx, msg, cont, slot, asked, aggCnt>>

(* case <-time.After(TXFETCH_TIMEOUT): the error is sent; the funds,      *)
(* config, stake and nested fetchers then return, the acc and IoT         *)
(* fetchers fall through to the hash check with a nil tx.                 *)
Timeout(g) ==
    /\ g \in Plain /\ pc[g] = "wait"
    /\ Frame
    /\ IF g \in ReturnsOnTimeout \cup Nested
         THEN SendThen(g, "err", "done") /\ UNCHANGED got
         ELSE SendThen(g, "err", "check") /\ got' = [got EXCEPT ![g] = Nil]
    /\ UNCHANGED <<idx, slot, asked, p2p, aggCnt>>

(* Mutant: a mismatching tx is stored without reporting an error. *)
CheckNoError(g) ==
    /\ g \in Plain /\ pc[g] = "check"
    /\ Frame
    /\ \/ /\ got[g] = Nil
          /\ pc' = [pc EXCEPT ![g] = "panic"]
          /\ UNCHANGED <<idx, slot, msg, cont>>
       \/ /\ got[g] # Nil
          /\ Store(g, got[g])
          /\ pc' = [pc EXCEPT ![g] = "loop"]
          /\ UNCHANGED <<msg, cont>>
    /\ UNCHANGED <<got, asked, p2p, aggCnt>>

(* if tx.Hash() != txHash { errCh <- error }; txSlice[cnt] = tx.  The    *)
(* mismatching tx is stored and the loop goes on; Hash() on nil panics.   *)
Check(g) ==
    /\ g \in Plain /\ pc[g] = "check"
    /\ Frame
    /\ \/ /\ got[g] = Nil
          /\ pc' = [pc EXCEPT ![g] = "panic"]
          /\ UNCHANGED <<idx, slot, msg, cont>>
       \/ /\ got[g] \notin {Nil, Tx(g)}
          /\ Store(g, got[g])
          /\ SendThen(g, "err", "loop")
       \/ /\ got[g] = Tx(g)
          /\ Store(g, got[g])
          /\ pc' = [pc EXCEPT ![g] = "loop"]
          /\ UNCHANGED <<msg, cont>>
    /\ UNCHANGED <<got, asked, p2p, aggCnt>>
-----------------------------------------------------------------------------
(* fetchAggTxData.  Starting a nested fetch: a fresh aggregatedFundsTxSlice *)
(* and go fetchAggregatedFundsTxData on the aggregate's member hashes; the  *)
(* AggTx fetcher then waits on errAggFundsTxFetchChan (pc "join").          *)
Spawn(a, k) ==
    \E n \in Nested :
        /\ pc[n] = "idle"
        /\ pc' = [pc EXCEPT ![n] = "loop", !["agg"] = "join"]
        /\ list' = [list EXCEPT ![n] = Members[a]]
        /\ idx' = [idx EXCEPT ![n] = 1]
        /\ slot' = [slot EXCEPT ![n] = <<>>]
        /\ cont' = [cont EXCEPT !["agg"] = k]

(* The AggTx loop body: a closed aggregate during initial setup has its   *)
(* members fetched, then is taken; outside it fails the block; an open    *)
(* one is taken as it is; else cnt := 0 and the request loop starts.      *)
AggLookup ==
    /\ "agg" \in Fetchers /\ pc["agg"] = "loop"
    /\ idx["agg"] <= Len(list["agg"])
    /\ ~Crashed
    /\ UNCHANGED <<initialSetup, where, errChan, errAgg, pv, nils, asked, p2p>>
    /\ \/ /\ where[Tx("agg")] = "closed" /\ initialSetup
          /\ Spawn(Tx("agg"), "store")
          /\ got' = [got EXCEPT !["agg"] = Tx("agg")]
          /\ UNCHANGED <<msg, aggCnt>>
       \/ /\ where[Tx("agg")] = "closed" /\ ~initialSetup
          /\ SendThen("agg", "err", "done")
          /\ UNCHANGED <<list, idx, got, slot, aggCnt>>
       \/ /\ where[Tx("agg")] = "open"
          /\ Store("agg", Tx("agg"))
          /\ UNCHANGED <<pc, list, got, msg, cont, aggCnt>>
       \/ /\ where[Tx("agg")] = "net"
          /\ pc' = [pc EXCEPT !["agg"] = "req"]
          /\ aggCnt' = 0
          /\ UNCHANGED <<list, idx, got, msg, cont, slot>>

(* here: cnt += 1; p2p.TxReq(txHash, AGGTX_REQ). *)
AggRequest ==
    /\ "agg" \in Fetchers /\ pc["agg"] = "req"
    /\ Frame
    /\ aggCnt' = aggCnt + 1
    /\ \/ /\ SendThen("agg", "err", "done")
          /\ UNCHANGED asked
       \/ /\ asked' = [asked EXCEPT !["agg"] = @ \cup {Tx("agg")}]
          /\ pc' = [pc EXCEPT !["agg"] = "wait"]
          /\ UNCHANGED <<msg, cont>>
    /\ UNCHANGED <<idx, got, slot, p2p>>

(* case aggTx = <-p2p.AggTxChan: the members of the received aggregate   *)
(* are fetched by a nested goroutine before the hash is compared.         *)
AggReceive ==
    /\ "agg" \in Fetchers /\ pc["agg"] = "wait"
    /\ p2p["agg"] # <<>>
    /\ ~Crashed
    /\ Spawn(Head(p2p["agg"]), "check")
    /\ got' = [got EXCEPT !["agg"] = Head(p2p["agg"])]
    /\ p2p' = [p2p EXCEPT !["agg"] = Tail(@)]
    /\ UNCHANGED <<initialSetup, where, msg, asked, errChan, errAgg, aggCnt, pv, nils>>

(* case <-time.After: the error is sent and the AggTx fetcher returns. *)
AggTimeout ==
    /\ "agg" \in Fetchers /\ pc["agg"] = "wait"
    /\ Frame
    /\ SendThen("agg", "err", "done")
    /\ UNCHANGED <<idx, got, slot, asked, p2p, aggCnt>>

(* errAggFundsTxFetch = <-errAggFundsTxFetchChan; an error is forwarded    *)
(* to errChan and the fetcher goes on.                                     *)
AggJoin ==
    /\ "agg" \in Fetchers /\ pc["agg"] = "join"
    /\ errAgg # <<>>
    /\ ~Crashed
    /\ errAgg' = Tail(errAgg)
    /\ IF Head(errAgg) = "err"
         THEN SendThen("agg", "err", cont["agg"])
         ELSE pc' = [pc EXCEPT !["agg"] = cont["agg"]] /\ UNCHANGED <<msg, cont>>
    /\ UNCHANGED <<initialSetup, where, list, idx, got, slot, asked, p2p, errChan,
                   aggCnt, pv, nils>>

(* aggTxSlice[cnt] = aggTx for a closed aggregate. *)
AggStore ==
    /\ "agg" \in Fetchers /\ pc["agg"] = "store"
    /\ Frame
    /\ Store("agg", got["agg"])
    /\ pc' = [pc EXCEPT !["agg"] = "loop"]
    /\ UNCHANGED <<got, msg, cont, asked, p2p, aggCnt>>

(* if aggTx.Hash() != txHash && cnt < 2 { goto here }: after the second   *)
(* mismatch the received aggregate is taken; the error send after the     *)
(* goto is unreachable.                                                    *)
AggCheck ==
    /\ "agg" \in Fetchers /\ pc["agg"] = "check"
    /\ Frame
    /\ \/ /\ got["agg"] # Tx("agg") /\ aggCnt < 2
          /\ pc' = [pc EXCEPT !["agg"] = "req"]
          /\ UNCHANGED <<idx, slot>>
       \/ /\ got["agg"] = Tx("agg") \/ aggCnt >= 2
          /\ Store("agg", got["agg"])
          /\ pc' = [pc EXCEPT !["agg"] = "loop"]
    /\ UNCHANGED <<got, msg, cont, asked, p2p, aggCnt>>
-----------------------------------------------------------------------------
(* A peer answers an outstanding request on channel c with the tx, or,   *)
(* for a Byzantine category, with another one; the answer may come after  *)
(* the requester has timed out.                                           *)
PeerAnswers(c) ==
    /\ ~Crashed
    /\ Len(p2p[c]) < ChanCap
    /\ \E h \in asked[c] :
         \E ans \in {h} \cup (IF c \in Byzantine THEN {Wrong} ELSE {}) :
            /\ p2p' = [p2p EXCEPT ![c] = Append(@, ans)]
            /\ asked' = [asked EXCEPT ![c] = @ \ {h}]
    /\ UNCHANGED <<initialSetup, where, pc, list, idx, got, msg, cont, slot,
                   errChan, errAgg, aggCnt, pv, nils>>

(* Mutant: the loop reads one message more than there are goroutines. *)
CollectOffByOne ==
    /\ ~Crashed
    /\ pv = "collect"
    /\ errChan # <<>>
    /\ errChan' = Tail(errChan)
    /\ IF Head(errChan) = "err"
         THEN pv' = "err" /\ UNCHANGED nils
         ELSE /\ nils' = nils + 1
              /\ pv' = IF nils = NrOfChannels THEN "ok" ELSE "collect"
    /\ UNCHANGED <<initialSetup, where, pc, list, idx, got, msg, cont, slot, asked,
                   p2p, errAgg, aggCnt>>

(* preValidate: err = <-errChan; return on the first error, and go on    *)
(* after nrOfChannels messages.                                           *)
Collect ==
    /\ ~Crashed
    /\ pv = "collect"
    /\ errChan # <<>>
    /\ errChan' = Tail(errChan)
    /\ IF Head(errChan) = "err"
         THEN pv' = "err" /\ UNCHANGED nils
         ELSE /\ nils' = nils + 1
              /\ pv' = IF nils + 1 = NrOfChannels THEN "ok" ELSE "collect"
    /\ UNCHANGED <<initialSetup, where, pc, list, idx, got, msg, cont, slot, asked,
                   p2p, errAgg, aggCnt>>

(* One step of goroutine g. *)
GoroutineNext(g) ==
    \/ Lookup(g) \/ Finish(g) \/ SendErr(g) \/ Receive(g) \/ Timeout(g) \/ Check(g)
    \/ g = "agg" /\ (AggLookup \/ AggRequest \/ AggReceive \/ AggTimeout
                      \/ AggJoin \/ AggStore \/ AggCheck)

Next ==
    \/ \E g \in Goroutines : Lookup(g)
    \/ \E g \in Goroutines : Finish(g)
    \/ \E g \in Goroutines : SendErr(g)
    \/ \E g \in Goroutines : Receive(g)
    \/ \E g \in Goroutines : Timeout(g)
    \/ \E g \in Goroutines : Check(g)
    \/ AggLookup
    \/ AggRequest
    \/ AggReceive
    \/ AggTimeout
    \/ AggJoin
    \/ AggStore
    \/ AggCheck
    \/ \E c \in Fetchers : PeerAnswers(c)
    \/ Collect

Spec == Init /\ [][Next]_vars

(* The Go scheduler runs every runnable goroutine (weak fairness on each  *)
(* goroutine and on preValidate's receive), and time.After always fires   *)
(* (its case is part of the goroutine's step).  Peers get no fairness: an *)
(* answer may never come.                                                  *)
FairSpec ==
    /\ Spec
    /\ \A g \in Goroutines : WF_vars(GoroutineNext(g))
    /\ WF_vars(Collect)
-----------------------------------------------------------------------------
TypeOK ==
    /\ initialSetup \in BOOLEAN
    /\ where \in [Hashes -> {"closed", "open", "net"}]
    /\ pc \in [Goroutines -> {"idle", "loop", "req", "wait", "join", "store",
                              "check", "send", "done", "panic"}]
    /\ \A g \in Goroutines : /\ list[g] \in Seq(Hashes)
                             /\ idx[g] \in 1..(Len(list[g]) + 1)
                             /\ slot[g] \in Seq(Hashes \cup {Wrong})
    /\ got \in [Goroutines -> Hashes \cup {Wrong, Nil}]
    /\ msg \in [Goroutines -> {"nil", "err"}]
    /\ \A c \in Fetchers : asked[c] \subseteq Hashes /\ Len(p2p[c]) <= ChanCap
    /\ errChan \in Seq({"nil", "err"}) /\ Len(errChan) <= NrOfChannels
    /\ errAgg \in Seq({"nil", "err"}) /\ Len(errAgg) <= 1
    /\ aggCnt \in 0..2
    /\ pv \in {"collect", "ok", "err"} /\ nils \in 0..NrOfChannels

(* When preValidate gets past the fetch phase without an error, every     *)
(* txSlice holds exactly the block's transactions of its category: a      *)
(* goroutine reports a mismatching or missing tx before its final nil,    *)
(* and errChan is FIFO, so the error is read first.                       *)
AcceptedBlockComplete == pv = "ok" => \A f \in Fetchers : slot[f] = TxsOf[f]

(* A goroutine that checks a received tx of its own category got the tx  *)
(* it asked for, unless a Byzantine peer lied: no goroutine receives     *)
(* an answer meant for another.                                           *)
NoCrossedAnswer ==
    \A g \in Plain : pc[g] = "check" /\ got[g] \notin {Nil, Wrong} => got[g] = Tx(g)

(* preValidate's wait on errChan always ends (or the process has died).  *)
PreValidateReturns == <>(pv # "collect" \/ Crashed)

=============================================================================
