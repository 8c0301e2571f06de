------------------------------ MODULE Validator ------------------------------
(***************************************************************************)
(* The block validator of the miner (miner/block.go: validate,             *)
(* validateState, postValidate).  A received or own-mined block is         *)
(* validated under the process-wide blockValidation lock: the branch       *)
(* point against the closed chain is found (getBlockSequences), the blocks *)
(* of the current chain above it are rolled back one by one, and the       *)
(* blocks of the new branch are pre-validated, applied stage by stage      *)
(* (validateState) and post-validated one by one.                          *)
(*                                                                         *)
(* The global account state is abstracted to the set of state effects it    *)
(* currently holds: <<b, e>> means that effect e of block b (its account    *)
(* creations, its funds transfers, its collected fees, ...) is applied.     *)
(* Which stage of validateState fails depends on the contents of blocks     *)
(* sent by arbitrary peers (an unknown account, insufficient funds, a      *)
(* balance overflow at the beneficiary), so a stage may succeed or fail.    *)
(***************************************************************************)
EXTENDS Naturals, Sequences, SequencesExt, FiniteSets

CONSTANTS
    Blocks,         \* the blocks the node can receive (model values)
    Genesis,        \* the genesis block, never validated
    Parent,         \* Parent[b]: the block b's PrevHash points to
    FailingStages,  \* the validateState stages whose failure is explored
    Addrs,          \* the validators' account addresses
    NoSlash,        \* the empty SlashedAddress ([32]byte{})
    Beneficiary,    \* Beneficiary[b]: the validator that signed block b
    SlashedIn,      \* SlashedIn[b]: the address block b's slashing triple names, or NoSlash
    Forged,         \* blocks whose commitment proof or PoS does not verify
    Txs,            \* transaction hashes (model values)
    TxsOf,          \* TxsOf[b]: the transactions block b lists, all categories
    AggMembersOf    \* AggMembersOf[b]: the FundsTxs b carries inside its AggTx

(* The stages of validateState, in the order the code calls them. *)
Stages == <<"accStateChange", "fundsStateChange", "aggTxStateChange",
            "stakeStateChange", "iotStateChange", "collectTxFees",
            "collectBlockReward", "collectSlashReward", "updateStakingHeight">>
NrStages == Len(Stages)

(* The effects on the account state of a block, one per rollback unit.   *)
(* collectTxFees collects the fees of all six categories, but its        *)
(* rollback takes only the acc, funds, config and stake slices: the fees *)
(* of aggregation and IoT transactions are a separate effect.            *)
Effects == {"acc", "funds", "agg", "stake", "iot", "fees", "aggIotFees",
            "reward", "slash", "height"}

ASSUME /\ Genesis \notin Blocks
       /\ Parent \in [Blocks -> Blocks \cup {Genesis}]
       /\ FailingStages \subseteq {Stages[i] : i \in 1..NrStages}
       /\ NoSlash \notin Addrs
       /\ Beneficiary \in [Blocks -> Addrs]
       /\ SlashedIn \in [Blocks -> Addrs \cup {NoSlash}]
       /\ Forged \subseteq Blocks
       /\ TxsOf \in [Blocks -> SUBSET Txs]
       /\ \A b \in Blocks : AggMembersOf[b] \subseteq TxsOf[b]

VARIABLES
    chain,            \* the closed chain above genesis; Last(chain) is the last closed block
    applied,          \* the block effects the global account state holds
    pc,               \* where the running validate call is ("idle" when the lock is free)
    target,           \* the block validate was called with
    blocksToRollback, \* blocks still to roll back, head first
    blocksToValidate, \* blocks still to validate, oldest first
    stage,            \* next validateState stage of Head(blocksToValidate)
    chainAtCall,      \* the chain when validate was called
    slashingDict,     \* the addresses the global slashing dictionary holds a proof against
    proven,           \* history: the addresses a proof was ever stored against
    closedTxs,        \* the transactions in closed (validated) storage
    openAggTxs        \* the blocks whose AggTx is in open storage

vars == <<chain, applied, pc, target, blocksToRollback, blocksToValidate,
          stage, chainAtCall, slashingDict, proven, closedTxs, openAggTxs>>

-----------------------------------------------------------------------------
(* The effects that stage i of validateState adds to the state. *)
StageEffects(i) ==
    CASE Stages[i] = "accStateChange"      -> {"acc"}
      [] Stages[i] = "fundsStateChange"    -> {"funds"}
      [] Stages[i] = "aggTxStateChange"    -> {"agg"}
      [] Stages[i] = "stakeStateChange"    -> {"stake"}
      [] Stages[i] = "iotStateChange"      -> {"iot"}
      [] Stages[i] = "collectTxFees"       -> {"fees", "aggIotFees"}
      [] Stages[i] = "collectBlockReward"  -> {"reward"}
      [] Stages[i] = "collectSlashReward"  -> {"slash"}
      [] Stages[i] = "updateStakingHeight" -> {"height"}

(* The rollback functions validateState calls when stage i fails, in the *)
(* order it calls them, named by the effect each one undoes.             *)
RollbackCalls(i) ==
    CASE Stages[i] = "accStateChange"      -> <<>>
      [] Stages[i] = "fundsStateChange"    -> <<"acc">>
      [] Stages[i] = "aggTxStateChange"    -> <<"funds", "acc">>
      [] Stages[i] = "stakeStateChange"    -> <<"funds", "acc", "agg">>
      [] Stages[i] = "iotStateChange"      -> <<>>
      [] Stages[i] = "collectTxFees"       -> <<"stake", "funds", "agg", "acc">>
      [] Stages[i] = "collectBlockReward"  -> <<"fees", "stake", "funds", "agg", "acc">>
      [] Stages[i] = "collectSlashReward"  -> <<"reward", "fees", "stake", "funds", "agg", "acc">>
      [] Stages[i] = "updateStakingHeight" -> <<"slash", "reward", "fees", "stake", "funds", "agg", "acc">>

(* All effects of block b. *)
BlockEffects(b) == {b} \X Effects

(* The branch from genesis to b, oldest block first. *)
RECURSIVE PathTo(_)
PathTo(b) == IF b = Genesis THEN <<>> ELSE Append(PathTo(Parent[b]), b)

(* getBlockSequences: the blocks of the closed chain above the common      *)
(* ancestor with b's branch (head first), and the blocks of b's branch     *)
(* above it (oldest first).                                                 *)
getBlockSequences(b) ==
    LET common == Len(LongestCommonPrefix({chain, PathTo(b)}))
    IN  [rollback |-> Reverse(SubSeq(chain, common + 1, Len(chain))),
         validate |-> SubSeq(PathTo(b), common + 1, Len(PathTo(b)))]

(* Two blocks on different branches: neither is an ancestor of the other *)
(* (the negation of IsInSameChain).  The blocks of the model are within   *)
(* any Slashing_window_size of each other.                                 *)
Conflicting(c, d) ==
    /\ c # d
    /\ c \notin ToSet(PathTo(d))
    /\ d \notin ToSet(PathTo(c))

(* seekSlashingProof(block): a proof is stored against block's             *)
(* beneficiary when it signed a block on another branch that the node has *)
(* stored: one of the chain when validate was called or of the chain now. *)
seekSlashingProof(b, dict) ==
    IF \E c \in ToSet(chainAtCall) \cup ToSet(chain) :
          Beneficiary[c] = Beneficiary[b] /\ Conflicting(b, c)
    THEN dict \cup {Beneficiary[b]}
    ELSE dict

(* A successful slashingCheck deletes the proof against the slashed       *)
(* address from the local dictionary, whether or not the block is later  *)
(* accepted.                                                               *)
slashingCheck(b, dict) ==
    IF SlashedIn[b] = NoSlash THEN dict ELSE dict \ {SlashedIn[b]}

(* The AggTx of block b, named by b: one when b aggregates FundsTxs. *)
AggTxOf(b) == IF AggMembersOf[b] = {} THEN {} ELSE {b}

(* The fetch phase of preValidate (fetch*TxData, not in initialSetup)      *)
(* fails when a listed transaction is in closed storage.  fetchAggTxData   *)
(* takes an AggTx it finds in open storage as it is (872-875); only an      *)
(* AggTx fetched from the network has its members fetched and checked.     *)
FetchFindsNoClosedTx(b) ==
    /\ (TxsOf[b] \ AggMembersOf[b]) \cap closedTxs = {}
    /\ b \in openAggTxs \/ AggMembersOf[b] \cap closedTxs = {}

-----------------------------------------------------------------------------
Init ==
    /\ chain = <<>>
    /\ applied = {}
    /\ pc = "idle"
    /\ target = Genesis
    /\ blocksToRollback = <<>>
    /\ blocksToValidate = <<>>
    /\ stage = 1
    /\ chainAtCall = <<>>
    /\ slashingDict = {}
    /\ proven = {}
    /\ closedTxs = {}
    /\ openAggTxs = {}

(* Mutant: the stage counter is reset to 0 instead of the first stage. *)
ReturnBadReset ==
    /\ pc' = "idle"
    /\ target' = Genesis
    /\ blocksToRollback' = <<>>
    /\ blocksToValidate' = <<>>
    /\ stage' = 0
    /\ chainAtCall' = <<>>

(* validate returns and the deferred blockValidation.Unlock() runs. *)
Return ==
    /\ pc' = "idle"
    /\ target' = Genesis
    /\ blocksToRollback' = <<>>
    /\ blocksToValidate' = <<>>
    /\ stage' = 1
    /\ chainAtCall' = <<>>

(* validate(b): take the lock and compute the block sequences.  A block   *)
(* already in the closed chain is not validated again.  When               *)
(* getBlockSequences finds no ancestor, validate returns without any       *)
(* change: a stuttering step.                                               *)
validate(b) ==
    /\ pc = "idle"
    /\ b \notin ToSet(chain)
    /\ LET seqs == getBlockSequences(b)
       IN /\ target' = b
          /\ chainAtCall' = chain
          /\ blocksToRollback' = seqs.rollback
          /\ blocksToValidate' = seqs.validate
          /\ pc' = IF seqs.rollback = <<>> THEN "preValidate" ELSE "rollback"
          /\ stage' = 1
    /\ UNCHANGED <<chain, applied, slashingDict, proven, closedTxs, openAggTxs>>

(* Mutant: the first rollback cuts the chain back to the branch point.   *)
rollbackTruncates ==
    /\ pc = "rollback"
    /\ \/ /\ applied' = applied \ BlockEffects(Head(blocksToRollback))
          /\ closedTxs' = closedTxs \ UNION {TxsOf[x] : x \in ToSet(blocksToRollback)}
          /\ chain' = SubSeq(chain, 1, Len(chain) - Len(blocksToRollback))
          /\ blocksToRollback' = <<>>
          /\ pc' = "preValidate"
          /\ openAggTxs' = openAggTxs \cup UNION {AggTxOf(x) : x \in ToSet(blocksToRollback)}
          /\ UNCHANGED <<target, blocksToValidate, stage, chainAtCall, slashingDict, proven>>
       \/ /\ Return
          /\ UNCHANGED <<applied, chain, slashingDict, proven, closedTxs, openAggTxs>>

(* Mutant: rollback leaves the block's transactions in closed storage. *)
rollbackKeepsClosed ==
    /\ pc = "rollback"
    /\ \/ /\ applied' = applied \ BlockEffects(Head(blocksToRollback))
          /\ chain' = Front(chain)
          /\ blocksToRollback' = Tail(blocksToRollback)
          /\ pc' = IF Tail(blocksToRollback) = <<>> THEN "preValidate" ELSE "rollback"
          /\ UNCHANGED <<target, blocksToValidate, stage, chainAtCall, slashingDict, proven, closedTxs, openAggTxs>>
       \/ /\ Return
          /\ UNCHANGED <<applied, chain, slashingDict, proven, closedTxs, openAggTxs>>

(* rollback(block) for the head of the closed chain: all its effects are   *)
(* reversed, its transactions return from closed to open storage (spec    *)
(* 4.1: superseded by a rollback, they return to open), and it stops      *)
(* being the last closed block.  An error ends the validate call.          *)
rollback ==
    /\ pc = "rollback"
    /\ \/ /\ applied' = applied \ BlockEffects(Head(blocksToRollback))
          /\ closedTxs' = closedTxs \ TxsOf[Head(blocksToRollback)]
          /\ openAggTxs' = openAggTxs \cup AggTxOf(Head(blocksToRollback))
          /\ chain' = Front(chain)
          /\ blocksToRollback' = Tail(blocksToRollback)
          /\ pc' = IF Tail(blocksToRollback) = <<>> THEN "preValidate" ELSE "rollback"
          /\ UNCHANGED <<target, blocksToValidate, stage, chainAtCall, slashingDict, proven>>
       \/ /\ Return
          /\ UNCHANGED <<applied, chain, slashingDict, proven, closedTxs, openAggTxs>>

(* preValidate(block) followed by validate's seekSlashingProof(block),    *)
(* which runs before preValidate's error is looked at.  The fetch phase   *)
(* comes first (1152-1166): an AggTx fetched from the network is written  *)
(* to open storage (890) before its members are checked, and stays there  *)
(* whatever happens next.  Of the other checks only slashingCheck changes  *)
(* state: a block that carries a slashing triple deletes the proof once    *)
(* slashingCheck succeeds, even when the merkle check after it fails.  A    *)
(* forged block fails at the commitment proof or PoS check, before         *)
(* slashingCheck.  A failure ends the validate call.                       *)
preValidate ==
    /\ pc = "preValidate"
    /\ LET b == Head(blocksToValidate) IN
       \/ /\ b \notin Forged
          /\ FetchFindsNoClosedTx(b)
          /\ slashingDict' = seekSlashingProof(b, slashingCheck(b, slashingDict))
          /\ pc' = "validateState"
          /\ stage' = 1
          /\ UNCHANGED <<target, blocksToRollback, blocksToValidate, chainAtCall>>
       \/ /\ slashingDict' = seekSlashingProof(b, slashingDict)
          /\ Return
       \/ /\ b \notin Forged
          /\ FetchFindsNoClosedTx(b)
          /\ SlashedIn[b] # NoSlash
          /\ slashingDict' = seekSlashingProof(b, slashingCheck(b, slashingDict))
          /\ Return
    /\ \E written \in {{}, AggTxOf(Head(blocksToValidate))} :
          openAggTxs' = openAggTxs \cup written
    /\ proven' = proven \cup slashingDict'
    /\ UNCHANGED <<chain, applied, closedTxs>>

(* Mutant: the last stage ends validateState before applying its effects. *)
StageSucceedsSkipsLast ==
    /\ pc = "validateState"
    /\ IF stage = NrStages
         THEN /\ pc' = "postValidate"
              /\ UNCHANGED <<stage, applied>>
         ELSE /\ stage' = stage + 1
              /\ applied' = applied \cup ({Head(blocksToValidate)} \X StageEffects(stage))
              /\ UNCHANGED pc
    /\ UNCHANGED <<chain, target, blocksToRollback, blocksToValidate, chainAtCall, slashingDict, proven, closedTxs, openAggTxs>>

(* Mutant: the last stage starts validateState over instead of ending it. *)
StageSucceedsRestarts ==
    /\ pc = "validateState"
    /\ applied' = applied \cup ({Head(blocksToValidate)} \X StageEffects(stage))
    /\ stage' = IF stage = NrStages THEN 1 ELSE stage + 1
    /\ UNCHANGED <<pc, chain, target, blocksToRollback, blocksToValidate, chainAtCall, slashingDict, proven, closedTxs, openAggTxs>>

(* One stage of validateState(data) succeeds and applies its effects. *)
StageSucceeds ==
    /\ pc = "validateState"
    /\ applied' = applied \cup ({Head(blocksToValidate)} \X StageEffects(stage))
    /\ IF stage = NrStages
         THEN /\ pc' = "postValidate"
              /\ UNCHANGED stage
         ELSE /\ stage' = stage + 1
              /\ UNCHANGED pc
    /\ UNCHANGED <<chain, target, blocksToRollback, blocksToValidate, chainAtCall, slashingDict, proven, closedTxs, openAggTxs>>

(* One stage of validateState fails: it undoes its own partial effects,    *)
(* validateState calls the rollbacks the code lists for that stage, and    *)
(* validate returns the error.                                              *)
StageFails ==
    /\ pc = "validateState"
    /\ Stages[stage] \in FailingStages
    /\ applied' = applied \ ({Head(blocksToValidate)} \X ToSet(RollbackCalls(stage)))
    /\ Return
    /\ UNCHANGED <<chain, slashingDict, proven, closedTxs, openAggTxs>>

(* Mutant: validate returns after the first block of the branch. *)
postValidateReturnsEarly ==
    /\ pc = "postValidate"
    /\ chain' = Append(chain, Head(blocksToValidate))
    /\ Return
    /\ UNCHANGED <<applied, slashingDict, proven, closedTxs, openAggTxs>>

(* postValidate: the block's transactions move from open to closed       *)
(* storage, the block becomes the last closed block, and validate goes on *)
(* with the next block of the branch or returns.                          *)
postValidate ==
    /\ pc = "postValidate"
    /\ chain' = Append(chain, Head(blocksToValidate))
    /\ closedTxs' = closedTxs \cup TxsOf[Head(blocksToValidate)]
    /\ openAggTxs' = openAggTxs \ {Head(blocksToValidate)}
    /\ IF Tail(blocksToValidate) = <<>>
         THEN Return
         ELSE /\ pc' = "preValidate"
              /\ blocksToValidate' = Tail(blocksToValidate)
              /\ UNCHANGED <<target, blocksToRollback, stage, chainAtCall>>
    /\ UNCHANGED <<applied, slashingDict, proven>>

Next ==
    \/ \E b \in Blocks : validate(b)
    \/ rollback
    \/ preValidate
    \/ StageSucceeds
    \/ StageFails
    \/ postValidate

Spec == Init /\ [][Next]_vars

(* The steps of a running validate call.  The call runs to completion in  *)
(* the goroutine that holds blockValidation, and its one blocking wait,   *)
(* the fetch phase of preValidate, ends by TXFETCH_TIMEOUT (TxFetcher's    *)
(* PreValidateReturns): weak fairness on these steps.  New calls get none. *)
ValidateStep == rollback \/ preValidate \/ StageSucceeds \/ StageFails \/ postValidate

FairSpec == Spec /\ WF_vars(ValidateStep)

(* The refinement mapping: the abstract closed chain is the validator's    *)
(* chain, over the same block tree.                                        *)
CC == INSTANCE ClosedChain
        WITH closed <- chain, Blocks <- Blocks, Genesis <- Genesis, Parent <- Parent

-----------------------------------------------------------------------------
TypeOK ==
    /\ chain \in Seq(Blocks)
    /\ applied \subseteq Blocks \X Effects
    /\ pc \in {"idle", "rollback", "preValidate", "validateState", "postValidate"}
    /\ target \in Blocks \cup {Genesis}
    /\ blocksToRollback \in Seq(Blocks)
    /\ blocksToValidate \in Seq(Blocks)
    /\ stage \in 1..NrStages
    /\ chainAtCall \in Seq(Blocks)
    /\ slashingDict \subseteq Addrs
    /\ proven \subseteq Addrs
    /\ closedTxs \subseteq Txs
    /\ openAggTxs \subseteq Blocks

(* The step with which a validate call returns, with or without an error. *)
Returns == pc # "idle" /\ pc' = "idle"
ReturnsOk == Returns /\ pc = "postValidate"

(* Every block of the closed chain has all its effects in the state: no    *)
(* block is closed before validateState has applied every stage, and      *)
(* rollback removes a block's effects only together with the block.       *)
ChainFullyApplied == \A b \in ToSet(chain) : BlockEffects(b) \subseteq applied

(* Every validate call returns and releases the blockValidation lock, so  *)
(* neither the miner's own blocks nor received ones wait for ever, whatever *)
(* the mix of rollbacks, stage failures and multi-block branches.          *)
ValidateReturns == pc # "idle" ~> pc = "idle"

(* No block gets past preValidate while it lists a transaction that is   *)
(* already in closed storage (spec 4.4: outside initialSetup a block may  *)
(* not repeat a previously-closed tx).  The fetchers are the only check   *)
(* of this, and fetchAggTxData takes an AggTx it finds in open storage    *)
(* without looking at its members (872-875), so it holds only if no AggTx *)
(* with a closed member can be in open storage when a block lists it.     *)
PassedBlockRepeatsNoClosedTx ==
    [][pc = "preValidate" /\ pc' = "validateState" =>
           TxsOf[Head(blocksToValidate)] \cap closedTxs = {}]_vars

(* Between validate calls, closed storage holds exactly the transactions   *)
(* of the closed chain: after a reorganisation the old branch's           *)
(* transactions are open again, so a competing block that lists them is    *)
(* not refused as a replay.                                                *)
ClosedTxsMatchChain ==
    pc = "idle" => closedTxs = UNION {TxsOf[b] : b \in ToSet(chain)}

(* A validate call that returns success has adopted the whole branch of    *)
(* the block it was called with.                                            *)
ValidateAdoptsBranch == [][ReturnsOk => chain' = PathTo(target)]_vars

(* Validator implements ClosedChain: every step closes a child of the     *)
(* last closed block (postValidate), reopens the last closed block        *)
(* (rollback), or leaves the chain alone, whatever the interleaving of    *)
(* rollbacks, stage failures and returns.                                 *)
ImplementsClosedChain == CC!Spec

(* The effects the account state holds when the node is on chain c. *)
ChainEffects(c) == UNION {BlockEffects(b) : b \in ToSet(c)}

(* A validate call that returns an error leaves the node as it found it:  *)
(* on the closed chain it had when called, with exactly that chain's      *)
(* effects in the account state (spec 4.7, 7: a failing step rolls back   *)
(* itself and all its predecessors, and the block is rejected).           *)
RejectedBlockRestoresNode ==
    [][Returns /\ ~ReturnsOk => /\ chain' = chainAtCall
                               /\ applied' = ChainEffects(chainAtCall)]_vars

(* Between validate calls, every validator a proof was ever stored against *)
(* is either still in the slashing dictionary or slashed by a block of the *)
(* closed chain (spec 4.9, test 5: the proof is consumed by the block that *)
(* carries it).  slashingCheck deletes the proof while the carrying block  *)
(* is only being pre-validated, so it must not be lost when that block is *)
(* then rejected or later rolled back.                                     *)
SlashingProofKept ==
    pc = "idle" =>
        \A v \in proven :
            v \in slashingDict \/ \E b \in ToSet(chain) : SlashedIn[b] = v
=============================================================================
