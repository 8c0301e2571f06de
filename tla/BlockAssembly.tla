---------------------------- MODULE BlockAssembly ----------------------------
(***************************************************************************)
(* Block assembly of the miner (miner/block.go: addTx and addAccTx,        *)
(* addFundsTx, addIoTTx, addConfigTx, addStakeTx, with the verify          *)
(* functions of miner/verify.go).  A candidate block owns a local copy of  *)
(* the accounts its transactions touch (block.StateCopy); an account is    *)
(* copied from the global state the first time a transaction touches it   *)
(* and all later transactions of the block work on the copy.              *)
(*                                                                         *)
(* Balances are uint64 in the code: they are modelled modulo Word, which   *)
(* stands for 2^64, with MaxMoney < Word.  Account keys are model values;  *)
(* SerializeHashContent of a key is a value that is no account key.        *)
(* Signatures are assumed valid: a transaction with a bad signature is     *)
(* rejected by verify before anything changes (a stuttering step).         *)
(***************************************************************************)
EXTENDS Naturals, Sequences, SequencesExt, TLC

CONSTANTS
    Accounts,       \* account keys (model values)
    InitAccounts,   \* the accounts present in the global state initially
    RootAccounts,   \* storage.RootKeys
    Contracts,      \* accounts holding contract bytecode
    Word,           \* 2^64: uint64 arithmetic is modulo Word
    MaxMoney,       \* MAX_MONEY
    FeeMinimum,     \* activeParameters.Fee_minimum
    StakingMinimum, \* activeParameters.Staking_minimum
    InitBalance,    \* InitBalance[k]: the initial balance of account k
    Amounts,        \* transfer amounts of funds transactions
    Fees,           \* fees of transactions
    TxCnts,         \* txCnt values carried by transactions
    Kinds,          \* the transaction kinds submitted in this model
    MaxBlockTxs     \* bound on the number of transactions added to a block

ASSUME /\ InitAccounts \subseteq Accounts /\ RootAccounts \subseteq InitAccounts
       /\ MaxMoney < Word /\ InitBalance \in [InitAccounts -> 0..MaxMoney]
       /\ Amounts \cup Fees \subseteq 0..(Word - 1)
       /\ Kinds \subseteq {"acc", "funds", "config", "stake", "iot"}

VARIABLES
    state,      \* storage.State: account key -> account
    stateCopy,  \* block.StateCopy: the block's local copies of accounts
    block       \* the transactions whose hashes the block lists, per category

vars == <<state, stateCopy, block>>

Account == [balance : 0..(Word - 1), txCnt : Nat, isStaking : BOOLEAN]
FundsTx == [from : Accounts, to : Accounts, amount : Amounts, fee : Fees,
            txCnt : TxCnts, data : BOOLEAN]
IotTx   == [from : Accounts, to : Accounts, fee : Fees, txCnt : TxCnts]
StakeTx == [account : Accounts, fee : Fees, isStaking : BOOLEAN]
AccTx   == [pubKey : Accounts, remove : BOOLEAN, fee : Fees]
ConfigTx == [fee : Fees]
Categories == {"acc", "funds", "config", "stake", "iot"}

-----------------------------------------------------------------------------
(* uint64 addition and subtraction. *)
Plus(a, b) == (a + b) % Word
Minus(a, b) == (a - b + Word) % Word

SerializeHashContent(k) == <<"hash", k>>
IsRootKey(k) == k \in RootAccounts

NrBlockTxs == Len(block.acc) + Len(block.funds) + Len(block.config)
                + Len(block.stake) + Len(block.iot)

(* The copy-on-read of addFundsTx, addIoTTx and addStakeTx: an account not *)
(* yet in the block's StateCopy is copied from the global state.          *)
Touch(copy, k) == IF k \in DOMAIN copy THEN copy ELSE copy @@ (k :> state[k])

(* verifyFundsTx: amount in (0, MAX_MONEY], both accounts present, the    *)
(* signature of the sender, sender and receiver distinct.                  *)
verifyFundsTx(tx) ==
    /\ tx.amount > 0 /\ tx.amount <= MaxMoney
    /\ tx.from \in DOMAIN state /\ tx.to \in DOMAIN state
    /\ tx.from # tx.to

(* verifyIotTx: both accounts present, sender and receiver distinct. *)
verifyIotTx(tx) ==
    /\ tx.from \in DOMAIN state /\ tx.to \in DOMAIN state
    /\ tx.from # tx.to

-----------------------------------------------------------------------------
Init ==
    /\ state = [k \in InitAccounts |-> [balance |-> InitBalance[k], txCnt |-> 0, isStaking |-> FALSE]]
    /\ stateCopy = << >>
    /\ block = [c \in Categories |-> << >>]

(* addTx with a FundsTx: fee check, verifyFundsTx, then addFundsTx.  Both *)
(* accounts are copied into StateCopy before the checks, so a rejected    *)
(* transaction still leaves the copies behind.  The txCnt comparison has  *)
(* its error return commented out and rejects nothing.                    *)
AddFundsTx(tx) ==
    /\ tx.fee >= FeeMinimum
    /\ verifyFundsTx(tx)
    /\ LET copy == Touch(Touch(stateCopy, tx.from), tx.to)
           from == copy[tx.from]
           to   == copy[tx.to]
           insufficient == ~IsRootKey(tx.from) /\ Plus(tx.amount, tx.fee) > from.balance
           overflow == Plus(to.balance, tx.amount) > MaxMoney
           vmRuns == tx.data /\ tx.to \in Contracts
       IN \/ /\ insufficient \/ overflow
             /\ stateCopy' = copy
             /\ UNCHANGED block
          \/ /\ ~insufficient /\ ~overflow
             /\ \E vmOk \in IF vmRuns THEN BOOLEAN ELSE {TRUE} :
                  IF vmOk
                    THEN /\ stateCopy' = [copy EXCEPT
                                 ![tx.from] = [@ EXCEPT !.txCnt = @ + 1,
                                                        !.balance = Minus(@, tx.amount)],
                                 ![tx.to].balance = Plus(@, tx.amount)]
                         /\ block' = [block EXCEPT !.funds = Append(@, tx)]
                    ELSE /\ stateCopy' = copy
                         /\ UNCHANGED block
    /\ UNCHANGED state

(* addTx with an IotTx: the fee is deducted from the sender's copy even   *)
(* when it exceeds the balance (the error return is commented out), and   *)
(* the txCnt comparison rejects nothing.                                   *)
AddIotTx(tx) ==
    /\ tx.fee >= FeeMinimum
    /\ verifyIotTx(tx)
    /\ LET copy == Touch(Touch(stateCopy, tx.from), tx.to)
       IN stateCopy' = [copy EXCEPT ![tx.from] = [@ EXCEPT !.txCnt = @ + 1,
                                                           !.balance = Minus(@, tx.fee)]]
    /\ block' = [block EXCEPT !.iot = Append(@, tx)]
    /\ UNCHANGED state

(* Mutant: verifyStakeTx creates the unknown account in the block's copy *)
(* only, without writing it to the global state.                          *)
AddStakeTxNoWrite(tx) ==
    /\ tx.fee >= FeeMinimum
    /\ LET acc0 == IF tx.account \in DOMAIN state THEN state[tx.account]
                   ELSE [balance |-> 0, txCnt |-> 0, isStaking |-> FALSE]
           copy == IF tx.account \in DOMAIN stateCopy THEN stateCopy
                   ELSE stateCopy @@ (tx.account :> acc0)
           acc  == copy[tx.account]
           rejected == \/ ~IsRootKey(SerializeHashContent(tx.account))
                            /\ Plus(tx.fee, StakingMinimum) >= acc.balance
                       \/ acc.isStaking = tx.isStaking
       IN /\ UNCHANGED state
          /\ IF rejected
               THEN /\ stateCopy' = copy
                    /\ UNCHANGED block
               ELSE /\ stateCopy' = [copy EXCEPT ![tx.account].isStaking = tx.isStaking]
                    /\ block' = [block EXCEPT !.stake = Append(@, tx)]

(* addTx with a StakeTx.  verifyStakeTx writes an empty account to the    *)
(* global state when the account is unknown.  addStakeTx exempts root     *)
(* accounts by IsRootKey(SerializeHashContent(tx.Account)), a hash of the *)
(* key, and rejects when fee + Staking_minimum >= balance or when the     *)
(* flag already has the requested value.                                   *)
AddStakeTx(tx) ==
    /\ tx.fee >= FeeMinimum
    /\ LET st   == IF tx.account \in DOMAIN state THEN state
                   ELSE state @@ (tx.account :> [balance |-> 0, txCnt |-> 0, isStaking |-> FALSE])
           copy == IF tx.account \in DOMAIN stateCopy THEN stateCopy
                   ELSE stateCopy @@ (tx.account :> st[tx.account])
           acc  == copy[tx.account]
           rejected == \/ ~IsRootKey(SerializeHashContent(tx.account))
                            /\ Plus(tx.fee, StakingMinimum) >= acc.balance
                       \/ acc.isStaking = tx.isStaking
       IN /\ state' = st
          /\ IF rejected
               THEN /\ stateCopy' = copy
                    /\ UNCHANGED block
               ELSE /\ stateCopy' = [copy EXCEPT ![tx.account].isStaking = tx.isStaking]
                    /\ block' = [block EXCEPT !.stake = Append(@, tx)]

(* addTx with an AccTx (signed by a root key): a new account is rejected  *)
(* when its key is already in the global state, unless the removal bit   *)
(* is set.                                                                 *)
AddAccTx(tx) ==
    /\ tx.fee >= FeeMinimum
    /\ tx.remove \/ tx.pubKey \notin DOMAIN state
    /\ block' = [block EXCEPT !.acc = Append(@, tx)]
    /\ UNCHANGED <<state, stateCopy>>

(* addTx with a ConfigTx (signed by a root key): its hash is appended. *)
AddConfigTx(tx) ==
    /\ tx.fee >= FeeMinimum
    /\ block' = [block EXCEPT !.config = Append(@, tx)]
    /\ UNCHANGED <<state, stateCopy>>

(* One addTx call per transaction kind the pool offers, while the block  *)
(* has room.                                                               *)
HasRoom == NrBlockTxs < MaxBlockTxs
ReceiveFundsTx == HasRoom /\ "funds" \in Kinds /\ \E tx \in FundsTx : AddFundsTx(tx)
ReceiveIotTx == HasRoom /\ "iot" \in Kinds /\ \E tx \in IotTx : AddIotTx(tx)
ReceiveStakeTx == HasRoom /\ "stake" \in Kinds /\ \E tx \in StakeTx : AddStakeTx(tx)
ReceiveAccTx == HasRoom /\ "acc" \in Kinds /\ \E tx \in AccTx : AddAccTx(tx)
ReceiveConfigTx == HasRoom /\ "config" \in Kinds /\ \E tx \in ConfigTx : AddConfigTx(tx)

Next ==
    \/ ReceiveFundsTx
    \/ ReceiveIotTx
    \/ ReceiveStakeTx
    \/ ReceiveAccTx
    \/ ReceiveConfigTx

Spec == Init /\ [][Next]_vars

-----------------------------------------------------------------------------
TypeOK ==
    /\ state \in [DOMAIN state -> Account] /\ DOMAIN state \subseteq Accounts
    /\ stateCopy \in [DOMAIN stateCopy -> Account] /\ DOMAIN stateCopy \subseteq DOMAIN state
    /\ block \in [Categories -> Seq(FundsTx \cup IotTx \cup StakeTx \cup AccTx \cup ConfigTx)]

(* No non-root account copy is overdrawn: every balance stays within     *)
(* [0, MAX_MONEY] (spec 3, invariant 1: balance >= amount + fee).          *)
NoOverdraft == \A k \in DOMAIN stateCopy \ RootAccounts : stateCopy[k].balance <= MaxMoney
=============================================================================
