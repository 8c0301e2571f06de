---------------------------- MODULE MCValidator ----------------------------
(* Model of the validator on a block tree with two competing branches,    *)
(* genesis <- a1 <- a2 and genesis <- b1 <- b2, so that a reorganisation   *)
(* rolls back one or two blocks and validates a branch of one or two.      *)
EXTENDS Validator, TLC

CONSTANTS a1, a2, b1, b2, r, g, p, none, t1, t2

MCBlocks == {a1, a2, b1, b2, r}
MCParent == (a1 :> g) @@ (a2 :> a1) @@ (b1 :> g) @@ (b2 :> b1) @@ (r :> a1)
MCAllStages == {Stages[i] : i \in 1..NrStages}

(* One validator p signs every block, so that a1 and b1 (and a2 and b2)  *)
(* are double signs; a2 carries a slashing triple against p.             *)
MCBeneficiary == [b \in MCBlocks |-> p]
MCSlashedIn == (a1 :> none) @@ (a2 :> p) @@ (b1 :> none) @@ (b2 :> none) @@ (r :> none)

(* t1 is in a1 and in b2, so a reorganisation from the a branch to b2    *)
(* must reopen it; r, a second child of a1, replays a1's t1 and must be   *)
(* rejected.                                                               *)
MCTxsOf == (a1 :> {t1}) @@ (a2 :> {t2}) @@ (b1 :> {}) @@ (b2 :> {t1}) @@ (r :> {t1})
(* In MCAggMembersOf every block lists its FundsTxs directly.  In          *)
(* MCAggMembersReplay r, a1's child, carries a1's t1 inside an AggTx.     *)
MCAggMembersOf == [b \in MCBlocks |-> {}]
MCAggMembersReplay == [b \in MCBlocks |-> IF b = r THEN {t1} ELSE {}]

=============================================================================
