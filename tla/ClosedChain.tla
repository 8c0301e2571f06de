---------------------------- MODULE ClosedChain ----------------------------
(***************************************************************************)
(* What the validator promises about the closed chain (spec 4.7): the      *)
(* chain is a stack of blocks over the block tree.  A block is closed only *)
(* on top of the block its PrevHash names, and only the last closed block  *)
(* is ever reopened.  Validator implements this specification with closed  *)
(* mapped to its chain.                                                    *)
(***************************************************************************)
EXTENDS Naturals, Sequences

CONSTANTS Blocks, Genesis, Parent

VARIABLE closed   \* the closed chain above genesis, oldest block first

(* The last closed block, or genesis. *)
Tip == IF closed = <<>> THEN Genesis ELSE closed[Len(closed)]

Init == closed = <<>>

(* A child of the last closed block is closed. *)
Close(b) ==
    /\ Parent[b] = Tip
    /\ closed' = Append(closed, b)

(* The last closed block is reopened. *)
Reopen ==
    /\ closed # <<>>
    /\ closed' = SubSeq(closed, 1, Len(closed) - 1)

Next == (\E b \in Blocks : Close(b)) \/ Reopen

Spec == Init /\ [][Next]_closed
=============================================================================
