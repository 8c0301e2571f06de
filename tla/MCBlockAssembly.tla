-------------------------- MODULE MCBlockAssembly --------------------------
(* Three accounts in the global state (a, b and the root account r) and   *)
(* one unknown key n.  uint64 is scaled down to 0..7 and MAX_MONEY = 2^63 - 1 to 3;   *)
(* the fee 7 is the largest uint64 value, so that amount + fee wraps.     *)
EXTENDS BlockAssembly, TLC

CONSTANTS a, b, r, n

(* a can pay an amount of 1 but not of 3; the root account starts empty. *)
MCInitBalance == (a :> 1) @@ (b :> 3) @@ (r :> 0)
=============================================================================
