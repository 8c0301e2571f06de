--------------------------- MODULE MCAggregation ---------------------------
EXTENDS Aggregation, TLC

CONSTANTS a1, a2, a3, t1, t2, t3, t4, t5

(* t1, t2 and t5 share a sender; t1, t4 and t5 share a receiver; t2 and  *)
(* t3 share a receiver.  t1 and t5 have the same parties, so a group can  *)
(* outnumber every other tally.                                           *)
MCFrom  == (t5 :> a1) @@ (t1 :> a1) @@ (t2 :> a1) @@ (t3 :> a2) @@ (t4 :> a3)
MCTo    == (t5 :> a2) @@ (t1 :> a2) @@ (t2 :> a3) @@ (t3 :> a3) @@ (t4 :> a2)
====
