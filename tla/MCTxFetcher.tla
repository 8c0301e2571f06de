---------------------------- MODULE MCTxFetcher ----------------------------
EXTENDS TxFetcher, TLC

CONSTANTS h1, h2, h3, m1, n1, n2

(* The acc fetcher (which falls through after a timeout) with one tx and *)
(* the funds fetcher (which returns) with two; nrOfChannels scales to 2. *)
MCTxsOf == ("acc" :> <<h1>>) @@ ("funds" :> <<h2, h3>>)
MCNoMembers == Wrong :> <<>>

(* The funds fetcher with one tx and the AggTx fetcher with one aggregate *)
(* of one member; two nested goroutines cover the request and its retry.  *)
MCAggTxsOf == ("funds" :> <<h2>>) @@ ("agg" :> <<h1>>)
MCMembers == (h1 :> <<m1>>) @@ (Wrong :> <<>>)
MCNested == {n1, n2}
=============================================================================
