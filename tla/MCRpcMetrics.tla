------------------------------ MODULE MCRpcMetrics ------------------------------
(* The instances of RpcMetrics that TLC checks. *)
EXTENDS RpcMetrics, TLC

(* "/a b" and "/a-b", which normalize to the same endpoint, and "/c". *)
MCNames == {<<47, 97, 32, 98>>, <<47, 97, 45, 98>>, <<47, 99>>}

(* No status code, the end of a class and the beginning of the next. *)
MCCodes == {0, 299, 300}

Symmetry == Permutations(Observers) \cup Permutations(Spans)
=============================================================================
