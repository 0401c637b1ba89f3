------------------------------- MODULE Filters -------------------------------
(***************************************************************************)
(* The filter of JavaScript's arrays.                                      *)
(***************************************************************************)
EXTENDS Integers, Sequences

(* The elements of s that are in S, in their order.  (SelectSeq with membership
   as its test, written as a recursive function that proofs can expand.)     *)
Filter(s, S) ==
    LET kept[n \in 0..Len(s)] ==
            IF n = 0 THEN <<>>
            ELSE IF s[n] \in S THEN Append(kept[n - 1], s[n])
            ELSE kept[n - 1]
    IN  kept[Len(s)]
=============================================================================
