----------------------------- MODULE Subsequence -----------------------------
(***************************************************************************)
(* What Vec::retain and Iterator::filter make of a sequence, as a function *)
(* of the set of the elements that stay.                                   *)
(***************************************************************************)
EXTENDS Naturals, Sequences

\* The elements of q that are in S, in order.
Only(q, S) ==
  LET kept[i \in 0 .. Len(q)] ==
        IF i = 0 THEN <<>>
        ELSE IF q[i] \in S THEN Append(kept[i - 1], q[i]) ELSE kept[i - 1]
  IN  kept[Len(q)]
=============================================================================
