------------------------------- MODULE Lists -------------------------------
(***************************************************************************)
(* The linked lists of the program are sequences.  An operation on a list  *)
(* names the positions of the entries that it takes or leaves.             *)
(***************************************************************************)
EXTENDS Naturals, Sequences

\* The entries of q at the positions K, in their order.
Those(q, K) ==
  LET kept[i \in 0 .. Len(q)] ==
        IF i = 0 THEN <<>>
        ELSE IF i \in K THEN Append(kept[i - 1], q[i]) ELSE kept[i - 1]
  IN  kept[Len(q)]
=============================================================================
