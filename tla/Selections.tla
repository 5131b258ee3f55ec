----------------------------- MODULE Selections -----------------------------
(* What a query or an iterator that filters yields.                        *)
EXTENDS Naturals, Sequences

(* The elements of s that qualify, in their order.                         *)
InOrder(s, qualifying) ==
  LET found[n \in 0..Len(s)] ==
        IF n = 0 THEN <<>>
        ELSE IF s[n] \in qualifying THEN Append(found[n - 1], s[n])
        ELSE found[n - 1]
  IN  found[Len(s)]

=============================================================================
