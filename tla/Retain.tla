------------------------------- MODULE Retain -------------------------------
(***************************************************************************)
(* Vec::retain: what of a sequence is in a set, in its order.  SelectSeq,  *)
(* with the function written out for the proofs that need it.              *)
(***************************************************************************)
EXTENDS Naturals, Sequences

Retain(s, kept) ==
  LET upTo[n \in 0..Len(s)] ==
        IF n = 0 THEN <<>>
        ELSE IF s[n] \in kept THEN Append(upTo[n - 1], s[n]) ELSE upTo[n - 1]
  IN upTo[Len(s)]

=============================================================================
