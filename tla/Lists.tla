-------------------------------- MODULE Lists --------------------------------
(***************************************************************************)
(* Array.prototype.filter and its like, for lists of which a set says what *)
(* stays.  SelectSeq of module Sequences is the same for a test; this one  *)
(* is a recursive function, about which ListProofs can say something.      *)
(***************************************************************************)
EXTENDS Naturals, Sequences

(* What K leaves of each prefix of the list.                               *)
KeptOfPrefix(list, K) ==
  LET kept[n \in 0..Len(list)] ==
        IF n = 0 THEN <<>>
        ELSE IF list[n] \in K THEN Append(kept[n - 1], list[n])
        ELSE kept[n - 1]
  IN kept

(* The elements of the list that are in K, in their order.                 *)
Keeping(list, K) == KeptOfPrefix(list, K)[Len(list)]
=============================================================================
