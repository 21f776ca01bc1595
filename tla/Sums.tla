--------------------------------- MODULE Sums ---------------------------------
(***************************************************************************)
(* What a cursor that moves over sizes one by one has reached: serialize   *)
(* and unserialize_body over the fields and entries of a packet, populate  *)
(* over the strings it copies.  The sum is a recursive function, so that   *)
(* it can be reasoned about: NumberProofs has its equations.               *)
(***************************************************************************)
EXTENDS Integers, Sequences

\* Sums(s)[k] is the sum of the first k elements of the sequence s.
Sums(s) ==
    LET sum[k \in 0 .. Len(s)] == IF k = 0 THEN 0 ELSE sum[k - 1] + s[k] IN sum

Total(s) == Sums(s)[Len(s)]
===============================================================================
