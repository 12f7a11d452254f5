--------------------------- MODULE MCLeakDetector ----------------------------
(* Threads and addresses are model values; both may be permuted.  Every     *)
(* other block is allocated by the same call.                               *)
EXTENDS LeakDetector, TLC

MCSymmetry == Permutations(Threads) \cup Permutations(Addrs)

MCSite == [n \in 1 .. MaxBlocks |-> n % 2]

=============================================================================
