------------------------------ MODULE CuFilter -------------------------------
(***************************************************************************)
(* What dwstOfFileExt() keeps of a unit's address ranges (cu_info's low,   *)
(* high and ranges) and the test by which it decides whether the unit is   *)
(* asked about an address at all.  CuRanges models how the fields come     *)
(* about, OfFile how the test is used.                                     *)
(***************************************************************************)
EXTENDS Integers, Sequences

InRange(range, p) == range.low <= p /\ p < range.high

\* A test that lets an address past the envelope in.
AcceptsAtHigh(low, high, ranges, p) ==
  /\ high # 0 => (low <= p /\ p <= high)
  /\ ranges # <<>> => \E k \in 1 .. Len(ranges) : InRange(ranges[k], p) \/ p = high

(***************************************************************************)
(* The unit is tried for p: p is inside the envelope if there is one, and  *)
(* inside some range if there are any.  (The loop over k ends on the first *)
(* range that holds p; "k && k>=rangeCount" rejects only if it ran over a  *)
(* nonempty list in vain.)                                                 *)
(***************************************************************************)
Accepts(low, high, ranges, p) ==
  /\ high # 0 => (low <= p /\ p < high)
  /\ ranges # <<>> => \E k \in 1 .. Len(ranges) : InRange(ranges[k], p)

=============================================================================
