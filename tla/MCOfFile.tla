------------------------------ MODULE MCOfFile -------------------------------
(* Images of up to MaxUnits units, each of one of a few telling kinds.      *)
EXTENDS OfFile

CONSTANTS
  MaxUnits,
  MaxAddrs,
  Lookups     \* the addresses asked for

At(a, file, line) == [addr |-> a, end |-> FALSE, file |-> file, line |-> line]
End(a) == [addr |-> a, end |-> TRUE, file |-> 1, line |-> 1]

\* Addresses 1 to 3, the last of them without a line; two frames at 1.
Plain ==
  [low |-> 1, high |-> 4, ranges |-> <<[low |-> 1, high |-> 4]>>, table |-> "rows",
   rows |-> <<At(1, 1, 10), At(3, 1, 0), End(4)>>, v5 |-> FALSE, fileCount |-> 1,
   frames |-> [p \in Addr |-> IF p = 1 THEN 2 ELSE 1]]

\* A unit whose ranges are unknown, so that it is asked about everything, and
\* whose DIEs hold no function: an assembler source.
Assembler ==
  [Plain EXCEPT !.low = 0, !.high = 0, !.ranges = <<>>, !.v5 = TRUE,
                !.rows = <<At(2, 0, 20), End(5)>>, !.frames = [p \in Addr |-> 0]]

Anything == [Assembler EXCEPT !.frames = [p \in Addr |-> 1]]

MCUnits ==
  {Plain, Assembler,
   [Anything EXCEPT !.table = "none", !.rows = <<>>],
   [Anything EXCEPT !.rows = <<>>],
   [Anything EXCEPT !.fileCount = 0],
   [Anything EXCEPT !.rows = <<At(2, 1, 20), End(5)>>],
   [Anything EXCEPT !.rows = <<At(2, 2, 20), End(5)>>]}

SeqsUpTo(S, m) == UNION {[1 .. k -> S] : k \in 0 .. m}
MCImages == [base : {0, 1}, units : SeqsUpTo(MCUnits, MaxUnits)]
MCQueries == [imageBase : {0, 2}, addrs : SeqsUpTo(Lookups, MaxAddrs)]

=============================================================================
