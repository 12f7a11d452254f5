----------------------------- MODULE LineLookup ------------------------------
(***************************************************************************)
(* The search of a line table for an address: the loop over lines[c] in    *)
(* dwstOfFileExt() (src/dwst-file.c).  It remembers of the row before only *)
(* whether it ended a sequence (onEnd) and its address (prevAdd), and      *)
(* reports the row before the first one that lies beyond the address.      *)
(* Rows are counted from 1, so c is the code's c + 1 and hit is the index  *)
(* of the row the code calls lines[c-1].                                   *)
(***************************************************************************)
EXTENDS LineTable

CONSTANT Ptrs  \* the addresses looked up

ASSUME PtrsAssumption == Ptrs \subseteq Nat

VARIABLES
  rows,     \* lines, lineCount
  ptr,      \* the address in the image's own address space
  c,        \* the row about to be read
  onEnd,    \* the row before ended a sequence, or there is none
  prevAdd,  \* the address of the row before
  hit,      \* the row whose file and line are taken, 0 while there is none
  pc        \* "loop", then "hit", "miss" or "failed"

\* Mutants of the test: the end of a sequence forgotten, and an off-by-one.
PassedAcrossEnd(add) == add <= ptr \/ prevAdd > ptr
PassedAtAddress(add) == onEnd \/ add <= ptr \/ prevAdd >= ptr

\* The row does not close the gap that holds ptr: go on to the next one.
Passed(add) == onEnd \/ add <= ptr \/ prevAdd > ptr

Skip ==
  /\ pc = "loop"
  /\ c <= Len(rows)
  /\ Passed(rows[c].addr)
  /\ onEnd' = rows[c].end
  /\ prevAdd' = rows[c].addr
  /\ c' = c + 1
  /\ UNCHANGED <<rows, ptr, hit, pc>>

Hit ==
  /\ pc = "loop"
  /\ c <= Len(rows)
  /\ ~Passed(rows[c].addr)
  /\ hit' = c - 1
  /\ pc' = "hit"
  /\ UNCHANGED <<rows, ptr, c, onEnd, prevAdd>>

\* c reaches lineCount.
Exhaust ==
  /\ pc = "loop"
  /\ c > Len(rows)
  /\ pc' = "miss"
  /\ UNCHANGED <<rows, ptr, c, onEnd, prevAdd, hit>>

\* dwarf_lineaddr() or dwarf_lineendsequence() fails: the loop is left with
\* srcfileno and lineno still 0.
ReadFails ==
  /\ pc = "loop"
  /\ c <= Len(rows)
  /\ pc' = "failed"
  /\ UNCHANGED <<rows, ptr, c, onEnd, prevAdd, hit>>

-----------------------------------------------------------------------------

\* onEnd and prevAdd are what the code takes them for: facts about row c-1.
Remembered ==
  /\ onEnd <=> (c = 1 \/ rows[c - 1].end)
  /\ prevAdd = IF c = 1 THEN 0 ELSE rows[c - 1].addr

\* No row the loop has left behind brackets the address.
NoneBehind == \A r \in 1 .. c - 2 : ~Brackets(rows, r, ptr)

\* What the loop reports is the first row whose addresses include ptr, even in
\* a table whose sequences overlap or are out of order.
HitIsFirstBracket == pc = "hit" => FirstBracket(rows, hit, ptr)

\* The loop gives an address up only if no row of the whole table has it.
MissMeansNoBracket ==
  pc = "miss" => \A r \in 1 .. Len(rows) : ~Brackets(rows, r, ptr)

=============================================================================
