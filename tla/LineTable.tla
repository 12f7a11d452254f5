------------------------------ MODULE LineTable ------------------------------
(***************************************************************************)
(* The line table of one compilation unit as libdwarf hands it to          *)
(* dwstOfFileExt(): a sequence of rows, each with its address, its source  *)
(* file number, its line, and the flag that it ends a sequence of machine  *)
(* code.  The operators here say what a row means in DWARF; LineLookup     *)
(* models the loop that searches the table and is compared with them.      *)
(***************************************************************************)
EXTENDS Integers, Sequences

\* The rows a table may hold.  Line 0 means "no source line" to DWARF.
Row == [addr : Nat, end : BOOLEAN, file : Nat, line : Nat]

(***************************************************************************)
(* Row r describes the addresses from its own up to that of the next row,  *)
(* unless it ends a sequence: the addresses after an end row belong to no  *)
(* row at all.                                                             *)
(***************************************************************************)
Brackets(rows, r, p) ==
  /\ r \in 1 .. Len(rows) - 1
  /\ ~rows[r].end
  /\ rows[r].addr <= p
  /\ p < rows[r + 1].addr

\* Row r is the one the search has to report: the first that brackets p.
FirstBracket(rows, r, p) ==
  /\ Brackets(rows, r, p)
  /\ \A q \in 1 .. r - 1 : ~Brackets(rows, q, p)

\* The row reported for p, or 0 when no row describes it.
RowFor(rows, p) ==
  IF \E r \in 1 .. Len(rows) : Brackets(rows, r, p)
    THEN CHOOSE r \in 1 .. Len(rows) : FirstBracket(rows, r, p)
    ELSE 0

=============================================================================
