------------------------------ MODULE UnitInfo -------------------------------
(***************************************************************************)
(* What the debug information of one compilation unit says of an address,  *)
(* as a value: the fields that the scan of the units fills in (CuRanges),  *)
(* the line table (LineTable), the file list, and how many frames the walk *)
(* over the DIE tree reports (InlineWalk).  OfFile models how the code     *)
(* gets at it, StackReport what it amounts to.                             *)
(***************************************************************************)
EXTENDS CuFilter, LineTable

(***************************************************************************)
(* table: "rows" is one with a single list of rows; it has none in a       *)
(* two-level table without logical rows.  "none" is no table, an empty     *)
(* one, or one with both levels (LineReader).  fileCount 0: dwarf_srcfiles() *)
(* has no list.  frames[p]: how many callbacks findInlined() makes for p.  *)
(***************************************************************************)
IsUnit(u) ==
  /\ DOMAIN u = {"low", "high", "ranges", "table", "rows", "v5", "fileCount", "frames"}
  /\ u.low \in Nat /\ u.high \in Nat
  /\ u.ranges \in Seq([low : Nat, high : Nat])
  /\ u.table \in {"none", "rows"}
  /\ u.rows \in Seq(Row)
  /\ u.v5 \in BOOLEAN
  /\ u.fileCount \in Nat

NoLocation == [file |-> 0, line |-> 0]

\* The file number and line of the row that describes p.
LocationOf(u, p) ==
  LET r == RowFor(u.rows, p)
  IN IF u.table # "rows" \/ r = 0 THEN NoLocation
     ELSE [file |-> u.rows[r].file, line |-> u.rows[r].line]

\* Files are counted from 1 before DWARF 5: the index into the file list.
FileIndex(u, file) == file + IF u.v5 THEN 0 ELSE -1

\* A location that can be reported, if there are files.  Line 0 is none.
Usable(u, loc) == FileIndex(u, loc.file) >= 0 /\ loc.line # 0

\* The code's bound on the file index.
FileListed(u, loc) == FileIndex(u, loc.file) <= u.fileCount

-----------------------------------------------------------------------------
(* Callbacks: of counts the addresses from 1, 0 being the base address.    *)

Special(of, addr, what) == <<[of |-> of, addr |-> addr, what |-> what, file |-> 0]>>

\* The first of an address's frames carries the address, the others 0.
SourceFrames(u, loc, of, addr, p) ==
  [k \in 1 .. u.frames[p] |->
     [of |-> of, addr |-> IF k = 1 THEN addr ELSE 0, what |-> "source",
      file |-> IF k = 1 THEN FileIndex(u, loc.file) ELSE 0]]

\* The callbacks made when unit u answers for the address.
UnitCallbacks(u, loc, of, addr, p) ==
  IF FileListed(u, loc) THEN SourceFrames(u, loc, of, addr, p)
                        ELSE Special(of, addr, "no_src_file")

=============================================================================
