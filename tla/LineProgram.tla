---------------------------- MODULE LineProgram -----------------------------
(***************************************************************************)
(* The operations of a line number program and what they do to the         *)
(* registers of libdwarf's reader (read_line_table_program(),              *)
(* src/libdwarf/dwarf_line_table_reader_common.h), and what the rows of    *)
(* such a program mean in DWARF, stated without registers.                 *)
(*                                                                         *)
(* An operation is a record [op, n]: its name, and its operand as a        *)
(* number.  Operations on registers that dwstOfFileExt() never asks for    *)
(* (column, is_stmt, basic_block, prologue_end, discriminator, isa) are    *)
(* "mark", as are those that are read over; "cut" is any whose operands    *)
(* cannot be read, lie past the end of the program, or do not fit.         *)
(***************************************************************************)
EXTENDS LineTable, FiniteSetsExt

CONSTANT W   \* addresses are numbers below W and wrap around

ASSUME WAssumption == W \in Nat \ {0}

\* A file's number is never negative, and an address is read with its width.
Operation ==
  {o \in [op : STRING, n : Int] : /\ o.op = "set_file" => o.n >= 0
                                  /\ o.op = "set_address" => o.n \in 0 .. W - 1}

\* What the header of a line table says of its program.
Header == [v5 : BOOLEAN, minInst : Nat, maxOps : Nat, lineBase : Int, lineRange : Nat \ {0}]

\* _dwarf_set_line_table_regs_default_values(): in DWARF 5 files count from 0.
Defaults(h) ==
  [addr |-> 0, opIndex |-> 0, file |-> IF h.v5 THEN 0 ELSE 1, line |-> 1,
   epilogue |-> FALSE, context |-> 0]

\* An operation advance; with several operations per instruction only whole
\* instructions count.
Advance(h, r, k) ==
  IF h.maxOps < 2
    THEN [r EXCEPT !.addr = (@ + k * h.minInst) % W]
    ELSE [r EXCEPT !.addr = (@ + h.minInst * ((r.opIndex + k) \div h.maxOps)) % W,
                   !.opIndex = (@ + k) % h.maxOps]

\* A special opcode, whose operand n is its distance from the first one.
Special(h, r, n) ==
  [Advance(h, r, n \div h.lineRange) EXCEPT !.line = @ + h.lineBase + (n % h.lineRange)]

\* The operations that only change registers.  n is the operation advance of
\* opcode 255 for const_add_pc.
SetRegister(h, r, o) ==
  CASE o.op = "advance_pc" -> [r EXCEPT !.addr = (@ + h.minInst * o.n) % W]
    [] o.op = "advance_line" -> [r EXCEPT !.line = @ + o.n]
    [] o.op = "set_file" -> [r EXCEPT !.file = o.n]
    [] o.op = "const_add_pc" -> Advance(h, r, o.n)
    [] o.op = "fixed_advance_pc" -> [r EXCEPT !.addr = (@ + o.n) % W, !.opIndex = 0]
    [] o.op = "set_epilogue_begin" -> [r EXCEPT !.epilogue = TRUE]
    [] o.op = "set_address" -> [r EXCEPT !.addr = o.n, !.opIndex = 0]
    [] o.op = "set_subprogram" -> [r EXCEPT !.context = 0]
    [] OTHER -> r

Emits(o) == o.op \in {"special", "copy", "end_sequence"}

\* The row that an operation adds to the matrix.  A special opcode stores
\* epilogue_begin into both flags of the row.
EndFlag(o, r) ==
  CASE o.op = "special" -> r.epilogue
    [] o.op = "copy" -> FALSE
    [] o.op = "end_sequence" -> TRUE

RowOf(o, r) == [addr |-> r.addr, end |-> EndFlag(o, r), file |-> r.file, line |-> r.line]

\* Registers that outlive the end of a sequence.
KeptAfterRow(h, o, r) == [r EXCEPT !.epilogue = FALSE]

\* The registers after a row.
AfterRow(h, o, r) == IF o.op = "end_sequence" THEN Defaults(h) ELSE [r EXCEPT !.epilogue = FALSE]

-----------------------------------------------------------------------------
(* The meaning of a program p.  Row k is that of the k-th operation that   *)
(* emits one.                                                              *)

Emitting(p) == {k \in DOMAIN p : Emits(p[k])}
OpOfRow(p, r) == CHOOSE k \in Emitting(p) : Cardinality({j \in Emitting(p) : j <= k}) = r

\* The operation after which the sequence of operation k starts.
SequenceStart(p, k) == Max({0} \cup {j \in 1 .. k - 1 : p[j].op = "end_sequence"})

\* The last operation of the sequence up to k that is one of ops, or 0.
LastOf(p, k, ops) == Max({0} \cup {j \in SequenceStart(p, k) + 1 .. k : p[j].op \in ops})

OpAdvance(h, o) ==
  CASE o.op = "special" -> o.n \div h.lineRange
    [] o.op \in {"advance_pc", "const_add_pc"} -> o.n
    [] OTHER -> 0

\* Instructions are counted from the last operation that says where one is.
MeantAddress(h, p, k) ==
  LET m[j \in 0 .. k] ==
        IF j <= SequenceStart(p, k) THEN 0
        ELSE IF p[j].op = "set_address" THEN p[j].n
        ELSE IF p[j].op = "fixed_advance_pc" THEN m[j - 1] + p[j].n
        ELSE LET anchor == Max({SequenceStart(p, k), LastOf(p, j, {"set_address", "fixed_advance_pc"})})
                 ops == SumFunctionOnSet([i \in DOMAIN p |-> OpAdvance(h, p[i])], anchor + 1 .. j)
             IN m[anchor] + h.minInst * (ops \div Max({1, h.maxOps}))
  IN m[k] % W

LineDelta(h, o) ==
  CASE o.op = "special" -> h.lineBase + (o.n % h.lineRange)
    [] o.op = "advance_line" -> o.n
    [] OTHER -> 0

MeantLine(h, p, k) ==
  1 + SumFunctionOnSet([i \in DOMAIN p |-> LineDelta(h, p[i])], SequenceStart(p, k) + 1 .. k)

MeantFile(h, p, k) ==
  LET s == LastOf(p, k, {"set_file"}) IN IF s = 0 THEN Defaults(h).file ELSE p[s].n

MeantRow(h, p, k) ==
  [addr |-> MeantAddress(h, p, k), end |-> p[k].op = "end_sequence",
   file |-> MeantFile(h, p, k), line |-> MeantLine(h, p, k)]

=============================================================================
