----------------------------- MODULE LineReader ------------------------------
(***************************************************************************)
(* How libdwarf reads the line table of a unit: _dwarf_internal_srclines() *)
(* (src/libdwarf/dwarf_line.c), with the header                            *)
(* (_dwarf_read_line_table_header()) and the programs                      *)
(* (read_line_table_program(), dwarf_line_table_reader_common.h), and what *)
(* dwarf_srclines_dealloc_b() gives back.  Every read may find the section *)
(* damaged and every allocation may fail.                                  *)
(*                                                                         *)
(* held counts what is allocated; ctx is what the line context points to,  *)
(* and so all that its release can find.                                   *)
(***************************************************************************)
EXTENDS LineProgram, SequencesExt

VARIABLES
  src,     \* the input: the line table [form, header, files, progs] of a unit
  mode,    \* where the code is
  ctx,     \* the fields of Dwarf_Line_Context
  at,      \* the operation about to be read
  regs,    \* the registers
  chain,   \* head_chain: the rows read so far
  held     \* how many objects of each kind are allocated

readerVars == <<src, mode, ctx, at, regs, chain, held>>

\* form: "old" up to DWARF 4, "new" for DWARF 5, "two_level" for the
\* experimental tables, which have a second program.
IsSource(s) ==
  /\ s.form \in {"old", "new", "two_level"}
  /\ s.header \in Header
  /\ s.header.v5 <=> s.form = "new"
  /\ s.files \in Nat
  /\ DOMAIN s.progs = IF s.form = "two_level" THEN {1, 2} ELSE {1}
  /\ \A k \in DOMAIN s.progs : s.progs[k] \in Seq(Operation)

Kinds == {"attr", "context", "directories", "dir_formats", "file_formats", "subprogs",
          "entries", "formats", "line", "chain", "list"}
Nothing == [k \in Kinds |-> 0]

\* lists: how many of logicals and actuals point to a list, be it an empty one.
Fresh == [directories |-> 0, dir_formats |-> 0, file_formats |-> 0, subprogs |-> 0,
          entries |-> 0, lists |-> 0, logicals |-> <<>>, actuals |-> <<>>]

Take(h, k) == [h EXCEPT ![k] = @ + 1]
Drop(h, k, m) == [h EXCEPT ![k] = @ - m]

\* dwarf_srclines_dealloc_b(): the rows, the lists, what the header filled in
\* and the context itself.
Released(h, c) ==
  [h EXCEPT !["context"] = @ - 1,
            !["directories"] = @ - c.directories,
            !["dir_formats"] = @ - c.dir_formats,
            !["file_formats"] = @ - c.file_formats,
            !["subprogs"] = @ - c.subprogs,
            !["entries"] = @ - c.entries,
            !["line"] = @ - Len(c.logicals) - Len(c.actuals),
            !["list"] = @ - c.lists]

\* _dwarf_internal_srclines() gives up with a context.
Abandon(h, c) ==
  /\ mode' = "none"
  /\ held' = Released(h, c)
  /\ ctx' = Fresh
  /\ chain' = <<>>
  /\ UNCHANGED <<src, at, regs>>

ReaderInit ==
  /\ mode = "open" /\ ctx = Fresh /\ held = Nothing
  /\ at = 1 /\ regs = Defaults(src.header) /\ chain = <<>>

OutsideProgram == UNCHANGED <<src, at, regs, chain>>

-----------------------------------------------------------------------------
(* The unit's DW_AT_stmt_list leads to the table.                          *)

\* There is no such section or attribute, or one of them cannot be read.
NoTable ==
  /\ mode = "open"
  /\ mode' = "none"
  /\ UNCHANGED <<ctx, held>> /\ OutsideProgram

FindTable ==
  /\ mode = "open"
  /\ held' = Take(held, "attr")
  /\ mode' = "offset"
  /\ UNCHANGED ctx /\ OutsideProgram

\* The offset is none or outside of the section, or there is no context.
OffsetBad ==
  /\ mode = "offset"
  /\ held' = Drop(held, "attr", 1)
  /\ mode' = "none"
  /\ UNCHANGED ctx /\ OutsideProgram

OffsetGood ==
  /\ mode = "offset"
  /\ held' = Take(Drop(held, "attr", 1), "context")
  /\ mode' = "header"
  /\ UNCHANGED ctx /\ OutsideProgram

-----------------------------------------------------------------------------
(* The header.                                                             *)

\* What a part of the header may have put into the context when it fails.
Partial ==
  CASE mode = "directories" -> {{}, {"directories"}}
    [] mode = "files" -> {{}, {"entries"}}
    [] mode = "subprogs" -> {{}, {"subprogs"}}
    [] OTHER -> {{}}

\* A file entry that enters the context's list when it is complete.
HeaderBadEntryLate ==
  /\ mode \in {"header", "directories", "formats", "files", "subprogs", "start"}
  /\ \E new \in Partial :
       Abandon([k \in Kinds |-> IF k = "formats" THEN 0 ELSE IF k \in new THEN held[k] + 1 ELSE held[k]],
               [f \in DOMAIN ctx |-> IF f \in new \ {"entries"} THEN ctx[f] + 1 ELSE ctx[f]])

\* Whatever is wrong with a part, the context goes with what that part and
\* those before it have put there; the list of formats, which the part still
\* has to itself, is freed by it.
HeaderBad ==
  /\ mode \in {"header", "directories", "formats", "files", "subprogs", "start"}
  /\ \E new \in Partial :
       Abandon([k \in Kinds |-> IF k = "formats" THEN 0 ELSE IF k \in new THEN held[k] + 1 ELSE held[k]],
               [f \in DOMAIN ctx |-> IF f \in new THEN ctx[f] + 1 ELSE ctx[f]])

\* Lengths, version, the parameters of the operations, their operand counts.
ReadParameters ==
  /\ mode = "header"
  /\ mode' = "directories"
  /\ UNCHANGED <<ctx, held>> /\ OutsideProgram

\* Up to DWARF 4 names that end with an empty one; from DWARF 5 on a format and
\* a count come first, and the format is kept.
ReadDirectories ==
  /\ mode = "directories"
  /\ LET formats == IF src.form = "old" THEN 0 ELSE 1
     IN /\ held' = [held EXCEPT !["directories"] = 1, !["dir_formats"] = formats]
        /\ ctx' = [ctx EXCEPT !.directories = 1, !.dir_formats = formats]
  /\ mode' = IF src.form = "old" THEN "files" ELSE "formats"
  /\ OutsideProgram

\* The format of the file entries; the context gets it after the last entry.
ReadFileFormats ==
  /\ mode = "formats"
  /\ held' = Take(held, "formats")
  /\ mode' = "files"
  /\ UNCHANGED ctx /\ OutsideProgram

ReadFile ==
  /\ mode = "files"
  /\ ctx.entries < src.files
  /\ held' = Take(held, "entries")
  /\ ctx' = [ctx EXCEPT !.entries = @ + 1]
  /\ UNCHANGED mode /\ OutsideProgram

FilesEnd ==
  /\ mode = "files"
  /\ ctx.entries = src.files
  /\ held' = [held EXCEPT !["formats"] = 0, !["file_formats"] = held["formats"]]
  /\ ctx' = [ctx EXCEPT !.file_formats = held["formats"]]
  /\ mode' = IF src.form = "two_level" THEN "subprogs" ELSE "start"
  /\ OutsideProgram

ReadSubprograms ==
  /\ mode = "subprogs"
  /\ held' = Take(held, "subprogs")
  /\ ctx' = [ctx EXCEPT !.subprogs = 1]
  /\ mode' = "start"
  /\ OutsideProgram

\* The program begins where the header ends, or later than it says.
HeaderEnds ==
  /\ mode = "start"
  /\ mode' = "program"
  /\ UNCHANGED <<ctx, held>> /\ OutsideProgram

-----------------------------------------------------------------------------
(* The programs: the only one, or the one for the logical rows and then    *)
(* that for the actual rows.                                               *)

Actuals == ctx.lists = 1
Program == src.progs[IF Actuals THEN 2 ELSE 1]
AtOp == mode = "program" /\ at <= Len(Program)
Op == Program[at]

\* _dwarf_free_chain_entries() for all entries, with their rows.
Unchained(h) == Drop(Drop(h, "line", Len(chain)), "chain", Len(chain))

\* set_address_from_logical: the line register holds the number of a row of
\* the logicals table.
FromLogical(r, m) ==
  LET num == r.line + m
  IN IF num \in 1 .. Len(ctx.logicals)
       THEN [r EXCEPT !.line = num, !.addr = ctx.logicals[num].addr, !.opIndex = 0]
       ELSE [r EXCEPT !.line = num]

\* pop_context: back to what a row of this table has.
PopContext(r) ==
  IF r.context \in 1 .. Len(chain)
    THEN [r EXCEPT !.file = chain[r.context].row.file, !.line = chain[r.context].row.line,
                   !.context = chain[r.context].context]
    ELSE r

\* The registers after the operation, before a row is added.
Executed ==
  CASE Op.op = "special" -> Special(src.header, regs, Op.n)
    [] Op.op = "set_subprogram" /\ Actuals -> FromLogical(regs, Op.n)
    [] Op.op = "inlined_call" -> [regs EXCEPT !.context = Len(chain) + Op.n]
    [] Op.op = "pop_context" -> PopContext(regs)
    [] OTHER -> SetRegister(src.header, regs, Op)

Execute ==
  /\ AtOp
  /\ ~Emits(Op) /\ Op.op \notin {"cut", "define_file"}
  /\ regs' = Executed /\ regs'.line >= 0
  /\ at' = at + 1
  /\ UNCHANGED <<src, mode, ctx, chain, held>>

\* The operation cannot be read, or leads to a negative line.
OpBad ==
  /\ AtOp
  /\ Op.op = "cut" \/ Executed.line < 0
  /\ Abandon(Unchained(held), ctx)

\* A row, and an entry of the chain for it.
AddRow ==
  /\ AtOp
  /\ Emits(Op)
  /\ Executed.line >= 0
  /\ chain' = Append(chain, [row |-> RowOf(Op, Executed), context |-> Executed.context])
  /\ held' = Take(Take(held, "line"), "chain")
  /\ regs' = AfterRow(src.header, Op, Executed)
  /\ at' = at + 1
  /\ UNCHANGED <<src, mode, ctx>>

\* There is no memory for the row.
AddRowFails ==
  /\ AtOp
  /\ Emits(Op)
  /\ Executed.line >= 0
  /\ Abandon(Unchained(held), ctx)

\* There is none for the entry: the row is counted already, and freeing as many
\* entries as rows goes past the end of the chain, through a null pointer.
AddEntryFails ==
  /\ AtOp
  /\ Emits(Op)
  /\ Executed.line >= 0
  /\ mode' = "crashed"
  /\ held' = Unchained(held)
  /\ chain' = <<>>
  /\ UNCHANGED <<src, ctx, at, regs>>

\* The program names a file; the entry enters the context's list at once.
DefineFile ==
  /\ AtOp
  /\ Op.op = "define_file"
  /\ held' = Take(held, "entries")
  /\ ctx' = [ctx EXCEPT !.entries = @ + 1]
  /\ at' = at + 1
  /\ UNCHANGED <<src, mode, regs, chain>>

DefineFileBad ==
  /\ AtOp
  /\ Op.op = "define_file"
  /\ \E m \in {0, 1} :
       Abandon([Unchained(held) EXCEPT !["entries"] = @ + m], [ctx EXCEPT !.entries = @ + m])

\* There is no memory for the list.
BlockFails ==
  /\ mode = "program" /\ at > Len(Program)
  /\ Abandon(Unchained(held), ctx)

\* The rows go to a list, their chain is freed.
Deliver ==
  /\ mode = "program" /\ at > Len(Program)
  /\ LET list == [r \in DOMAIN chain |-> chain[r].row]
     IN ctx' = IF Actuals THEN [ctx EXCEPT !.actuals = list, !.lists = 2]
                        ELSE [ctx EXCEPT !.logicals = list, !.lists = 1]
  /\ held' = Take(Drop(held, "chain", Len(chain)), "list")
  /\ chain' = <<>>
  /\ mode' = IF src.form = "two_level" /\ ~Actuals THEN "program" ELSE "read"
  /\ at' = 1
  /\ regs' = Defaults(src.header)
  /\ UNCHANGED src

-----------------------------------------------------------------------------
(* dwstOfFileExt() takes a context with one table that has rows.           *)

TableCount ==
  Cardinality({l \in {"logicals", "actuals"} : ctx[l] # <<>>})

Accept ==
  /\ mode = "read"
  /\ TableCount = 1
  /\ mode' = "table"
  /\ UNCHANGED <<ctx, held>> /\ OutsideProgram

Reject ==
  /\ mode = "read"
  /\ TableCount # 1
  /\ Abandon(held, ctx)

\* The clean-up: there is a list of (logical) rows, be it an empty one.
Close ==
  /\ mode = "table"
  /\ mode' = "closed"
  /\ held' = Released(held, ctx)
  /\ ctx' = Fresh
  /\ OutsideProgram

ReaderNext ==
  \/ NoTable \/ FindTable \/ OffsetBad \/ OffsetGood
  \/ HeaderBad \/ ReadParameters \/ ReadDirectories \/ ReadFileFormats
  \/ ReadFile \/ FilesEnd \/ ReadSubprograms \/ HeaderEnds
  \/ Execute \/ OpBad \/ AddRow \/ AddRowFails \/ AddEntryFails
  \/ DefineFile \/ DefineFileBad \/ BlockFails \/ Deliver
  \/ Accept \/ Reject

Reading == mode \notin {"none", "table", "closed", "crashed"}

-----------------------------------------------------------------------------

\* What is allocated is what can be found from where the code is, so that
\* nothing is left when the table is given up or given back, however damaged it
\* is and whatever allocation failed: the rows and the chain while a program is
\* read, and then what the context points to.
ReaderReleases ==
  /\ held \in [Kinds -> Nat]
  /\ mode \in {"open", "none", "closed"} => held = Nothing
  /\ mode \in {"table", "read"} => Released(held, ctx) = Nothing
  /\ mode = "program" =>
       Released(Drop(Drop(held, "chain", Len(chain)), "line", Len(chain)), ctx) = Nothing

Uses(ops) == \E k \in DOMAIN src.progs[1] : src.progs[1][k].op \in ops

\* A program that the reader takes as DWARF means it.  Left out are the
\* experimental operations that return to a row, the advance of instructions that
\* hold several operations, which advance_pc takes for an advance of addresses,
\* and the flag of special opcodes after set_epilogue_begin, see
\* EndsAreEndSequences.
PlainProgram ==
  /\ src.form # "two_level"
  /\ ~Uses({"pop_context", "set_epilogue_begin"})
  /\ src.header.maxOps > 1 => ~Uses({"advance_pc"})

MeantRows ==
  LET p == src.progs[1]
  IN [r \in 1 .. Cardinality(Emitting(p)) |-> MeantRow(src.header, p, OpOfRow(p, r))]

\* The rows are those that DWARF's description of the program yields, in their
\* order.
RowsAsMeant == (mode = "table" /\ PlainProgram) => ctx.logicals = MeantRows

\* dwarf_lineendsequence() is true "if and only if this 'line' entry was a
\* DW_LNE_end_sequence" (src/libdwarf/dwarf_line.c:1377).
EndsAreEndSequences ==
  (mode = "table" /\ src.form # "two_level") =>
    \A r \in DOMAIN ctx.logicals :
      ctx.logicals[r].end <=> src.progs[1][OpOfRow(src.progs[1], r)].op = "end_sequence"

=============================================================================
