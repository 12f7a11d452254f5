-------------------------- MODULE LineLookupProofs ---------------------------
(***************************************************************************)
(* For every line program and every address, whatever fails: what the loop *)
(* of LineLookup reports is the first row that brackets the address, and   *)
(* it reports none only if there is none.  Three invariants lead there:    *)
(* the reader makes rows whose addresses are natural numbers; the search   *)
(* begins before the first of them and only once they are read; the loop   *)
(* remembers row c-1 rightly, and no row before it brackets the address.   *)
(***************************************************************************)
EXTENDS AddressLookup, TLAPS, FiniteSetTheorems, WellFoundedInduction

-----------------------------------------------------------------------------
(* The rows that are read.                                                 *)

Registers ==
  [addr : Nat, opIndex : Nat, file : Nat, line : Nat, epilogue : BOOLEAN, context : Int]
\* Before it is known that the line is not negative.
Moved == [addr : Nat, opIndex : Nat, file : Nat, line : Int, epilogue : BOOLEAN, context : Int]

Link == [row : Row, context : Int]

\* The second program is read for two-level tables only.
ReaderTyped ==
  /\ IsSource(src) /\ at \in Nat \ {0}
  /\ regs \in Registers
  /\ chain \in Seq(Link)
  /\ DOMAIN ctx = DOMAIN Fresh
  /\ ctx.logicals \in Seq(Row)
  /\ (Actuals /\ mode # "read") => (src.form = "two_level" \/ ~Reading)
  /\ mode \notin {"program", "read", "none", "table", "closed", "crashed"} => ctx.lists = 0

\* Numbers that wrap around are natural.
LEMMA Wraps ==
  ASSUME NEW x \in Int
  PROVE  x % W \in Nat
  BY WAssumption

\* Quotients are integers, remainders natural numbers.
LEMMA DivisionTyped ==
  ASSUME NEW x \in Int, NEW n \in Nat \ {0}
  PROVE  x \div n \in Int /\ x % n \in Nat
  OBVIOUS

\* An advance leaves the registers of their types.
LEMMA AdvanceTyped ==
  ASSUME NEW h \in Header, NEW r \in Moved, NEW k \in Int
  PROVE  Advance(h, r, k) \in Moved
  <1>1. h.maxOps \in Nat /\ h.minInst \in Nat /\ r.addr \in Nat /\ r.opIndex \in Nat
    BY DEF Header, Moved
  <1>2. CASE h.maxOps < 2
    <2>1. k * h.minInst \in Int
      BY <1>1
    <2>2. (r.addr + k * h.minInst) % W \in Nat
      BY <1>1, <2>1, Wraps
    <2>3. QED
      BY <1>2, <2>2 DEF Advance, Moved
  <1>3. CASE ~(h.maxOps < 2)
    <2>1. h.maxOps \in Nat \ {0}
      BY <1>1, <1>3
    <2>2. (r.opIndex + k) \div h.maxOps \in Int /\ (r.opIndex + k) % h.maxOps \in Nat
      <3>1. r.opIndex + k \in Int
        BY <1>1
      <3>2. QED
        BY <2>1, <3>1, DivisionTyped
    <2>3. h.minInst * ((r.opIndex + k) \div h.maxOps) \in Int
      BY <1>1, <2>2
    <2>4. (r.addr + h.minInst * ((r.opIndex + k) \div h.maxOps)) % W \in Nat
      BY <1>1, <2>3, Wraps
    <2>5. QED
      BY <1>3, <2>2, <2>4 DEF Advance, Moved
  <1>4. QED
    BY <1>2, <1>3

\* So does a special opcode.
LEMMA SpecialTyped ==
  ASSUME NEW h \in Header, NEW r \in Moved, NEW n \in Int
  PROVE  Special(h, r, n) \in Moved
  <1>1. h.lineRange \in Nat \ {0} /\ h.lineBase \in Int
    BY DEF Header
  <1>2. n \div h.lineRange \in Int /\ n % h.lineRange \in Nat
    BY <1>1, DivisionTyped
  <1>3. Advance(h, r, n \div h.lineRange) \in Moved
    BY <1>2, AdvanceTyped
  <1>4. QED
    BY <1>1, <1>2, <1>3 DEF Special, Moved

\* The operand of an operation is a number; a file's and an address are natural.
LEMMA OperationFields ==
  ASSUME NEW o \in Operation
  PROVE  /\ o.n \in Int
         /\ o.op = "set_file" => o.n >= 0
         /\ o.op = "set_address" => o.n \in 0 .. W - 1
  BY DEF Operation

\* And so do the operations that only change registers.
LEMMA SetRegisterTyped ==
  ASSUME NEW h \in Header, NEW r \in Moved, NEW o \in Operation
  PROVE  SetRegister(h, r, o) \in Moved
  <1>1. /\ o.n \in Int /\ (o.op \in {"set_file", "set_address"} => o.n \in Nat)
        /\ h.minInst \in Nat /\ r.addr \in Nat /\ r.line \in Int
    <2>1. o.n \in Int /\ (o.op = "set_file" => o.n >= 0) /\ (o.op = "set_address" => o.n \in 0 .. W - 1)
      BY OperationFields
    <2>2. QED
      BY <2>1, WAssumption DEF Header, Moved
  <1>2. CASE o.op = "advance_pc"
    <2>1. (r.addr + h.minInst * o.n) % W \in Nat
      <3>1. h.minInst * o.n \in Int
        BY <1>1
      <3>2. QED
        BY <1>1, <3>1, Wraps
    <2>2. QED
      BY <1>2, <2>1 DEF SetRegister, Moved
  <1>3. CASE o.op = "const_add_pc"
    BY <1>1, <1>3, AdvanceTyped DEF SetRegister
  <1>4. CASE o.op = "fixed_advance_pc"
    <2>1. (r.addr + o.n) % W \in Nat
      BY <1>1, Wraps
    <2>2. QED
      BY <1>4, <2>1 DEF SetRegister, Moved
  <1>5. CASE o.op \in {"advance_line", "set_file", "set_epilogue_begin", "set_address", "set_subprogram"}
    <2>1. CASE o.op = "advance_line"
      BY <1>1, <2>1 DEF SetRegister, Moved
    <2>2. CASE o.op = "set_file"
      BY <1>1, <2>2 DEF SetRegister, Moved
    <2>3. CASE o.op = "set_address"
      BY <1>1, <2>3 DEF SetRegister, Moved
    <2>4. CASE o.op = "set_subprogram"
      BY <2>4 DEF SetRegister, Moved
    <2>5. CASE o.op = "set_epilogue_begin"
      <3>1. SetRegister(h, r, o) = [r EXCEPT !.epilogue = TRUE]
        BY <2>5 DEF SetRegister
      <3>2. QED
        BY <3>1 DEF Moved
    <2>6. QED
      BY <1>5, <2>1, <2>2, <2>3, <2>4, <2>5
  <1>6. CASE o.op \notin {"advance_pc", "const_add_pc", "fixed_advance_pc", "advance_line", "set_file",
                          "set_epilogue_begin", "set_address", "set_subprogram"}
    BY <1>6 DEF SetRegister
  <1>7. QED
    BY <1>2, <1>3, <1>4, <1>5, <1>6

\* The operation that is read is one of the table's.
LEMMA OpTyped ==
  ASSUME ReaderTyped, AtOp
  PROVE  Op \in Operation
  <1>1. Program \in Seq(Operation)
    BY DEF ReaderTyped, IsSource, Program, AtOp, Reading
  <1>2. QED
    BY <1>1 DEF Op, AtOp, ReaderTyped

\* The registers after an operation of any kind.
LEMMA ExecutedTyped ==
  ASSUME ReaderTyped, AtOp
  PROVE  Executed \in Moved
  <1>1. Op \in Operation /\ Op.n \in Int
    BY OpTyped DEF Operation
  <1>2. src.header \in Header /\ regs \in Moved /\ Len(chain) \in Nat
    BY DEF ReaderTyped, IsSource, Registers, Moved
  <1>3. CASE Op.op = "special"
    BY <1>1, <1>2, <1>3, SpecialTyped DEF Executed
  <1>4. CASE Op.op = "set_subprogram" /\ Actuals
    <2>1. ctx.logicals \in Seq(Row) /\ regs.line + Op.n \in Int
      BY <1>1, <1>2 DEF ReaderTyped, Moved
    <2>2. ASSUME NEW m \in 1 .. Len(ctx.logicals) PROVE ctx.logicals[m].addr \in Nat
      <3>1. ctx.logicals[m] \in Row
        BY <2>1
      <3>2. QED
        BY <3>1 DEF Row
    <2>3. FromLogical(regs, Op.n) \in Moved
      BY <1>2, <2>1, <2>2 DEF FromLogical, Moved
    <2>4. QED
      BY <1>4, <2>3 DEF Executed
  <1>5. CASE Op.op = "inlined_call"
    BY <1>1, <1>2, <1>5 DEF Executed, Moved
  <1>6. CASE Op.op = "pop_context"
    <2>1. ASSUME NEW m \in 1 .. Len(chain)
          PROVE  /\ chain[m].row.file \in Nat /\ chain[m].row.line \in Int
                 /\ chain[m].context \in Int
      <3>1. chain[m] \in Link
        BY DEF ReaderTyped
      <3>2. QED
        BY <3>1 DEF Link, Row
    <2>2. PopContext(regs) \in Moved
      <3>1. CASE regs.context \in 1 .. Len(chain)
        BY <1>2, <2>1, <3>1 DEF PopContext, Moved
      <3>2. CASE regs.context \notin 1 .. Len(chain)
        BY <1>2, <3>2 DEF PopContext
      <3>3. QED
        BY <3>1, <3>2
    <2>3. QED
      BY <1>6, <2>2 DEF Executed
  <1>7. CASE /\ Op.op \notin {"special", "inlined_call", "pop_context"}
             /\ ~(Op.op = "set_subprogram" /\ Actuals)
    BY <1>1, <1>2, <1>7, SetRegisterTyped DEF Executed
  <1>8. QED
    BY <1>3, <1>4, <1>5, <1>6, <1>7

\* A table starts with the default registers.
LEMMA DefaultsTyped ==
  ASSUME NEW h \in Header
  PROVE  Defaults(h) \in Registers
  BY DEF Defaults, Header, Registers

\* A row, and the registers after it.
LEMMA RowTyped ==
  ASSUME NEW h \in Header, NEW o, Emits(o), NEW r \in Moved, r.line >= 0
  PROVE  RowOf(o, r) \in Row /\ AfterRow(h, o, r) \in Registers
  <1>1. EndFlag(o, r) \in BOOLEAN
    <2>1. CASE o.op = "special"
      BY <2>1, Zenon DEF EndFlag, Moved
    <2>2. CASE o.op = "copy"
      BY <2>2 DEF EndFlag
    <2>3. CASE o.op = "end_sequence"
      BY <2>3 DEF EndFlag
    <2>4. QED
      BY <2>1, <2>2, <2>3 DEF Emits
  <1>2. r.addr \in Nat /\ r.file \in Nat /\ r.line \in Nat
    BY DEF Moved
  <1>3. RowOf(o, r) \in Row
    BY <1>1, <1>2 DEF RowOf, Row
  <1>4. [r EXCEPT !.epilogue = FALSE] \in Registers
    BY <1>2 DEF Moved, Registers
  <1>5. QED
    BY <1>3, <1>4, DefaultsTyped DEF AfterRow

\* At the beginning nothing is read.
LEMMA ReaderBegins ==
  ASSUME ReaderInit, IsSource(src)
  PROVE  ReaderTyped
  <1>1. regs \in Registers
    BY DefaultsTyped DEF ReaderInit, IsSource
  <1>2. /\ DOMAIN ctx = DOMAIN Fresh /\ ctx.logicals = <<>> /\ ctx.lists = 0
        /\ chain = <<>> /\ at = 1
    BY DEF ReaderInit, Fresh
  <1>3. QED
    BY <1>1, <1>2 DEF ReaderTyped, Actuals

\* What is given up leaves nothing to the search.
LEMMA AbandonTyped ==
  ASSUME ReaderTyped, NEW h, NEW x, Abandon(h, x)
  PROVE  ReaderTyped'
  <1>1. /\ mode' = "none" /\ ctx' = Fresh /\ chain' = <<>> /\ UNCHANGED <<src, at, regs>>
    BY DEF Abandon
  <1>2. DOMAIN ctx' = DOMAIN Fresh /\ ctx'.logicals = <<>> /\ ctx'.lists = 0
    BY <1>1 DEF Fresh
  <1>3. QED
    BY <1>1, <1>2 DEF ReaderTyped, IsSource, Actuals

\* A part of the header is read.
LEMMA HeaderTyped ==
  ASSUME ReaderTyped,
         \/ NoTable \/ FindTable \/ OffsetBad \/ OffsetGood
         \/ ReadParameters \/ ReadDirectories \/ ReadFileFormats
         \/ ReadFile \/ FilesEnd \/ ReadSubprograms \/ HeaderEnds
  PROVE  ReaderTyped'
  <1>1. /\ UNCHANGED <<src, at, regs, chain>>
        /\ mode \in {"open", "offset", "header", "directories", "formats", "files", "subprogs", "start"}
    BY DEF NoTable, FindTable, OffsetBad, OffsetGood, ReadParameters, ReadDirectories,
           ReadFileFormats, ReadFile, FilesEnd, ReadSubprograms, HeaderEnds, OutsideProgram
  <1>2. ctx.lists = 0 /\ "lists" \in DOMAIN ctx /\ "logicals" \in DOMAIN ctx
    BY <1>1 DEF ReaderTyped, Fresh
  <1>3. DOMAIN ctx' = DOMAIN ctx /\ ctx'.lists = 0 /\ ctx'.logicals = ctx.logicals
    BY <1>2
       DEF NoTable, FindTable, OffsetBad, OffsetGood, ReadParameters, ReadDirectories,
           ReadFileFormats, ReadFile, FilesEnd, ReadSubprograms, HeaderEnds, OutsideProgram
  <1>4. QED
    BY <1>1, <1>3 DEF ReaderTyped, IsSource, Actuals

\* An operation is executed.
LEMMA OperationTyped ==
  ASSUME ReaderTyped, Execute \/ AddRow \/ DefineFile
  PROVE  ReaderTyped'
  <1>1. /\ AtOp /\ mode = "program" /\ UNCHANGED <<src, mode>> /\ at' = at + 1
        /\ Executed \in Moved /\ src.header \in Header
    BY ExecutedTyped DEF Execute, AddRow, DefineFile, AtOp, ReaderTyped, IsSource
  <1>2. CASE Execute
    <2>1. regs' = Executed /\ regs'.line >= 0 /\ UNCHANGED <<ctx, chain>>
      BY <1>2 DEF Execute
    <2>2. regs' \in Registers
      BY <1>1, <2>1 DEF Moved, Registers
    <2>3. QED
      BY <1>1, <2>1, <2>2 DEF ReaderTyped, Actuals, Reading
  <1>3. CASE AddRow
    <2>1. Emits(Op) /\ Executed.line >= 0 /\ UNCHANGED ctx
      BY <1>3 DEF AddRow
    <2>2. RowOf(Op, Executed) \in Row /\ regs' \in Registers
      BY <1>1, <1>3, <2>1, RowTyped DEF AddRow
    <2>3. [row |-> RowOf(Op, Executed), context |-> Executed.context] \in Link
      BY <1>1, <2>2 DEF Link, Moved
    <2>4. chain' \in Seq(Link)
      BY <1>3, <2>3 DEF AddRow, ReaderTyped
    <2>5. QED
      BY <1>1, <2>1, <2>2, <2>4 DEF ReaderTyped, Actuals, Reading
  <1>4. CASE DefineFile
    <2>1. "lists" \in DOMAIN ctx /\ "logicals" \in DOMAIN ctx
      BY DEF ReaderTyped, Fresh
    <2>2. /\ DOMAIN ctx' = DOMAIN ctx /\ ctx'.lists = ctx.lists /\ ctx'.logicals = ctx.logicals
          /\ UNCHANGED <<regs, chain>>
      BY <1>4, <2>1 DEF DefineFile
    <2>3. QED
      BY <1>1, <2>2 DEF ReaderTyped, Actuals, Reading
  <1>5. QED
    BY <1>2, <1>3, <1>4

\* The rows of a chain are a list.
LEMMA Delivered ==
  ASSUME chain \in Seq(Link)
  PROVE  LET rws == [r \in DOMAIN chain |-> chain[r].row]
         IN rws \in Seq(Row) /\ Len(rws) = Len(chain)
  <1> DEFINE delivered == [r \in DOMAIN chain |-> chain[r].row]
  <1>1. Len(chain) \in Nat /\ DOMAIN chain = 1 .. Len(chain)
    OBVIOUS
  <1>2. ASSUME NEW r \in 1 .. Len(chain) PROVE chain[r].row \in Row
    <2>1. chain[r] \in Link
      OBVIOUS
    <2>2. QED
      BY <2>1 DEF Link
  <1>3. delivered \in [1 .. Len(chain) -> Row]
    BY <1>1, <1>2
  <1>4. QED
    BY <1>1, <1>3

\* A program is at its end.
LEMMA DeliverTyped ==
  ASSUME ReaderTyped, Deliver
  PROVE  ReaderTyped'
  <1> DEFINE delivered == [r \in DOMAIN chain |-> chain[r].row]
  <1>1. delivered \in Seq(Row)
    BY Delivered DEF ReaderTyped
  <1>2. /\ mode = "program" /\ chain' = <<>> /\ at' = 1 /\ UNCHANGED src
        /\ mode' = IF src.form = "two_level" /\ ~Actuals THEN "program" ELSE "read"
        /\ ctx' = IF Actuals THEN [ctx EXCEPT !.actuals = delivered, !.lists = 2]
                             ELSE [ctx EXCEPT !.logicals = delivered, !.lists = 1]
    BY DEF Deliver
  <1>3. regs' \in Registers
    BY DefaultsTyped DEF Deliver, ReaderTyped, IsSource
  <1>4. "lists" \in DOMAIN ctx /\ "logicals" \in DOMAIN ctx /\ "actuals" \in DOMAIN ctx
    BY DEF ReaderTyped, Fresh
  <1>5. DOMAIN ctx' = DOMAIN ctx /\ ctx'.logicals \in Seq(Row)
    BY <1>1, <1>2, <1>4 DEF ReaderTyped
  <1>6. QED
    BY <1>2, <1>3, <1>5 DEF ReaderTyped, IsSource, Actuals

\* Every step of the reader makes rows of the type that the search needs.
LEMMA ReaderStep ==
  ASSUME ReaderTyped, ReaderNext
  PROVE  ReaderTyped'
  <1>1. CASE \E h, x : Abandon(h, x)
    BY <1>1, AbandonTyped
  <1>2. CASE AddEntryFails
    BY <1>2 DEF AddEntryFails, ReaderTyped, Actuals, Reading
  <1>3. CASE Accept
    BY <1>3 DEF Accept, OutsideProgram, ReaderTyped, Actuals, Reading
  <1>4. ASSUME HeaderBad \/ OpBad \/ AddRowFails \/ DefineFileBad \/ BlockFails \/ Reject
        PROVE  \E h, x : Abandon(h, x)
    BY <1>4, Zenon DEF HeaderBad, OpBad, AddRowFails, DefineFileBad, BlockFails, Reject
  <1>5. QED
    BY <1>1, <1>2, <1>3, <1>4, HeaderTyped, OperationTyped, DeliverTyped DEF ReaderNext

-----------------------------------------------------------------------------
(* What the reader allocates.                                              *)

\* Kinds of which the context keeps count itself.
Filled == {"directories", "dir_formats", "file_formats", "subprogs", "entries"}

\* The objects h are those that the context x leads to, and nothing else but n
\* rows in a chain.
Belong(h, x, n) ==
  /\ h \in [Kinds -> Nat] /\ n \in Nat
  /\ x = [f \in DOMAIN Fresh |-> x[f]] /\ x.logicals \in Seq(Row) /\ x.actuals \in Seq(Row)
  /\ h["attr"] = 0 /\ h["context"] = 1 /\ h["formats"] = 0
  /\ \A k \in Filled : h[k] = x[k]
  /\ h["chain"] = n /\ h["line"] = n + Len(x.logicals) + Len(x.actuals)
  /\ h["list"] = x.lists

\* Before there is a context, and after it is gone.
Without == {"open", "offset", "none", "closed"}
HeaderModes == {"header", "directories", "formats", "files", "subprogs", "start"}

\* What is allocated wherever the code is.  Only between the format of the file
\* entries and the last of them is there something the context does not have;
\* only while a program is read is there a chain, and a list for the first of
\* two programs.
Ledger ==
  /\ held \in [Kinds -> Nat]
  /\ mode \in Without => ctx = Fresh /\ chain = <<>>
  /\ mode \in {"open", "none", "closed"} => held = Nothing
  /\ mode = "offset" => held = [Nothing EXCEPT !["attr"] = 1]
  /\ mode \in HeaderModes =>
       /\ Belong([held EXCEPT !["formats"] = 0], ctx, 0) /\ chain = <<>>
       /\ ctx.lists = 0 /\ ctx.logicals = <<>> /\ ctx.actuals = <<>>
       /\ mode # "files" => held["formats"] = 0
       /\ mode \in HeaderModes \ {"start"} => ctx.subprogs = 0
  /\ mode = "program" =>
       /\ Belong(held, ctx, Len(chain))
       /\ ctx.lists \in {0, 1} /\ ctx.actuals = <<>>
       /\ ~Actuals => ctx.logicals = <<>>
  /\ mode \in {"read", "table"} => Belong(held, ctx, 0) /\ chain = <<>>

\* The rows of a chain come off the count of rows.
LEMMA LessRows ==
  ASSUME NEW n \in Nat, NEW a \in Nat, NEW b \in Nat
  PROVE  (n + a + b) - n = a + b /\ n - n = 0 /\ a + b \in Nat /\ 0 + a + b = a + b
  OBVIOUS

\* What belongs to the context goes with it.
LEMMA NothingLeft ==
  ASSUME NEW h, NEW x, Belong(h, x, 0)
  PROVE  Released(h, x) = Nothing
  <1>1. /\ h \in [Kinds -> Nat] /\ h["attr"] = 0 /\ h["context"] = 1 /\ h["formats"] = 0
        /\ \A k \in Filled : h[k] = x[k]
        /\ h["chain"] = 0 /\ h["line"] = Len(x.logicals) + Len(x.actuals)
        /\ h["list"] = x.lists /\ Len(x.logicals) \in Nat /\ Len(x.actuals) \in Nat
    <2>1. h["line"] = 0 + Len(x.logicals) + Len(x.actuals)
      BY Zenon DEF Belong
    <2>2. Len(x.logicals) \in Nat /\ Len(x.actuals) \in Nat
      BY DEF Belong
    <2>3. h["line"] = Len(x.logicals) + Len(x.actuals)
      BY <2>1, <2>2, LessRows
    <2>4. QED
      BY <2>2, <2>3 DEF Belong
  <1> DEFINE R == Released(h, x)
  <1>2. DOMAIN R = Kinds /\ DOMAIN Nothing = Kinds
    BY <1>1 DEF Released, Nothing
  <1>3. R = [k \in Kinds |-> R[k]] /\ Nothing = [k \in Kinds |-> Nothing[k]]
    BY <1>1 DEF Released, Nothing
  <1>4. ASSUME NEW k \in Kinds PROVE R[k] = 0
    BY <1>1, <1>4 DEF Released, Kinds, Filled
  <1>5. \A k \in Kinds : R[k] = Nothing[k]
    BY <1>4 DEF Nothing
  <1>6. QED
    BY <1>3, <1>5

\* What is given up with nothing but what belongs to the context is gone.
LEMMA AbandonKeeps ==
  ASSUME NEW h, NEW x, Belong(h, x, 0), Abandon(h, x)
  PROVE  Ledger'
  <1>1. mode' = "none" /\ ctx' = Fresh /\ chain' = <<>> /\ held' = Nothing
    BY NothingLeft DEF Abandon
  <1>2. Nothing \in [Kinds -> Nat]
    BY DEF Nothing
  <1>3. QED
    BY <1>1, <1>2 DEF Ledger, Without, HeaderModes

\* Without its chain, what is held while a program is read belongs to the context.
LEMMA UnchainedBelongs ==
  ASSUME NEW h, NEW x, NEW n, Belong(h, x, n)
  PROVE  Belong(Drop(Drop(h, "line", n), "chain", n), x, 0)
  <1> DEFINE a == Len(x.logicals)
             b == Len(x.actuals)
             u == Drop(Drop(h, "line", n), "chain", n)
  <1>1. a \in Nat /\ b \in Nat /\ n \in Nat
    BY DEF Belong
  <1>2. h \in [Kinds -> Nat] /\ "line" \in Kinds /\ "chain" \in Kinds
    BY DEF Belong, Kinds
  <1>3. h["line"] = n + a + b /\ h["chain"] = n
    BY DEF Belong
  <1>4. /\ DOMAIN u = Kinds
        /\ u["line"] = h["line"] - n /\ u["chain"] = h["chain"] - n
        /\ \A k \in Kinds \ {"line", "chain"} : u[k] = h[k]
    BY <1>2 DEF Drop
  <1>5. u = [k \in Kinds |-> u[k]]
    BY <1>2 DEF Drop
  <1> HIDE DEF u, a, b
  <1>6. u["line"] = a + b /\ u["chain"] = 0 /\ a + b \in Nat /\ 0 + a + b = a + b
    BY <1>1, <1>3, <1>4, LessRows
  <1>7. ASSUME NEW k \in Kinds PROVE u[k] \in Nat
    <2>1. CASE k \in {"line", "chain"}
      BY <1>6, <2>1
    <2>2. CASE k \notin {"line", "chain"}
      BY <1>2, <1>4, <2>2
    <2>3. QED
      BY <2>1, <2>2
  <1>8. u \in [Kinds -> Nat]
    BY <1>5, <1>7
  <1>9. /\ Filled \subseteq Kinds \ {"line", "chain"}
        /\ {"attr", "context", "formats", "list"} \subseteq Kinds \ {"line", "chain"}
    BY DEF Filled, Kinds
  <1>10. /\ u["attr"] = 0 /\ u["context"] = 1 /\ u["formats"] = 0 /\ u["list"] = x.lists
         /\ \A k \in Filled : u[k] = x[k]
    BY <1>4, <1>9 DEF Belong
  <1>11. u["line"] = 0 + a + b
    BY <1>6
  <1>12. Belong(u, x, 0)
    BY <1>6, <1>8, <1>10, <1>11 DEF Belong, a, b
  <1>13. QED
    BY <1>12 DEF u

\* What the context and the count of a kind take up together.
LEMMA BelongSet ==
  ASSUME NEW h, NEW x, NEW n, Belong(h, x, n), NEW k \in Filled, NEW v \in Nat
  PROVE  Belong([h EXCEPT ![k] = v], [x EXCEPT ![k] = v], n)
  <1> DEFINE g == [h EXCEPT ![k] = v]
             y == [x EXCEPT ![k] = v]
  <1>1. h \in [Kinds -> Nat] /\ DOMAIN x = DOMAIN Fresh
    BY Zenon DEF Belong
  <1>2. k \in Kinds /\ k \in DOMAIN Fresh /\ Filled \subseteq Kinds \cap DOMAIN Fresh
    BY DEF Filled, Kinds, Fresh
  <1>3. g \in [Kinds -> Nat] /\ y = [f \in DOMAIN Fresh |-> y[f]]
    BY <1>1, <1>2
  <1>4. \A j \in Kinds \ {k} : g[j] = h[j]
    BY <1>1
  <1>5. \A j \in DOMAIN Fresh \ {k} : y[j] = x[j]
    BY <1>1
  <1>6. g[k] = v /\ y[k] = v
    BY <1>1, <1>2
  <1>7. /\ {"attr", "context", "formats", "chain", "line", "list"} \subseteq Kinds \ {k}
        /\ {"logicals", "actuals", "lists"} \subseteq DOMAIN Fresh \ {k}
    BY DEF Filled, Kinds, Fresh
  <1>8. \A j \in Filled : g[j] = y[j]
    <2> SUFFICES ASSUME NEW j \in Filled PROVE g[j] = y[j]
      OBVIOUS
    <2>1. CASE j = k
      BY <1>6, <2>1
    <2>2. CASE j # k
      BY <1>2, <1>4, <1>5, <2>2 DEF Belong
    <2>3. QED
      BY <2>1, <2>2
  <1>9. /\ y.logicals = x.logicals /\ y.actuals = x.actuals /\ y.lists = x.lists
        /\ g["attr"] = h["attr"] /\ g["context"] = h["context"] /\ g["formats"] = h["formats"]
        /\ g["chain"] = h["chain"] /\ g["line"] = h["line"] /\ g["list"] = h["list"]
    BY <1>4, <1>5, <1>7
  <1> HIDE DEF g, y
  <1>10. Belong(g, y, n)
    BY <1>3, <1>8, <1>9 DEF Belong
  <1>11. QED
    BY <1>10 DEF g, y

\* Whatever part of the header fails, all goes with the context.
LEMMA HeaderGoes ==
  ASSUME Ledger, HeaderBad
  PROVE  Ledger'
  <1>1. mode \in HeaderModes
    BY DEF HeaderBad, HeaderModes
  <1> DEFINE h0 == [held EXCEPT !["formats"] = 0]
  <1>2. Belong(h0, ctx, 0) /\ held \in [Kinds -> Nat]
    BY <1>1 DEF Ledger
  <1> DEFINE Left(new) == [k \in Kinds |-> IF k = "formats" THEN 0
                                           ELSE IF k \in new THEN held[k] + 1 ELSE held[k]]
             Got(new) == [f \in DOMAIN ctx |-> IF f \in new THEN ctx[f] + 1 ELSE ctx[f]]
  <1>3. PICK new \in Partial : Abandon(Left(new), Got(new))
    BY DEF HeaderBad
  <1>4. new = {} \/ \E k \in Filled : new = {k}
    BY DEF Partial, Filled
  <1>5. Left({}) = h0 /\ Got({}) = ctx
    <2>1. Left({}) = h0
      BY <1>2
    <2>2. ctx = [f \in DOMAIN ctx |-> ctx[f]]
      BY <1>2, Zenon DEF Belong
    <2>3. QED
      BY <2>1, <2>2
  <1>6. CASE new = {}
    BY <1>2, <1>3, <1>5, <1>6, AbandonKeeps
  <1>7. ASSUME NEW k \in Filled, new = {k} PROVE Ledger'
    <2>1. h0[k] = held[k] /\ held[k] \in Nat /\ ctx[k] = held[k]
      BY <1>2 DEF Filled, Kinds, Belong
    <2>2. Left({k}) = [h0 EXCEPT ![k] = held[k] + 1]
      BY <1>2 DEF Filled, Kinds
    <2>3. Got({k}) = [ctx EXCEPT ![k] = held[k] + 1]
      BY <1>5, <2>1
    <2> HIDE DEF h0, Left, Got
    <2>4. Belong(Left(new), Got(new), 0)
      BY <1>2, <1>7, <2>1, <2>2, <2>3, BelongSet
    <2>5. QED
      BY <1>3, <2>4, AbandonKeeps
  <1>8. QED
    BY <1>4, <1>6, <1>7

\* At the beginning nothing is allocated.
LEMMA LedgerBegins ==
  ASSUME ReaderInit
  PROVE  Ledger
  <1>1. Nothing \in [Kinds -> Nat]
    BY DEF Nothing
  <1>2. QED
    BY <1>1 DEF ReaderInit, Ledger, Without, HeaderModes

\* The table is found, or it is not.
LEMMA FindingKeeps ==
  ASSUME ReaderTyped, Ledger, NoTable \/ FindTable \/ OffsetBad \/ OffsetGood
  PROVE  Ledger'
  <1> DEFINE Z == [k \in Kinds |-> 0]
  <1>1. Nothing = Z /\ {"attr", "context"} \subseteq Kinds
    BY DEF Nothing, Kinds
  <1>2. UNCHANGED <<ctx, chain>> /\ mode \in {"open", "offset"} /\ ctx = Fresh /\ chain = <<>>
    BY DEF NoTable, FindTable, OffsetBad, OffsetGood, OutsideProgram, Ledger, Without
  <1>3. CASE NoTable
    BY <1>2, <1>3 DEF NoTable, Ledger, Without, HeaderModes
  <1>4. CASE FindTable
    <2>1. mode' = "offset" /\ held = Nothing /\ held' = [held EXCEPT !["attr"] = @ + 1]
      BY <1>4 DEF FindTable, Ledger, Take
    <2>2. held' = [Nothing EXCEPT !["attr"] = 1] /\ held' \in [Kinds -> Nat]
      BY <1>1, <2>1
    <2>3. QED
      BY <1>2, <2>1, <2>2 DEF Ledger, Without, HeaderModes
  <1>5. CASE OffsetBad
    <2>1. mode' = "none" /\ held = [Nothing EXCEPT !["attr"] = 1] /\ held' = [held EXCEPT !["attr"] = @ - 1]
      BY <1>5 DEF OffsetBad, Ledger, Drop
    <2>2. held' = Nothing /\ held' \in [Kinds -> Nat]
      BY <1>1, <2>1
    <2>3. QED
      BY <1>2, <2>1, <2>2 DEF Ledger, Without, HeaderModes
  <1>6. CASE OffsetGood
    <2>1. /\ mode' = "header" /\ held = [Nothing EXCEPT !["attr"] = 1]
          /\ held' = [[held EXCEPT !["attr"] = @ - 1] EXCEPT !["context"] = @ + 1]
      BY <1>6 DEF OffsetGood, Ledger, Drop, Take
    <2>2. held' = [Z EXCEPT !["context"] = 1] /\ held' \in [Kinds -> Nat]
      BY <1>1, <2>1
    <2>3. /\ DOMAIN Fresh = DOMAIN ctx' /\ ctx'.lists = 0 /\ ctx'.logicals = <<>> /\ ctx'.actuals = <<>>
          /\ ctx'.subprogs = 0 /\ \A k \in Filled : ctx'[k] = 0
      BY <1>2 DEF Fresh, Filled
    <2>4. [held' EXCEPT !["formats"] = 0] = held'
      BY <2>2 DEF Kinds
    <2>5. <<>> \in Seq(Row) /\ Len(<<>>) = 0
      OBVIOUS
    <2>6. Belong(held', ctx', 0)
      <3>1. ctx' = [f \in DOMAIN Fresh |-> ctx'[f]]
        BY <1>2 DEF Fresh
      <3>2. QED
        BY <2>2, <2>3, <2>5, <3>1 DEF Belong, Kinds, Filled
    <2>7. held'["formats"] = 0
      BY <2>2 DEF Kinds
    <2>8. QED
      BY <1>2, <2>1, <2>2, <2>3, <2>4, <2>6, <2>7 DEF Ledger, Without, HeaderModes
  <1>7. QED
    BY <1>3, <1>4, <1>5, <1>6

\* A part of the header is read.
LEMMA HeaderKeeps ==
  ASSUME ReaderTyped, Ledger,
         \/ ReadParameters \/ ReadDirectories \/ ReadFileFormats
         \/ ReadFile \/ FilesEnd \/ ReadSubprograms \/ HeaderEnds
  PROVE  Ledger'
  <1> DEFINE h0 == [held EXCEPT !["formats"] = 0]
             h1 == [held' EXCEPT !["formats"] = 0]
             Rest == /\ ctx'.lists = 0 /\ ctx'.logicals = <<>> /\ ctx'.actuals = <<>>
                     /\ chain' = <<>>
  <1>1. /\ mode \in HeaderModes /\ mode' \in (HeaderModes \ {"header"}) \cup {"program"}
        /\ UNCHANGED chain
    BY DEF ReadParameters, ReadDirectories, ReadFileFormats, ReadFile, FilesEnd,
           ReadSubprograms, HeaderEnds, OutsideProgram, HeaderModes
  <1>2. /\ held \in [Kinds -> Nat] /\ Belong(h0, ctx, 0) /\ chain = <<>>
        /\ ctx.lists = 0 /\ ctx.logicals = <<>> /\ ctx.actuals = <<>>
        /\ mode # "files" => held["formats"] = 0
        /\ mode \in HeaderModes \ {"start"} => ctx.subprogs = 0
    BY <1>1 DEF Ledger
  <1>3. /\ ctx = [f \in DOMAIN Fresh |-> ctx[f]]
        /\ \A k \in Filled : h0[k] = ctx[k] /\ h0[k] = held[k] /\ held[k] \in Nat
    <2>1. /\ ctx = [f \in DOMAIN Fresh |-> ctx[f]]
          /\ \A k \in Filled : h0[k] = ctx[k]
      BY <1>2 DEF Belong
    <2>2. \A k \in Filled : h0[k] = held[k] /\ held[k] \in Nat
      BY <1>2 DEF Filled, Kinds
    <2>3. QED
      BY <2>1, <2>2
  <1>4. held["formats"] = 0 => h0 = held
    BY <1>2
  <1> HIDE DEF h0
  <1>5. ASSUME mode' \in HeaderModes, held' \in [Kinds -> Nat], Belong(h1, ctx', 0), Rest,
               mode' # "files" => held'["formats"] = 0,
               mode' # "start" => ctx'.subprogs = 0
        PROVE  Ledger'
    BY <1>5 DEF Ledger, HeaderModes, Without
  <1>6. CASE ReadParameters
    <2>1. mode = "header" /\ mode' = "directories" /\ UNCHANGED <<ctx, held>>
      BY <1>6 DEF ReadParameters
    <2>2. h1 = h0
      BY <2>1 DEF h0
    <2>3. QED
      BY <1>1, <1>2, <1>5, <2>1, <2>2 DEF HeaderModes
  <1>7. CASE ReadDirectories
    <2>1. PICK v \in {0, 1} :
            /\ held' = [held EXCEPT !["directories"] = 1, !["dir_formats"] = v]
            /\ ctx' = [ctx EXCEPT !.directories = 1, !.dir_formats = v]
            /\ mode = "directories" /\ mode' \in {"files", "formats"}
      BY <1>7 DEF ReadDirectories
    <2> DEFINE x1 == [ctx EXCEPT !["directories"] = 1]
               g1 == [h0 EXCEPT !["directories"] = 1]
    <2>2. "directories" \in Filled /\ "dir_formats" \in Filled /\ v \in Nat /\ 1 \in Nat
      BY <2>1 DEF Filled
    <2>3. Belong(g1, x1, 0)
      BY <1>2, <2>2, BelongSet
    <2> HIDE DEF x1, g1
    <2>4. Belong([g1 EXCEPT !["dir_formats"] = v], [x1 EXCEPT !["dir_formats"] = v], 0)
      BY <2>2, <2>3, BelongSet
    <2>5. ctx' = [x1 EXCEPT !["dir_formats"] = v]
      BY <1>3, <2>1 DEF x1, Fresh
    <2>6. h0 = held
      BY <1>2, <1>4, <2>1
    <2>7. held' = [g1 EXCEPT !["dir_formats"] = v] /\ held' \in [Kinds -> Nat]
      BY <1>2, <2>1, <2>2, <2>6 DEF g1, Kinds
    <2>8. held'["formats"] = 0 /\ h1 = held'
      <3>1. held["formats"] = 0
        BY <1>2, <2>1
      <3>2. held'["formats"] = 0
        BY <1>2, <2>1, <3>1 DEF Kinds
      <3>3. QED
        BY <2>7, <3>2
    <2>9. Rest /\ ctx'.subprogs = 0
      BY <1>1, <1>2, <1>3, <2>1 DEF Fresh, HeaderModes
    <2> HIDE DEF h1
    <2>10. QED
      BY <1>5, <2>1, <2>4, <2>5, <2>7, <2>8, <2>9 DEF HeaderModes
  <1>8. CASE ReadFileFormats
    <2>1. mode = "formats" /\ mode' = "files" /\ held' = [held EXCEPT !["formats"] = @ + 1] /\ ctx' = ctx
      BY <1>8 DEF ReadFileFormats, Take
    <2>2. held' \in [Kinds -> Nat] /\ h1 = h0
      BY <1>2, <2>1 DEF h0, Kinds
    <2>3. QED
      BY <1>1, <1>2, <1>5, <2>1, <2>2 DEF HeaderModes
  <1>9. CASE ReadFile
    <2>1. /\ mode = "files" /\ mode' = "files" /\ held' = [held EXCEPT !["entries"] = @ + 1]
          /\ ctx' = [ctx EXCEPT !["entries"] = @ + 1]
      BY <1>9 DEF ReadFile, Take
    <2> DEFINE v == held["entries"] + 1
    <2>2. "entries" \in Filled /\ v \in Nat /\ ctx["entries"] = held["entries"]
      BY <1>3 DEF Filled
    <2>3. held' \in [Kinds -> Nat] /\ h1 = [h0 EXCEPT !["entries"] = v]
      BY <1>2, <2>1, <2>2 DEF h0, Kinds
    <2>4. ctx' = [ctx EXCEPT !["entries"] = v]
      BY <2>1, <2>2
    <2> HIDE DEF v, h1
    <2>5. Belong(h1, ctx', 0)
      BY <1>2, <2>2, <2>3, <2>4, BelongSet
    <2>6. Rest /\ ctx'.subprogs = 0
      BY <1>1, <1>2, <1>3, <2>1 DEF Fresh, HeaderModes
    <2>7. QED
      BY <1>5, <2>1, <2>3, <2>5, <2>6 DEF HeaderModes
  <1>10. CASE FilesEnd
    <2> DEFINE v == held["formats"]
    <2>1. /\ mode = "files" /\ mode' \in {"subprogs", "start"}
          /\ held' = [held EXCEPT !["formats"] = 0, !["file_formats"] = v]
          /\ ctx' = [ctx EXCEPT !["file_formats"] = v]
      BY <1>10 DEF FilesEnd
    <2>2. "file_formats" \in Filled /\ v \in Nat
      BY <1>2 DEF Filled, Kinds
    <2>3. held' \in [Kinds -> Nat] /\ h1 = [h0 EXCEPT !["file_formats"] = v] /\ held'["formats"] = 0
      BY <1>2, <2>1, <2>2 DEF h0, Kinds
    <2> HIDE DEF v, h1
    <2>4. Belong(h1, ctx', 0)
      BY <1>2, <2>1, <2>2, <2>3, BelongSet
    <2>5. Rest /\ ctx'.subprogs = 0
      BY <1>1, <1>2, <1>3, <2>1 DEF Fresh, HeaderModes
    <2>6. QED
      BY <1>5, <2>1, <2>3, <2>4, <2>5 DEF HeaderModes
  <1>11. CASE ReadSubprograms
    <2>1. /\ mode = "subprogs" /\ mode' = "start" /\ held' = [held EXCEPT !["subprogs"] = @ + 1]
          /\ ctx' = [ctx EXCEPT !["subprogs"] = 1]
      BY <1>11 DEF ReadSubprograms, Take
    <2>2. "subprogs" \in Filled /\ 1 \in Nat /\ held["subprogs"] = 0 /\ held["formats"] = 0
      BY <1>1, <1>2, <1>3, <2>1 DEF Filled, HeaderModes
    <2>3. held' = [held EXCEPT !["subprogs"] = 1] /\ held' \in [Kinds -> Nat]
      <3>1. held["subprogs"] + 1 = 1
        BY <2>2
      <3>2. held' = [held EXCEPT !["subprogs"] = 1]
        BY <2>1, <3>1
      <3>3. QED
        BY <1>2, <3>2
    <2>4. held'["formats"] = 0 /\ h1 = [h0 EXCEPT !["subprogs"] = 1]
      BY <1>2, <2>2, <2>3 DEF h0, Kinds
    <2> HIDE DEF h1
    <2>5. Belong(h1, ctx', 0)
      BY <1>2, <2>1, <2>2, <2>4, BelongSet
    <2>6. Rest
      BY <1>1, <1>2, <1>3, <2>1 DEF Fresh
    <2>7. QED
      BY <1>5, <2>1, <2>3, <2>4, <2>5, <2>6 DEF HeaderModes
  <1>12. CASE HeaderEnds
    <2>1. mode = "start" /\ mode' = "program" /\ UNCHANGED <<ctx, held>>
      BY <1>12 DEF HeaderEnds
    <2>2. h0 = held /\ Len(chain) = 0
      BY <1>2, <1>4, <2>1
    <2>3. QED
      BY <1>1, <1>2, <2>1, <2>2 DEF Ledger, HeaderModes, Without
  <1>13. QED
    BY <1>6, <1>7, <1>8, <1>9, <1>10, <1>11, <1>12

\* One more row in the chain.
LEMMA BelongRow ==
  ASSUME NEW h, NEW x, NEW n, Belong(h, x, n)
  PROVE  Belong(Take(Take(h, "line"), "chain"), x, n + 1)
  <1> DEFINE a == Len(x.logicals)
             b == Len(x.actuals)
             u == Take(Take(h, "line"), "chain")
  <1>1. a \in Nat /\ b \in Nat /\ n \in Nat
    BY DEF Belong
  <1>2. h \in [Kinds -> Nat] /\ "line" \in Kinds /\ "chain" \in Kinds
    BY DEF Belong, Kinds
  <1>3. h["line"] = n + a + b /\ h["chain"] = n
    BY DEF Belong
  <1>4. /\ u["line"] = h["line"] + 1 /\ u["chain"] = h["chain"] + 1 /\ u \in [Kinds -> Nat]
        /\ \A k \in Kinds \ {"line", "chain"} : u[k] = h[k]
    BY <1>2 DEF Take
  <1> HIDE DEF u, a, b
  <1>5. u["line"] = (n + 1) + a + b /\ u["chain"] = n + 1 /\ n + 1 \in Nat
    BY <1>1, <1>3, <1>4
  <1>6. /\ Filled \subseteq Kinds \ {"line", "chain"}
        /\ {"attr", "context", "formats", "list"} \subseteq Kinds \ {"line", "chain"}
    BY DEF Filled, Kinds
  <1>7. /\ u["attr"] = 0 /\ u["context"] = 1 /\ u["formats"] = 0 /\ u["list"] = x.lists
        /\ \A k \in Filled : u[k] = x[k]
    BY <1>4, <1>6 DEF Belong
  <1>8. Belong(u, x, n + 1)
    BY <1>4, <1>5, <1>7 DEF Belong, a, b
  <1>9. QED
    BY <1>8 DEF u

\* The rows of the chain become one of the context's lists.
LEMMA BelongList ==
  ASSUME NEW h, NEW x, NEW n, Belong(h, x, n), NEW s \in Seq(Row), Len(s) = n,
         NEW f \in {"logicals", "actuals"}, x[f] = <<>>,
         NEW y, y = [g \in DOMAIN Fresh |-> IF g = f THEN s
                                            ELSE IF g = "lists" THEN x.lists + 1 ELSE x[g]]
  PROVE  Belong(Take(Drop(h, "chain", n), "list"), y, 0)
  <1> DEFINE a == Len(x.logicals)
             b == Len(x.actuals)
             u == Take(Drop(h, "chain", n), "list")
  <1>1. /\ h \in [Kinds -> Nat] /\ "list" \in Kinds /\ "chain" \in Kinds
        /\ x = [g \in DOMAIN Fresh |-> x[g]]
        /\ {"logicals", "actuals", "lists"} \subseteq DOMAIN Fresh
    BY DEF Belong, Kinds, Fresh
  <1>2. n \in Nat /\ a \in Nat /\ b \in Nat
    BY DEF Belong
  <1>3. h["line"] = n + a + b /\ h["chain"] = n /\ h["list"] = x.lists
    BY DEF Belong
  <1>4. /\ DOMAIN u = Kinds /\ u["chain"] = h["chain"] - n /\ u["list"] = h["list"] + 1
        /\ u = [k \in Kinds |-> u[k]]
        /\ \A k \in Kinds \ {"chain", "list"} : u[k] = h[k]
    BY <1>1 DEF Take, Drop
  <1>5. /\ y = [g \in DOMAIN Fresh |-> y[g]]
        /\ y[f] = s /\ y.lists = x.lists + 1
        /\ \A g \in DOMAIN Fresh \ {f, "lists"} : y[g] = x[g]
    BY <1>1
  <1>6. u["chain"] = 0 /\ u["list"] = y.lists /\ u["list"] \in Nat
    <2> HIDE DEF u, a, b
    <2>1. h["list"] \in Nat
      BY <1>1
    <2>2. u["chain"] = 0
      BY <1>2, <1>3, <1>4
    <2>3. u["list"] = y.lists
      BY <1>3, <1>4, <1>5
    <2>4. u["list"] \in Nat
      BY <1>4, <2>1
    <2>5. QED
      BY <2>2, <2>3, <2>4
  <1>7. u["line"] = n + a + b
    BY <1>3, <1>4 DEF Kinds
  <1>8. ASSUME NEW k \in Kinds PROVE u[k] \in Nat
    <2>1. CASE k \in {"chain", "list"}
      BY <1>6, <2>1
    <2>2. CASE k \notin {"chain", "list"}
      BY <1>1, <1>4, <2>2
    <2>3. QED
      BY <2>1, <2>2
  <1>9. u \in [Kinds -> Nat]
    BY <1>4, <1>8
  <1>10. x.logicals \in Seq(Row) /\ x.actuals \in Seq(Row)
    BY DEF Belong
  <1>11. y.logicals \in Seq(Row) /\ y.actuals \in Seq(Row) /\ u["line"] = 0 + Len(y.logicals) + Len(y.actuals)
    <2>1. CASE f = "logicals"
      <3>1. y.logicals = s /\ y.actuals = x.actuals
        BY <1>1, <1>5, <2>1
      <3>2. a = 0
        BY <2>1
      <3>3. u["line"] = 0 + n + b
        <4> HIDE DEF a, b, u
        <4>1. QED
          BY <1>2, <1>7, <3>2
      <3>4. QED
        BY <1>10, <3>1, <3>3
    <2>2. CASE f = "actuals"
      <3>1. y.actuals = s /\ y.logicals = x.logicals
        BY <1>1, <1>5, <2>2
      <3>2. b = 0
        BY <2>2
      <3>3. u["line"] = 0 + a + n
        <4> HIDE DEF a, b, u
        <4>1. QED
          BY <1>2, <1>7, <3>2
      <3>4. QED
        BY <1>10, <3>1, <3>3
    <2>3. QED
      BY <2>1, <2>2
  <1> HIDE DEF u
  <1>12. /\ Filled \subseteq Kinds \ {"chain", "list"} /\ Filled \subseteq DOMAIN Fresh \ {f, "lists"}
         /\ {"attr", "context", "formats"} \subseteq Kinds \ {"chain", "list"}
    BY DEF Filled, Kinds, Fresh
  <1>13. /\ u["attr"] = 0 /\ u["context"] = 1 /\ u["formats"] = 0
         /\ \A k \in Filled : u[k] = y[k]
    BY <1>4, <1>5, <1>12 DEF Belong
  <1>14. Belong(u, y, 0)
    BY <1>5, <1>6, <1>9, <1>11, <1>13 DEF Belong
  <1>15. QED
    BY <1>14 DEF u

\* An operation is executed, or the rows become a list.
LEMMA ProgramKeeps ==
  ASSUME ReaderTyped, Ledger, Execute \/ AddRow \/ DefineFile \/ Deliver
  PROVE  Ledger'
  <1> DEFINE n == Len(chain)
  <1>1. mode = "program"
    BY DEF Execute, AddRow, DefineFile, Deliver, AtOp
  <1>2. /\ Belong(held, ctx, n) /\ ctx.lists \in {0, 1} /\ ctx.actuals = <<>>
        /\ ~Actuals => ctx.logicals = <<>>
    BY <1>1 DEF Ledger
  <1>3. ctx = [f \in DOMAIN Fresh |-> ctx[f]] /\ held \in [Kinds -> Nat] /\ n \in Nat
    BY <1>2 DEF Belong
  <1>4. ASSUME mode' = "program", Belong(held', ctx', Len(chain')),
               ctx'.lists = ctx.lists, ctx'.actuals = ctx.actuals, ctx'.logicals = ctx.logicals
        PROVE  Ledger'
    <2>1. held' \in [Kinds -> Nat]
      BY <1>4 DEF Belong
    <2>2. QED
      BY <1>2, <1>4, <2>1 DEF Ledger, Without, HeaderModes, Actuals
  <1>5. CASE Execute
    BY <1>1, <1>2, <1>4, <1>5 DEF Execute
  <1>6. CASE AddRow
    <2>1. /\ mode' = "program" /\ ctx' = ctx /\ held' = Take(Take(held, "line"), "chain")
          /\ chain' = Append(chain, [row |-> RowOf(Op, Executed), context |-> Executed.context])
      BY <1>1, <1>6 DEF AddRow
    <2>2. Len(chain') = n + 1
      BY <2>1 DEF ReaderTyped
    <2>3. Belong(held', ctx', n + 1)
      BY <1>2, <2>1, BelongRow
    <2>4. QED
      BY <1>4, <2>1, <2>2, <2>3
  <1>7. CASE DefineFile
    <2>1. /\ mode' = "program" /\ UNCHANGED chain /\ held' = [held EXCEPT !["entries"] = @ + 1]
          /\ ctx' = [ctx EXCEPT !["entries"] = @ + 1]
      BY <1>1, <1>7 DEF DefineFile, Take
    <2> DEFINE v == held["entries"] + 1
    <2>2. "entries" \in Filled /\ v \in Nat /\ ctx["entries"] = held["entries"]
      BY <1>2 DEF Filled, Belong, Kinds
    <2>3. held' = [held EXCEPT !["entries"] = v] /\ ctx' = [ctx EXCEPT !["entries"] = v]
      BY <2>1, <2>2
    <2>4. ctx'.lists = ctx.lists /\ ctx'.actuals = ctx.actuals /\ ctx'.logicals = ctx.logicals
      BY <1>3, <2>1 DEF Fresh
    <2> HIDE DEF v
    <2>5. Belong(held', ctx', n)
      BY <1>2, <2>2, <2>3, BelongSet
    <2>6. QED
      BY <1>4, <2>1, <2>4, <2>5
  <1>8. CASE Deliver
    <2> DEFINE rws == [r \in DOMAIN chain |-> chain[r].row]
               h1 == Take(Drop(held, "chain", n), "list")
    <2>1. rws \in Seq(Row) /\ Len(rws) = n
      BY Delivered DEF ReaderTyped
    <2>2. /\ chain' = <<>> /\ held' = h1 /\ mode' \in {"program", "read"}
          /\ mode' = "program" => ~Actuals
          /\ ctx' = IF Actuals THEN [ctx EXCEPT !.actuals = rws, !.lists = 2]
                               ELSE [ctx EXCEPT !.logicals = rws, !.lists = 1]
      BY <1>8, Zenon DEF Deliver
    <2> HIDE DEF rws, h1
    <2>3. Belong(h1, ctx', 0) /\ (~Actuals => ctx'.lists = 1 /\ ctx'.actuals = <<>>)
      <3>1. CASE Actuals
        <4>1. ctx' = [ctx EXCEPT !.actuals = rws, !.lists = 2] /\ ctx.lists + 1 = 2
          BY <2>2, <3>1 DEF Actuals
        <4>2. Belong(h1, ctx', 0)
          <5>1. "actuals" \in {"logicals", "actuals"} /\ ctx["actuals"] = <<>>
            BY <1>2
          <5>2. Belong(held, ctx, n) /\ rws \in Seq(Row) /\ Len(rws) = n
            BY <1>2, <2>1
          <5> HIDE DEF n
          <5>3. ctx' = [g \in DOMAIN Fresh |-> IF g = "actuals" THEN rws
                                               ELSE IF g = "lists" THEN ctx.lists + 1 ELSE ctx[g]]
            BY <1>3, <4>1 DEF Fresh
          <5>4. QED
            BY <5>1, <5>2, <5>3, BelongList DEF h1
        <4>3. QED
          BY <3>1, <4>2
      <3>2. CASE ~Actuals
        <4>1. ctx.lists = 0 /\ ctx.logicals = <<>>
          BY <1>2, <3>2 DEF Actuals
        <4>2. ctx' = [ctx EXCEPT !.logicals = rws, !.lists = 1] /\ ctx.lists + 1 = 1
          BY <2>2, <3>2, <4>1
        <4>3. Belong(h1, ctx', 0)
          <5>1. "logicals" \in {"logicals", "actuals"} /\ ctx["logicals"] = <<>>
            BY <1>2, <4>1
          <5>2. Belong(held, ctx, n) /\ rws \in Seq(Row) /\ Len(rws) = n
            BY <1>2, <2>1
          <5> HIDE DEF n
          <5>3. ctx' = [g \in DOMAIN Fresh |-> IF g = "logicals" THEN rws
                                               ELSE IF g = "lists" THEN ctx.lists + 1 ELSE ctx[g]]
            BY <1>3, <4>2 DEF Fresh
          <5>4. QED
            BY <5>1, <5>2, <5>3, BelongList DEF h1
        <4>4. ctx'.lists = 1 /\ ctx'.actuals = <<>>
          BY <1>2, <1>3, <2>2, <3>2 DEF Fresh
        <4>5. QED
          BY <4>3, <4>4
      <3>3. QED
        BY <3>1, <3>2
    <2>4. held' \in [Kinds -> Nat] /\ Len(chain') = 0
      BY <2>2, <2>3 DEF Belong
    <2>5. QED
      BY <2>2, <2>3, <2>4 DEF Ledger, Without, HeaderModes, Actuals
  <1>9. QED
    BY <1>5, <1>6, <1>7, <1>8

\* The table is given up while a program is read, or turned down.
LEMMA GivenUp ==
  ASSUME Ledger,
         OpBad \/ AddRowFails \/ DefineFileBad \/ BlockFails \/ AddEntryFails \/ Reject
  PROVE  Ledger'
  <1>1. CASE Reject
    <2>1. Belong(held, ctx, 0)
      BY <1>1 DEF Reject, Ledger
    <2>2. QED
      BY <1>1, <2>1, AbandonKeeps DEF Reject
  <1>2. CASE OpBad \/ AddRowFails \/ DefineFileBad \/ BlockFails \/ AddEntryFails
    <2>1. Belong(held, ctx, Len(chain))
      BY <1>2 DEF OpBad, AddRowFails, DefineFileBad, BlockFails, AddEntryFails, AtOp, Ledger
    <2>2. Belong(Unchained(held), ctx, 0)
      BY <2>1, UnchainedBelongs DEF Unchained
    <2>3. CASE OpBad \/ AddRowFails \/ BlockFails
      BY <2>2, <2>3, AbandonKeeps DEF OpBad, AddRowFails, BlockFails
    <2>4. CASE DefineFileBad
      <3> DEFINE h0 == Unchained(held)
      <3>1. PICK m \in {0, 1} :
              Abandon([h0 EXCEPT !["entries"] = @ + m], [ctx EXCEPT !["entries"] = @ + m])
        BY <2>4 DEF DefineFileBad
      <3> DEFINE v == h0["entries"] + m
      <3>2. "entries" \in Filled /\ v \in Nat /\ ctx["entries"] = h0["entries"]
        BY <2>2 DEF Filled, Belong, Kinds
      <3>3. Belong(h0, ctx, 0)
        BY <2>2
      <3> HIDE DEF h0
      <3>4. /\ [h0 EXCEPT !["entries"] = @ + m] = [h0 EXCEPT !["entries"] = v]
            /\ [ctx EXCEPT !["entries"] = @ + m] = [ctx EXCEPT !["entries"] = v]
        BY <3>2
      <3> HIDE DEF v
      <3>5. Belong([h0 EXCEPT !["entries"] = v], [ctx EXCEPT !["entries"] = v], 0)
        BY <3>2, <3>3, BelongSet
      <3>6. QED
        BY <3>1, <3>4, <3>5, AbandonKeeps
    <2>5. CASE AddEntryFails
      <3>1. mode' = "crashed" /\ held' = Unchained(held)
        BY <2>5 DEF AddEntryFails
      <3>2. held' \in [Kinds -> Nat]
        BY <2>2, <3>1 DEF Belong
      <3>3. QED
        BY <3>1, <3>2 DEF Ledger, Without, HeaderModes
    <2>6. QED
      BY <1>2, <2>3, <2>4, <2>5
  <1>3. QED
    BY <1>1, <1>2

\* Every step of the reader keeps the ledger.
LEMMA ReaderKeeps ==
  ASSUME ReaderTyped, Ledger, ReaderNext
  PROVE  Ledger'
  <1>1. CASE Accept
    BY <1>1 DEF Accept, OutsideProgram, Ledger, Without, HeaderModes
  <1>2. QED
    BY <1>1, FindingKeeps, HeaderGoes, HeaderKeeps, ProgramKeeps, GivenUp DEF ReaderNext

\* What the user releases is what belongs to the table.
LEMMA CloseKeeps ==
  ASSUME Ledger, Close
  PROVE  Ledger'
  <1>1. Belong(held, ctx, 0) /\ chain = <<>>
    BY DEF Close, Ledger
  <1>2. /\ mode' = "closed" /\ ctx' = Fresh /\ UNCHANGED chain /\ held' = Nothing
    BY <1>1, NothingLeft DEF Close, OutsideProgram
  <1>3. Nothing \in [Kinds -> Nat]
    BY DEF Nothing
  <1>4. QED
    BY <1>1, <1>2, <1>3 DEF Ledger, Without, HeaderModes

\* The ledger says what ReaderReleases asks for.
LEMMA LedgerReleases ==
  ASSUME Ledger
  PROVE  ReaderReleases
  <1>1. CASE mode = "program"
    <2> DEFINE n == Len(chain)
    <2>1. Belong(held, ctx, n)
      BY <1>1 DEF Ledger
    <2>2. n \in Nat /\ held = [k \in Kinds |-> held[k]] /\ "line" \in Kinds /\ "chain" \in Kinds
      BY <2>1 DEF Belong, Kinds
    <2>3. Drop(Drop(held, "chain", n), "line", n) = Drop(Drop(held, "line", n), "chain", n)
      BY <2>2 DEF Drop
    <2>4. QED
      BY <1>1, <2>1, <2>3, UnchainedBelongs, NothingLeft DEF ReaderReleases, Ledger
  <1>2. CASE mode # "program"
    BY <1>2, NothingLeft DEF ReaderReleases, Ledger
  <1>3. QED
    BY <1>1, <1>2

-----------------------------------------------------------------------------
(* The search.                                                             *)

\* The types of its variables; a row is noted exactly when one was hit, so that
\* lines[c-1] is never read before the table's first row; and while the table is
\* read, or is none any more, no address is being searched for.
SearchTyped ==
  /\ rows \in Seq(Row) /\ ptr \in Nat /\ c \in 1 .. Len(rows) + 1
  /\ onEnd \in BOOLEAN /\ prevAdd \in Nat
  /\ pc \in {"idle", "loop", "hit", "miss", "failed", "turned_down", "no_src_file", "walk"}
  /\ pc = "hit" => hit \in 1 .. Len(rows)
  /\ pc \in {"loop", "miss", "failed"} => hit = 0
  /\ pc = "idle" => NoLookup
  /\ pc # "idle" => mode \in {"none", "table"}

Found == HitIsFirstBracket /\ MissMeansNoBracket

SearchInv == SearchTyped /\ Remembered /\ NoneBehind /\ Found

IInv == ReaderTyped /\ SearchInv

\* A row's address is a natural number, and its flag one of two values.
LEMMA RowFields ==
  ASSUME rows \in Seq(Row)
  PROVE  /\ Len(rows) \in Nat
         /\ \A r \in 1 .. Len(rows) : rows[r].addr \in Nat /\ rows[r].end \in BOOLEAN
  <1>1. ASSUME NEW r \in 1 .. Len(rows)
        PROVE  rows[r].addr \in Nat /\ rows[r].end \in BOOLEAN
    <2>1. rows[r] \in Row
      OBVIOUS
    <2>2. QED
      BY <2>1 DEF Row
  <1>2. QED
    BY <1>1

\* Where no search is under way, there is nothing to hold of it.
LEMMA IdleHolds ==
  ASSUME NoLookup', rows' \in Seq(Row)
  PROVE  SearchInv'
  <1>1. Len(rows') \in Nat
    OBVIOUS
  <1>2. SearchTyped'
    BY <1>1 DEF NoLookup, SearchTyped
  <1>3. Remembered' /\ NoneBehind' /\ Found'
    BY DEF NoLookup, Remembered, NoneBehind, Found, HitIsFirstBracket, MissMeansNoBracket
  <1>4. QED
    BY <1>2, <1>3 DEF SearchInv

\* A row is skipped only if the row before it does not bracket the address.
LEMMA SkipLeavesNoBracket ==
  ASSUME SearchTyped, Remembered, NoneBehind, Skip
  PROVE  \A r \in 1 .. c - 1 : ~Brackets(rows, r, ptr)
  <1> SUFFICES ASSUME NEW r \in 1 .. c - 1, Brackets(rows, r, ptr)
               PROVE  FALSE
    OBVIOUS
  <1>1. c \in Nat /\ c <= Len(rows) /\ Len(rows) \in Nat /\ ptr \in Nat
    BY RowFields DEF SearchTyped, Skip
  <1>2. r = c - 1
    BY <1>1 DEF NoneBehind
  <1>3. /\ rows[c - 1].addr \in Nat /\ rows[c].addr \in Nat
        /\ ~rows[c - 1].end
        /\ rows[c - 1].addr <= ptr
        /\ ptr < rows[c].addr
    BY <1>1, <1>2, RowFields DEF SearchTyped, Brackets
  <1>4. ~onEnd /\ prevAdd = rows[c - 1].addr
    BY <1>1, <1>2, <1>3 DEF Remembered
  <1>5. QED
    BY <1>1, <1>3, <1>4 DEF Skip, Passed

\* A row that is not passed closes the gap of the row before it.
LEMMA HitBrackets ==
  ASSUME SearchTyped, Remembered, NoneBehind, Hit
  PROVE  c - 1 \in 1 .. Len(rows) /\ FirstBracket(rows, c - 1, ptr)
  <1>1. /\ c \in Nat /\ c >= 1 /\ c <= Len(rows)
        /\ Len(rows) \in Nat /\ ptr \in Nat /\ rows[c].addr \in Nat
    BY RowFields DEF SearchTyped, Hit
  <1>2. ~onEnd /\ ~(rows[c].addr <= ptr) /\ ~(prevAdd > ptr)
    BY DEF Hit, Passed
  <1>3. c # 1 /\ ~rows[c - 1].end /\ prevAdd = rows[c - 1].addr
    BY <1>1, <1>2 DEF Remembered
  <1>4. c - 1 \in 1 .. Len(rows) - 1 /\ rows[c - 1].addr \in Nat
    BY <1>1, <1>3, RowFields DEF SearchTyped
  <1>5. Brackets(rows, c - 1, ptr)
    BY <1>1, <1>2, <1>3, <1>4 DEF Brackets
  <1>6. \A q \in 1 .. (c - 1) - 1 : ~Brackets(rows, q, ptr)
    BY <1>1 DEF NoneBehind
  <1>7. QED
    BY <1>1, <1>4, <1>5, <1>6 DEF FirstBracket

\* Every step of the loop keeps the invariant.
LEMMA LoopKeeps ==
  ASSUME SearchInv, Skip \/ Hit \/ Exhaust \/ ReadFails, UNCHANGED mode
  PROVE  SearchInv'
  <1> USE DEF SearchInv, Found
  <1>0. /\ Len(rows) \in Nat /\ c \in Nat /\ c >= 1 /\ mode \in {"none", "table"}
        /\ \A r \in 1 .. Len(rows) : rows[r].addr \in Nat /\ rows[r].end \in BOOLEAN
    BY RowFields DEF SearchTyped, Skip, Hit, Exhaust, ReadFails
  <1>1. CASE Skip
    <2>1. c \in 1 .. Len(rows)
      BY <1>0, <1>1 DEF Skip
    <2>2. SearchTyped'
      BY <1>0, <1>1, <2>1 DEF SearchTyped, Skip
    <2>3. Remembered'
      BY <1>1, <2>1 DEF Remembered, Skip
    <2>4. NoneBehind'
      <3>1. \A r \in 1 .. c - 1 : ~Brackets(rows, r, ptr)
        BY <1>1, SkipLeavesNoBracket
      <3>2. c' - 2 = c - 1 /\ rows' = rows /\ ptr' = ptr
        BY <1>1, <2>1 DEF Skip
      <3>3. QED
        BY <3>1, <3>2 DEF NoneBehind, Brackets
    <2>5. HitIsFirstBracket' /\ MissMeansNoBracket'
      BY <1>1 DEF HitIsFirstBracket, MissMeansNoBracket, Skip
    <2>6. QED
      BY <2>2, <2>3, <2>4, <2>5
  <1>2. CASE Hit
    <2>1. c - 1 \in 1 .. Len(rows) /\ FirstBracket(rows, c - 1, ptr)
      BY <1>2, HitBrackets
    <2>2. SearchTyped'
      BY <1>0, <1>2, <2>1 DEF SearchTyped, Hit
    <2>3. Remembered' /\ NoneBehind'
      BY <1>2 DEF Remembered, NoneBehind, Brackets, Hit
    <2>4. HitIsFirstBracket' /\ MissMeansNoBracket'
      BY <1>2, <2>1 DEF HitIsFirstBracket, MissMeansNoBracket, FirstBracket, Brackets, Hit
    <2>5. QED
      BY <2>2, <2>3, <2>4
  <1>3. CASE Exhaust
    <2>1. c = Len(rows) + 1
      BY <1>0, <1>3 DEF SearchTyped, Exhaust
    <2>2. \A r \in 1 .. Len(rows) : ~Brackets(rows, r, ptr)
      BY <1>0, <2>1 DEF NoneBehind, Brackets
    <2>3. SearchTyped' /\ Remembered' /\ NoneBehind' /\ HitIsFirstBracket'
      BY <1>0, <1>3 DEF SearchTyped, Remembered, NoneBehind, HitIsFirstBracket, Brackets, Exhaust
    <2>4. MissMeansNoBracket'
      BY <1>3, <2>2 DEF MissMeansNoBracket, Brackets, Exhaust
    <2>5. QED
      BY <2>3, <2>4
  <1>4. CASE ReadFails
    BY <1>0, <1>4 DEF SearchTyped, Remembered, NoneBehind, HitIsFirstBracket,
                MissMeansNoBracket, Brackets, ReadFails
  <1>5. QED
    BY <1>1, <1>2, <1>3, <1>4

-----------------------------------------------------------------------------
(* A unit that reads its table and answers addresses.                      *)

\* The reader runs only where nothing is searched for.
LEMMA TableRead ==
  ASSUME IInv, ReadTable
  PROVE  IInv'
  <1>1. ReaderNext /\ rows' \in {ctx.logicals, <<>>} /\ UNCHANGED <<ptr, c, onEnd, prevAdd, hit, pc>>
    BY DEF ReadTable
  <1>2. ReaderTyped'
    BY <1>1, ReaderStep DEF IInv
  <1>3. mode \notin {"none", "table"}
    BY <1>1 DEF ReaderNext, NoTable, FindTable, OffsetBad, OffsetGood, HeaderBad, ReadParameters,
                ReadDirectories, ReadFileFormats, ReadFile, FilesEnd, ReadSubprograms, HeaderEnds,
                Execute, OpBad, AddRow, AddRowFails, AddEntryFails, DefineFile, DefineFileBad,
                BlockFails, Deliver, Accept, Reject, AtOp
  <1>4. NoLookup'
    <2>1. NoLookup
      BY <1>3 DEF IInv, SearchInv, SearchTyped
    <2>2. QED
      BY <1>1, <2>1 DEF NoLookup
  <1>5. rows' \in Seq(Row)
    <2>1. CASE rows' = ctx.logicals
      BY <2>1 DEF IInv, ReaderTyped
    <2>2. CASE rows' = <<>>
      <3>1. <<>> \in Seq(Row)
        OBVIOUS
      <3>2. QED
        BY <2>2, <3>1
    <2>3. QED
      BY <1>1, <2>1, <2>2
  <1>6. SearchInv'
    BY <1>4, <1>5, IdleHolds
  <1>7. QED
    BY <1>2, <1>6 DEF IInv

\* Asking for an address, and what follows when the search is over.
LEMMA AroundSearch ==
  ASSUME IInv,
         \/ \E p \in Ptrs : Ask(p)
         \/ ReadFileList \/ TurnDown \/ NoSrcFile \/ WalkBegins \/ WalkStep
         \/ UNCHANGED allVars
  PROVE  IInv'
  <1>1. UNCHANGED readerVars
    BY DEF Ask, ReadFileList, TurnDown, NoSrcFile, WalkBegins, WalkStep, allVars
  <1>2. ReaderTyped'
    BY <1>1 DEF readerVars, IInv, ReaderTyped, Actuals, Reading
  <1>3. CASE \E p \in Ptrs : Ask(p)
    <2>1. PICK p \in Ptrs : Ask(p)
      BY <1>3
    <2>2. /\ pc = "idle" /\ NoLookup /\ pc' = "loop" /\ ptr' = p /\ p \in Nat
          /\ UNCHANGED <<rows, c, onEnd, prevAdd, hit, mode>> /\ mode \in {"none", "table"}
      BY <1>1, <2>1, PtrsAssumption DEF Ask, IInv, SearchInv, SearchTyped, readerVars
    <2>3. SearchTyped'
      BY <2>2 DEF NoLookup, IInv, SearchInv, SearchTyped
    <2>4. Remembered' /\ NoneBehind' /\ Found'
      BY <2>2 DEF NoLookup, Remembered, NoneBehind, Found, HitIsFirstBracket, MissMeansNoBracket
    <2>5. QED
      BY <1>2, <2>3, <2>4 DEF IInv, SearchInv
  <1>4. CASE TurnDown \/ NoSrcFile \/ WalkBegins
    <2>1. /\ pc \in {"hit", "miss", "failed"} /\ pc' \in {"turned_down", "no_src_file", "walk"}
          /\ UNCHANGED <<rows, ptr, c, onEnd, prevAdd, hit, mode>>
      BY <1>1, <1>4 DEF TurnDown, NoSrcFile, WalkBegins, RowUsable, readerVars
    <2>2. SearchTyped'
      BY <2>1 DEF IInv, SearchInv, SearchTyped
    <2>3. Remembered' /\ NoneBehind' /\ Found'
      BY <2>1 DEF IInv, SearchInv, Remembered, NoneBehind, Brackets, Found, HitIsFirstBracket,
                  MissMeansNoBracket
    <2>4. QED
      BY <1>2, <2>2, <2>3 DEF IInv, SearchInv
  <1>5. CASE ReadFileList \/ WalkStep \/ UNCHANGED allVars
    <2>1. UNCHANGED lookupVars /\ UNCHANGED mode
      BY <1>1, <1>5 DEF ReadFileList, WalkStep, allVars, readerVars
    <2>2. SearchTyped'
      BY <2>1 DEF lookupVars, IInv, SearchInv, SearchTyped, NoLookup
    <2>3. Remembered' /\ NoneBehind' /\ Found'
      BY <2>1 DEF lookupVars, IInv, SearchInv, Remembered, NoneBehind, Brackets, FirstBracket,
                  Found, HitIsFirstBracket, MissMeansNoBracket
    <2>4. QED
      BY <1>2, <2>2, <2>3 DEF IInv, SearchInv
  <1>6. QED
    BY <1>3, <1>4, <1>5

\* After an answer the next search begins anew; after the clean-up there is none.
LEMMA EndOfSearch ==
  ASSUME IInv, Answered \/ CleanUp
  PROVE  IInv'
  <1>1. CASE Answered
    <2>1. NoLookup' /\ rows' \in Seq(Row) /\ UNCHANGED readerVars
      BY <1>1 DEF Answered, NoLookup, IInv, SearchInv, SearchTyped
    <2>2. ReaderTyped'
      BY <2>1 DEF readerVars, IInv, ReaderTyped, Actuals, Reading
    <2>3. QED
      BY <2>1, <2>2, IdleHolds DEF IInv
  <1>2. CASE CleanUp
    <2>1. /\ NoLookup /\ rows' = <<>> /\ UNCHANGED <<ptr, c, onEnd, prevAdd, hit, pc>>
          /\ mode' = "closed" /\ UNCHANGED <<src, at, regs, chain>>
          /\ ctx' \in {ctx, Fresh}
      BY <1>2 DEF CleanUp, Close, OutsideProgram, IInv, SearchInv, SearchTyped
    <2>2. NoLookup' /\ rows' \in Seq(Row)
      BY <2>1 DEF NoLookup
    <2>3. DOMAIN ctx' = DOMAIN Fresh /\ ctx'.logicals \in Seq(Row)
      <3>1. CASE ctx' = ctx
        BY <3>1 DEF IInv, ReaderTyped
      <3>2. CASE ctx' = Fresh
        BY <3>2 DEF Fresh
      <3>3. QED
        BY <2>1, <3>1, <3>2
    <2>4. ReaderTyped'
      BY <2>1, <2>3 DEF IInv, ReaderTyped, Actuals, Reading
    <2>5. QED
      BY <2>2, <2>4, IdleHolds DEF IInv
  <1>3. QED
    BY <1>1, <1>2

\* Every step keeps the invariant.
LEMMA StepKeeps ==
  ASSUME IInv, [LookupNext]_allVars
  PROVE  IInv'
  <1>1. CASE SearchRows
    <2>1. UNCHANGED readerVars /\ UNCHANGED mode
      BY <1>1 DEF SearchRows, readerVars
    <2>2. SearchInv'
      BY <1>1, <2>1, LoopKeeps DEF SearchRows, IInv
    <2>3. ReaderTyped'
      BY <2>1 DEF readerVars, IInv, ReaderTyped, Actuals, Reading
    <2>4. QED
      BY <2>2, <2>3 DEF IInv
  <1>2. QED
    BY <1>1, TableRead, AroundSearch, EndOfSearch DEF LookupNext, Stopped

\* A unit begins with nothing read and nothing asked.
LEMMA InitEstablishes == LookupInit => IInv
  <1> SUFFICES ASSUME LookupInit PROVE IInv
    OBVIOUS
  <1>1. IsSource(src)
    BY UnitsAssumption DEF LookupInit
  <1>2. ReaderTyped
    BY <1>1, ReaderBegins DEF LookupInit
  <1>3. NoLookup /\ rows = <<>>
    BY DEF LookupInit
  <1>4. SearchTyped
    BY <1>3 DEF NoLookup, SearchTyped
  <1>5. Remembered /\ NoneBehind /\ Found
    BY <1>3 DEF NoLookup, Remembered, NoneBehind, Found, HitIsFirstBracket, MissMeansNoBracket
  <1>6. QED
    BY <1>2, <1>4, <1>5 DEF IInv, SearchInv

\* The invariant holds always.
LEMMA Inductive == LookupSpec => []IInv
  BY InitEstablishes, StepKeeps, PTL DEF LookupSpec

\* The row reported is the first one that brackets the address.
THEOREM HitCorrect == LookupSpec => []HitIsFirstBracket
  <1>1. IInv => HitIsFirstBracket
    BY DEF IInv, SearchInv, Found
  <1>2. QED
    BY <1>1, Inductive, PTL

\* Nothing is reported only when no row brackets the address.
THEOREM MissCorrect == LookupSpec => []MissMeansNoBracket
  <1>1. IInv => MissMeansNoBracket
    BY DEF IInv, SearchInv, Found
  <1>2. QED
    BY <1>1, Inductive, PTL

-----------------------------------------------------------------------------

\* In a state where the loop has reported or given up, its answer is the one
\* that the modules above this loop use: RowFor.
Answer == IF pc = "hit" THEN hit ELSE 0
AnswerIsRowFor == pc \in {"hit", "miss"} => Answer = RowFor(rows, ptr)

\* There is at most one first bracket, so CHOOSE has no choice.
LEMMA FirstBracketUnique ==
  ASSUME NEW t, NEW p, Len(t) \in Nat,
         NEW r \in 1 .. Len(t), NEW q \in 1 .. Len(t),
         FirstBracket(t, r, p), FirstBracket(t, q, p)
  PROVE  r = q
  BY DEF FirstBracket

\* The loop computes RowFor, so a module that looks a row up by RowFor does
\* what the code does.
THEOREM LoopComputesRowFor == LookupSpec => []AnswerIsRowFor
  <1>1. IInv => AnswerIsRowFor
    <2> SUFFICES ASSUME IInv, pc \in {"hit", "miss"}
                 PROVE  Answer = RowFor(rows, ptr)
      BY DEF AnswerIsRowFor
    <2>1. Len(rows) \in Nat
      BY DEF IInv, SearchInv, SearchTyped
    <2>2. CASE pc = "hit"
      <3>1. hit \in 1 .. Len(rows) /\ FirstBracket(rows, hit, ptr)
        BY <2>2 DEF IInv, SearchInv, SearchTyped, Found, HitIsFirstBracket
      <3>2. \E r \in 1 .. Len(rows) : Brackets(rows, r, ptr)
        BY <3>1 DEF FirstBracket
      <3>3. \A q \in 1 .. Len(rows) : FirstBracket(rows, q, ptr) => q = hit
        BY <2>1, <3>1, FirstBracketUnique
      <3>4. (CHOOSE r \in 1 .. Len(rows) : FirstBracket(rows, r, ptr)) = hit
        BY <3>1, <3>3
      <3>5. QED
        BY <2>2, <3>2, <3>4 DEF RowFor, Answer
    <2>3. CASE pc = "miss"
      BY <2>3 DEF IInv, SearchInv, Found, MissMeansNoBracket, RowFor, Answer
    <2>4. QED
      BY <2>2, <2>3
  <1>2. QED
    BY <1>1, Inductive, PTL

-----------------------------------------------------------------------------

\* What is allocated stays accounted for, in the whole of the lookup.
LEMMA LedgerHolds == LookupSpec => []Ledger
  <1>1. LookupInit => Ledger
    BY LedgerBegins DEF LookupInit
  <1>2. IInv /\ Ledger /\ [LookupNext]_allVars => Ledger'
    <2> SUFFICES ASSUME IInv, Ledger, [LookupNext]_allVars PROVE Ledger'
      OBVIOUS
    <2>1. CASE ReadTable
      BY <2>1, ReaderKeeps DEF IInv, ReadTable
    <2>2. CASE CleanUp
      <3>1. CASE Close
        BY <3>1, CloseKeeps
      <3>2. CASE mode = "none" /\ mode' = "closed" /\ UNCHANGED <<ctx, held>> /\ OutsideProgram
        BY <3>2 DEF OutsideProgram, Ledger, Without, HeaderModes
      <3>3. QED
        BY <2>2, <3>1, <3>2 DEF CleanUp
    <2>3. CASE UNCHANGED readerVars
      BY <2>3 DEF readerVars, Ledger, Actuals
    <2>4. (LookupNext /\ ~ReadTable /\ ~CleanUp) \/ UNCHANGED allVars => UNCHANGED readerVars
      BY DEF LookupNext, Ask, SearchRows, ReadFileList, TurnDown, NoSrcFile, WalkBegins, WalkStep,
             Answered, Stopped, allVars, readerVars
    <2>5. QED
      BY <2>1, <2>2, <2>3, <2>4
  <1>3. QED
    BY <1>1, <1>2, Inductive, PTL DEF LookupSpec

\* Nothing that reading a line table allocates is left, wherever it breaks off.
THEOREM ReaderReleasesCorrect == LookupSpec => []ReaderReleases
  <1>1. Ledger => ReaderReleases
    BY LedgerReleases
  <1>2. QED
    BY <1>1, LedgerHolds, PTL

-----------------------------------------------------------------------------
\* The least number that something fails for.
LEMMA LeastOne ==
  ASSUME NEW S, S \subseteq Nat, S # {}
  PROVE  \E m \in S : m \in Nat /\ \A l \in S : ~ (l < m)
  <1>1. PICK m \in S : \A l \in S : ~ (<<l, m>> \in OpToRel(<, Nat))
    BY NatLessThanWellFounded, WFMin
  <1>2. QED
    BY <1>1 DEF OpToRel

-----------------------------------------------------------------------------
(* Sums over sets.                                                         *)

\* The element that a fold takes next.
Chosen(s) == CHOOSE x \in s : TRUE

\* g gives for each set of D the sum of f over it.
Adds(f, D, g) ==
  g = [s \in D |-> IF s = {} THEN 0 ELSE f[Chosen(s)] + g[s \ {Chosen(s)}]]

\* f has a number for each element of U, of which there are finitely many.
Numbers(f, U) == IsFiniteSet(U) /\ f \in [U -> Int]

\* g gives the sum of f over each subset of U.
Sums(f, U, g) == Adds(f, SUBSET U, g)
Totals(f, U, g) == Numbers(f, U) /\ Sums(f, U, g) /\ g \in [SUBSET U -> Int]

\* A set that is not empty has an element that is taken.
LEMMA ChosenIn ==
  ASSUME NEW s, s # {}
  PROVE  Chosen(s) \in s
  BY DEF Chosen

\* For every finite set there is a function that gives the sums over its subsets.
LEMMA SumsExist ==
  ASSUME NEW U, NEW f, Numbers(f, U)
  PROVE  \E g : Totals(f, U, g)
  <1>0. IsFiniteSet(U) /\ f \in [U -> Int]
    BY DEF Numbers
  <1> DEFINE Upto(n) == {s \in SUBSET U : Cardinality(s) <= n}
             Good(n, g) == Adds(f, Upto(n), g) /\ g \in [Upto(n) -> Int]
             Lacking == {n \in Nat : ~ \E g : Good(n, g)}
  <1>1. ASSUME NEW s \in SUBSET U, s # {}
        PROVE  /\ Chosen(s) \in s /\ f[Chosen(s)] \in Int /\ s \ {Chosen(s)} \in SUBSET U
               /\ Cardinality(s) \in Nat /\ Cardinality(s \ {Chosen(s)}) = Cardinality(s) - 1
    <2>1. IsFiniteSet(s)
      BY <1>0, FS_Subset
    <2>2. Chosen(s) \in s
      BY <1>1, ChosenIn
    <2>3. QED
      BY <1>0, <2>1, <2>2, FS_RemoveElement, FS_CardinalityType
  <1>2. ASSUME Lacking # {} PROVE FALSE
    <2>1. PICK n \in Lacking : n \in Nat /\ \A l \in Lacking : ~ (l < n)
      BY <1>2, LeastOne
    <2>2. CASE n = 0
      <3> DEFINE g == [s \in Upto(0) |-> 0]
      <3>1. \A s \in Upto(0) : s = {}
        BY <1>0, FS_Subset, FS_EmptySet, FS_CardinalityType
      <3>2. Good(0, g)
        BY <3>1 DEF Adds
      <3>3. QED
        BY <2>1, <2>2, <3>2
    <2>3. CASE n # 0
      <3>1. n - 1 \in Nat /\ n - 1 < n
        BY <2>1, <2>3
      <3>2. PICK g : Good(n - 1, g)
        BY <2>1, <3>1
      <3> DEFINE e == [s \in Upto(n) |-> IF s = {} THEN 0 ELSE f[Chosen(s)] + g[s \ {Chosen(s)}]]
      <3>3. ASSUME NEW s \in Upto(n), s # {}
            PROVE  s \ {Chosen(s)} \in Upto(n - 1) /\ s \ {Chosen(s)} \in Upto(n)
        BY <1>1, <2>1, <3>1, <3>3
      <3>4. ASSUME NEW s \in Upto(n - 1) PROVE e[s] = g[s] /\ s \in Upto(n)
        <4>1. s \in Upto(n)
          <5>1. IsFiniteSet(s)
            BY <1>0, FS_Subset
          <5>2. Cardinality(s) \in Nat
            BY <5>1, FS_CardinalityType
          <5>3. QED
            BY <2>1, <5>2
        <4>2. g[s] = IF s = {} THEN 0 ELSE f[Chosen(s)] + g[s \ {Chosen(s)}]
          BY <3>2 DEF Adds
        <4>3. QED
          BY <4>1, <4>2
      <3>5. e = [s \in Upto(n) |-> IF s = {} THEN 0 ELSE f[Chosen(s)] + e[s \ {Chosen(s)}]]
        <4>1. ASSUME NEW s \in Upto(n), s # {} PROVE e[s \ {Chosen(s)}] = g[s \ {Chosen(s)}]
          BY <3>3, <3>4, <4>1
        <4>2. QED
          BY <4>1
      <3>6. e \in [Upto(n) -> Int]
        <4>1. ASSUME NEW s \in Upto(n), s # {} PROVE f[Chosen(s)] + g[s \ {Chosen(s)}] \in Int
          BY <1>1, <3>2, <3>3, <4>1
        <4>2. ASSUME NEW s \in Upto(n)
              PROVE  (IF s = {} THEN 0 ELSE f[Chosen(s)] + g[s \ {Chosen(s)}]) \in Int
          BY <4>1
        <4> HIDE DEF Upto
        <4>3. QED
          BY <4>2
      <3>7. Good(n, e)
        BY <3>5, <3>6 DEF Adds
      <3>8. QED
        BY <2>1, <3>7
    <2>4. QED
      BY <2>2, <2>3
  <1>3. Cardinality(U) \in Nat
    BY <1>0, FS_CardinalityType
  <1>4. PICK g : Good(Cardinality(U), g)
    BY <1>2, <1>3
  <1>5. Upto(Cardinality(U)) = SUBSET U
    BY <1>0, FS_Subset
  <1>6. QED
    BY <1>4, <1>5 DEF Totals, Sums

\* Two such functions agree where both are defined.
LEMMA SumsAgree ==
  ASSUME NEW U, IsFiniteSet(U), NEW V \in SUBSET U, NEW f, NEW g, NEW h,
         Sums(f, U, g), Sums(f, V, h)
  PROVE  \A s \in SUBSET V : h[s] = g[s]
  <1> DEFINE Wrong == {Cardinality(s) : s \in {t \in SUBSET V : h[t] # g[t]}}
  <1>1. ASSUME NEW s \in SUBSET V, h[s] # g[s] PROVE FALSE
    <2>1. \A t \in SUBSET V : IsFiniteSet(t) /\ Cardinality(t) \in Nat
      BY FS_Subset, FS_CardinalityType
    <2>2. Wrong \subseteq Nat /\ Wrong # {}
      BY <1>1, <2>1
    <2>3. PICK n \in Wrong : n \in Nat /\ \A l \in Wrong : ~ (l < n)
      BY <2>2, LeastOne
    <2>4. PICK t \in SUBSET V : h[t] # g[t] /\ n = Cardinality(t)
      BY <2>3
    <2>5. /\ g[t] = IF t = {} THEN 0 ELSE f[Chosen(t)] + g[t \ {Chosen(t)}]
          /\ h[t] = IF t = {} THEN 0 ELSE f[Chosen(t)] + h[t \ {Chosen(t)}]
      BY DEF Sums, Adds
    <2>6. t # {}
      BY <2>4, <2>5
    <2> DEFINE q == t \ {Chosen(t)}
    <2>7. q \in SUBSET V /\ Cardinality(q) = n - 1
      BY <2>1, <2>4, <2>6, ChosenIn, FS_RemoveElement
    <2>8. Cardinality(q) < n
      BY <2>3, <2>7
    <2>9. h[q] = g[q]
      BY <2>3, <2>7, <2>8
    <2>10. QED
      BY <2>4, <2>5, <2>6, <2>9
  <1>2. QED
    BY <1>1

\* The order in which the elements are taken does not matter.
LEMMA SumTakesAny ==
  ASSUME NEW U, NEW f, NEW g, Totals(f, U, g)
  PROVE  \A s \in SUBSET U : \A x \in s : g[s] = f[x] + g[s \ {x}]
  <1>0. IsFiniteSet(U) /\ f \in [U -> Int] /\ g \in [SUBSET U -> Int]
    BY DEF Totals, Numbers
  <1> DEFINE Holds(s) == \A x \in s : g[s] = f[x] + g[s \ {x}]
             Wrong == {Cardinality(s) : s \in {t \in SUBSET U : ~ Holds(t)}}
  <1>1. ASSUME NEW s \in SUBSET U, ~ Holds(s) PROVE FALSE
    <2>1. \A t \in SUBSET U : IsFiniteSet(t) /\ Cardinality(t) \in Nat
      BY <1>0, FS_Subset, FS_CardinalityType
    <2>2. Wrong \subseteq Nat /\ Wrong # {}
      BY <1>1, <2>1
    <2>3. PICK n \in Wrong : n \in Nat /\ \A l \in Wrong : ~ (l < n)
      BY <2>2, LeastOne
    <2>4. PICK t \in SUBSET U : ~ Holds(t) /\ n = Cardinality(t)
      BY <2>3
    <2>5. \A u \in SUBSET U : Cardinality(u) < n => Holds(u)
      BY <2>1, <2>3
    <2>6. PICK x \in t : g[t] # f[x] + g[t \ {x}]
      BY <2>4
    <2> DEFINE y == Chosen(t)
    <2>7. y \in t
      BY <2>6, ChosenIn
    <2>8. \A u \in SUBSET U : u # {} => g[u] = f[Chosen(u)] + g[u \ {Chosen(u)}]
      BY DEF Totals, Sums, Adds
    <2>9. g[t] = f[y] + g[t \ {y}]
      BY <2>7, <2>8
    <2> HIDE DEF Holds, Wrong, y
    <2>10. x # y
      BY <2>6, <2>9
    <2>11. /\ t \ {x} \in SUBSET U /\ t \ {y} \in SUBSET U
           /\ Cardinality(t \ {x}) < n /\ Cardinality(t \ {y}) < n
      BY <2>1, <2>3, <2>4, <2>6, <2>7, FS_RemoveElement
    <2>12. g[t \ {y}] = f[x] + g[(t \ {y}) \ {x}]
      BY <2>5, <2>6, <2>10, <2>11 DEF Holds
    <2>13. g[t \ {x}] = f[y] + g[(t \ {x}) \ {y}]
      BY <2>5, <2>7, <2>10, <2>11 DEF Holds
    <2>14. (t \ {x}) \ {y} = (t \ {y}) \ {x}
      OBVIOUS
    <2>15. f[x] \in Int /\ f[y] \in Int /\ g[(t \ {y}) \ {x}] \in Int
      BY <1>0, <2>6, <2>7
    <2>16. g[t \ {x}] = f[y] + g[(t \ {y}) \ {x}]
      BY <2>13, <2>14
    <2>17. g[t] = f[y] + (f[x] + g[(t \ {y}) \ {x}])
      BY <2>9, <2>12
    <2>18. f[y] + (f[x] + g[(t \ {y}) \ {x}]) = f[x] + (f[y] + g[(t \ {y}) \ {x}])
      BY <2>15
    <2>19. QED
      BY <2>6, <2>16, <2>17, <2>18, Zenon
  <1>2. QED
    BY <1>1

\* A sum over numbers is one that such a function gives.
LEMMA SumIs ==
  ASSUME NEW U, NEW f, NEW g, Totals(f, U, g), NEW s \in SUBSET U
  PROVE  SumFunctionOnSet(f, s) = g[s]
  <1> DEFINE h == CHOOSE k : Sums(f, s, k)
  <1>1. SumFunctionOnSet(f, s) = h[s]
    BY DEF SumFunctionOnSet, FoldFunctionOnSet, MapThenFoldSet, Sums, Adds, Chosen
  <1>2. \E k : Sums(f, s, k)
    <2> DEFINE k == [t \in SUBSET s |-> g[t]]
    <2>1. ASSUME NEW t \in SUBSET s, t # {} PROVE t \ {Chosen(t)} \in SUBSET s
      OBVIOUS
    <2>2. ASSUME NEW t \in SUBSET s
          PROVE  g[t] = IF t = {} THEN 0 ELSE f[Chosen(t)] + g[t \ {Chosen(t)}]
      BY DEF Totals, Sums, Adds
    <2>3. k = [t \in SUBSET s |-> IF t = {} THEN 0 ELSE f[Chosen(t)] + k[t \ {Chosen(t)}]]
      BY <2>1, <2>2
    <2>4. QED
      BY <2>3 DEF Sums, Adds
  <1>3. Sums(f, s, h)
    BY <1>2
  <1> HIDE DEF h
  <1>4. \A t \in SUBSET s : h[t] = g[t]
    <2>1. IsFiniteSet(U) /\ Sums(f, U, g)
      BY DEF Totals, Numbers
    <2>2. QED
      BY <1>3, <2>1, SumsAgree
  <1>5. QED
    BY <1>1, <1>4

\* Nothing adds up to 0.
LEMMA SumEmpty ==
  ASSUME NEW U, NEW f, Numbers(f, U)
  PROVE  SumFunctionOnSet(f, {}) = 0
  <1>1. PICK g : Totals(f, U, g)
    BY SumsExist
  <1>2. g[{}] = 0
    BY <1>1 DEF Totals, Sums, Adds
  <1>3. QED
    BY <1>1, <1>2, SumIs

\* One more element adds what it has.
LEMMA SumExtended ==
  ASSUME NEW U, NEW f, Numbers(f, U), NEW s \in SUBSET U, NEW x \in U, x \notin s
  PROVE  /\ SumFunctionOnSet(f, s) \in Int
         /\ SumFunctionOnSet(f, s \cup {x}) = SumFunctionOnSet(f, s) + f[x]
  <1>1. PICK g : Totals(f, U, g)
    BY SumsExist
  <1>2. s \cup {x} \in SUBSET U /\ x \in s \cup {x} /\ (s \cup {x}) \ {x} = s
    OBVIOUS
  <1>3. g[s \cup {x}] = f[x] + g[s]
    BY <1>1, <1>2, SumTakesAny
  <1>4. SumFunctionOnSet(f, s) = g[s] /\ SumFunctionOnSet(f, s \cup {x}) = g[s \cup {x}]
    BY <1>1, <1>2, SumIs
  <1>5. g[s] \in Int /\ f[x] \in Int
    BY <1>1 DEF Totals, Numbers
  <1>6. QED
    BY <1>3, <1>4, <1>5

\* So a sum over an interval grows with it.
LEMMA SumGrows ==
  ASSUME NEW n \in Nat, NEW f, f \in [1 .. n -> Int], NEW a \in Nat, NEW k \in Nat, a <= k, k < n
  PROVE  /\ SumFunctionOnSet(f, a + 1 .. a) = 0
         /\ SumFunctionOnSet(f, a + 1 .. k) \in Int
         /\ SumFunctionOnSet(f, a + 1 .. k + 1) = SumFunctionOnSet(f, a + 1 .. k) + f[k + 1]
  <1> DEFINE U == 1 .. n
             s == a + 1 .. k
  <1>1. Numbers(f, U)
    BY FS_Interval DEF Numbers
  <1>2. a + 1 .. a = {}
    OBVIOUS
  <1>3. s \in SUBSET U /\ k + 1 \in U /\ k + 1 \notin s /\ a + 1 .. k + 1 = s \cup {k + 1}
    OBVIOUS
  <1> HIDE DEF U, s
  <1>4. SumFunctionOnSet(f, {}) = 0
    BY <1>1, SumEmpty
  <1>5. /\ SumFunctionOnSet(f, s) \in Int
        /\ SumFunctionOnSet(f, s \cup {k + 1}) = SumFunctionOnSet(f, s) + f[k + 1]
    BY <1>1, <1>3, SumExtended
  <1>6. QED
    BY <1>2, <1>3, <1>4, <1>5 DEF s

-----------------------------------------------------------------------------
(* Quotients and rests.                                                    *)

\* A number is made of its quotient and its rest.
LEMMA QuotientAndRest ==
  ASSUME NEW n \in Nat \ {0}, NEW x \in Int
  PROVE  x \div n \in Int /\ x % n \in 0 .. n - 1 /\ x = n * (x \div n) + (x % n)
  OBVIOUS

\* In one way only.
LEMMA QuotientUnique ==
  ASSUME NEW n \in Nat \ {0}, NEW u \in Int, NEW v \in Int, NEW r \in 0 .. n - 1, NEW s \in 0 .. n - 1,
         n * u + r = n * v + s
  PROVE  u = v /\ r = s
  <1>1. n * u \in Int /\ n * v \in Int /\ n \in Int /\ r \in Int /\ s \in Int
    OBVIOUS
  <1>2. CASE u = v
    BY <1>1, <1>2
  <1>3. CASE u < v
    <2>1. n * (v - u) = n * v - n * u
      OBVIOUS
    <2>2. n * (v - u) >= n
      <3>1. v - u >= 1 /\ v - u \in Int
        BY <1>3
      <3>2. QED
        BY <3>1
    <2>3. QED
      BY <1>1, <2>1, <2>2
  <1>4. CASE u > v
    <2>1. n * (u - v) = n * u - n * v
      OBVIOUS
    <2>2. n * (u - v) >= n
      <3>1. u - v >= 1 /\ u - v \in Int
        BY <1>4
      <3>2. QED
        BY <3>1
    <2>3. QED
      BY <1>1, <2>1, <2>2
  <1>5. QED
    BY <1>2, <1>3, <1>4

\* To divide a sum, the first summand may be divided before the second is added.
LEMMA DividedTwice ==
  ASSUME NEW n \in Nat \ {0}, NEW x \in Int, NEW y \in Int
  PROVE  /\ ((x % n) + y) % n = (x + y) % n
         /\ (x \div n) + (((x % n) + y) \div n) = (x + y) \div n
  <1>1. PICK q1 \in Int, r1 \in 0 .. n - 1 : q1 = x \div n /\ r1 = x % n /\ x = n * q1 + r1
    BY QuotientAndRest
  <1>2. r1 + y \in Int /\ x + y \in Int
    OBVIOUS
  <1>3. PICK q2 \in Int, r2 \in 0 .. n - 1 : q2 = (r1 + y) \div n /\ r2 = (r1 + y) % n /\ r1 + y = n * q2 + r2
    BY <1>2, QuotientAndRest
  <1>4. PICK q3 \in Int, r3 \in 0 .. n - 1 : q3 = (x + y) \div n /\ r3 = (x + y) % n /\ x + y = n * q3 + r3
    BY <1>2, QuotientAndRest
  <1>5. q1 + q2 \in Int /\ n * (q1 + q2) = n * q1 + n * q2 /\ n * q1 \in Int /\ n * q2 \in Int /\ n * q3 \in Int
    OBVIOUS
  <1>6. n * (q1 + q2) + r2 = n * q3 + r3
    <2>1. x + y = n * q1 + (r1 + y)
      BY <1>1, <1>5
    <2>2. x + y = n * q1 + (n * q2 + r2)
      BY <1>3, <2>1, Zenon
    <2>3. n * q1 + (n * q2 + r2) = (n * q1 + n * q2) + r2
      BY <1>5
    <2>4. QED
      BY <1>4, <1>5, <2>2, <2>3, Zenon
  <1>7. q1 + q2 = q3 /\ r2 = r3
    BY <1>5, <1>6, QuotientUnique
  <1>8. QED
    BY <1>1, <1>3, <1>4, <1>7

-----------------------------------------------------------------------------
(* Where a sequence begins, and the last operation of some kind in it.     *)

\* The largest number is the one that no other exceeds.
LEMMA MaxIs ==
  ASSUME NEW S \in SUBSET Int, NEW x \in S, \A y \in S : x >= y
  PROVE  Max(S) = x
  <1>1. \A z \in S : (\A y \in S : z >= y) => z = x
    OBVIOUS
  <1>2. QED
    BY <1>1 DEF Max

\* The greater of two numbers.
LEMMA MaxOfTwo ==
  ASSUME NEW x \in Int, NEW y \in Int
  PROVE  Max({x, y}) = IF x >= y THEN x ELSE y
  <1> DEFINE S == {x, y}
  <1>1. S \in SUBSET Int /\ x \in S /\ y \in S /\ \A z \in S : z = x \/ z = y
    OBVIOUS
  <1> HIDE DEF S
  <1>2. CASE x >= y
    <2>1. \A z \in S : x >= z
      BY <1>1, <1>2
    <2>2. Max(S) = x
      BY <1>1, <2>1, MaxIs
    <2>3. QED
      BY <1>2, <2>2 DEF S
  <1>3. CASE ~ (x >= y)
    <2>1. \A z \in S : y >= z
      BY <1>1, <1>3
    <2>2. Max(S) = y
      BY <1>1, <2>1, MaxIs
    <2>3. QED
      BY <1>3, <2>2 DEF S
  <1>4. QED
    BY <1>2, <1>3

\* b is the operation after which the sequence of operation k begins.
StartsAt(p, k, b) ==
  /\ b \in 0 .. k - 1
  /\ b # 0 => p[b].op = "end_sequence"
  /\ \A j \in b + 1 .. k - 1 : p[j].op # "end_sequence"

\* s is the last of the operations after b up to k that is one of ops, or 0.
IsLast(p, b, k, ops, s) ==
  /\ s = 0 \/ (s \in b + 1 .. k /\ p[s].op \in ops)
  /\ \A j \in b + 1 .. k : p[j].op \in ops => j <= s

\* That is what the model computes as the start of the sequence.
LEMMA StartIs ==
  ASSUME NEW p, NEW k \in Nat, NEW b, StartsAt(p, k, b)
  PROVE  SequenceStart(p, k) = b
  <1> DEFINE S == {0} \cup {j \in 1 .. k - 1 : p[j].op = "end_sequence"}
  <1>1. S \in SUBSET Int /\ b \in S /\ \A y \in S : b >= y
    BY DEF StartsAt
  <1>2. Max(S) = b
    BY <1>1, MaxIs
  <1>3. QED
    BY <1>2 DEF SequenceStart

\* And that as the last operation.
LEMMA LastIs ==
  ASSUME NEW p, NEW k \in Nat, NEW b \in Nat, SequenceStart(p, k) = b,
         NEW ops, NEW s, IsLast(p, b, k, ops, s)
  PROVE  LastOf(p, k, ops) = s
  <1> DEFINE S == {0} \cup {j \in b + 1 .. k : p[j].op \in ops}
  <1>1. S \in SUBSET Int /\ s \in S /\ \A y \in S : s >= y
    BY DEF IsLast
  <1>2. Max(S) = s
    BY <1>1, MaxIs
  <1>3. QED
    BY <1>2 DEF LastOf

\* There always is such an operation.
LEMMA LastExists ==
  ASSUME NEW p, NEW k \in Nat, NEW b \in Nat, NEW ops
  PROVE  \E s \in 0 .. k : IsLast(p, b, k, ops, s)
  <1> DEFINE Back == {k - j : j \in {i \in b + 1 .. k : p[i].op \in ops}}
  <1>1. CASE Back = {}
    <2>1. IsLast(p, b, k, ops, 0)
      BY <1>1 DEF IsLast
    <2>2. QED
      BY <2>1
  <1>2. CASE Back # {}
    <2>1. Back \subseteq Nat
      OBVIOUS
    <2>2. PICK m \in Back : m \in Nat /\ \A l \in Back : ~ (l < m)
      BY <1>2, <2>1, LeastOne
    <2>3. PICK s \in b + 1 .. k : p[s].op \in ops /\ m = k - s
      BY <2>2
    <2>4. ASSUME NEW j \in b + 1 .. k, p[j].op \in ops PROVE j <= s
      <3>1. k - j \in Back
        BY <2>4
      <3>2. ~ (k - j < m)
        BY <2>2, <3>1
      <3>3. QED
        BY <2>3, <3>2
    <2>5. QED
      BY <2>3, <2>4 DEF IsLast
  <1>3. QED
    BY <1>1, <1>2

\* Both go on from one operation to the next.
LEMMA StartGoesOn ==
  ASSUME NEW p, NEW k \in Nat, NEW b, StartsAt(p, k + 1, b)
  PROVE  /\ p[k + 1].op # "end_sequence" => StartsAt(p, k + 2, b)
         /\ p[k + 1].op = "end_sequence" => StartsAt(p, k + 2, k + 1)
         /\ \A j \in b + 1 .. k + 1 : SequenceStart(p, j) = b
  <1>1. b \in 0 .. k /\ \A j \in b + 1 .. k : p[j].op # "end_sequence"
    BY DEF StartsAt
  <1>2. ASSUME NEW j \in b + 1 .. k + 1 PROVE SequenceStart(p, j) = b
    <2>1. StartsAt(p, j, b) /\ j \in Nat
      BY <1>1 DEF StartsAt
    <2>2. QED
      BY <2>1, StartIs
  <1>3. \A j \in b + 1 .. k + 1 : j \in b + 1 .. k \/ j = k + 1
    BY <1>1
  <1>4. QED
    BY <1>1, <1>2, <1>3 DEF StartsAt

\* The last operation of a kind, one operation further on.
LEMMA LastGoesOn ==
  ASSUME NEW p, NEW k \in Nat, NEW b \in 0 .. k, NEW ops, NEW s, IsLast(p, b, k, ops, s)
  PROVE  IsLast(p, b, k + 1, ops, IF p[k + 1].op \in ops THEN k + 1 ELSE s)
  <1>1. \A j \in b + 1 .. k + 1 : j \in b + 1 .. k \/ j = k + 1
    OBVIOUS
  <1>2. CASE p[k + 1].op \in ops
    BY <1>1, <1>2 DEF IsLast
  <1>3. CASE p[k + 1].op \notin ops
    <2>1. s = 0 \/ (s \in b + 1 .. k + 1 /\ p[s].op \in ops)
      BY DEF IsLast
    <2>2. \A j \in b + 1 .. k + 1 : p[j].op \in ops => j <= s
      BY <1>1, <1>3 DEF IsLast
    <2>3. QED
      BY <1>3, <2>1, <2>2 DEF IsLast
  <1>4. QED
    BY <1>2, <1>3

-----------------------------------------------------------------------------
(* The address that a program means.                                       *)

Anchors == {"set_address", "fixed_advance_pc"}
Advances(h, p) == [i \in DOMAIN p |-> OpAdvance(h, p[i])]
Deltas(h, p) == [i \in DOMAIN p |-> LineDelta(h, p[i])]
Bundle(h) == Max({1, h.maxOps})
AnchorAt(p, b, j) == Max({b, LastOf(p, j, Anchors)})

\* The address after operation j of the sequence after b, if m has those before.
AddressStep(h, p, b, m, j) ==
  IF j <= b THEN 0
  ELSE IF p[j].op = "set_address" THEN p[j].n
  ELSE IF p[j].op = "fixed_advance_pc" THEN m[j - 1] + p[j].n
  ELSE m[AnchorAt(p, b, j)]
         + h.minInst * (SumFunctionOnSet(Advances(h, p), AnchorAt(p, b, j) + 1 .. j) \div Bundle(h))

\* m has the addresses after all operations up to k.
Addressed(h, p, b, k, m) == m = [j \in 0 .. k |-> AddressStep(h, p, b, m, j)]

\* With several operations in an instruction the quotient counts; else each.
LEMMA BundleIs ==
  ASSUME NEW h \in Header
  PROVE  Bundle(h) \in Nat \ {0} /\ Bundle(h) = IF h.maxOps < 2 THEN 1 ELSE h.maxOps
  <1>1. h.maxOps \in Nat
    BY DEF Header
  <1>2. Max({1, h.maxOps}) = IF 1 >= h.maxOps THEN 1 ELSE h.maxOps
    BY <1>1, MaxOfTwo
  <1>3. QED
    BY <1>1, <1>2 DEF Bundle

\* The address is that of the addresses for the operation.
LEMMA MeantAddressIs ==
  ASSUME NEW h, NEW p, NEW k, NEW b, SequenceStart(p, k) = b
  PROVE  MeantAddress(h, p, k) = (CHOOSE m : Addressed(h, p, b, k, m))[k] % W
  BY DEF MeantAddress, Addressed, AddressStep, AnchorAt, Anchors, Advances, Bundle

\* Where the anchor is.
LEMMA AnchorIs ==
  ASSUME NEW p, NEW j \in Nat, NEW b \in 0 .. j, SequenceStart(p, j) = b, NEW a,
         IsLast(p, b, j, Anchors, a)
  PROVE  AnchorAt(p, b, j) = IF a = 0 THEN b ELSE a
  <1>1. LastOf(p, j, Anchors) = a
    BY LastIs
  <1>2. (a = 0 \/ a \in b + 1 .. j) /\ a \in Int /\ b \in Int
    BY DEF IsLast
  <1>3. Max({b, a}) = IF b >= a THEN b ELSE a
    BY <1>2, MaxOfTwo
  <1>4. QED
    BY <1>1, <1>2, <1>3 DEF AnchorAt

\* An address depends on those before only.
LEMMA StepLocal ==
  ASSUME NEW h, NEW p, NEW k \in Nat, NEW b, StartsAt(p, k + 1, b), NEW j \in 0 .. k + 1,
         NEW m, NEW q, \A i \in 0 .. j - 1 : m[i] = q[i]
  PROVE  AddressStep(h, p, b, m, j) = AddressStep(h, p, b, q, j)
  <1>1. b \in 0 .. k
    BY DEF StartsAt
  <1>2. CASE j <= b
    BY <1>2 DEF AddressStep
  <1>3. CASE ~ (j <= b) /\ p[j].op \in Anchors
    <2>1. m[j - 1] = q[j - 1]
      BY <1>1, <1>3
    <2>2. QED
      BY <1>3, <2>1 DEF AddressStep, Anchors
  <1>4. CASE ~ (j <= b) /\ p[j].op \notin Anchors
    <2>1. j \in b + 1 .. k + 1 /\ j \in Nat /\ b \in 0 .. j /\ b \in Nat
      BY <1>1, <1>4
    <2>2. SequenceStart(p, j) = b
      BY <2>1, StartGoesOn
    <2>3. PICK a \in 0 .. j : IsLast(p, b, j, Anchors, a)
      BY <2>1, LastExists
    <2>4. AnchorAt(p, b, j) = IF a = 0 THEN b ELSE a
      BY <2>1, <2>2, <2>3, AnchorIs
    <2>5. AnchorAt(p, b, j) \in 0 .. j - 1
      <3>1. a # j
        BY <1>4, <2>1, <2>3 DEF IsLast
      <3>2. a \in 0 .. j - 1
        BY <2>1, <3>1
      <3>3. b \in 0 .. j - 1
        BY <2>1
      <3>4. QED
        BY <2>4, <3>2, <3>3
    <2>6. m[AnchorAt(p, b, j)] = q[AnchorAt(p, b, j)]
      BY <2>5
    <2>7. QED
      BY <1>4, <2>6 DEF AddressStep, Anchors
  <1>5. QED
    BY <1>2, <1>3, <1>4

\* What has the addresses up to k + 1 has those up to k.
LEMMA CountsBefore ==
  ASSUME NEW h, NEW p, NEW k \in Nat, NEW b, StartsAt(p, k + 1, b), NEW m, Addressed(h, p, b, k + 1, m)
  PROVE  /\ Addressed(h, p, b, k, [j \in 0 .. k |-> m[j]])
         /\ m[k + 1] = AddressStep(h, p, b, m, k + 1)
  <1> DEFINE q == [j \in 0 .. k |-> m[j]]
  <1>1. \A j \in 0 .. k + 1 : m[j] = AddressStep(h, p, b, m, j)
    BY DEF Addressed
  <1>2. ASSUME NEW j \in 0 .. k PROVE AddressStep(h, p, b, m, j) = AddressStep(h, p, b, q, j)
    <2>1. \A i \in 0 .. j - 1 : m[i] = q[i]
      OBVIOUS
    <2>2. j \in 0 .. k + 1
      OBVIOUS
    <2> HIDE DEF q
    <2>3. QED
      BY <2>1, <2>2, StepLocal
  <1>3. \A j \in 0 .. k : j \in 0 .. k + 1
    OBVIOUS
  <1>4. q = [j \in 0 .. k |-> AddressStep(h, p, b, q, j)]
    BY <1>1, <1>2, <1>3
  <1>5. k + 1 \in 0 .. k + 1
    OBVIOUS
  <1>6. m[k + 1] = AddressStep(h, p, b, m, k + 1)
    BY <1>1, <1>5
  <1>7. Addressed(h, p, b, k, q)
    BY <1>4 DEF Addressed
  <1>8. QED
    BY <1>6, <1>7

\* The addresses can be told one operation further.
LEMMA CountsOn ==
  ASSUME NEW h, NEW p, NEW k \in Nat, NEW b, StartsAt(p, k + 1, b), NEW m, Addressed(h, p, b, k, m)
  PROVE  \E q : Addressed(h, p, b, k + 1, q)
  <1> DEFINE q == [j \in 0 .. k + 1 |-> AddressStep(h, p, b, m, j)]
  <1>1. ASSUME NEW j \in 0 .. k PROVE m[j] = q[j]
    <2>1. j \in 0 .. k + 1
      OBVIOUS
    <2>2. QED
      BY <2>1 DEF Addressed
  <1>2. ASSUME NEW j \in 0 .. k + 1 PROVE AddressStep(h, p, b, m, j) = AddressStep(h, p, b, q, j)
    <2>1. \A i \in 0 .. j - 1 : m[i] = q[i]
      BY <1>1
    <2> HIDE DEF q
    <2>2. QED
      BY <2>1, StepLocal
  <1>3. q = [j \in 0 .. k + 1 |-> AddressStep(h, p, b, q, j)]
    BY <1>2
  <1>4. QED
    BY <1>3 DEF Addressed

\* An operation of a program has its type.
LEMMA OperationIn ==
  ASSUME NEW p \in Seq(Operation), NEW k \in 1 .. Len(p)
  PROVE  /\ p[k] \in Operation /\ p[k].n \in Int /\ k \in DOMAIN p
         /\ p[k].op = "set_address" => p[k].n \in 0 .. W - 1
  <1>1. p[k] \in Operation /\ k \in DOMAIN p
    OBVIOUS
  <1>2. QED
    BY <1>1, OperationFields

-----------------------------------------------------------------------------
(* What an operation does to the registers.                                *)

\* An operation that is not one of the experimental ones.
Plainly(h, r, o) == IF o.op = "special" THEN Special(h, r, o.n) ELSE SetRegister(h, r, o)

\* An advance of k operations.
LEMMA AdvanceEffect ==
  ASSUME NEW h \in Header, NEW r \in Moved, NEW k \in Int
  PROVE  LET x == Advance(h, r, k)
         IN /\ x.line = r.line /\ x.file = r.file /\ x.epilogue = r.epilogue
            /\ h.maxOps < 2 => x.addr = (r.addr + h.minInst * k) % W
            /\ h.maxOps >= 2 => /\ x.addr = (r.addr + h.minInst * ((r.opIndex + k) \div h.maxOps)) % W
                                /\ x.opIndex = (r.opIndex + k) % h.maxOps
            /\ x.line \in Int /\ DOMAIN x = DOMAIN r
  <1>1. h.maxOps \in Nat /\ h.minInst \in Nat /\ r.line \in Int
    BY DEF Header, Moved
  <1>2. k * h.minInst = h.minInst * k
    BY <1>1
  <1>3. CASE h.maxOps < 2
    BY <1>1, <1>2, <1>3 DEF Advance, Moved
  <1>4. CASE ~ (h.maxOps < 2)
    BY <1>1, <1>4 DEF Advance, Moved
  <1>5. QED
    BY <1>1, <1>3, <1>4

\* No advance leaves the address and the place in its instruction.
LEMMA NoAdvance ==
  ASSUME NEW h \in Header, NEW r \in Moved, r.addr \in 0 .. W - 1
  PROVE  /\ (r.addr + h.minInst * 0) % W = r.addr
         /\ (h.maxOps >= 2 /\ r.opIndex \in 0 .. h.maxOps - 1) =>
              /\ (r.addr + h.minInst * ((r.opIndex + 0) \div h.maxOps)) % W = r.addr
              /\ (r.opIndex + 0) % h.maxOps = r.opIndex
  <1>1. h.maxOps \in Nat /\ h.minInst \in Nat /\ h.minInst * 0 = 0
    BY DEF Header
  <1>2. (r.addr + 0) % W = r.addr
    BY WAssumption
  <1>3. ASSUME h.maxOps >= 2, r.opIndex \in 0 .. h.maxOps - 1
        PROVE  (r.opIndex + 0) \div h.maxOps = 0 /\ (r.opIndex + 0) % h.maxOps = r.opIndex
    BY <1>1, <1>3
  <1>4. QED
    BY <1>1, <1>2, <1>3

\* The line and the file.
LEMMA LineEffect ==
  ASSUME NEW h \in Header, NEW r \in Moved, NEW o \in Operation
  PROVE  LET x == Plainly(h, r, o)
         IN /\ x.line = r.line + LineDelta(h, o)
            /\ x.file = IF o.op = "set_file" THEN o.n ELSE r.file
            /\ o.op # "set_epilogue_begin" => x.epilogue = r.epilogue
  <1>1. /\ o.n \in Int /\ r.line \in Int /\ h.lineBase \in Int /\ h.lineRange \in Nat \ {0}
    BY DEF Operation, Moved, Header
  <1>2. CASE o.op = "special"
    <2>1. o.n \div h.lineRange \in Int /\ o.n % h.lineRange \in Int
      <3>1. o.n \div h.lineRange \in Int /\ o.n % h.lineRange \in 0 .. h.lineRange - 1
        BY <1>1, QuotientAndRest
      <3>2. QED
        BY <1>1, <3>1
    <2> DEFINE y == Advance(h, r, o.n \div h.lineRange)
    <2>2. y.line = r.line /\ y.file = r.file /\ y.epilogue = r.epilogue /\ DOMAIN y = DOMAIN r
      BY <2>1, AdvanceEffect
    <2> HIDE DEF y
    <2>3. Plainly(h, r, o) = [y EXCEPT !.line = @ + h.lineBase + (o.n % h.lineRange)]
      BY <1>2 DEF Plainly, Special, y
    <2>4. DOMAIN y = {"addr", "opIndex", "file", "line", "epilogue", "context"}
      BY <2>2 DEF Moved
    <2>5. QED
      BY <1>1, <1>2, <2>1, <2>2, <2>3, <2>4 DEF LineDelta
  <1>3. CASE o.op = "const_add_pc"
    BY <1>1, <1>3, AdvanceEffect DEF Plainly, SetRegister, LineDelta
  <1>4. CASE o.op = "advance_line"
    BY <1>1, <1>4 DEF Plainly, SetRegister, LineDelta, Moved
  <1>5. CASE o.op = "set_file"
    BY <1>1, <1>5 DEF Plainly, SetRegister, LineDelta, Moved
  <1>6. CASE o.op \in {"advance_pc", "fixed_advance_pc", "set_epilogue_begin", "set_address", "set_subprogram"}
    <2>1. CASE o.op = "advance_pc"
      <3>1. Plainly(h, r, o) = [r EXCEPT !.addr = (@ + h.minInst * o.n) % W] /\ LineDelta(h, o) = 0
        BY <2>1 DEF Plainly, SetRegister, LineDelta
      <3>2. QED
        BY <1>1, <2>1, <3>1 DEF Moved
    <2>2. CASE o.op = "fixed_advance_pc"
      <3>1. Plainly(h, r, o) = [r EXCEPT !.addr = (@ + o.n) % W, !.opIndex = 0] /\ LineDelta(h, o) = 0
        BY <2>2 DEF Plainly, SetRegister, LineDelta
      <3>2. QED
        BY <1>1, <2>2, <3>1 DEF Moved
    <2>3. CASE o.op = "set_epilogue_begin"
      <3>1. Plainly(h, r, o) = [r EXCEPT !.epilogue = TRUE] /\ LineDelta(h, o) = 0
        BY <2>3 DEF Plainly, SetRegister, LineDelta
      <3>2. QED
        BY <1>1, <2>3, <3>1 DEF Moved
    <2>4. CASE o.op = "set_address"
      <3>1. Plainly(h, r, o) = [r EXCEPT !.addr = o.n, !.opIndex = 0] /\ LineDelta(h, o) = 0
        BY <2>4 DEF Plainly, SetRegister, LineDelta
      <3>2. QED
        BY <1>1, <2>4, <3>1 DEF Moved
    <2>5. CASE o.op = "set_subprogram"
      <3>1. Plainly(h, r, o) = [r EXCEPT !.context = 0] /\ LineDelta(h, o) = 0
        BY <2>5 DEF Plainly, SetRegister, LineDelta
      <3>2. QED
        BY <1>1, <2>5, <3>1 DEF Moved
    <2>6. QED
      BY <1>6, <2>1, <2>2, <2>3, <2>4, <2>5
  <1>7. CASE o.op \notin {"special", "const_add_pc", "advance_line", "set_file", "advance_pc", "fixed_advance_pc",
                          "set_epilogue_begin", "set_address", "set_subprogram"}
    <2>1. Plainly(h, r, o) = r /\ LineDelta(h, o) = 0
      BY <1>7 DEF Plainly, SetRegister, LineDelta
    <2>2. QED
      BY <1>1, <1>7, <2>1
  <1>8. QED
    BY <1>2, <1>3, <1>4, <1>5, <1>6, <1>7

\* The address, if the operation does not say where it is.
LEMMA AddressEffect ==
  ASSUME NEW h \in Header, NEW r \in Moved, NEW o \in Operation, o.op \notin Anchors,
         r.addr \in 0 .. W - 1
  PROVE  LET x == Plainly(h, r, o)
         IN /\ OpAdvance(h, o) \in Int
            /\ h.maxOps < 2 => x.addr = (r.addr + h.minInst * OpAdvance(h, o)) % W
            /\ (h.maxOps >= 2 /\ r.opIndex \in 0 .. h.maxOps - 1 /\ o.op # "advance_pc") =>
                 /\ x.addr = (r.addr + h.minInst * ((r.opIndex + OpAdvance(h, o)) \div h.maxOps)) % W
                 /\ x.opIndex = (r.opIndex + OpAdvance(h, o)) % h.maxOps
  <1>1. /\ o.n \in Int /\ h.lineRange \in Nat \ {0} /\ h.maxOps \in Nat
        /\ r.addr \in Nat /\ r.line \in Int
    BY DEF Operation, Header, Moved
  <1>2. CASE o.op = "special"
    <2> DEFINE y == Advance(h, r, o.n \div h.lineRange)
    <2>1. o.n \div h.lineRange \in Int /\ OpAdvance(h, o) = o.n \div h.lineRange
      BY <1>1, <1>2, QuotientAndRest DEF OpAdvance
    <2>2. /\ h.maxOps < 2 => y.addr = (r.addr + h.minInst * OpAdvance(h, o)) % W
          /\ h.maxOps >= 2 =>
               /\ y.addr = (r.addr + h.minInst * ((r.opIndex + OpAdvance(h, o)) \div h.maxOps)) % W
               /\ y.opIndex = (r.opIndex + OpAdvance(h, o)) % h.maxOps
      BY <2>1, AdvanceEffect
    <2>3. DOMAIN y = DOMAIN r
      BY <2>1, AdvanceEffect
    <2> HIDE DEF y
    <2>4. Plainly(h, r, o) = [y EXCEPT !.line = @ + h.lineBase + (o.n % h.lineRange)]
      BY <1>2 DEF Plainly, Special, y
    <2>5. DOMAIN y = {"addr", "opIndex", "file", "line", "epilogue", "context"}
      BY <2>3 DEF Moved
    <2>6. Plainly(h, r, o).addr = y.addr /\ Plainly(h, r, o).opIndex = y.opIndex
      BY <2>4, <2>5
    <2>7. QED
      BY <2>1, <2>2, <2>6
  <1>3. CASE o.op = "const_add_pc"
    <2>1. OpAdvance(h, o) = o.n /\ Plainly(h, r, o) = Advance(h, r, o.n)
      BY <1>3 DEF OpAdvance, Plainly, SetRegister
    <2>2. QED
      BY <1>1, <2>1, AdvanceEffect
  <1>4. CASE o.op = "advance_pc"
    <2>1. OpAdvance(h, o) = o.n /\ Plainly(h, r, o).addr = (r.addr + h.minInst * o.n) % W
      BY <1>4 DEF OpAdvance, Plainly, SetRegister, Moved
    <2>2. QED
      BY <1>1, <1>4, <2>1
  <1>5. CASE o.op \notin {"special", "const_add_pc", "advance_pc"}
    <2>1. OpAdvance(h, o) = 0
      BY <1>5 DEF OpAdvance
    <2>2. Plainly(h, r, o).addr = r.addr /\ Plainly(h, r, o).opIndex = r.opIndex
      <3>1. o.op \notin {"special", "const_add_pc", "advance_pc", "set_address", "fixed_advance_pc"}
        BY <1>5 DEF Anchors
      <3>2. CASE o.op = "advance_line"
        BY <3>2 DEF Plainly, SetRegister, Moved
      <3>3. CASE o.op = "set_file"
        BY <3>3 DEF Plainly, SetRegister, Moved
      <3>4. CASE o.op = "set_epilogue_begin"
        BY <3>4 DEF Plainly, SetRegister, Moved
      <3>5. CASE o.op = "set_subprogram"
        BY <3>5 DEF Plainly, SetRegister, Moved
      <3>6. CASE o.op \notin {"advance_line", "set_file", "set_epilogue_begin", "set_subprogram"}
        BY <3>1, <3>6 DEF Plainly, SetRegister
      <3>7. QED
        BY <3>2, <3>3, <3>4, <3>5, <3>6
    <2>3. QED
      BY <2>1, <2>2, NoAdvance
  <1>6. QED
    BY <1>2, <1>3, <1>4, <1>5

-----------------------------------------------------------------------------
(* The registers follow what the program means.                            *)

\* The anchor of the sequence after b, if the last operation that says where the address is is a.
AnchorOf(b, a) == IF a = 0 THEN b ELSE a
Counted(h, p, b, a, k) == SumFunctionOnSet(Advances(h, p), AnchorOf(b, a) + 1 .. k)

\* m has the address r.addr after operation k, as the registers have it.
AddressMeant(h, p, b, a, k, r, m) ==
  /\ m[AnchorOf(b, a)] \in Int
  /\ m[k] = m[AnchorOf(b, a)] + h.minInst * (Counted(h, p, b, a, k) \div Bundle(h))
  /\ r.addr = m[k] % W

FollowsAddress(h, p, b, k, r) ==
  /\ \E m : Addressed(h, p, b, k, m)
  /\ \E a : /\ IsLast(p, b, k, Anchors, a)
            /\ \A m : Addressed(h, p, b, k, m) => AddressMeant(h, p, b, a, k, r, m)
            /\ h.maxOps >= 2 => r.opIndex = Counted(h, p, b, a, k) % h.maxOps

FollowsLine(h, p, b, k, r) == r.line = 1 + SumFunctionOnSet(Deltas(h, p), b + 1 .. k)

FollowsFile(h, p, b, k, r) ==
  \E f : /\ IsLast(p, b, k, {"set_file"}, f)
         /\ r.file = IF f = 0 THEN Defaults(h).file ELSE p[f].n

\* In the sequence after b the registers r are those after operation k.
Follows(h, p, b, k, r) ==
  /\ FollowsAddress(h, p, b, k, r) /\ FollowsLine(h, p, b, k, r) /\ FollowsFile(h, p, b, k, r)
  /\ r.epilogue = FALSE

\* Nothing adds up to 0, wherever it stands.
LEMMA SumNone ==
  ASSUME NEW n \in Nat, NEW f, f \in [1 .. n -> Int], NEW a \in Int
  PROVE  SumFunctionOnSet(f, a + 1 .. a) = 0
  <1> DEFINE U == 1 .. n
  <1>1. Numbers(f, U)
    BY FS_Interval DEF Numbers
  <1>2. a + 1 .. a = {}
    OBVIOUS
  <1> HIDE DEF U
  <1>3. SumFunctionOnSet(f, {}) = 0
    BY <1>1, SumEmpty
  <1>4. QED
    BY <1>2, <1>3

\* Advances and line deltas are numbers.
LEMMA AmountsTyped ==
  ASSUME NEW h \in Header, NEW p \in Seq(Operation)
  PROVE  /\ Advances(h, p) \in [1 .. Len(p) -> Int] /\ Deltas(h, p) \in [1 .. Len(p) -> Int]
         /\ \A i \in 1 .. Len(p) : Advances(h, p)[i] = OpAdvance(h, p[i]) /\ Deltas(h, p)[i] = LineDelta(h, p[i])
  <1>1. DOMAIN p = 1 .. Len(p)
    OBVIOUS
  <1>2. ASSUME NEW i \in 1 .. Len(p) PROVE OpAdvance(h, p[i]) \in Int /\ LineDelta(h, p[i]) \in Int
    <2>1. p[i].n \in Int /\ h.lineRange \in Nat \ {0} /\ h.lineBase \in Int
      BY OperationIn DEF Header
    <2>2. p[i].n \div h.lineRange \in Int /\ p[i].n % h.lineRange \in 0 .. h.lineRange - 1
      BY <2>1, QuotientAndRest
    <2>3. h.lineBase + (p[i].n % h.lineRange) \in Int
      BY <2>1, <2>2
    <2>4. QED
      BY <2>1, <2>2, <2>3 DEF OpAdvance, LineDelta
  <1>3. QED
    BY <1>1, <1>2 DEF Advances, Deltas

\* A sequence begins with the default registers.
LEMMA FollowsBegins ==
  ASSUME NEW h \in Header, NEW p \in Seq(Operation), NEW b \in 0 .. Len(p)
  PROVE  Follows(h, p, b, b, Defaults(h))
  <1> DEFINE r == Defaults(h)
             n == Len(p)
  <1>1. n \in Nat /\ Advances(h, p) \in [1 .. n -> Int] /\ Deltas(h, p) \in [1 .. n -> Int] /\ b \in Int
    BY AmountsTyped
  <1>2. r.addr = 0 /\ r.opIndex = 0 /\ r.line = 1 /\ r.epilogue = FALSE
    BY DEF Defaults
  <1> HIDE DEF r, n
  <1>3. SumFunctionOnSet(Advances(h, p), b + 1 .. b) = 0 /\ SumFunctionOnSet(Deltas(h, p), b + 1 .. b) = 0
    BY <1>1, SumNone
  <1>4. \A x, ops : IsLast(p, b, b, ops, 0)
    BY DEF IsLast
  <1>5. FollowsLine(h, p, b, b, r) /\ FollowsFile(h, p, b, b, r)
    BY <1>2, <1>3, <1>4 DEF FollowsLine, FollowsFile, r
  <1>6. \E m : Addressed(h, p, b, b, m)
    <2> DEFINE m == [j \in 0 .. b |-> 0]
    <2>1. \A q : \A j \in 0 .. b : AddressStep(h, p, b, q, j) = 0
      BY DEF AddressStep
    <2>2. Addressed(h, p, b, b, m)
      BY <2>1 DEF Addressed
    <2>3. QED
      BY <2>2
  <1>7. AnchorOf(b, 0) = b /\ Counted(h, p, b, 0, b) = 0
    BY <1>3 DEF AnchorOf, Counted
  <1>8. Bundle(h) \in Nat \ {0} /\ 0 \div Bundle(h) = 0 /\ h.minInst * 0 = 0 /\ 0 % W = 0
        /\ (h.maxOps >= 2 => 0 % h.maxOps = 0)
    BY BundleIs, WAssumption DEF Header
  <1>9. ASSUME NEW m, Addressed(h, p, b, b, m) PROVE AddressMeant(h, p, b, 0, b, r, m)
    <2>1. m[b] = 0
      BY <1>9 DEF Addressed, AddressStep
    <2>2. QED
      BY <1>2, <1>7, <1>8, <2>1 DEF AddressMeant
  <1>10. FollowsAddress(h, p, b, b, r)
    BY <1>2, <1>4, <1>6, <1>7, <1>8, <1>9 DEF FollowsAddress
  <1>11. QED
    BY <1>2, <1>5, <1>10 DEF Follows, r

\* The registers x are those after operation o in registers r, but for the context.
LEMMA LineFollows ==
  ASSUME NEW h \in Header, NEW p \in Seq(Operation), NEW k \in Nat, k < Len(p), NEW b \in 0 .. k,
         NEW r \in Moved, FollowsLine(h, p, b, k, r),
         NEW x, x.line = r.line + LineDelta(h, p[k + 1])
  PROVE  FollowsLine(h, p, b, k + 1, x)
  <1> DEFINE n == Len(p)
             f == Deltas(h, p)
  <1>1. n \in Nat /\ k < n /\ f \in [1 .. n -> Int] /\ k + 1 \in 1 .. n /\ b \in Nat /\ b <= k
    BY AmountsTyped
  <1>2. f[k + 1] = LineDelta(h, p[k + 1]) /\ f[k + 1] \in Int
    BY <1>1, AmountsTyped
  <1> HIDE DEF n, f
  <1>3. /\ SumFunctionOnSet(f, b + 1 .. k) \in Int
        /\ SumFunctionOnSet(f, b + 1 .. k + 1) = SumFunctionOnSet(f, b + 1 .. k) + f[k + 1]
    BY <1>1, SumGrows, ZenonT(60)
  <1>4. r.line = 1 + SumFunctionOnSet(f, b + 1 .. k)
    BY DEF FollowsLine, f
  <1>5. x.line = 1 + SumFunctionOnSet(f, b + 1 .. k + 1)
    BY <1>2, <1>3, <1>4
  <1>6. QED
    BY <1>5 DEF FollowsLine, f

\* The file register goes on following the program.
LEMMA FileFollows ==
  ASSUME NEW h \in Header, NEW p, NEW k \in Nat, NEW b \in 0 .. k, NEW r, FollowsFile(h, p, b, k, r),
         NEW x, x.file = IF p[k + 1].op = "set_file" THEN p[k + 1].n ELSE r.file
  PROVE  FollowsFile(h, p, b, k + 1, x)
  <1>1. PICK f : /\ IsLast(p, b, k, {"set_file"}, f)
                 /\ r.file = IF f = 0 THEN Defaults(h).file ELSE p[f].n
    BY DEF FollowsFile
  <1> DEFINE g == IF p[k + 1].op \in {"set_file"} THEN k + 1 ELSE f
  <1>2. IsLast(p, b, k + 1, {"set_file"}, g)
    BY <1>1, LastGoesOn
  <1>3. x.file = IF g = 0 THEN Defaults(h).file ELSE p[g].n
    BY <1>1
  <1>4. QED
    BY <1>2, <1>3 DEF FollowsFile

\* The address that is u instructions of size i after x.
ReachedAt(x, i, u) == (x + i * u) % W

\* One gets there in one go or in two.
LEMMA ReachedTwice ==
  ASSUME NEW x \in Int, NEW i \in Nat, NEW u \in Int, NEW e \in Int
  PROVE  ReachedAt(ReachedAt(x, i, u), i, e) = ReachedAt(x, i, u + e)
  <1>1. i * (u + e) = i * u + i * e /\ i * u \in Int /\ i * e \in Int
    OBVIOUS
  <1>2. x + i * (u + e) = (x + i * u) + i * e /\ x + i * u \in Int
    BY <1>1
  <1>3. (((x + i * u) % W) + i * e) % W = ((x + i * u) + i * e) % W
    BY <1>1, <1>2, DividedTwice, WAssumption
  <1>4. QED
    BY <1>2, <1>3 DEF ReachedAt

\* And so does the address register.
LEMMA AddressFollows ==
  ASSUME NEW h \in Header, NEW p \in Seq(Operation), NEW k \in Nat, k < Len(p), NEW b,
         StartsAt(p, k + 1, b), NEW r \in Moved, FollowsAddress(h, p, b, k, r),
         h.maxOps >= 2 => p[k + 1].op # "advance_pc",
         NEW x, x.addr = Plainly(h, r, p[k + 1]).addr, x.opIndex = Plainly(h, r, p[k + 1]).opIndex
  PROVE  FollowsAddress(h, p, b, k + 1, x)
  <1> DEFINE o == p[k + 1]
             n == Len(p)
             f == Advances(h, p)
             B == Bundle(h)
  <1>1. b \in 0 .. k /\ SequenceStart(p, k + 1) = b
    <2>1. b \in 0 .. k
      BY DEF StartsAt
    <2>2. k + 1 \in Nat
      OBVIOUS
    <2>3. QED
      BY <2>1, <2>2, StartIs
  <1>2. /\ k + 1 \in 1 .. n /\ n \in Nat /\ k < n
        /\ o \in Operation /\ o.n \in Int /\ (o.op = "set_address" => o.n \in 0 .. W - 1)
    BY OperationIn
  <1>3. h.minInst \in Nat /\ h.maxOps \in Nat /\ B \in Nat \ {0} /\ B = IF h.maxOps < 2 THEN 1 ELSE h.maxOps
    BY BundleIs DEF Header
  <1>4. f \in [1 .. n -> Int] /\ f[k + 1] = OpAdvance(h, o) /\ f[k + 1] \in Int
    BY <1>2, AmountsTyped
  <1>5. PICK a : /\ IsLast(p, b, k, Anchors, a)
                 /\ \A m : Addressed(h, p, b, k, m) => AddressMeant(h, p, b, a, k, r, m)
                 /\ h.maxOps >= 2 => r.opIndex = Counted(h, p, b, a, k) % h.maxOps
    BY DEF FollowsAddress
  <1>6. PICK l : Addressed(h, p, b, k, l)
    BY DEF FollowsAddress
  <1> DEFINE z == AnchorOf(b, a)
             s == Counted(h, p, b, a, k)
             d == OpAdvance(h, o)
             i == h.minInst
             a2 == IF o.op \in Anchors THEN k + 1 ELSE a
  <1>7. z \in 0 .. k /\ a \in Nat
    BY <1>1, <1>5 DEF IsLast, AnchorOf
  <1>8. IsLast(p, b, k + 1, Anchors, a2)
    BY <1>1, <1>5, LastGoesOn
  <1>9. \E m : Addressed(h, p, b, k + 1, m)
    BY <1>6, CountsOn
  <1>10. s \in Int /\ Counted(h, p, b, a, k + 1) = s + d
    <2>1. s = SumFunctionOnSet(f, z + 1 .. k) /\ Counted(h, p, b, a, k + 1) = SumFunctionOnSet(f, z + 1 .. k + 1)
      BY DEF Counted
    <2> HIDE DEF f, z, s, n, o
    <2>2. /\ SumFunctionOnSet(f, z + 1 .. k) \in Int
          /\ SumFunctionOnSet(f, z + 1 .. k + 1) = SumFunctionOnSet(f, z + 1 .. k) + f[k + 1]
      <3>1. n \in Nat /\ k < n /\ f \in [1 .. n -> Int] /\ z \in Nat /\ z <= k
        BY <1>2, <1>4, <1>7
      <3>2. QED
        BY <3>1, SumGrows
    <2>3. QED
      BY <1>4, <2>1, <2>2
  <1>11. Counted(h, p, b, k + 1, k + 1) = 0 /\ AnchorOf(b, k + 1) = k + 1
    <2>1. AnchorOf(b, k + 1) = k + 1
      BY DEF AnchorOf
    <2>2. Counted(h, p, b, k + 1, k + 1) = SumFunctionOnSet(f, (k + 1) + 1 .. k + 1)
      BY <2>1 DEF Counted
    <2> HIDE DEF f, n
    <2>3. k + 1 \in Int
      OBVIOUS
    <2>4. SumFunctionOnSet(f, (k + 1) + 1 .. k + 1) = 0
      BY <1>2, <1>4, <2>3, SumNone
    <2>5. QED
      BY <2>1, <2>2, <2>4
  <1>12. AnchorAt(p, b, k + 1) = AnchorOf(b, a2)
    <2>1. k + 1 \in Nat /\ b \in 0 .. k + 1
      BY <1>1
    <2> HIDE DEF a2
    <2>2. QED
      BY <1>1, <1>8, <2>1, AnchorIs DEF AnchorOf
  <1>13. 0 \div B = 0 /\ i * 0 = 0 /\ (h.maxOps >= 2 => 0 % h.maxOps = 0)
    BY <1>3
  <1>14. ASSUME NEW m, Addressed(h, p, b, k + 1, m)
         PROVE  AddressMeant(h, p, b, a, k, r, m) /\ m[k + 1] = AddressStep(h, p, b, m, k + 1)
    <2> DEFINE q == [j \in 0 .. k |-> m[j]]
    <2>1. Addressed(h, p, b, k, q) /\ m[k + 1] = AddressStep(h, p, b, m, k + 1)
      BY <1>14, CountsBefore
    <2>2. AddressMeant(h, p, b, a, k, r, q)
      BY <1>5, <2>1
    <2>3. q[AnchorOf(b, a)] = m[AnchorOf(b, a)] /\ q[k] = m[k]
      BY <1>7
    <2> HIDE DEF q
    <2>4. QED
      BY <2>1, <2>2, <2>3 DEF AddressMeant
  <1>15. s \div B \in Int
    BY <1>3, <1>10, QuotientAndRest
  <1>16. \A m : AddressMeant(h, p, b, a, k, r, m) =>
            /\ m[z] \in Int /\ m[k] = m[z] + i * (s \div B) /\ m[k] \in Int /\ r.addr = m[k] % W
    <2>1. i * (s \div B) \in Int
      BY <1>3, <1>15
    <2>2. QED
      BY <2>1 DEF AddressMeant
  <1>17. r.addr \in 0 .. W - 1
    BY <1>5, <1>6, <1>16, QuotientAndRest, WAssumption
  <1> HIDE DEF z, s, d, i, a2, B
  <1>18. CASE o.op = "set_address"
    <2>1. a2 = k + 1 /\ x.addr = o.n /\ x.opIndex = 0
      BY <1>18 DEF a2, Anchors, Plainly, SetRegister, Moved
    <2>2. ASSUME NEW m, Addressed(h, p, b, k + 1, m) PROVE AddressMeant(h, p, b, k + 1, k + 1, x, m)
      <3>1. m[k + 1] = o.n
        BY <1>1, <1>14, <1>18, <2>2 DEF AddressStep
      <3>2. o.n % W = o.n
        BY <1>2, <1>18, WAssumption
      <3>3. QED
        BY <1>2, <1>11, <1>13, <2>1, <3>1, <3>2 DEF AddressMeant, B, i
    <2>3. QED
      BY <1>8, <1>9, <1>11, <1>13, <2>1, <2>2 DEF FollowsAddress
  <1>19. CASE o.op = "fixed_advance_pc"
    <2>1. a2 = k + 1 /\ x.addr = (r.addr + o.n) % W /\ x.opIndex = 0
      BY <1>19 DEF a2, Anchors, Plainly, SetRegister, Moved
    <2>2. ASSUME NEW m, Addressed(h, p, b, k + 1, m) PROVE AddressMeant(h, p, b, k + 1, k + 1, x, m)
      <3>1. m[k] \in Int /\ r.addr = m[k] % W
        BY <1>14, <1>16, <2>2
      <3>2. m[k + 1] = m[k] + o.n
        BY <1>1, <1>14, <1>19, <2>2 DEF AddressStep
      <3>3. ((m[k] % W) + o.n) % W = (m[k] + o.n) % W
        BY <1>2, <3>1, DividedTwice, WAssumption
      <3>4. QED
        BY <1>2, <1>11, <1>13, <2>1, <3>1, <3>2, <3>3 DEF AddressMeant, B, i
    <2>3. QED
      BY <1>8, <1>9, <1>11, <1>13, <2>1, <2>2 DEF FollowsAddress
  <1>20. CASE o.op \notin Anchors
    <2>1. a2 = a
      BY <1>20 DEF a2
    <2>2. d \in Int
      BY <1>4 DEF d
    <2>3. \E e \in Int : /\ x.addr = (r.addr + i * e) % W
                         /\ (s \div B) + e = (s + d) \div B
      <3>1. CASE h.maxOps < 2
        <4>1. x.addr = (r.addr + i * d) % W
          BY <1>2, <1>17, <1>20, <3>1, AddressEffect DEF d, i
        <4>2. (s \div B) + d = (s + d) \div B
          BY <1>3, <1>10, <2>2, <3>1
        <4>3. QED
          BY <2>2, <4>1, <4>2
      <3>2. CASE ~ (h.maxOps < 2)
        <4>1. B = h.maxOps /\ h.maxOps \in Nat \ {0} /\ h.maxOps >= 2
          BY <1>3, <3>2
        <4>2. r.opIndex = s % B /\ s % B \in 0 .. B - 1
          BY <1>3, <1>5, <1>10, <4>1, QuotientAndRest DEF s
        <4>3. x.addr = (r.addr + i * ((r.opIndex + d) \div B)) % W
          BY <1>2, <1>17, <1>20, <4>1, <4>2, AddressEffect DEF d, i
        <4>4. (s \div B) + (((s % B) + d) \div B) = (s + d) \div B
          BY <1>3, <1>10, <2>2, DividedTwice
        <4>5. ((s % B) + d) \div B \in Int
          <5>1. (s % B) + d \in Int
            BY <2>2, <4>2
          <5>2. QED
            BY <1>3, <5>1, QuotientAndRest
        <4>6. QED
          BY <4>2, <4>3, <4>4, <4>5
      <3>3. QED
        BY <3>1, <3>2
    <2>4. h.maxOps >= 2 => x.opIndex = Counted(h, p, b, a, k + 1) % h.maxOps
      <3>1. SUFFICES ASSUME h.maxOps >= 2 PROVE x.opIndex = (s + d) % h.maxOps
        BY <1>10
      <3>2. B = h.maxOps /\ h.maxOps \in Nat \ {0}
        BY <1>3, <3>1
      <3>3. r.opIndex = s % B /\ s % B \in 0 .. B - 1
        BY <1>3, <1>5, <1>10, <3>1, <3>2, QuotientAndRest DEF s
      <3>4. x.opIndex = (r.opIndex + d) % B
        BY <1>2, <1>17, <1>20, <3>1, <3>2, <3>3, AddressEffect DEF d
      <3>5. ((s % B) + d) % B = (s + d) % B
        BY <1>3, <1>10, <2>2, DividedTwice
      <3>6. QED
        BY <3>2, <3>3, <3>4, <3>5
    <2>5. ASSUME NEW m, Addressed(h, p, b, k + 1, m) PROVE AddressMeant(h, p, b, a, k + 1, x, m)
      <3>1. m[z] \in Int /\ m[k] = m[z] + i * (s \div B) /\ r.addr = m[k] % W
        BY <1>14, <1>16, <2>5
      <3>2. m[k + 1] = m[z] + i * ((s + d) \div B)
        <4>1. AnchorAt(p, b, k + 1) = z
          BY <1>12, <2>1 DEF z
        <4>2. SumFunctionOnSet(Advances(h, p), z + 1 .. k + 1) = s + d
          BY <1>10 DEF Counted, z
        <4>3. o.op # "set_address" /\ o.op # "fixed_advance_pc"
          BY <1>20 DEF Anchors
        <4>4. ~ (k + 1 <= b)
          BY <1>1
        <4>5. m[k + 1] = m[AnchorAt(p, b, k + 1)]
                 + h.minInst * (SumFunctionOnSet(Advances(h, p), AnchorAt(p, b, k + 1) + 1 .. k + 1) \div Bundle(h))
          BY <1>14, <2>5, <4>3, <4>4 DEF AddressStep
        <4>6. QED
          BY <4>1, <4>2, <4>5 DEF B, i
      <3>3. PICK e \in Int : x.addr = (r.addr + i * e) % W /\ (s \div B) + e = (s + d) \div B
        BY <2>3
      <3>4. i \in Nat
        BY <1>3 DEF i
      <3>5. (r.addr + i * e) % W = (m[z] + i * ((s + d) \div B)) % W
        <4>1. PICK v \in Int : v = m[z]
          BY <3>1
        <4>2. PICK u \in Int : u = s \div B
          BY <1>15
        <4>3. r.addr = ReachedAt(v, i, u) /\ u + e = (s + d) \div B
          BY <3>1, <3>3, <4>1, <4>2 DEF ReachedAt
        <4>4. ReachedAt(ReachedAt(v, i, u), i, e) = ReachedAt(v, i, u + e)
          BY <3>4, ReachedTwice, ZenonT(60)
        <4>5. ReachedAt(r.addr, i, e) = ReachedAt(m[z], i, (s + d) \div B)
          BY <4>1, <4>3, <4>4
        <4>6. QED
          BY <4>5 DEF ReachedAt
      <3>6. x.addr = m[k + 1] % W
        BY <3>2, <3>3, <3>5
      <3>7. QED
        BY <1>10, <3>1, <3>2, <3>6 DEF AddressMeant, z, B, i
    <2>6. QED
      BY <1>8, <1>9, <2>1, <2>4, <2>5 DEF FollowsAddress
  <1>21. QED
    BY <1>18, <1>19, <1>20 DEF Anchors

\* After operation k the registers are r.
Means(h, p, k, r) == \E b : StartsAt(p, k + 1, b) /\ Follows(h, p, b, k, r)

\* The row that one gets with the registers x.
RowWith(p, k, x) == [addr |-> x.addr, end |-> p[k].op = "end_sequence", file |-> x.file, line |-> x.line]

\* x has the registers that follow r, whatever its context.
AfterOp(h, r, o, x) ==
  LET y == Plainly(h, r, o)
  IN /\ x.addr = y.addr /\ x.opIndex = y.opIndex /\ x.file = y.file /\ x.line = y.line
     /\ x.epilogue = FALSE

\* Such an operation leaves the flag alone, and counts in operations.
PlainOp(h, o) ==
  /\ o.op # "set_epilogue_begin" /\ o.op # "pop_context"
  /\ h.maxOps > 1 => o.op # "advance_pc"

\* The default registers are those that no operation has changed.
LEMMA MeansBegins ==
  ASSUME NEW h \in Header, NEW p \in Seq(Operation)
  PROVE  Means(h, p, 0, Defaults(h))
  <1>1. StartsAt(p, 0 + 1, 0)
    BY DEF StartsAt
  <1>2. Follows(h, p, 0, 0, Defaults(h))
    BY FollowsBegins
  <1>3. QED
    BY <1>1, <1>2 DEF Means

\* The registers follow one operation.
LEMMA OperationFollows ==
  ASSUME NEW h \in Header, NEW p \in Seq(Operation), NEW k \in Nat, k < Len(p), NEW b,
         StartsAt(p, k + 1, b), NEW r \in Moved, Follows(h, p, b, k, r), PlainOp(h, p[k + 1]),
         NEW x, AfterOp(h, r, p[k + 1], x)
  PROVE  Follows(h, p, b, k + 1, x)
  <1>1. b \in 0 .. k
    BY DEF StartsAt
  <1>2. k + 1 \in 1 .. Len(p) /\ p[k + 1] \in Operation
    BY OperationIn
  <1>3. /\ x.line = r.line + LineDelta(h, p[k + 1])
        /\ x.file = IF p[k + 1].op = "set_file" THEN p[k + 1].n ELSE r.file
    BY <1>2, LineEffect DEF AfterOp
  <1>4. FollowsLine(h, p, b, k + 1, x)
    BY <1>1, <1>3, LineFollows DEF Follows
  <1>5. FollowsFile(h, p, b, k + 1, x)
    BY <1>1, <1>3, FileFollows DEF Follows
  <1>6. h.maxOps >= 2 => p[k + 1].op # "advance_pc"
    BY DEF PlainOp, Header
  <1>7. x.addr = Plainly(h, r, p[k + 1]).addr /\ x.opIndex = Plainly(h, r, p[k + 1]).opIndex
    BY DEF AfterOp
  <1>8. FollowsAddress(h, p, b, k + 1, x)
    BY <1>6, <1>7, AddressFollows DEF Follows
  <1>9. QED
    BY <1>4, <1>5, <1>8 DEF Follows, AfterOp

\* The row of an operation has what the registers have.
LEMMA RowMeant ==
  ASSUME NEW h, NEW p, NEW k \in Nat, NEW b, StartsAt(p, k, b), NEW x, Follows(h, p, b, k, x)
  PROVE  MeantRow(h, p, k) = RowWith(p, k, x)
  <1>1. SequenceStart(p, k) = b /\ b \in Nat
    BY StartIs DEF StartsAt
  <1>2. MeantLine(h, p, k) = x.line
    BY <1>1 DEF MeantLine, Follows, FollowsLine, Deltas
  <1>3. MeantFile(h, p, k) = x.file
    <2>1. PICK f : /\ IsLast(p, b, k, {"set_file"}, f)
                   /\ x.file = IF f = 0 THEN Defaults(h).file ELSE p[f].n
      BY DEF Follows, FollowsFile
    <2>2. LastOf(p, k, {"set_file"}) = f
      BY <1>1, <2>1, LastIs
    <2>3. QED
      BY <2>1, <2>2 DEF MeantFile
  <1>4. MeantAddress(h, p, k) = x.addr
    <2> DEFINE m == CHOOSE l : Addressed(h, p, b, k, l)
    <2>1. Addressed(h, p, b, k, m)
      BY DEF Follows, FollowsAddress
    <2>2. MeantAddress(h, p, k) = m[k] % W
      BY <1>1, MeantAddressIs
    <2> HIDE DEF m
    <2>3. x.addr = m[k] % W
      BY <2>1 DEF Follows, FollowsAddress, AddressMeant
    <2>4. QED
      BY <2>2, <2>3
  <1>5. QED
    BY <1>2, <1>3, <1>4 DEF MeantRow, RowWith

\* One operation further.
LEMMA MeansOn ==
  ASSUME NEW h \in Header, NEW p \in Seq(Operation), NEW k \in Nat, k < Len(p),
         NEW r \in Moved, Means(h, p, k, r), PlainOp(h, p[k + 1]), NEW x, AfterOp(h, r, p[k + 1], x)
  PROVE  /\ MeantRow(h, p, k + 1) = RowWith(p, k + 1, x)
         /\ Means(h, p, k + 1, IF p[k + 1].op = "end_sequence" THEN Defaults(h) ELSE x)
  <1>1. PICK b : StartsAt(p, k + 1, b) /\ Follows(h, p, b, k, r)
    BY DEF Means
  <1>2. Follows(h, p, b, k + 1, x)
    BY <1>1, OperationFollows
  <1>3. MeantRow(h, p, k + 1) = RowWith(p, k + 1, x)
    BY <1>1, <1>2, RowMeant
  <1>4. (k + 1) + 1 = k + 2 /\ k + 1 \in 0 .. Len(p)
    OBVIOUS
  <1>5. CASE p[k + 1].op = "end_sequence"
    <2>1. StartsAt(p, (k + 1) + 1, k + 1)
      BY <1>1, <1>4, <1>5, StartGoesOn
    <2>2. Follows(h, p, k + 1, k + 1, Defaults(h))
      BY <1>4, FollowsBegins
    <2>3. QED
      BY <1>3, <1>5, <2>1, <2>2 DEF Means
  <1>6. CASE p[k + 1].op # "end_sequence"
    <2>1. StartsAt(p, (k + 1) + 1, b)
      BY <1>1, <1>4, <1>6, StartGoesOn
    <2>2. QED
      BY <1>2, <1>3, <1>6, <2>1 DEF Means
  <1>7. QED
    BY <1>5, <1>6

-----------------------------------------------------------------------------
(* The rows in their order.                                                *)

\* The operations up to k that emit a row.
EmittingTo(p, k) == {j \in Emitting(p) : j <= k}

\* They are finitely many, and one more emits a row or not.
LEMMA RowsCounted ==
  ASSUME NEW p \in Seq(Operation), NEW k \in 0 .. Len(p)
  PROVE  /\ IsFiniteSet(EmittingTo(p, k)) /\ Cardinality(EmittingTo(p, k)) \in Nat
         /\ EmittingTo(p, 0) = {} /\ EmittingTo(p, Len(p)) = Emitting(p)
         /\ k < Len(p) => Cardinality(EmittingTo(p, k + 1)) =
              IF Emits(p[k + 1]) THEN Cardinality(EmittingTo(p, k)) + 1 ELSE Cardinality(EmittingTo(p, k))
  <1>1. DOMAIN p = 1 .. Len(p) /\ Len(p) \in Nat
    OBVIOUS
  <1>2. IsFiniteSet(EmittingTo(p, k)) /\ Cardinality(EmittingTo(p, k)) \in Nat
    <2>1. IsFiniteSet(1 .. Len(p))
      BY <1>1, FS_Interval
    <2>2. EmittingTo(p, k) \in SUBSET (1 .. Len(p))
      BY <1>1 DEF EmittingTo, Emitting
    <2>3. QED
      BY <2>1, <2>2, FS_Subset, FS_CardinalityType
  <1>3. EmittingTo(p, 0) = {} /\ EmittingTo(p, Len(p)) = Emitting(p)
    BY <1>1 DEF EmittingTo, Emitting
  <1>4. ASSUME k < Len(p), Emits(p[k + 1])
        PROVE  Cardinality(EmittingTo(p, k + 1)) = Cardinality(EmittingTo(p, k)) + 1
    <2>1. EmittingTo(p, k + 1) = EmittingTo(p, k) \cup {k + 1} /\ k + 1 \notin EmittingTo(p, k)
      BY <1>1, <1>4 DEF EmittingTo, Emitting
    <2>2. QED
      BY <1>2, <2>1, FS_AddElement
  <1>5. ASSUME k < Len(p), ~ Emits(p[k + 1])
        PROVE  EmittingTo(p, k + 1) = EmittingTo(p, k)
    BY <1>1, <1>5 DEF EmittingTo, Emitting
  <1>6. QED
    BY <1>2, <1>3, <1>4, <1>5

\* A row's number leads back to its operation.
LEMMA OpOfRowIs ==
  ASSUME NEW p \in Seq(Operation), NEW k \in Emitting(p)
  PROVE  OpOfRow(p, Cardinality(EmittingTo(p, k))) = k
  <1>1. \A j \in Emitting(p) : j \in 0 .. Len(p) /\ j \in Int
    BY DEF Emitting
  <1>2. ASSUME NEW i \in Emitting(p), NEW j \in Emitting(p), i < j
        PROVE  Cardinality(EmittingTo(p, i)) # Cardinality(EmittingTo(p, j))
    <2>1. EmittingTo(p, i) \in SUBSET EmittingTo(p, j) /\ j \in EmittingTo(p, j) /\ j \notin EmittingTo(p, i)
      BY <1>1, <1>2 DEF EmittingTo
    <2>2. IsFiniteSet(EmittingTo(p, j))
      BY <1>1, RowsCounted
    <2>3. EmittingTo(p, i) # EmittingTo(p, j)
      BY <2>1
    <2>4. QED
      BY <2>1, <2>2, <2>3, FS_Subset
  <1>3. \A j \in Emitting(p) :
          Cardinality(EmittingTo(p, j)) = Cardinality(EmittingTo(p, k)) => j = k
    <2>1. \A j \in Emitting(p) : j = k \/ j < k \/ k < j
      BY <1>1
    <2>2. QED
      BY <1>2, <2>1
  <1> DEFINE n == Cardinality(EmittingTo(p, k))
  <1>4. OpOfRow(p, n) = CHOOSE j \in Emitting(p) : Cardinality(EmittingTo(p, j)) = n
    BY DEF OpOfRow, EmittingTo
  <1>5. QED
    BY <1>3, <1>4

-----------------------------------------------------------------------------
(* The reader reads what the program means.                                *)

\* Where no operation has been read yet.
BeforeProgram == {"open", "offset", "header", "directories", "formats", "files", "subprogs", "start"}

\* While a program is read, its registers and the rows so far are those of the
\* operations before; and so are, in the end, the rows of the table.
RowsInv ==
  /\ mode \in BeforeProgram => at = 1 /\ regs = Defaults(src.header) /\ chain = <<>>
  /\ (mode = "program" /\ PlainProgram) =>
       /\ at - 1 \in 0 .. Len(src.progs[1])
       /\ Means(src.header, src.progs[1], at - 1, regs)
       /\ Len(chain) = Cardinality(EmittingTo(src.progs[1], at - 1))
       /\ \A r \in 1 .. Len(chain) :
            chain[r].row = MeantRow(src.header, src.progs[1], OpOfRow(src.progs[1], r))
  /\ (mode \in {"read", "table"} /\ PlainProgram) => ctx.logicals = MeantRows

\* The program of such a table, and its operations.
LEMMA PlainTable ==
  ASSUME ReaderTyped, PlainProgram
  PROVE  /\ src.header \in Header /\ src.progs[1] \in Seq(Operation)
         /\ \A k \in 1 .. Len(src.progs[1]) : PlainOp(src.header, src.progs[1][k])
         /\ (mode = "program" => ~ Actuals /\ Program = src.progs[1])
  <1>1. src.header \in Header /\ src.form # "two_level" /\ src.progs[1] \in Seq(Operation)
    BY DEF ReaderTyped, IsSource, PlainProgram
  <1>2. ASSUME NEW k \in 1 .. Len(src.progs[1]) PROVE PlainOp(src.header, src.progs[1][k])
    <2>1. k \in DOMAIN src.progs[1]
      BY <1>1
    <2>2. QED
      BY <2>1 DEF PlainProgram, Uses, PlainOp
  <1>3. mode = "program" => ~ Actuals
    BY <1>1 DEF ReaderTyped, Reading
  <1>4. QED
    BY <1>1, <1>2, <1>3 DEF Program

\* What is executed is what such an operation does to the registers.
LEMMA ExecutedAfter ==
  ASSUME ReaderTyped, PlainProgram, AtOp, Means(src.header, src.progs[1], at - 1, regs),
         NEW x, x \in {Executed, [Executed EXCEPT !.epilogue = FALSE]}
  PROVE  AfterOp(src.header, regs, src.progs[1][at], x) /\ x.epilogue = Executed.epilogue
  <1>1. /\ mode = "program" /\ ~ Actuals /\ Op = src.progs[1][at] /\ Executed \in Moved
        /\ PlainOp(src.header, Op) /\ src.header \in Header /\ regs \in Moved /\ Op \in Operation
    <2>1. mode = "program" /\ ~ Actuals /\ Program = src.progs[1]
      BY PlainTable DEF AtOp
    <2>2. at \in 1 .. Len(src.progs[1])
      BY <2>1 DEF AtOp, ReaderTyped
    <2>3. Registers \subseteq Moved
      BY DEF Registers, Moved
    <2>4. QED
      BY <2>1, <2>2, <2>3, PlainTable, ExecutedTyped, OpTyped DEF Op, ReaderTyped
  <1> DEFINE y == Plainly(src.header, regs, Op)
  <1>2. /\ Executed.addr = y.addr /\ Executed.opIndex = y.opIndex /\ Executed.file = y.file
        /\ Executed.line = y.line /\ Executed.epilogue = y.epilogue
    <2>1. CASE Op.op = "inlined_call"
      <3>1. y = regs
        BY <2>1 DEF Plainly, SetRegister
      <3>2. Executed = [regs EXCEPT !.context = Len(chain) + Op.n]
        BY <2>1 DEF Executed
      <3>3. QED
        BY <1>1, <3>1, <3>2 DEF Moved
    <2>2. CASE Op.op # "inlined_call"
      <3>1. Executed = y
        BY <1>1, <2>2 DEF Executed, Plainly, PlainOp
      <3>2. QED
        BY <3>1
    <2>3. QED
      BY <2>1, <2>2
  <1>3. regs.epilogue = FALSE
    BY DEF Means, Follows
  <1>4. y.epilogue = regs.epilogue
    BY <1>1, LineEffect DEF PlainOp
  <1> HIDE DEF y
  <1>5. Executed.epilogue = FALSE
    BY <1>2, <1>3, <1>4
  <1>6. /\ x.addr = y.addr /\ x.opIndex = y.opIndex /\ x.file = y.file /\ x.line = y.line
        /\ x.epilogue = FALSE
    <2>1. CASE x = Executed
      BY <1>2, <1>5, <2>1
    <2>2. CASE x = [Executed EXCEPT !.epilogue = FALSE]
      BY <1>1, <1>2, <2>2 DEF Moved
    <2>3. QED
      BY <2>1, <2>2
  <1>7. QED
    BY <1>1, <1>5, <1>6 DEF AfterOp, y

\* The row that is added is the one that the operation means.
LEMMA RowAdded ==
  ASSUME ReaderTyped, RowsInv, PlainProgram, AtOp
  PROVE  /\ at - 1 \in Nat /\ at - 1 < Len(src.progs[1]) /\ (at - 1) + 1 = at /\ (at + 1) - 1 = at
         /\ Op = src.progs[1][at]
         /\ Emits(Op) => MeantRow(src.header, src.progs[1], at) = RowOf(Op, Executed)
         /\ ~ Emits(Op) => Means(src.header, src.progs[1], at, Executed)
         /\ Emits(Op) => Means(src.header, src.progs[1], at, AfterRow(src.header, Op, Executed))
  <1> DEFINE p == src.progs[1]
             h == src.header
             k == at - 1
  <1>1. /\ mode = "program" /\ Op = p[at] /\ h \in Header /\ p \in Seq(Operation) /\ regs \in Moved
        /\ at \in 1 .. Len(p) /\ PlainOp(h, p[at])
    <2>1. mode = "program" /\ ~ Actuals /\ Program = src.progs[1]
      BY PlainTable DEF AtOp
    <2>2. at \in 1 .. Len(src.progs[1])
      BY <2>1 DEF AtOp, ReaderTyped
    <2>3. Registers \subseteq Moved
      BY DEF Registers, Moved
    <2>4. QED
      BY <2>1, <2>2, <2>3, PlainTable DEF Op, ReaderTyped
  <1>2. k \in Nat /\ k < Len(p) /\ k + 1 = at /\ (at + 1) - 1 = at
    BY <1>1
  <1>3. Means(h, p, k, regs)
    BY <1>1 DEF RowsInv
  <1> DEFINE plain == [Executed EXCEPT !.epilogue = FALSE]
  <1>4. /\ AfterOp(h, regs, p[at], Executed) /\ AfterOp(h, regs, p[at], plain)
        /\ Executed.epilogue = FALSE
    <2>1. \A x \in {Executed, plain} : AfterOp(h, regs, p[at], x) /\ x.epilogue = Executed.epilogue
      BY <1>3, ExecutedAfter
    <2>2. QED
      BY <2>1 DEF AfterOp
  <1> HIDE DEF p, h, k, plain
  <1>5. ASSUME NEW x, AfterOp(h, regs, p[at], x)
        PROVE  /\ MeantRow(h, p, at) = RowWith(p, at, x)
               /\ Means(h, p, at, IF p[at].op = "end_sequence" THEN Defaults(h) ELSE x)
    BY <1>1, <1>2, <1>3, <1>5, MeansOn
  <1>6. Emits(Op) => RowOf(Op, Executed) = RowWith(p, at, Executed)
    <2>1. ASSUME Emits(Op) PROVE EndFlag(Op, Executed) = (Op.op = "end_sequence")
      <3>1. CASE Op.op = "special"
        BY <1>4, <3>1 DEF EndFlag
      <3>2. CASE Op.op = "copy"
        BY <3>2 DEF EndFlag
      <3>3. CASE Op.op = "end_sequence"
        BY <3>3 DEF EndFlag
      <3>4. QED
        BY <2>1, <3>1, <3>2, <3>3 DEF Emits
    <2>2. QED
      BY <1>1, <2>1 DEF RowOf, RowWith
  <1>7. ~ Emits(Op) => Means(h, p, at, Executed)
    BY <1>1, <1>4, <1>5 DEF Emits
  <1>8. AfterRow(h, Op, Executed) = IF p[at].op = "end_sequence" THEN Defaults(h) ELSE plain
    BY <1>1 DEF AfterRow, plain
  <1>9. Means(h, p, at, AfterRow(h, Op, Executed))
    BY <1>4, <1>5, <1>8
  <1>10. QED
    BY <1>1, <1>2, <1>4, <1>5, <1>6, <1>7, <1>9 DEF p, h, k

\* The unit's line table has not been read when its address space is entered.
LEMMA RowsBegin ==
  ASSUME ReaderInit, src.header \in Header
  PROVE  RowsInv
  BY DEF ReaderInit, RowsInv, BeforeProgram

\* The rows of a table that is given up, or of which a part is read, do not count.
LEMMA RowsAbandoned ==
  ASSUME mode' \in {"none", "closed", "crashed"}
  PROVE  RowsInv'
  BY DEF RowsInv, BeforeProgram

\* Nothing of the header is a row.
LEMMA RowsOfHeader ==
  ASSUME ReaderTyped, RowsInv,
         \/ NoTable \/ FindTable \/ OffsetBad \/ OffsetGood
         \/ ReadParameters \/ ReadDirectories \/ ReadFileFormats
         \/ ReadFile \/ FilesEnd \/ ReadSubprograms
  PROVE  RowsInv'
  <1>1. /\ UNCHANGED <<src, at, regs, chain>> /\ mode \in BeforeProgram
        /\ mode' \notin {"program", "read", "table"}
    BY DEF NoTable, FindTable, OffsetBad, OffsetGood, ReadParameters, ReadDirectories,
           ReadFileFormats, ReadFile, FilesEnd, ReadSubprograms, OutsideProgram, BeforeProgram
  <1>2. QED
    BY <1>1 DEF RowsInv

\* The program begins with the default registers and without rows.
LEMMA RowsOfProgram ==
  ASSUME ReaderTyped, RowsInv, HeaderEnds
  PROVE  RowsInv'
  <1>1. /\ mode' = "program" /\ UNCHANGED <<src, at, regs, chain, ctx>>
        /\ at = 1 /\ regs = Defaults(src.header) /\ chain = <<>>
    BY DEF HeaderEnds, OutsideProgram, RowsInv, BeforeProgram
  <1>2. ASSUME PlainProgram
        PROVE  /\ at - 1 = 0 /\ 0 \in 0 .. Len(src.progs[1])
               /\ Means(src.header, src.progs[1], 0, regs)
               /\ Cardinality(EmittingTo(src.progs[1], 0)) = 0
    <2>1. src.header \in Header /\ src.progs[1] \in Seq(Operation)
      BY <1>2, PlainTable
    <2>2. 0 \in 0 .. Len(src.progs[1])
      BY <2>1
    <2>3. QED
      BY <1>1, <2>1, <2>2, MeansBegins, RowsCounted, FS_EmptySet
  <1>3. PlainProgram' = PlainProgram
    BY <1>1 DEF PlainProgram, Uses
  <1>4. Len(chain) = 0
    BY <1>1
  <1>5. QED
    BY <1>1, <1>2, <1>3, <1>4 DEF RowsInv, BeforeProgram

\* An operation that adds no row.
LEMMA RowsExecute ==
  ASSUME ReaderTyped, RowsInv, Execute \/ DefineFile
  PROVE  RowsInv'
  <1>1. /\ mode = "program" /\ mode' = "program" /\ at' = at + 1 /\ AtOp /\ ~ Emits(Op)
        /\ UNCHANGED <<src, chain>> /\ regs' \in {regs, Executed} /\ (Execute => regs' = Executed)
        /\ (DefineFile => Op.op = "define_file" /\ regs' = regs)
    BY DEF Execute, DefineFile, AtOp, Emits
  <1>2. PlainProgram' = PlainProgram
    BY <1>1 DEF PlainProgram, Uses
  <1>3. ASSUME PlainProgram
        PROVE  /\ at' - 1 \in 0 .. Len(src.progs[1])
               /\ Means(src.header, src.progs[1], at' - 1, regs')
               /\ Len(chain) = Cardinality(EmittingTo(src.progs[1], at' - 1))
    <2>1. /\ at - 1 \in Nat /\ at - 1 < Len(src.progs[1]) /\ (at - 1) + 1 = at /\ at' - 1 = at
          /\ Op = src.progs[1][at]
          /\ Means(src.header, src.progs[1], at, Executed)
      BY <1>1, <1>3, RowAdded
    <2>2. regs' = Executed
      <3>1. ASSUME DefineFile PROVE Executed = regs
        BY <1>1, <3>1 DEF Executed, SetRegister
      <3>2. QED
        BY <1>1, <3>1
    <2>3. src.progs[1] \in Seq(Operation) /\ Len(src.progs[1]) \in Nat
      BY <1>3, PlainTable
    <2>4. Len(chain) = Cardinality(EmittingTo(src.progs[1], at - 1))
      BY <1>1, <1>3 DEF RowsInv
    <2>5. Cardinality(EmittingTo(src.progs[1], at)) = Cardinality(EmittingTo(src.progs[1], at - 1))
      <3>1. at - 1 \in 0 .. Len(src.progs[1])
        BY <2>1, <2>3
      <3>2. QED
        BY <1>1, <2>1, <2>3, <3>1, RowsCounted
    <2>6. QED
      BY <2>1, <2>2, <2>3, <2>4, <2>5
  <1>4. (\A r \in 1 .. Len(chain) :
           chain[r].row = MeantRow(src.header, src.progs[1], OpOfRow(src.progs[1], r)))'
          = \A r \in 1 .. Len(chain) :
              chain[r].row = MeantRow(src.header, src.progs[1], OpOfRow(src.progs[1], r))
    BY <1>1
  <1>5. QED
    BY <1>1, <1>2, <1>3, <1>4 DEF RowsInv, BeforeProgram

\* An operation that adds one.
LEMMA RowsGrow ==
  ASSUME ReaderTyped, RowsInv, AddRow
  PROVE  RowsInv'
  <1> DEFINE p == src.progs[1]
             h == src.header
             link == [row |-> RowOf(Op, Executed), context |-> Executed.context]
  <1>1. /\ mode = "program" /\ mode' = "program" /\ at' = at + 1 /\ AtOp /\ Emits(Op)
        /\ UNCHANGED src /\ regs' = AfterRow(h, Op, Executed) /\ chain' = Append(chain, link)
    BY DEF AddRow, AtOp
  <1>2. PlainProgram' = PlainProgram
    BY <1>1 DEF PlainProgram, Uses
  <1>3. ASSUME PlainProgram
        PROVE  /\ at' - 1 \in 0 .. Len(p) /\ Means(h, p, at' - 1, regs')
               /\ Len(chain') = Cardinality(EmittingTo(p, at' - 1))
               /\ \A r \in 1 .. Len(chain') : chain'[r].row = MeantRow(h, p, OpOfRow(p, r))
    <2>1. /\ at - 1 \in Nat /\ at - 1 < Len(p) /\ (at - 1) + 1 = at /\ at' - 1 = at /\ Op = p[at]
          /\ MeantRow(h, p, at) = RowOf(Op, Executed) /\ Means(h, p, at, regs')
      BY <1>1, <1>3, RowAdded
    <2>2. p \in Seq(Operation) /\ Len(p) \in Nat /\ DOMAIN p = 1 .. Len(p)
      BY <1>3, PlainTable
    <2>3. /\ Len(chain) = Cardinality(EmittingTo(p, at - 1))
          /\ \A r \in 1 .. Len(chain) : chain[r].row = MeantRow(h, p, OpOfRow(p, r))
      BY <1>1, <1>3 DEF RowsInv
    <2>4. Cardinality(EmittingTo(p, at)) = Len(chain) + 1
      <3>1. at - 1 \in 0 .. Len(p)
        BY <2>1, <2>2
      <3>2. QED
        BY <1>1, <2>1, <2>2, <2>3, <3>1, RowsCounted
    <2>5. OpOfRow(p, Len(chain) + 1) = at
      <3>1. at \in Emitting(p)
        BY <1>1, <2>1, <2>2 DEF Emitting
      <3>2. QED
        BY <2>2, <2>4, <3>1, OpOfRowIs
    <2>6. chain \in Seq(Link)
      BY DEF ReaderTyped
    <2> HIDE DEF p, h, link
    <2>7. /\ Len(chain) \in Nat /\ Len(chain') = Len(chain) + 1 /\ chain'[Len(chain) + 1] = link
          /\ \A r \in 1 .. Len(chain) : chain'[r] = chain[r]
      BY <1>1, <2>6
    <2>8. link.row = RowOf(Op, Executed)
      BY DEF link
    <2>9. ASSUME NEW r \in 1 .. Len(chain') PROVE chain'[r].row = MeantRow(h, p, OpOfRow(p, r))
      <3>1. CASE r = Len(chain) + 1
        BY <2>1, <2>5, <2>7, <2>8, <3>1
      <3>2. CASE r # Len(chain) + 1
        <4>1. r \in 1 .. Len(chain)
          BY <2>7, <3>2
        <4>2. QED
          BY <2>3, <2>7, <4>1
      <3>3. QED
        BY <3>1, <3>2
    <2>10. at \in 0 .. Len(p)
      BY <2>1, <2>2
    <2>11. QED
      BY <2>1, <2>4, <2>7, <2>9, <2>10
  <1>4. QED
    BY <1>1, <1>2, <1>3 DEF RowsInv, BeforeProgram

\* The rows are delivered when all operations are read.
LEMMA RowsDelivered ==
  ASSUME ReaderTyped, RowsInv, Deliver
  PROVE  RowsInv'
  <1> DEFINE p == src.progs[1]
             h == src.header
             delivered == [r \in DOMAIN chain |-> chain[r].row]
  <1>1. /\ mode = "program" /\ at > Len(Program) /\ UNCHANGED src
        /\ mode' = IF src.form = "two_level" /\ ~Actuals THEN "program" ELSE "read"
        /\ ctx' = IF Actuals THEN [ctx EXCEPT !.actuals = delivered, !.lists = 2]
                             ELSE [ctx EXCEPT !.logicals = delivered, !.lists = 1]
    BY DEF Deliver
  <1>2. PlainProgram' = PlainProgram
    BY <1>1 DEF PlainProgram, Uses
  <1>3. ASSUME PlainProgram PROVE mode' = "read" /\ ctx'.logicals = MeantRows'
    <2>1. ~ Actuals /\ Program = p /\ p \in Seq(Operation) /\ Len(p) \in Nat /\ src.form # "two_level"
      BY <1>1, <1>3, PlainTable DEF PlainProgram
    <2>2. /\ at - 1 \in 0 .. Len(p) /\ Len(chain) = Cardinality(EmittingTo(p, at - 1))
          /\ \A r \in 1 .. Len(chain) : chain[r].row = MeantRow(h, p, OpOfRow(p, r))
      BY <1>1, <1>3 DEF RowsInv
    <2>3. at - 1 = Len(p)
      BY <1>1, <2>1, <2>2 DEF ReaderTyped
    <2>4. Len(chain) = Cardinality(Emitting(p))
      BY <2>1, <2>2, <2>3, RowsCounted
    <2>5. DOMAIN chain = 1 .. Len(chain)
      BY DEF ReaderTyped
    <2>6. delivered = MeantRows
      BY <2>2, <2>4, <2>5 DEF MeantRows
    <2>7. MeantRows' = MeantRows
      BY <1>1 DEF MeantRows
    <2>8. "logicals" \in DOMAIN ctx
      BY DEF ReaderTyped, Fresh
    <2>9. QED
      BY <1>1, <2>1, <2>6, <2>7, <2>8
  <1>4. QED
    BY <1>1, <1>2, <1>3 DEF RowsInv, BeforeProgram

\* Every step of the reader.
LEMMA RowsKeep ==
  ASSUME ReaderTyped, RowsInv, ReaderNext
  PROVE  RowsInv'
  <1>1. ASSUME HeaderBad \/ OpBad \/ AddRowFails \/ AddEntryFails \/ DefineFileBad \/ BlockFails \/ Reject
        PROVE  mode' \in {"none", "closed", "crashed"}
    BY <1>1 DEF HeaderBad, OpBad, AddRowFails, AddEntryFails, DefineFileBad, BlockFails, Reject, Abandon
  <1>2. ASSUME Accept PROVE RowsInv'
    <2>1. mode = "read" /\ mode' = "table" /\ UNCHANGED <<src, ctx>>
      BY <1>2 DEF Accept, OutsideProgram
    <2>2. PlainProgram' = PlainProgram /\ MeantRows' = MeantRows
      BY <2>1 DEF PlainProgram, Uses, MeantRows
    <2>3. QED
      BY <2>1, <2>2 DEF RowsInv, BeforeProgram
  <1>3. QED
    BY <1>1, <1>2, RowsAbandoned, RowsOfHeader, RowsOfProgram, RowsExecute, RowsGrow, RowsDelivered
       DEF ReaderNext

\* And every step of the lookup.
LEMMA RowsHold == LookupSpec => []RowsInv
  <1>1. LookupInit => RowsInv
    <2>1. LookupInit => ReaderInit /\ IsSource(src)
      BY UnitsAssumption DEF LookupInit
    <2>2. QED
      BY <2>1, RowsBegin DEF IsSource
  <1>2. IInv /\ RowsInv /\ [LookupNext]_allVars => RowsInv'
    <2> SUFFICES ASSUME IInv, RowsInv, [LookupNext]_allVars PROVE RowsInv'
      OBVIOUS
    <2>1. CASE ReadTable
      BY <2>1, RowsKeep DEF IInv, ReadTable
    <2>2. CASE CleanUp
      <3>1. mode' = "closed"
        BY <2>2 DEF CleanUp, Close
      <3>2. QED
        BY <3>1, RowsAbandoned
    <2>3. CASE UNCHANGED readerVars
      BY <2>3 DEF readerVars, RowsInv, PlainProgram, Uses, MeantRows
    <2>4. (LookupNext /\ ~ReadTable /\ ~CleanUp) \/ UNCHANGED allVars => UNCHANGED readerVars
      BY DEF LookupNext, Ask, SearchRows, ReadFileList, TurnDown, NoSrcFile, WalkBegins, WalkStep,
             Answered, Stopped, allVars, readerVars
    <2>5. QED
      BY <2>1, <2>2, <2>3, <2>4
  <1>3. QED
    BY <1>1, <1>2, Inductive, PTL DEF LookupSpec

\* The rows of every table that is kept are those that DWARF means by its
\* program, in their order, whatever the program does and however it ends.
THEOREM RowsCorrect == LookupSpec => []RowsAsMeant
  <1>1. RowsInv => RowsAsMeant
    BY DEF RowsInv, RowsAsMeant
  <1>2. QED
    BY <1>1, RowsHold, PTL

-----------------------------------------------------------------------------
(* The answers.                                                            *)

\* The row hit, at its file and line, when there is one that has the address.
HitHas == hit \in 1 .. Len(rows) /\ FirstBracket(rows, hit, ptr)

\* What it offers: the number of its file in the list, and its line.
HitUsable == rows[hit].file + FilenoOffs >= 0 /\ rows[hit].line # 0

\* The rows searched are those that were read, the list is the one that the
\* header names, and where a search has led is what the row says.
AnswerInv ==
  /\ rows = IF mode = "table" THEN ctx.logicals ELSE <<>>
  /\ list \in {Unread, 0, src.files}
  /\ pc = "failed" => c <= Len(rows)
  /\ pc \in {"walk", "no_src_file"} => HitHas /\ HitUsable /\ list > 0
  /\ pc = "walk" => rows[hit].file + FilenoOffs <= list
  /\ pc = "no_src_file" => rows[hit].file + FilenoOffs > list
  /\ pc = "turned_down" =>
       \/ HitHas /\ (~ HitUsable \/ list = 0)
       \/ hit = 0 /\ (c <= Len(rows) \/ \A r \in 1 .. Len(rows) : ~ Brackets(rows, r, ptr))

\* Before an address is asked for, only the rows and the list count.
LEMMA AnswerIdle ==
  ASSUME pc' \in {"idle", "loop", "hit", "miss"}, list' \in {Unread, 0, src.files}, UNCHANGED src,
         rows' = IF mode' = "table" THEN ctx'.logicals ELSE <<>>
  PROVE  AnswerInv'
  BY DEF AnswerInv

\* Reading the lines, and the clean-up.
LEMMA AnswerRead ==
  ASSUME IInv, AnswerInv, ReadTable \/ CleanUp
  PROVE  AnswerInv'
  <1>1. CASE ReadTable
    <2>1. /\ ReaderNext /\ UNCHANGED <<pc, list>>
          /\ rows' = IF mode' = "table" THEN ctx.logicals ELSE <<>>
      BY <1>1 DEF ReadTable, walkVars
    <2>2. UNCHANGED src /\ mode \notin {"none", "table"} /\ (mode' = "table" => UNCHANGED ctx)
      BY <2>1 DEF ReaderNext, NoTable, FindTable, OffsetBad, OffsetGood, HeaderBad, ReadParameters,
                  ReadDirectories, ReadFileFormats, ReadFile, FilesEnd, ReadSubprograms, HeaderEnds,
                  Execute, OpBad, AddRow, AddRowFails, AddEntryFails, DefineFile, DefineFileBad,
                  BlockFails, Deliver, Accept, Reject, AtOp, Abandon, OutsideProgram
    <2>3. pc = "idle"
      BY <2>2 DEF IInv, SearchInv, SearchTyped
    <2>4. QED
      BY <2>1, <2>2, <2>3, AnswerIdle DEF AnswerInv
  <1>2. CASE CleanUp
    <2>1. mode' = "closed" /\ rows' = <<>> /\ list' = Unread /\ pc' = "idle" /\ UNCHANGED src
      BY <1>2 DEF CleanUp, Close, OutsideProgram
    <2>2. QED
      BY <2>1, AnswerIdle
  <1>3. QED
    BY <1>1, <1>2

\* The search, and what follows it.
LEMMA AnswerSearch ==
  ASSUME IInv, AnswerInv, UNCHANGED readerVars,
         \/ \E p \in Ptrs : Ask(p)
         \/ SearchRows \/ ReadFileList \/ TurnDown \/ NoSrcFile \/ WalkBegins \/ Answered
         \/ UNCHANGED lookupVars /\ UNCHANGED list
  PROVE  AnswerInv'
  <1>1. /\ UNCHANGED <<src, mode, ctx>> /\ FilenoOffs' = FilenoOffs
        /\ list \in {Unread, 0, src.files}
        /\ rows = IF mode = "table" THEN ctx.logicals ELSE <<>>
    BY DEF readerVars, FilenoOffs, AnswerInv
  <1>2. CASE (\E p \in Ptrs : Ask(p)) \/ Answered
    <2>1. UNCHANGED <<rows, list>> /\ pc' \in {"loop", "idle"}
      BY <1>2 DEF Ask, Answered
    <2>2. QED
      BY <1>1, <2>1, AnswerIdle
  <1>3. CASE SearchRows
    <2>1. UNCHANGED <<rows, list>>
      BY <1>3 DEF SearchRows, Skip, Hit, Exhaust, ReadFails
    <2>2. pc' \in {"loop", "hit", "miss"} \/ (ReadFails /\ pc' = "failed" /\ c' = c /\ c <= Len(rows))
      BY <1>3 DEF SearchRows, Skip, Hit, Exhaust, ReadFails
    <2>3. CASE pc' \in {"loop", "hit", "miss"}
      BY <1>1, <2>1, <2>3, AnswerIdle
    <2>4. CASE pc' = "failed" /\ c' = c /\ c <= Len(rows)
      BY <1>1, <2>1, <2>4 DEF AnswerInv
    <2>5. QED
      BY <2>2, <2>3, <2>4
  <1>4. CASE ReadFileList
    <2>1. UNCHANGED rows /\ pc' = "hit" /\ list' \in {0, src.files}
      BY <1>4 DEF ReadFileList, RowUsable, lookupVars
    <2>2. QED
      BY <1>1, <2>1, AnswerIdle
  <1>5. CASE TurnDown \/ NoSrcFile \/ WalkBegins
    <2>1. UNCHANGED <<rows, ptr, c, hit, list>>
      BY <1>5 DEF TurnDown, NoSrcFile, WalkBegins
    <2>2. pc = "hit" => HitHas /\ RowIndex = rows[hit].file + FilenoOffs /\ (RowUsable <=> HitUsable)
      BY DEF IInv, SearchInv, SearchTyped, Found, HitIsFirstBracket, HitHas, RowIndex, RowUsable, HitUsable
    <2>3. HitHas' = HitHas /\ HitUsable' = HitUsable
      BY <1>1, <2>1 DEF HitHas, HitUsable, FirstBracket, Brackets
    <2>4. CASE TurnDown
      <3>1. pc \in {"hit", "miss", "failed"} /\ (~ RowUsable \/ list = 0) /\ pc' = "turned_down"
        BY <2>4 DEF TurnDown
      <3>2. pc \in {"miss", "failed"} =>
              hit = 0 /\ (c <= Len(rows) \/ \A r \in 1 .. Len(rows) : ~ Brackets(rows, r, ptr))
        BY DEF IInv, SearchInv, SearchTyped, Found, MissMeansNoBracket, AnswerInv
      <3>3. \/ HitHas /\ (~ HitUsable \/ list = 0)
            \/ hit = 0 /\ (c <= Len(rows) \/ \A r \in 1 .. Len(rows) : ~ Brackets(rows, r, ptr))
        BY <2>2, <3>1, <3>2
      <3>4. QED
        BY <1>1, <2>1, <2>3, <3>1, <3>3 DEF AnswerInv, Brackets
    <2>5. CASE NoSrcFile \/ WalkBegins
      <3>1. /\ pc = "hit" /\ RowUsable /\ list > 0
            /\ \/ pc' = "no_src_file" /\ RowIndex > list
               \/ pc' = "walk" /\ RowIndex <= list
        BY <2>5 DEF NoSrcFile, WalkBegins, RowUsable
      <3>2. QED
        BY <1>1, <2>1, <2>2, <2>3, <3>1 DEF AnswerInv
    <2>6. QED
      BY <1>5, <2>4, <2>5
  <1>6. CASE UNCHANGED lookupVars /\ UNCHANGED list
    <2>1. UNCHANGED <<rows, ptr, c, hit, pc, list>>
      BY <1>6 DEF lookupVars
    <2>2. HitHas' = HitHas /\ HitUsable' = HitUsable
      BY <1>1, <2>1 DEF HitHas, HitUsable, FirstBracket, Brackets
    <2>3. QED
      BY <1>1, <2>1, <2>2 DEF AnswerInv, Brackets
  <1>7. QED
    BY <1>2, <1>3, <1>4, <1>5, <1>6

\* So it is in every state of the lookup.
LEMMA AnswerHolds == LookupSpec => []AnswerInv
  <1>1. LookupInit => AnswerInv
    BY DEF LookupInit, ReaderInit, NoLookup, AnswerInv
  <1>2. IInv /\ AnswerInv /\ [LookupNext]_allVars => AnswerInv'
    <2> SUFFICES ASSUME IInv, AnswerInv, [LookupNext]_allVars PROVE AnswerInv'
      OBVIOUS
    <2>1. CASE ReadTable \/ CleanUp
      BY <2>1, AnswerRead
    <2>2. CASE (LookupNext /\ ~ ReadTable /\ ~ CleanUp) \/ UNCHANGED allVars
      <3>1. UNCHANGED readerVars
        BY <2>2 DEF LookupNext, Ask, SearchRows, ReadFileList, TurnDown, NoSrcFile, WalkBegins, WalkStep,
             Answered, Stopped, allVars, readerVars
      <3>2. (WalkStep \/ Stopped \/ UNCHANGED allVars) => UNCHANGED lookupVars /\ UNCHANGED list
        BY DEF WalkStep, Stopped, allVars
      <3>3. QED
        BY <2>2, <3>1, <3>2, AnswerSearch DEF LookupNext
    <2>3. QED
      BY <2>1, <2>2
  <1>3. QED
    BY <1>1, <1>2, Inductive, PTL DEF LookupSpec

\* Both ways to say which row has an address agree.
LEMMA SameRowFor == ASSUME NEW t, NEW p PROVE Info!RowFor(t, p) = RowFor(t, p)
  BY DEF Info!RowFor, RowFor, Info!FirstBracket, FirstBracket, Info!Brackets, Brackets

\* The row that a search has found is the row for the address.
LEMMA RowForIs ==
  ASSUME NEW t, Len(t) \in Nat, NEW p, NEW r \in 1 .. Len(t), FirstBracket(t, r, p)
  PROVE  RowFor(t, p) = r
  <1>1. \E q \in 1 .. Len(t) : Brackets(t, q, p)
    BY DEF FirstBracket
  <1>2. \A q \in 1 .. Len(t) : FirstBracket(t, q, p) => q = r
    BY FirstBracketUnique
  <1>3. (CHOOSE q \in 1 .. Len(t) : FirstBracket(t, q, p)) = r
    BY <1>2
  <1>4. QED
    BY <1>1, <1>3 DEF RowFor

=============================================================================
