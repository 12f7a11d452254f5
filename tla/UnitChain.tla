------------------------------ MODULE UnitChain ------------------------------
(***************************************************************************)
(* The units of .debug_info as libdwarf keeps them                         *)
(* (libdwarf/dwarf_die_deliv.c): a list of contexts that grows whenever a  *)
(* unit is reached that has none, be it by dwarf_next_cu_header_d(), which *)
(* goes from unit to unit, or by dwarf_offdie_b(), which is given an       *)
(* offset anywhere.  A new context is complete once the unit's DIE has     *)
(* been read with it, through the same abbreviations that later calls use, *)
(* and the bases have been taken from its attributes; what is asked of a   *)
(* DIE later may depend on them (DieAttributes).                           *)
(*                                                                         *)
(* Offsets are counted in DIEs, the unit's header taking HeaderSize.  Any  *)
(* allocation may fail.                                                    *)
(***************************************************************************)
EXTENDS AbbrevTable, DieAttributes

CONSTANTS
  HeaderSize,  \* the size of a unit's header
  Sections,    \* the contents that .debug_info may have
  MaxRoom,     \* bound: more allocations than a lookup makes, one for each
               \* abbreviation and one for the table
  MaxCalls,    \* bound: how many calls are made
  Asked(_)     \* bound: what DIEs of a unit are asked for

(***************************************************************************)
(* A section is a sequence of units, each at the end of the one before,    *)
(* with slack bytes behind them.  A unit's DIEs are given by their codes,  *)
(* 0 being a null entry, and the values of their attributes; its header is *)
(* of length zero, unreadable or good; it may give an offset into          *)
(* .debug_abbrev that is not to be used, and a length that leaves out the  *)
(* last bytes of its values (cut).  No code has two abbreviations, and no  *)
(* DW_FORM_indirect leads to a constant of the abbreviation, which DWARF   *)
(* forbids.  refs are the contents of the sections that values refer to.   *)
(***************************************************************************)
SpecsOf(u, code) ==
  FlattenSeq([q \in DOMAIN u.abbrevs |-> IF u.abbrevs[q].code = code THEN u.abbrevs[q].attrs ELSE <<>>])

IsUnit(u) ==
  /\ u.header \in {"good", "zero", "bad"} /\ u.version \in {4, 5}
  /\ u.damage \in {"none", "abbrev_offset"}
  /\ u.at \in Nat
  /\ u.dies \in Seq(0 .. Base - 1) /\ DOMAIN u.values = DOMAIN u.dies
  /\ \A j \in DOMAIN u.dies :
       LET specs == SpecsOf(u, u.dies[j])
       IN /\ u.values[j] \in Seq(Range(u.values[j])) /\ Len(u.values[j]) = Len(specs)
          /\ \A k \in DOMAIN specs :
               /\ CanBeWritten(u.values[j][k])
               /\ specs[k].form # "indirect" => u.values[j][k].form = specs[k].form
               /\ specs[k].form = "indirect" => u.values[j][k].form # "implicit_const"
               /\ specs[k].at # "other" => \A i \in 1 .. k - 1 : specs[i].at # specs[k].at
  /\ u.cut \in 0 .. (IF u.dies = <<>> THEN 0 ELSE Len(WrittenAll(SpecsOf(u, Last(u.dies)), Last(u.values))))
  /\ u.abbrevs \in Seq(Abbreviation) /\ Len(u.abbrevs) < MaxRoom
  /\ \A j \in DOMAIN u.abbrevs :
       \A k \in 1 .. j - 1 : u.abbrevs[k].code # u.abbrevs[j].code

SizeOf(u) == HeaderSize + Len(u.dies)

\* Where the k-th of a sequence of units starts, or the bytes behind them.
StartOf(us, k) == IF k = 1 THEN 0 ELSE us[k - 1].at + SizeOf(us[k - 1])

ASSUME SectionsAssumption ==
  /\ HeaderSize \in Nat \ {0} /\ MaxRoom \in Nat /\ MaxCalls \in Nat
  /\ \A s \in Sections :
       /\ s.slack \in Nat /\ IsRefs(s.refs) /\ s.units \in Seq(Range(s.units))
       /\ \A k \in DOMAIN s.units :
            /\ IsUnit(s.units[k]) /\ s.units[k].at = StartOf(s.units, k)
            /\ s.units[k].cut # 0 => k = Len(s.units)

VARIABLES
  section,     \* the input
  list,        \* de_cu_context_list: the contexts, each [start, table, last, bases]
  current,     \* de_cu_context: the start of its unit, or None
  lastOffset,  \* de_last_offset
  fresh,       \* the context that is being made, or NoContext
  upc,         \* where the call is
  call,        \* the call, and the start of the unit it has come to
  answer,      \* what it returned
  fault,       \* history: an allocation has failed in this call
  wants,       \* the section that the call waits for, or "none"
  got,         \* how the sections that it needed were loaded
  seen,        \* history: how many units in turn dwarf_next_cu_header_d() gave
  calls        \* history: how many calls were made

contextVars == <<list, current, lastOffset, fresh>>
needVars == <<wants, got>>
unitVars == <<section, contextVars, upc, call, answer, fault, needVars, seen, calls>>

None == -1
NoContext == [start |-> None, table |-> NewTable, last |-> 1, bases |-> NoBases]
NothingGot == [n \in {"addr", "str", "str_offsets"} |-> "none"]
NoCall == [op |-> "none", offset |-> 0, unit |-> None, query |-> "none"]
NoAnswer == [result |-> "none", entry |-> 0, value |-> <<>>]
ContextAt(o) == [NoContext EXCEPT !.start = o]

SectionSize == StartOf(section.units, Len(section.units) + 1) + section.slack

IsStart(o) == \E k \in DOMAIN section.units : section.units[k].at = o
UnitAt(o) == section.units[CHOOSE k \in DOMAIN section.units : section.units[k].at = o]

EndOf(start) == start + SizeOf(UnitAt(start))
CodeAt(start, o) == UnitAt(start).dies[o - start - HeaderSize + 1]

\* No room for the header of a unit at o, with a byte behind it.
NoRoom(o) == o + HeaderSize >= SectionSize

-----------------------------------------------------------------------------

\* A search that takes a unit's end for a part of it.
HoldingAtEnd(o) == {j \in DOMAIN list : list[j].start <= o /\ o <= EndOf(list[j].start)}

\* The contexts of the list whose unit holds o.
Holding(o) == {j \in DOMAIN list : list[j].start <= o /\ o < EndOf(list[j].start)}

\* _dwarf_find_CU_Context(): the index of a context, 0 if there is none.  It
\* looks from the current unit on before it looks at all of them.
Find(o) ==
  LET ahead == {j \in Holding(o) : current # None /\ current <= list[j].start}
  IN IF o >= lastOffset \/ Holding(o) = {} THEN 0
     ELSE IF ahead # {} THEN Min(ahead) ELSE Min(Holding(o))

\* insert_into_cu_context_list(): behind the last, before the first or before
\* the first one after it that starts later.
Inserted(c) ==
  LET later == {j \in DOMAIN list : j > 1 /\ list[j].start > c.start}
  IN IF list = <<>> \/ list[Len(list)].start < c.start THEN Append(list, c)
     ELSE IF list[1].start > c.start THEN <<c>> \o list
     ELSE InsertAt(list, Min(later), c)

IndexOf(start) == CHOOSE j \in DOMAIN list : list[j].start = start

UnitsInit ==
  /\ section \in Sections
  /\ list = <<>> /\ current = None /\ lastOffset = 0 /\ fresh = NoContext
  /\ upc = "idle"
  /\ call = NoCall /\ answer = NoAnswer
  /\ wants = "none" /\ got = NothingGot
  /\ fault = FALSE /\ seen = 0 /\ calls = 0

BeginCall(c) ==
  /\ upc = "idle"
  /\ calls < MaxCalls /\ calls' = calls + 1
  /\ call' = c
  /\ wants' = "none" /\ got' = NothingGot

Begin(op, o, unit) == BeginCall([op |-> op, offset |-> o, unit |-> unit, query |-> "none"]) /\ fault' = FALSE

Answer(result, entry) ==
  /\ answer' = [result |-> result, entry |-> entry, value |-> <<>>]
  /\ upc' = "idle"

-----------------------------------------------------------------------------
(* The calls.                                                              *)

After == IF current = None THEN 0 ELSE EndOf(current)

\* dwarf_next_cu_header_d() at the end of the section, where it starts over.
NextHeaderEnds ==
  /\ Begin("next", After, None)
  /\ NoRoom(After)
  /\ current' = None /\ seen' = 0
  /\ Answer("no_entry", 0)
  /\ UNCHANGED <<section, list, lastOffset, fresh>>

NextHeaderKnown ==
  /\ ~NoRoom(After) /\ Find(After) # 0
  /\ Begin("next", After, list[Find(After)].start)
  /\ current' = list[Find(After)].start /\ seen' = seen + 1
  /\ Answer("ok", 0)
  /\ UNCHANGED <<section, list, lastOffset, fresh>>

NextHeaderNew ==
  /\ Begin("next", After, After)
  /\ ~NoRoom(After) /\ Find(After) = 0
  /\ upc' = "make"
  /\ fresh' = ContextAt(After)
  /\ UNCHANGED <<section, list, current, lastOffset, answer, seen>>

\* dwarf_offdie_b() with an offset in a unit that has a context.
OffDieKnown(o) ==
  /\ Find(o) # 0
  /\ Begin("offdie", o, list[Find(o)].start)
  /\ upc' = "die"
  /\ UNCHANGED <<section, contextVars, answer, seen>>

\* It makes contexts, one after the other, until one holds the offset.
OffDieNew(o) ==
  /\ Find(o) = 0
  /\ LET start == IF list = <<>> THEN 0 ELSE EndOf(list[Len(list)].start)
     IN Begin("offdie", o, start) /\ fresh' = ContextAt(start)
  /\ upc' = "make"
  /\ UNCHANGED <<section, list, current, lastOffset, answer, seen>>

\* dwarf_siblingof_b() without a DIE: the DIE of the current unit.
UnitDie ==
  /\ current # None
  /\ Begin("unit_die", current + HeaderSize, current)
  /\ upc' = "die"
  /\ UNCHANGED <<section, contextVars, answer, seen>>

NoUnitYet ==
  /\ current = None
  /\ Begin("unit_die", 0, None)
  /\ Answer("error", 0)
  /\ UNCHANGED <<section, contextVars, seen>>

-----------------------------------------------------------------------------
(* _dwarf_create_a_new_cu_context_record_on_list()                         *)

new == UnitAt(fresh.start)
codeOfNew == CodeAt(fresh.start, fresh.start + HeaderSize)

\* No context after all: what there is of it is freed.
GiveUp(result) ==
  /\ fresh' = NoContext
  /\ Answer(result, 0)
  /\ UNCHANGED <<section, list, current, lastOffset, call, needVars, seen, calls>>

\* There is no unit, or its header is not to be read.
HeaderFails ==
  /\ upc = "make"
  /\ UNCHANGED fault
  /\ IF NoRoom(fresh.start) THEN GiveUp("error")
     ELSE IF ~IsStart(fresh.start) THEN GiveUp("error") \/ GiveUp("no_entry")
     ELSE /\ new.header # "good"
          /\ GiveUp(IF new.header = "zero" THEN "no_entry" ELSE "error")

HeaderRead ==
  /\ upc = "make"
  /\ ~NoRoom(fresh.start) /\ IsStart(fresh.start) /\ new.header = "good"
  /\ lastOffset' = EndOf(fresh.start)
  /\ upc' = "cu_die"
  /\ UNCHANGED <<section, list, current, fresh, call, answer, fault, needVars, seen, calls>>

\* The context after a lookup, with what it returns.  A lookup lacks memory if
\* with enough of it the result would have been another.
LookedUp(c, code, room) ==
  LET ab == UnitAt(c.start).abbrevs
      r == Lookup(c.table, c.last, ab, code, room)
  IN [context |-> [c EXCEPT !.table = r.table, !.last = r.last],
      result |-> r.result, entry |-> r.entry,
      lacking |-> r # Lookup(c.table, c.last, ab, code, MaxRoom)]

\* The context is put on the list, and the call goes on with its unit or to
\* the next one.
Complete(c) ==
  /\ list' = Inserted(c)
  /\ IF call.op = "next"
       THEN /\ current' = c.start /\ seen' = seen + 1
            /\ Answer("ok", 0)
            /\ fresh' = NoContext /\ UNCHANGED call
       ELSE /\ UNCHANGED <<current, answer, seen>>
            /\ IF call.offset >= EndOf(c.start)
                 THEN /\ upc' = "make"
                      /\ fresh' = ContextAt(EndOf(c.start))
                      /\ call' = [call EXCEPT !.unit = EndOf(c.start)]
                 ELSE upc' = "die" /\ fresh' = NoContext /\ UNCHANGED call
  /\ UNCHANGED <<section, lastOffset, needVars, calls>>

\* The making of the context goes on.
Proceed(c, where) ==
  /\ fresh' = c /\ upc' = where
  /\ UNCHANGED <<section, list, current, lastOffset, call, answer, needVars, seen, calls>>

\* A DIE of a unit, with the abbreviation that it has.
UnitHeaderBytes == 12
DieIn(u, d) ==
  LET values(k) == WrittenAll(SpecsOf(u, u.dies[k]), u.values[k])
      rest == FlattenSeq([k \in 1 .. Len(u.dies) - d |-> <<u.dies[d + k]>> \o values(d + k)])
      bytes == values(d) \o rest
  IN [bytes |-> SubSeq(bytes, 1, Len(bytes) - u.cut),
      behind |-> u.cut + (IF EndOf(u.at) + section.slack = SectionSize THEN section.slack ELSE UnitHeaderBytes),
      specs |-> SpecsOf(u, u.dies[d])]

EnvFor(c) ==
  LET u == UnitAt(c.start)
  IN [start |-> u.at, size |-> SizeOf(u), version |-> u.version,
      bases |-> c.bases, refs |-> section.refs, got |-> got]

\* The call waits for a section, or ends the program.
Interrupted(r) ==
  /\ IF r.res = "wants" THEN wants' = r.v /\ UNCHANGED upc ELSE upc' = "crashed" /\ UNCHANGED wants
  /\ UNCHANGED <<section, current, lastOffset, fresh, call, got, seen, calls>>

\* finish_up_cu_context_from_cudie(): a unit may be empty,
HasNoDie(u) == u.dies = <<>> \/ Head(u.dies) = 0

NoCuDie ==
  /\ upc = "cu_die" /\ new.damage # "abbrev_offset"
  /\ HasNoDie(new) = TRUE
  /\ Complete(fresh) /\ UNCHANGED fault

\* or has a DIE of its own,
CuDie(room) ==
  /\ upc = "cu_die" /\ new.damage # "abbrev_offset"
  /\ ~HasNoDie(new)
  /\ LET r == LookedUp(fresh, codeOfNew, room)
     IN /\ fault' = (fault \/ r.lacking)
        /\ IF r.result = "ok" /\ new.abbrevs[r.entry].unit
             THEN Proceed(r.context, "attrs")
             ELSE GiveUp("error")

\* for whose attributes the abbreviation is looked up again,
CuDieAttrs(room) ==
  /\ upc = "attrs"
  /\ LET r == LookedUp(fresh, codeOfNew, room)
     IN /\ fault' = (fault \/ r.lacking)
        /\ IF r.result = "ok" THEN Proceed(r.context, "bases") ELSE GiveUp("error")

\* and whose attributes tell the bases, with the help of .debug_addr if need be.
BasesFound(r, taken) ==
  \/ r.res = "ok" /\ Complete([fresh EXCEPT !.bases = r.v])
  \/ r.res = "garbage" /\ Complete([fresh EXCEPT !.bases = taken])
  \/ r.res \in {"wants", "crashed"} /\ Interrupted(r) /\ UNCHANGED <<answer, list>>
  \/ r.res \in {"error", "garbage"} /\ GiveUp("error")

CuDieBases ==
  /\ upc = "bases" /\ wants = "none"
  /\ LET die == DieIn(new, 1)
     IN BasesFound(BaseFields(die, EnvFor(fresh), AttrList(die)),
                   Taken(die, EnvFor(fresh), AttrList(die).attrs).v)
  /\ UNCHANGED fault

NoAbbreviations ==
  /\ upc = "cu_die" /\ new.damage = "abbrev_offset"
  /\ GiveUp("error") /\ UNCHANGED fault

\* The context, its hash table, a DIE or a list of attributes cannot be had.
NoMemory ==
  /\ upc \in {"make", "cu_die", "attrs"}
  /\ GiveUp("error") /\ fault' = TRUE

-----------------------------------------------------------------------------

\* The DIE that dwarf_offdie_b() or dwarf_siblingof_b() was asked for.  A unit
\* without DIEs has none, an entry may be null.
NoDieThere == call.offset >= EndOf(call.unit) \/ CodeAt(call.unit, call.offset) = 0

ReadNoDie ==
  /\ upc = "die"
  /\ NoDieThere = TRUE
  /\ Answer("no_entry", 0)
  /\ UNCHANGED <<section, contextVars, call, fault, needVars, seen, calls>>

ReadDie(room) ==
  /\ upc = "die"
  /\ ~NoDieThere
  /\ LET j == IndexOf(call.unit)
         r == LookedUp(list[j], CodeAt(call.unit, call.offset), room)
     IN /\ list' = [list EXCEPT ![j] = r.context]
        /\ fault' = (fault \/ r.lacking)
        /\ IF r.result = "ok" /\ (call.op = "unit_die" => UnitAt(call.unit).abbrevs[r.entry].unit)
             THEN Answer("ok", r.entry)
             ELSE Answer("error", 0)
  /\ UNCHANGED <<section, current, lastOffset, fresh, call, needVars, seen, calls>>

NoDieAllocated ==
  /\ upc = "die"
  /\ Answer("error", 0)
  /\ fault' = TRUE
  /\ UNCHANGED <<section, contextVars, call, needVars, seen, calls>>

-----------------------------------------------------------------------------
(* What the DIE that was handed out is asked for.                          *)

NumberOfDie == call.offset - call.unit - HeaderSize + 1

AnswerWith(result, value) ==
  /\ answer' = [answer EXCEPT !.result = result, !.value = value]
  /\ upc' = "idle"

\* Without its abbreviation there are no attributes; dwarf_die_text() makes
\* nothing of an error.
NotAnswered(query) == AnswerWith(IF query = "name" THEN "no_entry" ELSE "error", <<>>)

Ask(query, room) ==
  /\ upc = "idle" /\ answer.entry # 0
  /\ query \in Asked(UnitAt(call.unit))
  /\ BeginCall([call EXCEPT !.op = "ask", !.query = query])
  /\ UNCHANGED <<section, current, lastOffset, fresh, seen>>
  /\ LET j == IndexOf(call.unit)
         r == LookedUp(list[j], CodeAt(call.unit, call.offset), room)
     IN /\ list' = [list EXCEPT ![j] = r.context]
        /\ fault' = r.lacking
        /\ IF r.result = "ok" THEN upc' = "ask" /\ UNCHANGED answer ELSE NotAnswered(query)

\* The answer, once the sections that it needs have been loaded.
AnswerFound(r) ==
  \/ /\ r.res \in {"wants", "crashed"}
     /\ Interrupted(r) /\ UNCHANGED answer
  \/ /\ \/ r.res = "ok" /\ AnswerWith("ok", r.v)
        \/ r.res = "garbage" /\ AnswerWith("ok", <<None>>)
        \/ r.res = "garbage" /\ AnswerWith("error", <<>>)
        \/ r.res \in {"error", "no_entry"} /\ AnswerWith(r.res, <<>>)
     /\ UNCHANGED <<section, current, lastOffset, fresh, call, needVars, seen, calls>>

Answered ==
  /\ upc = "ask" /\ wants = "none"
  /\ AnswerFound(AnswerTo(call.query, DieIn(UnitAt(call.unit), NumberOfDie), EnvFor(list[IndexOf(call.unit)])))
  /\ UNCHANGED <<list, fault>>

\* dwarf_attr() cannot make an attribute; dwarf_lowpc() and dwarf_highpc_b() go
\* without.
NoAttribute ==
  /\ upc = "ask" /\ got = NothingGot /\ wants = "none" /\ call.query # "pcs"
  /\ NotAnswered(call.query)
  /\ fault' = TRUE
  /\ UNCHANGED <<section, contextVars, call, needVars, seen, calls>>

\* A section has been loaded: with its contents, with others, or not.
SectionLoaded(result) ==
  /\ got' = [got EXCEPT ![wants] = result] /\ wants' = "none"
  /\ fault' = (fault \/ result \in {"error", "garbage"})
  /\ UNCHANGED <<section, contextVars, upc, call, answer, seen, calls>>

\* A reference leads to a DIE, or out of the section.
DieAt(o) ==
  \E k \in DOMAIN section.units : \E d \in DOMAIN section.units[k].dies :
    o = section.units[k].at + HeaderSize + d - 1
Offsets == {o \in 0 .. SectionSize : DieAt(o) \/ o = SectionSize}

UnitsNext ==
  \/ NextHeaderEnds \/ NextHeaderKnown \/ NextHeaderNew
  \/ \E o \in Offsets : OffDieKnown(o) \/ OffDieNew(o)
  \/ UnitDie \/ NoUnitYet
  \/ HeaderFails \/ HeaderRead \/ NoAbbreviations \/ NoCuDie
  \/ \E room \in 0 .. MaxRoom : CuDie(room) \/ CuDieAttrs(room) \/ ReadDie(room)
  \/ CuDieBases
  \/ NoMemory \/ ReadNoDie \/ NoDieAllocated
  \/ \E query \in Queries, room \in 0 .. MaxRoom : Ask(query, room)
  \/ Answered \/ NoAttribute

-----------------------------------------------------------------------------

\* In whatever order units are reached, and whatever fails on the way, the list
\* has the section's units from the first on, each once and in order, and
\* dwarf_next_cu_header_d() gives them one after the other.
UnitsInTurn ==
  /\ \A j \in DOMAIN list : list[j].start = StartOf(section.units, j)
  /\ seen <= Len(list)
  /\ current = IF seen = 0 THEN None ELSE StartOf(section.units, seen)
  /\ \A j \in DOMAIN list : EndOf(list[j].start) <= lastOffset
  /\ upc # "crashed" => ((fresh # NoContext) <=> (upc \in {"make", "cu_die", "attrs", "bases"}))

\* There is no context left, and no call to look back at.
UnitsReset ==
  /\ list' = <<>> /\ current' = None /\ lastOffset' = 0 /\ fresh' = NoContext
  /\ upc' = "idle"
  /\ call' = NoCall /\ answer' = NoAnswer
  /\ wants' = "none" /\ got' = NothingGot
  /\ fault' = FALSE /\ seen' = 0 /\ calls' = 0

\* The abbreviations up to that of the code are intact.
Abbreviated(u, code) ==
  \E q \in DOMAIN u.abbrevs :
    u.abbrevs[q].code = code /\ \A p \in 1 .. q : u.abbrevs[p].damage = "none"

-----------------------------------------------------------------------------
(* The attributes of the d-th DIE of a unit, as they are written.          *)

Specs(u, d) == SpecsOf(u, u.dies[d])
Extent(u, d, k) == Len(WrittenAll(SubSeq(Specs(u, d), 1, k), SubSeq(u.values[d], 1, k)))

\* The k-th value can be come to, and lies in its unit.
Readable(u, d, k) ==
  /\ \A j \in 1 .. k : Specs(u, d)[j].form # "unknown" /\ u.values[d][j].form # "unknown"
  /\ Extent(u, d, k) <= Len(DieIn(u, d).bytes)

PlaceOf(u, d, at) == {k \in DOMAIN Specs(u, d) : Specs(u, d)[k].at = at}
FormsOf(u, d, at) == {u.values[d][k].form : k \in PlaceOf(u, d, at)}

Meant(u, d, at) ==
  UNION {Meaning(Specs(u, d)[k], u.values[d][k], section.refs, u.at, SizeOf(u)) :
           k \in {j \in PlaceOf(u, d, at) : Readable(u, d, j)}}

\* The unit's DIE says where the addresses are, and where the offsets of strings.
BaseOf(u, at) ==
  {u.values[1][k] : k \in PlaceOf(u, 1, at)}
AddrBaseGiven(u) == BaseOf(u, "addr_base") = {Item("sec_offset", <<HeaderLength>>)}
StrBaseGiven(u) ==
  IF section.refs.headless THEN BaseOf(u, "str_offsets_base") = {} /\ u.version = 4
  ELSE \/ BaseOf(u, "str_offsets_base") = {Item("sec_offset", <<HeaderLength>>)}
       \/ BaseOf(u, "str_offsets_base") = {} /\ u.version = 5

\* A unit whose context can be made: among the attributes of its DIE are none
\* of the forms that are given a wrong size, bases are offsets, and its low
\* address is one.  (A last attribute that takes no bytes is refused at the
\* very end of the section.)
Sound(u, wrong) ==
  /\ u.header = "good" /\ u.damage # "abbrev_offset"
  /\ HasNoDie(u)
       \/ LET last == Len(Specs(u, 1))
              forms(at) == FormsOf(u, 1, at)
          IN /\ Abbreviated(u, u.dies[1])
             /\ \A q \in DOMAIN u.abbrevs : u.abbrevs[q].code = u.dies[1] => u.abbrevs[q].unit
             /\ Readable(u, 1, last)
             /\ \A k \in 1 .. last :
                  /\ u.values[1][k].form \notin wrong
                  /\ u.values[1][k].form = "flag_present" =>
                       Extent(u, 1, k) < Len(DieIn(u, 1).bytes) + DieIn(u, 1).behind
             /\ forms("addr_base") \cup forms("str_offsets_base") \subseteq {"sec_offset"}
             /\ forms("low_pc") \subseteq Addresses
             /\ forms("low_pc") \cap (Addresses \ {"addr"}) # {} =>
                  AddrBaseGiven(u) /\ Meant(u, 1, "low_pc") # {}

\* Every section that was needed was there.
NothingMissing == ~fault /\ "no_entry" \notin Range(got)

\* The forms whose size _dwarf_get_size_of_val() does not get right.
WrongSize == {"addrx3", "strx3"}

\* A DIE is read with the abbreviation of its code in its unit, and unless
\* memory has run out in this very call, each that can be reached is: its unit
\* and those before it are sound, and so is what its abbreviation needs.
DiesAsWritten ==
  (upc = "idle" /\ call.op \in {"offdie", "unit_die"} /\ call.unit # None) =>
    LET us == section.units
        k == CHOOSE j \in DOMAIN us : us[j].at <= call.offset /\ call.offset < StartOf(us, j + 1)
        u == us[k]
        code == CodeAt(u.at, call.offset)
    IN IF ~DieAt(call.offset) THEN answer.result # "ok"
       ELSE /\ answer.result = "ok" =>
                 /\ call.unit = u.at
                 /\ code # 0 /\ u.abbrevs[answer.entry].code = code
            /\ (/\ \A j \in 1 .. k : Sound(us[j], WrongSize)
                /\ code # 0 /\ Abbreviated(u, code)
                /\ NothingMissing) => answer.result = "ok"

-----------------------------------------------------------------------------
(* What the answers should be.                                             *)

\* The attributes that a query looks at, and the forms that they may have; of
\* those the code reads some in its own way (see the README).
Looked(query) == IF query = "pcs" THEN {"low_pc", "high_pc"} ELSE {query}
Proper ==
  [low_pc |-> {"addr", "addrx"}, high_pc |-> {"addr"} \cup Constants, name |-> Strings,
   ranges |-> {"sec_offset"}, origin |-> {"ref4", "ref_addr"}, call_file |-> Constants]

\* The end is an address, or an offset from the low one; there may be none.
Ends(u, d, low) ==
  {IF FormsOf(u, d, "high_pc") = {"addr"} THEN high ELSE low + high : high \in Meant(u, d, "high_pc")}

\* A set of one, or empty.
AsWritten(query, u, d) ==
  IF query # "pcs" THEN {<<v>> : v \in Meant(u, d, query)}
  ELSE UNION {{<<low, e>> : e \in IF Ends(u, d, low) = {} THEN {0} ELSE Ends(u, d, low)} :
                low \in Meant(u, d, "low_pc")}

\* The DIE has the attributes in proper forms, with the base that they need,
\* and wherever a value is passed over, of this DIE or its unit's, it has none
\* of the given forms.
WellFormed(query, u, d, wrong) ==
  /\ \A at \in Looked(query) :
       /\ FormsOf(u, d, at) \subseteq Proper[at]
       /\ FormsOf(u, d, at) \cap (Addresses \ {"addr"}) # {} => AddrBaseGiven(u)
       /\ FormsOf(u, d, at) \cap (Strings \ {"string", "strp"}) # {} => StrBaseGiven(u)
  /\ \A k \in DOMAIN u.values[1] : u.values[1][k].form \notin wrong
  /\ \A k \in DOMAIN u.values[d] :
       u.values[d][k].form \in wrong => \E at \in Looked(query) : PlaceOf(u, d, at) = {k}

\* An answer is what the DIE's bytes mean: the value if there is one, which
\* lies in the unit whole, and if memory and sections were there, no other.
AnswersMeant(wrong) ==
  (upc = "idle" /\ call.op = "ask") =>
    LET u == UnitAt(call.unit)
        d == NumberOfDie
        expected == AsWritten(call.query, u, d)
    IN (WellFormed(call.query, u, d, wrong) /\ "garbage" \notin Range(got)) =>
         /\ answer.result = "ok" => answer.value \in expected
         /\ NothingMissing /\ expected # {} => answer.result = "ok"
         /\ \A at \in Looked(call.query) \ {"high_pc"} :
              PlaceOf(u, d, at) = {} /\ NothingMissing /\ Readable(u, d, Len(u.values[d]))
                => answer.result = "no_entry"

\* What dwstOfFileExt() is told of a DIE's attributes is what the file says,
\* whatever forms they and those before them have, unless a value has to be
\* passed over that is given a wrong size.
AttributesAsWritten == AnswersMeant(WrongSize)

\* _dwarf_get_size_of_val() knows the size of every form ("Disaster results
\* from using a bogus value, so generate error"): the same whatever has to be
\* passed over.
AttributesRead == AnswersMeant({})

=============================================================================
