---------------------------- MODULE DieAttributes ----------------------------
(***************************************************************************)
(* How libdwarf reads the attributes of a DIE (libdwarf/dwarf_query.c,     *)
(* dwarf_form.c, and _dwarf_get_size_of_val() in dwarf_util.c).  To come   *)
(* to a value it goes over those before it, by the size that each form is  *)
(* said to have; the value is then read by the function that the caller    *)
(* thinks is right for the form.                                           *)
(*                                                                         *)
(* A DIE is given by its bytes, from the first value to the end of its     *)
(* unit, by the number of bytes that its section has behind that, and by   *)
(* the specs of its abbreviation.  An environment has what else is needed: *)
(* the unit's start, size and version, the bases from its context, the     *)
(* bytes of other sections, and how loading each of them went (got).       *)
(*                                                                         *)
(* A result is "ok" with a value, "error", "no_entry", or "wants" with the *)
(* section that has to be loaded first.  dwstOfFileExt() passes no place   *)
(* for errors: "crashed" if the code looks at one.  "garbage" comes from a *)
(* section that holds something else (SectionTable).                       *)
(***************************************************************************)
EXTENDS DwarfForms

Ok(v) == [res |-> "ok", v |-> v]
Fails(res) == [res |-> res, v |-> 0]
Error == Fails("error")
Wants(n) == [res |-> "wants", v |-> n]

\* A call that goes on with the value of the one before.
Then(r, Goes(_)) == IF r.res = "ok" THEN Goes(r.v) ELSE r

Number(s) == FoldRight(LAMBDA b, n : b + Base * n, s, 0)

\* READ_UNALIGNED_CK: w bytes from p on.
Read(bytes, p, w) ==
  IF p + w - 1 > Len(bytes) THEN Error ELSE Ok(Number(SubSeq(bytes, p, p + w - 1)))

\* _dwarf_check_string_valid(): a string that ends within the bytes.
StringAt(bytes, p) ==
  LET ends == {q \in p .. Len(bytes) : bytes[q] = 0}
  IN IF ends = {} THEN Error ELSE Ok(SubSeq(bytes, p, Min(ends) - 1))

OfVariableLength == {"addrx", "strx", "udata", "sdata", "rnglistx"}
SizeByForm ==
  [addr |-> AddrSize, addrx1 |-> 1, addrx3 |-> 4, strp |-> OffsetSize,
   strx1 |-> 1, strx3 |-> 4, data1 |-> 1, data4 |-> 4,
   implicit_const |-> 0, flag_present |-> 0, none |-> 0,
   ref4 |-> 4, ref_addr |-> OffsetSize, sec_offset |-> OffsetSize]

\* A block whose length byte is not counted.
SizeOfValBlockOnly(die, form, p) ==
  IF form \in DOMAIN SizeByForm THEN Ok(SizeByForm[form])
  ELSE IF form \in OfVariableLength
    THEN IF p > Len(die.bytes) THEN Error ELSE Ok(1)
  ELSE IF form = "string"
    THEN Then(StringAt(die.bytes, p), LAMBDA s : Ok(Len(s) + 1))
  ELSE IF form = "block1" /\ p <= Len(die.bytes) /\ die.bytes[p] <= Len(die.bytes) - p + 1
    THEN Ok(die.bytes[p])
  ELSE Error

\* _dwarf_get_size_of_val()
SizeOfVal(die, form, p) ==
  IF form \in DOMAIN SizeByForm THEN Ok(SizeByForm[form])
  ELSE IF form \in OfVariableLength
    THEN IF p > Len(die.bytes) THEN Error ELSE Ok(1)
  ELSE IF form = "string"
    THEN Then(StringAt(die.bytes, p), LAMBDA s : Ok(Len(s) + 1))
  ELSE IF form = "block1" /\ p <= Len(die.bytes) /\ die.bytes[p] <= Len(die.bytes) - p + 1
    THEN Ok(die.bytes[p] + 1)
  ELSE Error

\* The form that DW_FORM_indirect leads to; "none" if there is no number.
FormAt(die, p) ==
  IF p > Len(die.bytes) THEN "none"
  ELSE IF die.bytes[p] \in DOMAIN FormList THEN FormList[die.bytes[p]] ELSE "unknown"

\* An attribute as it is handed out.
Found(spec, form, p) ==
  [at |-> spec.at, form |-> form, p |-> p,
   const |-> IF spec.form = "implicit_const" THEN spec.const ELSE 0]

-----------------------------------------------------------------------------

\* dwarf_attrlist(): the attributes one by one, with the place p of the next.
\* A value has to begin inside the section, if it has any.
SectionEnd(die) == Len(die.bytes) + die.behind

WithNext(acc, a, size) ==
  IF size.res # "ok" THEN [acc EXCEPT !.res = "error"]
  ELSE [acc EXCEPT !.p = a.p + size.v, !.attrs = Append(@, a)]

ListValue(die, acc, a) ==
  IF a.form # "implicit_const" /\ a.p > SectionEnd(die) THEN [acc EXCEPT !.res = "error"]
  ELSE WithNext(acc, a, SizeOfVal(die, a.form, a.p))

ListUpTo(die, acc, spec) ==
  IF acc.res # "ok" \/ spec.form \notin Forms \/ (spec.form = "indirect" /\ acc.p > SectionEnd(die))
    THEN [acc EXCEPT !.res = "error"]
  ELSE IF spec.form = "indirect"
    THEN ListValue(die, acc, Found(spec, FormAt(die, acc.p), Min({acc.p, Len(die.bytes)}) + 1))
  ELSE ListValue(die, acc, Found(spec, spec.form, acc.p))

AttrList(die) ==
  FoldLeft(LAMBDA acc, spec : ListUpTo(die, acc, spec),
           [res |-> "ok", p |-> 1, attrs |-> <<>>], die.specs)

\* _dwarf_get_value_ptr(), of which dwarf_attr() makes an attribute: over the
\* values before it, each of which has to lie in the unit.
PassOver(die, acc, a, size) ==
  IF size.res # "ok" \/ a.p + size.v - 1 > Len(die.bytes) THEN [acc EXCEPT !.res = "error"]
  ELSE [acc EXCEPT !.p = a.p + size.v]

LookAt(die, at, acc, a) ==
  IF a.form = "none" THEN [acc EXCEPT !.res = "error"]
  ELSE IF a.at = at THEN [acc EXCEPT !.res = "ok", !.v = a]
  ELSE PassOver(die, acc, a, SizeOfVal(die, a.form, a.p))

LookFor(die, at, acc, spec) ==
  IF acc.res # "no_entry" THEN acc
  ELSE IF spec.form \notin Forms THEN [acc EXCEPT !.res = "error"]
  ELSE IF spec.form = "indirect"
    THEN LookAt(die, at, acc, Found(spec, FormAt(die, acc.p), acc.p + 1))
  ELSE LookAt(die, at, acc, Found(spec, spec.form, acc.p))

Attr(die, at) ==
  FoldLeft(LAMBDA acc, spec : LookFor(die, at, acc, spec), [res |-> "no_entry", v |-> 0, p |-> 1], die.specs)

-----------------------------------------------------------------------------
(* Values, by the kind that the caller expects.                            *)

Leb(die, a) == Read(die.bytes, a.p, 1)
InWidth(die, a) == Read(die.bytes, a.p, FixedWidth[a.form])

\* dwarf_formudata(), with dwarf_formsdata() for what is left.
FormUdata(die, a) ==
  IF a.form \in {"data1", "data4"} THEN InWidth(die, a)
  ELSE IF a.form \in {"udata", "rnglistx", "sdata"} THEN Leb(die, a)
  ELSE IF a.form = "implicit_const" THEN Ok(a.const)
  ELSE Error

\* dwarf_global_formref_b(): a reference inside the unit, or an offset; of
\* DW_FORM_rnglistx the bytes that an offset would have.
GlobalFormref(die, env, a) ==
  IF a.form = "ref4"
    THEN Then(InWidth(die, a), LAMBDA n : IF n >= env.size THEN Error ELSE Ok(env.start + n))
  ELSE IF a.form \in {"ref_addr", "sec_offset", "rnglistx"} \/ (a.form = "data4" /\ env.version < 4)
    THEN Read(die.bytes, a.p, OffsetSize)
  ELSE Error

\* _dwarf_get_addr_index_itself() and dw_read_index_val_itself()
IndexItself(die, a) == IF a.form \in {"addrx", "strx"} THEN Leb(die, a) ELSE InWidth(die, a)

\* _dwarf_extract_address_from_debug_addr(), which looks at the error of a
\* section that cannot be loaded.
ExtractAddress(env, index) ==
  IF env.got["addr"] = "none" THEN Wants("addr")
  ELSE IF env.got["addr"] # "ok"
    THEN Fails([no_entry |-> "error", error |-> "crashed", garbage |-> "garbage"][env.got["addr"]])
  ELSE Read(AddrBytes(env.refs), env.bases.addr + index * AddrSize + 1, AddrSize)

Indexed(form) == form \in {"addrx", "addrx1", "addrx3"}

LookInLocal(die, env, a) == Then(IndexItself(die, a), LAMBDA index : ExtractAddress(env, index))

\* dwarf_formaddr()
FormAddr(die, env, a) ==
  IF Indexed(a.form) THEN LookInLocal(die, env, a)
  ELSE IF a.form = "addr" THEN InWidth(die, a)
  ELSE Error

\* _dwarf_trial_read_dwarf_five_hdr()
TrialHeader(bytes) ==
  /\ Len(bytes) >= HeaderLength
  /\ Number(SubSeq(bytes, 1, OffsetSize)) \in 4 .. Len(bytes) - OffsetSize
  /\ Number(SubSeq(bytes, OffsetSize + 1, OffsetSize + 2)) = 5

\* Without a base in a unit of DWARF 5 there may be a header; if not, the error
\* of that is looked at.
StrOffsetAt(table, env, index) ==
  IF env.bases.str # 0 \/ env.version # 5
    THEN Read(table, env.bases.str + index * OffsetSize + 1, OffsetSize)
  ELSE IF TrialHeader(table) THEN Read(table, HeaderLength + index * OffsetSize + 1, OffsetSize)
  ELSE Fails("crashed")

\* _dwarf_extract_string_offset_via_str_offsets()
StrOffset(die, env, a) ==
  IF env.got["str_offsets"] = "none" THEN Wants("str_offsets")
  ELSE IF env.got["str_offsets"] # "ok" THEN Fails(env.got["str_offsets"])
  ELSE Then(IndexItself(die, a), LAMBDA index : StrOffsetAt(StrOffsetsBytes(env.refs), env, index))

\* _dwarf_extract_local_debug_str_string_given_offset()
DebugStr(env, offset) ==
  IF env.got["str"] = "none" THEN Wants("str")
  ELSE IF env.got["str"] # "ok" THEN Fails(env.got["str"])
  ELSE StringAt(StrBytes(env.refs), offset + 1)

\* dwarf_formstring()
FormString(die, env, a) ==
  IF a.form = "string" THEN StringAt(die.bytes, a.p)
  ELSE IF a.form \notin Strings THEN Error
  ELSE Then(IF a.form = "strp" THEN Read(die.bytes, a.p, OffsetSize) ELSE StrOffset(die, env, a),
            LAMBDA offset : DebugStr(env, offset))

-----------------------------------------------------------------------------
(* What dwstOfFileExt() asks of a DIE.                                     *)

\* dwarf_lowpc(): only DW_FORM_addrx is looked up.
LowPcOf(die, env, a) ==
  IF a.form \notin Addresses THEN Error
  ELSE IF a.form = "addrx" THEN LookInLocal(die, env, a)
  ELSE Read(die.bytes, a.p, AddrSize)

\* dwarf_highpc_b(), with the class: an address that is looked up is not the
\* one returned.
Classed(r, class) == Then(r, LAMBDA n : Ok([n |-> n, class |-> class]))

HighPcOf(die, env, a) ==
  IF Indexed(a.form)
    THEN Then(LookInLocal(die, env, a),
              LAMBDA known : Classed(Read(die.bytes, a.p, AddrSize), "address"))
  ELSE IF a.form = "addr" THEN Classed(Read(die.bytes, a.p, AddrSize), "address")
  ELSE IF a.form \in Constants THEN Classed(FormUdata(die, a), "constant")
  ELSE Error

\* An offset that is taken for an address.
WithEndNoOffset(low, high) ==
  IF high.res \in {"wants", "crashed", "garbage"} THEN high
  ELSE Ok(<<low, IF high.res # "ok" THEN 0 ELSE high.v.n>>)

\* dwarf_lowhighpc(): without an end it is 0.
WithEnd(low, high) ==
  IF high.res \in {"wants", "crashed", "garbage"} THEN high
  ELSE Ok(<<low, IF high.res # "ok" THEN 0
                 ELSE IF high.v.class = "address" THEN high.v.n
                 ELSE low + high.v.n>>)

LowHigh(die, env) ==
  Then(Then(Attr(die, "low_pc"), LAMBDA a : LowPcOf(die, env, a)),
       LAMBDA low : WithEnd(low, Then(Attr(die, "high_pc"), LAMBDA a : HighPcOf(die, env, a))))

\* dwarf_diename(), to which an error is as good as no name.
DieName(die, env, r) == IF r.res # "ok" THEN Fails("no_entry") ELSE FormString(die, env, r.v)

Single(r) == Then(r, LAMBDA v : Ok(<<v>>))

Queries == {"pcs", "name", "ranges", "origin", "call_file"}

\* The values that a query is for.
AnswerTo(query, die, env) ==
  CASE query = "pcs" -> LowHigh(die, env)
    [] query = "name" -> Single(DieName(die, env, Attr(die, "name")))
    [] query = "call_file" -> Single(Then(Attr(die, query), LAMBDA a : FormUdata(die, a)))
    [] OTHER -> Single(Then(Attr(die, query), LAMBDA a : GlobalFormref(die, env, a)))

-----------------------------------------------------------------------------

NoBases == [addr |-> 0, str |-> 0]

\* find_cu_die_base_fields(): the bases from the attributes of a unit's DIE, in
\* their order, until one cannot be read.
WithBase(acc, name, r) ==
  IF r.res # "ok" THEN [acc EXCEPT !.res = r.res]
  ELSE IF name = "addr_base" THEN [acc EXCEPT !.v.addr = r.v]
  ELSE [acc EXCEPT !.v.str = r.v]

TakeBase(die, env, acc, a) ==
  IF acc.res # "ok" \/ a.at \notin {"addr_base", "str_offsets_base"} THEN acc
  ELSE WithBase(acc, a.at, GlobalFormref(die, env, a))

Taken(die, env, attrs) ==
  FoldLeft(LAMBDA acc, a : TakeBase(die, env, acc, a), Ok(NoBases), attrs)

\* DW_AT_low_pc, at last, may need .debug_addr and its base; of several the
\* last counts.
WithLowPc(die, env, attrs, taken) ==
  LET lows == {k \in DOMAIN attrs : attrs[k].at = "low_pc"}
      low == attrs[Max(lows)]
  IN IF taken.res # "ok" \/ lows = {} THEN taken
     ELSE IF Indexed(low.form) /\ \A k \in DOMAIN attrs : attrs[k].at # "addr_base" THEN Error
     ELSE Then(FormAddr(die, [env EXCEPT !.bases = taken.v], low), LAMBDA address : taken)

BaseFields(die, env, listed) ==
  IF listed.res # "ok" THEN Error
  ELSE WithLowPc(die, env, listed.attrs, Taken(die, env, listed.attrs))

=============================================================================
