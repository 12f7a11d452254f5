------------------------------ MODULE DwarfForms ------------------------------
(***************************************************************************)
(* What the attributes of a DIE are in DWARF: an abbreviation gives the    *)
(* name and the form of each, the DIE its values in the same order.  These *)
(* definitions say how a value is written, and what it means, without the  *)
(* code that reads it (DieAttributes).                                     *)
(*                                                                         *)
(* A byte holds a number below Base, and a number of variable length takes *)
(* one byte.  A value is a sequence of numbers: the characters of a        *)
(* string, the contents of a block, or a single number.                    *)
(***************************************************************************)
EXTENDS Integers, SequencesExt

CONSTANTS Base, AddrSize

OffsetSize == 4  \* of 32-bit DWARF
HeaderLength == OffsetSize + 4  \* of .debug_addr and .debug_str_offsets

\* Some of the forms, of each way of writing a value; a form's number is its
\* place here.  "unknown" is a form that nobody knows.
FormList ==
  <<"addr", "addrx", "addrx1", "addrx3", "string", "strp", "strx", "strx1", "strx3",
    "data1", "data4", "udata", "sdata", "implicit_const", "flag_present", "block1",
    "ref4", "ref_addr", "sec_offset", "rnglistx", "indirect", "unknown">>
Forms == {FormList[k] : k \in DOMAIN FormList} \ {"unknown"}
NumberOf(form) == CHOOSE k \in DOMAIN FormList : FormList[k] = form

\* A form's number fits in a byte.
ASSUME BytesAssumption == Base \in Nat /\ Base > Len(FormList) /\ AddrSize \in Nat \ {0}

\* The names of attributes that are asked for, and any other.
Attribute == {"low_pc", "high_pc", "name", "ranges", "origin", "call_file",
              "addr_base", "str_offsets_base", "other"}

\* An abbreviation's entry for an attribute, with the value it gives itself.
AttrSpec(at, form, const) == [at |-> at, form |-> form, const |-> const]
\* A DIE's value, and the form that it is written in.
Item(form, v) == [form |-> form, v |-> v]

FixedWidth ==
  [addr |-> AddrSize, addrx1 |-> 1, addrx3 |-> 3, strp |-> OffsetSize,
   strx1 |-> 1, strx3 |-> 3, data1 |-> 1, data4 |-> 4,
   ref4 |-> 4, ref_addr |-> OffsetSize, sec_offset |-> OffsetSize]
Nothing == {"implicit_const", "flag_present"}
Addresses == {"addr", "addrx", "addrx1", "addrx3"}
Strings == {"string", "strp", "strx", "strx1", "strx3"}
Constants == {"data1", "data4", "udata", "sdata", "implicit_const"}

\* What is left of a number without its w lowest bytes; it fits in w bytes if that
\* is nothing, and is written with the lowest one first.
Above(n, w) == LET left[k \in 0 .. w] == IF k = 0 THEN n ELSE left[k - 1] \div Base IN left[w]
Fits(n, w) == n \in Nat /\ Above(n, w) = 0
Bytes(n, w) == [k \in 1 .. w |-> Above(n, k - 1) % Base]

WrittenAs(form, v) ==
  IF form \in Nothing THEN <<>>
  ELSE IF form \in DOMAIN FixedWidth THEN Bytes(v[1], FixedWidth[form])
  ELSE IF form = "string" THEN Append(v, 0)
  ELSE IF form = "block1" THEN <<Len(v)>> \o v
  ELSE v

Written(spec, item) ==
  (IF spec.form = "indirect" THEN <<NumberOf(item.form)>> ELSE <<>>)
    \o WrittenAs(item.form, item.v)

\* A number fits in the bytes that its form has, a string is without zeros, a
\* block's length fits in a byte; no form leads to DW_FORM_indirect.
CanBeWritten(item) ==
  /\ item.form \in (Forms \cup {"unknown"}) \ {"indirect"}
  /\ IF item.form = "string" THEN item.v \in Seq(1 .. Base - 1)
     ELSE IF item.form = "block1" THEN item.v \in Seq(0 .. Base - 1) /\ Len(item.v) < Base
     ELSE LET width == IF item.form \in DOMAIN FixedWidth THEN FixedWidth[item.form] ELSE 1
          IN item.v = <<item.v[1]>> /\ Fits(item.v[1], width)

WrittenAll(specs, items) == FlattenSeq([k \in DOMAIN specs |-> Written(specs[k], items[k])])

-----------------------------------------------------------------------------

(***************************************************************************)
(* The sections that values refer to: addrs and strs are the addresses of  *)
(* .debug_addr and the strings of .debug_str; headless: .debug_str_offsets *)
(* has no header, as compilers wrote it before DWARF 5.                    *)
(***************************************************************************)
Places(refs) ==  \* where each string begins
  [k \in DOMAIN refs.strs |-> FoldLeft(LAMBDA n, s : n + Len(s) + 1, 0, SubSeq(refs.strs, 1, k - 1))]

TableHeader(n) == Bytes(n + 4, OffsetSize) \o Bytes(5, 2) \o <<0, 0>>

StrBytes(refs) == FlattenSeq([k \in DOMAIN refs.strs |-> Append(refs.strs[k], 0)])
StrOffsetsBytes(refs) ==
  (IF refs.headless THEN <<>> ELSE TableHeader(OffsetSize * Len(refs.strs)))
    \o FlattenSeq([k \in DOMAIN refs.strs |-> Bytes(Places(refs)[k], OffsetSize)])
AddrBytes(refs) ==
  TableHeader(AddrSize * Len(refs.addrs))
    \o FlattenSeq([k \in DOMAIN refs.addrs |-> Bytes(refs.addrs[k], AddrSize)])

\* Offsets of 32-bit DWARF reach all of the sections.
IsRefs(refs) ==
  /\ refs.addrs \in Seq(Nat) /\ \A k \in DOMAIN refs.addrs : Fits(refs.addrs[k], AddrSize)
  /\ refs.strs \in Seq(Seq(1 .. Base - 1))
  /\ refs.headless \in BOOLEAN
  /\ \A bytes \in {AddrBytes(refs), StrOffsetsBytes(refs), StrBytes(refs)} : Fits(Len(bytes), OffsetSize)

\* The string at an offset, which may be the end of a longer one.
StringsAt(refs, n) ==
  {SubSeq(refs.strs[k], n - Places(refs)[k] + 1, Len(refs.strs[k])) :
     k \in {j \in DOMAIN refs.strs : Places(refs)[j] <= n /\ n <= Places(refs)[j] + Len(refs.strs[j])}}

\* What a value means, as a set of one, or empty if it does not mean anything;
\* start is where its unit begins, and size what references in it stay below.
Meaning(spec, item, refs, start, size) ==
  LET n == item.v[1]
  IN CASE item.form \in Addresses \ {"addr"} ->
            {refs.addrs[k] : k \in {j \in DOMAIN refs.addrs : j = n + 1}}
       [] item.form = "string" -> {item.v}
       [] item.form = "strp" -> StringsAt(refs, n)
       [] item.form \in Strings \ {"string", "strp"} ->
            {refs.strs[k] : k \in {j \in DOMAIN refs.strs : j = n + 1}}
       [] item.form = "implicit_const" -> {spec.const}
       [] item.form = "ref4" -> {start + k : k \in {n} \cap (0 .. size - 1)}
       [] OTHER -> {n}

=============================================================================
