---------------------------- MODULE MCOpenObject -----------------------------
(* Every image with every pair of files that its link may lead to; and one  *)
(* intact image with every chain of up to MaxUnits units, every list of up  *)
(* to MaxAbbrevs abbreviations for one unit of several DIEs, units whose    *)
(* own DIE has up to MaxOwn attributes in any order, units with a DIE that  *)
(* has one attribute behind another of any form; and images whose sections  *)
(* are packed, damaged, empty, missing or there twice.                      *)
EXTENDS OpenObject

CONSTANTS MaxUnits, MaxAbbrevs, MaxOwn

SeqsUpTo(S, m) == UNION {[1 .. k -> S] : k \in 0 .. m}

Abbrev(code, unit, damage, attrs) == [code |-> code, unit |-> unit, damage |-> damage, attrs |-> attrs]
Bare(code, unit, damage) == Abbrev(code, unit, damage, <<>>)
MCUnit(header, damage, dies, abbrevs) ==
  [at |-> 0, header |-> header, damage |-> damage, dies |-> dies, abbrevs |-> abbrevs,
   version |-> 5, cut |-> 0, values |-> [d \in DOMAIN dies |-> <<>>]]
LengthUpTo(us, k) == FoldLeft(LAMBDA sum, u : sum + SizeOf(u), 0, SubSeq(us, 1, k))
MCRefs == [addrs |-> <<9, 33>>, strs |-> <<<<5>>, <<7, 3>>>>, headless |-> FALSE]
Section(us, slack) ==
  [units |-> [k \in DOMAIN us |-> [us[k] EXCEPT !.at = LengthUpTo(us, k - 1)]], slack |-> slack,
   refs |-> MCRefs]

Plain == <<Bare(1, TRUE, "none"), Bare(2, FALSE, "none")>>
Based(form) == <<Abbrev(1, TRUE, "none", <<AttrSpec("addr_base", form, 0)>>), Bare(2, FALSE, "none")>>
UnitKinds ==
  {MCUnit("good", "none", d, Plain) : d \in {<<>>, <<0>>, <<1>>, <<2>>, <<1, 2, 0>>}}
  \cup {MCUnit(h, "none", <<1>>, Plain) : h \in {"zero", "bad"}}
  \cup {MCUnit("good", "abbrev_offset", <<1>>, Plain),
        [MCUnit("good", "none", <<1>>, Based("udata")) EXCEPT !.values = <<<<Item("udata", <<8>>)>>>>]}

\* The shorter chains with bytes behind them, too.
Chains ==
  {Section(us, 0) : us \in SeqsUpTo(UnitKinds, MaxUnits)}
  \cup {Section(us, 2) : us \in SeqsUpTo(UnitKinds, MaxUnits - 1)}

\* The codes in any order, each intact or not; the first DIE is the unit's.
AbbrevLists ==
  {[k \in DOMAIN codes |-> Bare(codes[k], codes[k] = 1, damage[k])] :
     codes \in {c \in SeqsUpTo(1 .. MaxAbbrevs, MaxAbbrevs) : \A a, b \in DOMAIN c : c[a] = c[b] => a = b},
     damage \in [1 .. MaxAbbrevs -> {"none", "early", "late"}]}
Tables == {Section(<<MCUnit("good", "none", [k \in 1 .. MaxAbbrevs |-> k], ab)>>, 0) : ab \in AbbrevLists}

-----------------------------------------------------------------------------
(* Units with attributes.  One is given by [spec, item].                   *)

Valued(name, form, v) ==
  [spec |-> AttrSpec(name, form, IF form = "implicit_const" THEN v ELSE 0), item |-> Item(form, <<v>>)]
Behind(name, form, v) == [spec |-> AttrSpec(name, "indirect", 0), item |-> Item(form, <<v>>)]
Text(name) == [spec |-> AttrSpec(name, "string", 0), item |-> Item("string", <<6, 1>>)]
Block == [spec |-> AttrSpec("other", "block1", 0), item |-> Item("block1", <<2, 1>>)]

\* One unit with its own DIE and one more.
Pair(own, child, version, cut) ==
  LET Of(attrs) == [k \in DOMAIN attrs |-> attrs[k].spec]
      Values(attrs) == [k \in DOMAIN attrs |-> attrs[k].item]
  IN [MCUnit("good", "none", IF child = <<>> THEN <<1>> ELSE <<1, 2>>,
             <<Abbrev(1, TRUE, "none", Of(own)), Abbrev(2, FALSE, "none", Of(child))>>)
        EXCEPT !.version = version, !.cut = cut,
               !.values = IF child = <<>> THEN <<Values(own)>> ELSE <<Values(own), Values(child)>>]

AddrBase == Valued("addr_base", "sec_offset", HeaderLength)
StrBase == Valued("str_offsets_base", "sec_offset", HeaderLength)
Bases == <<AddrBase, StrBase>>

\* A unit's DIE with some attributes in any order, and less of it in the unit.
OwnAttributes ==
  {AddrBase, StrBase, Valued("name", "strx", 1),
   Valued("low_pc", "addr", 17), Valued("low_pc", "addrx", 1), Valued("low_pc", "addrx", 2),
   Valued("low_pc", "addrx1", 1), Valued("other", "flag_present", 0), Valued("other", "unknown", 0)}
Own(m) ==
  {s \in SeqsUpTo(OwnAttributes, m) : \A a, b \in DOMAIN s : s[a].spec.at = s[b].spec.at => a = b} \ {<<>>}
OwnUnits == {Pair(own, <<>>, 5, 0) : own \in Own(MaxOwn)}
CutUnits ==
  {Pair(own, <<>>, 5, 1) : own \in {o \in Own(MaxOwn - 1) : Written(Last(o).spec, Last(o).item) # <<>>}}
SlackUnits == {Pair(own, <<>>, 5, 0) : own \in Own(MaxOwn - 1)}

\* A DIE with one attribute that is asked for, behind another, of any form.
Fillers ==
  {Valued("other", f, 1) : f \in (Forms \cup {"unknown"}) \ {"string", "block1", "indirect"}}
  \cup {Text("other"), Block, Behind("other", "data1", 1), Behind("other", "strx3", 1), Behind("other", "unknown", 0)}
Askings ==
  {Valued("name", f, v) : f \in {"strx", "strx1", "strx3"}, v \in {1, 2}}
  \cup {Valued("name", "strp", v) : v \in {1, 2, 3, 5}} \cup {Text("name"), Behind("name", "strx1", 0)}
  \cup {Valued("call_file", f, 3) : f \in Constants}
  \cup {Valued("ranges", "sec_offset", 4)}
  \cup {Valued("origin", f, v) : f \in {"ref4", "ref_addr"}, v \in {2, 3}}
  \cup {Valued("low_pc", "addr", 17), Valued("low_pc", "addrx", 1), Valued("low_pc", "addrx", 2)}
FewAskings ==
  {Valued("name", "strx", 1), Text("name"), Valued("call_file", "data1", 3), Valued("low_pc", "addr", 17)}
Children ==
  (Fillers \X FewAskings) \cup ({Valued("other", "data1", 1)} \X Askings)
ChildUnits ==
  {Pair(Bases, <<f, q>>, 5, 0) : <<f, q>> \in Children}
  \cup {Pair(Bases, <<Valued("other", "data1", 1), q>>, 5, cut) : <<q, cut>> \in
          {<<a, c>> \in Askings \X (1 .. 4) : c <= Len(Written(a.spec, a.item))}}

\* Pairs of addresses, the end being one or an offset.
Lows == {Valued("low_pc", "addr", 17), Valued("low_pc", "addrx", 1)}
Highs == {Valued("high_pc", f, 21) : f \in Constants \cup {"addr", "sec_offset"}}
PcUnits ==
  {Pair(Bases, <<a, b>>, 5, cut) : <<a, b, cut>> \in (Lows \X Highs \X {0}) \cup (Highs \X Lows \X {0, 1})}

\* Strings by their index, with and without a header and a base for it.
StrUnits ==
  {Pair(own, <<Valued("name", "strx", 1)>>, version, 0) : own \in {<<AddrBase>>, Bases}, version \in {4, 5}}

Attributed ==
  {Section(<<u>>, 0) : u \in OwnUnits \cup CutUnits \cup ChildUnits \cup PcUnits \cup StrUnits}
    \cup {Section(<<u>>, 2) : u \in SlackUnits \cup CutUnits}
    \cup {[Section(<<u>>, 0) EXCEPT !.refs.headless = TRUE] : u \in StrUnits}

\* What the unit has attributes for, and what it may have none for.
MCAsked(u) ==
  LET ats == {a.at : a \in UNION {ToSet(u.abbrevs[q].attrs) : q \in DOMAIN u.abbrevs}}
  IN IF ats = {} THEN {} ELSE {q \in Queries : ats \cap Looked(q) # {}} \cup {"name"}

-----------------------------------------------------------------------------

Intact == [kind |-> "dwarf", link |-> FALSE]
Alone == [p \in Paths |-> IF p = "image" THEN Intact ELSE [kind |-> "absent", link |-> FALSE]]

\* Images with a section of each name, and what may be odd about one of them
\* and how the others are packed.
Sec(n) == [name |-> n, packed |-> FALSE, empty |-> FALSE, damaged |-> FALSE]
Usual == <<Sec("other"), Sec("info"), Sec("abbrev")>>
Referred == <<"addr", "str", "str_offsets">>
Packings(names) ==
  {[k \in DOMAIN names |-> [Sec(names[k]) EXCEPT !.packed = packed]] : packed \in BOOLEAN}
Odd(h) ==
  {h, [h EXCEPT !.packed = TRUE, !.damaged = TRUE], [h EXCEPT !.empty = TRUE], [h EXCEPT !.name = "other"]}
HeaderLists(names) ==
  UNION {{[l EXCEPT ![k] = h] : h \in Odd(l[k])} \cup {Append(l, [l[k] EXCEPT !.packed = ~@])} :
           <<l, k>> \in Packings(names) \X (2 .. Len(names))}

Linking == [Alone EXCEPT !["image"].link = TRUE]
LeadingAstray == [Linking EXCEPT !["beside"].kind = "stripped"]
MCListed(d) ==
  IF d = Linking THEN HeaderLists(<<"other", "info", "abbrev", "line", "ranges", "str">>)
  ELSE IF d = LeadingAstray THEN HeaderLists(<<"other", "info", "abbrev">> \o Referred)
  ELSE {Usual \o [k \in DOMAIN Referred |-> Sec(Referred[k])]}

OneDie == Section(<<MCUnit("good", "none", <<1>>, Plain)>>, 0)
Referring ==
  Section(<<Pair(Bases \o <<Valued("low_pc", "addrx", 1), Valued("name", "strx", 1)>>, <<>>, 5, 0)>>, 0)
MCSections == Chains \cup Tables \cup Attributed \cup {Referring}
\* dwstOfFileExt() takes no errors.
MCStored(s) ==
  IF s = Section(<<>>, 0) THEN AllDisks \X BOOLEAN
  ELSE {Alone, IF s = OneDie THEN Linking ELSE IF s = Referring THEN LeadingAstray ELSE Alone} \X {FALSE}

=============================================================================
