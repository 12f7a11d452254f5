------------------------------ MODULE MCCuRanges ------------------------------
(* Units with every short list as the sections have it, and functions with  *)
(* every short list as libdwarf hands it out, over a few addresses.         *)
EXTENDS RangeLists

CONSTANTS
  RawEntries,   \* most entries of a unit's list
  DieEntries,   \* most entries of a function's list
  LowPcs        \* the values a unit's DW_AT_low_pc has where there is one

SeqsUpTo(es, n) == UNION {[1 .. m -> es] : m \in 0 .. n}
RawOf(code, a, b) == [code |-> code, a |-> a, b |-> b]

Old == {RawOf("pair", ab[1], ab[2]) : ab \in 
         {<<0, 2>>, <<1, 4>>, <<3, 4>>, <<3, 2>>, <<5, 0>>, <<5, 2>>, <<0, 0>>}}
Relative == {RawOf("offset_pair", 1, 4), RawOf("base_address", 2, 0),
             RawOf("base_addressx", 1, 0), EndOfList}
New == Relative \cup
       {RawOf("start_end", 3, 4), RawOf("start_length", 3, 5), RawOf("startx_endx", 0, 1),
        RawOf("startx_length", 0, 2), Unknown}

Attrs(lo, hi, off) == [lowpc |-> lo, highpc |-> hi, offset |-> off,
                       version |-> 0, entries |-> <<>>]
Listing(lo, v) == [Attrs(lo, None, FALSE) EXCEPT !.version = v]
RawUnit(d, list, addrs, cut) == [die |-> d, list |-> list, addrs |-> addrs, cut |-> cut]

Lows == LowPcs \cup {None}
Bounded == {Attrs(lo, hi, off) : lo \in Lows, hi \in {None, 0, 2, 4}, off \in BOOLEAN}

MCUnits == Bounded \cup {Listing(lo, v) : lo \in Lows, v \in {4, 5}}
MCRawUnits ==
  {RawUnit(d, <<>>, <<>>, FALSE) : d \in Bounded}
    \cup {RawUnit(Listing(lo, 4), list, <<>>, cut) :
             lo \in Lows, list \in SeqsUpTo(Old, RawEntries - 1), cut \in BOOLEAN}
    \cup {RawUnit(Listing(lo, 5), list, addrs, FALSE) :
             lo \in Lows, addrs \in {<<3>>, <<1, 4>>},
             list \in SeqsUpTo(New, RawEntries - 1) \cup SeqsUpTo(Relative, RawEntries)}

\* Few functions, as each of them meets every unit.
Pair(lo, hi) == [kind |-> "entry", lo |-> lo, hi |-> hi]
Mark(kind, hi) == [kind |-> kind, lo |-> 0, hi |-> hi]
DieOld == {Pair(0, 2), Pair(1, 4), Mark("select", 2)}
DieNew == {Pair(1, 4), Mark("skip", 0), Mark("stop", 0)}
WithList(v, list) == [Listing(None, v) EXCEPT !.entries = list]
MCDies ==
  {Attrs(1, 4, FALSE), Attrs(1, 2, TRUE), Attrs(4, 3, TRUE), Attrs(1, None, FALSE),
   Attrs(None, None, FALSE)}
    \cup {WithList(4, list) : list \in SeqsUpTo(DieOld, DieEntries)}
    \cup {WithList(5, list) : list \in SeqsUpTo(DieNew, DieEntries)}

MCPtrs == Addr

=============================================================================
