--------------------------- MODULE MCAddressLookup ---------------------------
(* Every program of up to MaxOps operations, one program for every table of *)
(* up to MaxRows rows, and every tree of up to MaxDies DIEs.                *)
EXTENDS AddressLookup, DieStream

CONSTANTS MaxOps, MaxRows, MaxAddr, MaxDies, MaxScanned

MCPtrs == 0 .. MaxAddr + 1
SeqsUpTo(S, m) == UNION {[1 .. k -> S] : k \in 0 .. m}

-----------------------------------------------------------------------------

Do(op, n) == [op |-> op, n |-> n]

\* Line numbers go down by one or stay with a special opcode.
MCHeader == [v5 |-> FALSE, minInst |-> 1, maxOps |-> 1, lineBase |-> -1, lineRange |-> 2]
Bundled == [MCHeader EXCEPT !.maxOps = 2]

Ops ==
  {Do("special", 1), Do("special", 2), Do("copy", 0), Do("end_sequence", 0),
   Do("set_address", 2), Do("advance_pc", 1), Do("advance_line", 2), Do("const_add_pc", 2),
   Do("fixed_advance_pc", W - 1), Do("set_file", 3), Do("set_epilogue_begin", 0),
   Do("define_file", 0), Do("inlined_call", -1), Do("pop_context", 0), Do("cut", 0)}
MoreOps == Ops \cup {Do("set_file", 0), Do("set_file", 4), Do("mark", 0)}
LogicalOps == {Do("set_subprogram", 1), Do("copy", 0), Do("advance_pc", 1)}

Table(form, header, files, progs) == [form |-> form, header |-> header, files |-> files, progs |-> progs]

Plain(a, e) == [addr |-> a, end |-> e, file |-> 1, line |-> 1]
MCTables == SeqsUpTo({Plain(a, e) : a \in 0 .. MaxAddr, e \in BOOLEAN}, MaxRows)

\* The rows one by one, each with its address.
ProgramFor(t) ==
  [k \in 1 .. 2 * Len(t) |->
     LET row == t[(k + 1) \div 2]
     IN IF k % 2 = 1 THEN Do("set_address", row.addr)
                     ELSE Do(IF row.end THEN "end_sequence" ELSE "copy", 0)]

MCSources ==
  {Table("old", MCHeader, 2, <<p>>) : p \in SeqsUpTo(Ops, MaxOps)}
  \cup {Table("old", MCHeader, 0, <<ProgramFor(t)>>) : t \in MCTables}
  \cup {Table("old", Bundled, 1, <<p>>) : p \in SeqsUpTo(MoreOps, MaxOps - 1)}
  \cup {Table("new", [MCHeader EXCEPT !.v5 = TRUE], f, <<p>>) :
          f \in {0, 1}, p \in SeqsUpTo(MoreOps, MaxOps - 1)}
  \cup {Table("two_level", MCHeader, 1, <<p, q>>) :
          p \in SeqsUpTo(LogicalOps, 2), q \in SeqsUpTo(LogicalOps, 2)}

-----------------------------------------------------------------------------

\* The ways to arrange k DIEs, each given by where the subtrees end.
Shapes(k) ==
  {last \in [0 .. k -> 0 .. k] :
     /\ last[0] = k
     /\ \A d \in 0 .. k : last[d] >= d
     /\ \A d \in 0 .. k, e \in 0 .. k : (d < e /\ e <= last[d]) => last[e] <= last[d]}

Attrs(kind, covers, call) == [kind |-> kind, covers |-> covers, call |-> call, name |-> 0]

DieKinds ==
  {Attrs("other", FALSE, None),
   Attrs("subprogram", TRUE, None), Attrs("subprogram", FALSE, None),
   Attrs("inlined", TRUE, 1), Attrs("inlined", FALSE, 1),
   Attrs("inlined", TRUE, None), Attrs("inlined", TRUE, 3)}
LinkedKinds == {Attrs("other", FALSE, None), Attrs("inlined", TRUE, 1)}

\* Functions that get their names through references.
Linked(k) ==
  {ds \in [1 .. k -> {[a EXCEPT !.name = m] : a \in LinkedKinds, m \in -1 .. k - 1}] :
     \A d \in 1 .. k : ds[d].name < d}

\* A function among DIEs of no interest.
Alone(k) ==
  {[d \in 1 .. k |-> IF d = e THEN Attrs("subprogram", TRUE, None) ELSE Attrs("other", FALSE, None)] :
     e \in 1 .. k}

Parents(last) == {d \in DOMAIN last : last[d] > d}
Tree(k, last, ds, flagged, linked) ==
  [n |-> k, last |-> last, die |-> ds, flagged |-> flagged, linked |-> linked,
   entries |-> Entries(k, last, flagged, linked)]

\* Trees stored plainly, and trees with needless flags and with references to
\* siblings.
MCTrees ==
  UNION {{Tree(k, last, ds, Parents(last), {}) : last \in Shapes(k), ds \in [1 .. k -> DieKinds] \cup Linked(k)} :
         k \in 0 .. MaxDies}
  \cup
  UNION {UNION {{Tree(k, last, ds, Parents(last) \cup f, l) :
                   ds \in Alone(k), f \in SUBSET ((1 .. k) \ Parents(last)), l \in SUBSET ((1 .. k) \cap Parents(last))} :
                last \in Shapes(k)} :
         k \in 1 .. MaxScanned}

Leaf == Tree(1, [d \in 0 .. 1 |-> 1], <<Attrs("subprogram", TRUE, None)>>, {0}, {})
\* A row of the f-th of two files.
OneRow(f) == Table("old", MCHeader, 2, <<<<Do("set_file", f), Do("copy", 0), Do("advance_pc", 1), Do("end_sequence", 0)>>>>)

MCUnits ==
  {[sources |-> MCSources \cup {OneRow(4)}, trees |-> {Leaf}], [sources |-> {OneRow(2)}, trees |-> MCTrees]}

=============================================================================
