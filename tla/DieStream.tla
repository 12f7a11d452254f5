------------------------------ MODULE DieStream ------------------------------
(***************************************************************************)
(* How .debug_info stores the tree of a unit's DIEs, and how libdwarf      *)
(* finds the first child and the next sibling of one (dwarf_child() and    *)
(* dwarf_siblingof_b(), src/libdwarf/dwarf_die_deliv.c).                   *)
(*                                                                         *)
(* A DIE is followed by the DIEs below it if its abbreviation says that    *)
(* has children, and those by a null entry; it may say with DW_AT_sibling  *)
(* where they end.  DIEs are numbered in the order of their offsets, 0     *)
(* being the unit's own, and last[d] is the last DIE in the subtree of d.  *)
(***************************************************************************)
EXTENDS Integers, Sequences, FiniteSets, Folds

None == -1

\* An entry: its DIE, if it is not a null entry, whether it says that it has
\* children, and the entry that DW_AT_sibling refers to, 0 without it.
NullEntry == [die |-> None, children |-> FALSE, sibling |-> 0]

\* The entries before DIE d are those of the DIEs before it, and the null
\* entries of those whose subtree has ended.
PositionOf(last, flagged, d) ==
  1 + d + Cardinality({e \in flagged : last[e] < d})

\* The entry after the subtree of d.
PositionAfter(last, flagged, d) ==
  2 + last[d] + Cardinality({e \in flagged : last[e] < last[d] \/ (last[e] = last[d] /\ e >= d)})

\* The entries for a tree in which the DIEs flagged say that they have children,
\* as all must that have some, and those in linked have DW_AT_sibling.
Entries(n, last, flagged, linked) ==
  [p \in 1 .. n + 1 + Cardinality(flagged) |->
     IF \E d \in 0 .. n : PositionOf(last, flagged, d) = p
       THEN LET d == CHOOSE e \in 0 .. n : PositionOf(last, flagged, e) = p
            IN [die |-> d, children |-> d \in flagged,
                sibling |-> IF d \in linked THEN PositionAfter(last, flagged, d) ELSE 0]
       ELSE NullEntry]

-----------------------------------------------------------------------------

IsNull(s, p) == s[p].die = None
AtEnd(s, p) == p > Len(s)

\* _dwarf_next_die_info_ptr(): the entry after that at p, or the one that
\* DW_AT_sibling refers to if that is wanted, and whether it is p's first child.
NextEntry(s, p, wantSibling) ==
  IF wantSibling /\ s[p].sibling # 0
    THEN [at |-> s[p].sibling, child |-> FALSE]
    ELSE [at |-> p + 1, child |-> s[p].children]

\* dwarf_child(): None stands for DW_DLV_NO_ENTRY.
ChildAt(s, p) ==
  LET next == NextEntry(s, p, FALSE)
  IN IF next.child /\ ~AtEnd(s, next.at) THEN s[next.at].die ELSE None

\* The end of a list of siblings: out of as many lists as end here.
LeaveLists(s, p, depth) ==
  LET leave[x \in [at : 1 .. Len(s) + 1, depth : Nat]] ==
        IF x.depth = 0 \/ AtEnd(s, x.at) THEN x
        ELSE IF IsNull(s, x.at) THEN leave[[at |-> x.at + 1, depth |-> x.depth - 1]]
        ELSE x
  IN leave[[at |-> p, depth |-> depth]]

\* A scan that takes a DIE which says it has children, but has none, for one
\* with a list to be left again.
ScanEntryAnyFlag(s, p, depth) ==
  LET next == NextEntry(s, p, TRUE)
  IN IF AtEnd(s, next.at) \/ IsNull(s, next.at)
       THEN LeaveLists(s, next.at, depth)
       ELSE [at |-> next.at, depth |-> IF next.child THEN depth + 1 ELSE depth]

\* One round of the loop of _dwarf_siblingof_internal(): on to the next entry,
\* depth being how many lists the scan is below the DIE's own.  A DIE that says
\* it has children may have none.
ScanEntry(s, p, depth) ==
  LET raw == NextEntry(s, p, TRUE)
      empty == raw.child /\ ~AtEnd(s, raw.at) /\ IsNull(s, raw.at)
      next == IF empty THEN [at |-> raw.at + 1, child |-> FALSE] ELSE raw
  IN IF AtEnd(s, next.at) \/ IsNull(s, next.at)
       THEN LeaveLists(s, next.at, depth)
       ELSE [at |-> next.at, depth |-> IF next.child THEN depth + 1 ELSE depth]

\* dwarf_siblingof_b() for the DIE at p.
SiblingAt(s, p) ==
  LET scan[x \in [at : 1 .. Len(s), depth : Nat]] ==
        LET next == ScanEntry(s, x.at, x.depth)
        IN IF next.depth = 0 \/ AtEnd(s, next.at) THEN next.at ELSE scan[next]
      found == scan[[at |-> p, depth |-> 0]]
  IN IF AtEnd(s, found) THEN None ELSE s[found].die

=============================================================================
