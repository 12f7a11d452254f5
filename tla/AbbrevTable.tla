----------------------------- MODULE AbbrevTable -----------------------------
(***************************************************************************)
(* The abbreviations of a unit, as _dwarf_get_abbrev_for_code()            *)
(* (libdwarf/dwarf_util.c) finds them: a hash table that is filled only as *)
(* far as the abbreviation asked for, and the place where its reading of   *)
(* .debug_abbrev goes on.  The table and the place are in the unit's       *)
(* context; a caller that gets no abbreviation does not store the new      *)
(* place there, though the table has been filled.                          *)
(*                                                                         *)
(* An abbreviation is given by its code and tag (as far as it tells a      *)
(* unit's DIE from others), by its attributes (DwarfForms), and by the     *)
(* damage that stops the reading: before its entry is made, or after that, *)
(* among its attributes.  An entry of the table is the abbreviation's      *)
(* number in the section.                                                  *)
(***************************************************************************)
EXTENDS DwarfForms

CONSTANT HtMultiple  \* HT_MULTIPLE, 8 in the code

ASSUME HtMultipleAssumption == HtMultiple \in Nat \ {0}

Abbreviation ==
  [code : Nat \ {0}, unit : BOOLEAN, damage : {"none", "early", "late"},
   attrs : Seq([at : Attribute, form : Forms \cup {"unknown"}, const : Nat])]

\* Of a table with n slots; total is what the code counts, not the entries.
NoSlots == <<>>
EmptySlots(n) == [k \in 1 .. n |-> <<>>]
NewTable == [slots |-> NoSlots, total |-> 0]

SlotOf(slots, code) == (code % Len(slots)) + 1
Pushed(slots, ab, q) == [slots EXCEPT ![SlotOf(slots, ab[q].code)] = <<q>> \o @]

\* Each entry is counted twice when it is read.
Added(t, ab, q) == [slots |-> Pushed(t.slots, ab, q), total |-> t.total + 2]
AddedAll(t, ab, p, q) ==
  FoldLeft(LAMBDA u, k : Added(u, ab, k), t, [k \in 1 .. q - p + 1 |-> p + k - 1])

-----------------------------------------------------------------------------

\* The entries go to the slots they had before.
RehashedByOldSize(t, ab) ==
  LET entries == FlattenSeq(t.slots)
      place(slots, q) == [slots EXCEPT ![SlotOf(t.slots, ab[q].code)] = <<q>> \o @]
  IN [slots |-> FoldLeft(place, EmptySlots(t.total), entries),
      total |-> Len(entries)]

\* copy_abbrev_table_to_new_table(): slot by slot, each entry counted once.
Rehashed(t, ab) ==
  LET entries == FlattenSeq(t.slots)
  IN [slots |-> FoldLeft(LAMBDA slots, q : Pushed(slots, ab, q), EmptySlots(t.total), entries),
      total |-> Len(entries)]

NeedsSlots(t) == t.slots = NoSlots \/ t.total > Len(t.slots) * HtMultiple

\* The table a lookup works with, if there is memory for its slots.
Prepared(t, ab) ==
  IF t.slots = NoSlots THEN [slots |-> EmptySlots(HtMultiple), total |-> 0]
  ELSE IF NeedsSlots(t) THEN Rehashed(t, ab)
  ELSE t

\* The entry of the code, 0 if there is none: the one in front of its slot.
EntryFor(t, ab, code) ==
  LET chain == t.slots[SlotOf(t.slots, code)]
      hits == {j \in DOMAIN chain : ab[chain[j]].code = code}
  IN IF hits = {} THEN 0 ELSE chain[Min(hits)]

\* Where reading from place p on stops: at the abbreviation, at damage, for
\* lack of memory after room entries, or with the last abbreviation.
StopsAt(ab, p, code, room) ==
  Min({q \in p .. Len(ab) :
         \/ ab[q].code = code \/ ab[q].damage # "none"
         \/ q - p >= room \/ q = Len(ab)})

\* What a lookup does to the context's table and place, and what it returns;
\* room: how many allocations it can make.
Lookup(t, last, ab, code, room) ==
  LET Result(table, place, result, entry) ==
        [table |-> table, last |-> place, result |-> result, entry |-> entry]
      ready == Prepared(t, ab)
      left == IF NeedsSlots(t) THEN room - 1 ELSE room
      known == EntryFor(ready, ab, code)
      stop == StopsAt(ab, last, code, left)
      made == stop - last < left /\ ab[stop].damage # "early"
      filled == AddedAll(ready, ab, last, IF made THEN stop ELSE stop - 1)
  IN IF left < 0 THEN Result(t, last, "no_entry", 0)
     ELSE IF known # 0 THEN Result(ready, last, "ok", known)
     ELSE IF last > Len(ab) THEN Result(ready, last, "no_entry", 0)
     ELSE IF ~made \/ ab[stop].damage # "none" THEN Result(filled, last, "error", 0)
     ELSE IF ab[stop].code # code THEN Result(filled, last, "no_entry", 0)
     ELSE Result(filled, stop + 1, "ok", stop)

=============================================================================
