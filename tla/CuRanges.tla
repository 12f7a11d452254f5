------------------------------ MODULE CuRanges -------------------------------
(***************************************************************************)
(* The address ranges of a DIE, in the two places where the code reads     *)
(* them (src/dwst-file.c): the scan of the units in dwstOfFileExt(), which *)
(* fills in cu_info's low, high and ranges, and afterwards the test by     *)
(* which findInlined() decides whether a function of that unit holds the   *)
(* address looked up.  Both go through dwarf_lowhighpc() and               *)
(* dwarf_ranges(), whose handles are tracked in held.                      *)
(*                                                                         *)
(* A list of DWARF 4 and before holds entries relative to a base, base     *)
(* selections and an end entry; of a DWARF 5 list libdwarf gives absolute  *)
(* addresses, and "skip" stands for the entries without any (a base        *)
(* address, or an address table that is unavailable), "stop" for the end   *)
(* of the list or an entry that cannot be read.                            *)
(***************************************************************************)
EXTENDS CuFilter

CONSTANTS
  W,      \* addresses are 0 .. W-1 and wrap around, as 64 bit numbers do
  Units,  \* the unit DIEs
  Dies,   \* the function DIEs tested by findInlined()
  Ptrs    \* the addresses looked up

Addr == 0 .. W - 1
None == -1          \* the DIE lacks the attribute
Entry == [kind : {"entry", "select", "end", "skip", "stop"}, lo : Addr, hi : Addr]

\* version 0: no DW_AT_ranges; offset: DW_AT_high_pc is not an address.
Die == [lowpc : Addr \cup {None}, highpc : Addr \cup {None}, offset : BOOLEAN,
        version : {0, 4, 5}, entries : Seq(Entry)]

\* Which entries a list of the version has.
Kinds(version) ==
  IF version = 5 THEN {"entry", "skip", "stop"} ELSE {"entry", "select", "end"}

ASSUME WAssumption == W \in Nat \ {0}
ASSUME DiesAssumption ==
  /\ Units \subseteq Die /\ Dies \subseteq Die
  /\ \A d \in Units \cup Dies : \A j \in DOMAIN d.entries :
       d.entries[j].kind \in Kinds(d.version)
ASSUME PtrsAssumption == Ptrs \subseteq Addr

VARIABLES
  unit,            \* the unit's DIE
  die, ptr,        \* the function's DIE and the address findInlined() is given
  pc,              \* where the code is
  caller,          \* "scan" or "inline": who reads a list
  held,            \* the handles and buffers libdwarf gave out
  low, high, hasLow, ranges,  \* cu_info's fields
  base, i,         \* the loop over a list
  fault            \* history: a libdwarf call or an allocation failed for the caller

vars == <<unit, die, ptr, pc, caller, held, low, high, hasLow, ranges, base, i, fault>>
inputs == <<unit, die, ptr>>
cuInfo == <<low, high, hasLow, ranges>>

Add(a, b) == (a + b) % W

(***************************************************************************)
(* dwarf_lowhighpc(): DW_AT_low_pc and DW_AT_high_pc as far as present.    *)
(***************************************************************************)
HasLowPc(d) == d.lowpc # None
HighPc(d) ==
  IF d.highpc = None THEN 0
  ELSE IF d.offset THEN Add(d.lowpc, d.highpc) ELSE d.highpc
HasBothPcs(d) == HasLowPc(d) /\ HighPc(d) # 0

Init ==
  /\ unit \in Units
  /\ die = unit /\ ptr = 0  \* until findInlined() is called
  /\ pc = "unit" /\ caller = "scan" /\ held = {}
  /\ low = 0 /\ high = 0 /\ hasLow = FALSE /\ ranges = <<>>
  /\ base = 0 /\ i = 1
  /\ fault = FALSE

-----------------------------------------------------------------------------
(* The unit's own bounds.                                                  *)

TakeUnitPcs ==
  /\ pc = "unit"
  /\ HasBothPcs(unit)
  /\ low' = unit.lowpc
  /\ high' = HighPc(unit)
  /\ pc' = "ready"
  /\ UNCHANGED <<inputs, caller, held, hasLow, ranges, base, i, fault>>

SeekUnitRanges ==
  /\ pc = "unit"
  /\ ~HasBothPcs(unit)
  /\ hasLow' = (HasLowPc(unit) /\ unit.lowpc # 0)
  /\ low' = IF hasLow' THEN unit.lowpc ELSE 0
  /\ high' = 0
  /\ pc' = "attr"
  /\ UNCHANGED <<inputs, caller, held, ranges, base, i, fault>>

-----------------------------------------------------------------------------
(* dwarf_ranges(), for the unit's DIE or for the function's.               *)

subject == IF caller = "scan" THEN unit ELSE die
NoRanges == IF caller = "scan" THEN "ready" ELSE "outside"

RangesAttr ==
  /\ pc = "attr"
  /\ IF subject.version = 0
       THEN pc' = NoRanges /\ UNCHANGED held
       ELSE pc' = "form" /\ held' = held \cup {"attr"}
  /\ UNCHANGED <<inputs, caller, cuInfo, base, i, fault>>

\* An early return that forgets to free the attribute.
RangesFailsHoldingAttr ==
  /\ pc \in {"attr", "form", "list"}
  /\ pc' = NoRanges
  /\ held' = IF pc = "form" THEN held ELSE held \ {"attr"}
  /\ fault' = TRUE
  /\ UNCHANGED <<inputs, caller, cuInfo, base, i>>

\* dwarf_attr(), dwarf_global_formref(), dwarf_get_version_of_die() or the
\* read of the list fails: the attribute is freed on every path.
RangesFails ==
  /\ pc \in {"attr", "form", "list"}
  /\ pc' = NoRanges
  /\ held' = held \ {"attr"}
  /\ fault' = TRUE
  /\ UNCHANGED <<inputs, caller, cuInfo, base, i>>

\* The list's offset and the DWARF version are known.
RangesForm ==
  /\ pc = "form"
  /\ pc' = "list"
  /\ UNCHANGED <<inputs, caller, held, cuInfo, base, i, fault>>

\* The caller starts its loop over the list, with cuInfo->low as the base.
RangesList ==
  /\ pc = "list"
  /\ held' = (held \ {"attr"}) \cup {"list"}
  /\ base' = low
  /\ i' = 1
  /\ pc' = IF caller = "scan" THEN "alloc" ELSE "test"
  /\ UNCHANGED <<inputs, caller, cuInfo, fault>>

\* The list is given back: dwarf_dealloc_ranges(), dwarf_dealloc_rnglists_head().
Release(next) ==
  /\ held' = held \ {"list"}
  /\ pc' = next
  /\ UNCHANGED <<inputs, caller, cuInfo, base, i, fault>>

-----------------------------------------------------------------------------
(* The scan of the unit's list.                                            *)

\* Room for the ranges; without it the loop has nothing to run over.
Alloc ==
  /\ pc = "alloc"
  /\ \/ pc' = "scan" /\ UNCHANGED fault
     \/ pc' = "release" /\ fault' = TRUE
  /\ UNCHANGED <<inputs, caller, held, cuInfo, base, i>>

\* The entry's bounds as absolute addresses.
Lo(dd, e, b) == IF dd.version <= 4 THEN Add(e.lo, b) ELSE e.lo
Hi(dd, e, b) == IF dd.version <= 4 THEN Add(e.hi, b) ELSE e.hi

More == i <= Len(subject.entries) /\ subject.entries[i].kind # "stop"

\* A loop that takes the wrong half of a base selection.
SelectLo ==
  /\ pc \in {"scan", "test"} /\ More
  /\ subject.entries[i].kind = "select"
  /\ base' = subject.entries[i].lo
  /\ i' = i + 1
  /\ UNCHANGED <<inputs, pc, caller, held, cuInfo, fault>>

\* The base selected applies to the entries after it, in both loops.
Select ==
  /\ pc \in {"scan", "test"} /\ More
  /\ subject.entries[i].kind = "select"
  /\ base' = subject.entries[i].hi
  /\ i' = i + 1
  /\ UNCHANGED <<inputs, pc, caller, held, cuInfo, fault>>

\* An end entry (before DWARF 5), or one without addresses (DWARF 5).
Skip ==
  /\ pc \in {"scan", "test"} /\ More
  /\ subject.entries[i].kind \in {"end", "skip"}
  /\ i' = i + 1
  /\ UNCHANGED <<inputs, pc, caller, held, cuInfo, base, fault>>

\* A range at address 0 is that of a function the linker has dropped.
ScanDropped ==
  /\ pc = "scan" /\ More
  /\ subject.entries[i].kind = "entry"
  /\ Lo(subject, subject.entries[i], base) = 0
  /\ i' = i + 1
  /\ UNCHANGED <<inputs, pc, caller, held, cuInfo, base, fault>>

\* A scan that lets the last range decide the envelope's end.
ScanEntryLastHigh ==
  /\ pc = "scan" /\ More
  /\ subject.entries[i].kind = "entry"
  /\ LET lo == Lo(subject, subject.entries[i], base)
         hi == Hi(subject, subject.entries[i], base)
     IN /\ lo # 0
        /\ low' = IF ~hasLow \/ lo < low THEN lo ELSE low
        /\ high' = hi
        /\ ranges' = Append(ranges, [low |-> lo, high |-> hi])
  /\ hasLow' = TRUE
  /\ i' = i + 1
  /\ UNCHANGED <<inputs, pc, caller, held, base, fault>>

\* The envelope is widened and the range recorded.
ScanEntry ==
  /\ pc = "scan" /\ More
  /\ subject.entries[i].kind = "entry"
  /\ LET lo == Lo(subject, subject.entries[i], base)
         hi == Hi(subject, subject.entries[i], base)
     IN /\ lo # 0
        /\ low' = IF ~hasLow \/ lo < low THEN lo ELSE low
        /\ high' = IF hi > high THEN hi ELSE high
        /\ ranges' = Append(ranges, [low |-> lo, high |-> hi])
  /\ hasLow' = TRUE
  /\ i' = i + 1
  /\ UNCHANGED <<inputs, pc, caller, held, base, fault>>

ScanEnd == pc = "scan" /\ ~More /\ Release("ready")
ScanReleases == pc = "release" /\ Release("ready")

-----------------------------------------------------------------------------
(* findInlined()'s test of a function of this unit.                        *)

InlinePcs ==
  /\ pc = "ready"
  /\ die' \in Dies /\ ptr' \in Ptrs
  /\ caller' = "inline"
  /\ fault' = FALSE
  /\ pc' = IF ~HasBothPcs(die') THEN "attr"
           ELSE IF die'.lowpc <= ptr' /\ ptr' < HighPc(die') THEN "covered"
           ELSE "outside"
  /\ UNCHANGED <<unit, held, cuInfo, base, i>>

InsideEntry ==
  /\ Lo(subject, subject.entries[i], base) <= ptr
  /\ ptr < Hi(subject, subject.entries[i], base)

TestEntry ==
  /\ pc = "test" /\ More
  /\ subject.entries[i].kind = "entry"
  /\ ~InsideEntry
  /\ i' = i + 1
  /\ UNCHANGED <<inputs, pc, caller, held, cuInfo, base, fault>>

TestHit ==
  /\ pc = "test" /\ More
  /\ subject.entries[i].kind = "entry"
  /\ InsideEntry
  /\ Release("covered")

TestEnd == pc = "test" /\ ~More /\ Release("outside")

Terminated == pc \in {"covered", "outside"} /\ UNCHANGED vars

Next ==
  \/ TakeUnitPcs \/ SeekUnitRanges
  \/ RangesAttr \/ RangesFails \/ RangesForm \/ RangesList
  \/ Alloc \/ Select \/ Skip \/ ScanDropped \/ ScanEntry \/ ScanEnd \/ ScanReleases
  \/ InlinePcs \/ TestEntry \/ TestHit \/ TestEnd
  \/ Terminated

Spec == Init /\ [][Next]_vars

-----------------------------------------------------------------------------
(* What a list means, independent of the loops over it.                    *)

\* b is the base in force for entry j of dd's list if it starts out as b0.
IsBase(dd, j, b0, b) ==
  \/ /\ b = b0
     /\ \A s \in 1 .. j - 1 : dd.entries[s].kind # "select"
  \/ \E s \in 1 .. j - 1 :
       /\ dd.entries[s].kind = "select"
       /\ dd.entries[s].hi = b
       /\ \A t \in s + 1 .. j - 1 : dd.entries[t].kind # "select"

\* Entry j is part of dd's list, b the base in force for it.
Listed(dd, j, b0, b) ==
  /\ dd.entries[j].kind = "entry"
  /\ \A s \in 1 .. j : dd.entries[s].kind # "stop"
  /\ IsBase(dd, j, b0, b)

\* Entry e, with base b, holds the address p.
Holds(dd, e, b, p) == Lo(dd, e, b) <= p /\ p < Hi(dd, e, b)

\* The base of a unit's lists is its DW_AT_low_pc, or 0.
UnitBase == IF HasLowPc(unit) THEN unit.lowpc ELSE 0

\* Some entry of the list holds p; a unit's dropped functions do not count.
ListClaims(dd, p) ==
  \E j \in 1 .. Len(dd.entries), b \in Addr :
    Listed(dd, j, UnitBase, b) /\ Holds(dd, dd.entries[j], b, p)
UnitListClaims(p) ==
  \E j \in 1 .. Len(unit.entries), b \in Addr :
    /\ Listed(unit, j, UnitBase, b)
    /\ Holds(unit, unit.entries[j], b, p)
    /\ Lo(unit, unit.entries[j], b) # 0

UnitClaims(p) ==
  IF HasBothPcs(unit) THEN unit.lowpc <= p /\ p < HighPc(unit)
  ELSE unit.version # 0 /\ UnitListClaims(p)

DieClaims ==
  IF HasBothPcs(die) THEN die.lowpc <= ptr /\ ptr < HighPc(die)
  ELSE die.version # 0 /\ ListClaims(die, ptr)

-----------------------------------------------------------------------------

Bounds == [low : Addr, high : Addr]

\* The variables' types, and which handle is out in which place.
TypeOK ==
  /\ unit \in Die /\ die \in Die /\ ptr \in Addr
  /\ pc \in {"unit", "attr", "form", "list", "alloc", "scan", "release",
             "ready", "test", "covered", "outside"}
  /\ caller \in {"scan", "inline"}
  /\ held \subseteq {"attr", "list"}
  /\ low \in Addr /\ high \in Addr /\ hasLow \in BOOLEAN
  /\ ranges \in Seq(Bounds)
  /\ base \in Addr
  /\ i \in Nat \ {0}
  /\ fault \in BOOLEAN

\* Whichever of the calls fails, no attribute or list stays allocated,
\* and what is read stays an address.
HandlesReleased ==
  /\ TypeOK
  /\ pc \in {"unit", "attr", "ready", "covered", "outside"} => held = {}
  /\ pc \in {"form", "list"} => held = {"attr"}
  /\ pc \in {"alloc", "scan", "release", "test"} => held = {"list"}

Scanned == pc \in {"ready", "test", "covered", "outside"} \/ caller = "inline"

\* The envelope holds every recorded range, so testing it first loses nothing.
Envelope ==
  ranges # <<>> =>
    \A k \in 1 .. Len(ranges) :
      ranges[k].low # 0 /\ low <= ranges[k].low /\ ranges[k].high <= high

\* The unit is never passed over for an address that it describes, whichever
\* calls failed while its ranges were read.
FilterConservative ==
  Scanned => \A p \in Ptrs : UnitClaims(p) => Accepts(low, high, ranges, p)

\* A unit with recorded ranges is asked about no address outside of them.
FilterExact ==
  (Scanned /\ ranges # <<>>) =>
    \A p \in Ptrs : Accepts(low, high, ranges, p) => UnitClaims(p)

\* The scan has left DW_AT_low_pc in cuInfo->low, or the list needs no base.
BaseIntact == low = UnitBase \/ die.version = 5

\* As long as cuInfo->low is the unit's base address, findInlined() takes a
\* function for one that holds the address exactly if its ranges say so.
InlineTestExact ==
  BaseIntact =>
    /\ pc = "covered" => DieClaims
    /\ (pc = "outside" /\ ~fault) => ~DieClaims

\* The same without the proviso: a function's ranges, offsets from the unit's
\* base address, are read as such.
InlineTestAgrees ==
  /\ pc = "covered" => DieClaims
  /\ (pc = "outside" /\ ~fault) => ~DieClaims

=============================================================================
