--------------------------- MODULE CuRangesProofs ----------------------------
(***************************************************************************)
(* For every width of addresses, every unit and every range list: the scan *)
(* of dwstOfFileExt() keeps what the unit's debug information claims, no   *)
(* less if a call fails and no more, and gives back what libdwarf gave it. *)
(* The invariant says that the base in the loop is the one in force for    *)
(* the entry it has come to, that the ranges recorded are those of the     *)
(* entries before it, and that the envelope holds them.  Of the list that  *)
(* it scans: a range that libdwarf hands out is the one its entry gives,   *)
(* and of a whole list none is missing.                                    *)
(***************************************************************************)
EXTENDS RangeLists, TLAPS

\* The loop reads entry n next: every entry before it that has a range is
\* recorded, and nothing else is.
Recorded(n) ==
  /\ \A j \in 1 .. Len(unit.entries), b \in Addr :
       (j < n /\ Listed(unit, j, UnitBase, b) /\ Lo(unit, unit.entries[j], b) # 0) =>
         \E k \in 1 .. Len(ranges) :
           /\ ranges[k].low = Lo(unit, unit.entries[j], b)
           /\ ranges[k].high = Hi(unit, unit.entries[j], b)
  /\ \A k \in 1 .. Len(ranges) :
       \E j \in 1 .. Len(unit.entries), b \in Addr :
         /\ Listed(unit, j, UnitBase, b)
         /\ ranges[k].low = Lo(unit, unit.entries[j], b)
         /\ ranges[k].high = Hi(unit, unit.entries[j], b)

\* Which caller reads the list is known from the place in the code.
Callers ==
  /\ pc \in {"unit", "alloc", "scan", "release"} => caller = "scan"
  /\ pc \in {"test", "covered", "outside"} => caller = "inline"

\* Before the loop the unit's low address stands alone.
NothingYet ==
  (caller = "scan" /\ pc \in {"unit", "attr", "form", "list", "alloc", "release"}) =>
    /\ ranges = <<>>
    /\ pc # "unit" => ~HasBothPcs(unit) /\ low = UnitBase /\ high = 0
    /\ pc \in {"form", "list", "alloc"} => unit.version # 0
    /\ pc = "alloc" => base = UnitBase /\ i = 1

Halfway ==
  pc = "scan" =>
    /\ ~HasBothPcs(unit) /\ unit.version # 0
    /\ i <= Len(unit.entries) + 1
    /\ \A s \in 1 .. i - 1 : unit.entries[s].kind # "stop"
    /\ IsBase(unit, i, UnitBase, base)
    /\ Recorded(i)

\* What the scan leaves behind: the unit's own bounds, nothing, or its list.
Complete ==
  Scanned =>
    \/ HasBothPcs(unit) /\ low = unit.lowpc /\ high = HighPc(unit) /\ ranges = <<>>
    \/ ~HasBothPcs(unit) /\ high = 0 /\ ranges = <<>>
    \/ ~HasBothPcs(unit) /\ unit.version # 0 /\ Recorded(Len(unit.entries) + 1)

Widened == Envelope /\ (ranges # <<>> => hasLow)

IInv == HandlesReleased /\ Callers /\ NothingYet /\ Halfway /\ Complete /\ Widened

-----------------------------------------------------------------------------
(* The operators.                                                          *)

\* A sum that wraps around is an address.
LEMMA AddType ==
  ASSUME NEW a \in Addr, NEW b \in Addr
  PROVE  Add(a, b) \in Addr
  BY WAssumption DEF Add, Addr

\* What the attributes of a DIE can be.
LEMMA DieParts ==
  ASSUME NEW d \in Die
  PROVE  /\ Len(d.entries) \in Nat
         /\ \A j \in 1 .. Len(d.entries) :
              d.entries[j].lo \in Addr /\ d.entries[j].hi \in Addr
         /\ HasLowPc(d) => d.lowpc \in Addr
         /\ HasBothPcs(d) => HighPc(d) \in Addr
  <1>1. d.entries \in Seq(Entry) /\ d.lowpc \in Addr \cup {None} /\ d.highpc \in Addr \cup {None}
    BY DEF Die
  <1>2. \A j \in 1 .. Len(d.entries) : d.entries[j] \in Entry
    BY <1>1
  <1>3. HasLowPc(d) => d.lowpc \in Addr
    BY <1>1 DEF HasLowPc
  <1>4. HasBothPcs(d) => HighPc(d) \in Addr
    BY <1>1, <1>3, AddType DEF HasBothPcs, HighPc
  <1>5. QED
    BY <1>1, <1>2, <1>3, <1>4 DEF Entry

\* An element of a sequence over S is in S.
LEMMA ElementType ==
  ASSUME NEW S, NEW q \in Seq(S), NEW k \in 1 .. Len(q)
  PROVE  q[k] \in S
  OBVIOUS

\* An entry's bounds are addresses.
LEMMA BoundsType ==
  ASSUME NEW d \in Die, NEW j \in 1 .. Len(d.entries), NEW b \in Addr
  PROVE  Lo(d, d.entries[j], b) \in Addr /\ Hi(d, d.entries[j], b) \in Addr
  BY DieParts, AddType DEF Lo, Hi

\* At most one base is in force for an entry.
LEMMA BaseUnique ==
  ASSUME NEW d, NEW j \in Nat, NEW b0, NEW b1, NEW b2,
         IsBase(d, j, b0, b1), IsBase(d, j, b0, b2)
  PROVE  b1 = b2
  <1> DEFINE Last(s, b) ==
        /\ s \in 1 .. j - 1
        /\ d.entries[s].kind = "select" /\ d.entries[s].hi = b
        /\ \A t \in s + 1 .. j - 1 : d.entries[t].kind # "select"
  <1>1. CASE \A s \in 1 .. j - 1 : d.entries[s].kind # "select"
    BY <1>1 DEF IsBase
  <1>2. CASE ~ \A s \in 1 .. j - 1 : d.entries[s].kind # "select"
    <2>1. PICK s1 : Last(s1, b1)
      BY <1>2 DEF IsBase
    <2>2. PICK s2 : Last(s2, b2)
      BY <1>2 DEF IsBase
    <2>3. s1 = s2
      BY <2>1, <2>2
    <2>4. QED
      BY <2>1, <2>2, <2>3
  <1>3. QED
    BY <1>1, <1>2

\* An entry that selects no base leaves the one in force to the next entry.
LEMMA BaseKept ==
  ASSUME NEW d, NEW j \in Nat \ {0}, NEW b0, NEW b,
         IsBase(d, j, b0, b), d.entries[j].kind # "select"
  PROVE  IsBase(d, j + 1, b0, b)
  <1>1. \A s \in 1 .. j : s \in 1 .. j - 1 \/ s = j
    OBVIOUS
  <1>2. CASE b = b0 /\ \A s \in 1 .. j - 1 : d.entries[s].kind # "select"
    BY <1>1, <1>2 DEF IsBase
  <1>3. CASE \E s \in 1 .. j - 1 :
               /\ d.entries[s].kind = "select" /\ d.entries[s].hi = b
               /\ \A t \in s + 1 .. j - 1 : d.entries[t].kind # "select"
    <2>1. PICK s \in 1 .. j - 1 :
            /\ d.entries[s].kind = "select" /\ d.entries[s].hi = b
            /\ \A t \in s + 1 .. j - 1 : d.entries[t].kind # "select"
      BY <1>3
    <2>2. \A t \in s + 1 .. j : d.entries[t].kind # "select"
      BY <2>1
    <2>3. s \in 1 .. (j + 1) - 1 /\ (j + 1) - 1 = j
      OBVIOUS
    <2>4. QED
      BY <2>1, <2>2, <2>3 DEF IsBase
  <1>4. QED
    BY <1>2, <1>3 DEF IsBase

\* A selection puts its base in force for the next entry.
LEMMA BaseSelected ==
  ASSUME NEW d, NEW j \in Nat \ {0}, NEW b0, d.entries[j].kind = "select"
  PROVE  IsBase(d, j + 1, b0, d.entries[j].hi)
  <1>1. j \in 1 .. (j + 1) - 1 /\ \A t \in j + 1 .. (j + 1) - 1 : FALSE
    OBVIOUS
  <1>2. QED
    BY <1>1 DEF IsBase

\* The base of a unit's lists is an address, also without DW_AT_low_pc.
LEMMA UnitBaseType ==
  ASSUME unit \in Die
  PROVE  UnitBase \in Addr
  <1>1. 0 \in Addr
    BY WAssumption DEF Addr
  <1>2. QED
    BY <1>1, DieParts DEF UnitBase

-----------------------------------------------------------------------------
(* Steps of the loop over the unit's list.                                 *)

\* An entry that is not recorded, or is in no list, leaves the rest as it is.
LEMMA RecordedBeyond ==
  ASSUME unit \in Die, i \in Nat \ {0}, i <= Len(unit.entries), base \in Addr,
         IsBase(unit, i, UnitBase, base), Recorded(i),
         \/ unit.entries[i].kind # "entry"
         \/ Lo(unit, unit.entries[i], base) = 0
  PROVE  Recorded(i + 1)
  <1>1. ASSUME NEW j \in 1 .. Len(unit.entries), NEW b \in Addr,
               j < i + 1, Listed(unit, j, UnitBase, b), Lo(unit, unit.entries[j], b) # 0
        PROVE  j < i
    <2>1. ASSUME j = i
          PROVE  FALSE
      <3>1. unit.entries[i].kind = "entry" /\ IsBase(unit, i, UnitBase, b)
        BY <1>1, <2>1 DEF Listed
      <3>2. b = base
        BY <3>1, BaseUnique
      <3>3. QED
        BY <1>1, <2>1, <3>1, <3>2
    <2>2. QED
      BY <1>1, <2>1
  <1>2. QED
    BY <1>1 DEF Recorded

\* The entry's range is recorded.
LEMMA RecordedNext ==
  ASSUME IInv, ScanEntry
  PROVE  Recorded(i)'
  <1> DEFINE lo == Lo(unit, unit.entries[i], base)
             hi == Hi(unit, unit.entries[i], base)
             new == [low |-> lo, high |-> hi]
  <1>1. /\ unit \in Die /\ base \in Addr /\ i \in Nat \ {0}
        /\ ranges \in Seq(Bounds)
    BY DEF IInv, HandlesReleased, TypeOK
  <1>2. /\ subject = unit /\ i <= Len(unit.entries) /\ unit.entries[i].kind = "entry"
    BY DEF ScanEntry, More, IInv, Callers, subject
  <1>3. /\ unit' = unit /\ i' = i + 1 /\ ranges' = Append(ranges, new)
    BY <1>2 DEF ScanEntry, inputs
  <1>4. /\ IsBase(unit, i, UnitBase, base) /\ Recorded(i)
        /\ \A s \in 1 .. i - 1 : unit.entries[s].kind # "stop"
    BY DEF ScanEntry, IInv, Halfway
  <1>5. Len(unit.entries) \in Nat /\ lo \in Addr /\ hi \in Addr
    BY <1>1, <1>2, DieParts, BoundsType
  <1>6. /\ Len(ranges) \in Nat /\ Len(ranges') = Len(ranges) + 1
        /\ \A k \in 1 .. Len(ranges) : ranges'[k] = ranges[k]
        /\ ranges'[Len(ranges) + 1].low = lo /\ ranges'[Len(ranges) + 1].high = hi
    BY <1>1, <1>3, <1>5
  <1>7. ASSUME NEW j \in 1 .. Len(unit.entries), NEW b \in Addr,
               j < i + 1, Listed(unit, j, UnitBase, b), Lo(unit, unit.entries[j], b) # 0
        PROVE  \E k \in 1 .. Len(ranges') :
                 /\ ranges'[k].low = Lo(unit, unit.entries[j], b)
                 /\ ranges'[k].high = Hi(unit, unit.entries[j], b)
    <2>1. CASE j < i
      <3>1. PICK k \in 1 .. Len(ranges) :
              /\ ranges[k].low = Lo(unit, unit.entries[j], b)
              /\ ranges[k].high = Hi(unit, unit.entries[j], b)
        BY <1>4, <1>7, <2>1 DEF Recorded
      <3>2. QED
        BY <1>6, <3>1
    <2>2. CASE j = i
      <3>1. b = base
        BY <1>1, <1>4, <1>7, <2>2, BaseUnique DEF Listed
      <3>2. Len(ranges) + 1 \in 1 .. Len(ranges')
        BY <1>6
      <3>3. QED
        BY <1>6, <2>2, <3>1, <3>2
    <2>3. QED
      BY <1>1, <1>7, <2>1, <2>2
  <1>8. Listed(unit, i, UnitBase, base)
    <2>1. \A s \in 1 .. i : s \in 1 .. i - 1 \/ s = i
      BY <1>1
    <2>2. QED
      BY <1>2, <1>4, <2>1 DEF Listed
  <1>9. ASSUME NEW k \in 1 .. Len(ranges')
        PROVE  \E j \in 1 .. Len(unit.entries), b \in Addr :
                 /\ Listed(unit, j, UnitBase, b)
                 /\ ranges'[k].low = Lo(unit, unit.entries[j], b)
                 /\ ranges'[k].high = Hi(unit, unit.entries[j], b)
    <2>1. CASE k \in 1 .. Len(ranges)
      BY <1>4, <1>6, <2>1 DEF Recorded
    <2>2. CASE k = Len(ranges) + 1
      <3>1. i \in 1 .. Len(unit.entries)
        BY <1>1, <1>2, <1>5
      <3>2. QED
        BY <1>1, <1>6, <1>8, <2>2, <3>1
    <2>3. QED
      BY <1>6, <2>1, <2>2
  <1>10. UnitBase' = UnitBase
    BY <1>3 DEF UnitBase
  <1>11. QED
    BY <1>3, <1>7, <1>9, <1>10 DEF Recorded

\* The envelope holds the new range, and holds the old ones still.
LEMMA Widening ==
  ASSUME IInv, ScanEntry
  PROVE  Widened'
  <1> DEFINE lo == Lo(unit, unit.entries[i], base)
             hi == Hi(unit, unit.entries[i], base)
  <1>1. /\ subject = unit /\ i \in 1 .. Len(unit.entries)
        /\ unit \in Die /\ base \in Addr /\ low \in Addr /\ high \in Addr
        /\ ranges \in Seq(Bounds)
    BY DieParts DEF ScanEntry, More, IInv, Callers, subject, HandlesReleased, TypeOK
  <1>2. lo \in Addr /\ hi \in Addr
    BY <1>1, BoundsType
  <1>3. /\ lo # 0 /\ hasLow' = TRUE
        /\ low' = (IF ~hasLow \/ lo < low THEN lo ELSE low)
        /\ high' = (IF hi > high THEN hi ELSE high)
        /\ ranges' = Append(ranges, [low |-> lo, high |-> hi])
    BY <1>1 DEF ScanEntry
  <1>4. low' <= lo /\ (ranges # <<>> => low' <= low) /\ hi <= high' /\ high <= high'
    BY <1>1, <1>2, <1>3 DEF Addr, IInv, Widened
  <1>5. /\ Len(ranges) \in Nat /\ Len(ranges') = Len(ranges) + 1
        /\ \A k \in 1 .. Len(ranges) : ranges'[k] = ranges[k]
        /\ ranges'[Len(ranges) + 1] = [low |-> lo, high |-> hi]
    BY <1>1, <1>2, <1>3
  <1>6. ASSUME NEW k \in 1 .. Len(ranges')
        PROVE  ranges'[k].low # 0 /\ low' <= ranges'[k].low /\ ranges'[k].high <= high'
    <2>1. CASE k \in 1 .. Len(ranges)
      <3>1. ranges # <<>> /\ ranges[k].low \in Addr /\ ranges[k].high \in Addr
        <4>1. ranges[k] \in Bounds
          BY <1>1, <2>1, ElementType
        <4>2. Len(ranges) # 0
          BY <1>5, <2>1
        <4>3. QED
          BY <1>1, <4>1, <4>2 DEF Bounds
      <3>2. ranges[k].low # 0 /\ low <= ranges[k].low /\ ranges[k].high <= high
        BY <2>1, <3>1 DEF IInv, Widened, Envelope
      <3>3. low' \in Addr /\ high' \in Addr
        BY <1>1, <1>2, <1>3
      <3>4. low' <= low /\ high <= high' /\ ranges'[k] = ranges[k]
        BY <1>4, <1>5, <2>1, <3>1
      <3>5. /\ low \in Int /\ low' \in Int /\ high \in Int /\ high' \in Int
            /\ ranges[k].low \in Int /\ ranges[k].high \in Int
        BY <1>1, <3>1, <3>3 DEF Addr
      <3>6. QED
        BY <3>2, <3>4, <3>5
    <2>2. CASE k = Len(ranges) + 1
      BY <1>3, <1>4, <1>5, <2>2
    <2>3. QED
      BY <1>5, <2>1, <2>2
  <1>7. QED
    BY <1>3, <1>6 DEF Widened, Envelope

-----------------------------------------------------------------------------
(* The invariant.                                                          *)

\* Before the unit is looked at: its fields are as they begin, whatever it is.
Fresh ==
  /\ unit \in Die
  /\ die = unit /\ ptr = 0
  /\ pc = "unit" /\ caller = "scan" /\ held = {}
  /\ low = 0 /\ high = 0 /\ hasLow = FALSE /\ ranges = <<>>
  /\ base = 0 /\ i = 1
  /\ fault = FALSE

\* Nothing has been taken when the scan begins.
LEMMA InitFresh == Init => Fresh
  BY DiesAssumption DEF Init, Fresh

\* Then nothing is held or recorded.
LEMMA FreshEstablishes == Fresh => IInv
  <1> SUFFICES ASSUME Fresh PROVE IInv
    OBVIOUS
  <1>1. 0 \in Addr
    BY WAssumption DEF Addr
  <1>2. unit \in Die /\ die \in Die /\ ranges \in Seq(Bounds)
    BY DEF Fresh
  <1>3. TypeOK
    <2>1. /\ low \in Addr /\ high \in Addr /\ base \in Addr /\ ptr \in Addr
          /\ i \in Nat \ {0} /\ held = {} /\ pc = "unit" /\ caller = "scan"
      BY <1>1 DEF Fresh
    <2>2. hasLow \in BOOLEAN /\ fault \in BOOLEAN
      BY DEF Fresh
    <2>3. QED
      BY <1>2, <2>1, <2>2 DEF TypeOK
  <1>4. HandlesReleased
    BY <1>3 DEF Fresh, HandlesReleased
  <1>5. Callers /\ NothingYet /\ Halfway /\ Complete /\ Widened
    BY DEF Fresh, Callers, NothingYet, Halfway, Complete, Scanned, Widened, Envelope
  <1>6. QED
    BY <1>4, <1>5 DEF IInv

\* A scan that begins anew satisfies the invariant.
LEMMA FreshAgain == Fresh' => IInv'
  BY FreshEstablishes, PTL

\* The unit's own bounds are taken, or its list is sought.
LEMMA UnitPreserves ==
  ASSUME IInv, TakeUnitPcs \/ SeekUnitRanges
  PROVE  IInv'
  <1>1. /\ pc = "unit" /\ caller = "scan" /\ held = {} /\ ranges = <<>>
        /\ UNCHANGED <<unit, die, ptr, caller, held, ranges, base, i, fault>>
    BY DEF IInv, HandlesReleased, Callers, NothingYet, TakeUnitPcs, SeekUnitRanges, inputs
  <1>2. TypeOK
    BY DEF IInv, HandlesReleased
  <1>3. UnitBase' = UnitBase /\ HasBothPcs(unit)' = HasBothPcs(unit)
        /\ HighPc(unit)' = HighPc(unit)
    BY <1>1 DEF UnitBase, HasLowPc, HasBothPcs, HighPc
  <1>4. 0 \in Addr
    BY WAssumption DEF Addr
  <1>5. CASE TakeUnitPcs
    <2>1. HasBothPcs(unit) /\ low' = unit.lowpc /\ high' = HighPc(unit) /\ pc' = "ready"
          /\ UNCHANGED hasLow
      BY <1>5 DEF TakeUnitPcs
    <2>2. low' \in Addr /\ high' \in Addr
      BY <1>2, <2>1, DieParts DEF TypeOK, HasBothPcs
    <2>3. TypeOK'
      BY <1>1, <1>2, <2>1, <2>2 DEF TypeOK
    <2>4. HandlesReleased'
      BY <1>1, <2>1, <2>3 DEF HandlesReleased
    <2>5. (Callers /\ NothingYet /\ Halfway /\ Complete /\ Widened)'
      BY <1>1, <1>3, <2>1 DEF Callers, NothingYet, Halfway, Complete, Widened, Envelope
    <2>6. QED
      BY <2>4, <2>5 DEF IInv
  <1>6. CASE SeekUnitRanges
    <2>1. ~HasBothPcs(unit) /\ high' = 0 /\ pc' = "attr"
      BY <1>6 DEF SeekUnitRanges
    <2>2. hasLow' \in BOOLEAN
      BY <1>6 DEF SeekUnitRanges
    <2>3. low' = UnitBase
      BY <1>6 DEF SeekUnitRanges, UnitBase
    <2>4. low' \in Addr
      BY <1>2, <2>3, UnitBaseType DEF TypeOK
    <2>5. TypeOK'
      BY <1>1, <1>2, <1>4, <2>1, <2>2, <2>4 DEF TypeOK
    <2>6. HandlesReleased'
      BY <1>1, <2>1, <2>5 DEF HandlesReleased
    <2>7. (Callers /\ NothingYet /\ Halfway /\ Complete /\ Widened)'
      BY <1>1, <1>3, <2>1, <2>3
         DEF Callers, NothingYet, Halfway, Complete, Scanned, Widened, Envelope
    <2>8. QED
      BY <2>6, <2>7 DEF IInv
  <1>7. QED
    BY <1>5, <1>6

\* A step that leaves the unit and its fields alone, as most do.
LEMMA FieldsKept ==
  ASSUME IInv, UNCHANGED <<unit, low, high, hasLow, ranges>>
  PROVE  /\ Widened'
         /\ UnitBase' = UnitBase
         /\ \A n \in Nat : Recorded(n)' <=> Recorded(n)
         /\ Scanned /\ Scanned' => Complete'
  <1>1. UnitBase' = UnitBase
    BY DEF UnitBase
  <1>2. Widened'
    BY DEF IInv, Widened, Envelope
  <1>3. \A n \in Nat : Recorded(n)' <=> Recorded(n)
    BY <1>1 DEF Recorded
  <1>4. unit \in Die
    BY DEF IInv, HandlesReleased, TypeOK
  <1>5. Len(unit.entries) + 1 \in Nat
    BY <1>4, DieParts
  <1>6. Recorded(Len(unit.entries) + 1)' <=> Recorded(Len(unit.entries) + 1)
    BY <1>1 DEF Recorded
  <1>7. Scanned /\ Scanned' => Complete'
    BY <1>6 DEF IInv, Complete
  <1>8. QED
    BY <1>1, <1>2, <1>3, <1>7

\* dwarf_ranges() goes on, returns a list, or fails.
LEMMA ReadingPreserves ==
  ASSUME IInv, RangesAttr \/ RangesFails \/ RangesForm \/ RangesList
  PROVE  IInv'
  <1>1. TypeOK /\ HandlesReleased
    BY DEF IInv, HandlesReleased
  <1>2. UNCHANGED <<unit, die, ptr, caller, low, high, hasLow, ranges>>
    BY DEF RangesAttr, RangesFails, RangesForm, RangesList, inputs, cuInfo
  <1>3. Widened' /\ UnitBase' = UnitBase /\ (Scanned /\ Scanned' => Complete')
    BY <1>2, FieldsKept
  <1>4. fault' \in BOOLEAN
    BY <1>1 DEF RangesAttr, RangesFails, RangesForm, RangesList, TypeOK
  <1>5. /\ i' \in Nat \ {0} /\ base' \in Addr
        /\ \/ pc' = NoRanges /\ held' = {}
           \/ pc = "attr" /\ pc' = "form" /\ held' = {"attr"} /\ subject.version # 0
           \/ pc = "form" /\ pc' = "list" /\ held' = {"attr"}
           \/ pc = "list" /\ caller = "scan" /\ pc' = "alloc" /\ held' = {"list"}
              /\ base' = low /\ i' = 1
           \/ pc = "list" /\ caller = "inline" /\ pc' = "test" /\ held' = {"list"}
    <2>1. CASE RangesAttr
      BY <1>1, <2>1 DEF RangesAttr, HandlesReleased, TypeOK
    <2>2. CASE RangesFails
      BY <1>1, <2>2 DEF RangesFails, HandlesReleased, TypeOK
    <2>3. CASE RangesForm
      BY <1>1, <2>3 DEF RangesForm, HandlesReleased, TypeOK
    <2>4. CASE RangesList
      BY <1>1, <2>4 DEF RangesList, HandlesReleased, TypeOK
    <2>5. QED
      BY <2>1, <2>2, <2>3, <2>4
  <1>6. NoRanges \in {"ready", "outside"} /\ (NoRanges = "ready" <=> caller = "scan")
    BY <1>1 DEF NoRanges, TypeOK
  <1>7. pc' \in {"ready", "outside", "form", "list", "alloc", "test"} /\ held' \subseteq {"attr", "list"}
    BY <1>5, <1>6
  <1>8. TypeOK'
    BY <1>1, <1>2, <1>4, <1>5, <1>7 DEF TypeOK
  <1>9. HandlesReleased'
    BY <1>5, <1>6, <1>8 DEF HandlesReleased
  <1>10. Callers'
    BY <1>1, <1>2, <1>5, <1>6 DEF Callers, TypeOK
  <1>11. pc \in {"attr", "form", "list"}
    BY DEF RangesAttr, RangesFails, RangesForm, RangesList
  <1>12. caller = "scan" =>
           /\ ranges = <<>> /\ ~HasBothPcs(unit) /\ low = UnitBase /\ high = 0
           /\ pc \in {"form", "list"} => unit.version # 0
    BY <1>11 DEF IInv, NothingYet
  <1>13. NothingYet'
    BY <1>2, <1>3, <1>5, <1>6, <1>12 DEF NothingYet, subject
  <1>14. Halfway'
    BY <1>7 DEF Halfway
  <1>15. Complete'
    <2>1. CASE caller = "scan"
      BY <1>2, <1>12, <2>1 DEF Complete
    <2>2. CASE caller = "inline"
      BY <1>2, <1>3, <2>2 DEF Scanned
    <2>3. QED
      BY <1>1, <2>1, <2>2 DEF TypeOK
  <1>16. QED
    BY <1>3, <1>9, <1>10, <1>13, <1>14, <1>15 DEF IInv

\* The loop over the unit's list begins, or there is no room for its ranges.
LEMMA AllocPreserves ==
  ASSUME IInv, Alloc \/ ScanReleases
  PROVE  IInv'
  <1>1. TypeOK /\ HandlesReleased
    BY DEF IInv, HandlesReleased
  <1>2. /\ UNCHANGED <<unit, die, ptr, caller, low, high, hasLow, ranges, base, i>>
        /\ pc \in {"alloc", "release"}
        /\ fault' \in BOOLEAN
        /\ \/ pc = "alloc" /\ pc' \in {"scan", "release"} /\ held' = held
           \/ pc' = "ready" /\ held' = {}
    BY <1>1 DEF Alloc, ScanReleases, Release, inputs, cuInfo, HandlesReleased, TypeOK
  <1>3. Widened' /\ UnitBase' = UnitBase
    BY <1>2, FieldsKept
  <1>4. /\ caller = "scan" /\ ranges = <<>> /\ ~HasBothPcs(unit)
        /\ low = UnitBase /\ high = 0
        /\ pc = "alloc" => unit.version # 0 /\ base = UnitBase /\ i = 1
    BY <1>2 DEF IInv, Callers, NothingYet
  <1>5. TypeOK'
    BY <1>1, <1>2 DEF TypeOK
  <1>6. HandlesReleased'
    BY <1>1, <1>2, <1>5 DEF HandlesReleased
  <1>7. Callers' /\ NothingYet'
    BY <1>2, <1>3, <1>4 DEF Callers, NothingYet
  <1>8. Halfway'
    <2>1. SUFFICES ASSUME pc' = "scan"
                   PROVE  /\ ~HasBothPcs(unit) /\ unit.version # 0
                          /\ i <= Len(unit.entries) + 1
                          /\ \A s \in 1 .. i - 1 : unit.entries[s].kind # "stop"
                          /\ IsBase(unit, i, UnitBase, base)
                          /\ Recorded(i)'
      BY <1>2, <1>3 DEF Halfway
    <2>2. pc = "alloc" /\ i = 1 /\ base = UnitBase
      BY <1>2, <1>4, <2>1
    <2>3. Len(unit.entries) \in Nat
      BY <1>1, DieParts DEF TypeOK
    <2>4. IsBase(unit, i, UnitBase, base)
      BY <2>2 DEF IsBase
    <2>5. ranges' = <<>> /\ i' = 1
      BY <1>2, <1>4, <2>2
    <2>6. Recorded(i)'
      BY <2>5 DEF Recorded
    <2>7. QED
      BY <1>4, <2>2, <2>3, <2>4, <2>6
  <1>9. Complete'
    BY <1>2, <1>4 DEF Complete
  <1>10. QED
    BY <1>3, <1>6, <1>7, <1>8, <1>9 DEF IInv

\* The scan steps over an entry without recording a range.
LEMMA SteppingPreserves ==
  ASSUME IInv, Select \/ Skip \/ ScanDropped \/ TestEntry
  PROVE  IInv'
  <1>1. TypeOK /\ HandlesReleased
    BY DEF IInv, HandlesReleased
  <1>2. /\ UNCHANGED <<unit, die, ptr, pc, caller, held, low, high, hasLow, ranges, fault>>
        /\ pc \in {"scan", "test"} /\ i' = i + 1 /\ More
    BY DEF Select, Skip, ScanDropped, TestEntry, inputs, cuInfo
  <1>3. /\ Widened' /\ UnitBase' = UnitBase /\ (Scanned /\ Scanned' => Complete')
        /\ \A n \in Nat : Recorded(n)' <=> Recorded(n)
    BY <1>2, FieldsKept
  <1>4. /\ unit \in Die /\ die \in Die /\ i \in Nat \ {0} /\ base \in Addr
        /\ subject \in Die /\ i <= Len(subject.entries)
    BY <1>1, <1>2 DEF TypeOK, subject, More
  <1>5. i \in 1 .. Len(subject.entries) /\ i' \in Nat \ {0}
    BY <1>2, <1>4, DieParts
  <1>6. base' \in Addr
    BY <1>4, <1>5, DieParts DEF Select, Skip, ScanDropped, TestEntry
  <1>7. TypeOK'
    BY <1>1, <1>2, <1>5, <1>6 DEF TypeOK
  <1>8. HandlesReleased'
    BY <1>1, <1>2, <1>7 DEF HandlesReleased
  <1>9. Callers' /\ NothingYet'
    BY <1>2, <1>3 DEF IInv, Callers, NothingYet
  <1>10. ASSUME pc = "scan"
         PROVE  Halfway'
    <2>1. subject = unit /\ Halfway /\ ~TestEntry
      BY <1>10 DEF IInv, Callers, subject, TestEntry
    <2>2. /\ ~HasBothPcs(unit) /\ unit.version # 0 /\ i \in 1 .. Len(unit.entries)
          /\ \A s \in 1 .. i - 1 : unit.entries[s].kind # "stop"
          /\ IsBase(unit, i, UnitBase, base) /\ Recorded(i)
          /\ unit.entries[i].kind # "stop"
      BY <1>2, <1>5, <1>10, <2>1 DEF Halfway, More
    <2>3. i + 1 <= Len(unit.entries) + 1
      BY <1>4, <2>2, DieParts
    <2>4. \A s \in 1 .. (i + 1) - 1 : unit.entries[s].kind # "stop"
      <3>1. \A s \in 1 .. (i + 1) - 1 : s \in 1 .. i - 1 \/ s = i
        BY <1>4
      <3>2. QED
        BY <2>2, <3>1
    <2>5. IsBase(unit, i + 1, UnitBase, base')
      <3>1. CASE Select
        BY <1>4, <2>1, <3>1, BaseSelected DEF Select
      <3>2. CASE Skip \/ ScanDropped
        <4>1. base' = base /\ unit.entries[i].kind # "select"
          BY <2>1, <3>2 DEF Skip, ScanDropped
        <4>2. QED
          BY <1>4, <2>2, <4>1, BaseKept
      <3>3. QED
        BY <2>1, <3>1, <3>2
    <2>6. Recorded(i + 1)
      <3>1. \/ unit.entries[i].kind # "entry"
            \/ Lo(unit, unit.entries[i], base) = 0
        BY <2>1 DEF Select, Skip, ScanDropped
      <3>2. QED
        BY <1>4, <2>2, <3>1, RecordedBeyond
    <2>7. Recorded(i)'
      <3>1. i + 1 \in Nat
        BY <1>4
      <3>2. unit' = unit /\ ranges' = ranges /\ i' = i + 1 /\ UnitBase' = UnitBase
        BY <1>2, <1>3
      <3>3. QED
        BY <2>6, <3>1, <3>2 DEF Recorded
    <2>8. QED
      BY <1>2, <1>3, <2>2, <2>3, <2>4, <2>5, <2>7 DEF Halfway, HasBothPcs, HasLowPc, HighPc
  <1>11. pc = "test" => Halfway' /\ Scanned /\ Scanned'
    BY <1>2 DEF Halfway, Scanned
  <1>12. pc = "scan" => ~Scanned'
    BY <1>2 DEF IInv, Callers, Scanned
  <1>13. Complete'
    BY <1>2, <1>3, <1>11, <1>12 DEF Complete
  <1>14. QED
    BY <1>2, <1>3, <1>8, <1>9, <1>10, <1>11, <1>13 DEF IInv

\* The scan records a range and widens the envelope.
LEMMA ScanEntryPreserves ==
  ASSUME IInv, ScanEntry
  PROVE  IInv'
  <1>1. TypeOK /\ HandlesReleased
    BY DEF IInv, HandlesReleased
  <1>2. /\ UNCHANGED <<unit, die, ptr, pc, caller, held, base, fault>>
        /\ pc = "scan" /\ i' = i + 1 /\ More /\ caller = "scan" /\ subject = unit
        /\ hasLow' = TRUE /\ unit.entries[i].kind = "entry"
    BY DEF ScanEntry, inputs, IInv, Callers, subject
  <1>3. i \in 1 .. Len(unit.entries) /\ Len(unit.entries) \in Nat
    BY <1>1, <1>2, DieParts DEF TypeOK, More
  <1>4. /\ Lo(unit, unit.entries[i], base) \in Addr
        /\ Hi(unit, unit.entries[i], base) \in Addr
    BY <1>1, <1>3, BoundsType DEF TypeOK
  <1>5. low' \in Addr /\ high' \in Addr /\ ranges' \in Seq(Bounds)
    BY <1>1, <1>2, <1>4 DEF ScanEntry, TypeOK, Bounds
  <1>6. TypeOK'
    <2>1. hasLow' \in BOOLEAN /\ i' \in Nat \ {0}
      BY <1>1, <1>2 DEF TypeOK
    <2>2. QED
      BY <1>1, <1>2, <1>5, <2>1 DEF TypeOK
  <1>7. HandlesReleased' /\ Callers' /\ NothingYet'
    BY <1>1, <1>2, <1>6 DEF HandlesReleased, IInv, Callers, NothingYet
  <1>8. Halfway'
    <2>1. /\ ~HasBothPcs(unit) /\ unit.version # 0
          /\ \A s \in 1 .. i - 1 : unit.entries[s].kind # "stop"
          /\ IsBase(unit, i, UnitBase, base)
      BY <1>2 DEF IInv, Halfway
    <2>2. IsBase(unit, i + 1, UnitBase, base)
      BY <1>1, <1>2, <2>1, BaseKept DEF TypeOK
    <2>3. \A s \in 1 .. (i + 1) - 1 : unit.entries[s].kind # "stop"
      <3>1. \A s \in 1 .. (i + 1) - 1 : s \in 1 .. i - 1 \/ s = i
        BY <1>3
      <3>2. QED
        BY <1>2, <2>1, <3>1
    <2>4. Recorded(i)'
      BY RecordedNext
    <2>5. UnitBase' = UnitBase
      BY <1>2 DEF UnitBase
    <2>6. i + 1 <= Len(unit.entries) + 1
      BY <1>3
    <2>7. QED
      BY <1>2, <2>1, <2>2, <2>3, <2>4, <2>5, <2>6 DEF Halfway, HasBothPcs, HasLowPc, HighPc
  <1>9. Complete'
    BY <1>2 DEF Complete, Scanned
  <1>10. QED
    BY <1>7, <1>8, <1>9, Widening DEF IInv

\* At the end of the list every entry of it has been recorded.
LEMMA ScanEndPreserves ==
  ASSUME IInv, ScanEnd
  PROVE  IInv'
  <1>1. TypeOK /\ HandlesReleased
    BY DEF IInv, HandlesReleased
  <1>2. /\ UNCHANGED <<unit, die, ptr, caller, low, high, hasLow, ranges, base, i, fault>>
        /\ pc = "scan" /\ pc' = "ready" /\ held' = {} /\ ~More /\ caller = "scan"
        /\ subject = unit
    BY <1>1 DEF ScanEnd, Release, inputs, cuInfo, HandlesReleased, IInv, Callers, subject
  <1>3. Widened' /\ UnitBase' = UnitBase
    BY <1>2, FieldsKept
  <1>4. TypeOK'
    BY <1>1, <1>2 DEF TypeOK
  <1>5. HandlesReleased' /\ Callers' /\ NothingYet' /\ Halfway'
    BY <1>2, <1>4 DEF HandlesReleased, Callers, NothingYet, Halfway
  <1>6. ~HasBothPcs(unit) /\ unit.version # 0 /\ Recorded(i)
    BY <1>2 DEF IInv, Halfway
  <1>7. ASSUME NEW j \in 1 .. Len(unit.entries), NEW b \in Addr, Listed(unit, j, UnitBase, b)
        PROVE  j < i
    <2>1. \A s \in 1 .. j : unit.entries[s].kind # "stop"
      BY <1>7 DEF Listed
    <2>2. i > Len(unit.entries) \/ unit.entries[i].kind = "stop"
      BY <1>1, <1>2, DieParts DEF More, TypeOK
    <2>3. QED
      BY <1>1, <2>1, <2>2, DieParts DEF TypeOK
  <1>8. Recorded(Len(unit.entries) + 1)
    BY <1>6, <1>7 DEF Recorded
  <1>9. Recorded(Len(unit.entries) + 1)'
    BY <1>2, <1>3, <1>8 DEF Recorded
  <1>10. Complete'
    BY <1>2, <1>6, <1>9 DEF Complete, HasBothPcs, HasLowPc, HighPc
  <1>11. QED
    BY <1>3, <1>5, <1>10 DEF IInv

\* findInlined() changes nothing of what the scan has left.
LEMMA InlinePreserves ==
  ASSUME IInv, InlinePcs \/ TestHit \/ TestEnd
  PROVE  IInv'
  <1>1. TypeOK /\ HandlesReleased
    BY DEF IInv, HandlesReleased
  <1>2. /\ UNCHANGED <<unit, low, high, hasLow, ranges, base, i>>
        /\ Scanned /\ caller' = "inline" /\ held' = {}
        /\ pc' \in {"attr", "covered", "outside"}
    BY <1>1 DEF InlinePcs, TestHit, TestEnd, Release, inputs, cuInfo, HandlesReleased,
                Scanned, IInv, Callers
  <1>3. die' \in Die /\ ptr' \in Addr /\ fault' \in BOOLEAN
    <2>1. CASE InlinePcs
      <3>1. die' \in Die /\ ptr' \in Addr
        BY <2>1, DiesAssumption, PtrsAssumption DEF InlinePcs
      <3>2. fault' \in BOOLEAN
        BY <2>1 DEF InlinePcs
      <3>3. QED
        BY <3>1, <3>2
    <2>2. CASE TestHit \/ TestEnd
      BY <1>1, <2>2 DEF TestHit, TestEnd, Release, inputs, TypeOK
    <2>3. QED
      BY <2>1, <2>2
  <1>4. Widened' /\ (Scanned /\ Scanned' => Complete')
    BY <1>2, FieldsKept
  <1>5. TypeOK'
    BY <1>1, <1>2, <1>3 DEF TypeOK
  <1>6. HandlesReleased' /\ Callers' /\ NothingYet' /\ Halfway'
    BY <1>2, <1>5 DEF HandlesReleased, Callers, NothingYet, Halfway
  <1>7. Complete'
    BY <1>2, <1>4 DEF Scanned
  <1>8. QED
    BY <1>4, <1>6, <1>7 DEF IInv

\* Every step of the scan and of findInlined()'s test keeps the invariant.
LEMMA StepPreserves ==
  ASSUME IInv, [Next]_vars
  PROVE  IInv'
  <1>1. CASE UNCHANGED vars \/ Terminated
    <2>1. /\ UNCHANGED <<unit, die, ptr, pc, caller, held, low, high, hasLow, ranges,
                         base, i, fault>>
      BY <1>1 DEF Terminated, vars
    <2>2. Widened' /\ UnitBase' = UnitBase /\ (Scanned /\ Scanned' => Complete')
          /\ \A n \in Nat : Recorded(n)' <=> Recorded(n)
      BY <2>1, FieldsKept
    <2>3. HandlesReleased' /\ Callers' /\ NothingYet' /\ Complete'
      BY <2>1, <2>2
         DEF IInv, HandlesReleased, TypeOK, Callers, NothingYet, Complete, Scanned
    <2>4. Recorded(i)' <=> Recorded(i)
      BY <2>1, <2>2 DEF Recorded
    <2>5. Halfway'
      BY <2>1, <2>2, <2>4 DEF IInv, Halfway, HasBothPcs, HasLowPc, HighPc
    <2>6. QED
      BY <2>2, <2>3, <2>5 DEF IInv
  <1>2. QED
    BY <1>1, UnitPreserves, ReadingPreserves, AllocPreserves, SteppingPreserves,
       ScanEntryPreserves, ScanEndPreserves, InlinePreserves DEF Next

-----------------------------------------------------------------------------
(* findInlined()'s test of a function.  What its list claims by the unit's  *)
(* low address as it is when the test is made:                              *)

Inside(j, b) == Listed(die, j, low, b) /\ Holds(die, die.entries[j], b, ptr)

LowClaims ==
  IF HasBothPcs(die) THEN die.lowpc <= ptr /\ ptr < HighPc(die)
  ELSE die.version # 0 /\ \E j \in 1 .. Len(die.entries), b \in Addr : Inside(j, b)

\* The test has come to entry i, and those before it do not hold the address.
Passing ==
  /\ ~HasBothPcs(die) /\ die.version # 0
  /\ i <= Len(die.entries) + 1
  /\ \A s \in 1 .. i - 1 : die.entries[s].kind # "stop"
  /\ IsBase(die, i, low, base)
  /\ \A j \in 1 .. Len(die.entries), b \in Addr : j < i => ~Inside(j, b)

Tested ==
  caller = "inline" =>
    /\ pc \in {"attr", "form", "list"} => ~HasBothPcs(die)
    /\ pc \in {"form", "list"} => die.version # 0
    /\ pc = "test" => Passing
    /\ pc = "covered" => LowClaims
    /\ (pc = "outside" /\ ~fault) => ~LowClaims

\* The test begins with the function's own bounds.
LEMMA InlineBegins ==
  ASSUME IInv, InlinePcs
  PROVE  Tested'
  <1>1. /\ pc' \in {"attr", "covered", "outside"}
        /\ pc' = "attr" <=> ~HasBothPcs(die)'
        /\ pc' = "covered" => HasBothPcs(die)' /\ die'.lowpc <= ptr' /\ ptr' < HighPc(die)'
        /\ pc' = "outside" => HasBothPcs(die)' /\ ~(die'.lowpc <= ptr' /\ ptr' < HighPc(die)')
    BY DEF InlinePcs, HasBothPcs, HasLowPc, HighPc
  <1>2. QED
    BY <1>1 DEF Tested, LowClaims

\* It is decided without a list, or the list is read.
LEMMA InlineReads ==
  ASSUME IInv, Tested, caller = "inline", RangesAttr \/ RangesFails \/ RangesForm \/ RangesList
  PROVE  Tested'
  <1>1. /\ UNCHANGED <<unit, die, ptr, caller, low>>
        /\ subject = die /\ NoRanges = "outside" /\ ~HasBothPcs(die)
    BY DEF RangesAttr, RangesFails, RangesForm, RangesList, inputs, cuInfo, subject, NoRanges, Tested
  <1>2. HasBothPcs(die)' <=> HasBothPcs(die)
    BY <1>1 DEF HasBothPcs, HasLowPc, HighPc
  <1>3. CASE RangesAttr
    <2>1. CASE die.version = 0
      BY <1>1, <1>2, <1>3, <2>1 DEF RangesAttr, Tested, LowClaims
    <2>2. CASE die.version # 0
      BY <1>1, <1>2, <1>3, <2>2 DEF RangesAttr, Tested
    <2>3. QED
      BY <2>1, <2>2
  <1>4. CASE RangesFails
    BY <1>1, <1>4 DEF RangesFails, Tested
  <1>5. CASE RangesForm
    BY <1>1, <1>2, <1>5 DEF RangesForm, Tested
  <1>6. CASE RangesList
    <2>1. /\ pc' = "test" /\ i' = 1 /\ base' = low /\ die.version # 0
          /\ die \in Die
      BY <1>1, <1>6 DEF RangesList, Tested, IInv, HandlesReleased, TypeOK
    <2>2. IsBase(die, 1, low, low) /\ Len(die.entries) \in Nat
      BY <2>1, DieParts DEF IsBase
    <2>3. Passing'
      BY <1>1, <1>2, <2>1, <2>2 DEF Passing, IsBase
    <2>4. QED
      BY <1>1, <2>1, <2>3 DEF Tested
  <1>7. QED
    BY <1>3, <1>4, <1>5, <1>6

\* Entry i is the one that the test looks at, with the base in force for it.
LEMMA EntryTested ==
  ASSUME IInv, Tested, caller = "inline", pc = "test", More
  PROVE  /\ subject = die /\ Passing /\ die \in Die /\ base \in Addr
         /\ i \in 1 .. Len(die.entries) /\ Len(die.entries) \in Nat
         /\ \A s \in 1 .. i : die.entries[s].kind # "stop"
         /\ \A b \in Addr : Inside(i, b) =>
              /\ b = base /\ die.entries[i].kind = "entry" /\ InsideEntry
         /\ die.entries[i].kind = "entry" /\ InsideEntry => Inside(i, base)
  <1>1. subject = die /\ Passing /\ die \in Die /\ base \in Addr /\ i \in Nat \ {0}
    BY DEF IInv, HandlesReleased, TypeOK, Tested, subject
  <1>2. i \in 1 .. Len(die.entries) /\ Len(die.entries) \in Nat
    BY <1>1, DieParts DEF More
  <1>3. \A s \in 1 .. i : die.entries[s].kind # "stop"
    <2>1. \A s \in 1 .. i : s \in 1 .. i - 1 \/ s = i
      BY <1>2
    <2>2. QED
      BY <1>1, <2>1 DEF Passing, More
  <1>4. \A b \in Addr : Inside(i, b) => b = base
    BY <1>1, BaseUnique DEF Inside, Listed, Passing
  <1>5. ASSUME NEW b \in Addr, Inside(i, b)
        PROVE  die.entries[i].kind = "entry" /\ InsideEntry
    BY <1>1, <1>4, <1>5 DEF Inside, Listed, Holds, InsideEntry
  <1>6. die.entries[i].kind = "entry" /\ InsideEntry => Inside(i, base)
    BY <1>1, <1>3 DEF Inside, Listed, Holds, InsideEntry, Passing
  <1>7. QED
    BY <1>1, <1>2, <1>3, <1>4, <1>5, <1>6

\* The test steps over an entry.
LEMMA InlineSteps ==
  ASSUME IInv, Tested, caller = "inline", pc = "test", Select \/ Skip \/ TestEntry
  PROVE  Tested'
  <1>1. /\ UNCHANGED <<unit, die, ptr, pc, caller, low>> /\ i' = i + 1 /\ More
    BY DEF Select, Skip, TestEntry, inputs, cuInfo
  <1>2. /\ subject = die /\ Passing /\ die \in Die
        /\ i \in 1 .. Len(die.entries) /\ Len(die.entries) \in Nat
        /\ \A s \in 1 .. i : die.entries[s].kind # "stop"
        /\ \A b \in Addr : Inside(i, b) => die.entries[i].kind = "entry" /\ InsideEntry
    BY <1>1, EntryTested
  <1>3. \A b \in Addr : ~Inside(i, b)
    BY <1>2 DEF Select, Skip, TestEntry
  <1>4. IsBase(die, i + 1, low, base')
    <2>1. IsBase(die, i, low, base)
      BY <1>2 DEF Passing
    <2>2. CASE Select
      BY <1>2, <2>2, BaseSelected DEF Select
    <2>3. CASE Skip \/ TestEntry
      <3>1. base' = base /\ die.entries[i].kind # "select"
        BY <1>2, <2>3 DEF Skip, TestEntry
      <3>2. QED
        BY <1>2, <2>1, <3>1, BaseKept
    <2>4. QED
      BY <2>2, <2>3
  <1>5. \A j \in 1 .. Len(die.entries), b \in Addr : j < i + 1 => ~Inside(j, b)
    <2>1. \A j \in 1 .. Len(die.entries) : j < i + 1 => j < i \/ j = i
      BY <1>2
    <2>2. QED
      BY <1>2, <1>3, <2>1 DEF Passing
  <1>6. \A j, b : Inside(j, b)' <=> Inside(j, b)
    BY <1>1 DEF Inside
  <1>7. HasBothPcs(die)' <=> HasBothPcs(die)
    BY <1>1 DEF HasBothPcs, HasLowPc, HighPc
  <1>8. Passing'
    <2>1. i + 1 <= Len(die.entries) + 1 /\ (i + 1) - 1 = i
      BY <1>2
    <2>2. IsBase(die, i, low, base)'
      BY <1>1, <1>4 DEF IsBase
    <2>3. \A s \in 1 .. i' - 1 : die'.entries[s].kind # "stop"
      BY <1>1, <1>2, <2>1
    <2>4. \A j \in 1 .. Len(die'.entries), b \in Addr : j < i' => ~Inside(j, b)'
      BY <1>1, <1>5, <1>6
    <2>5. QED
      BY <1>1, <1>2, <1>7, <2>1, <2>2, <2>3, <2>4 DEF Passing
  <1>9. QED
    BY <1>1, <1>8 DEF Tested

\* It ends with an entry that holds the address, or behind the last.
LEMMA InlineEnds ==
  ASSUME IInv, Tested, caller = "inline", TestHit \/ TestEnd
  PROVE  Tested'
  <1>1. /\ UNCHANGED <<unit, die, ptr, caller, low, fault>> /\ pc = "test"
    BY DEF TestHit, TestEnd, Release, inputs, cuInfo
  <1>2. Passing /\ die \in Die /\ i \in Nat \ {0} /\ Len(die.entries) \in Nat /\ subject = die
    BY <1>1, DieParts DEF Tested, IInv, HandlesReleased, TypeOK, subject
  <1>3. LowClaims' <=> LowClaims
    <2>1. HasBothPcs(die)' <=> HasBothPcs(die)
      BY <1>1 DEF HasBothPcs, HasLowPc, HighPc
    <2>2. ~HasBothPcs(die)
      BY <1>2 DEF Passing
    <2>3. \A j, b : Inside(j, b)' <=> Inside(j, b)
      BY <1>1 DEF Inside
    <2>4. QED
      BY <1>1, <2>1, <2>2, <2>3 DEF LowClaims
  <1>4. CASE TestHit
    <2>1. Inside(i, base) /\ i \in 1 .. Len(die.entries) /\ base \in Addr
      BY <1>1, <1>2, <1>4, EntryTested DEF TestHit
    <2>2. LowClaims /\ pc' = "covered"
      BY <1>2, <1>4, <2>1 DEF LowClaims, Passing, TestHit, Release
    <2>3. QED
      BY <1>1, <1>3, <2>2 DEF Tested
  <1>5. CASE TestEnd
    <2>1. i > Len(die.entries) \/ (i \in 1 .. Len(die.entries) /\ die.entries[i].kind = "stop")
      BY <1>2, <1>5 DEF TestEnd, More
    <2>2. ASSUME NEW j \in 1 .. Len(die.entries), NEW b \in Addr, Inside(j, b)
          PROVE  j < i
      <3>1. \A s \in 1 .. j : die.entries[s].kind # "stop"
        BY <2>2 DEF Inside, Listed
      <3>2. QED
        BY <1>2, <2>1, <3>1
    <2>3. ~LowClaims /\ pc' = "outside"
      BY <1>2, <1>5, <2>2 DEF LowClaims, Passing, TestEnd, Release
    <2>4. QED
      BY <1>1, <1>3, <2>3 DEF Tested
  <1>6. QED
    BY <1>4, <1>5

\* Every step of findInlined()'s test leaves the answer true to what it has read.
LEMMA TestedPreserves ==
  ASSUME IInv, Tested, [Next]_vars
  PROVE  Tested'
  <1>1. CASE UNCHANGED vars \/ Terminated
    <2>1. UNCHANGED <<die, ptr, pc, caller, low, base, i, fault>>
      BY <1>1 DEF Terminated, vars
    <2>2. HasBothPcs(die)' <=> HasBothPcs(die)
      BY <2>1 DEF HasBothPcs, HasLowPc, HighPc
    <2>3. \A j, b : Inside(j, b)' <=> Inside(j, b)
      BY <2>1 DEF Inside
    <2>4. LowClaims' <=> LowClaims
      BY <2>1, <2>2, <2>3 DEF LowClaims, HasBothPcs, HasLowPc, HighPc
    <2>5. Passing' <=> Passing
      BY <2>1, <2>2, <2>3 DEF Passing, IsBase
    <2>6. QED
      BY <2>1, <2>2, <2>4, <2>5 DEF Tested
  <1>2. CASE TakeUnitPcs \/ SeekUnitRanges \/ Alloc \/ ScanDropped \/ ScanEntry \/ ScanEnd \/ ScanReleases
    <2>1. pc \in {"unit", "alloc", "scan", "release"} /\ caller' = caller
      BY <1>2 DEF TakeUnitPcs, SeekUnitRanges, Alloc, ScanDropped, ScanEntry, ScanEnd, ScanReleases, Release
    <2>2. QED
      BY <2>1 DEF IInv, Callers, Tested
  <1>3. CASE RangesAttr \/ RangesFails \/ RangesForm \/ RangesList \/ Select \/ Skip \/ TestEntry \/ TestHit \/ TestEnd
    <2>1. caller' = caller
      BY <1>3 DEF RangesAttr, RangesFails, RangesForm, RangesList, Select, Skip, TestEntry, TestHit, TestEnd,
                  Release
    <2>2. Select \/ Skip \/ TestEntry => pc = "test" \/ caller # "inline"
      BY DEF Select, Skip, TestEntry, IInv, Callers
    <2>3. caller = "inline" => Tested'
      BY <1>3, <2>2, InlineReads, InlineSteps, InlineEnds
    <2>4. QED
      BY <2>1, <2>3 DEF Tested
  <1>4. QED
    BY <1>1, <1>2, <1>3, InlineBegins DEF Next

\* Where the base does not count, an entry is as good with one as with another.
LEMMA AnyBase ==
  ASSUME NEW j \in 1 .. Len(die.entries), NEW b0, NEW b1 \in Addr, NEW b \in Addr,
         die.version = 5, Listed(die, j, b0, b), Holds(die, die.entries[j], b, ptr)
  PROVE  \E c1 \in Addr : Listed(die, j, b1, c1) /\ Holds(die, die.entries[j], c1, ptr)
  <1>1. \A c1 \in Addr : Holds(die, die.entries[j], c1, ptr)
    BY DEF Holds, Lo, Hi
  <1>2. IsBase(die, j, b1, b1) \/ IsBase(die, j, b1, b)
    BY DEF Listed, IsBase
  <1>3. QED
    BY <1>1, <1>2 DEF Listed

\* As long as the base is the one the list was written for, the test is right.
LEMMA TestIsExact ==
  ASSUME IInv, Tested
  PROVE  InlineTestExact
  <1> SUFFICES ASSUME BaseIntact, pc \in {"covered", "outside"}
               PROVE  LowClaims <=> DieClaims
    BY DEF InlineTestExact, Tested, IInv, Callers
  <1>1. unit \in Die /\ low \in Addr /\ UnitBase \in Addr
    BY UnitBaseType DEF IInv, HandlesReleased, TypeOK
  <1>2. CASE low = UnitBase
    BY <1>2 DEF LowClaims, DieClaims, ListClaims, Inside
  <1>3. CASE die.version = 5
    BY <1>1, <1>3, AnyBase DEF LowClaims, DieClaims, ListClaims, Inside
  <1>4. QED
    BY <1>2, <1>3 DEF BaseIntact

-----------------------------------------------------------------------------
(* The unit's list comes from the sections (RangeLists).  Until the scan    *)
(* begins, what is read of it is entries of some kind with two addresses.   *)

GotEntry ==
  [code : Codes \cup {"end", "select", "entry"}, c1 : Addr, c2 : Addr, failed : BOOLEAN]

ReadSoFar ==
  rpc \notin {"done", "none"} =>
    /\ Fresh /\ unit = raw.die
    /\ raw.addrs \in Seq(Addr) /\ raw.list \in Seq(RawEntry)
    /\ lbase \in Addr \cup {None}
    /\ got \in Seq(GotEntry)

ListInv == IInv /\ ReadSoFar

\* The reading of the unit's list begins the whole.
LEMMA ListInitEstablishes == ListInit => ListInv
  <1> SUFFICES ASSUME ListInit PROVE ListInv
    OBVIOUS
  <1>1. Fresh /\ unit = raw.die
    BY InitFresh DEF ListInit
  <1>2. raw.addrs \in Seq(Addr) /\ raw.list \in Seq(RawEntry)
    BY RawUnitsAssumption DEF ListInit
  <1>3. lbase \in Addr \cup {None} /\ got \in Seq(GotEntry)
    BY DEF ListInit
  <1>4. QED
    BY <1>1, <1>2, <1>3, FreshEstablishes DEF ListInv, ReadSoFar

\* Where the list is read from, an entry is added to what there is or nothing.
LEMMA ReadingKeepsTypes ==
  ASSUME ListInv, ReadList, UNCHANGED vars
  PROVE  ListInv'
  <1>1. rpc \notin {"done", "none"} /\ raw' = raw
    BY DEF ReadList, Refused, OldEnds, OldEntry, Head5, NewEntry, Collect, GiveUp, Read, Failed,
           BaseEntry, IndexedEntry, PlainEntry
  <1>2. /\ Fresh /\ unit = raw.die
        /\ raw.addrs \in Seq(Addr) /\ raw.list \in Seq(RawEntry)
        /\ lbase \in Addr \cup {None} /\ got \in Seq(GotEntry)
    BY <1>1 DEF ListInv, ReadSoFar
  <1>3. raw.die.lowpc \in Addr \cup {None}
    BY <1>2 DEF Fresh, Die
  <1>4. /\ 0 \in Addr
        /\ \A a \in Nat : a < Len(raw.addrs) => AddrOf(a) \in Addr
    BY <1>2, WAssumption DEF AddrOf, Addr
  <1>5. \A e : e \in Next5 => e.code \in Codes \cup {"pair"} /\ e.a \in Addr /\ e.b \in Addr
    <2>1. /\ nth \in Nat /\ nth >= 1
          /\ \A k \in 1 .. Len(raw.list) : raw.list[k] \in RawEntry
      BY <1>2 DEF nth
    <2>2. nth <= Len(raw.list) => raw.list[nth] \in RawEntry
      BY <1>2, <2>1
    <2>3. EndOfList \in RawEntry /\ Unknown \in RawEntry
      BY <1>4 DEF EndOfList, Unknown, RawEntry, Codes
    <2>4. \A e \in RawEntry : e.code \in Codes \cup {"pair"} /\ e.a \in Addr /\ e.b \in Addr
      BY DEF RawEntry
    <2>5. QED
      BY <2>2, <2>3, <2>4 DEF Next5
  <1>6. lbase' \in Addr \cup {None} /\ got' \in Seq(GotEntry)
    <2>1. CASE GiveUp \/ OldEnds \/ Collect
      BY <1>2, <2>1 DEF GiveUp, OldEnds, Collect
    <2>2. CASE Head5
      BY <1>2, <1>3, <2>2 DEF Head5
    <2>3. CASE OldEntry
      <3>1. raw.list[nth] \in RawEntry
        BY <1>2, <2>3 DEF OldEntry, nth
      <3>2. [code |-> OldType(raw.list[nth]), c1 |-> raw.list[nth].a, c2 |-> raw.list[nth].b,
             failed |-> FALSE] \in GotEntry
        BY <3>1 DEF RawEntry, GotEntry, OldType
      <3>3. QED
        BY <1>2, <2>3, <3>2 DEF OldEntry, Chain
    <2>4. CASE NewEntry
      <3>1. PICK e \in Next5 : BaseEntry(e) \/ IndexedEntry(e) \/ PlainEntry(e) \/ GiveUp
        BY <2>4 DEF NewEntry
      <3>2. e.a \in Addr /\ e.b \in Addr /\ e.a \in Nat /\ e.b \in Nat
        BY <1>5, WAssumption DEF Addr
      <3>3. ASSUME NEW c1 \in Addr, NEW c2 \in Addr, NEW b5 \in Addr \cup {None},
                   e.code \in Codes, Read(e, c1, c2, b5)
            PROVE  lbase' \in Addr \cup {None} /\ got' \in Seq(GotEntry)
        <4>1. [code |-> e.code, c1 |-> c1, c2 |-> c2, failed |-> FALSE] \in GotEntry
          BY <3>3 DEF GotEntry
        <4>2. QED
          BY <1>2, <3>3, <4>1 DEF Read, Chain
      <3>4. ASSUME e.code \in Codes, Failed(e)
            PROVE  lbase' \in Addr \cup {None} /\ got' \in Seq(GotEntry)
        <4>1. [code |-> e.code, c1 |-> 0, c2 |-> 0, failed |-> TRUE] \in GotEntry
          BY <1>4, <3>4 DEF GotEntry
        <4>2. QED
          BY <1>2, <3>4, <4>1 DEF Failed, Chain
      <3>5. CASE BaseEntry(e)
        BY <1>4, <3>2, <3>3, <3>4, <3>5 DEF BaseEntry, Unavailable, Codes, Bases
      <3>6. CASE IndexedEntry(e)
        BY <1>2, <1>4, <3>2, <3>3, <3>6, AddType DEF IndexedEntry, Unavailable, GiveUp, Codes
      <3>7. CASE PlainEntry(e)
        BY <1>2, <1>4, <3>2, <3>3, <3>4, <3>7, AddType DEF PlainEntry, Codes
      <3>8. QED
        BY <1>2, <3>1, <3>5, <3>6, <3>7 DEF GiveUp
    <2>5. QED
      BY <2>1, <2>2, <2>3, <2>4 DEF ReadList, Refused
  <1>7. Fresh' /\ unit' = raw'.die
    BY <1>1, <1>2 DEF Fresh, vars
  <1>8. QED
    BY <1>1, <1>2, <1>6, <1>7, FreshEstablishes, FreshAgain DEF ListInv, ReadSoFar

\* The list that was read becomes the unit's.
LEMMA BeginScanEstablishes ==
  ASSUME ListInv, BeginScan
  PROVE  ListInv'
  <1>1. Fresh /\ got \in Seq(GotEntry) /\ rpc' \in {"done", "none"}
    BY DEF BeginScan, ListInv, ReadSoFar
  <1>2. \A e \in GotEntry : AsListed(e) \in Entry
    BY WAssumption DEF GotEntry, AsListed, Entry, Addr, Bases, Codes
  <1>3. [j \in DOMAIN got |-> AsListed(got[j])] \in Seq(Entry)
    BY <1>1, <1>2
  <1>4. unit' \in Die
    BY <1>1, <1>3 DEF BeginScan, Fresh, Die
  <1>5. Fresh'
    BY <1>1, <1>4 DEF BeginScan, Fresh, cuInfo
  <1>6. QED
    BY <1>1, <1>5, FreshAgain DEF ListInv, ReadSoFar

\* From the reading of the unit's list to the end of the scan.
LEMMA ListInvHolds == ListSpec => []ListInv
  <1>1. ListInv /\ [ListNext]_listVars => ListInv'
    <2> SUFFICES ASSUME ListInv, [ListNext]_listVars PROVE ListInv'
      OBVIOUS
    <2>1. CASE ReadList /\ UNCHANGED vars
      BY <2>1, ReadingKeepsTypes
    <2>2. CASE BeginScan
      BY <2>2, BeginScanEstablishes
    <2>3. CASE Scan
      <3>1. IInv' /\ rpc' \in {"done", "none"}
        BY <2>3, StepPreserves DEF Scan, ListInv, readerVars
      <3>2. QED
        BY <3>1 DEF ListInv, ReadSoFar
    <2>4. CASE UNCHANGED listVars
      <3>1. IInv'
        BY <2>4, StepPreserves DEF ListInv, listVars
      <3>2. ReadSoFar'
        BY <2>4 DEF ListInv, ReadSoFar, Fresh, listVars, vars, readerVars
      <3>3. QED
        BY <3>1, <3>2 DEF ListInv
    <2>5. QED
      BY <2>1, <2>2, <2>3, <2>4 DEF ListNext
  <1>2. QED
    BY <1>1, ListInitEstablishes, PTL DEF ListSpec

-----------------------------------------------------------------------------

\* What dwarf_ranges() gives out is given back on every path of both callers.
THEOREM HandlesCorrect == ListSpec => []HandlesReleased
  <1>1. ListInv => HandlesReleased
    BY DEF ListInv, IInv
  <1>2. QED
    BY <1>1, ListInvHolds, PTL

\* What the scan leaves behind lets every address claimed pass the filter.
LEMMA ScanLosesNothing ==
  ASSUME IInv
  PROVE  FilterConservative
  <1> SUFFICES ASSUME Scanned, NEW p \in Ptrs, UnitClaims(p)
               PROVE  Accepts(low, high, ranges, p)
    BY DEF FilterConservative
  <1>1. /\ unit \in Die /\ low \in Addr /\ high \in Addr /\ ranges \in Seq(Bounds)
    BY DEF IInv, HandlesReleased, TypeOK
  <1>2. CASE HasBothPcs(unit) /\ low = unit.lowpc /\ high = HighPc(unit) /\ ranges = <<>>
    BY <1>2 DEF UnitClaims, Accepts
  <1>3. CASE high = 0 /\ ranges = <<>>
    BY <1>3 DEF Accepts
  <1>4. CASE ~HasBothPcs(unit) /\ Recorded(Len(unit.entries) + 1)
    <2>1. PICK j \in 1 .. Len(unit.entries), b \in Addr :
            /\ Listed(unit, j, UnitBase, b)
            /\ Lo(unit, unit.entries[j], b) <= p /\ p < Hi(unit, unit.entries[j], b)
            /\ Lo(unit, unit.entries[j], b) # 0
      BY <1>4 DEF UnitClaims, UnitListClaims, Holds
    <2>2. j < Len(unit.entries) + 1
      BY <1>1, DieParts
    <2>3. PICK k \in 1 .. Len(ranges) :
            /\ ranges[k].low = Lo(unit, unit.entries[j], b)
            /\ ranges[k].high = Hi(unit, unit.entries[j], b)
      BY <1>4, <2>1, <2>2 DEF Recorded
    <2>4. InRange(ranges[k], p)
      BY <2>1, <2>3 DEF InRange
    <2>5. ranges # <<>>
      BY <2>3
    <2>6. low <= ranges[k].low /\ ranges[k].high <= high
      BY <2>3, <2>5 DEF IInv, Widened, Envelope
    <2>7. ranges[k].low \in Addr /\ ranges[k].high \in Addr /\ p \in Addr
      BY <1>1, <2>1, <2>3, BoundsType, PtrsAssumption
    <2>8. low <= p /\ p < high
      BY <1>1, <2>4, <2>6, <2>7 DEF InRange, Addr
    <2>9. QED
      BY <2>4, <2>8 DEF Accepts
  <1>5. QED
    BY <1>2, <1>3, <1>4 DEF IInv, Complete

\* Whatever fails while its ranges are read, a unit is tried for every address
\* that its debug information claims.
THEOREM FilterConservativeCorrect == ListSpec => []FilterConservative
  <1>1. ListInv => FilterConservative
    BY ScanLosesNothing DEF ListInv
  <1>2. QED
    BY <1>1, ListInvHolds, PTL

\* If ranges were recorded, an address that passes lies in one the unit lists.
LEMMA ScanAddsNothing ==
  ASSUME IInv
  PROVE  FilterExact
  <1> SUFFICES ASSUME Scanned, ranges # <<>>, NEW p \in Ptrs, Accepts(low, high, ranges, p)
               PROVE  UnitClaims(p)
    BY DEF FilterExact
  <1>1. ~HasBothPcs(unit) /\ unit.version # 0 /\ Recorded(Len(unit.entries) + 1)
    BY DEF IInv, Complete
  <1>2. PICK k \in 1 .. Len(ranges) : InRange(ranges[k], p)
    BY DEF Accepts
  <1>3. PICK j \in 1 .. Len(unit.entries), b \in Addr :
          /\ Listed(unit, j, UnitBase, b)
          /\ ranges[k].low = Lo(unit, unit.entries[j], b)
          /\ ranges[k].high = Hi(unit, unit.entries[j], b)
    BY <1>1, <1>2 DEF Recorded
  <1>4. ranges[k].low # 0
    BY <1>2 DEF IInv, Widened, Envelope
  <1>5. QED
    BY <1>1, <1>2, <1>3, <1>4 DEF UnitClaims, UnitListClaims, Holds, InRange

\* A unit with recorded ranges is tried for no other addresses than they hold.
THEOREM FilterExactCorrect == ListSpec => []FilterExact
  <1>1. ListInv => FilterExact
    BY ScanAddsNothing DEF ListInv
  <1>2. QED
    BY <1>1, ListInvHolds, PTL

\* The test of a function's ranges, with all that comes before it.
LEMMA TestedHolds == ListSpec => []Tested
  <1>1. ListInit => Tested
    BY DEF ListInit, Init, Tested
  <1>2. ListInv /\ Tested /\ [ListNext]_listVars => Tested'
    <2> SUFFICES ASSUME ListInv, Tested, [ListNext]_listVars PROVE Tested'
      OBVIOUS
    <2>1. CASE Scan \/ UNCHANGED vars
      BY <2>1, TestedPreserves DEF Scan, ListInv
    <2>2. CASE BeginScan
      BY <2>2 DEF BeginScan, ListInv, ReadSoFar, Fresh, Tested
    <2>3. QED
      BY <2>1, <2>2 DEF ListNext, listVars
  <1>3. QED
    BY <1>1, <1>2, ListInvHolds, PTL DEF ListSpec

\* As long as the unit's low address is the base of its ranges still, a function
\* is taken to hold an address if its debug information claims it.
THEOREM InlineTestCorrect == ListSpec => []InlineTestExact
  <1>1. ListInv /\ Tested => InlineTestExact
    BY TestIsExact DEF ListInv
  <1>2. QED
    BY <1>1, ListInvHolds, TestedHolds, PTL

-----------------------------------------------------------------------------
(* What libdwarf has read of the list is what is written there.             *)

Indexed == {"base_addressx", "startx_endx", "startx_length"}

\* Entry j of a DWARF 5 list as it was read: with the addresses it has by its
\* base, or marked as failed because that base is not known, which of a whole
\* list it always is.
ReadRightly(j) ==
  /\ got[j].code = Entries[j].code /\ got[j].code \in Codes \ {"unknown", "end_of_list"}
  /\ (got[j].code \notin Bases /\ ~got[j].failed) =>
       /\ Bounds5(j) = <<got[j].c1, got[j].c2>>
       /\ got[j].c1 # None /\ got[j].c2 # None
  /\ (got[j].code \notin Bases /\ got[j].failed) =>
       got[j].code = "offset_pair" /\ (~Whole \/ BaseAt(j) = None)

\* Nothing that was read before has ended the list.
NoEndBefore(k) == \A j \in 1 .. k : j \in DOMAIN Entries /\ Entries[j].code # "end_of_list"

\* The list as far as it is read.  The reader's base is the one in force, unless
\* an index led nowhere.
ReadTruly ==
  rpc \notin {"done", "none"} =>
    /\ rpc \in {"old", "head", "new", "collect", "read", "failed"}
    /\ \A j \in DOMAIN Entries : Entries[j].code = "pair" <=> raw.die.version = 4
    /\ rpc # "failed" => refused = FALSE
    /\ rpc = "failed" => (refused \/ ~Whole) /\ nodes = 0
    /\ rpc # "read" => array = FALSE
    /\ rpc \in {"old", "head", "new", "collect"} => nodes = Len(got)
    /\ rpc = "read" => nodes = IF raw.die.version = 4 THEN 0 ELSE Len(got)
    /\ rpc = "old" => /\ raw.die.version = 4
                      /\ \A j \in DOMAIN got : got[j].code \in {"select", "entry"} /\ ~got[j].failed
    /\ rpc = "head" => raw.die.version = 5 /\ got = <<>> /\ noAddr = FALSE
    /\ rpc = "new" => /\ raw.die.version = 5
                      /\ NoEndBefore(Len(got))
                      /\ \A j \in DOMAIN got : ReadRightly(j)
                      /\ noAddr => ~Whole
                      /\ lbase # BaseAt(nth) => lbase = None /\ ~Whole
    /\ rpc \in {"collect", "read"} =>
         \/ /\ raw.die.version = 4
            /\ \A j \in DOMAIN got : got[j].code \in {"end", "select", "entry"} /\ ~got[j].failed
            /\ Len(got) < Len(Entries) => Len(got) > 0 /\ got[Len(got)].code = "end"
         \/ /\ raw.die.version = 5
            /\ Len(got) > 0 /\ got[Len(got)].code = "end_of_list"
            /\ \A j \in 1 .. Len(got) - 1 : j \in DOMAIN Entries /\ ReadRightly(j)
            /\ Len(got) \in DOMAIN Entries => Entries[Len(got)].code = "end_of_list"

\* At first nothing is read.
LEMMA ReadBegins == ListInit => ReadTruly
  <1> SUFFICES ASSUME ListInit PROVE ReadTruly
    OBVIOUS
  <1>1. /\ raw.die \in Units
        /\ \A j \in DOMAIN Entries : Entries[j].code = "pair" <=> raw.die.version = 4
    BY RawUnitsAssumption DEF ListInit, Entries
  <1>2. /\ got = <<>> /\ noAddr = FALSE /\ nodes = 0 /\ array = FALSE /\ refused = FALSE
        /\ rpc = CASE raw.die.version = 4 -> "old" [] raw.die.version = 5 -> "head" [] OTHER -> "done"
    BY DEF ListInit
  <1>3. /\ rpc \in {"old", "head", "done"}
        /\ rpc = "old" => raw.die.version = 4
        /\ rpc = "head" => raw.die.version = 5
    BY <1>2
  <1>4. Len(got) = 0 /\ DOMAIN got = {}
    BY <1>2
  <1>5. QED
    BY <1>1, <1>2, <1>3, <1>4 DEF ReadTruly

\* A list is not whole if there is a fault before its end.
LEMMA FaultBeforeEnd ==
  ASSUME NEW k \in Nat, k > 0, NoEndBefore(k - 1), raw.die.version = 5, Entries \in Seq(RawEntry),
         \/ k > Len(Entries)
         \/ k \in DOMAIN Entries /\ Entries[k].code = "unknown"
         \/ k \in DOMAIN Entries /\ Entries[k].code \in Indexed /\ Index(Entries[k].a) = None
         \/ k \in DOMAIN Entries /\ Entries[k].code = "startx_endx" /\ Index(Entries[k].b) = None
  PROVE  ~Whole
  <1> SUFFICES ASSUME NEW m \in DOMAIN Entries, Entries[m].code = "end_of_list",
                      \A j \in 1 .. m :
                        /\ Entries[j].code # "unknown"
                        /\ Entries[j].code \in Indexed => Index(Entries[j].a) # None
                        /\ Entries[j].code = "startx_endx" => Index(Entries[j].b) # None
               PROVE  FALSE
    <2>1. raw.die.version # 4
      OBVIOUS
    <2>2. QED
      BY Zenon, <2>1 DEF Whole, Indexed
  <1>1. DOMAIN Entries = 1 .. Len(Entries) /\ Len(Entries) \in Nat /\ m \in Nat /\ m <= Len(Entries)
    BY DEF Entries
  <1>2. ~(m \in 1 .. k - 1)
    BY Zenon DEF NoEndBefore
  <1>3. m >= k
    BY <1>1, <1>2
  <1>4. k \in 1 .. m
    BY <1>1, <1>3
  <1>5. ~(k > Len(Entries))
    BY <1>1, <1>3
  <1>6. QED
    BY <1>4, <1>5

\* The base that the last of the entries B selects.
BaseOf(B) ==
  IF B = {} THEN raw.die.lowpc
  ELSE LET e == Entries[CHOOSE s \in B : \A t \in B : t <= s]
       IN IF e.code = "base_address" THEN e.a ELSE Index(e.a)

\* The base in force is named by the entries that select one.
LEMMA BaseAtIs == ASSUME NEW j PROVE BaseAt(j) = BaseOf(BasesBefore(j))
  BY DEF BaseAt, BaseOf

\* The base that is in force behind entry k is the one it selects, or stays.
LEMMA BaseBehind ==
  ASSUME NEW k \in Nat, k > 0
  PROVE  BaseAt(k + 1) =
           IF Entries[k].code \notin Bases THEN BaseAt(k)
           ELSE IF Entries[k].code = "base_address" THEN Entries[k].a ELSE Index(Entries[k].a)
  <1>1. 1 .. (k + 1) - 1 = (1 .. k - 1) \cup {k} /\ k \notin 1 .. k - 1
    OBVIOUS
  <1>2. CASE Entries[k].code \notin Bases
    <2>1. BasesBefore(k + 1) = BasesBefore(k)
      BY <1>1, <1>2 DEF BasesBefore
    <2>2. BaseAt(k + 1) = BaseAt(k)
      BY <2>1, BaseAtIs
    <2>3. QED
      BY <1>2, <2>2
  <1>3. CASE Entries[k].code \in Bases
    <2> DEFINE B == BasesBefore(k + 1)
    <2>1. k \in B /\ \A t \in B : t <= k /\ t \in Nat
      BY <1>1, <1>3 DEF BasesBefore
    <2> HIDE DEF B
    <2>2. \A s \in B : (\A t \in B : t <= s) => s = k
      BY <2>1
    <2>3. (CHOOSE s \in B : \A t \in B : t <= s) = k
      BY <2>1, <2>2
    <2>4. B # {}
      BY <2>1
    <2> DEFINE c == CHOOSE s \in B : \A t \in B : t <= s
    <2>5. BaseOf(B) = IF B = {} THEN raw.die.lowpc
                      ELSE IF Entries[c].code = "base_address" THEN Entries[c].a ELSE Index(Entries[c].a)
      BY DEF BaseOf
    <2>6. c = k
      BY <2>3
    <2> HIDE DEF c
    <2>7. BaseAt(k + 1) = BaseOf(B)
      BY BaseAtIs DEF B
    <2>8. QED
      BY <1>3, <2>4, <2>5, <2>6, <2>7
  <1>4. QED
    BY <1>2, <1>3

\* What is known of the input and the entries while the list is read.
LEMMA ReadingTyped ==
  ASSUME ListInv, rpc \notin {"done", "none"}
  PROVE  /\ Entries \in Seq(RawEntry) /\ raw.addrs \in Seq(Addr)
         /\ Len(Entries) \in Nat /\ DOMAIN Entries = 1 .. Len(Entries)
         /\ got \in Seq(GotEntry) /\ Len(got) \in Nat /\ DOMAIN got = 1 .. Len(got)
         /\ lbase \in Addr \cup {None} /\ None \notin Addr
         /\ raw.die.lowpc \in Addr \cup {None}
         /\ \A j \in DOMAIN Entries : /\ Entries[j].a \in Addr /\ Entries[j].b \in Addr
                                      /\ Entries[j].code \in Codes \cup {"pair"}
  <1>1. /\ Entries \in Seq(RawEntry) /\ raw.addrs \in Seq(Addr) /\ got \in Seq(GotEntry)
        /\ lbase \in Addr \cup {None} /\ Fresh /\ unit = raw.die
    BY DEF ListInv, ReadSoFar, Entries
  <1>2. raw.die.lowpc \in Addr \cup {None} /\ None \notin Addr
    BY <1>1, WAssumption DEF Fresh, Die, Addr, None
  <1>3. \A j \in DOMAIN Entries : Entries[j] \in RawEntry
    BY <1>1
  <1>4. \A j \in DOMAIN Entries : /\ Entries[j].a \in Addr /\ Entries[j].b \in Addr
                                  /\ Entries[j].code \in Codes \cup {"pair"}
    BY <1>3 DEF RawEntry
  <1>5. Len(Entries) \in Nat /\ DOMAIN Entries = 1 .. Len(Entries)
    BY <1>1 DEF Entries
  <1>6. QED
    BY <1>1, <1>2, <1>4, <1>5

\* An index that is looked up leads to an address, or nowhere.
LEMMA IndexFound ==
  ASSUME ListInv, rpc \notin {"done", "none"}, NEW a \in Addr
  PROVE  IF Unavailable(a) THEN noAddr \/ Index(a) = None
                           ELSE Index(a) = AddrOf(a) /\ AddrOf(a) \in Addr
  <1>1. raw.addrs \in Seq(Addr) /\ Len(raw.addrs) \in Nat /\ a \in Nat
    BY ReadingTyped, WAssumption DEF Addr
  <1>2. CASE Unavailable(a)
    BY <1>1, <1>2 DEF Unavailable, Index
  <1>3. CASE ~Unavailable(a)
    BY <1>1, <1>3 DEF Unavailable, Index, AddrOf
  <1>4. QED
    BY <1>2, <1>3

\* Giving up frees what was read; it takes a refusal or a list that is not whole.
LEMMA GiveUpKeeps ==
  ASSUME ReadTruly, rpc \notin {"done", "none"}, rpc # "read", GiveUp, refused' \/ ~Whole
  PROVE  ReadTruly'
  <1>1. array = FALSE /\ \A j \in DOMAIN Entries : Entries[j].code = "pair" <=> raw.die.version = 4
    BY DEF ReadTruly
  <1>2. raw' = raw /\ rpc' = "failed" /\ nodes' = 0 /\ array' = array
    BY DEF GiveUp
  <1>3. Whole' = Whole /\ Entries' = Entries
    BY <1>2 DEF Whole, Entries, Index
  <1>4. QED
    BY <1>1, <1>2, <1>3 DEF ReadTruly

\* dwarf_get_ranges_b() takes what is written, up to the end of the list.
LEMMA OldKeeps ==
  ASSUME ListInv, ReadTruly, OldEnds \/ OldEntry
  PROVE  ReadTruly'
  <1>1. /\ rpc = "old" /\ raw.die.version = 4 /\ raw' = raw /\ nodes = Len(got)
        /\ \A j \in DOMAIN got : got[j].code \in {"select", "entry"} /\ ~got[j].failed
        /\ refused = FALSE /\ array = FALSE
        /\ \A j \in DOMAIN Entries : Entries[j].code = "pair" <=> raw.die.version = 4
    BY DEF ReadTruly, OldEnds, OldEntry, GiveUp
  <1>2. Len(got) \in Nat /\ DOMAIN got = 1 .. Len(got) /\ got \in Seq(GotEntry)
    BY <1>1, ReadingTyped
  <1>3. CASE OldEnds /\ raw.cut
    BY <1>1, <1>3, GiveUpKeeps DEF OldEnds, Whole
  <1>4. CASE OldEnds /\ ~raw.cut
    <2>1. /\ rpc' = "collect" /\ UNCHANGED <<raw, got, nodes, array, refused>>
          /\ ~(Len(got) < Len(Entries))
      BY <1>2, <1>4, ReadingTyped, <1>1 DEF OldEnds, nth, Entries
    <2>2. QED
      BY <1>1, <2>1 DEF ReadTruly, Entries
  <1>5. CASE OldEntry
    <2> DEFINE t == OldType(raw.list[nth])
               e == [code |-> t, c1 |-> raw.list[nth].a, c2 |-> raw.list[nth].b, failed |-> FALSE]
    <2>1. /\ got' = Append(got, e) /\ nodes' = nodes + 1
          /\ rpc' = IF t = "end" THEN "collect" ELSE "old"
          /\ UNCHANGED <<raw, array, refused>>
      BY <1>5 DEF OldEntry, Chain
    <2>2. t \in {"end", "select", "entry"} /\ e.code = t /\ ~e.failed
      BY DEF OldType
    <2> HIDE DEF t, e
    <2>3. /\ Len(got') = Len(got) + 1 /\ DOMAIN got' = 1 .. Len(got) + 1
          /\ \A j \in 1 .. Len(got) : got'[j] = got[j]
          /\ got'[Len(got) + 1] = e
      BY <1>2, <2>1
    <2>4. \A j \in DOMAIN got' :
            /\ got'[j].code \in {"select", "entry"} \/ (j = Len(got') /\ got'[j].code = t)
            /\ ~got'[j].failed
      <3>1. \A j \in DOMAIN got' : j \in 1 .. Len(got) \/ j = Len(got')
        BY <1>2, <2>3
      <3>2. \A j \in 1 .. Len(got) : got'[j].code \in {"select", "entry"} /\ ~got'[j].failed
        BY <1>1, <1>2, <2>3
      <3>3. got'[Len(got')].code = t /\ ~got'[Len(got')].failed
        BY <2>2, <2>3
      <3>4. QED
        BY <3>1, <3>2, <3>3
    <2>5. nodes' = Len(got')
      BY <1>1, <2>1, <2>3
    <2>6. CASE t = "end"
      <3>1. Len(got') > 0 /\ got'[Len(got')].code = "end"
        BY <1>2, <2>2, <2>3, <2>6
      <3>2. \A j \in DOMAIN got' : got'[j].code \in {"end", "select", "entry"} /\ ~got'[j].failed
        BY <2>4, <2>6
      <3>3. QED
        BY <1>1, <2>1, <2>5, <2>6, <3>1, <3>2 DEF ReadTruly, Entries
    <2>7. CASE t # "end"
      <3>1. \A j \in DOMAIN got' : got'[j].code \in {"select", "entry"} /\ ~got'[j].failed
        BY <2>2, <2>4, <2>7
      <3>2. QED
        BY <1>1, <2>1, <2>5, <2>7, <3>1 DEF ReadTruly, Entries
    <2>8. QED
      BY <2>6, <2>7
  <1>6. QED
    BY <1>3, <1>4, <1>5

\* What the list says does not change while it is read.
LEMMA SameList ==
  ASSUME raw' = raw, NEW j
  PROVE  Entries' = Entries /\ Bounds5(j)' = Bounds5(j) /\ BaseAt(j)' = BaseAt(j) /\ Whole' = Whole
  BY DEF Entries, Bounds5, BaseAt, BasesBefore, Index, Whole

\* What was read before is as right as it was.
LEMMA RightlyStill ==
  ASSUME raw' = raw, NEW j, ReadRightly(j), got'[j] = got[j]
  PROVE  ReadRightly(j)'
  BY SameList DEF ReadRightly

\* An entry that does not end the list is read rightly.
LEMMA EntryKeeps ==
  ASSUME ListInv, ReadTruly, rpc = "new", NEW k \in Nat, k = nth, k \in DOMAIN Entries,
         NEW g, g.code = Entries[k].code, g.code \in Codes \ {"unknown", "end_of_list"},
         (g.code \notin Bases /\ ~g.failed) =>
           Bounds5(k) = <<g.c1, g.c2>> /\ g.c1 # None /\ g.c2 # None,
         (g.code \notin Bases /\ g.failed) =>
           g.code = "offset_pair" /\ (~Whole \/ BaseAt(k) = None),
         Chain(g), rpc' = "new", UNCHANGED <<raw, array, refused>>,
         noAddr' => ~Whole,
         lbase' # BaseAt(k + 1) => lbase' = None /\ ~Whole
  PROVE  ReadTruly'
  <1>1. /\ raw.die.version = 5 /\ NoEndBefore(Len(got)) /\ nodes = Len(got)
        /\ \A j \in DOMAIN got : ReadRightly(j)
        /\ refused = FALSE /\ array = FALSE
        /\ \A j \in DOMAIN Entries : Entries[j].code = "pair" <=> raw.die.version = 4
    BY DEF ReadTruly
  <1>2. Len(got) \in Nat /\ DOMAIN got = 1 .. Len(got) /\ got \in Seq(GotEntry) /\ k = Len(got) + 1
    BY ReadingTyped DEF nth
  <1>3. /\ Len(got') = k /\ DOMAIN got' = 1 .. k
        /\ \A j \in 1 .. k - 1 : got'[j] = got[j]
        /\ got'[k] = g
    BY <1>2 DEF Chain
  <1>4. /\ Entries' = Entries /\ Whole' = Whole
        /\ \A j : BaseAt(j)' = BaseAt(j) /\ Bounds5(j)' = Bounds5(j)
    BY SameList
  <1>5. \A j \in 1 .. k - 1 : ReadRightly(j)'
    BY <1>1, <1>2, <1>3, RightlyStill
  <1>6. ReadRightly(k)'
    BY <1>3, <1>4 DEF ReadRightly
  <1>7. \A j \in DOMAIN got' : ReadRightly(j)'
    <2>1. 1 .. k = (1 .. k - 1) \cup {k}
      BY <1>2
    <2>2. QED
      BY <1>3, <1>5, <1>6, <2>1
  <1>8. NoEndBefore(Len(got))'
    <2>1. \A j \in 1 .. k : j \in DOMAIN Entries /\ Entries[j].code # "end_of_list"
      BY <1>1, <1>2 DEF NoEndBefore
    <2>2. QED
      BY <1>3, <1>4, <2>1 DEF NoEndBefore
  <1>9. nth' = k + 1 /\ nodes' = Len(got')
    BY <1>1, <1>2, <1>3 DEF nth, Chain
  <1>10. lbase' # BaseAt(nth)' => lbase' = None /\ ~Whole'
    <2>1. BaseAt(nth)' = BaseAt(k + 1)
      <3>1. BaseAt(nth)' = BaseAt(k + 1)'
        BY <1>9 DEF BaseAt, BasesBefore
      <3>2. QED
        BY <1>4, <3>1
    <2>2. QED
      BY <1>4, <2>1
  <1>11. QED
    BY <1>1, <1>4, <1>7, <1>8, <1>9, <1>10 DEF ReadTruly

\* The list ends with its end.
LEMMA EndKeeps ==
  ASSUME ListInv, ReadTruly, rpc = "new",
         nth \in DOMAIN Entries => Entries[nth].code = "end_of_list",
         NEW g, g.code = "end_of_list",
         Chain(g), rpc' = "collect", UNCHANGED <<raw, array, refused>>
  PROVE  ReadTruly'
  <1>1. /\ raw.die.version = 5 /\ NoEndBefore(Len(got)) /\ nodes = Len(got)
        /\ \A j \in DOMAIN got : ReadRightly(j)
        /\ refused = FALSE /\ array = FALSE
        /\ \A j \in DOMAIN Entries : Entries[j].code = "pair" <=> raw.die.version = 4
    BY DEF ReadTruly
  <1>2. Len(got) \in Nat /\ DOMAIN got = 1 .. Len(got) /\ got \in Seq(GotEntry) /\ nth = Len(got) + 1
    BY ReadingTyped DEF nth
  <1>3. /\ Len(got') = nth /\ got'[nth] = g /\ Len(got') - 1 = Len(got) /\ nodes' = Len(got')
        /\ \A j \in 1 .. Len(got) : got'[j] = got[j]
    BY <1>1, <1>2 DEF Chain
  <1>4. \A j \in 1 .. Len(got) : ReadRightly(j)' /\ j \in DOMAIN Entries
    BY <1>1, <1>2, <1>3, RightlyStill DEF NoEndBefore
  <1>5. Entries' = Entries
    BY DEF Entries
  <1>6. Len(got') > 0 /\ got'[Len(got')].code = "end_of_list"
    BY <1>2, <1>3
  <1>7. Len(got') \in DOMAIN Entries => Entries[Len(got')].code = "end_of_list"
    BY <1>3
  <1>8. \A j \in 1 .. Len(got') - 1 : j \in DOMAIN Entries' /\ ReadRightly(j)'
    BY <1>3, <1>4, <1>5
  <1>9. QED
    BY <1>1, <1>3, <1>5, <1>6, <1>7, <1>8 DEF ReadTruly

\* What the entry read next is: one of the list, or, behind a list without an
\* end, what the byte after the section passes for.
LEMMA NextEntryIs ==
  ASSUME ListInv, ReadTruly, rpc = "new", NEW e \in Next5
  PROVE  /\ e.a \in Addr /\ e.b \in Addr
         /\ \/ nth \in DOMAIN Entries /\ e = Entries[nth] /\ e.code \in Codes
            \/ nth > Len(Entries) /\ e \in {EndOfList, Unknown}
  <1>1. Len(got) \in Nat /\ nth \in Nat /\ nth > 0
    BY ReadingTyped DEF nth
  <1>2. CASE nth <= Len(Entries)
    <2>1. nth \in DOMAIN Entries /\ e = Entries[nth]
      BY <1>1, <1>2, ReadingTyped DEF Next5, Entries
    <2>2. e.code # "pair"
      BY <2>1 DEF ReadTruly
    <2>3. QED
      BY <2>1, <2>2, ReadingTyped
  <1>3. CASE ~(nth <= Len(Entries))
    <2>1. e \in {EndOfList, Unknown}
      BY <1>3 DEF Next5, Entries
    <2>2. 0 \in Addr
      BY WAssumption DEF Addr
    <2>3. QED
      BY <1>1, <1>3, <2>1, <2>2, ReadingTyped DEF EndOfList, Unknown
  <1>4. QED
    BY <1>2, <1>3

\* Where an index leads nowhere, or has once, the list is not whole.
LEMMA LostIndex ==
  ASSUME ListInv, ReadTruly, rpc = "new", nth \in DOMAIN Entries, NEW a \in Addr, Unavailable(a),
         \/ Entries[nth].code \in Indexed /\ a = Entries[nth].a
         \/ Entries[nth].code = "startx_endx" /\ a = Entries[nth].b
  PROVE  ~Whole
  <1>1. CASE noAddr
    BY <1>1 DEF ReadTruly
  <1>2. CASE Index(a) = None
    <2>1. /\ nth \in Nat /\ nth > 0 /\ NoEndBefore(nth - 1)
          /\ raw.die.version = 5 /\ Entries \in Seq(RawEntry)
      BY ReadingTyped DEF ReadTruly, nth
    <2>2. QED
      BY <1>2, <2>1, FaultBeforeEnd
  <1>3. QED
    BY <1>1, <1>2, IndexFound

\* Each entry of a DWARF 5 list is read as it is written, or given up.
LEMMA NewKeeps ==
  ASSUME ListInv, ReadTruly, NewEntry
  PROVE  ReadTruly'
  <1>1. rpc = "new"
    BY DEF NewEntry
  <1>2. PICK e \in Next5 : \/ BaseEntry(e) \/ IndexedEntry(e) \/ PlainEntry(e)
                           \/ e.code = "unknown" /\ GiveUp /\ UNCHANGED refused
    BY DEF NewEntry
  <1>3. /\ e.a \in Addr /\ e.b \in Addr /\ e.a \in Nat /\ e.b \in Nat
        /\ \/ nth \in DOMAIN Entries /\ e = Entries[nth] /\ e.code \in Codes
           \/ nth > Len(Entries) /\ e \in {EndOfList, Unknown}
    BY <1>1, NextEntryIs, WAssumption DEF Addr
  <1>4. /\ nth \in Nat /\ nth > 0 /\ nth = Len(got) + 1 /\ NoEndBefore(nth - 1)
        /\ raw.die.version = 5 /\ Entries \in Seq(RawEntry)
        /\ (noAddr => ~Whole) /\ (lbase # BaseAt(nth) => lbase = None /\ ~Whole)
        /\ lbase \in Addr \cup {None} /\ None \notin Addr
    BY <1>1, ReadingTyped DEF ReadTruly, nth
  <1> DEFINE k == nth
  <1>5. k \in Nat /\ k > 0 /\ k = nth
    BY <1>4
  <1>6. CASE e.code = "unknown"
    <2>1. GiveUp
      BY <1>2, <1>6 DEF BaseEntry, IndexedEntry, PlainEntry
    <2>2. ~Whole
      BY <1>3, <1>4, <1>6, FaultBeforeEnd
    <2>3. QED
      BY <1>1, <2>1, <2>2, GiveUpKeeps
  <1>7. CASE e.code = "end_of_list"
    <2>1. Read(e, 0, 0, lbase)
      BY <1>2, <1>7 DEF BaseEntry, IndexedEntry, PlainEntry
    <2> DEFINE g == [code |-> e.code, c1 |-> 0, c2 |-> 0, failed |-> FALSE]
    <2>2. g.code = "end_of_list" /\ Chain(g) /\ rpc' = "collect" /\ UNCHANGED <<raw, array, refused>>
      BY <1>7, <2>1 DEF Read
    <2>3. nth \in DOMAIN Entries => Entries[nth].code = "end_of_list"
      BY <1>3, <1>7, ReadingTyped, <1>1
    <2> HIDE DEF g
    <2>4. QED
      BY <1>1, <2>2, <2>3, EndKeeps
  <1>8. CASE e.code \notin {"unknown", "end_of_list"}
    <2>1. k \in DOMAIN Entries /\ e = Entries[k] /\ e.code \in Codes
      BY <1>3, <1>8 DEF EndOfList, Unknown
    <2>2. BaseAt(k + 1) = IF e.code \notin Bases THEN BaseAt(k)
                          ELSE IF e.code = "base_address" THEN e.a ELSE Index(e.a)
      BY <1>5, <2>1, BaseBehind
    <2>3. ASSUME NEW c1 \in Addr, NEW c2 \in Addr, NEW b5, Read(e, c1, c2, b5),
                 e.code \notin Bases => Bounds5(k) = <<c1, c2>>,
                 b5 # BaseAt(k + 1) => b5 = None /\ ~Whole
          PROVE  ReadTruly'
      <3> DEFINE g == [code |-> e.code, c1 |-> c1, c2 |-> c2, failed |-> FALSE]
      <3>1. /\ Chain(g) /\ rpc' = "new" /\ UNCHANGED <<raw, array, refused>>
            /\ lbase' = b5 /\ noAddr' = noAddr
        BY <1>8, <2>3 DEF Read
      <3>2. /\ g.code = Entries[k].code /\ g.code \in Codes \ {"unknown", "end_of_list"}
            /\ g.code = e.code /\ g.c1 = c1 /\ g.c2 = c2 /\ g.failed = FALSE
        BY <1>8, <2>1
      <3>3. c1 # None /\ c2 # None
        BY <1>4
      <3> HIDE DEF g, k
      <3>4. /\ (g.code \notin Bases /\ ~g.failed) =>
                 Bounds5(k) = <<g.c1, g.c2>> /\ g.c1 # None /\ g.c2 # None
            /\ (g.code \notin Bases /\ g.failed) =>
                 g.code = "offset_pair" /\ (~Whole \/ BaseAt(k) = None)
        BY <2>3, <3>2, <3>3
      <3>5. (noAddr' => ~Whole) /\ (lbase' # BaseAt(k + 1) => lbase' = None /\ ~Whole)
        BY <1>4, <2>3, <3>1
      <3>6. QED
        BY <1>1, <1>5, <2>1, <3>1, <3>2, <3>4, <3>5, EntryKeeps
    <2>4. ASSUME Failed(e), rpc' = "new",
                 e.code \notin Bases => e.code = "offset_pair" /\ (~Whole \/ BaseAt(k) = None),
                 noAddr' => ~Whole, BaseAt(k + 1) # None => ~Whole
          PROVE  ReadTruly'
      <3> DEFINE g == [code |-> e.code, c1 |-> 0, c2 |-> 0, failed |-> TRUE]
      <3>1. Chain(g) /\ UNCHANGED <<raw, array, refused>> /\ lbase' = None
        BY <2>4 DEF Failed
      <3>2. /\ g.code = Entries[k].code /\ g.code \in Codes \ {"unknown", "end_of_list"}
            /\ g.code = e.code /\ g.failed = TRUE
        BY <1>8, <2>1
      <3> HIDE DEF g, k
      <3>3. /\ (g.code \notin Bases /\ ~g.failed) =>
                 Bounds5(k) = <<g.c1, g.c2>> /\ g.c1 # None /\ g.c2 # None
            /\ (g.code \notin Bases /\ g.failed) =>
                 g.code = "offset_pair" /\ (~Whole \/ BaseAt(k) = None)
        BY <2>4, <3>2
      <3>4. lbase' # BaseAt(k + 1) => lbase' = None /\ ~Whole
        BY <2>4, <3>1
      <3>5. QED
        BY <1>1, <1>5, <2>1, <2>4, <3>1, <3>2, <3>3, <3>4, EntryKeeps
    <2>5. rpc' = "new" \/ ~Failed(e)
      BY <1>1 DEF Failed
    <2>6. CASE e.code = "base_address"
      <3>1. Read(e, e.a, 0, e.a)
        BY <1>2, <2>6 DEF BaseEntry, IndexedEntry, PlainEntry
      <3>2. e.code \in Bases /\ BaseAt(k + 1) = e.a /\ 0 \in Addr
        BY <2>2, <2>6, WAssumption DEF Bases, Addr
      <3>3. QED
        BY <1>3, <2>3, <3>1, <3>2
    <2>7. CASE e.code = "base_addressx"
      <3>1. e.code \in Bases /\ BaseAt(k + 1) = Index(e.a) /\ 0 \in Addr /\ e.code \in Indexed
        BY <2>2, <2>7, WAssumption DEF Bases, Addr, Indexed
      <3>2. CASE Unavailable(e.a)
        <4>1. Failed(e)
          BY <1>2, <2>7, <3>2 DEF BaseEntry, IndexedEntry, PlainEntry
        <4>2. ~Whole
          BY <1>1, <1>3, <2>1, <3>1, <3>2, LostIndex
        <4>3. QED
          BY <2>4, <2>5, <3>1, <4>1, <4>2
      <3>3. CASE ~Unavailable(e.a)
        <4>1. Read(e, AddrOf(e.a), 0, AddrOf(e.a))
          BY <1>2, <2>7, <3>3 DEF BaseEntry, IndexedEntry, PlainEntry
        <4>2. Index(e.a) = AddrOf(e.a) /\ AddrOf(e.a) \in Addr
          BY <1>1, <1>3, <3>3, IndexFound
        <4>3. QED
          BY <2>3, <3>1, <4>1, <4>2
      <3>4. QED
        BY <3>2, <3>3
    <2>8. CASE e.code \notin Bases
      <3>1. /\ BaseAt(k + 1) = BaseAt(k)
            /\ lbase # BaseAt(k + 1) => lbase = None /\ ~Whole
        BY <1>4, <2>2, <2>8
      <3>2. Bounds5(k) =
              CASE e.code = "offset_pair" ->
                     <<IF BaseAt(k) = None THEN None ELSE Add(BaseAt(k), e.a),
                       IF BaseAt(k) = None THEN None ELSE Add(BaseAt(k), e.b)>>
                [] e.code = "start_end" -> <<e.a, e.b>>
                [] e.code = "start_length" -> <<e.a, Add(e.a, e.b)>>
                [] e.code = "startx_endx" -> <<Index(e.a), Index(e.b)>>
                [] e.code = "startx_length" ->
                     <<Index(e.a), IF Index(e.a) = None THEN None ELSE Add(Index(e.a), e.b)>>
                [] OTHER -> <<None, None>>
        BY <2>1 DEF Bounds5
      <3> HIDE DEF k
      <3>3. CASE e.code \in {"startx_endx", "startx_length"}
        <4>1. CASE GiveUp /\ UNCHANGED refused /\ Unavailable(e.a)
          <5>1. ~Whole
            BY <1>1, <1>3, <1>5, <2>1, <3>3, <4>1, LostIndex DEF Indexed
          <5>2. QED
            BY <1>1, <4>1, <5>1, GiveUpKeeps
        <4>2. CASE GiveUp /\ UNCHANGED refused /\ e.code = "startx_endx" /\ Unavailable(e.b)
          <5>1. ~Whole
            BY <1>1, <1>3, <1>5, <2>1, <4>2, LostIndex
          <5>2. QED
            BY <1>1, <4>2, <5>1, GiveUpKeeps
        <4>3. CASE e.code = "startx_endx" /\ ~Unavailable(e.a) /\ ~Unavailable(e.b)
          <5>1. Read(e, AddrOf(e.a), AddrOf(e.b), lbase)
            BY <1>2, <4>3 DEF BaseEntry, IndexedEntry, PlainEntry
          <5>2. /\ Index(e.a) = AddrOf(e.a) /\ AddrOf(e.a) \in Addr
                /\ Index(e.b) = AddrOf(e.b) /\ AddrOf(e.b) \in Addr
            BY <1>1, <1>3, <4>3, IndexFound
          <5>3. Bounds5(k) = <<AddrOf(e.a), AddrOf(e.b)>>
            BY <3>2, <4>3, <5>2
          <5>4. QED
            BY <2>3, <3>1, <5>1, <5>2, <5>3
        <4>4. CASE e.code = "startx_length" /\ ~Unavailable(e.a)
          <5>1. Read(e, AddrOf(e.a), Add(AddrOf(e.a), e.b), lbase)
            BY <1>2, <4>4 DEF BaseEntry, IndexedEntry, PlainEntry
          <5>2. /\ Index(e.a) = AddrOf(e.a) /\ AddrOf(e.a) \in Addr
                /\ Add(AddrOf(e.a), e.b) \in Addr
            BY <1>1, <1>3, <4>4, IndexFound, AddType
          <5>3. Bounds5(k) = <<AddrOf(e.a), Add(AddrOf(e.a), e.b)>>
            BY <1>4, <3>2, <4>4, <5>2
          <5>4. QED
            BY <2>3, <3>1, <5>1, <5>2, <5>3
        <4>5. QED
          BY <1>2, <3>3, <4>1, <4>2, <4>3, <4>4 DEF BaseEntry, IndexedEntry, PlainEntry
      <3>4. CASE e.code = "offset_pair" /\ lbase = None
        <4>1. Failed(e)
          BY <1>2, <3>4 DEF BaseEntry, IndexedEntry, PlainEntry
        <4>2. ~Whole \/ BaseAt(k) = None
          BY <3>1, <3>4
        <4>3. noAddr' => ~Whole
          BY <1>4, <3>4, <4>1 DEF Failed
        <4>4. BaseAt(k + 1) # None => ~Whole
          BY <3>1, <3>4
        <4>5. QED
          BY <2>4, <2>5, <3>4, <4>1, <4>2, <4>3, <4>4
      <3>5. CASE e.code = "offset_pair" /\ lbase # None
        <4>1. Read(e, Add(e.a, lbase), Add(e.b, lbase), lbase)
          BY <1>2, <3>5 DEF BaseEntry, IndexedEntry, PlainEntry
        <4>2. lbase = BaseAt(k) /\ lbase \in Addr
          BY <1>4, <3>1, <3>5
        <4>3. Add(e.a, lbase) = Add(lbase, e.a) /\ Add(e.b, lbase) = Add(lbase, e.b)
          BY <1>3, <4>2, WAssumption DEF Add, Addr
        <4>4. Bounds5(k) = <<Add(e.a, lbase), Add(e.b, lbase)>>
          BY <3>2, <3>5, <4>2, <4>3
        <4>5. Add(e.a, lbase) \in Addr /\ Add(e.b, lbase) \in Addr
          BY <1>3, <4>2, AddType
        <4>6. QED
          BY <2>3, <3>1, <4>1, <4>4, <4>5
      <3>6. CASE e.code = "start_end"
        <4>1. Read(e, e.a, e.b, lbase)
          BY <1>2, <3>6 DEF BaseEntry, IndexedEntry, PlainEntry
        <4>2. Bounds5(k) = <<e.a, e.b>>
          BY <3>2, <3>6
        <4>3. QED
          BY <1>3, <2>3, <3>1, <4>1, <4>2
      <3>7. CASE e.code = "start_length"
        <4>1. Read(e, e.a, Add(e.a, e.b), lbase)
          BY <1>2, <3>7 DEF BaseEntry, IndexedEntry, PlainEntry
        <4>2. Bounds5(k) = <<e.a, Add(e.a, e.b)>> /\ Add(e.a, e.b) \in Addr
          BY <1>3, <3>2, <3>7, AddType
        <4>3. QED
          BY <1>3, <2>3, <3>1, <4>1, <4>2
      <3>8. QED
        BY <1>8, <2>1, <2>8, <3>3, <3>4, <3>5, <3>6, <3>7 DEF Codes
    <2>9. QED
      BY <2>6, <2>7, <2>8 DEF Bases
  <1>9. QED
    BY <1>6, <1>7, <1>8

\* The head, the array and whatever is missing.
LEMMA AroundReading ==
  ASSUME ListInv, ReadTruly, Refused \/ Head5 \/ Collect
  PROVE  ReadTruly'
  <1>1. CASE Refused
    BY <1>1, GiveUpKeeps DEF Refused
  <1>2. CASE Head5
    <2>1. /\ raw' = raw /\ got' = <<>> /\ got = <<>> /\ noAddr' = FALSE /\ lbase' = raw.die.lowpc
          /\ UNCHANGED <<nodes, array, refused>> /\ rpc' = "new" /\ raw.die.version = 5
          /\ refused = FALSE /\ array = FALSE /\ nodes = 0
          /\ \A j \in DOMAIN Entries : Entries[j].code = "pair" <=> raw.die.version = 4
      BY <1>2 DEF Head5, ReadTruly
    <2>2. nth' = 1 /\ Len(got') = 0 /\ DOMAIN got' = {} /\ NoEndBefore(0)
      BY <2>1 DEF nth, NoEndBefore
    <2>3. BaseAt(1)' = lbase'
      BY <2>1 DEF BaseAt, BasesBefore
    <2>4. BaseAt(nth)' = lbase' /\ NoEndBefore(Len(got))'
      BY <2>2, <2>3 DEF BaseAt, BasesBefore, NoEndBefore
    <2>5. Entries' = Entries
      BY <2>1 DEF Entries
    <2>6. QED
      BY <2>1, <2>2, <2>4, <2>5 DEF ReadTruly
  <1>3. CASE Collect
    <2>1. /\ rpc' = "read" /\ nodes' = IF raw.die.version = 4 THEN 0 ELSE nodes
          /\ UNCHANGED <<raw, got, refused>>
      BY <1>3 DEF Collect
    <2>2. /\ nodes = Len(got) /\ refused = FALSE
          /\ \A j \in DOMAIN Entries : Entries[j].code = "pair" <=> raw.die.version = 4
      BY <1>3 DEF Collect, ReadTruly
    <2>3. \/ /\ raw.die.version = 4
             /\ \A j \in DOMAIN got : got[j].code \in {"end", "select", "entry"} /\ ~got[j].failed
             /\ Len(got) < Len(Entries) => Len(got) > 0 /\ got[Len(got)].code = "end"
          \/ /\ raw.die.version = 5
             /\ Len(got) > 0 /\ got[Len(got)].code = "end_of_list"
             /\ \A j \in 1 .. Len(got) - 1 : j \in DOMAIN Entries /\ ReadRightly(j)
             /\ Len(got) \in DOMAIN Entries => Entries[Len(got)].code = "end_of_list"
      BY <1>3 DEF Collect, ReadTruly
    <2>4. \A j \in 1 .. Len(got) - 1 : ReadRightly(j) => ReadRightly(j)'
      BY <2>1, RightlyStill
    <2>5. Entries' = Entries
      BY <2>1 DEF Entries
    <2>6. \/ /\ raw'.die.version = 4
             /\ \A j \in DOMAIN got' : got'[j].code \in {"end", "select", "entry"} /\ ~got'[j].failed
             /\ Len(got') < Len(Entries') => Len(got') > 0 /\ got'[Len(got')].code = "end"
          \/ /\ raw'.die.version = 5
             /\ Len(got') > 0 /\ got'[Len(got')].code = "end_of_list"
             /\ \A j \in 1 .. Len(got') - 1 : j \in DOMAIN Entries' /\ ReadRightly(j)'
             /\ Len(got') \in DOMAIN Entries' => Entries'[Len(got')].code = "end_of_list"
      BY <2>1, <2>3, <2>4, <2>5
    <2>7. QED
      BY <2>1, <2>2, <2>5, <2>6 DEF ReadTruly
  <1>4. QED
    BY <1>1, <1>2, <1>3

\* However the list is read, it is read as it is written.
LEMMA ReadingKept == ListSpec => []ReadTruly
  <1>1. ListInv /\ ReadTruly /\ [ListNext]_listVars => ReadTruly'
    <2> SUFFICES ASSUME ListInv, ReadTruly, [ListNext]_listVars PROVE ReadTruly'
      OBVIOUS
    <2>1. CASE ReadList /\ UNCHANGED vars
      BY <2>1, AroundReading, OldKeeps, NewKeeps DEF ReadList
    <2>2. CASE BeginScan \/ Scan
      <3>1. rpc' \in {"done", "none"}
        BY <2>2 DEF BeginScan, Scan, readerVars
      <3>2. QED
        BY <3>1 DEF ReadTruly
    <2>3. CASE UNCHANGED listVars
      <3>1. UNCHANGED <<raw, rpc, got, lbase, noAddr, nodes, array, refused>>
        BY <2>3 DEF listVars, readerVars
      <3>2. \A j : ReadRightly(j)' = ReadRightly(j)
        BY <3>1 DEF ReadRightly, Entries, Bounds5, BaseAt, BasesBefore, Index, Whole
      <3>3. /\ Entries' = Entries /\ Whole' = Whole /\ nth' = nth /\ BaseAt(nth)' = BaseAt(nth)
            /\ NoEndBefore(Len(got))' = NoEndBefore(Len(got))
        BY <3>1 DEF Entries, BaseAt, BasesBefore, Index, Whole, nth, NoEndBefore
      <3>4. QED
        BY <3>1, <3>2, <3>3 DEF ReadTruly
    <2>4. QED
      BY <2>1, <2>2, <2>3 DEF ListNext
  <1>2. QED
    BY <1>1, ReadBegins, ListInvHolds, PTL DEF ListSpec

\* A list that libdwarf hands out holds the ranges that its entries give, and if
\* it is whole all of them; one that it gives up leaves nothing behind.
THEOREM ListsCorrect == ListSpec => []ListsAsWritten
  <1>1. ListInv /\ ReadTruly => ListsAsWritten
    <2> SUFFICES ASSUME ListInv, ReadTruly PROVE ListsAsWritten
      OBVIOUS
    <2> DEFINE seen == [j \in DOMAIN got |-> AsListed(got[j])]
               known == {j \in DOMAIN got \cap DOMAIN Entries : None \notin {Bounds5(j)[1], Bounds5(j)[2]}}
    <2>1. rpc = "failed" => (refused \/ ~Whole) /\ nodes = 0 /\ ~array
      BY DEF ReadTruly
    <2>2. CASE rpc # "read"
      BY <2>1, <2>2 DEF ListsAsWritten
    <2>3. CASE rpc = "read" /\ raw.die.version = 4
      <3>1. /\ \A j \in DOMAIN got : got[j].code \in {"end", "select", "entry"} /\ ~got[j].failed
            /\ Len(got) < Len(Entries) => Len(got) > 0 /\ got[Len(got)].code = "end"
            /\ nodes = 0
        BY <2>3 DEF ReadTruly
      <3>2. \A j \in DOMAIN got : seen[j].kind \in Kinds(raw.die.version)
        <4>1. \A e : (e.code \in {"end", "select", "entry"} /\ ~e.failed) => AsListed(e).kind = e.code
          BY DEF AsListed, Bases
        <4>2. QED
          BY <2>3, <3>1, <4>1 DEF Kinds
      <3>3. (Len(got) < Len(Entries) /\ Len(got) \in DOMAIN got) => seen[Len(got)].kind = "end"
        BY <3>1 DEF AsListed
      <3>4. Len(got) < Len(Entries) => Len(got) \in DOMAIN got
        BY <2>3, <3>1, ReadingTyped
      <3>5. QED
        BY <2>3, <3>1, <3>2, <3>3, <3>4 DEF ListsAsWritten
    <2>4. CASE rpc = "read" /\ raw.die.version # 4
      <3> DEFINE L == Len(got)
      <3>1. /\ raw.die.version = 5 /\ L > 0 /\ got[L].code = "end_of_list"
            /\ \A j \in 1 .. L - 1 : j \in DOMAIN Entries /\ ReadRightly(j)
            /\ L \in DOMAIN Entries => Entries[L].code = "end_of_list"
            /\ nodes = L
        BY <2>4 DEF ReadTruly
      <3>2. /\ L \in Nat /\ DOMAIN got = 1 .. L /\ L \in DOMAIN got
            /\ DOMAIN got = (1 .. L - 1) \cup {L}
        BY <2>4, <3>1, ReadingTyped
      <3> HIDE DEF L
      <3>3. seen[L].kind = "stop"
        BY <3>1, <3>2 DEF AsListed, Bases
      <3>4. L \notin known
        BY <3>1 DEF Bounds5
      <3>5. ASSUME NEW j \in 1 .. L - 1
            PROVE  /\ seen[j].kind \in {"entry", "skip"}
                   /\ seen[j].kind = "entry" =>
                        j \in known /\ Bounds5(j) = <<seen[j].lo, seen[j].hi>>
                   /\ Whole /\ j \in known => seen[j].kind = "entry"
        <4>1. ReadRightly(j) /\ j \in DOMAIN got /\ j \in DOMAIN Entries /\ seen[j] = AsListed(got[j])
          BY <3>1, <3>2
        <4>2. got[j].code \in Codes \ {"unknown", "end_of_list"} /\ got[j].code = Entries[j].code
          BY <4>1 DEF ReadRightly
        <4>3. CASE got[j].code \in Bases
          <5>1. seen[j].kind = "skip"
            BY <4>1, <4>3 DEF AsListed, Bases
          <5>2. j \notin known
            BY <4>2, <4>3 DEF Bounds5, Bases
          <5>3. QED
            BY <5>1, <5>2
        <4>4. CASE got[j].code \notin Bases /\ got[j].failed
          <5>1. seen[j].kind = "skip"
            BY <4>1, <4>2, <4>4 DEF AsListed, Codes
          <5>2. got[j].code = "offset_pair" /\ (~Whole \/ BaseAt(j) = None)
            BY <4>1, <4>4 DEF ReadRightly
          <5>3. BaseAt(j) = None => j \notin known
            BY <4>2, <5>2 DEF Bounds5
          <5>4. QED
            BY <5>1, <5>2, <5>3
        <4>5. CASE got[j].code \notin Bases /\ ~got[j].failed
          <5>1. /\ seen[j].kind = "entry" /\ seen[j].lo = got[j].c1 /\ seen[j].hi = got[j].c2
            BY <4>1, <4>2, <4>5 DEF AsListed, Codes
          <5>2. Bounds5(j) = <<got[j].c1, got[j].c2>> /\ got[j].c1 # None /\ got[j].c2 # None
            BY <4>1, <4>5 DEF ReadRightly
          <5>3. QED
            BY <4>1, <5>1, <5>2
        <4>6. QED
          BY <4>3, <4>4, <4>5
      <3> HIDE DEF seen, known
      <3>6. \A j \in DOMAIN got :
              /\ seen[j].kind \in {"entry", "skip", "stop"}
              /\ seen[j].kind = "entry" => j \in known /\ Bounds5(j) = <<seen[j].lo, seen[j].hi>>
              /\ Whole /\ j \in known => seen[j].kind = "entry"
        BY <3>2, <3>3, <3>4, <3>5
      <3>7. known \subseteq DOMAIN got
        BY DEF known
      <3>8. /\ \A j \in DOMAIN got : seen[j].kind \in Kinds(raw.die.version)
            /\ \A j \in DOMAIN got : seen[j].kind = "entry" =>
                  j \in known /\ Bounds5(j) = <<seen[j].lo, seen[j].hi>>
            /\ Whole => \A j \in known : seen[j].kind = "entry"
        BY <3>1, <3>6, <3>7 DEF Kinds
      <3>9. QED
        BY <2>4, <3>1, <3>3, <3>8 DEF ListsAsWritten, seen, known, L
    <2>5. QED
      BY <2>2, <2>3, <2>4
  <1>2. QED
    BY <1>1, ListInvHolds, ReadingKept, PTL

=============================================================================
