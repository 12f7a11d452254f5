---------------------------- MODULE OfFileProofs -----------------------------
(***************************************************************************)
(* For every image, every list of addresses and any number of failing      *)
(* calls: dwstOfFileExt() gives back what it was given and reads no table  *)
(* twice, and its callbacks are those that StackReport promises.           *)
(***************************************************************************)
EXTENDS OfFile, TLAPS

\* What the proofs speak of: the units of the image, what cu_info may say of one,
\* and the places at which a unit is at work.
Units == 1 .. Len(image.units)
Kept == [unit : Units, offs : BOOLEAN, lines : {"unread", "none", "rows"},
         files : {"unread", "none", "list"}]
Working == {"lines", "search", "files", "report"}

\* What is known of each place in the code.
Whereabouts ==
  /\ image \in Images /\ query \in Queries
  /\ pc \in {"start", "no_dbg"} => cuArr = <<>>
  /\ pc = "start" => out = <<>> /\ i = 1 /\ next = 1
  /\ pc = "store" => next > 1
  /\ pc \in Working \cup {"pick"} => i <= Len(query.addrs)
  /\ pc \in Working => j <= cuQty
  /\ pc = "lines" => cu.lines = "unread"
  /\ pc = "search" => cu.lines # "unread"
  /\ pc = "files" => cu.files = "unread"
  /\ pc = "report" => cu.files = "list"

\* Handles that there are, and those that the clean-up has passed.
HandlesKnown ==
  /\ held \subseteq {<<"dbg", 0>>, <<"cuArr", 0>>} \cup ({"die"} \X (0 .. cuQty))
                    \cup ({"ranges", "context", "files"} \X (1 .. cuQty))
  /\ <<"dbg", 0>> \in held <=> pc \notin {"start", "no_dbg", "done"}
  /\ pc \in {"start", "no_dbg", "done"} => held = {}
  /\ pc = "close" => \A k \in 1 .. j - 1 :
       <<"context", k>> \notin held /\ <<"files", k>> \notin held /\ <<"ranges", k>> \notin held

\* The units kept are in file order.
InOrder ==
  /\ \A k, l \in 1 .. cuQty : k < l => cuArr[k].unit < cuArr[l].unit
  /\ \A k \in 1 .. cuQty : cuArr[k].unit < next - (IF pc = "store" THEN 1 ELSE 0)

\* How often a table has been read of which cu_info says this.
Once(state) == IF state = "unread" THEN 0 ELSE 1

\* A table is read when cu_info stops saying that it is not.
ReadsCounted ==
  /\ reads \in [Units -> [lines : Nat, files : Nat]]
  /\ \A k \in 1 .. cuQty :
       reads[cuArr[k].unit] = [lines |-> Once(cuArr[k].lines), files |-> Once(cuArr[k].files)]
  /\ \A u \in Units : (\A k \in 1 .. cuQty : cuArr[k].unit # u) => reads[u] = [lines |-> 0, files |-> 0]

\* The inductive invariant of the handles and the reads.
HandleInv == FieldsMatchHandles /\ Whereabouts /\ HandlesKnown /\ InOrder /\ ReadsCounted

\* What cu_info says of a unit is true of it; it is the whole truth unless a call failed.
Remembered ==
  \A k \in 1 .. cuQty :
    LET u == image.units[cuArr[k].unit]
    IN /\ cuArr[k].lines = "rows" => u.table = "rows"
       /\ cuArr[k].files = "list" => u.fileCount > 0
       /\ faults = 0 => /\ cuArr[k].unit = k /\ cuArr[k].offs
                        /\ cuArr[k].lines \in {"unread", u.table}
                        /\ cuArr[k].files = "none" => u.fileCount = 0

\* Without a failure every unit is kept, and those passed over cannot answer.
NoneMissed ==
  faults = 0 =>
    /\ pc = "scan" => cuQty = next - 1
    /\ pc = "store" => cuQty = next - 2
    /\ pc \in Working \cup {"pick", "address"} => cuQty = Len(image.units)
    /\ pc \in Working \cup {"pick"} => \A k \in 1 .. j - 1 : ~Abstract!CanAnswer(image.units[k], ptr)

\* The unit at work may answer, and the location at hand is the one it has for the address.
InHand ==
  /\ pc \in Working => InFilter
  /\ pc \in {"files", "report"} => loc = LocationOf(unit, ptr) /\ Usable(unit, loc)

\* The inductive invariant of the answers.
PromiseInv == HandleInv /\ Remembered /\ NoneMissed /\ InHand
-----------------------------------------------------------------------------
(* Handles and reads.                                                      *)

\* Images and arguments are as the constants are assumed to be.
LEMMA InputsTyped ==
  ASSUME HandleInv
  PROVE  /\ Len(image.units) \in Nat /\ Len(query.addrs) \in Nat
         /\ query.addrs \in Seq(Addr) /\ image.base \in Addr /\ query.imageBase \in Addr
         /\ \A u \in Units :
              /\ IsUnit(image.units[u])
              /\ image.units[u].frames \in [Addr -> 0 .. 3]
              /\ image.units[u].table \in {"none", "rows"}
              /\ image.units[u].fileCount \in Nat
              /\ image.units[u].low \in Nat /\ image.units[u].high \in Nat
  BY ImagesAssumption, QueriesAssumption DEF HandleInv, Whereabouts, Units, IsUnit

\* The arguments never change.
LEMMA InputsKept ==
  ASSUME [Next]_vars
  PROVE  UNCHANGED <<image, query>>
  BY DEF Next, vars, inputs, Reject, Open, NoDebugSymbols, ReturnNoDebug, ScanCu, StoreCu, ScanEnds,
         NextAddress, SkipUnit, EnterUnit, NotFound, ReadLines, Search, ReadFiles, Report,
         AllAnswered, CloseUnit, FreeUnits, Finish, Done

\* dwstOfFileExt() begins with nothing in hand.
LEMMA InitHandles == Init => HandleInv
  <1> SUFFICES ASSUME Init PROVE HandleInv
    OBVIOUS
  <1>1. Len(image.units) \in Nat /\ Len(query.addrs) \in Nat
    BY ImagesAssumption, QueriesAssumption DEF Init
  <1>2. FieldsMatchHandles
    BY <1>1, WAssumption DEF Init, FieldsMatchHandles, TypeOK, cuQty
  <1>3. Whereabouts
    BY DEF Init, Whereabouts, Working
  <1>4. HandlesKnown /\ InOrder
    BY DEF Init, HandlesKnown, InOrder, cuQty
  <1>5. ReadsCounted
    BY DEF Init, ReadsCounted, Units, cuQty
  <1>6. QED
    BY <1>2, <1>3, <1>4, <1>5 DEF HandleInv

\* The steps that leave the units and the handles alone.
Waiting == {"start", "no_dbg", "scan", "address", "pick", "close", "done"}
StillStep ==
  \/ Reject \/ NoDebugSymbols \/ ReturnNoDebug \/ ScanEnds \/ NextAddress \/ SkipUnit \/ NotFound
  \/ AllAnswered

\* A step that takes no handle and reads no table keeps the invariant.
LEMMA StillPreserves ==
  ASSUME HandleInv, StillStep
  PROVE  HandleInv'
  <1> USE DEF StillStep, Reject, NoDebugSymbols, ReturnNoDebug, ScanEnds, NextAddress, SkipUnit,
              NotFound, AllAnswered
  <1>1. /\ UNCHANGED <<cuArr, held, reads, next, image, query, loc>>
        /\ pc \in Waiting \ {"close", "done"} /\ pc' \in Waiting
        /\ pc' \in {"no_dbg", "start"} => pc = pc'
        /\ pc \in {"no_dbg", "start"} => pc' \in {pc, "done"}
        /\ pc' = "close" => j' = 1 /\ pc = "address"
        /\ pc' = "done" => pc \in {"start", "no_dbg"}
    BY DEF inputs, scan, history, Waiting
  <1>2. TypeOK /\ Len(query.addrs) \in Nat /\ cuQty \in Nat
    BY InputsTyped DEF HandleInv, FieldsMatchHandles, TypeOK, cuQty
  <1>3. TypeOK'
    <2>1. i' \in 1 .. Len(query.addrs) + 1
      <3>1. i' = i \/ (i' = i + 1 /\ i <= Len(query.addrs))
        BY DEF inputs, scan, history, HandleInv, Whereabouts
      <3>2. QED
        BY ONLY <1>2, <3>1 DEF TypeOK
    <2>2. j' \in 1 .. cuQty + 1
      <3>1. j' = j \/ j' = 1 \/ (j' = j + 1 /\ j <= cuQty)
        BY DEF inputs, scan, history
      <3>2. QED
        BY ONLY <1>2, <3>1 DEF TypeOK
    <2>3. faults' \in 0 .. MaxFaults
      BY <1>2, WAssumption DEF TypeOK, Fail, NoFail
    <2>4. QED
      BY <1>1, <1>2, <2>1, <2>2, <2>3 DEF TypeOK, cuQty, Waiting
  <1>4. FieldsMatchHandles'
    BY ONLY <1>1, <1>3, HandleInv DEF HandleInv, FieldsMatchHandles, cuQty, Waiting
  <1>5. Whereabouts'
    BY <1>1, <1>2 DEF HandleInv, TypeOK, cuQty, Whereabouts, Working
  <1>6. HandlesKnown'
    BY ONLY <1>1, HandleInv DEF HandleInv, HandlesKnown, cuQty, Waiting, Whereabouts, FieldsMatchHandles
  <1>7. InOrder' /\ ReadsCounted'
    BY <1>1 DEF HandleInv, cuQty, InOrder, ReadsCounted, Units, Waiting
  <1>8. QED
    BY <1>3, <1>4, <1>5, <1>6, <1>7 DEF HandleInv

\* The parts of the invariant in terms that a step's lemma uses.
LEMMA Digest ==
  ASSUME HandleInv
  PROVE  /\ TypeOK /\ FieldsMatchHandles /\ Whereabouts /\ HandlesKnown /\ InOrder /\ ReadsCounted
         /\ Len(image.units) \in Nat /\ Len(query.addrs) \in Nat
         /\ cuArr \in Seq(Kept) /\ cuQty = Len(cuArr) /\ cuQty \in Nat
         /\ i \in 1 .. Len(query.addrs) + 1 /\ j \in 1 .. cuQty + 1
         /\ i \in Nat \ {0} /\ j \in Nat \ {0} /\ next \in Nat \ {0}
         /\ \A k \in 1 .. cuQty : cuArr[k] \in Kept /\ cuArr[k].unit \in Units /\ cuArr[k].unit \in Nat
  <1>1. /\ TypeOK /\ FieldsMatchHandles /\ Whereabouts /\ HandlesKnown /\ InOrder /\ ReadsCounted
    BY DEF HandleInv, FieldsMatchHandles
  <1>2. cuArr \in Seq(Kept)
    BY <1>1 DEF TypeOK, Kept, Units
  <1>3. cuQty = Len(cuArr) /\ cuQty \in Nat
    BY <1>2 DEF cuQty
  <1>4. /\ TypeOK /\ Len(image.units) \in Nat /\ Len(query.addrs) \in Nat
        /\ cuArr \in Seq(Kept) /\ cuQty = Len(cuArr) /\ cuQty \in Nat
    BY InputsTyped, <1>1, <1>2, <1>3 DEF TypeOK
  <1>5. /\ i \in 1 .. Len(query.addrs) + 1 /\ j \in 1 .. cuQty + 1
        /\ i \in Nat \ {0} /\ j \in Nat \ {0} /\ next \in Nat \ {0}
    BY <1>4 DEF TypeOK
  <1>6. \A k \in 1 .. cuQty : cuArr[k] \in Kept
    BY <1>4
  <1>7. QED
    BY <1>4, <1>5, <1>6 DEF HandleInv, Kept, Units

\* A pair is given by its parts.
LEMMA Pairs ==
  ASSUME NEW a, NEW b, NEW c, NEW d
  PROVE  <<a, b>> = <<c, d>> <=> a = c /\ b = d
  OBVIOUS

\* dwarf_pe_init() gives the one handle that the call keeps to its end.
LEMMA OpenPreserves ==
  ASSUME HandleInv, Open
  PROVE  HandleInv'
  <1>1. /\ UNCHANGED <<image, query, cuArr, next, reads, i, j, loc, faults>>
        /\ pc = "start" /\ cuArr = <<>> /\ held = {} /\ cuQty = 0
        /\ \/ pc' = "scan" /\ held' = {<<"dbg", 0>>}
           \/ pc' = "no_dbg" /\ held' = {}
    BY Digest DEF Open, inputs, scan, Whereabouts, HandlesKnown
  <1>2. TypeOK'
    BY <1>1, Digest DEF TypeOK, cuQty
  <1>3. FieldsMatchHandles'
    BY <1>1, <1>2 DEF FieldsMatchHandles, cuQty
  <1>4. Whereabouts' /\ HandlesKnown'
    BY <1>1, Digest DEF Whereabouts, HandlesKnown, Working, cuQty
  <1>5. InOrder' /\ ReadsCounted'
    BY <1>1, Digest DEF InOrder, ReadsCounted, Units, cuQty
  <1>6. QED
    BY <1>3, <1>4, <1>5 DEF HandleInv

\* The DIE of the unit at hand is taken or given back, and nothing else.
LEMMA ScanCuPreserves ==
  ASSUME HandleInv, ScanCu
  PROVE  HandleInv'
  <1>1. /\ UNCHANGED <<image, query, cuArr, reads, i, j, loc>>
        /\ pc = "scan" /\ next \in 1 .. Len(image.units) /\ next' = next + 1
        /\ faults' \in 0 .. MaxFaults
        /\ \/ pc' = "store" /\ held' = held \cup {<<"die", 0>>}
           \/ pc' = "scan" /\ held' = held
    BY Digest, WAssumption DEF ScanCu, inputs, history, Fail, NoFail, TypeOK
  <1>2. TypeOK'
    BY <1>1, Digest DEF TypeOK, cuQty
  <1>3. FieldsMatchHandles'
    BY <1>1, <1>2, Digest, Pairs DEF FieldsMatchHandles, cuQty
  <1>4. Whereabouts' /\ HandlesKnown'
    BY <1>1, Digest DEF Whereabouts, HandlesKnown, Working, cuQty
  <1>5. InOrder'
    BY <1>1, Digest DEF InOrder, cuQty
  <1>6. ReadsCounted'
    BY <1>1, Digest DEF ReadsCounted, Units, cuQty
  <1>7. QED
    BY <1>3, <1>4, <1>5, <1>6 DEF HandleInv

\* A unit is put at the end of cuArr, or the scan is given up.
LEMMA StoreCuPreserves ==
  ASSUME HandleInv, StoreCu
  PROVE  HandleInv'
  <1>1. /\ UNCHANGED <<image, query, next, reads, i, j, loc, out>>
        /\ pc = "store" /\ next - 1 \in Units /\ faults' \in 0 .. MaxFaults
    <2>1. UNCHANGED <<image, query, next, reads, i, j, loc, out>> /\ pc = "store"
      BY DEF StoreCu, inputs, history
    <2>2. next - 1 \in Units
      BY <2>1, Digest DEF TypeOK, Whereabouts, Units
    <2>3. faults' = faults \/ (faults < MaxFaults /\ faults' = faults + 1)
      BY DEF StoreCu, Fail, NoFail
    <2>4. faults' \in 0 .. MaxFaults
      BY <2>3, Digest, WAssumption DEF TypeOK
    <2>5. QED
      BY <2>1, <2>2, <2>4
  <1>2. CASE pc' = "scan"
    <2>1. PICK offs \in BOOLEAN :
            /\ cuArr' = Append(cuArr, [unit |-> next - 1, offs |-> offs,
                                       lines |-> "unread", files |-> "unread"])
            /\ held' = (held \ {<<"die", 0>>}) \cup {<<"cuArr", 0>>}
                 \cup (IF image.units[next - 1].ranges = <<>> THEN {} ELSE {<<"ranges", cuQty + 1>>})
      BY <1>2 DEF StoreCu
    <2> DEFINE e == [unit |-> next - 1, offs |-> offs, lines |-> "unread", files |-> "unread"]
    <2>2. e \in Kept
      BY <1>1 DEF Kept
    <2>3. /\ cuArr' \in Seq(Kept) /\ Len(cuArr') = cuQty + 1 /\ cuArr'[cuQty + 1] = e
          /\ \A k \in 1 .. cuQty : cuArr'[k] = cuArr[k]
      BY <2>1, <2>2, Digest
    <2> HIDE DEF e
    <2>4. cuQty' = cuQty + 1
      BY <2>3 DEF cuQty
    <2>13. \A k \in 1 .. cuQty' : k \in 1 .. cuQty \/ k = cuQty + 1
      BY <2>4, Digest
    <2>5. e.unit = next - 1 /\ e.lines = "unread" /\ e.files = "unread"
      BY DEF e
    <2>6. TypeOK'
      <3>1. held' \subseteq {"dbg", "cuArr", "die", "ranges", "context", "files"} \X (0 .. cuQty')
        BY <2>1, <2>4, Digest DEF TypeOK
      <3>2. QED
        BY <1>1, <1>2, <2>3, <2>4, <3>1, Digest DEF TypeOK, Kept, Units
    <2>7. FieldsMatchHandles'
      <3>1. \A k \in 1 .. cuQty' :
              /\ <<"context", k>> \in held' <=> cuArr'[k].lines = "rows"
              /\ <<"files", k>> \in held' <=> cuArr'[k].files = "list"
              /\ <<"ranges", k>> \in held' <=> image.units[cuArr'[k].unit].ranges # <<>>
        <4>1. ASSUME NEW k \in 1 .. cuQty
              PROVE  /\ <<"context", k>> \in held <=> cuArr[k].lines = "rows"
                     /\ <<"files", k>> \in held <=> cuArr[k].files = "list"
                     /\ <<"ranges", k>> \in held <=> image.units[cuArr[k].unit].ranges # <<>>
          BY <1>1, Digest DEF FieldsMatchHandles
        <4>2. ASSUME NEW k \in 1 .. cuQty
              PROVE  /\ <<"context", k>> \in held' <=> cuArr'[k].lines = "rows"
                     /\ <<"files", k>> \in held' <=> cuArr'[k].files = "list"
                     /\ <<"ranges", k>> \in held' <=> image.units[cuArr'[k].unit].ranges # <<>>
          <5>1. k # cuQty + 1 /\ cuArr'[k] = cuArr[k]
            BY <2>3, Digest
          <5>2. /\ <<"context", k>> \in held' <=> <<"context", k>> \in held
                /\ <<"files", k>> \in held' <=> <<"files", k>> \in held
                /\ <<"ranges", k>> \in held' <=> <<"ranges", k>> \in held
            BY <5>1, <2>1
          <5>3. QED
            BY <4>1, <5>1, <5>2
        <4>3. /\ <<"context", cuQty + 1>> \notin held /\ <<"files", cuQty + 1>> \notin held
              /\ <<"ranges", cuQty + 1>> \notin held
          BY Digest DEF HandlesKnown
        <4>4. /\ <<"context", cuQty + 1>> \notin held' /\ <<"files", cuQty + 1>> \notin held'
              /\ <<"ranges", cuQty + 1>> \in held' <=> image.units[next - 1].ranges # <<>>
          BY <4>3, <2>1, Pairs
        <4>5. QED
          BY <4>2, <4>4, <2>3, <2>5, <2>13
      <3>2. \A k \in 0 .. cuQty' : <<"die", k>> \notin held'
        BY <1>1, <2>1, <2>4, Digest DEF FieldsMatchHandles, HandlesKnown
      <3>3. QED
        BY <1>1, <1>2, <2>6, <3>1, <3>2 DEF FieldsMatchHandles
    <2>8. Whereabouts'
      BY <1>1, <1>2, Digest DEF Whereabouts, Working
    <2>9. HandlesKnown'
      BY <1>1, <1>2, <2>1, <2>4, Digest DEF HandlesKnown
    <2>10. InOrder'
      <3>1. \A k \in 1 .. cuQty : cuArr[k].unit < next - 1
        BY <1>1, Digest DEF InOrder
      <3>2. ASSUME NEW k \in 1 .. cuQty', NEW l \in 1 .. cuQty', k < l
            PROVE  cuArr'[k].unit < cuArr'[l].unit
        <4>1. k \in 1 .. cuQty
          BY <3>2, <2>13, Digest
        <4>2. CASE l = cuQty + 1
          BY <4>1, <4>2, <3>1, <2>3, <2>5
        <4>3. CASE l \in 1 .. cuQty
          BY <4>1, <4>3, <3>2, <2>3, Digest DEF InOrder
        <4>4. QED
          BY <4>2, <4>3, <2>13
      <3>3. ASSUME NEW k \in 1 .. cuQty'
            PROVE  cuArr'[k].unit < next
        BY <3>1, <2>3, <2>5, <2>13, Digest
      <3>4. QED
        BY <3>2, <3>3, <1>1, <1>2, Digest DEF InOrder
    <2>11. ReadsCounted'
      <3>1. reads[next - 1] = [lines |-> 0, files |-> 0]
        <4>1. \A k \in 1 .. cuQty : cuArr[k].unit # next - 1
          BY <1>1, Digest DEF InOrder
        <4>2. QED
          BY <4>1, <1>1, Digest DEF ReadsCounted
      <3>2. QED
        <4>1. reads' = reads /\ Units' = Units
          BY <1>1 DEF Units
        <4>2. ASSUME NEW k \in 1 .. cuQty'
              PROVE  reads[cuArr'[k].unit] = [lines |-> Once(cuArr'[k].lines), files |-> Once(cuArr'[k].files)]
          <5>1. CASE k = cuQty + 1
            BY <5>1, <3>1, <2>3, <2>5 DEF Once
          <5>2. CASE k \in 1 .. cuQty
            BY <5>2, <2>3, Digest DEF ReadsCounted
          <5>3. QED
            BY <5>1, <5>2, <2>4, Digest
        <4>3. ASSUME NEW u \in Units, \A k \in 1 .. cuQty' : cuArr'[k].unit # u
              PROVE  reads[u] = [lines |-> 0, files |-> 0]
          <5>1. \A k \in 1 .. cuQty : cuArr[k].unit # u
            <6>1. \A k \in 1 .. cuQty : k \in 1 .. cuQty'
              BY <2>4, Digest
            <6>2. QED
              BY <6>1, <4>3, <2>3
          <5>2. QED
            BY <5>1, Digest DEF ReadsCounted
        <4>4. QED
          BY <4>1, <4>2, <4>3, Digest DEF ReadsCounted
    <2>12. QED
      BY <2>7, <2>8, <2>9, <2>10, <2>11 DEF HandleInv
  <1>3. CASE pc' = "address"
    <2>1. cuArr' = cuArr /\ held' = held \ {<<"die", 0>>}
      BY <1>3 DEF StoreCu
    <2>2. TypeOK'
      BY <1>1, <1>3, <2>1, Digest DEF TypeOK, cuQty
    <2>3. FieldsMatchHandles'
      BY <1>1, <1>3, <2>1, <2>2, Digest, Pairs DEF FieldsMatchHandles, cuQty
    <2>4. Whereabouts' /\ HandlesKnown'
      BY <1>1, <1>3, <2>1, Digest DEF Whereabouts, HandlesKnown, Working, cuQty
    <2>5. InOrder'
      BY <1>1, <1>3, <2>1, Digest DEF InOrder, cuQty
    <2>6. ReadsCounted'
      BY <1>1, <2>1, Digest DEF ReadsCounted, Units, cuQty
    <2>7. QED
      BY <2>3, <2>4, <2>5, <2>6 DEF HandleInv
  <1>4. QED
    BY <1>2, <1>3 DEF StoreCu

\* The DIE of unit j is taken, or given back.
DieStep == EnterUnit \/ Search \/ Report

\* The invariant survives both.
LEMMA DiePreserves ==
  ASSUME HandleInv, DieStep
  PROVE  HandleInv'
  <1>1. UNCHANGED <<image, query, cuArr, cuQty, reads, next>>
    BY DEF DieStep, EnterUnit, Search, Report, LeaveUnit, inputs, scan, history, cuQty
  <1>2. \/ /\ pc = "pick" /\ pc' = (IF cu.lines = "unread" THEN "lines" ELSE "search")
           /\ j <= cuQty /\ UNCHANGED <<i, j, faults>> /\ held' = held \cup {<<"die", j>>}
        \/ /\ pc = "search" /\ cu.files # "none" /\ UNCHANGED <<i, j, held>>
           /\ pc' = (IF cu.files = "unread" THEN "files" ELSE "report")
        \/ /\ pc = "search" /\ pc' = "pick" /\ i' = i /\ j' = j + 1
           /\ held' = held \ {<<"die", j>>}
        \/ /\ pc = "report" /\ pc' = "address" /\ i' = i + 1 /\ j' = j /\ faults' = faults
           /\ held' = held \ {<<"die", j>>}
    BY DEF DieStep, EnterUnit, Search, Report, LeaveUnit, history
  <1>3. j \in 1 .. cuQty /\ i \in 1 .. Len(query.addrs) /\ j' \in 1 .. cuQty + 1
    BY <1>2, Digest DEF Whereabouts, Working, TypeOK
  <1>4. i' \in 1 .. Len(query.addrs) + 1
    BY <1>2, <1>3, Digest
  <1>5. faults' \in 0 .. MaxFaults
    <2>1. faults' = faults \/ (faults < MaxFaults /\ faults' = faults + 1)
      BY DEF DieStep, EnterUnit, Search, Report, Fail, NoFail
    <2>2. QED
      BY <2>1, Digest, WAssumption DEF TypeOK
  <1>6. cuArr[j] \in Kept
    BY <1>3, Digest
  <1>7. HandlesKnown'
    <2>1. /\ pc \notin {"start", "no_dbg", "done", "close"}
          /\ pc' \notin {"start", "no_dbg", "done", "close"}
      BY <1>2
    <2>2. <<"dbg", 0>> \in held' <=> <<"dbg", 0>> \in held
      BY <1>2
    <2>3. held' \subseteq held \cup {<<"die", j>>}
      BY <1>2
    <2>4. <<"die", j>> \in {"die"} \X (0 .. cuQty)
      BY <1>3
    <2>5. QED
      BY <1>1, <2>1, <2>2, <2>3, <2>4, Digest DEF HandlesKnown
  <1>8. TypeOK'
    <2>1. held' \subseteq {"dbg", "cuArr", "die", "ranges", "context", "files"} \X (0 .. cuQty)
      BY <1>2, <1>3, Digest DEF TypeOK
    <2>2. QED
      BY <1>1, <1>2, <1>3, <1>4, <1>5, <2>1, Digest DEF TypeOK
  <1>9. FieldsMatchHandles'
    <2>1. pc \notin {"close", "finish", "done"} /\ pc' \notin {"close", "finish", "done"}
      BY <1>2
    <2>2. ASSUME NEW k \in 1 .. cuQty
          PROVE  /\ <<"context", k>> \in held' <=> cuArr[k].lines = "rows"
                 /\ <<"files", k>> \in held' <=> cuArr[k].files = "list"
                 /\ <<"ranges", k>> \in held' <=> image.units[cuArr[k].unit].ranges # <<>>
      <3>1. /\ <<"context", k>> \in held <=> cuArr[k].lines = "rows"
            /\ <<"files", k>> \in held <=> cuArr[k].files = "list"
            /\ <<"ranges", k>> \in held <=> image.units[cuArr[k].unit].ranges # <<>>
        BY <2>1, Digest DEF FieldsMatchHandles
      <3>2. /\ <<"context", k>> \in held' <=> <<"context", k>> \in held
            /\ <<"files", k>> \in held' <=> <<"files", k>> \in held
            /\ <<"ranges", k>> \in held' <=> <<"ranges", k>> \in held
        BY <1>2
      <3>3. QED
        BY <3>1, <3>2
    <2>3. ASSUME NEW k \in 0 .. cuQty
          PROVE  <<"die", k>> \in held' <=>
                   k = j' /\ k > 0 /\ pc' \in {"lines", "search", "files", "report"}
      <3>1. <<"die", k>> \in held <=> k = j /\ k > 0 /\ pc \in {"lines", "search", "files", "report"}
        BY <1>2, Digest DEF FieldsMatchHandles
      <3>2. QED
        BY <3>1, <1>2, <1>3, Pairs
    <2>4. QED
      BY <1>1, <1>2, <1>8, <2>1, <2>2, <2>3 DEF FieldsMatchHandles
  <1>10. Whereabouts'
    <2>1. pc' \in Working => j' = j
      BY <1>2 DEF Working
    <2>2. QED
      BY <1>1, <1>2, <1>3, <1>6, <2>1, Digest DEF Whereabouts, Working, Kept, cu
  <1>11. InOrder' /\ ReadsCounted'
    BY <1>1, <1>2, Digest DEF InOrder, ReadsCounted, Units
  <1>12. QED
    BY <1>7, <1>9, <1>10, <1>11 DEF HandleInv

\* What cu_info says of a table changes together with the handle on it.
LEMMA FieldChanged ==
  ASSUME HandleInv, j \in 1 .. cuQty, NEW e \in Kept, e.unit = cuArr[j].unit,
         cuArr' = [cuArr EXCEPT ![j] = e]
  PROVE  /\ cuArr' \in Seq(Kept) /\ cuQty' = cuQty
         /\ cuArr'[j] = e
         /\ \A k \in 1 .. cuQty : k # j => cuArr'[k] = cuArr[k]
         /\ \A k \in 1 .. cuQty : cuArr'[k].unit = cuArr[k].unit
  <1>1. cuArr' \in Seq(Kept) /\ Len(cuArr') = Len(cuArr)
    BY Digest
  <1>2. cuArr'[j] = e /\ \A k \in 1 .. cuQty : k # j => cuArr'[k] = cuArr[k]
    BY Digest
  <1>3. QED
    BY <1>1, <1>2 DEF cuQty

\* Unit k is read for the first time, and no other unit's count changes.
LEMMA Recounted ==
  ASSUME HandleInv, j \in 1 .. cuQty, NEW e \in Kept, e.unit = cuArr[j].unit,
         cuArr' = [cuArr EXCEPT ![j] = e], image' = image,
         reads' = [reads EXCEPT ![e.unit] = [lines |-> Once(e.lines), files |-> Once(e.files)]]
  PROVE  ReadsCounted'
  <1>1. /\ cuQty' = cuQty /\ Units' = Units /\ cuArr'[j] = e
        /\ \A k \in 1 .. cuQty : k # j => cuArr'[k] = cuArr[k]
        /\ \A k \in 1 .. cuQty : cuArr'[k].unit = cuArr[k].unit
    BY FieldChanged DEF Units
  <1>2. e.unit \in Units /\ [lines |-> Once(e.lines), files |-> Once(e.files)] \in [lines : Nat, files : Nat]
    BY DEF Kept, Once
  <1>3. reads' \in [Units -> [lines : Nat, files : Nat]]
    BY <1>2, Digest DEF ReadsCounted
  <1>4. /\ reads'[e.unit] = [lines |-> Once(e.lines), files |-> Once(e.files)]
        /\ \A u \in Units : u # e.unit => reads'[u] = reads[u]
    BY <1>2, Digest DEF ReadsCounted
  <1>5. ASSUME NEW k \in 1 .. cuQty
        PROVE  reads'[cuArr'[k].unit] = [lines |-> Once(cuArr'[k].lines), files |-> Once(cuArr'[k].files)]
    <2>1. CASE k = j
      BY <2>1, <1>1, <1>4
    <2>2. CASE k # j
      <3>1. cuArr[k].unit # e.unit
        BY <2>2, Digest DEF InOrder
      <3>2. QED
        BY <3>1, <2>2, <1>1, <1>4, Digest DEF ReadsCounted
    <2>3. QED
      BY <2>1, <2>2
  <1>6. ASSUME NEW u \in Units, \A k \in 1 .. cuQty : cuArr'[k].unit # u
        PROVE  reads'[u] = [lines |-> 0, files |-> 0]
    <2>1. u # e.unit /\ \A k \in 1 .. cuQty : cuArr[k].unit # u
      BY <1>1, <1>6
    <2>2. QED
      BY <2>1, <1>4, Digest DEF ReadsCounted
  <1>7. QED
    BY <1>1, <1>3, <1>5, <1>6 DEF ReadsCounted

\* The line table of unit j is read, the first time an address needs it.
LEMMA ReadLinesPreserves ==
  ASSUME HandleInv, ReadLines
  PROVE  HandleInv'
  <1>1. /\ UNCHANGED <<image, query, next, i, j, loc, out>>
        /\ pc = "lines" /\ pc' = "search"
        /\ j \in 1 .. cuQty /\ cuArr[j] \in Kept /\ cuArr[j].lines = "unread"
    BY Digest DEF ReadLines, inputs, Whereabouts, Working, TypeOK, cu
  <1>2. PICK got \in {"none", "rows"} :
          /\ cuArr' = [cuArr EXCEPT ![j].lines = got]
          /\ held' = IF got = "none" THEN held ELSE held \cup {<<"context", j>>}
    <2>1. unit.table \in {"none", "rows"}
      BY <1>1, InputsTyped, Digest DEF unit, cu
    <2>2. QED
      BY <2>1 DEF ReadLines
  <1> DEFINE e == [cuArr[j] EXCEPT !.lines = got]
  <1>3. e \in Kept /\ e.unit = cuArr[j].unit /\ e.lines = got /\ e.files = cuArr[j].files
    BY <1>1 DEF Kept
  <1>4. cuArr' = [cuArr EXCEPT ![j] = e]
    BY <1>2
  <1> HIDE DEF e
  <1>5. /\ cuArr' \in Seq(Kept) /\ cuQty' = cuQty /\ cuArr'[j] = e
        /\ \A k \in 1 .. cuQty : k # j => cuArr'[k] = cuArr[k]
        /\ \A k \in 1 .. cuQty : cuArr'[k].unit = cuArr[k].unit
    BY <1>1, <1>3, <1>4, FieldChanged
  <1>6. faults' \in 0 .. MaxFaults
    <2>1. faults' = faults \/ (faults < MaxFaults /\ faults' = faults + 1)
      BY DEF ReadLines, Fail, NoFail
    <2>2. QED
      BY <2>1, Digest, WAssumption DEF TypeOK
  <1>7. TypeOK'
    <2>1. held' \subseteq {"dbg", "cuArr", "die", "ranges", "context", "files"} \X (0 .. cuQty)
      BY <1>1, <1>2, Digest DEF TypeOK
    <2>2. QED
      BY <1>1, <1>5, <1>6, <2>1, Digest DEF TypeOK, Kept, Units
  <1>8. FieldsMatchHandles'
    <2>1. ASSUME NEW k \in 1 .. cuQty
          PROVE  /\ <<"context", k>> \in held' <=> cuArr'[k].lines = "rows"
                 /\ <<"files", k>> \in held' <=> cuArr'[k].files = "list"
                 /\ <<"ranges", k>> \in held' <=> image.units[cuArr'[k].unit].ranges # <<>>
      <3>1. /\ <<"context", k>> \in held <=> cuArr[k].lines = "rows"
            /\ <<"files", k>> \in held <=> cuArr[k].files = "list"
            /\ <<"ranges", k>> \in held <=> image.units[cuArr[k].unit].ranges # <<>>
        BY <1>1, Digest DEF FieldsMatchHandles
      <3>2. /\ <<"context", k>> \in held' <=> <<"context", k>> \in held \/ (k = j /\ got = "rows")
            /\ <<"files", k>> \in held' <=> <<"files", k>> \in held
            /\ <<"ranges", k>> \in held' <=> <<"ranges", k>> \in held
        BY <1>2
      <3>3. CASE k = j
        BY <3>1, <3>2, <3>3, <1>1, <1>3, <1>5
      <3>4. CASE k # j
        BY <3>1, <3>2, <3>4, <1>5
      <3>5. QED
        BY <3>3, <3>4
    <2>2. ASSUME NEW k \in 0 .. cuQty
          PROVE  <<"die", k>> \in held' <=> <<"die", k>> \in held
      BY <1>2
    <2>3. QED
      BY <1>1, <1>5, <1>7, <2>1, <2>2, Digest DEF FieldsMatchHandles
  <1>9. Whereabouts'
    BY <1>1, <1>3, <1>5, <1>2, Digest DEF Whereabouts, Working, cu
  <1>10. HandlesKnown'
    <2>1. <<"context", j>> \in {"ranges", "context", "files"} \X (1 .. cuQty)
      BY <1>1
    <2>2. held' \subseteq held \cup {<<"context", j>>} /\ (<<"dbg", 0>> \in held' <=> <<"dbg", 0>> \in held)
      BY <1>2
    <2>3. QED
      BY <1>1, <1>5, <2>1, <2>2, Digest DEF HandlesKnown
  <1>11. InOrder'
    BY <1>1, <1>5, Digest DEF InOrder
  <1>12. ReadsCounted'
    <2>1. e.unit \in Units /\ reads[e.unit] = [lines |-> 0, files |-> Once(e.files)]
      BY <1>1, <1>3, Digest DEF ReadsCounted, Once
    <2>2. reads' = [reads EXCEPT ![e.unit] = [reads[e.unit] EXCEPT !.lines = reads[e.unit].lines + 1]]
      BY <1>3 DEF ReadLines, cu
    <2>3. [reads[e.unit] EXCEPT !.lines = reads[e.unit].lines + 1]
            = [lines |-> Once(e.lines), files |-> Once(e.files)]
      <3>1. Once(e.lines) = 1
        BY <1>2, <1>3 DEF Once
      <3>2. QED
        BY <2>1, <3>1
    <2>4. QED
      BY <1>1, <1>3, <1>4, <2>2, <2>3, Recounted
  <1>13. QED
    BY <1>8, <1>9, <1>10, <1>11, <1>12 DEF HandleInv

\* Its list of files is read, the first time a row is found.
LEMMA ReadFilesPreserves ==
  ASSUME HandleInv, ReadFiles
  PROVE  HandleInv'
  <1>1. /\ UNCHANGED <<image, query, next, i, loc, out>>
        /\ pc = "files" /\ i <= Len(query.addrs)
        /\ j \in 1 .. cuQty /\ cuArr[j] \in Kept /\ cuArr[j].files = "unread"
    BY Digest DEF ReadFiles, inputs, Whereabouts, Working, TypeOK, cu
  <1>2. PICK got \in {"none", "list"} :
          /\ cuArr' = [cuArr EXCEPT ![j].files = got]
          /\ \/ /\ got = "list" /\ held' = held \cup {<<"files", j>>}
                /\ pc' = "report" /\ j' = j
             \/ /\ got = "none" /\ held' = held \ {<<"die", j>>}
                /\ pc' = "pick" /\ j' = j + 1
    BY DEF ReadFiles, LeaveUnit
  <1> DEFINE e == [cuArr[j] EXCEPT !.files = got]
  <1>3. e \in Kept /\ e.unit = cuArr[j].unit /\ e.files = got /\ e.lines = cuArr[j].lines
    BY <1>1 DEF Kept
  <1>4. cuArr' = [cuArr EXCEPT ![j] = e]
    BY <1>2
  <1> HIDE DEF e
  <1>5. /\ cuArr' \in Seq(Kept) /\ cuQty' = cuQty /\ cuArr'[j] = e
        /\ \A k \in 1 .. cuQty : k # j => cuArr'[k] = cuArr[k]
        /\ \A k \in 1 .. cuQty : cuArr'[k].unit = cuArr[k].unit
    BY <1>1, <1>3, <1>4, FieldChanged
  <1>6. faults' \in 0 .. MaxFaults /\ j' \in 1 .. cuQty + 1
    <2>1. faults' = faults \/ (faults < MaxFaults /\ faults' = faults + 1)
      BY DEF ReadFiles, Fail, NoFail
    <2>2. QED
      BY <2>1, <1>1, <1>2, Digest, WAssumption DEF TypeOK
  <1>7. TypeOK'
    <2>1. held' \subseteq {"dbg", "cuArr", "die", "ranges", "context", "files"} \X (0 .. cuQty)
      <3>1. <<"files", j>> \in {"dbg", "cuArr", "die", "ranges", "context", "files"} \X (0 .. cuQty)
        BY <1>1
      <3>2. held' \subseteq held \cup {<<"files", j>>}
        BY <1>2
      <3>3. QED
        BY <3>1, <3>2, Digest DEF TypeOK
    <2>2. pc' \in {"report", "pick"}
      BY <1>2
    <2>3. QED
      BY <1>1, <2>2, <1>5, <1>6, <2>1, Digest DEF TypeOK, Kept, Units
  <1>8. FieldsMatchHandles'
    <2>1. ASSUME NEW k \in 1 .. cuQty
          PROVE  /\ <<"context", k>> \in held' <=> cuArr'[k].lines = "rows"
                 /\ <<"files", k>> \in held' <=> cuArr'[k].files = "list"
                 /\ <<"ranges", k>> \in held' <=> image.units[cuArr'[k].unit].ranges # <<>>
      <3>1. /\ <<"context", k>> \in held <=> cuArr[k].lines = "rows"
            /\ <<"files", k>> \in held <=> cuArr[k].files = "list"
            /\ <<"ranges", k>> \in held <=> image.units[cuArr[k].unit].ranges # <<>>
        BY <1>1, Digest DEF FieldsMatchHandles
      <3>2. /\ <<"files", k>> \in held' <=> <<"files", k>> \in held \/ (k = j /\ got = "list")
            /\ <<"context", k>> \in held' <=> <<"context", k>> \in held
            /\ <<"ranges", k>> \in held' <=> <<"ranges", k>> \in held
        BY <1>2
      <3>3. CASE k = j
        BY <3>1, <3>2, <3>3, <1>1, <1>3, <1>5
      <3>4. CASE k # j
        BY <3>1, <3>2, <3>4, <1>5
      <3>5. QED
        BY <3>3, <3>4
    <2>2. ASSUME NEW k \in 0 .. cuQty
          PROVE  <<"die", k>> \in held' <=>
                   k = j' /\ k > 0 /\ pc' \in {"lines", "search", "files", "report"}
      <3>1. <<"die", k>> \in held <=> k = j
        BY <1>1, Digest DEF FieldsMatchHandles
      <3>2. QED
        BY <3>1, <1>1, <1>2, Pairs
    <2>3. QED
      BY <1>1, <1>2, <1>5, <1>7, <2>1, <2>2, Digest DEF FieldsMatchHandles
  <1>9. Whereabouts'
    BY <1>1, <1>3, <1>5, <1>2, Digest DEF Whereabouts, Working, cu
  <1>10. HandlesKnown'
    <2>1. <<"files", j>> \in {"ranges", "context", "files"} \X (1 .. cuQty)
      BY <1>1
    <2>2. held' \subseteq held \cup {<<"files", j>>} /\ (<<"dbg", 0>> \in held' <=> <<"dbg", 0>> \in held)
      BY <1>2
    <2>3. pc' \notin {"start", "no_dbg", "done", "close"}
      BY <1>2
    <2>4. QED
      BY <1>1, <1>5, <2>1, <2>2, <2>3, Digest DEF HandlesKnown
  <1>11. InOrder'
    BY <1>1, <1>2, <1>5, Digest DEF InOrder
  <1>12. ReadsCounted'
    <2>1. e.unit \in Units /\ reads[e.unit] = [lines |-> Once(e.lines), files |-> 0]
      BY <1>1, <1>3, Digest DEF ReadsCounted, Once
    <2>2. reads' = [reads EXCEPT ![e.unit] = [reads[e.unit] EXCEPT !.files = reads[e.unit].files + 1]]
      BY <1>3 DEF ReadFiles, cu
    <2>3. [reads[e.unit] EXCEPT !.files = reads[e.unit].files + 1]
            = [lines |-> Once(e.lines), files |-> Once(e.files)]
      <3>1. Once(e.files) = 1
        BY <1>2, <1>3 DEF Once
      <3>2. QED
        BY <2>1, <3>1
    <2>4. QED
      BY <1>1, <1>3, <1>4, <2>2, <2>3, Recounted
  <1>13. QED
    BY <1>8, <1>9, <1>10, <1>11, <1>12 DEF HandleInv

\* The clean-up of unit j frees what cu_info says it has.
LEMMA CloseUnitPreserves ==
  ASSUME HandleInv, CloseUnit
  PROVE  HandleInv'
  <1>1. /\ UNCHANGED <<image, query, cuArr, cuQty, next, reads, i, loc, out, faults, pc>>
        /\ pc = "close" /\ j' = j + 1 /\ j \in 1 .. cuQty
        /\ held' = held \ ((IF cuArr[j].lines = "rows" THEN {<<"context", j>>} ELSE {})
                             \cup (IF cuArr[j].files = "list" THEN {<<"files", j>>} ELSE {})
                             \cup {<<"ranges", j>>})
    BY Digest DEF CloseUnit, inputs, scan, history, cuQty, cu, TypeOK
  <1>2. TypeOK'
    BY <1>1, Digest DEF TypeOK
  <1>3. ASSUME NEW k \in 1 .. cuQty, k # j
        PROVE  /\ <<"context", k>> \in held' <=> <<"context", k>> \in held
               /\ <<"files", k>> \in held' <=> <<"files", k>> \in held
               /\ <<"ranges", k>> \in held' <=> <<"ranges", k>> \in held
    BY <1>1, <1>3
  <1>4. <<"context", j>> \notin held' /\ <<"files", j>> \notin held' /\ <<"ranges", j>> \notin held'
    <2>1. /\ <<"context", j>> \in held <=> cuArr[j].lines = "rows"
          /\ <<"files", j>> \in held <=> cuArr[j].files = "list"
      <3>1. ASSUME NEW k \in 1 .. cuQty, j <= k
            PROVE  /\ <<"context", k>> \in held <=> cuArr[k].lines = "rows"
                   /\ <<"files", k>> \in held <=> cuArr[k].files = "list"
        BY <3>1, <1>1, Digest DEF FieldsMatchHandles
      <3>2. j <= j
        BY <1>1
      <3>3. QED
        BY <3>1, <3>2, <1>1
    <2>2. QED
      BY <2>1, <1>1
  <1>5. FieldsMatchHandles'
    <2>1. ASSUME NEW k \in 1 .. cuQty, j + 1 <= k
          PROVE  /\ <<"context", k>> \in held' <=> cuArr[k].lines = "rows"
                 /\ <<"files", k>> \in held' <=> cuArr[k].files = "list"
                 /\ <<"ranges", k>> \in held' <=> image.units[cuArr[k].unit].ranges # <<>>
      <3>1. j <= k /\ k # j
        BY <2>1, <1>1
      <3>2. /\ <<"context", k>> \in held <=> cuArr[k].lines = "rows"
            /\ <<"files", k>> \in held <=> cuArr[k].files = "list"
            /\ <<"ranges", k>> \in held <=> image.units[cuArr[k].unit].ranges # <<>>
        BY <3>1, <1>1, Digest DEF FieldsMatchHandles
      <3>3. QED
        BY <3>1, <3>2, <1>3
    <2>2. \A k \in 0 .. cuQty : <<"die", k>> \notin held'
      BY <1>1, Digest DEF FieldsMatchHandles
    <2>3. QED
      BY <1>1, <1>2, <2>1, <2>2 DEF FieldsMatchHandles
  <1>6. Whereabouts'
    BY <1>1, Digest DEF Whereabouts, Working
  <1>7. HandlesKnown'
    <2>1. held' \subseteq held /\ (<<"dbg", 0>> \in held' <=> <<"dbg", 0>> \in held)
      BY <1>1
    <2>2. ASSUME NEW k \in 1 .. j' - 1
          PROVE  <<"context", k>> \notin held' /\ <<"files", k>> \notin held' /\ <<"ranges", k>> \notin held'
      <3>1. CASE k = j
        BY <3>1, <1>4
      <3>2. CASE k # j
        <4>1. k \in 1 .. j - 1
          BY <3>2, <1>1
        <4>2. QED
          BY <4>1, <2>1, <1>1, Digest DEF HandlesKnown
      <3>3. QED
        BY <3>1, <3>2
    <2>3. QED
      BY <1>1, <2>1, <2>2, Digest DEF HandlesKnown
  <1>8. InOrder' /\ ReadsCounted'
    BY <1>1, Digest DEF InOrder, ReadsCounted, Units
  <1>9. QED
    BY <1>5, <1>6, <1>7, <1>8 DEF HandleInv

\* Once the units are passed and freed only libdwarf's own handle is left.
LEMMA EndPreserves ==
  ASSUME HandleInv, FreeUnits \/ Finish
  PROVE  HandleInv'
  <1>1. /\ UNCHANGED <<image, query, cuArr, cuQty, next, reads, i, j, loc, out, faults>>
        /\ \/ /\ pc = "close" /\ pc' = "finish" /\ j > cuQty
              /\ held' = held \ {<<"cuArr", 0>>}
           \/ /\ pc = "finish" /\ pc' = "done" /\ held' = {}
    BY DEF FreeUnits, Finish, inputs, scan, history, cuQty
  <1>2. TypeOK'
    BY <1>1, Digest DEF TypeOK
  <1>3. pc' = "finish" => held' = {<<"dbg", 0>>}
    <2>1. SUFFICES ASSUME pc' = "finish" PROVE held' = {<<"dbg", 0>>}
      OBVIOUS
    <2>2. pc = "close" /\ j = cuQty + 1
      BY <1>1, <2>1, Digest DEF TypeOK
    <2>3. \A k \in 0 .. cuQty : <<"die", k>> \notin held
      BY <2>2, Digest DEF FieldsMatchHandles
    <2>4. \A k \in 1 .. cuQty :
            <<"context", k>> \notin held /\ <<"files", k>> \notin held /\ <<"ranges", k>> \notin held
      <3>1. j - 1 = cuQty
        BY <2>2, Digest
      <3>2. QED
        BY <3>1, <2>2, Digest DEF HandlesKnown
    <2>5. held \subseteq {<<"dbg", 0>>, <<"cuArr", 0>>}
      <3>1. ASSUME NEW x \in held PROVE x \in {<<"dbg", 0>>, <<"cuArr", 0>>}
        <4>1. \/ x \in {<<"dbg", 0>>, <<"cuArr", 0>>}
              \/ \E k \in 0 .. cuQty : x = <<"die", k>>
              \/ \E k \in 1 .. cuQty : x \in {<<"ranges", k>>, <<"context", k>>, <<"files", k>>}
          BY Digest DEF HandlesKnown
        <4>2. QED
          BY <4>1, <2>3, <2>4
      <3>2. QED
        BY <3>1
    <2>6. <<"dbg", 0>> \in held
      BY <2>2, Digest DEF HandlesKnown
    <2>7. QED
      BY <2>5, <2>6, <1>1, <2>1
  <1>4. FieldsMatchHandles'
    <2>1. \A k \in 0 .. cuQty : <<"die", k>> \notin held'
      BY <1>1, <1>3
    <2>2. QED
      BY <1>1, <1>2, <1>3, <2>1 DEF FieldsMatchHandles
  <1>5. Whereabouts'
    BY <1>1, Digest DEF Whereabouts, Working
  <1>6. HandlesKnown'
    BY <1>1, <1>3, Digest DEF HandlesKnown
  <1>7. InOrder' /\ ReadsCounted'
    BY <1>1, Digest DEF InOrder, ReadsCounted, Units
  <1>8. QED
    BY <1>4, <1>5, <1>6, <1>7 DEF HandleInv

\* Every step keeps the invariant of the handles.
LEMMA HandleStep ==
  ASSUME HandleInv, [Next]_vars
  PROVE  HandleInv'
  <1>1. CASE UNCHANGED vars \/ Done
    <2>1. UNCHANGED <<image, query, pc, next, cuArr, cuQty, cu, i, j, held, reads, faults, out>>
      BY <1>1 DEF Done, vars, cuQty, cu
    <2>2. TypeOK'
      BY <2>1, Digest DEF TypeOK
    <2>3. FieldsMatchHandles'
      BY <2>1, <2>2, Digest DEF FieldsMatchHandles
    <2>4. Whereabouts' /\ HandlesKnown'
      BY <2>1, Digest DEF Whereabouts, HandlesKnown
    <2>5. InOrder' /\ ReadsCounted'
      BY <2>1, Digest DEF InOrder, ReadsCounted, Units
    <2>6. QED
      BY <2>3, <2>4, <2>5 DEF HandleInv
  <1>2. QED
    BY <1>1, StillPreserves, OpenPreserves, ScanCuPreserves, StoreCuPreserves, DiePreserves,
       ReadLinesPreserves, ReadFilesPreserves, CloseUnitPreserves, EndPreserves
       DEF Next, StillStep, DieStep

\* It holds of every run of the call.
LEMMA HandlesHold == Spec => []HandleInv
  BY InitHandles, HandleStep, PTL DEF Spec

\* The clean-up frees exactly what cu_info says it has, nothing is freed while it is in use, and
\* libdwarf is left with nothing.
THEOREM HandlesCorrect == Spec => []FieldsMatchHandles
  <1>1. HandleInv => FieldsMatchHandles
    BY DEF HandleInv
  <1>2. QED
    BY <1>1, HandlesHold, PTL

\* A unit that answers for many addresses has its tables read once.
THEOREM ReadOnceCorrect == Spec => []ReadOnce
  <1>1. HandleInv => ReadOnce
    <2> SUFFICES ASSUME HandleInv, NEW u \in DOMAIN reads
                 PROVE  reads[u].lines <= 1 /\ reads[u].files <= 1
      BY DEF ReadOnce
    <2>1. u \in Units
      BY Digest DEF ReadsCounted
    <2>2. CASE \E k \in 1 .. cuQty : cuArr[k].unit = u
      <3>1. PICK k \in 1 .. cuQty : cuArr[k].unit = u
        BY <2>2
      <3>2. reads[u] = [lines |-> Once(cuArr[k].lines), files |-> Once(cuArr[k].files)]
        BY <3>1, Digest DEF ReadsCounted
      <3>3. QED
        BY <3>2 DEF Once
    <2>3. CASE \A k \in 1 .. cuQty : cuArr[k].unit # u
      <3>1. reads[u] = [lines |-> 0, files |-> 0]
        BY <2>1, <2>3, Digest DEF ReadsCounted
      <3>2. QED
        BY <3>1
    <2>4. QED
      BY <2>2, <2>3
  <1>2. QED
    BY <1>1, HandlesHold, PTL

-----------------------------------------------------------------------------
(* The address looked up.                                                  *)

\* Quotient and rest, also of a negative number.
LEMMA Division ==
  ASSUME NEW x \in Int
  PROVE  x \div W \in Int /\ x % W \in 0 .. W - 1 /\ x = W * (x \div W) + (x % W)
  BY WAssumption

\* A number has one rest.
LEMMA RestUnique ==
  ASSUME NEW p \in Int, NEW q \in Int, NEW r \in 0 .. W - 1, NEW s \in 0 .. W - 1,
         W * p + r = W * q + s
  PROVE  r = s
  <1>1. CASE p = q
    BY <1>1, WAssumption
  <1>2. CASE p < q
    <2>1. W * (q - p) = r - s
      BY WAssumption
    <2>2. W * (q - p) >= W
      <3>1. q - p >= 1
        BY <1>2
      <3>2. QED
        BY <3>1, WAssumption
    <2>3. QED
      BY <2>1, <2>2, WAssumption
  <1>3. CASE p > q
    <2>1. W * (p - q) = s - r
      BY WAssumption
    <2>2. W * (p - q) >= W
      <3>1. p - q >= 1
        BY <1>3
      <3>2. QED
        BY <3>1, WAssumption
    <2>3. QED
      BY <2>1, <2>2, WAssumption
  <1>4. QED
    BY <1>1, <1>2, <1>3

\* Numbers that differ by a multiple of W have the same rest.
LEMMA SameRest ==
  ASSUME NEW x \in Int, NEW y \in Int, NEW p \in Int, NEW q \in Int, NEW k \in Int,
         NEW r \in 0 .. W - 1, NEW s \in 0 .. W - 1,
         x = W * p + r, y = W * q + s, x = y + W * k
  PROVE  r = s
  <1>1. W * (q + k) = W * q + W * k
    BY WAssumption
  <1>2. W * p \in Int /\ W * q \in Int /\ W * k \in Int
    BY WAssumption
  <1>3. W * p + r = W * (q + k) + s
    BY <1>1, <1>2
  <1>4. q + k \in Int
    OBVIOUS
  <1>5. QED
    BY <1>3, <1>4, RestUnique

\* Wrapping around a summand first makes no difference.
LEMMA WrapTwice ==
  ASSUME NEW a \in Int, NEW b \in Int
  PROVE  (a + (b % W)) % W = (a + b) % W
  <1> DEFINE x == a + b
             y == a + (b % W)
  <1>1. b \div W \in Int /\ b % W \in 0 .. W - 1 /\ b = W * (b \div W) + (b % W)
    BY Division
  <1>2. x \in Int /\ y \in Int
    BY <1>1
  <1>3. x = y + W * (b \div W)
    <2>1. W * (b \div W) \in Int
      BY <1>1, WAssumption
    <2>2. QED
      BY <2>1, <1>1
  <1> HIDE DEF x, y
  <1>4. x \div W \in Int /\ x % W \in 0 .. W - 1 /\ x = W * (x \div W) + (x % W)
    BY <1>2, Division
  <1>5. y \div W \in Int /\ y % W \in 0 .. W - 1 /\ y = W * (y \div W) + (y % W)
    BY <1>2, Division
  <1>6. x % W = y % W
    BY ONLY <1>1, <1>2, <1>3, <1>4, <1>5, SameRest
  <1>7. QED
    BY <1>6 DEF x, y

\* The code subtracts first and wraps around twice; the result is the address
\* that StackReport looks up.
LEMMA PtrIsTarget ==
  ASSUME HandleInv, i <= Len(query.addrs)
  PROVE  ptr = Abstract!Target(query, image, addr)
  <1>1. addr \in Int /\ image.base \in Int /\ query.imageBase \in Int
    <2>1. i \in 1 .. Len(query.addrs)
      BY Digest
    <2>2. QED
      BY <2>1, InputsTyped, WAssumption DEF addr, Addr
  <1>2. CASE query.imageBase # 0 /\ image.base # 0
    <2> DEFINE d == image.base - query.imageBase
    <2>1. ptr = (addr + (d % W)) % W
      BY <1>2 DEF ptr, baseOffs
    <2>2. Abstract!Target(query, image, addr) = (addr + d) % W
      BY <1>2 DEF Abstract!Target
    <2>3. d \in Int
      BY <1>1
    <2> HIDE DEF d
    <2>4. QED
      BY <2>1, <2>2, <2>3, <1>1, WrapTwice
  <1>3. CASE ~(query.imageBase # 0 /\ image.base # 0)
    BY <1>3 DEF ptr, baseOffs, Abstract!Target
  <1>4. QED
    BY <1>2, <1>3

-----------------------------------------------------------------------------
(* Who answers.                                                            *)

\* StackReport is about the same units.
LEMMA AbstractLocation ==
  ASSUME NEW u, NEW p
  PROVE  Abstract!LocationOf(u, p) = LocationOf(u, p)
  BY DEF Abstract!LocationOf, LocationOf, Abstract!RowFor, RowFor, Abstract!FirstBracket,
         FirstBracket, Abstract!Brackets, Brackets, Abstract!NoLocation, NoLocation

\* A unit can answer in StackReport's sense if it is entered, has a usable row and files.
LEMMA AbstractAnswers ==
  ASSUME NEW u, NEW p
  PROVE  Abstract!CanAnswer(u, p) <=>
           Accepts(u.low, u.high, u.ranges, p) /\ Usable(u, LocationOf(u, p)) /\ u.fileCount > 0
  BY AbstractLocation
     DEF Abstract!CanAnswer, Abstract!Accepts, Accepts, Abstract!InRange, InRange,
         Abstract!Usable, Usable, Abstract!FileIndex, FileIndex

\* StackReport speaks of the same callbacks.
LEMMA AbstractCallbacks ==
  ASSUME NEW u, NEW at, NEW of, NEW a, NEW p
  PROVE  Abstract!UnitCallbacks(u, at, of, a, p) = UnitCallbacks(u, at, of, a, p)
  BY DEF Abstract!UnitCallbacks, UnitCallbacks, Abstract!FileListed, FileListed,
         Abstract!FileIndex, FileIndex, Abstract!SourceFrames, SourceFrames, Abstract!Special, Special

\* A unit whose table has no rows of its own has no location either.
LEMMA NoRowsNoAnswer ==
  ASSUME NEW u, NEW p, u.table # "rows"
  PROVE  LocationOf(u, p) = NoLocation /\ ~Usable(u, NoLocation)
  BY DEF LocationOf, Usable, NoLocation

\* The address looked up changes with i only.
LEMMA PtrKept ==
  ASSUME UNCHANGED <<image, query, i>>
  PROVE  UNCHANGED <<ptr, addr>>
  BY DEF ptr, addr, baseOffs

\* A failure, once counted, stays counted.
LEMMA FaultsGrow ==
  ASSUME HandleInv, [Next]_vars
  PROVE  faults \in Nat /\ (faults' = faults \/ faults' > faults)
  <1>1. faults \in Nat
    BY Digest DEF TypeOK
  <1>2. faults' = faults \/ faults' = faults + 1
    BY DEF Next, vars, Fail, NoFail, Reject, Open, NoDebugSymbols, ReturnNoDebug, ScanCu, StoreCu,
           ScanEnds, NextAddress, SkipUnit, EnterUnit, NotFound, ReadLines, Search, ReadFiles, Report,
           AllAnswered, CloseUnit, FreeUnits, Finish, Done
  <1>3. QED
    BY <1>1, <1>2

\* The unit at hand is the one at its place in the file, unless a call failed.
LEMMA UnitAtHand ==
  ASSUME PromiseInv, j \in 1 .. cuQty
  PROVE  /\ unit = image.units[cuArr[j].unit] /\ cu = cuArr[j] /\ cuArr[j].unit \in Units
         /\ unit.table \in {"none", "rows"} /\ unit.fileCount \in Nat
         /\ faults = 0 => cuArr[j].unit = j /\ cu.offs
         /\ cu.lines = "rows" => unit.table = "rows"
         /\ cu.files = "list" => unit.fileCount > 0
         /\ faults = 0 => cu.lines \in {"unread", unit.table}
         /\ faults = 0 => (cu.files = "none" => unit.fileCount = 0)
  <1>1. HandleInv /\ cuArr[j].unit \in Units
    BY Digest DEF PromiseInv
  <1>2. QED
    BY <1>1, InputsTyped DEF PromiseInv, Remembered, unit, cu

\* The units that are known do not change, and neither does what is known.
LEMMA RememberedKept ==
  ASSUME PromiseInv, [Next]_vars, cuArr' = cuArr
  PROVE  Remembered'
  <1>1. faults' = 0 => faults = 0
    BY FaultsGrow DEF PromiseInv
  <1>2. QED
    BY <1>1, InputsKept DEF PromiseInv, Remembered, cuQty

\* dwstOfFileExt() begins without having answered.
LEMMA InitPromise == Init => PromiseInv
  <1> SUFFICES ASSUME Init PROVE PromiseInv
    OBVIOUS
  <1>1. HandleInv
    BY InitHandles
  <1>2. Remembered /\ NoneMissed /\ InHand
    BY DEF Init, Remembered, NoneMissed, InHand, Working, cuQty
  <1>3. QED
    BY <1>1, <1>2 DEF PromiseInv

\* Before the first address and after the last there is nothing to remember.
LEMMA IdlePromise ==
  ASSUME PromiseInv,
         \/ Reject \/ Open \/ NoDebugSymbols \/ ReturnNoDebug \/ ScanCu \/ ScanEnds
         \/ AllAnswered \/ CloseUnit \/ FreeUnits \/ Finish
  PROVE  NoneMissed' /\ InHand'
  <1>1. HandleInv /\ NoneMissed
    BY DEF PromiseInv
  <1>2. /\ faults \in Nat /\ next \in 1 .. Len(image.units) + 1 /\ Len(image.units) \in Nat
        /\ cuQty \in Nat
        /\ pc = "start" => next = 1 /\ cuQty = 0
    BY <1>1, Digest DEF TypeOK, Whereabouts
  <1>3. cuQty' = cuQty /\ image' = image
    BY DEF Reject, Open, NoDebugSymbols, ReturnNoDebug, ScanCu, ScanEnds, AllAnswered, CloseUnit,
           FreeUnits, Finish, inputs, scan, cuQty
  <1>4. \/ pc' \in {"done", "no_dbg", "close", "finish"}
        \/ pc = "start" /\ pc' = "scan" /\ next' = next
        \/ pc = "scan" /\ pc' = "store" /\ next' = next + 1 /\ faults' = faults
        \/ pc = "scan" /\ pc' = "scan" /\ faults' = faults + 1
        \/ pc = "scan" /\ pc' = "address" /\ faults' = faults + 1
        \/ pc = "scan" /\ pc' = "address" /\ next > Len(image.units) /\ faults' = faults
    BY DEF Reject, Open, NoDebugSymbols, ReturnNoDebug, ScanCu, ScanEnds, AllAnswered, CloseUnit,
           FreeUnits, Finish, scan, Fail, NoFail
  <1>5. NoneMissed'
    <2>1. CASE faults' = faults + 1
      BY <2>1, <1>2 DEF NoneMissed
    <2>2. CASE pc' \in {"done", "no_dbg", "close", "finish"}
      BY <2>2 DEF NoneMissed, Working
    <2>3. CASE pc = "start" /\ pc' = "scan" /\ next' = next
      BY <2>3, <1>2, <1>3 DEF NoneMissed, Working
    <2>4. CASE pc = "scan" /\ pc' = "store" /\ next' = next + 1 /\ faults' = faults
      BY <2>4, <1>1, <1>2, <1>3 DEF NoneMissed, Working
    <2>5. CASE pc = "scan" /\ pc' = "address" /\ next > Len(image.units) /\ faults' = faults
      BY <2>5, <1>1, <1>2, <1>3 DEF NoneMissed, Working
    <2>6. QED
      BY <1>4, <2>1, <2>2, <2>3, <2>4, <2>5
  <1>6. InHand'
    BY <1>4 DEF InHand, Working
  <1>7. QED
    BY <1>5, <1>6

\* A unit kept is the next one of the file, and nothing is known of it yet.
LEMMA StorePromise ==
  ASSUME PromiseInv, StoreCu
  PROVE  Remembered' /\ NoneMissed' /\ InHand'
  <1>1. HandleInv /\ HandleInv' /\ NoneMissed /\ Remembered
    BY StoreCuPreserves DEF PromiseInv
  <1>2. faults \in Nat /\ next \in 1 .. Len(image.units) + 1
    BY <1>1, Digest DEF TypeOK
  <1>3. pc = "store" /\ next' = next /\ image' = image
    BY DEF StoreCu, inputs
  <1>4. CASE pc' = "scan"
    <2>1. PICK offs \in BOOLEAN :
            /\ cuArr' = Append(cuArr, [unit |-> next - 1, offs |-> offs,
                                       lines |-> "unread", files |-> "unread"])
            /\ IF offs THEN faults' = faults ELSE faults' = faults + 1
      BY <1>4 DEF StoreCu, Fail, NoFail
    <2> DEFINE e == [unit |-> next - 1, offs |-> offs, lines |-> "unread", files |-> "unread"]
    <2>2. e.unit = next - 1 /\ e.offs = offs /\ e.lines = "unread" /\ e.files = "unread"
      OBVIOUS
    <2>3. /\ Len(cuArr') = cuQty + 1 /\ cuArr'[cuQty + 1] = e
          /\ \A k \in 1 .. cuQty : cuArr'[k] = cuArr[k]
      BY <2>1, <1>1, Digest
    <2> HIDE DEF e
    <2>4. cuQty' = cuQty + 1 /\ cuQty \in Nat
      BY <2>3, <1>1, Digest DEF cuQty
    <2>5. \A k \in 1 .. cuQty' : k \in 1 .. cuQty \/ k = cuQty + 1
      BY <2>4
    <2>6. faults' = 0 => faults = 0 /\ offs
      BY <2>1, <1>2
    <2>7. faults = 0 => cuQty = next - 2
      BY <1>1, <1>3 DEF NoneMissed
    <2>8. Remembered'
      <3>1. ASSUME NEW k \in 1 .. cuQty
            PROVE  LET u == image.units[cuArr'[k].unit]
                   IN /\ cuArr'[k].lines = "rows" => u.table = "rows"
                      /\ cuArr'[k].files = "list" => u.fileCount > 0
                      /\ faults' = 0 => /\ cuArr'[k].unit = k /\ cuArr'[k].offs
                                        /\ cuArr'[k].lines \in {"unread", u.table}
                                        /\ cuArr'[k].files = "none" => u.fileCount = 0
        BY <1>1, <2>3, <2>6 DEF Remembered
      <3>2. LET u == image.units[e.unit]
            IN /\ e.lines = "rows" => u.table = "rows"
               /\ e.files = "list" => u.fileCount > 0
               /\ faults' = 0 => /\ e.unit = cuQty + 1 /\ e.offs
                                 /\ e.lines \in {"unread", u.table}
                                 /\ e.files = "none" => u.fileCount = 0
        BY <1>2, <2>2, <2>4, <2>6, <2>7
      <3>3. QED
        BY <3>1, <3>2, <2>3, <2>5, <1>3 DEF Remembered
    <2>9. NoneMissed'
      BY <1>2, <1>3, <1>4, <2>4, <2>6, <2>7 DEF NoneMissed, Working
    <2>10. InHand'
      BY <1>4 DEF InHand, Working
    <2>11. QED
      BY <2>8, <2>9, <2>10
  <1>5. CASE pc' = "address"
    <2>1. cuArr' = cuArr /\ faults' = faults + 1
      BY <1>5 DEF StoreCu, Fail
    <2>2. faults' # 0
      BY <2>1, <1>2
    <2>3. Remembered'
      BY <2>1, <2>2, <1>1, <1>3 DEF Remembered, cuQty
    <2>4. QED
      BY <2>2, <2>3, <1>5 DEF NoneMissed, InHand, Working
  <1>6. QED
    BY <1>4, <1>5 DEF StoreCu

\* The units are asked in order: the first, and the next one after one that
\* cannot answer.
LEMMA PickPromise ==
  ASSUME PromiseInv, NextAddress \/ SkipUnit \/ EnterUnit \/ NotFound
  PROVE  NoneMissed' /\ InHand'
  <1>1. HandleInv /\ NoneMissed
    BY DEF PromiseInv
  <1>2. /\ UNCHANGED <<image, query, cuArr, cuQty, loc>>
        /\ faults \in Nat /\ cuQty \in Nat /\ j \in 1 .. cuQty + 1
    BY <1>1, Digest DEF NextAddress, SkipUnit, EnterUnit, NotFound, inputs, scan, cuQty, TypeOK
  <1>3. CASE NextAddress
    BY <1>1, <1>2, <1>3 DEF NextAddress, NoneMissed, InHand, Working
  <1>4. CASE NotFound
    BY <1>1, <1>2, <1>4 DEF NotFound, NoneMissed, InHand, Working
  <1>5. CASE SkipUnit
    <2>1. pc = "pick" /\ pc' = "pick" /\ j \in 1 .. cuQty /\ j' = j + 1 /\ i' = i
      BY <1>2, <1>5 DEF SkipUnit
    <2>2. faults' = 0 => faults = 0 /\ ~(InFilter /\ cu.offs)
      BY <1>2, <1>5 DEF SkipUnit, Fail, NoFail
    <2>3. faults' = 0 => ~Abstract!CanAnswer(image.units[j], ptr)
      BY <2>1, <2>2, UnitAtHand, AbstractAnswers DEF InFilter
    <2>4. ptr' = ptr
      BY <1>2, <2>1, PtrKept
    <2>5. \A k \in 1 .. j' - 1 : k \in 1 .. j - 1 \/ k = j
      BY <2>1
    <2>6. NoneMissed'
      BY <1>1, <1>2, <2>1, <2>2, <2>3, <2>4, <2>5 DEF NoneMissed, Working
    <2>7. QED
      BY <2>1, <2>6 DEF InHand, Working
  <1>6. CASE EnterUnit
    <2>1. /\ pc = "pick" /\ pc' \in {"lines", "search"} /\ j \in 1 .. cuQty /\ InFilter
          /\ UNCHANGED <<i, j, faults>>
      BY <1>2, <1>6 DEF EnterUnit, history
    <2>2. ptr' = ptr
      BY <1>2, <2>1, PtrKept
    <2>3. NoneMissed'
      BY <1>1, <1>2, <2>1, <2>2 DEF NoneMissed, Working
    <2>4. InHand'
      BY <1>2, <2>1, <2>2 DEF InHand, Working, InFilter, unit, cu
    <2>5. QED
      BY <2>3, <2>4
  <1>7. QED
    BY <1>3, <1>4, <1>5, <1>6

\* What is read of a table is remembered; a table that cannot be read counts as none.
LEMMA ReadLinesPromise ==
  ASSUME PromiseInv, ReadLines
  PROVE  Remembered' /\ NoneMissed' /\ InHand'
  <1>1. HandleInv /\ NoneMissed /\ Remembered /\ InHand
    BY DEF PromiseInv
  <1>2. /\ UNCHANGED <<image, query, i, j, loc>>
        /\ pc = "lines" /\ pc' = "search"
        /\ j \in 1 .. cuQty /\ cuArr[j] \in Kept /\ faults \in Nat
    BY <1>1, Digest DEF ReadLines, inputs, Whereabouts, Working, TypeOK
  <1>3. PICK got \in {"none", "rows"} :
          /\ cuArr' = [cuArr EXCEPT ![j].lines = got]
          /\ (got = unit.table /\ faults' = faults) \/ (got = "none" /\ faults' = faults + 1)
    <2>1. unit.table \in {"none", "rows"}
      BY <1>2, UnitAtHand
    <2>2. QED
      BY <2>1 DEF ReadLines, Fail, NoFail
  <1> DEFINE e == [cuArr[j] EXCEPT !.lines = got]
  <1>4. /\ e \in Kept /\ e.unit = cuArr[j].unit /\ e.lines = got /\ e.files = cuArr[j].files
        /\ e.offs = cuArr[j].offs
    BY <1>2 DEF Kept
  <1>5. cuArr' = [cuArr EXCEPT ![j] = e]
    BY <1>3
  <1> HIDE DEF e
  <1>6. /\ cuQty' = cuQty /\ cuArr'[j] = e
        /\ \A k \in 1 .. cuQty : k # j => cuArr'[k] = cuArr[k]
        /\ \A k \in 1 .. cuQty : cuArr'[k].unit = cuArr[k].unit
    BY <1>1, <1>2, <1>4, <1>5, FieldChanged
  <1>7. faults' = 0 => faults = 0 /\ got = unit.table
    BY <1>2, <1>3
  <1>8. ptr' = ptr
    BY <1>2, PtrKept
  <1>9. Remembered'
    <2>1. ASSUME NEW k \in 1 .. cuQty
          PROVE  LET u == image.units[cuArr'[k].unit]
                 IN /\ cuArr'[k].lines = "rows" => u.table = "rows"
                    /\ cuArr'[k].files = "list" => u.fileCount > 0
                    /\ faults' = 0 => /\ cuArr'[k].unit = k /\ cuArr'[k].offs
                                      /\ cuArr'[k].lines \in {"unread", u.table}
                                      /\ cuArr'[k].files = "none" => u.fileCount = 0
      <3>1. CASE k = j
        BY <3>1, <1>2, <1>3, <1>4, <1>6, <1>7, UnitAtHand
      <3>2. CASE k # j
        BY <3>2, <1>1, <1>6, <1>7 DEF Remembered
      <3>3. QED
        BY <3>1, <3>2
    <2>2. QED
      BY <2>1, <1>2, <1>6 DEF Remembered
  <1>10. NoneMissed'
    BY <1>1, <1>2, <1>6, <1>7, <1>8 DEF NoneMissed, Working
  <1>11. InHand'
    BY <1>1, <1>2, <1>6, <1>8 DEF InHand, Working, InFilter, unit, cu
  <1>12. QED
    BY <1>9, <1>10, <1>11

\* A unit without a usable location is left, and none could have been had.
LEMMA SearchPromise ==
  ASSUME PromiseInv, Search
  PROVE  NoneMissed' /\ InHand'
  <1>1. HandleInv /\ NoneMissed /\ InHand
    BY DEF PromiseInv
  <1>2. /\ UNCHANGED <<image, query, cuArr, cuQty, i>> /\ pc = "search"
        /\ j \in 1 .. cuQty /\ faults \in Nat /\ cu.lines # "unread"
    BY <1>1, Digest DEF Search, inputs, scan, cuQty, Whereabouts, Working, TypeOK
  <1>3. ptr' = ptr
    BY <1>2, PtrKept
  <1>4. \/ loc' = LocationOf(unit, ptr) /\ cu.lines = "rows" /\ faults' = faults
        \/ loc' = NoLocation /\ cu.lines # "rows" /\ faults' = faults
        \/ loc' = NoLocation /\ faults' = faults + 1
    BY DEF Search, Fail, NoFail
  <1>5. ~Usable(unit, NoLocation)
    BY DEF Usable, NoLocation
  <1>6. CASE ~Usable(unit, loc') \/ cu.files = "none"
    <2>1. pc' = "pick" /\ j' = j + 1
      BY <1>6 DEF Search, LeaveUnit
    <2>2. faults' = 0 => faults = 0 /\ ~Abstract!CanAnswer(image.units[j], ptr)
      <3> SUFFICES ASSUME faults' = 0
                   PROVE  faults = 0 /\ ~Abstract!CanAnswer(image.units[j], ptr)
        OBVIOUS
      <3>1. faults = 0 /\ faults' = faults
        BY <1>2, <1>4
      <3>2. unit = image.units[j] /\ unit.table = cu.lines
        BY <1>2, <3>1, UnitAtHand
      <3>3. CASE ~Usable(unit, loc')
        <4>1. loc' = LocationOf(unit, ptr)
          BY <1>2, <1>4, <3>1, <3>2, NoRowsNoAnswer
        <4>2. QED
          BY <4>1, <3>1, <3>2, <3>3, AbstractAnswers
      <3>4. CASE cu.files = "none"
        BY <1>2, <3>1, <3>2, <3>4, UnitAtHand, AbstractAnswers
      <3>5. QED
        BY <1>6, <3>3, <3>4
    <2>3. \A k \in 1 .. j' - 1 : k \in 1 .. j - 1 \/ k = j
      BY <1>2, <2>1
    <2>4. NoneMissed'
      BY <1>1, <1>2, <1>3, <2>1, <2>2, <2>3 DEF NoneMissed, Working
    <2>5. QED
      BY <2>1, <2>4 DEF InHand, Working
  <1>7. CASE Usable(unit, loc') /\ cu.files # "none"
    <2>1. pc' \in {"files", "report"} /\ j' = j
      BY <1>7 DEF Search
    <2>2. loc' = LocationOf(unit, ptr) /\ faults' = faults
      BY <1>4, <1>5, <1>7
    <2>3. NoneMissed'
      BY <1>1, <1>2, <1>3, <2>1, <2>2 DEF NoneMissed, Working
    <2>4. InHand'
      BY <1>1, <1>2, <1>3, <1>7, <2>1, <2>2 DEF InHand, Working, InFilter, unit, cu
    <2>5. QED
      BY <2>3, <2>4
  <1>8. QED
    BY <1>6, <1>7

\* Without a list of files the unit cannot answer.
LEMMA ReadFilesPromise ==
  ASSUME PromiseInv, ReadFiles
  PROVE  Remembered' /\ NoneMissed' /\ InHand'
  <1>1. HandleInv /\ NoneMissed /\ Remembered /\ InHand
    BY DEF PromiseInv
  <1>2. /\ UNCHANGED <<image, query, i, loc>> /\ pc = "files"
        /\ j \in 1 .. cuQty /\ cuArr[j] \in Kept /\ faults \in Nat
    BY <1>1, Digest DEF ReadFiles, inputs, Whereabouts, Working, TypeOK
  <1>3. unit.fileCount \in Nat
    BY <1>2, UnitAtHand
  <1>4. PICK got \in {"none", "list"} :
          /\ cuArr' = [cuArr EXCEPT ![j].files = got]
          /\ \/ /\ got = "list" /\ faults' = faults /\ unit.fileCount > 0
                /\ pc' = "report" /\ j' = j
             \/ /\ got = "none" /\ pc' = "pick" /\ j' = j + 1
                /\ (faults' = faults /\ unit.fileCount = 0) \/ faults' = faults + 1
    BY DEF ReadFiles, LeaveUnit, Fail, NoFail
  <1> DEFINE e == [cuArr[j] EXCEPT !.files = got]
  <1>5. /\ e \in Kept /\ e.unit = cuArr[j].unit /\ e.files = got /\ e.lines = cuArr[j].lines
        /\ e.offs = cuArr[j].offs
    BY <1>2 DEF Kept
  <1>6. cuArr' = [cuArr EXCEPT ![j] = e]
    BY <1>4
  <1> HIDE DEF e
  <1>7. /\ cuQty' = cuQty /\ cuArr'[j] = e
        /\ \A k \in 1 .. cuQty : k # j => cuArr'[k] = cuArr[k]
        /\ \A k \in 1 .. cuQty : cuArr'[k].unit = cuArr[k].unit
    BY <1>1, <1>2, <1>5, <1>6, FieldChanged
  <1>8. faults' = 0 => faults = 0 /\ (got = "none" => unit.fileCount = 0)
    BY <1>2, <1>4
  <1>9. ptr' = ptr
    BY <1>2, PtrKept
  <1>10. Remembered'
    <2>1. ASSUME NEW k \in 1 .. cuQty
          PROVE  LET u == image.units[cuArr'[k].unit]
                 IN /\ cuArr'[k].lines = "rows" => u.table = "rows"
                    /\ cuArr'[k].files = "list" => u.fileCount > 0
                    /\ faults' = 0 => /\ cuArr'[k].unit = k /\ cuArr'[k].offs
                                      /\ cuArr'[k].lines \in {"unread", u.table}
                                      /\ cuArr'[k].files = "none" => u.fileCount = 0
      <3>1. CASE k = j
        BY <3>1, <1>2, <1>4, <1>5, <1>7, <1>8, UnitAtHand
      <3>2. CASE k # j
        BY <3>2, <1>1, <1>7, <1>8 DEF Remembered
      <3>3. QED
        BY <3>1, <3>2
    <2>2. QED
      BY <2>1, <1>2, <1>7 DEF Remembered
  <1>11. CASE got = "list"
    <2>1. NoneMissed'
      BY <1>1, <1>2, <1>4, <1>7, <1>8, <1>9, <1>11 DEF NoneMissed, Working
    <2>2. InHand'
      BY <1>1, <1>2, <1>4, <1>7, <1>9, <1>11 DEF InHand, Working, InFilter, unit, cu
    <2>3. QED
      BY <2>1, <2>2, <1>10
  <1>12. CASE got = "none"
    <2>1. pc' = "pick" /\ j' = j + 1
      BY <1>4, <1>12
    <2>2. faults' = 0 => ~Abstract!CanAnswer(image.units[j], ptr)
      BY <1>2, <1>8, <1>12, UnitAtHand, AbstractAnswers
    <2>3. \A k \in 1 .. j' - 1 : k \in 1 .. j - 1 \/ k = j
      BY <1>2, <2>1
    <2>4. NoneMissed'
      BY <1>1, <1>2, <1>7, <1>8, <1>9, <2>1, <2>2, <2>3 DEF NoneMissed, Working
    <2>5. QED
      BY <2>1, <2>4, <1>10 DEF InHand, Working
  <1>13. QED
    BY <1>11, <1>12

\* Every step keeps the invariant of the answers.
LEMMA PromiseStep ==
  ASSUME PromiseInv, [Next]_vars
  PROVE  PromiseInv'
  <1>1. HandleInv /\ HandleInv'
    BY HandleStep DEF PromiseInv
  <1>2. cuArr' = cuArr => Remembered'
    BY RememberedKept
  <1>3. CASE Reject \/ Open \/ NoDebugSymbols \/ ReturnNoDebug \/ ScanCu \/ ScanEnds
             \/ AllAnswered \/ CloseUnit \/ FreeUnits \/ Finish
    <2>1. cuArr' = cuArr
      BY <1>3 DEF Reject, Open, NoDebugSymbols, ReturnNoDebug, ScanCu, ScanEnds, AllAnswered,
                  CloseUnit, FreeUnits, Finish, scan
    <2>2. QED
      BY <2>1, <1>1, <1>2, <1>3, IdlePromise DEF PromiseInv
  <1>4. CASE NextAddress \/ SkipUnit \/ EnterUnit \/ NotFound
    <2>1. cuArr' = cuArr
      BY <1>4 DEF NextAddress, SkipUnit, EnterUnit, NotFound, scan
    <2>2. QED
      BY <2>1, <1>1, <1>2, <1>4, PickPromise DEF PromiseInv
  <1>5. CASE StoreCu \/ ReadLines \/ ReadFiles
    BY <1>1, <1>5, StorePromise, ReadLinesPromise, ReadFilesPromise DEF PromiseInv
  <1>6. CASE Search
    BY <1>1, <1>2, <1>6, SearchPromise DEF PromiseInv, Search, scan
  <1>7. CASE Report
    <2>1. UNCHANGED <<image, cuArr, cuQty, faults>> /\ pc = "report" /\ pc' = "address"
      BY <1>7 DEF Report, inputs, scan, cuQty
    <2>2. NoneMissed' /\ InHand'
      BY <2>1 DEF PromiseInv, NoneMissed, InHand, Working
    <2>3. QED
      BY <2>1, <2>2, <1>1, <1>2 DEF PromiseInv
  <1>8. CASE UNCHANGED vars \/ Done
    <2>1. UNCHANGED <<image, query, pc, next, cuArr, i, j, loc, faults>>
      BY <1>8 DEF Done, vars
    <2>2. UNCHANGED <<cuQty, ptr, unit, InFilter>>
      BY <2>1, PtrKept DEF cuQty, unit, cu, InFilter
    <2>3. NoneMissed' /\ InHand'
      BY <2>1, <2>2 DEF PromiseInv, NoneMissed, InHand
    <2>4. QED
      BY <2>1, <2>3, <1>1, <1>2 DEF PromiseInv
  <1>9. QED
    BY <1>3, <1>4, <1>5, <1>6, <1>7, <1>8 DEF Next

\* It holds of every run of the call.
LEMMA PromiseHolds == Spec => []PromiseInv
  BY InitPromise, PromiseStep, PTL DEF Spec

-----------------------------------------------------------------------------
(* Step by step.                                                           *)

\* A call that has not begun has answered nothing.
LEMMA InitPromised == Init => Abstract!Init
  BY DEF Init, Abstract!Init, Phase

\* Steps that answer nothing leave what StackReport speaks of as it is, but for
\* the failure they may count.
LEMMA SilentPromised ==
  ASSUME HandleInv,
         \/ ScanCu \/ StoreCu \/ ScanEnds \/ NextAddress \/ SkipUnit \/ EnterUnit \/ ReadLines
         \/ Search \/ ReadFiles \/ CloseUnit \/ FreeUnits \/ Finish \/ Done
  PROVE  [Abstract!Next]_(Abstract!vars)
  <1>1. UNCHANGED <<image, query, i, out>>
    BY DEF ScanCu, StoreCu, ScanEnds, NextAddress, SkipUnit, EnterUnit, ReadLines, Search,
           ReadFiles, CloseUnit, FreeUnits, Finish, Done, inputs, history, vars
  <1>2. \/ /\ pc \in {"scan", "store", "address", "pick", "lines", "search", "files", "report"}
           /\ pc' \in {"scan", "store", "address", "pick", "lines", "search", "files", "report"}
           /\ faults' = faults \/ faults' = faults + 1
        \/ /\ pc \in {"close", "finish", "done"} /\ pc' \in {"close", "finish", "done"}
           /\ faults' = faults
    BY DEF ScanCu, StoreCu, ScanEnds, NextAddress, SkipUnit, EnterUnit, ReadLines, Search, LeaveUnit,
           ReadFiles, CloseUnit, FreeUnits, Finish, Done, vars, Fail, NoFail
  <1>3. faults \in Nat
    BY Digest DEF TypeOK
  <1>4. Phase' = Phase /\ (faults' = faults + 1 => Phase = "open")
    BY <1>2, <1>3 DEF Phase
  <1>5. CASE faults' = faults
    BY <1>1, <1>4, <1>5 DEF Abstract!vars
  <1>6. CASE faults' = faults + 1
    BY <1>1, <1>3, <1>4, <1>6 DEF Abstract!Next, Abstract!Fault
  <1>7. QED
    BY <1>2, <1>5, <1>6

\* The call is refused, begins or returns.
LEMMA EdgesPromised ==
  ASSUME HandleInv, Reject \/ Open \/ ReturnNoDebug \/ AllAnswered
  PROVE  Abstract!Next
  <1>1. UNCHANGED <<image, query, i, faults>>
    BY DEF Reject, Open, ReturnNoDebug, AllAnswered, inputs
  <1>2. CASE Reject
    BY <1>1, <1>2 DEF Reject, history, Phase, Abstract!Next, Abstract!Reject
  <1>3. CASE Open
    <2>1. out = <<>>
      BY <1>3, Digest DEF Open, Whereabouts
    <2>2. Abstract!Special(0, query.imageBase, "base_addr") = Special(0, query.imageBase, "base_addr")
      BY DEF Abstract!Special, Special
    <2>3. Abstract!Begin
      BY <1>1, <1>3, <2>1, <2>2 DEF Open, BaseAddr, Phase, Abstract!Begin
    <2>4. QED
      BY <2>3 DEF Abstract!Next
  <1>4. CASE ReturnNoDebug \/ AllAnswered
    <2>1. i - 1 = Len(query.addrs)
      BY <1>4, Digest DEF ReturnNoDebug, AllAnswered
    <2>2. pc \in {"no_dbg", "address"} /\ pc' \in {"done", "close"} /\ out' = out
      BY <1>4 DEF ReturnNoDebug, AllAnswered, history
    <2>3. Abstract!Return
      BY <1>1, <2>1, <2>2 DEF Phase, Abstract!Return
    <2>4. QED
      BY <2>3 DEF Abstract!Next
  <1>5. QED
    BY <1>2, <1>3, <1>4

\* An answer is one of those that StackReport allows for the next address.
LEMMA AnswerPromised ==
  ASSUME HandleInv, i <= Len(query.addrs), UNCHANGED <<image, query, faults>>, i' = i + 1,
         Phase \in {"open", "refused"}, Phase' = Phase,
         NEW r \in Abstract!Answers(i), out' = out \o r
  PROVE  Abstract!Next
  <1>1. i \in Nat \ {0} /\ Len(query.addrs) \in Nat
    BY Digest
  <1>2. i - 1 < Len(query.addrs) /\ (i - 1) + 1 = i /\ i' - 1 = (i - 1) + 1
    BY <1>1
  <1>3. Abstract!Answer
    BY <1>2 DEF Abstract!Answer
  <1>4. QED
    BY <1>3 DEF Abstract!Next

\* A report is that of the first unit that can answer; "not found" is said only
\* if none can.
LEMMA ReportsPromised ==
  ASSUME PromiseInv, NoDebugSymbols \/ NotFound \/ Report
  PROVE  Abstract!Next
  <1>1. HandleInv /\ NoneMissed /\ InHand
    BY DEF PromiseInv
  <1>2. UNCHANGED <<image, query, faults>> /\ i' = i + 1 /\ i <= Len(query.addrs)
    BY <1>1, Digest DEF NoDebugSymbols, NotFound, Report, inputs, Whereabouts, Working
  <1>3. ptr = Abstract!Target(query, image, query.addrs[i])
    BY <1>1, <1>2, PtrIsTarget DEF addr
  <1> DEFINE able == {u \in Units : Abstract!CanAnswer(image.units[u], ptr)}
             by(u) == UnitCallbacks(image.units[u], LocationOf(image.units[u], ptr), i, addr, ptr)
  <1>4. Special(i, addr, "not_found") = Abstract!Special(i, query.addrs[i], "not_found")
    BY DEF Special, Abstract!Special, addr
  <1>5. CASE NoDebugSymbols
    <2>1. Phase = "refused" /\ Phase' = Phase
      BY <1>5 DEF NoDebugSymbols, Phase
    <2>2. Special(i, addr, "no_dbg_sym") \in Abstract!Answers(i)
      BY <2>1 DEF Abstract!Answers, Special, Abstract!Special, addr
    <2>3. QED
      BY <1>1, <1>2, <1>5, <2>1, <2>2, AnswerPromised DEF NoDebugSymbols
  <1>6. CASE NotFound
    <2>1. Phase = "open" /\ Phase' = Phase
      BY <1>6 DEF NotFound, Phase
    <2>2. faults = 0 => able = {}
      <3>1. j = cuQty + 1
        BY <1>1, <1>6, Digest DEF NotFound
      <3>2. faults = 0 => \A u \in 1 .. cuQty : ~Abstract!CanAnswer(image.units[u], ptr)
        <4>1. j - 1 = cuQty
          BY <3>1, <1>1, Digest
        <4>2. QED
          BY <4>1, <1>1, <1>6 DEF NotFound, NoneMissed
      <3>3. faults = 0 => cuQty = Len(image.units)
        BY <1>1, <1>6 DEF NotFound, NoneMissed
      <3>4. QED
        BY <3>2, <3>3 DEF Units
    <2>3. Special(i, addr, "not_found") \in Abstract!Answers(i)
      <3>1. CASE faults = 0
        BY <3>1, <1>3, <1>4, <2>1, <2>2 DEF Abstract!Answers, Units
      <3>2. CASE faults > 0
        BY <3>2, <1>3, <1>4, <2>1 DEF Abstract!Answers
      <3>3. QED
        BY <3>1, <3>2, <1>1, Digest DEF TypeOK
    <2>4. QED
      BY <1>1, <1>2, <1>6, <2>1, <2>3, AnswerPromised DEF NotFound
  <1>7. CASE Report
    <2>1. Phase = "open" /\ Phase' = Phase /\ pc = "report" /\ j \in 1 .. cuQty
      BY <1>1, <1>7, Digest DEF Report, Phase, Whereabouts, Working, TypeOK
    <2> DEFINE n == cuArr[j].unit
    <2>2. n \in Units /\ unit = image.units[n] /\ unit.fileCount > 0 /\ (faults = 0 => n = j)
      BY <1>1, <2>1, UnitAtHand, Digest DEF Whereabouts
    <2>3. loc = LocationOf(unit, ptr) /\ Usable(unit, loc) /\ InFilter
      BY <1>1, <2>1 DEF InHand, Working
    <2> HIDE DEF n
    <2>4. n \in able
      BY <2>2, <2>3, AbstractAnswers DEF InFilter
    <2>5. faults = 0 => \A u \in able : n <= u
      <3>1. faults = 0 => \A u \in 1 .. j - 1 : u \notin able
        BY <1>1, <2>1 DEF NoneMissed, Working
      <3>2. QED
        BY <3>1, <2>1, <2>2, <1>1, Digest DEF Units
    <2>6. out' = out \o by(n)
      BY <1>7, <2>2, <2>3 DEF Report
    <2>7. by(n) = Abstract!UnitCallbacks(image.units[n], Abstract!LocationOf(image.units[n], ptr),
                                         i, query.addrs[i], ptr)
      BY AbstractCallbacks, AbstractLocation DEF addr
    <2>8. by(n) \in Abstract!Answers(i)
      <3>1. CASE faults = 0
        <4>1. able # {} /\ n \in {u \in able : \A l \in able : u <= l}
          BY <3>1, <2>4, <2>5
        <4>2. QED
          BY <3>1, <4>1, <1>3, <2>1, <2>7 DEF Abstract!Answers, Units
      <3>2. CASE faults > 0
        BY <3>2, <1>3, <2>1, <2>4, <2>7 DEF Abstract!Answers, Units
      <3>3. QED
        BY <3>1, <3>2, <1>1, Digest DEF TypeOK
    <2>9. QED
      BY <1>1, <1>2, <2>1, <2>6, <2>8, AnswerPromised
  <1>8. QED
    BY <1>5, <1>6, <1>7

\* Whatever fails, dwstOfFile() keeps the promise of StackReport: the callbacks
\* come in order, each address gets the answer of the first unit that has one,
\* and a failing call may lose an answer but not make one up.
THEOREM PromiseKept == Spec => Abstract!Spec
  <1>1. PromiseInv /\ [Next]_vars => [Abstract!Next]_(Abstract!vars)
    <2> SUFFICES ASSUME PromiseInv, [Next]_vars PROVE [Abstract!Next]_(Abstract!vars)
      OBVIOUS
    <2>1. HandleInv
      BY DEF PromiseInv
    <2>2. CASE UNCHANGED vars
      BY <2>2 DEF vars, Abstract!vars, Phase
    <2>3. QED
      BY <2>1, <2>2, SilentPromised, EdgesPromised, ReportsPromised DEF Next
  <1>2. QED
    BY <1>1, InitPromised, PromiseHolds, PTL DEF Spec, Abstract!Spec

=============================================================================
