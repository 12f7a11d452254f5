------------------------------- MODULE OfFile --------------------------------
(***************************************************************************)
(* dwstOfFileExt() (src/dwst-file.c): the units of an image are scanned    *)
(* once, then every address is looked up in them; a unit's line table and  *)
(* file list are read when an address first needs them and kept until the  *)
(* end.  Any call into libdwarf may fail; held tracks what has to be given *)
(* back.  The reading of a unit's ranges is CuRanges, the search of a line *)
(* table is LineLookup and the walk over the DIEs is InlineWalk: here they *)
(* are single steps with the results those modules establish.              *)
(***************************************************************************)
EXTENDS UnitInfo, SequencesExt

CONSTANTS
  W,         \* addresses are numbers below W and wrap around
  Images,    \* [base, units]: preferred base address, units in file order
  Queries,   \* [imageBase, addrs]: the arguments of the call
  MaxFaults  \* bound: how many calls fail in one run

Addr == 0 .. W - 1

ASSUME WAssumption == W \in Nat \ {0} /\ MaxFaults \in Nat
ASSUME ImagesAssumption ==
  \A img \in Images :
    /\ img.base \in Addr
    /\ img.units \in Seq(Range(img.units))
    /\ \A j \in 1 .. Len(img.units) :
         /\ IsUnit(img.units[j])
         /\ img.units[j].frames \in [Addr -> 0 .. 3]
ASSUME QueriesAssumption ==
  \A q \in Queries : q.imageBase \in Addr /\ q.addrs \in Seq(Addr)

VARIABLES
  image, query,
  pc,      \* where the code is
  next,    \* the unit header dwarf_next_cu_header_d() stands before
  cuArr,   \* the units kept, as records [unit, offs, lines, files]
  i, j,    \* the address and the unit being tried, counted from 1
  loc,     \* srcfileno and lineno
  held,    \* handles and buffers not given back yet
  reads,   \* history: how often each unit's tables were read
  faults,  \* history: how many calls failed
  out      \* history: the callbacks made

vars == <<image, query, pc, next, cuArr, i, j, loc, held, reads, faults, out>>
inputs == <<image, query>>
scan == <<next, cuArr>>
history == <<reads, out>>

Fail == faults < MaxFaults /\ faults' = faults + 1
NoFail == UNCHANGED faults

cuQty == Len(cuArr)
cu == cuArr[j]
unit == image.units[cu.unit]

\* baseOffs: the image's preferred base may differ from the one it is at.
baseOffs ==
  IF query.imageBase # 0 /\ image.base # 0 THEN (image.base - query.imageBase) % W ELSE 0
addr == query.addrs[i]
ptr == (addr + baseOffs) % W

Init ==
  /\ image \in Images /\ query \in Queries
  /\ pc = "start" /\ next = 1 /\ cuArr = <<>> /\ i = 1 /\ j = 1 /\ loc = NoLocation
  /\ held = {} /\ faults = 0 /\ out = <<>>
  /\ reads = [u \in 1 .. Len(image.units) |-> [lines |-> 0, files |-> 0]]

-----------------------------------------------------------------------------
(* Opening the image.                                                      *)

\* Missing arguments: return 0.
Reject ==
  /\ pc = "start"
  /\ query.addrs = <<>>
  /\ pc' = "done"
  /\ UNCHANGED <<inputs, scan, i, j, loc, held, history, faults>>

BaseAddr == out' = IF query.imageBase # 0 THEN Special(0, query.imageBase, "base_addr") ELSE out

\* dwarf_pe_init() succeeds or not (PeAccess).
Open ==
  /\ pc = "start"
  /\ query.addrs # <<>>
  /\ BaseAddr
  /\ \/ pc' = "scan" /\ held' = {<<"dbg", 0>>}
     \/ pc' = "no_dbg" /\ UNCHANGED held
  /\ UNCHANGED <<inputs, scan, i, j, loc, reads, faults>>

NoDebugSymbols ==
  /\ pc = "no_dbg"
  /\ i <= Len(query.addrs)
  /\ out' = out \o Special(i, addr, "no_dbg_sym")
  /\ i' = i + 1
  /\ UNCHANGED <<inputs, pc, scan, j, loc, held, reads, faults>>

ReturnNoDebug ==
  /\ pc = "no_dbg"
  /\ i > Len(query.addrs)
  /\ pc' = "done"
  /\ UNCHANGED <<inputs, scan, i, j, loc, held, history, faults>>

-----------------------------------------------------------------------------
(* The scan of the units.                                                  *)

\* The next unit's header and DIE are read; a unit without a DIE is left out.
ScanCu ==
  /\ pc = "scan"
  /\ next <= Len(image.units)
  /\ next' = next + 1
  /\ \/ pc' = "store" /\ held' = held \cup {<<"die", 0>>} /\ NoFail
     \/ UNCHANGED <<pc, held>> /\ Fail
  /\ UNCHANGED <<inputs, cuArr, i, j, loc, history>>

\* A scan that leaves the loop without freeing the unit's DIE.
StoreCuKeepsDie ==
  /\ pc = "store"
  /\ \/ /\ \E offs \in BOOLEAN :
             /\ IF offs THEN NoFail ELSE Fail
             /\ cuArr' = Append(cuArr, [unit |-> next - 1, offs |-> offs,
                                        lines |-> "unread", files |-> "unread"])
        /\ held' = (held \ {<<"die", 0>>}) \cup {<<"cuArr", 0>>}
             \cup (IF image.units[next - 1].ranges = <<>> THEN {} ELSE {<<"ranges", cuQty + 1>>})
        /\ pc' = "scan"
     \/ /\ Fail
        /\ pc' = "address"
        /\ UNCHANGED <<cuArr, held>>
  /\ UNCHANGED <<inputs, next, i, j, loc, history>>

\* The unit's cu_info is filled in; its offset stays 0 if it cannot be read.
\* Without memory for it the scan ends with the units found so far.
StoreCu ==
  /\ pc = "store"
  /\ \/ /\ \E offs \in BOOLEAN :
             /\ IF offs THEN NoFail ELSE Fail
             /\ cuArr' = Append(cuArr, [unit |-> next - 1, offs |-> offs,
                                        lines |-> "unread", files |-> "unread"])
        /\ held' = (held \ {<<"die", 0>>}) \cup {<<"cuArr", 0>>}
             \cup (IF image.units[next - 1].ranges = <<>> THEN {} ELSE {<<"ranges", cuQty + 1>>})
        /\ pc' = "scan"
     \/ /\ Fail
        /\ pc' = "address"
        /\ held' = held \ {<<"die", 0>>}
        /\ UNCHANGED cuArr
  /\ UNCHANGED <<inputs, next, i, j, loc, history>>

\* There is no further header, or it cannot be read.
ScanEnds ==
  /\ pc = "scan"
  /\ IF next > Len(image.units) THEN NoFail ELSE Fail
  /\ pc' = "address"
  /\ UNCHANGED <<inputs, scan, i, j, loc, held, history>>

-----------------------------------------------------------------------------
(* The addresses.                                                          *)

NextAddress ==
  /\ pc = "address"
  /\ i <= Len(query.addrs)
  /\ j' = 1
  /\ pc' = "pick"
  /\ UNCHANGED <<inputs, scan, i, loc, held, history, faults>>

InFilter == Accepts(unit.low, unit.high, unit.ranges, ptr)

\* The unit has not got the address, or its DIE cannot be had.
SkipUnit ==
  /\ pc = "pick"
  /\ j <= cuQty
  /\ \/ ~(InFilter /\ cu.offs) /\ NoFail
     \/ InFilter /\ cu.offs /\ Fail
  /\ j' = j + 1
  /\ UNCHANGED <<inputs, pc, scan, i, loc, held, history>>

EnterUnit ==
  /\ pc = "pick"
  /\ j <= cuQty
  /\ InFilter /\ cu.offs
  /\ held' = held \cup {<<"die", j>>}
  /\ pc' = IF cu.lines = "unread" THEN "lines" ELSE "search"
  /\ UNCHANGED <<inputs, scan, i, j, loc, history, faults>>

NotFound ==
  /\ pc = "pick"
  /\ j > cuQty
  /\ out' = out \o Special(i, addr, "not_found")
  /\ i' = i + 1
  /\ pc' = "address"
  /\ UNCHANGED <<inputs, scan, j, loc, held, reads, faults>>

\* The DIE is freed and the next unit is tried.
LeaveUnit ==
  /\ held' = held \ {<<"die", j>>}
  /\ j' = j + 1
  /\ pc' = "pick"

\* A failure to read the lines that is not remembered.
ReadLinesAgain ==
  /\ pc = "lines"
  /\ reads' = [reads EXCEPT ![cu.unit].lines = @ + 1]
  /\ \/ /\ NoFail
        /\ cuArr' = [cuArr EXCEPT ![j].lines = IF unit.table = "none" THEN "unread" ELSE unit.table]
        /\ held' = IF unit.table = "none" THEN held ELSE held \cup {<<"context", j>>}
     \/ /\ Fail
        /\ UNCHANGED <<cuArr, held>>
  /\ pc' = "search"
  /\ UNCHANGED <<inputs, next, i, j, loc, out>>

\* dwarf_srclines_b() and dwarf_srclines_from_linecontext(): what they return,
\* a failure too, is kept in cu_info, and a context that is of no use is freed.
ReadLines ==
  /\ pc = "lines"
  /\ reads' = [reads EXCEPT ![cu.unit].lines = @ + 1]
  /\ \/ /\ NoFail
        /\ cuArr' = [cuArr EXCEPT ![j].lines = unit.table]
        /\ held' = IF unit.table = "none" THEN held ELSE held \cup {<<"context", j>>}
     \/ /\ Fail
        /\ cuArr' = [cuArr EXCEPT ![j].lines = "none"]
        /\ UNCHANGED held
  /\ pc' = "search"
  /\ UNCHANGED <<inputs, next, i, j, loc, out>>

\* A location that outlives the unit it was found in.
SearchKeepsLocation ==
  /\ pc = "search"
  /\ \/ loc' = (IF cu.lines = "rows" THEN LocationOf(unit, ptr) ELSE loc) /\ NoFail
     \/ loc' = NoLocation /\ cu.lines = "rows" /\ Fail
  /\ IF ~Usable(unit, loc') \/ cu.files = "none"
       THEN LeaveUnit
       ELSE /\ pc' = IF cu.files = "unread" THEN "files" ELSE "report"
            /\ UNCHANGED <<held, j>>
  /\ UNCHANGED <<inputs, scan, i, history>>

\* The loop over the lines, whose result may be lost to a failing read.
Search ==
  /\ pc = "search"
  /\ \/ loc' = (IF cu.lines = "rows" THEN LocationOf(unit, ptr) ELSE NoLocation) /\ NoFail
     \/ loc' = NoLocation /\ cu.lines = "rows" /\ Fail
  /\ IF ~Usable(unit, loc') \/ cu.files = "none"
       THEN LeaveUnit
       ELSE /\ pc' = IF cu.files = "unread" THEN "files" ELSE "report"
            /\ UNCHANGED <<held, j>>
  /\ UNCHANGED <<inputs, scan, i, history>>

\* dwarf_srcfiles(): the list, or that there is none, is kept in cu_info.
ReadFiles ==
  /\ pc = "files"
  /\ reads' = [reads EXCEPT ![cu.unit].files = @ + 1]
  /\ \/ /\ NoFail /\ unit.fileCount > 0
        /\ cuArr' = [cuArr EXCEPT ![j].files = "list"]
        /\ held' = held \cup {<<"files", j>>}
        /\ pc' = "report"
        /\ UNCHANGED j
     \/ /\ IF unit.fileCount = 0 THEN NoFail ELSE Fail
        /\ cuArr' = [cuArr EXCEPT ![j].files = "none"]
        /\ LeaveUnit
  /\ UNCHANGED <<inputs, next, i, loc, out>>

\* The unit answers, and the next address is taken.
Report ==
  /\ pc = "report"
  /\ out' = out \o UnitCallbacks(unit, loc, i, addr, ptr)
  /\ held' = held \ {<<"die", j>>}
  /\ i' = i + 1
  /\ pc' = "address"
  /\ UNCHANGED <<inputs, scan, j, loc, reads, faults>>

-----------------------------------------------------------------------------
(* The end.                                                                *)

AllAnswered ==
  /\ pc = "address"
  /\ i > Len(query.addrs)
  /\ j' = 1
  /\ pc' = "close"
  /\ UNCHANGED <<inputs, scan, i, loc, held, history, faults>>

\* What the clean-up frees of unit j: the line context if there are lines, the
\* files with their list, and the ranges.
CloseUnit ==
  /\ pc = "close"
  /\ j <= cuQty
  /\ held' = held \ ((IF cu.lines = "rows" THEN {<<"context", j>>} ELSE {})
                       \cup (IF cu.files = "list" THEN {<<"files", j>>} ELSE {})
                       \cup {<<"ranges", j>>})
  /\ j' = j + 1
  /\ UNCHANGED <<inputs, pc, scan, i, loc, history, faults>>

FreeUnits ==
  /\ pc = "close"
  /\ j > cuQty
  /\ held' = held \ {<<"cuArr", 0>>}
  /\ pc' = "finish"
  /\ UNCHANGED <<inputs, scan, i, j, loc, history, faults>>

\* dwarf_pe_finish() frees whatever libdwarf has still got.
Finish ==
  /\ pc = "finish"
  /\ held' = {}
  /\ pc' = "done"
  /\ UNCHANGED <<inputs, scan, i, j, loc, history, faults>>

Done == pc = "done" /\ UNCHANGED vars

Next ==
  \/ Reject \/ Open \/ NoDebugSymbols \/ ReturnNoDebug
  \/ ScanCu \/ StoreCu \/ ScanEnds
  \/ NextAddress \/ SkipUnit \/ EnterUnit \/ NotFound
  \/ ReadLines \/ Search \/ ReadFiles \/ Report
  \/ AllAnswered \/ CloseUnit \/ FreeUnits \/ Finish
  \/ Done

Spec == Init /\ [][Next]_vars
FairSpec == Spec /\ WF_vars(Next)

-----------------------------------------------------------------------------

\* The variables' types.
TypeOK ==
  /\ pc \in {"start", "no_dbg", "scan", "store", "address", "pick", "lines", "search",
             "files", "report", "close", "finish", "done"}
  /\ next \in 1 .. Len(image.units) + 1
  /\ cuArr \in Seq([unit : 1 .. Len(image.units), offs : BOOLEAN,
                    lines : {"unread", "none", "rows"},
                    files : {"unread", "none", "list"}])
  /\ i \in 1 .. Len(query.addrs) + 1
  /\ j \in 1 .. cuQty + 1
  /\ held \subseteq {"dbg", "cuArr", "die", "ranges", "context", "files"} \X (0 .. cuQty)
  /\ faults \in 0 .. MaxFaults

\* What cu_info says is out is out, until the clean-up reaches the unit, and a
\* DIE is held exactly while its unit is being worked on: so the clean-up frees
\* nothing twice, a table in use is never freed, and libdwarf is left with nothing
\* to free when it is closed.  The indices into units and addresses stay inside.
FieldsMatchHandles ==
  /\ TypeOK
  /\ pc \notin {"finish", "done"} =>
       \A k \in 1 .. cuQty :
         (pc = "close" => j <= k) =>
           /\ <<"context", k>> \in held <=> cuArr[k].lines = "rows"
           /\ <<"files", k>> \in held <=> cuArr[k].files = "list"
           /\ <<"ranges", k>> \in held <=> image.units[cuArr[k].unit].ranges # <<>>
  /\ \A k \in 0 .. cuQty :
       <<"die", k>> \in held <=>
         \/ k = 0 /\ pc = "store"
         \/ k = j /\ k > 0 /\ pc \in {"lines", "search", "files", "report"}
  /\ pc = "finish" => held = {<<"dbg", 0>>}

\* However many addresses fall into a unit and whatever fails, its line table
\* and its file list are decoded at most once.
ReadOnce == \A u \in DOMAIN reads : reads[u].lines <= 1 /\ reads[u].files <= 1

(***************************************************************************)
(* The calls made, the order and the contents of the callbacks are those   *)
(* that StackReport promises, and the call returns.                        *)
(***************************************************************************)
Phase ==
  CASE pc = "start" -> "idle"
    [] pc = "no_dbg" -> "refused"
    [] pc \in {"close", "finish", "done"} -> "returned"
    [] OTHER -> "open"

Abstract == INSTANCE StackReport WITH phase <- Phase, answered <- i - 1
ReportsAsPromised == Abstract!LiveSpec

=============================================================================
