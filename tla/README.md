# A verification project for dwarfstack

dwarfstack turns the addresses of a Windows stack trace into source files, lines
and function names. This directory holds TLA+ models of its core logic and of
the parts of libdwarf it stands on, the TLC runs that check them on small
instances, and theorems about them that TLAPS proves for every instance.

    tlc -workers 2 -config AddressLookup.cfg MCAddressLookup.tla    # one of the runs
    tlapm LineLookupProofs.tla                                      # the proofs

`PROJECT.json` lists the runs, the code line by line that each definition
models, a mutant of the code for every property, the findings and the hazards.

## 1. Inventory

### 1.1 Components

| Component | Source | State it keeps | Operations |
|---|---|---|---|
| dwstOfFile | `src/dwst-file.c` | per call: `cuArr` with the units' ranges, line tables and file lists; handles from libdwarf | `dwstOfFileExt`, `findInlined`, `walkChildren`, `dwarf_ranges`, `dwarf_lowhighpc`, `dwarf_name_of_func_linked` |
| dwstOfProcess | `src/dwst-process.c` | the group being formed; implicitly the address space of the process, which others change | `dwstOfProcessExt` |
| Stack capture | `src/dwst-location.c`, `src/dwst-exception.c` | a buffer of 32 frames; dbghelp's session, which is the process's | `dwstOfLocationExt`, `dwstOfExceptionExt`, `captureStackTrace`, `captureStackWalk` |
| Crash dialog | `src/dwst-exception-dialog.c` | the global `myExtraInfo`, the installed filter; per crash `dialog_info` | `dwstExceptionDialog(W)`, `exceptionPrinter`, `dlgPrint` |
| PE access | `mgwhelp/dwarf_pe.c` | a file, its mapping and view, libdwarf's interface object | `dwarf_pe_init`, `dwarf_pe_init_link`, `dwarf_pe_finish`, section accessors |
| Leak detector | `examples/leak-detector/inc/leaks.i` | a table of live blocks under a mutex, `inited` outside of it | wrappers of `malloc` and its like, `ALLOC`, `FREE`, `endfunc`, `exceptionWalker` |
| libdwarf: line tables | `libdwarf/dwarf_line.c`, `dwarf_line_table_reader_common.h` | a line context with rows, directories and files; the registers of the line program | `dwarf_srclines_b`, `dwarf_srcfiles`, `dwarf_srclines_dealloc_b` |
| libdwarf: DIEs and units | `dwarf_die_deliv.c`, `dwarf_util.c`, `dwarf_abbrev.c` | a list of unit contexts, each with its bases and a hash table of abbreviations that is filled as needed | `dwarf_next_cu_header_d`, `dwarf_offdie_b`, `dwarf_child`, `dwarf_siblingof_b` |
| libdwarf: attributes | `dwarf_form.c`, `dwarf_query.c`, `dwarf_util.c` | none of its own; reads the unit's bases and loads sections | `dwarf_attr`, `dwarf_formaddr`, `dwarf_lowpc`, `dwarf_highpc_b`, `dwarf_die_text` and their like |
| libdwarf: range lists | `dwarf_ranges.c`, `dwarf_rnglists.c` | a chain of entries while a list is read, then an array | `dwarf_get_ranges_b`, `dwarf_rnglists_get_rle_head`, `dwarf_get_rnglists_entry_fields_a` |
| libdwarf: sections | `dwarf_init_finish.c` | the table of sections, and for each whether it is loaded and unpacked | `_dwarf_setup`, `_dwarf_load_section` |
| libdwarf: memory and errors | `dwarf_alloc.c`, `dwarf_tsearchhash.c`, `dwarf_harmless.c` | a hash table of all allocations; a ring of harmless errors | `_dwarf_get_alloc`, `dwarf_dealloc`, `_dwarf_free_all_of_one_debug`, `dwarf_insert_harmless_error`, `dwarf_get_harmless_error_list`, `dwarf_set_harmless_error_list_size` |
| zlib | `zlib/` | (third party) | decompression of sections |
| Examples | `examples/` | none | print what the callbacks report |

### 1.2 Interactions

    crash / caller
       |  ExceptionDialog: exceptionPrinter --- callbacks (dlgPrint) <--------+
       v                                                                      |
    StackCapture: dwstOfException, dwstOfLocation                             |
       |  an array of addresses                                               |
       v                                                                      |
    ProcessGroups: dwstOfProcess    (other threads load and unload modules)   |
       |  one call per module: base address, file name, addresses             |
       v                                                                      |
    OfFile: dwstOfFile -----------------------------------------------------> +
       |  units: CuRanges   rows: LineLookup   functions: InlineWalk
       v                                                     libdwarf
    PeAccess --- SectionTable --- UnitChain --- AbbrevTable, DieAttributes
                       |              |---- LineReader (LineProgram)
                       |              |---- RangeLists
                       |              '---- DieStream
                       '---- DwarfAlloc (SearchHash), HarmlessErrors

The leak detector stands beside this: it wraps the heap of another program and
uses the library to print stacks. All of the library runs synchronously in the
thread that calls it. What makes it hard is that it holds many resources of
several owners along paths that may fail at every call; that it caches what it
has read and goes by the cache when it frees; that it searches tables whose
contents it has no control over; that it runs after a crash, when stack and heap
may be damaged; and that the address space, the dialog's text and the wrapped
heap are shared with other threads. In libdwarf the hard part is that the
meaning of a byte depends on what was read before: an abbreviation, a base, a
register, the size of a form; and that it fills its tables only as far as it is
asked, so that the order of the questions decides what they hold.

### 1.3 What makes each component correct

* **dwstOfFile**: every address is reported in order, by the first unit that can
  tell where it comes from; the line is that of the row that holds the address;
  the frames of inlined calls are the enclosing functions from the inside out,
  each with the place the one inside it was called from; no unit is passed over
  for an address that it describes; whatever fails, each handle is given back
  once and each table is read once.
* **dwstOfProcess**: every address of code is converted once, with base and file
  name of one and the same module.
* **PE access**: what was acquired is given back in every failure; the file with
  the debug information and the image base handed out belong together.
* **Stack capture**: the addresses are those of the calls in order, inside the
  buffer; a walk along a damaged chain ends.
* **Crash dialog**: addresses are numbered without gaps, below their module's
  base address; the text shown is the one that was set.
* **Leak detector**: at exit exactly the blocks that live are in the table, with
  the stack that allocated them, and each leak is reported once; a touched guard
  page is traced to its block.
* **libdwarf, reading**: the rows are those that the line program means; the
  children and siblings of a DIE are those that the entries stand for; a unit, a
  DIE and the value of an attribute are the same in whatever order they are asked
  for; a range list read entry by entry is the one written, or it is given up.
* **libdwarf, memory**: a block that is handed out is released once, however the
  table that tracks it grows and whatever fails; the ring of harmless errors holds
  the newest ones.

## 2. Modules

| Module | Models | Properties |
|---|---|---|
| `LineTable` | what a row of a line table means in DWARF (no state) | |
| `LineProgram` | the operations of a line program on the registers, and what its rows mean without registers (no state) | `EndsAreEndSequences` |
| `LineReader` | `_dwarf_internal_srclines`, header and both programs, and the release of the context | `ReaderReleases`, `RowsAsMeant` |
| `LineLookup` | the loop over the rows in `dwstOfFileExt` | `HitIsFirstBracket`, `MissMeansNoBracket` |
| `DieStream` | a unit's DIEs as entries; `dwarf_child`, `dwarf_siblingof_b` | |
| `InlineWalk` | `walkChildren`, `findInlined`, `dwarf_name_of_func_linked` | `HandlesMatchRecursion`, `FramesAreEnclosing`, `LocationsChain` |
| `AddressLookup` | **composes** the six above: a unit answers one address after another | `AnswersAsMeant`, `EveryLookupEnds` |
| `CuFilter` | which unit is asked about an address (no state) | |
| `CuRanges` | `dwarf_lowhighpc`, `dwarf_ranges`, the scan of a unit's ranges, the range test of `findInlined` | `HandlesReleased`, `FilterConservative`, `FilterExact`, `InlineTestExact`, `InlineTestAgrees` |
| `RangeLists` | libdwarf's reading of a range list; **extends** `CuRanges`, which scans what was read | `ListsAsWritten` |
| `UnitInfo` | a unit as a value: what the above amount to (no state) | |
| `StackReport` | the promise of `dwstOfFile()`, abstract | |
| `OfFile` | `dwstOfFileExt` from open to clean-up | `FieldsMatchHandles`, `ReadOnce`, `ReportsAsPromised` (refinement of `StackReport`, and that the call returns) |
| `PeAccess` | `dwarf_pe_init`, `dwarf_pe_init_link`, `dwarf_pe_finish` | `LabelsMatchLadder`, `BaseOfOpenedFile`, `OpensExpected`, `NullErrorTolerated` |
| `SectionTable` | the sections from the headers to their contents | `SectionsAsStored` |
| `DwarfForms` | what attributes mean in DWARF, written as bytes (no state) | |
| `DieAttributes` | how libdwarf reads them (no state) | |
| `AbbrevTable` | `_dwarf_get_abbrev_for_code` with the table it fills (no state of its own) | |
| `UnitChain` | the list of contexts; `dwarf_next_cu_header_d`, `dwarf_offdie_b`, and what is asked of a DIE | `UnitsInTurn`, `DiesAsWritten`, `AttributesAsWritten`, `AttributesRead` |
| `OpenObject` | **composes** `PeAccess`, `SectionTable`, `UnitChain`: an image from open to close | |
| `StackCapture` | the five ways to capture a stack | `FramesAreCalls`, `FramesComplete` |
| `ProcessGroups` | `dwstOfProcessExt` beside threads that load and unload modules | `GroupsInOrder`, `NothingLost` |
| `StackTrace` | **composes** `StackCapture` and `ProcessGroups` | `TraceEnds` |
| `ExceptionDialog` | the text, the filter and the lines of the dialog | `OneTextKept`, `ShowsText` |
| `CrashReport` | **composes** `ExceptionDialog` and `StackTrace` with callbacks of the shape that `StackReport` gives them | `LinesInOrder` |
| `LeakDetector` | the wrappers, the table, the report and the exception walker, several threads | `Accounting`, `ReportSound`, `ReportComplete`, `BlameFindsBlock`, `ReportsOriginOfThreads` |
| `SearchHash` | libdwarf's hash table of allocations | `TableSound` |
| `DebugMemory` | what a `Dwarf_Debug` promises about memory, abstract | |
| `DwarfAlloc` | the allocations of a `Dwarf_Debug` in that table | `AttachedGoesToo`, `Implements` (refinement of `DebugMemory`) |
| `HarmlessErrors` | the ring of harmless errors | `ListIsNewest` |
| `DwarfMemory` | **composes** `DwarfAlloc` and `HarmlessErrors` | |
| `LineLookupProofs`, `InlineWalkProofs`, `CuRangesProofs`, `OfFileProofs`, `PeAccessProofs`, `ProcessGroupsProofs`, `LeakDetectorProofs`, `DwarfMemoryProofs` | theorems, section 4 | |

The type invariant of a module, `TypeOK`, is the first conjunct of the invariant
that needs it (`LocationsChain`, `Accounting`, `FramesComplete`,
`FieldsMatchHandles`, `HandlesReleased`, `LabelsMatchLadder`, `GroupsInOrder`,
`OneTextKept`), so that a run checks it and a proof can use it.

Each `MC` module defines the instance that TLC checks. Operators whose names
extend another's (`PassedAcrossEnd` beside `Passed`) are variants of a definition
with a plausible mistake; no specification uses them. `PROJECT.json` pairs every
property with a variant that violates it, so that a property that would hold
whatever the code does cannot go unnoticed.

### 2.1 From code to state and actions

* The program counter `pc` (`mode` in the reader, `stage` elsewhere) names the
  place in the code; an action is the code from one place to the next, with every
  assignment on the way. Steps are as fine as the properties need: in `OfFile`,
  which runs alone, one step reads a table; in `LeakDetector`, where threads
  interleave, the test of `inited`, the step inside the mutex and the call of the
  heap are steps of their own, and so is each entry of the table that `endfunc()`
  comes to.
* `held` (and `live` in `InlineWalk`) is what libdwarf or the system has given
  out and not got back. It is history in the sense that the code cannot look at
  it: the code goes by its own fields, and the properties relate the two.
* Calls that may fail are actions of their own or disjuncts, which count in
  `faults` where several may fail. Damage in a file is part of the value that is
  read (an operation `"cut"`, an abbreviation that stops the reading, a unit
  header that is wrong), so that one value is read the same way every time.
* Bytes are kept only where the code can lose its place among them
  (`DieAttributes`); elsewhere a section is a sequence of what the code reads from
  it in one go: operations, entries, abbreviations, headers.
* Sequences count from 1 where the code counts from 0; the modules say so where
  it matters for a bound (`c` in `LineLookup`, `FileIndex` in `UnitInfo`, which
  counts as the code does).
* Addresses are numbers below `W` with arithmetic modulo `W` in `LineProgram`,
  `CuRanges` and `OfFile`, as `Dwarf_Addr` wraps at 2^64.
* Strings are left out. Where a conversion may fail and the code acts on it, it
  is a choice (`FindLink`, `Assign`).

### 2.2 How the modules compose

`AddressLookup` is a unit from its line program to the callback. The table is
read before the first address is asked for, since reading does not look at the
address. What is searched is what the reader left in its context, and the walk
starts with the location of the row that was found. `LineReader` and `InlineWalk`
are each compared with a definition that knows nothing of registers, entries or
recursion (`MeantRow` in `LineProgram`, the tree in `InlineWalk`), and `AnswersAsMeant` compares the result of all three with both.

`RangeLists` reads a unit's list entry by entry and hands it to `CuRanges` as the
unit's entries; the reading does not look at what the scan makes of it, and so
comes first. Findings about a list are therefore about its bytes' meaning, not
about what libdwarf happened to return.

`OfFile` does not repeat the loops of these modules; its units carry what those
loops amount to (`low`, `high`, `ranges`, `rows`, `frames`). For the line table
the replacement is proved: `LoopComputesRowFor` says that the loop's answer is
`RowFor`, which `OfFile` uses. For the ranges, `CuFilter` is shared:
`CuRangesProofs` shows that the filter over the stored ranges is exact, `OfFile`
uses it. `StackReport` is its abstract specification: phases, the number of
addresses answered, and the callbacks. `OfFile` maps its program counter to the
phases and `i - 1` to the number answered, and is checked to refine it
(`ReportsAsPromised`). A failing call may make another unit, or none, answer, but
never makes an answer up.

`OpenObject` is what lies below: `dwarf_pe_init()` with its ladder, the sections
entered when the set-up reaches them and loaded when a call first needs one, also
in the middle of a call that reads an attribute (`wants`, `got`), the units read
in any order while the image is open, and everything dropped when
`dwarf_pe_finish()` begins. Errors are not looked at by `dwstOfFileExt()`, which
passes none; they are taken by the caller only where the ladder is checked.

`CrashReport` joins the upper half: `StackTrace` is `StackCapture` whose buffer is
the array that `ProcessGroups` is called with; each group is answered by callbacks
of the shape that `StackReport` promises; `ExceptionDialog` turns those into
lines. Other threads change the address space during all of it, and the
application may set another text until the trace begins.

`DwarfAlloc` is checked, and proved, to refine `DebugMemory`: a block is released
once, what is tracked is in use, nothing tracked outlives `dwarf_object_finish()`.

## 3. Runs

| Run | Bounds | What it shows |
|---|---|---|
| `address_lookup` | all programs of up to 3 operations, all tables of up to 3 rows over addresses 0 to 2, all trees of up to 3 DIEs, and of up to 4 plain ones with superfluous flags and references to siblings, arithmetic modulo 6; damage and failing allocations anywhere | three rows hold a sequence, its end and the start of another, also overlapping; three DIEs hold two levels of inlining and siblings that both claim an address; every place where the reading can stop is reached |
| `line_end_flag` | the same with 1 row and 1 DIE | violation, section 5 |
| `cu_ranges` | all unit lists of up to 3 entries as the file has them, of both generations, function lists of up to 2, addresses modulo 6 | a base selection followed by two entries, indices outside .debug_addr, dropped functions at 0, wrapping sums, every failing call |
| `inline_ranges_moved` | unit lists of up to 2 entries | violation, section 5 |
| `of_file` | up to 2 units of seven kinds, 2 addresses out of 1, 3 and 5, 2 faults | an address that the first unit fails to answer and the second answers; tables reused by the second address |
| `open_object` | every image with every pair of files its link may lead to; 2 faults, 3 calls, up to 2 units, up to 3 abbreviations, units whose DIE has up to 3 attributes in any order, one attribute behind another of any form, sections packed, damaged, empty, missing or twice; bytes below 64, addresses of 4 bytes | a fault in the first attempt and in the second; a DIE asked for before, between and after the units are walked; an abbreviation table rehashed while it is filled; a base that comes after what needs it; a section loaded a second time after it could not be unpacked |
| `attribute_sizes` | the same | violation, section 5 |
| `pe_access_null_error` | no other fault | violation, section 5 |
| `crash_report` | every chain of 2 frames, damaged, cyclic and intact, each of the 5 ways to capture; room for 4 frames; 3 images of which 2 want the same place; 2 changes of the address space; 2 calls of `dwstExceptionDialog()` | a chain that never ends, a buffer that fills up, one module replaced by another at the same base within a group, two modules in turn in the report, an address in data or in nothing |
| `leak_detector` | 3 threads, 3 addresses, 4 blocks, 1 fault, a table that grows by 2, with or without guarded pages | an address released by one thread and reused by another before the table knows; growth and `realloc()` that fail; tracking that ends; leaks of one call that are not next to each other |
| `leak_origin` | 2 threads, 2 addresses, 3 blocks, no fault | violation, section 5 |
| `dwarf_memory` | 4 blocks, 3 table sizes, 2 failing allocations; 6 harmless errors, rings of three sizes, 1 refused resize | the table moved twice, given up half-way, found again in either half; a ring that wraps around and changes its size while it is full |

Three of these bounds are narrower than the rest, to keep a run within minutes.
In `crash_report` modules change only under chains that are not damaged, and a
crash comes with one of two intact chains: what is done about damage does not
depend on the modules. In `open_object` images that differ in their links have
intact contents and the other way round: the ladder is over when a unit is read.
In `dwarf_memory` the constraint `OneAtATime` lets either the allocations or the
ring move on, as they share no variable.

**Fairness.** `OfFile` (`FairSpec`) and `AddressLookup` (`LookupSpec`) have weak
fairness of the next step: a function that has been called keeps running, since
it waits for nobody. `CrashReport` (`CrashFairness`) has it for the one thread
that takes the trace, step by step of that thread (`TakeTrace`, `Tell`,
`Report`), and for nothing else: other threads need not change the address space,
and the user need not crash the program or set a text. Liveness is therefore not
assumed away: `EveryLookupEnds` fails if the next sibling is forgotten, and
`TraceEnds` if a walk is not bounded by its buffer. `LeakDetector` and
`DwarfMemory` have no fairness and no liveness property: programs call the heap
when they like and may stop, which is why these configurations switch off the
check for deadlock.

**Symmetry** is used for `LeakDetector` only, whose threads and addresses are
model values that no definition tells apart; it is checked for safety only.

## 4. Proofs

The theorems are about the specifications that the runs check, with everything
the components are composed with.

| Theorem | Statement |
|---|---|
| `LineLookupProofs!HitCorrect` | `LookupSpec => []HitIsFirstBracket` |
| `LineLookupProofs!MissCorrect` | `LookupSpec => []MissMeansNoBracket` |
| `LineLookupProofs!LoopComputesRowFor` | `LookupSpec => []AnswerIsRowFor`: the loop's answer is `RowFor` of the table |
| `LineLookupProofs!ReaderReleasesCorrect` | `LookupSpec => []ReaderReleases` |
| `LineLookupProofs!RowsCorrect` | `LookupSpec => []RowsAsMeant` |
| `InlineWalkProofs!ChildFound` | for every tree, `ChildAt` of its entries is the first child |
| `InlineWalkProofs!SiblingFound` | for every tree, `SiblingAt` of its entries is the next sibling |
| `InlineWalkProofs!HandlesMatchRecursionCorrect` | `LookupSpec => []HandlesMatchRecursion` |
| `InlineWalkProofs!FramesAreEnclosingCorrect` | `LookupSpec => []FramesAreEnclosing` |
| `InlineWalkProofs!LocationsChainCorrect` | `LookupSpec => []LocationsChain` |
| `InlineWalkProofs!AnswersCorrect` | `LookupSpec => []AnswersAsMeant` |
| `CuRangesProofs!HandlesCorrect` | `ListSpec => []HandlesReleased` |
| `CuRangesProofs!FilterConservativeCorrect` | `ListSpec => []FilterConservative` |
| `CuRangesProofs!FilterExactCorrect` | `ListSpec => []FilterExact` |
| `CuRangesProofs!InlineTestCorrect` | `ListSpec => []InlineTestExact` |
| `CuRangesProofs!ListsCorrect` | `ListSpec => []ListsAsWritten` |
| `OfFileProofs!HandlesCorrect` | `Spec => []FieldsMatchHandles` |
| `OfFileProofs!ReadOnceCorrect` | `Spec => []ReadOnce` |
| `OfFileProofs!PromiseKept` | `Spec => Abstract!Spec`: the safety part of the refinement of `StackReport` |
| `PeAccessProofs!LadderCorrect` | `ObjectSpec => []LabelsMatchLadder` |
| `PeAccessProofs!BaseCorrect` | `ObjectSpec => []BaseOfOpenedFile` |
| `PeAccessProofs!ExpectedOpened` | `ObjectSpec => []OpensExpected` |
| `PeAccessProofs!UnitsInTurnCorrect` | `ObjectSpec => []UnitsInTurn` |
| `PeAccessProofs!SectionsCorrect` | `ObjectSpec => []SectionsAsStored` |
| `PeAccessProofs!DiesCorrect` | `ObjectSpec => []DiesAsWritten` |
| `ProcessGroupsProofs!FramesCorrect` | `CrashSpec => []FramesAreCalls` |
| `ProcessGroupsProofs!FramesCompleteCorrect` | `CrashSpec => []FramesComplete` |
| `ProcessGroupsProofs!GroupsCorrect` | `CrashSpec => []GroupsInOrder` |
| `ProcessGroupsProofs!NothingLostCorrect` | `CrashSpec => []NothingLost` |
| `ProcessGroupsProofs!LinesCorrect` | `CrashSpec => []LinesInOrder` |
| `ProcessGroupsProofs!OneTextCorrect` | `CrashSpec => []OneTextKept` |
| `ProcessGroupsProofs!ShowsTextCorrect` | `CrashSpec => ShowsText`, an action property |
| `LeakDetectorProofs!AccountingHolds` | `Spec => []Accounting` |
| `LeakDetectorProofs!ReportSoundHolds` | `Spec => []ReportSound` |
| `LeakDetectorProofs!ReportCompleteHolds` | `Spec => []ReportComplete` |
| `LeakDetectorProofs!BlameHolds` | `Spec => []BlameFindsBlock` |
| `DwarfMemoryProofs!TableStaysSound` | `Spec => []TableSound` |
| `DwarfMemoryProofs!AttachedReleased` | `Spec => []AttachedGoesToo` |
| `DwarfMemoryProofs!MemoryImplemented` | `Spec => Implements` |
| `DwarfMemoryProofs!NewestKept` | `Spec => []ListIsNewest` |

**LineLookup**, for every set of line programs and addresses. The assumptions are
that addresses are natural numbers and wrap at some width, and that a source is
what `IsSource` says, a sequence of operations with or without damage. Three
invariants lead there. `ReaderTyped`: whatever the reader does, the rows it leaves
have natural addresses; the operations that take a row from another table
(two-level tables) are the ones that need an argument. `SearchTyped`: the search
begins only once the rows are read and before the first of them; and the loop's
own, `Remembered` and `NoneBehind`: `onEnd` and `prevAdd` are what row c-1 says,
and no row before c-1 brackets the address. `HitIsFirstBracket` is not inductive
without them, as the step that reports row c-1 looks at two remembered values and
at row c, not at row c-1. The interesting step is the skip: the row before it must
not bracket the address, which follows from the three disjuncts of the code's
condition (`SkipLeavesNoBracket`). No assumption that a table is sorted is needed.

`ReaderReleases` speaks of a few places only; `Ledger` says what is allocated at
all of them. It ties each kind of object to the field of the context that leads to
it (`Belong`), and the objects that no field leads to yet, the formats of the
file entries and the chain of rows, to the places where they exist. What makes it
go through is that no step gives the context a count before the object is made,
and that each error path drops what its place has and nothing else.

`RowsAsMeant` compares registers that are changed operation by operation with a
definition that adds up a whole stretch of the program. `Means` says of the registers
after k operations, in terms of that definition, what each of them is: the line is a
sum over the operations since the sequence began (`FollowsLine`), the file that of the
last operation that set one (`FollowsFile`), and the address is counted from the last
operation that anchored it (`FollowsAddress`). The last is the hard one. The code
wraps the address after every operation and carries a rest of operations from
instruction to instruction; the definition wraps once and divides once, so that a sum
of quotients with their rests has to be the quotient of the sum (`QuotientAndRest`,
`DividedTwice`, `ReachedTwice`). The sums themselves are folds of the community
modules over sets; `SumsExist` and `SumsAgree` show by least counterexamples that such
a fold exists and does not depend on the order, `SumGrows` what one more operation
adds. `RowsInv` then has the rows so far be numbered by the operations that emit one.
Operations that only the experimental two-level tables have are left out by
`PlainProgram`, as is `DW_LNS_advance_pc` where an instruction has several operations,
which the code reads in its own way (section 5).

**DieStream**, for every tree of DIEs that `IsTree` admits: of any size and shape,
with a children flag on any DIE, whether it has children or not, and a reference to
the sibling on any. The entries are a sequence in which every DIE and every null
entry has its place, so it is counted which null entries lie behind a subtree
(`NullsAfter`, `AfterIs`). `ChildFound` is then short. The scan for a sibling is a
loop, and a recursive function in the model; `LoopExists` shows once for all such
functions that they exist. `Inner` is what the loop's depth counts: the DIEs of the
subtree that the entry it has come to lies below (`ClimbOn`, `ClimbDown`,
`ClimbOut`). `AfterSubtree` follows the scan, the last DIE of the subtree first, by
a least counterexample; the case that is easy to get wrong is a DIE with a flag but
no children, where the scan enters an empty list and has to leave it again.

**InlineWalk**, in the same module, on top of the invariant of the lookup.
`WalkInLookup` has six parts while a walk runs. `WalkShape` says where the walk may
be. `WalkHandles` counts the handles. `WalkPath` has the stack be the DIEs around the
one looked at, without a gap.
`WalkEnds` carries what was visited: as long as nothing ended the walk and nothing
failed, no DIE visited is one that it is for (`NothingMissed`), and visited are those
that end before the present one (`BehindDown`, `BehindOn`, `BehindUp`); afterwards
one DIE ended it, and the functions around that one are reported except those on the
stack (`Ended`). `WalkFrames` nests the frames in one another and in the stack, and
`WalkSites` has the place of each, and of the next, be the call of the last inlined
function before it. Each step is one of eight kinds (`StepKinds`), which is what the
proofs distinguish. Before and after a walk nothing is left of it (`WalkRests`), so
that one address does not disturb the next. `FramesAreEnclosing` speaks of the first
DIE visited that holds the address; the one that ends the walk is it (`FirstMet`),
as of two DIEs one is visited before the other (`OneEarlier`).

`AnswersAsMeant` puts the three parts together. `AnswerInv` keeps, for as long as an
address is at work, why it went the way it went: the row it was given has the address
and is of use, or there is none, or a read failed; and that the list of files is that
of the header. With `RowsInv` the rows are those that the program means, and with
`WalkSites` a walk that has not come to an inlined call yet reports the row's file.

**CuRanges**, for every width of addresses, and units and functions with range
lists of any length, read by libdwarf entry by entry or given up on the way.
`IInv` says that the `base` in the loop is the one in force for the entry it has
come to (`IsBase`; `BaseUnique` shows that there is one), that the entries before
it are recorded and nothing else is, that the envelope holds what is recorded
(`Widened`), and what a failure leaves behind: no ranges and no upper bound, so
that the unit is tried for every address (`Complete`). `ListInv` adds the reading
before. `InlineTestCorrect` needs another one, `Tested`: after the scan `findInlined()`
goes through a function's list with the base that its own entries select, and an
answer once given stands. For `ListsCorrect`, `ReadTruly` says where the reader of
a list is: the base that it keeps is the one in force for the entry it comes to
(`BaseBehind`), unless an index led nowhere before, and then the list is not whole
(`FaultBeforeEnd`); the entries handed out so far are each that of the entry it was
read from, by the base in force there, and no range before the reader is missing.

**OfFile**, for every image, every list of addresses, and any number of failing
calls. `FieldsMatchHandles` says too little of the clean-up and of the place of
the code to be inductive: `HandleInv` adds which fields of `cu_info` each place
relies on (`Whereabouts`), that nothing but these handles is out (`HandlesKnown`),
and that the units kept are in file order (`InOrder`), so that no two of them free
the same table. `ReadsCounted` ties the number of reads to the field that says so;
a reading that fails sets the field, too, and that is why it is not repeated.
For the refinement, `PromiseInv` adds that `cu_info` is true to the image, and
without a failing call all there is to it (`Remembered`), and that the units
before the one at work cannot answer (`NoneMissed`). Then each step is one of
`StackReport` or leaves phase, number and callbacks alone: opening, giving up and
the start of the clean-up (`EdgesPromised`), an address passed on
(`AnswerPromised`), the callbacks of a unit (`ReportsPromised`), and everything
else (`SilentPromised`). The arithmetic of the base address wraps twice on the
way, which `PtrIsTarget` undoes. What `ReportsAsPromised` says beyond this, that
the call returns, is TLC's.

**PeAccess**, for every content of the three paths and any number of failing
calls, and for whatever is read while the image is open. `IInv` adds `BaseTaken`,
which says whose image base is stored while the file is still being opened: the
second attempt starts with the first one's. `RungsCount` ties the number of
resources held to the place in the code. That no step of the sections, the units
or the attributes touches the ladder is `ObjectStepPreserves`. For `OpensExpected`
the place of the code has to tell what the file tried is (`Tried`): an attempt that
unwinds has a file without debug information, the first attempt is that of the
image, and there is a second only for what the image leads to.

**UnitChain**, in the same module, for every list of units, also damaged ones.
`UnitsInTurn` compares the list with where each unit starts in the file, which is
where the one before it ends. That units therefore do not overlap is `StartsRise`,
the one induction, by the least unit that contradicts it. `Chained` says that the
list has the first units, that a context being made is that of the next one, and
that `de_last_offset` is never before the end of what the list has. The last of
these is the point: the code decides by it whether to go on from the list, and
moves it before the context is complete; `FindNext` shows that the unit it then
comes to is still the next.

`DiesAsWritten` is about what is found in those units. Its invariant, `Noted`, adds
three parts to `Chained`. `TablesHeld`: the table of each context, also of the one
that is being made, holds only abbreviations of its unit, each in the chain that its
code leads to, and all of those before the place where the reading goes on
(`TableFor`). A lookup fills the table, makes it larger and moves the entries over,
and may fail at any allocation; what it keeps and what it finds is `LookupKeeps`, by
way of the folds that the model is written with (`FoldExists`, `PushedHolds`,
`RehashedTyped`). `CallNoted`: the call is at a DIE of a unit that has a context, or
makes contexts on the way to one, and has not passed it (`FoundBehind`, `FoundAt`;
that no place is in two units is `OneUnit`). `NeedsNoted`: a section that could not be
loaded has been noted as a fault. On top of it `AnswerRead` says that a DIE handed out
is the right one, and `AnswerDue` that one that can be reached is handed out. For the
second, no step on the way may fail without a fault, and the reader of the unit's
attributes must not lose its place: `BytesTyped` and `ReadBack` have a number read as
it was written, `SizeRight` has the size of a value be that of its bytes,
`AllListed` that of a list of attributes, and `SoundFound` that the bases of a sound
unit are found. Assumed is what `IsUnit` and `IsRefs` say: a value fits in the bytes
that its form has, a string has no zero in it, and no two abbreviations of a unit have
the same code.

**SectionTable**, in the same module, for every list of section headers that a file
may have (`ListedAssumption`: it is a sequence of them). `OneEach` says of the
table after the first k headers that each name met is used, and that what is
entered for a name is its one section; it is carried through the loop by a least
counterexample (`SetUpOnce`). `Loading` has the table be that of the file's headers
as long as the image is open, and packed bytes stand as data only of a section
that could not be unpacked.

**ProcessGroups**, for any chain of frames and any modules, however often they
come and go. `IInv` adds `Forming`: the group being formed starts at the base of a
module; `Captured` says that the buffer is being filled with numbers while the
grouping has not begun. That no step of another thread can break it is the lemma
`OthersPreserve`; the code is safe because it keeps the base and asks for its
name, and never for the module of the first address again. `NothingLost` needs
more of the loop (`Kept`): while no module comes or goes, what is behind the loop is
in a group, and the group being formed has the addresses of one module, which the
next address is not in.

**StackCapture**, in the same module, for every chain of frames. Where a chain
leads to is a recursive function in the model; that it exists is shown by its
least counterexample (`HopsExist`). `Walked` says that the frame looked at is the
one the chain leads to after as many steps as there are calls in the trace, and
where the walk has ended; `Closed` ties the end of the trace to that of the
grouping, as the session of dbghelp is closed in between.

**ExceptionDialog**, with all of the above under it. `TextInv` has one text
allocated except between `free()` and the assignment, which is why `ShowsText`
leaves out crashes in there. `LinesInv` follows the callbacks of a group: those so
far are for addresses before the next one due (`InTurn`, `Current`), each number
is that of the lines for earlier addresses (`Counted`), each stack line has its
base as the last base line above it (`Headed`, `Remembers`), and each is of a group
(`AllPlaced`). That a group's name is mapped at its base as long as nothing has
changed comes from `Kept`. A number is a natural number and no number is none of
them (`NoneAssumption`).

**LeakDetector**, for any number of threads, addresses and blocks. `Accounting`
counts entries, live blocks, and threads between the heap and the table; it is
inductive only together with who may have a block at hand (`PlacesKnown`,
`Ownership`: a live block is the program's or that of one thread) and where each
place may be as long as memory has not run out (`Untroubled`). `LastEntryFound` and
`RemovedEntries` are the facts about the table: the search from the end finds an
entry if there is one, and taking it out by moving the last entry into its place
changes the count of one address only. `Alone` does for one thread what the table
cannot promise for several, that an entry is that of the block now at its address;
`TableAtExit` carries both to `endfunc()`, whose report `ReportSoFar` follows entry by
entry. Assumed are finitely many threads, and that no address is the null pointer.

**DwarfMemory**, for every set of addresses, every hash function, every list of
table sizes and any number of failing allocations. `MemInv` says that each key is
in one of the two tables while they are exchanged, in the slot it is looked for
in, once, and that the blocks tracked are blocks in use. The refinement follows
step by step; the steps that only move keys map to stutters. For the ring of
harmless errors `RingInv` adds its shape and that an empty list is one that nothing
went into; `PendingIs` says where its messages lie without the remainders of the
code, `InsertedIs` what one more does, and `InsertedAllIs` what a change of size does
with all of them, by a least counterexample, as `NewestAppend` lets the messages
that fell out be forgotten.

What is model-checked only:

* liveness, as the prover knows no fairness: `TraceEnds`, `EveryLookupEnds`, and the
  part of `ReportsAsPromised` that says that the call returns;
* `AttributesAsWritten`, the meaning of each value by its form. The lemmas under
  `DiesAsWritten` have what the attributes of a unit's DIE need; for those of others
  the layout of a DIE whose bytes are cut off, and the strings that offsets lead to,
  would have to be gone through in the same way. What a proof of it asks of the
  definitions is in them: a string may be the end of another one (`StringsAt`), a
  reference means a DIE of its unit only (`Meaning`), and `indirect` does not lead to
  a constant of the abbreviation (`IsUnit`); units with an offset into a string and
  with a reference just past the unit's end are among those of `OpenObject`.

Where a loop is compared with a definition that is recursive or folded over data, the
induction is by a least counterexample, as the library's theorems do not give it:
`StartsRise`, `HopsExist`, `InsertedAllIs`, `SetUpOnce`, `AfterSubtree`, `CountUp`.

## 5. Where code and documentation disagree

Each of these is a run that TLC must find violated.

* `line_end_flag`: a special opcode stores `lr_epilogue_begin` as the row's end of
  sequence as well (`dwarf_line_table_reader_common.h:1386`), so that the addresses
  behind it are not found.
* `inline_ranges_moved`: `findInlined()` takes `cuInfo->low` as the base of a
  function's range list. For a unit with ranges of its own `dwstOfFileExt()` has
  replaced that base by the lowest address of the ranges by then.
* `attribute_sizes`: `DW_FORM_addrx3` and `DW_FORM_strx3` are passed over as four
  bytes, though they are read as three.
* `pe_access_null_error`: `dwarf_object_init_b()` evaluates `*error` although its
  comment expects a null pointer, which is what `dwstOfFileExt()` passes.
* `leak_origin`: with `LEAKS_THREAD` the table can blame the wrong allocation,
  since the heap is used outside of the mutex.

Seen while modelling; the models contain these behaviours where they are within
their scope, and the properties are stated so as to allow them.

In dwarfstack:

* An address that has a line but lies in no function (an assembler source has no
  DIE for one) is reported neither with its line nor with `DWST_NOT_FOUND`
  (`src/dwst-file.c:716`), and so gets no number in the dialog. `StackReport`
  promises no more than the code does.
* The file index of a row is tested with `<= fileCount` (`src/dwst-file.c:718`);
  the files that a program adds with `DW_LNE_define_file` are missing from that
  list, so that an index just past it can occur.
* A crash within the second `dwstExceptionDialog()`, after the old text is freed
  and before the new one is stored (`src/dwst-exception-dialog.c:358`), finds a
  text that has been freed. `ShowsText` speaks of crashes outside of that call.
* If a module is replaced by another at the same base between two groups of a
  report, the line with the base address and the new name is not printed.
  `LinesInOrder` asks for the name only if nothing has changed.
* `inited` is read outside of the mutex (`leaks.i:194`). With threads, and after
  the table has failed to grow, an entry may stay whose block was released:
  `ReportSound` excludes exactly that combination.
* After the table was given up, an exception sets `inited` to 2 and tracking goes
  on; after an exception, giving the table up sets it back to 0 and the report at
  exit says that nothing was leaked. `endfunc()` deletes the mutex while other
  threads may still use it. The `j--` in its grouping examines an entry again to
  no effect.

In libdwarf, line tables: a chain entry that cannot be allocated leads past the end of
the chain (`dwarf_line_table_reader_common.h:1411`; the model stops there);
the path with `FISSION_ADDITION_ERROR` loses the attribute; `dwarf_srcfiles()`
keeps what it has on its error paths; `DW_LNS_advance_pc` leaves `op_index` alone
on machines with more than one operation per instruction.

In libdwarf, units and abbreviations: an abbreviation lookup that fails does not store
how far it read, so that entries are made twice and counted twice; a damaged
abbreviation gives an error once and none afterwards; an early return leaves
`*highest_known_code` unset against its comment; a comment still speaks of a head
and a tail pointer. `dwarf_siblingof_b()` without a context returns
`DW_DLV_ERROR` without an error. A unit's DIE without attributes is said to have
no children.

In libdwarf, attributes: `dwarf_highpc_b()` looks up the address of an indexed form and
then reads `address_size` bytes from the DIE instead; `dwarf_lowpc()` resolves
`addrx` only and reads `addrx1` to `addrx4` as plain addresses; `dwarf_attrlist()`
refuses an attribute of no size at the very end of a section, while
`_dwarf_get_value_ptr()` does not, and does not compare sizes with the unit's end;
the two read `implicit_const` behind `indirect`, which DWARF forbids, differently;
`dwarf_global_formref_b()` reads `rnglistx` with the size of an offset;
`dwarf_get_form_class()` lacks `strx4`; `_dwarf_extract_address_from_debug_addr()`
and the trial header of .debug_str_offsets evaluate `*error` although it may be
null (the model stops there, `upc = "crashed"`); `dwarf_die_text()` turns errors
into "no entry" and keeps their record; `cc_str_offsets_offset_size` stays 0, so
that the test of the end is weaker than meant. `AttributesAsWritten` is about units
and DIEs without these forms in these places (`WellFormed`, `Proper` and `Sound` in
`UnitChain`).

In libdwarf, ranges and sections: an index outside .debug_addr makes every later index of the same
list fail, and one in a `startx` entry drops the whole list; a list without its
end is read one byte past the section. A section that could not be unpacked is
handed out as its packed bytes by the next load (`dwarf_init_finish.c:1846`);
`_dwarf_load_debug_info()` reports success on a second call without the sections
that failed to load; an allocation that fails for the groups is taken for "no
entry"; `.zdebug_*.dwo` is not among the names; two sections are not freed that
were allocated.

In libdwarf, memory and errors: "If the reallocation fails the list size is left unchanged" is
said of the harmless errors, whose size becomes 0; `if (want_delete)` in
`tsearch_inner()` tests a constant; the chain entries of a table that is given up
are lost; `_dwarf_frame_instr_destructor()` frees blocks while the table is being
destroyed; the error record of last resort keeps the message of the one before;
the comment on strings in `_dwarf_get_debug()` does not describe what is tracked.

## 6. Not modelled, and why

`map` covers about a seventh of the lines under `src/`. The bulk of the rest is
never called by dwarfstack (the names of constants, frame sections, location
lists, macros, .gdb_index and .debug_names, ELF and Mach-O readers), is a header of
constants, or is zlib.

* Split DWARF, type units, tied objects, groups of sections and relocation: an
  image for Windows has none of them; 64-bit DWARF.
* zlib: third-party; a section unpacks or does not.
* Attributes that dwarfstack does not ask for: blocks, location expressions,
  signatures, and their accessors.
* The printing variants of the readers, and records of errors of last resort.
* Links of abstract origins that form a cycle, `MAX_PATH`, the overflow in
  `calloc()`: listed as hazards with the reason.
* dbghelp's session as shared state of two crashing threads: the library says
  nothing about it. Blocks that a program allocates before the leak detector
  starts, and a thread that is ended inside its mutex.
* Wording and layout of what is printed, window handling, demangling, the
  conversion between ANSI and wide strings, the example programs.

## 7. Plan

Order of work, the most important behaviour first:

1. (done) The way from an address to its report: `LineLookup`, `CuRanges`,
   `InlineWalk`, `OfFile` with `StackReport`.
2. (done) The modules around it: `ProcessGroups`, `PeAccess`, `StackCapture`,
   `ExceptionDialog`, `LeakDetector`, and their composition in `CrashReport`.
3. (done) libdwarf where it keeps state: allocations, harmless errors, line
   programs, units, abbreviations, sections; and where the meaning of bytes is
   decided: attributes, range lists, entries. Their composition in
   `AddressLookup`, `RangeLists` and `OpenObject`.
4. (done) Proofs for `LineLookup`, `CuRanges`, `PeAccess`, `ProcessGroups` and
   `DwarfMemory`, each about the specification that its run checks.
5. (done) Proofs for `OfFile` with the refinement of `StackReport`, `LeakDetector`,
   `LineReader` (`ReaderReleases`), `RangeLists` (`ListsAsWritten`), `UnitChain`
   (`UnitsInTurn`), `SectionTable`, `HarmlessErrors`, `StackCapture` and
   `ExceptionDialog`, and the properties that were left of `PeAccess` and
   `ProcessGroups`.
6. (done) Proofs for `DieStream` and `InlineWalk` (`HandlesMatchRecursion`,
   `FramesAreEnclosing`, `LocationsChain`).
7. (done) Proofs for what follows recursive definitions and folds: `RowsAsMeant`,
   `AnswersAsMeant` and `DiesAsWritten`. `AttributesAsWritten` is left.
8. Modelling that is left: the header of a unit field by field, 64-bit DWARF, and
   a composition of `OfFile` with the units that `UnitChain` delivers.
