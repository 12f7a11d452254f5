---------------------------- MODULE LeakDetector -----------------------------
(***************************************************************************)
(* The leak detector (examples/leak-detector/inc/leaks.i): malloc(),       *)
(* free() and realloc() of a program are wrapped, and every block is       *)
(* entered into a table together with where it was allocated; at exit the  *)
(* table says what was leaked, by the call that allocated it.  The table   *)
(* is guarded by a mutex, but the heap is changed outside of it: ALLOC     *)
(* follows the allocation, FREE the release.  The program releases what it *)
(* holds, once; where blocks are guarded by a page of their own it may     *)
(* touch such a page, and exceptionWalker() says of which block it is.     *)
(***************************************************************************)
EXTENDS Naturals, Sequences, FiniteSets

CONSTANTS
  Threads,
  Addrs,      \* the places of the heap
  Growth,     \* how many entries the table grows by
  MaxBlocks,  \* bound: how many blocks are allocated
  MaxFaults,  \* bound: how often there is no memory
  Site,       \* of each block: the flag and the stack of its allocation
  None        \* NULL

ASSUME SizesAssumption ==
  Growth \in Nat \ {0} /\ MaxBlocks \in Nat /\ MaxFaults \in Nat
ASSUME SiteAssumption == DOMAIN Site = 1 .. MaxBlocks
ASSUME ThreadsAssumption == IsFiniteSet(Threads)
ASSUME NoneAssumption == None \notin Addrs

VARIABLES
  program,  \* the threads that the program runs
  protect,  \* LEAKS_PROTECT: blocks are pages of their own
  heap,     \* the block at each address, known by its number; 0 is none
  blocks,   \* the number of blocks allocated so far
  own,      \* the addresses the program holds
  inited,   \* 1 if blocks are tracked, 2 if so but not to be reported
  alloc_a, alloc_s,  \* the table, and what it has room for
  pc, b, nb,  \* of each thread: where it is, the block at hand, the new block
  i, flagged, \* endfunc(): the entry at hand, and those not counted yet
  reported, \* what it reports as leaked: groups of the table's entries
  blamed,   \* the entry that exceptionWalker() names, if any
  alarm,    \* history: a release of a block that was not found
  faults    \* history: how often there was no memory

vars == <<program, protect, heap, blocks, own, inited, alloc_a, alloc_s, pc, b, nb,
          i, flagged, reported, blamed, alarm, faults>>
inputs == <<program, protect>>
memory == <<inputs, heap, blocks>>
report == <<i, flagged, reported>>
output == <<report, blamed>>
tracking == <<inited, alloc_a, alloc_s, alarm>>

alloc_q == Len(alloc_a)
Fail == faults < MaxFaults /\ faults' = faults + 1

Goto(t, l) == pc' = [pc EXCEPT ![t] = l]
IsAt(t, l) == pc[t] = l

Init ==
  /\ program \in (SUBSET Threads) \ {{}} /\ protect \in BOOLEAN
  /\ heap = [a \in Addrs |-> 0] /\ blocks = 0 /\ own = {}
  /\ inited \in (IF protect THEN {1, 2} ELSE {0, 1}) /\ alloc_a = <<>> /\ alloc_s = 0
  /\ pc = [t \in Threads |-> "idle"]
  /\ b = [t \in Threads |-> None] /\ nb = [t \in Threads |-> None]
  /\ i = 0 /\ flagged = {} /\ reported = <<>> /\ blamed = {} /\ alarm = FALSE /\ faults = 0

-----------------------------------------------------------------------------
(* The heap: __real_malloc() and its like, VirtualAlloc() and VirtualFree(). *)

\* A new block at address a, which no block occupies in map h.
NewBlock(h, a) ==
  /\ blocks < MaxBlocks
  /\ h[a] = 0
  /\ blocks' = blocks + 1
  /\ heap' = [h EXCEPT ![a] = blocks']

Without(a) == [heap EXCEPT ![a] = 0]

-----------------------------------------------------------------------------
(* ALLOC and FREE                                                          *)

\* What is left of a wrapper when the program gets its result.
Finish(t, result) ==
  /\ Goto(t, "idle")
  /\ own' = own \cup ({result} \ {None})
  /\ b' = [b EXCEPT ![t] = None] /\ nb' = [nb EXCEPT ![t] = None]

\* inited is looked at before the mutex is taken.
AllocCheck(t) ==
  /\ IsAt(t, "alloc_check")
  /\ IF inited # 0
       THEN Goto(t, "alloc") /\ UNCHANGED <<own, b, nb>>
       ELSE Finish(t, nb[t])
  /\ UNCHANGED <<memory, tracking, output, faults>>

\* The table grows if it is full, and the block is entered at its end.
Alloc(t) ==
  /\ IsAt(t, "alloc")
  /\ alloc_s' = IF alloc_q >= alloc_s THEN alloc_s + Growth ELSE alloc_s
  /\ alloc_a' = Append(alloc_a, [ptr |-> nb[t], id |-> heap[nb[t]]])
  /\ Finish(t, nb[t])
  /\ UNCHANGED <<memory, inited, alarm, output, faults>>

\* A table that is given up with its entries in place.
AllocGivesUpKeeping(t) ==
  /\ IsAt(t, "alloc")
  /\ alloc_q >= alloc_s /\ Fail
  /\ inited' = 0
  /\ Finish(t, nb[t])
  /\ UNCHANGED <<memory, alloc_a, alloc_s, alarm, output>>

\* The table cannot grow: it is thrown away and tracking ends.
AllocGivesUp(t) ==
  /\ IsAt(t, "alloc")
  /\ alloc_q >= alloc_s /\ Fail
  /\ alloc_a' = <<>> /\ alloc_s' = 0 /\ inited' = 0
  /\ Finish(t, nb[t])
  /\ UNCHANGED <<memory, alarm, output>>

\* After FREE the wrapper of realloc() goes on with the new block, if any.
AfterFree(t, keeps) ==
  IF nb[t] # None
    THEN Goto(t, "alloc_check") /\ UNCHANGED <<own, b, nb>>
    ELSE Finish(t, keeps)

\* realloc() has failed: the program still holds the block.
Kept(t) == IF pc[t] \in {"keep_check", "keep"} THEN b[t] ELSE None

FreeCheck(t) ==
  /\ pc[t] \in {"free_check", "keep_check"}
  /\ IF inited # 0
       THEN Goto(t, IF IsAt(t, "free_check") THEN "free" ELSE "keep") /\ UNCHANGED <<own, b, nb>>
       ELSE AfterFree(t, Kept(t))
  /\ UNCHANGED <<memory, tracking, output, faults>>

\* The last entry for an address, or 0.
LastEntry(a) ==
  LET es == {k \in 1 .. alloc_q : alloc_a[k].ptr = a}
  IN IF es = {} THEN 0 ELSE CHOOSE k \in es : \A l \in es : l <= k

\* A table that is shortened without filling the gap.
FreeDropsLast(t) ==
  /\ pc[t] \in {"free", "keep"}
  /\ IF LastEntry(b[t]) # 0
       THEN /\ alloc_a' = SubSeq(alloc_a, 1, alloc_q - 1)
            /\ UNCHANGED alarm
       ELSE alarm' = TRUE /\ UNCHANGED alloc_a
  /\ AfterFree(t, Kept(t))
  /\ UNCHANGED <<memory, inited, alloc_s, output, faults>>

\* The entry is searched from the end, and the table's last one takes its
\* place; without one the release is reported as wrong.
Free(t) ==
  /\ pc[t] \in {"free", "keep"}
  /\ LET k == LastEntry(b[t])
     IN IF k # 0
          THEN /\ alloc_a' = SubSeq([alloc_a EXCEPT ![k] = alloc_a[alloc_q]], 1, alloc_q - 1)
               /\ UNCHANGED alarm
          ELSE alarm' = TRUE /\ UNCHANGED alloc_a
  /\ AfterFree(t, Kept(t))
  /\ UNCHANGED <<memory, inited, alloc_s, output, faults>>

-----------------------------------------------------------------------------
(* The wrappers.                                                           *)

\* __wrap_malloc(), __wrap_calloc(), __wrap_strdup(), operator new
Malloc(t, a) ==
  /\ IsAt(t, "idle")
  /\ NewBlock(heap, a)
  /\ nb' = [nb EXCEPT ![t] = a]
  /\ Goto(t, "alloc_check")
  /\ UNCHANGED <<inputs, own, b, tracking, output, faults>>

\* __wrap_free(), operator delete; realloc() to no size does the same
BeginFree(t, a) ==
  /\ IsAt(t, "idle")
  /\ a \in own
  /\ own' = own \ {a}
  /\ b' = [b EXCEPT ![t] = a]
  /\ Goto(t, IF protect THEN "size" ELSE "release")
  /\ UNCHANGED <<memory, nb, tracking, output, faults>>

\* protect_free_m(): a block that is not in the table is not released.
GetSize(t) ==
  /\ IsAt(t, "size")
  /\ Goto(t, IF LastEntry(b[t]) # 0 THEN "release" ELSE "free_check")
  /\ UNCHANGED <<memory, own, b, nb, tracking, output, faults>>

Release(t) ==
  /\ IsAt(t, "release")
  /\ heap' = Without(b[t])
  /\ Goto(t, "free_check")
  /\ UNCHANGED <<inputs, blocks, own, b, nb, tracking, output, faults>>

\* A wrapper that only enters the new block.
ReallocKeepsEntry(t, a, a2) ==
  /\ ~protect
  /\ IsAt(t, "idle")
  /\ a \in own
  /\ NewBlock(Without(a), a2)
  /\ own' = own \ {a}
  /\ nb' = [nb EXCEPT ![t] = a2]
  /\ Goto(t, "alloc_check")
  /\ UNCHANGED <<inputs, tracking, b, output, faults>>

\* __wrap_realloc(): the block is resized in place or moved.
Realloc(t, a, a2) ==
  /\ ~protect
  /\ IsAt(t, "idle")
  /\ a \in own
  /\ NewBlock(Without(a), a2)
  /\ own' = own \ {a}
  /\ b' = [b EXCEPT ![t] = a] /\ nb' = [nb EXCEPT ![t] = a2]
  /\ Goto(t, "free_check")
  /\ UNCHANGED <<inputs, tracking, output, faults>>

\* It cannot be: NULL is returned and the block stays.
ReallocFails(t, a) ==
  /\ IsAt(t, "idle")
  /\ a \in own
  /\ \/ Fail
     \/ protect /\ LastEntry(a) = 0 /\ UNCHANGED faults
  /\ own' = own \ {a}
  /\ b' = [b EXCEPT ![t] = a]
  /\ Goto(t, "keep_check")
  /\ UNCHANGED <<memory, nb, tracking, output>>

\* protect_realloc(): a new block is made, and the old one is released.
ProtectRealloc(t, a, a2) ==
  /\ protect
  /\ IsAt(t, "idle")
  /\ a \in own
  /\ LastEntry(a) # 0
  /\ NewBlock(heap, a2)
  /\ own' = own \ {a}
  /\ b' = [b EXCEPT ![t] = a] /\ nb' = [nb EXCEPT ![t] = a2]
  /\ Goto(t, "size")
  /\ UNCHANGED <<inputs, tracking, output, faults>>

-----------------------------------------------------------------------------
(* exceptionWalker()                                                       *)

InHandler(t) == pc[t] \in {"explain", "explained", "dying"}

\* A thread touches the guard page of a block it uses, or there is another
\* exception (None); one exception is looked at.
Fault(t) ==
  /\ protect
  /\ IsAt(t, "idle") /\ ~ \E u \in Threads : InHandler(u)
  /\ \E a \in own \cup {None} : own' = own \ {a} /\ b' = [b EXCEPT ![t] = a]
  /\ Goto(t, "explain")
  /\ UNCHANGED <<memory, nb, tracking, output, faults>>

\* A search that stops before the table's first entry.
ExplainAboveFirst(t) ==
  /\ IsAt(t, "explain")
  /\ blamed' = {alloc_a[k] : k \in {LastEntry(b[t])} \ {0, 1}}
  /\ Goto(t, "explained")
  /\ UNCHANGED <<memory, own, b, nb, tracking, report, faults>>

\* The block behind or before which the page lies is searched from the end.
Explain(t) ==
  /\ IsAt(t, "explain")
  /\ blamed' = {alloc_a[k] : k \in {LastEntry(b[t])} \ {0}}
  /\ Goto(t, "explained")
  /\ UNCHANGED <<memory, own, b, nb, tracking, report, faults>>

\* Outside of the mutex: nothing is to be reported at exit.
LeaveHandler(t) ==
  /\ IsAt(t, "explained")
  /\ inited' = 2
  /\ Goto(t, "dying")
  /\ UNCHANGED <<memory, own, b, nb, alloc_a, alloc_s, alarm, output, faults>>

-----------------------------------------------------------------------------
(* endfunc()                                                               *)

\* The program ends when its threads have done, or by the exception, wherever
\* the other threads are.
Exit ==
  /\ \/ \A t \in Threads : IsAt(t, "idle")
     \/ \E t \in Threads : IsAt(t, "dying")
  /\ alloc_a' = IF inited = 2 THEN <<>> ELSE alloc_a
  /\ i' = 1 /\ flagged' = 1 .. Len(alloc_a')
  /\ pc' = [t \in Threads |-> "exiting"]
  /\ UNCHANGED <<memory, own, inited, alloc_s, alarm, b, nb, reported, blamed, faults>>

Exiting == \A t \in Threads : IsAt(t, "exiting")

\* The flagged entries from entry i on with its flag and stack.
Same == {k \in flagged : k >= i /\ Site[alloc_a[k].id] = Site[alloc_a[i].id]}
SameGroup ==
  [site |-> Site[alloc_a[i].id], nmb |-> Cardinality(Same), of |-> {alloc_a[k] : k \in Same}]

\* A report that does not clear the flags of what it has counted.
ReportKeepsFlags ==
  /\ Exiting
  /\ i <= alloc_q
  /\ i' = i + 1 /\ flagged' = flagged \ {i}
  /\ reported' = IF i \in flagged THEN Append(reported, SameGroup) ELSE reported
  /\ UNCHANGED <<memory, own, tracking, pc, b, nb, blamed, faults>>

\* Entry i, unless an entry before it has taken it along, takes along those
\* behind it that have the same flag and stack, and clears their flags.
Report ==
  /\ Exiting
  /\ i <= alloc_q
  /\ i' = i + 1
  /\ IF i \in flagged
       THEN reported' = Append(reported, SameGroup) /\ flagged' = flagged \ Same
       ELSE UNCHANGED <<reported, flagged>>
  /\ UNCHANGED <<memory, own, tracking, pc, b, nb, blamed, faults>>

\* The table is thrown away.
EndReport ==
  /\ Exiting
  /\ i > alloc_q
  /\ alloc_a' = <<>> /\ alloc_s' = 0
  /\ pc' = [t \in Threads |-> "exited"]
  /\ UNCHANGED <<memory, own, inited, alarm, b, nb, output, faults>>

Step(t) ==
  \/ AllocCheck(t) \/ Alloc(t) \/ AllocGivesUp(t) \/ FreeCheck(t) \/ Free(t)
  \/ GetSize(t) \/ Release(t) \/ Fault(t) \/ Explain(t) \/ LeaveHandler(t)
  \/ \E a \in Addrs : Malloc(t, a) \/ BeginFree(t, a) \/ ReallocFails(t, a)
  \/ \E a, a2 \in Addrs : Realloc(t, a, a2) \/ ProtectRealloc(t, a, a2)
Next == Exit \/ Report \/ EndReport \/ \E t \in program : Step(t)

Spec == Init /\ [][Next]_vars

-----------------------------------------------------------------------------

EntryOf == [ptr : Addrs, id : 1 .. MaxBlocks]
GroupOf == [site : {Site[n] : n \in 1 .. MaxBlocks}, nmb : Nat \ {0}, of : SUBSET EntryOf]
Places == {"idle", "alloc_check", "alloc", "free_check", "free", "keep_check", "keep",
           "size", "release", "explain", "explained", "dying", "exiting", "exited"}

\* The variables' types; the table is never fuller than there is room.
TypeOK ==
  /\ heap \in [Addrs -> 0 .. MaxBlocks] /\ blocks \in 0 .. MaxBlocks
  /\ own \subseteq Addrs
  /\ inited \in 0 .. 2 /\ alloc_a \in Seq(EntryOf) /\ alloc_s \in Nat /\ alloc_q <= alloc_s
  /\ pc \in [Threads -> Places]
  /\ b \in [Threads -> Addrs \cup {None}] /\ nb \in [Threads -> Addrs \cup {None}]
  /\ i \in Nat /\ flagged \subseteq 1 .. alloc_q
  /\ reported \in Seq(GroupOf) /\ blamed \in SUBSET EntryOf
  /\ alarm \in BOOLEAN /\ faults \in 0 .. MaxFaults

Entries(a) == Cardinality({k \in 1 .. alloc_q : alloc_a[k].ptr = a})

\* The threads that have allocated, or released, a and not said so yet.
Announcing(a) == {t \in Threads : nb[t] = a}
Withdrawing(a) ==
  {t \in Threads : b[t] = a /\ pc[t] \in {"free_check", "free"}}

Live(a) == IF heap[a] # 0 THEN 1 ELSE 0

OneThread == Cardinality(program) = 1
Running == \A t \in Threads : pc[t] \notin {"exiting", "exited"}
Exited == \A t \in Threads : IsAt(t, "exited")

\* The entries in the report.
Reported == UNION {reported[g].of : g \in DOMAIN reported}

\* However the threads' steps fall between each other's, also while an exception
\* is handled and after it, the table holds as many entries for an address as
\* there are blocks, plus the releases and less the allocations that are still
\* to be entered; so nothing is lost or left, the table has room for them, and a
\* program that releases what it holds, once, is never accused of releasing
\* something else.
Accounting ==
  /\ TypeOK
  /\ faults = 0 => ~alarm
  /\ (inited # 0 /\ faults = 0 /\ Running) =>
       \A a \in Addrs :
         Entries(a) + Cardinality(Announcing(a)) = Live(a) + Cardinality(Withdrawing(a))

\* What is reported as leaked was not released, not even if the table was
\* given up for want of memory; with threads, as long as it was not.  Without
\* threads it is reported with the call that allocated it.
ReportSound ==
  \A e \in Reported :
    /\ (OneThread \/ faults = 0) => heap[e.ptr] # 0
    /\ OneThread => e.id = heap[e.ptr]

\* Unless memory ran out or there was an exception, every block that was leaked
\* is counted once, in the one group of its flag and stack.
ReportComplete ==
  (Exited /\ inited = 1 /\ faults = 0) =>
    /\ {e.ptr : e \in Reported} = {a \in Addrs : heap[a] # 0}
    /\ \A g \in DOMAIN reported :
         /\ reported[g].nmb = Cardinality({e.ptr : e \in reported[g].of})
         /\ \A h \in DOMAIN reported : reported[h].site = reported[g].site => h = g

\* If a guard page is touched while the block is in use, the block is found,
\* however the other threads go on; without threads it is also named with the
\* call that allocated it.
BlameFindsBlock ==
  \A t \in Threads : (pc[t] \in {"explained", "dying"} /\ b[t] # None) =>
    /\ faults = 0 => \E e \in blamed : e.ptr = b[t]
    /\ OneThread => \A e \in blamed : e.id = heap[b[t]]

-----------------------------------------------------------------------------
(* A statement of the documentation that the code does not keep.           *)

\* With LEAKS_THREAD the report is as good as it is without threads.
ReportsOriginOfThreads == \A e \in Reported : e.id = heap[e.ptr]

=============================================================================
