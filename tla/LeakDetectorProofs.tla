-------------------------- MODULE LeakDetectorProofs ---------------------------
(***************************************************************************)
(* For any number of threads, addresses and blocks: the leak detector's    *)
(* table agrees with the heap, and its reports are right.                  *)
(***************************************************************************)
EXTENDS LeakDetector, FiniteSetTheorems, TLAPS

-----------------------------------------------------------------------------
(* Who has which block.                                                    *)

\* Where a thread has a live block at hand.
HoldPlaces == {"size", "release", "keep_check", "keep", "explain", "explained", "dying"}
Holds(t, a) == pc[t] \in HoldPlaces /\ b[t] = a

\* Where a thread may have made a new block, and where it has one to release.
NewPlaces == {"alloc_check", "alloc", "size", "release", "free_check", "free"}

\* What a thread has at hand goes with its place.
InPlace(t) ==
  /\ nb[t] # None => pc[t] \in NewPlaces
  /\ b[t] = None => pc[t] \in {"idle", "alloc_check", "alloc", "explain", "explained", "dying"}
  /\ pc[t] \in {"alloc_check", "alloc"} => nb[t] # None
  /\ pc[t] = "idle" => b[t] = None
  /\ InHandler(t) => protect

\* Threads that the program does not run do nothing; all of them end together.
PlacesKnown ==
  /\ program \subseteq Threads /\ program # {} /\ protect \in BOOLEAN
  /\ Running \/ Exiting \/ Exited
  /\ Running => \A t \in Threads \ program : pc[t] = "idle"
  /\ Running => \A t \in Threads : InPlace(t)
  /\ \A t, u \in Threads : InHandler(t) /\ InHandler(u) => t = u

\* A block that the program holds, or a thread has at hand, is live and no one else's.
OwnedOnce(a) ==
  /\ a \in own => heap[a] # 0 /\ \A u \in Threads : ~ Holds(u, a) /\ nb[u] # a
  /\ \A u \in Threads :
       /\ Holds(u, a) => heap[a] # 0 /\ \A v \in Threads : nb[v] # a /\ (Holds(v, a) => u = v)
       /\ nb[u] = a => heap[a] # 0 /\ \A v \in Threads : nb[v] = a => u = v

Ownership == Running => \A a \in Addrs : OwnedOnce(a)

\* As long as memory has not run out.
Untroubled ==
  faults = 0 =>
    /\ ~alarm
    /\ protect => inited # 0
    /\ Running /\ inited = 0 => alloc_a = <<>>
    /\ \A t \in Threads :
         /\ pc[t] \notin {"keep_check", "keep"}
         /\ pc[t] = "dying" => inited = 2
         /\ inited = 0 => pc[t] \notin {"alloc", "free"}

\* The table agrees with the heap.
Balance ==
  (inited # 0 /\ faults = 0 /\ Running) =>
    \A a \in Addrs :
      Entries(a) + Cardinality(Announcing(a)) = Live(a) + Cardinality(Withdrawing(a))

-----------------------------------------------------------------------------
(* What is blamed and reported.                                            *)

\* The entry of a block that the thread has released.
Stale(e) == \E t \in program : pc[t] \in {"free_check", "free"} /\ b[t] = e.ptr

\* Without threads each entry is that of the block at its address.
Alone ==
  (OneThread /\ Running) =>
    /\ \A k, l \in 1 .. alloc_q : alloc_a[k].ptr = alloc_a[l].ptr => k = l
    /\ \A k \in 1 .. alloc_q :
         \/ Stale(alloc_a[k])
         \/ heap[alloc_a[k].ptr] # 0 /\ alloc_a[k].id = heap[alloc_a[k].ptr]
    /\ \A t \in program, k \in 1 .. alloc_q :
         nb[t] = alloc_a[k].ptr => pc[t] \in {"free_check", "free"} /\ b[t] = nb[t]
    /\ inited = 0 => alloc_a = <<>> /\ \A t \in program : pc[t] # "alloc"

\* What endfunc() finds in the table.
TableAtExit ==
  Exiting =>
    /\ \A k \in 1 .. alloc_q :
         /\ OneThread \/ faults = 0 => heap[alloc_a[k].ptr] # 0
         /\ OneThread => alloc_a[k].id = heap[alloc_a[k].ptr]
    /\ inited = 1 /\ faults = 0 =>
         /\ \A k, l \in 1 .. alloc_q : alloc_a[k].ptr = alloc_a[l].ptr => k = l
         /\ \A a \in Addrs : heap[a] # 0 => \E k \in 1 .. alloc_q : alloc_a[k].ptr = a

\* What endfunc() has reported so far.
ReportSoFar ==
  /\ Running => reported = <<>> /\ flagged = {}
  /\ Exiting =>
       /\ i >= 1 /\ flagged \subseteq i .. alloc_q
       /\ Reported = {alloc_a[k] : k \in 1 .. alloc_q \ flagged}
       /\ \A g \in DOMAIN reported, k \in flagged : Site[alloc_a[k].id] # reported[g].site
       /\ inited = 1 /\ faults = 0 =>
            \A g \in DOMAIN reported : reported[g].nmb = Cardinality({e.ptr : e \in reported[g].of})
  /\ \A g, h \in DOMAIN reported : reported[h].site = reported[g].site => h = g

LeakInv ==
  /\ TypeOK /\ PlacesKnown /\ Ownership /\ Untroubled /\ Balance
  /\ Alone /\ BlameFindsBlock /\ TableAtExit /\ ReportSoFar /\ ReportSound /\ ReportComplete

-----------------------------------------------------------------------------
(* The table.                                                              *)

\* A set of positions has a last one.
LEMMA Greatest ==
  ASSUME NEW n \in Nat, NEW S \in SUBSET (1 .. n), S # {}
  PROVE  \E k \in S : \A l \in S : l <= k
  <1> DEFINE T == {m \in Nat : n - m \in S}
  <1>1. T \subseteq Nat /\ T # {}
    <2>1. PICK k \in S : TRUE
      OBVIOUS
    <2>2. n - k \in Nat /\ n - (n - k) = k
      BY <2>1
    <2>3. QED
      BY <2>1, <2>2
  <1>2. PICK m \in T : \A l \in T : ~ (<<l, m>> \in OpToRel(<, Nat))
    <2> HIDE DEF T
    <2>1. QED
      BY <1>1, NatLessThanWellFounded, WFMin
  <1>3. \A l \in T : ~ (l < m)
    BY <1>1, <1>2 DEF OpToRel
  <1>4. \A l \in S : l <= n - m
    <2> SUFFICES ASSUME NEW l \in S PROVE l <= n - m
      OBVIOUS
    <2>1. n - l \in T
      <3>1. n - l \in Nat /\ n - (n - l) = l
        OBVIOUS
      <3>2. QED
        BY <3>1
    <2>2. QED
      BY <1>3, <2>1
  <1>5. QED
    BY <1>2, <1>4

\* LastEntry() is the last entry for an address, if there is one.
LEMMA LastEntryFound ==
  ASSUME alloc_a \in Seq(EntryOf), NEW a
  PROVE  /\ LastEntry(a) \in 0 .. alloc_q
         /\ LastEntry(a) = 0 <=> \A k \in 1 .. alloc_q : alloc_a[k].ptr # a
         /\ LastEntry(a) # 0 =>
              /\ alloc_a[LastEntry(a)].ptr = a
              /\ \A l \in 1 .. alloc_q : alloc_a[l].ptr = a => l <= LastEntry(a)
  <1> DEFINE es == {k \in 1 .. alloc_q : alloc_a[k].ptr = a}
  <1>1. alloc_q \in Nat
    BY DEF alloc_q
  <1>2. LastEntry(a) = IF es = {} THEN 0 ELSE CHOOSE k \in es : \A l \in es : l <= k
    BY DEF LastEntry
  <1>3. CASE es = {}
    BY <1>1, <1>2, <1>3
  <1>4. CASE es # {}
    <2>1. \E k \in es : \A l \in es : l <= k
      BY <1>1, <1>4, Greatest
    <2>2. LastEntry(a) \in es /\ \A l \in es : l <= LastEntry(a)
      <3> HIDE DEF es
      <3>1. QED
        BY <1>2, <1>4, <2>1
    <2>3. QED
      BY <2>2, <1>1
  <1>5. QED
    BY <1>3, <1>4

\* The entries of a table for an address.
At(s, a) == {k \in 1 .. Len(s) : s[k].ptr = a}

\* They can be counted.
LEMMA AtFinite ==
  ASSUME NEW s \in Seq(EntryOf), NEW a
  PROVE  IsFiniteSet(At(s, a)) /\ Cardinality(At(s, a)) \in Nat
  <1>1. IsFiniteSet(1 .. Len(s))
    BY FS_Interval
  <1>2. At(s, a) \in SUBSET (1 .. Len(s))
    BY DEF At
  <1>3. QED
    BY <1>1, <1>2, FS_Subset, FS_CardinalityType

\* An entry more.
LEMMA AtAppend ==
  ASSUME NEW s \in Seq(EntryOf), NEW e \in EntryOf, NEW a
  PROVE  /\ Append(s, e) \in Seq(EntryOf) /\ Len(Append(s, e)) = Len(s) + 1
         /\ \A k \in 1 .. Len(s) : Append(s, e)[k] = s[k]
         /\ Append(s, e)[Len(s) + 1] = e
         /\ Cardinality(At(Append(s, e), a)) =
              Cardinality(At(s, a)) + (IF e.ptr = a THEN 1 ELSE 0)
  <1> DEFINE r == Append(s, e)
             n == Len(s) + 1
  <1>1. /\ r \in Seq(EntryOf) /\ Len(r) = n /\ Len(s) \in Nat
        /\ \A k \in 1 .. Len(s) : r[k] = s[k]
        /\ r[n] = e
    OBVIOUS
  <1>2. At(r, a) = IF e.ptr = a THEN At(s, a) \cup {n} ELSE At(s, a)
    <2> HIDE DEF r
    <2>1. QED
      BY <1>1 DEF At
  <1>3. n \notin At(s, a)
    BY <1>1 DEF At
  <1>4. IsFiniteSet(At(s, a)) /\ Cardinality(At(s, a)) \in Nat
    BY AtFinite
  <1>5. Cardinality(At(s, a) \cup {n}) = Cardinality(At(s, a)) + 1
    BY <1>3, <1>4, FS_AddElement
  <1>6. Cardinality(At(r, a)) = Cardinality(At(s, a)) + (IF e.ptr = a THEN 1 ELSE 0)
    <2> HIDE DEF r, n
    <2>1. QED
      BY <1>2, <1>4, <1>5
  <1>7. QED
    BY <1>1, <1>6

\* An entry less: the last one takes the place of entry k.
Removed(s, k) == SubSeq([s EXCEPT ![k] = s[Len(s)]], 1, Len(s) - 1)

\* A table that loses entry k is one shorter, and has its last entry there.
LEMMA RemovedEntries ==
  ASSUME NEW s \in Seq(EntryOf), NEW k \in 1 .. Len(s)
  PROVE  /\ Removed(s, k) \in Seq(EntryOf) /\ Len(Removed(s, k)) = Len(s) - 1
         /\ \A l \in 1 .. Len(s) - 1 : Removed(s, k)[l] = IF l = k THEN s[Len(s)] ELSE s[l]
  <1> DEFINE f == [s EXCEPT ![k] = s[Len(s)]]
  <1>1. Len(s) \in Nat /\ s[Len(s)] \in EntryOf
    OBVIOUS
  <1>2. f \in Seq(EntryOf) /\ Len(f) = Len(s)
    BY <1>1
  <1>3. \A l \in 1 .. Len(s) : f[l] = IF l = k THEN s[Len(s)] ELSE s[l]
    OBVIOUS
  <1> HIDE DEF f
  <1>4. /\ SubSeq(f, 1, Len(s) - 1) \in Seq(EntryOf) /\ Len(SubSeq(f, 1, Len(s) - 1)) = Len(s) - 1
        /\ \A l \in 1 .. Len(s) - 1 : SubSeq(f, 1, Len(s) - 1)[l] = f[l]
    BY <1>1, <1>2
  <1>5. QED
    BY <1>1, <1>3, <1>4 DEF Removed, f

\* Without the last entry of its address, one less is there for that address only.
LEMMA AtRemoved ==
  ASSUME NEW s \in Seq(EntryOf), NEW k \in 1 .. Len(s), NEW a,
         \A l \in 1 .. Len(s) : s[l].ptr = s[k].ptr => l <= k
  PROVE  Cardinality(At(Removed(s, k), a)) =
           Cardinality(At(s, a)) - (IF s[k].ptr = a THEN 1 ELSE 0)
  <1> DEFINE n == Len(s)
             r == Removed(s, k)
  <1>1. /\ n \in Nat \ {0} /\ Len(r) = n - 1
        /\ \A l \in 1 .. n - 1 : r[l] = IF l = k THEN s[n] ELSE s[l]
    <2>1. n \in Nat /\ k \in 1 .. n
      OBVIOUS
    <2> HIDE DEF n
    <2>2. n \in Nat \ {0}
      BY <2>1
    <2>3. QED
      BY <2>2, RemovedEntries DEF n
  <1> HIDE DEF r
  <1>2. CASE s[k].ptr = a
    <2>1. At(r, a) = At(s, a) \ {k}
      BY <1>1, <1>2 DEF At
    <2>2. k \in At(s, a)
      BY <1>2 DEF At
    <2>3. QED
      BY <1>2, <2>1, <2>2, AtFinite, FS_RemoveElement DEF r
  <1>3. CASE s[k].ptr # a /\ s[n].ptr # a
    <2>1. At(r, a) = At(s, a)
      BY <1>1, <1>3 DEF At
    <2>2. QED
      BY <1>3, <2>1, AtFinite DEF r
  <1>4. CASE s[k].ptr # a /\ s[n].ptr = a
    <2>1. At(r, a) = (At(s, a) \ {n}) \cup {k}
      BY <1>1, <1>4 DEF At
    <2>2. n \in At(s, a) /\ k \notin At(s, a)
      BY <1>1, <1>4 DEF At
    <2>3. /\ IsFiniteSet(At(s, a) \ {n}) /\ Cardinality(At(s, a)) \in Nat
          /\ Cardinality(At(s, a) \ {n}) = Cardinality(At(s, a)) - 1
      BY <2>2, AtFinite, FS_RemoveElement
    <2>4. Cardinality(At(r, a)) = Cardinality(At(s, a) \ {n}) + 1
      BY <2>1, <2>2, <2>3, FS_AddElement
    <2>5. QED
      BY <1>4, <2>3, <2>4 DEF r
  <1>5. QED
    BY <1>2, <1>3, <1>4

-----------------------------------------------------------------------------
(* Steps of a thread.                                                      *)

\* What the invariant says, in parts.
LEMMA Basics ==
  ASSUME LeakInv
  PROVE  /\ TypeOK /\ PlacesKnown /\ Ownership /\ Untroubled /\ Balance /\ Alone /\ BlameFindsBlock
         /\ TableAtExit /\ ReportSoFar /\ ReportSound /\ ReportComplete
         /\ alloc_a \in Seq(EntryOf) /\ alloc_q \in Nat /\ alloc_q = Len(alloc_a)
         /\ program \subseteq Threads /\ None \notin Addrs
         /\ pc \in [Threads -> Places]
         /\ b \in [Threads -> Addrs \cup {None}] /\ nb \in [Threads -> Addrs \cup {None}]
         /\ heap \in [Addrs -> 0 .. MaxBlocks] /\ blocks \in 0 .. MaxBlocks
  BY NoneAssumption DEF LeakInv, TypeOK, PlacesKnown, alloc_q

\* The steps of the wrappers and of exceptionWalker(), by what they do to the thread.
Wrapper(t) ==
  \/ AllocCheck(t) \/ Alloc(t) \/ AllocGivesUp(t) \/ FreeCheck(t) \/ Free(t)
  \/ GetSize(t) \/ Release(t)
Begins(t) ==
  \E a \in Addrs : Malloc(t, a) \/ BeginFree(t, a) \/ ReallocFails(t, a)
Moves(t) == \E a, a2 \in Addrs : Realloc(t, a, a2) \/ ProtectRealloc(t, a, a2)
Handler(t) == Fault(t) \/ Explain(t) \/ LeaveHandler(t)

\* A thread changes its own place and blocks only, and nothing of endfunc().
LEMMA StepView ==
  ASSUME LeakInv, NEW t \in program, Step(t)
  PROVE  /\ t \in Threads /\ Running /\ Running'
         /\ UNCHANGED <<program, protect, i, flagged, reported>>
         /\ \E l \in Places \ {"exiting", "exited"} : pc' = [pc EXCEPT ![t] = l]
         /\ \E x \in Addrs \cup {None} : b' = [b EXCEPT ![t] = x]
         /\ \E x \in Addrs \cup {None} : nb' = [nb EXCEPT ![t] = x]
  <1>1. /\ t \in Threads /\ pc \in [Threads -> Places]
        /\ b \in [Threads -> Addrs \cup {None}] /\ nb \in [Threads -> Addrs \cup {None}]
        /\ b = [b EXCEPT ![t] = b[t]] /\ nb = [nb EXCEPT ![t] = nb[t]] /\ pc = [pc EXCEPT ![t] = pc[t]]
    BY Basics
  <1>2. /\ UNCHANGED <<program, protect, i, flagged, reported>>
        /\ pc[t] \notin {"exiting", "exited"}
        /\ \E l \in Places \ {"exiting", "exited"} : pc' = [pc EXCEPT ![t] = l]
        /\ \E x \in Addrs \cup {None} : b' = [b EXCEPT ![t] = x]
        /\ \E x \in Addrs \cup {None} : nb' = [nb EXCEPT ![t] = x]
    <2>1. CASE Wrapper(t)
      BY <1>1, <2>1 DEF Wrapper, AllocCheck, Alloc, AllocGivesUp, FreeCheck, Free, GetSize, Release, AfterFree,
             Finish, Goto, IsAt, Kept, memory, inputs, tracking, output, report, Places
    <2>2. CASE Begins(t)
      BY <1>1, <2>2 DEF Begins, Malloc, BeginFree, ReallocFails, NewBlock, Goto, IsAt,
             memory, inputs, tracking, output, report, Places
    <2>3. CASE Moves(t)
      BY <1>1, <2>3 DEF Moves, Realloc, ProtectRealloc, NewBlock, Goto, IsAt,
             memory, inputs, tracking, output, report, Places
    <2>4. CASE Handler(t)
      <3>1. CASE Fault(t)
        <4>1. PICK a \in own \cup {None} : b' = [b EXCEPT ![t] = a]
          BY <3>1 DEF Fault
        <4>2. a \in Addrs \cup {None}
          BY Basics DEF TypeOK
        <4>3. QED
          BY <1>1, <3>1, <4>1, <4>2 DEF Fault, Goto, IsAt, memory, inputs, tracking, output, report, Places
      <3>2. CASE Explain(t) \/ LeaveHandler(t)
        BY <1>1, <3>2 DEF Explain, LeaveHandler, Goto, IsAt, memory, inputs, output, tracking, report, Places
      <3>3. QED
        BY <2>4, <3>1, <3>2 DEF Handler
    <2>5. QED
      BY <2>1, <2>2, <2>3, <2>4 DEF Step, Wrapper, Begins, Moves, Handler
  <1>3. Running
    BY <1>1, <1>2, Basics DEF PlacesKnown, Exiting, Exited, IsAt
  <1>4. Running'
    BY <1>1, <1>2, <1>3 DEF Running
  <1>5. QED
    BY <1>1, <1>2, <1>3, <1>4

\* Memory runs out in two places only.
LEMMA FaultsOnce ==
  ASSUME LeakInv, NEW t \in program, Step(t)
  PROVE  /\ faults \in Nat
         /\ faults' = faults \/ (faults < MaxFaults /\ faults' = faults + 1)
         /\ faults' = 0 => faults = 0 /\ ~ AllocGivesUp(t)
  <1>1. faults \in Nat
    BY Basics, SizesAssumption DEF TypeOK
  <1>2. faults' = faults \/ (faults < MaxFaults /\ faults' = faults + 1)
    BY DEF Step, AllocCheck, Alloc, AllocGivesUp, FreeCheck, Free, GetSize, Release, Fault, Explain,
       LeaveHandler, Malloc, BeginFree, ReallocFails, Realloc, ProtectRealloc, Fail
  <1>3. QED
    BY <1>1, <1>2 DEF AllocGivesUp, Fail

\* The table after ALLOC and FREE, and how its entries for an address change.
LEMMA EntriesAfter ==
  ASSUME LeakInv, NEW t \in program, Step(t)
  PROVE  /\ alloc_a' \in Seq(EntryOf) /\ alloc_s' \in Nat /\ alloc_q' <= alloc_s'
         /\ alloc_a' = alloc_a \/ Alloc(t) \/ AllocGivesUp(t) \/ Free(t)
         /\ Alloc(t) => /\ alloc_q' = alloc_q + 1 /\ alloc_a'[alloc_q'] = [ptr |-> nb[t], id |-> heap[nb[t]]]
                        /\ \A k \in 1 .. alloc_q : alloc_a'[k] = alloc_a[k]
                        /\ \A a : Entries(a)' = Entries(a) + (IF nb[t] = a THEN 1 ELSE 0)
         /\ Free(t) => IF LastEntry(b[t]) = 0
                         THEN alloc_a' = alloc_a
                         ELSE /\ alloc_a' = Removed(alloc_a, LastEntry(b[t])) /\ alarm' = alarm
                              /\ \A a : Entries(a)' = Entries(a) - (IF b[t] = a THEN 1 ELSE 0)
  <1>1. /\ t \in Threads /\ alloc_s \in Nat /\ alloc_q <= alloc_s /\ alloc_q \in Nat
        /\ alloc_a \in Seq(EntryOf) /\ Growth \in Nat \ {0} /\ alloc_q = Len(alloc_a)
    BY Basics, SizesAssumption DEF TypeOK
  <1>2. \A a : Entries(a) = Cardinality(At(alloc_a, a)) /\ Entries(a)' = Cardinality(At(alloc_a', a))
    BY DEF Entries, At, alloc_q
  <1>3. CASE Alloc(t)
    <2> DEFINE e == [ptr |-> nb[t], id |-> heap[nb[t]]]
    <2>1. e \in EntryOf
      <3>1. nb[t] \in Addrs
        BY <1>1, <1>3, Basics, StepView DEF Alloc, IsAt, PlacesKnown, InPlace
      <3>2. heap[nb[t]] \in 1 .. MaxBlocks
        BY <1>1, <3>1, Basics, StepView, SizesAssumption DEF Ownership, OwnedOnce
      <3>3. QED
        BY <3>1, <3>2 DEF EntryOf
    <2>2. alloc_a' = Append(alloc_a, e) /\ alloc_s' = IF alloc_q >= alloc_s THEN alloc_s + Growth ELSE alloc_s
      BY <1>3 DEF Alloc
    <2>3. e.ptr = nb[t]
      OBVIOUS
    <2> HIDE DEF e
    <2>4. alloc_q' = alloc_q + 1 /\ alloc_a' \in Seq(EntryOf) /\ alloc_a'[alloc_q'] = e
      BY <1>1, <2>1, <2>2, AtAppend DEF alloc_q
    <2>5. \A k \in 1 .. alloc_q : alloc_a'[k] = alloc_a[k]
      BY <1>1, <2>1, <2>2, AtAppend
    <2>6. \A a : Entries(a)' = Entries(a) + (IF nb[t] = a THEN 1 ELSE 0)
      BY <1>1, <1>2, <2>1, <2>2, <2>3, AtAppend
    <2>7. alloc_s' \in Nat /\ alloc_q' <= alloc_s'
      BY <1>1, <2>2, <2>4
    <2>8. ~ Free(t)
      BY <1>3 DEF Alloc, Free, IsAt
    <2>9. QED
      BY <2>4, <2>5, <2>6, <2>7, <2>8, <1>3 DEF e
  <1>4. CASE AllocGivesUp(t)
    <2>1. alloc_a' = <<>> /\ alloc_s' = 0 /\ alloc_q' = 0
      BY <1>4 DEF AllocGivesUp, alloc_q
    <2>2. ~ Free(t) /\ ~ Alloc(t)
      BY <1>1, <1>4, Basics DEF TypeOK, AllocGivesUp, Free, Alloc, IsAt, Fail
    <2>3. QED
      BY <1>4, <2>1, <2>2
  <1>5. CASE Free(t)
    <2> DEFINE k == LastEntry(b[t])
    <2>1. k \in 0 .. alloc_q
      BY <1>1, LastEntryFound
    <2>2. ~ Alloc(t)
      BY <1>5 DEF Free, Alloc, IsAt
    <2>3. alloc_s' = alloc_s
      BY <1>5 DEF Free
    <2>4. CASE k = 0
      <3>1. alloc_a' = alloc_a
        BY <1>5, <2>4 DEF Free
      <3>2. QED
        BY <1>1, <1>5, <2>2, <2>3, <2>4, <3>1 DEF alloc_q
    <2>5. CASE k # 0
      <3>1. alloc_a' = Removed(alloc_a, k) /\ alarm' = alarm
        BY <1>5, <2>5 DEF Free, Removed, alloc_q
      <3>2. k \in 1 .. alloc_q /\ alloc_a[k].ptr = b[t]
            /\ \A l \in 1 .. alloc_q : alloc_a[l].ptr = b[t] => l <= k
        BY <1>1, <2>1, <2>5, LastEntryFound
      <3> HIDE DEF k
      <3>3. alloc_a' \in Seq(EntryOf) /\ alloc_q' = alloc_q - 1
        BY <1>1, <3>1, <3>2, RemovedEntries DEF alloc_q
      <3>4. \A a : Entries(a)' = Entries(a) - (IF b[t] = a THEN 1 ELSE 0)
        BY <1>1, <1>2, <3>1, <3>2, AtRemoved
      <3>5. alloc_q' <= alloc_s'
        BY <1>1, <2>3, <3>3
      <3>6. QED
        BY <1>1, <1>5, <2>2, <2>3, <2>5, <3>1, <3>3, <3>4, <3>5 DEF k
    <2>6. QED
      BY <2>4, <2>5
  <1>6. CASE ~ (Alloc(t) \/ AllocGivesUp(t) \/ Free(t))
    <2>1. alloc_a' = alloc_a /\ alloc_s' = alloc_s
      BY <1>6 DEF Step, AllocCheck, FreeCheck, GetSize, Release, Malloc, BeginFree, ReallocFails, Realloc,
             ProtectRealloc, Fault, Explain, LeaveHandler, tracking
    <2>2. QED
      BY <1>1, <1>6, <2>1 DEF alloc_q
  <1>7. QED
    BY <1>3, <1>4, <1>5, <1>6

\* What a step does to the heap.
HeapSteps(t) ==
  Release(t) \/ \E o, a \in Addrs : Malloc(t, a) \/ ProtectRealloc(t, o, a) \/ Realloc(t, o, a)

\* The heap is changed at the addresses of the blocks released and made, by the step
\* that does it.
LEMMA HeapAfter ==
  ASSUME LeakInv, NEW t \in program, Step(t)
  PROVE  /\ heap' \in [Addrs -> 0 .. MaxBlocks] /\ blocks' \in 0 .. MaxBlocks
         /\ ~ HeapSteps(t) => heap' = heap
         /\ Release(t) => \A x \in Addrs : heap'[x] = IF x = b[t] THEN 0 ELSE heap[x]
         /\ \A o, a \in Addrs : Malloc(t, a) \/ ProtectRealloc(t, o, a) =>
              heap[a] = 0 /\ heap'[a] # 0 /\ \A x \in Addrs : x # a => heap'[x] = heap[x]
         /\ \A o, a \in Addrs : Realloc(t, o, a) =>
              /\ heap'[a] # 0 /\ (heap[a] = 0 \/ a = o)
              /\ \A x \in Addrs : x # a => heap'[x] = IF x = o THEN 0 ELSE heap[x]
  <1>1. /\ heap \in [Addrs -> 0 .. MaxBlocks] /\ blocks \in 0 .. MaxBlocks /\ MaxBlocks \in Nat
        /\ t \in Threads
    BY Basics, StepView, SizesAssumption
  <1>2. ASSUME Release(t)
        PROVE  /\ heap' \in [Addrs -> 0 .. MaxBlocks] /\ blocks' = blocks
               /\ \A x \in Addrs : heap'[x] = IF x = b[t] THEN 0 ELSE heap[x]
    <2>1. heap' = [heap EXCEPT ![b[t]] = 0] /\ blocks' = blocks
      BY <1>2 DEF Release, Without
    <2>2. 0 \in 0 .. MaxBlocks
      BY <1>1
    <2>3. \A x \in Addrs : heap'[x] = IF x = b[t] THEN 0 ELSE heap[x]
      BY <1>1, <2>1, Zenon
    <2>4. QED
      BY <1>1, <2>1, <2>2, <2>3, Zenon
  <1>3. ASSUME NEW o \in Addrs, NEW a \in Addrs, Malloc(t, a) \/ ProtectRealloc(t, o, a)
        PROVE  /\ heap' \in [Addrs -> 0 .. MaxBlocks] /\ blocks' \in 0 .. MaxBlocks
               /\ heap[a] = 0 /\ heap'[a] # 0 /\ \A x \in Addrs : x # a => heap'[x] = heap[x]
    <2>1. /\ blocks < MaxBlocks /\ heap[a] = 0 /\ blocks' = blocks + 1
          /\ heap' = [heap EXCEPT ![a] = blocks']
      BY <1>3 DEF Malloc, ProtectRealloc, NewBlock
    <2>2. QED
      BY <1>1, <2>1
  <1>4. ASSUME NEW o \in Addrs, NEW a \in Addrs, Realloc(t, o, a)
        PROVE  /\ heap' \in [Addrs -> 0 .. MaxBlocks] /\ blocks' \in 0 .. MaxBlocks
               /\ heap'[a] # 0 /\ (heap[a] = 0 \/ a = o)
               /\ \A x \in Addrs : x # a => heap'[x] = IF x = o THEN 0 ELSE heap[x]
    <2>1. /\ blocks < MaxBlocks /\ Without(o)[a] = 0 /\ blocks' = blocks + 1
          /\ heap' = [Without(o) EXCEPT ![a] = blocks']
      BY <1>4 DEF Realloc, NewBlock
    <2>2. Without(o) \in [Addrs -> 0 .. MaxBlocks]
          /\ \A x \in Addrs : Without(o)[x] = IF x = o THEN 0 ELSE heap[x]
      BY <1>1 DEF Without
    <2>3. blocks' \in 1 .. MaxBlocks
      BY <1>1, <2>1
    <2>4. heap' \in [Addrs -> 0 .. MaxBlocks] /\ heap'[a] # 0 /\ \A x \in Addrs : x # a => heap'[x] = Without(o)[x]
      BY <2>1, <2>2, <2>3
    <2>5. QED
      BY <2>1, <2>2, <2>3, <2>4
  <1>5. ASSUME ~ HeapSteps(t) PROVE UNCHANGED <<heap, blocks>>
    BY <1>5 DEF HeapSteps, Step, AllocCheck, Alloc, AllocGivesUp, FreeCheck, Free, GetSize, Fault, Explain,
       LeaveHandler, BeginFree, ReallocFails, memory
  <1>6. /\ heap' \in [Addrs -> 0 .. MaxBlocks] /\ blocks' \in 0 .. MaxBlocks
    BY <1>1, <1>2, <1>3, <1>4, <1>5 DEF HeapSteps
  <1>7. QED
    BY <1>2, <1>3, <1>4, <1>5, <1>6

\* The variables keep their types.
LEMMA TypeStep ==
  ASSUME LeakInv, NEW t \in program, Step(t)
  PROVE  TypeOK'
  <1>1. /\ TypeOK /\ t \in Threads /\ flagged = {}
        /\ UNCHANGED <<program, protect, i, flagged, reported>>
        /\ MaxBlocks \in Nat /\ MaxFaults \in Nat
    BY Basics, StepView, SizesAssumption DEF ReportSoFar
  <1>2. /\ pc' \in [Threads -> Places] /\ b' \in [Threads -> Addrs \cup {None}]
        /\ nb' \in [Threads -> Addrs \cup {None}]
    BY <1>1, StepView DEF TypeOK
  <1>3. alloc_a' \in Seq(EntryOf) /\ alloc_s' \in Nat /\ alloc_q' <= alloc_s'
    BY EntriesAfter
  <1>4. /\ heap' \in [Addrs -> 0 .. MaxBlocks] /\ blocks' \in 0 .. MaxBlocks
    BY HeapAfter
  <1>5. own' \subseteq Addrs
    <2>1. own \subseteq Addrs /\ b[t] \in Addrs \cup {None} /\ nb[t] \in Addrs \cup {None}
          /\ Kept(t) \in Addrs \cup {None}
      BY <1>1 DEF TypeOK, Kept
    <2>2. own' \subseteq own \/ \E x \in {nb[t], Kept(t)} : own' = own \cup ({x} \ {None})
      BY DEF Step, AllocCheck, Alloc, AllocGivesUp, FreeCheck, Free, GetSize, Release, Fault, Explain,
         LeaveHandler, Malloc, BeginFree, ReallocFails, Realloc, ProtectRealloc, AfterFree, Finish
    <2>3. QED
      BY <2>1, <2>2
  <1>6. inited' \in 0 .. 2
    BY <1>1 DEF TypeOK, Step, AllocCheck, Alloc, AllocGivesUp, FreeCheck, Free, GetSize, Release, Fault, Explain,
       LeaveHandler, Malloc, BeginFree, ReallocFails, Realloc, ProtectRealloc, tracking
  <1>7. alarm' \in BOOLEAN
    BY <1>1 DEF TypeOK, Step, AllocCheck, Alloc, AllocGivesUp, FreeCheck, Free, GetSize, Release, Fault, Explain,
       LeaveHandler, Malloc, BeginFree, ReallocFails, Realloc, ProtectRealloc, tracking
  <1>8. faults' \in 0 .. MaxFaults
    BY <1>1, FaultsOnce DEF TypeOK
  <1>9. blamed' \in SUBSET EntryOf
    <2>1. CASE Explain(t)
      <3>1. LastEntry(b[t]) # 0 => alloc_a[LastEntry(b[t])] \in EntryOf
        BY Basics, LastEntryFound
      <3>2. QED
        BY <2>1, <3>1 DEF Explain
    <2>2. CASE ~ Explain(t)
      BY <2>2, <1>1 DEF TypeOK, Step, AllocCheck, Alloc, AllocGivesUp, FreeCheck, Free, GetSize, Release, Fault,
         LeaveHandler, Malloc, BeginFree, ReallocFails, Realloc, ProtectRealloc, output
    <2>3. QED
      BY <2>1, <2>2
  <1>10. QED
    BY <1>1, <1>2, <1>3, <1>4, <1>5, <1>6, <1>7, <1>8, <1>9 DEF TypeOK, alloc_q

\* A thread's place goes with what it has at hand.
LEMMA PlacesStep ==
  ASSUME LeakInv, NEW t \in program, Step(t)
  PROVE  PlacesKnown'
  <1>1. /\ t \in Threads /\ InPlace(t) /\ Running /\ Running' /\ PlacesKnown
        /\ UNCHANGED <<program, protect>> /\ None \notin Addrs
        /\ pc \in [Threads -> Places]
        /\ b \in [Threads -> Addrs \cup {None}] /\ nb \in [Threads -> Addrs \cup {None}]
    BY Basics, StepView DEF PlacesKnown
  <1>2. \A u \in Threads : u # t => pc'[u] = pc[u] /\ b'[u] = b[u] /\ nb'[u] = nb[u]
    BY <1>1, StepView
  <1>3. InPlace(t)'
    <2>1. CASE Wrapper(t)
      BY <1>1, <2>1 DEF InPlace, Wrapper, AllocCheck, Alloc, AllocGivesUp, FreeCheck, Free, GetSize, Release,
             AfterFree, Finish, Goto, IsAt, Kept, InHandler, NewPlaces, memory, inputs
    <2>2. CASE Begins(t)
      <3>1. PICK a \in Addrs : Malloc(t, a) \/ BeginFree(t, a) \/ ReallocFails(t, a)
        BY <2>2 DEF Begins
      <3>2. QED
        BY <1>1, <3>1 DEF InPlace, Malloc, BeginFree, ReallocFails, Goto, IsAt, InHandler, NewPlaces
    <2>3. CASE Moves(t)
      <3>1. PICK a \in Addrs, a2 \in Addrs : Realloc(t, a, a2) \/ ProtectRealloc(t, a, a2)
        BY <2>3 DEF Moves
      <3>2. QED
        BY <1>1, <3>1 DEF InPlace, Realloc, ProtectRealloc, Goto, IsAt, InHandler, NewPlaces
    <2>4. CASE Handler(t)
      BY <1>1, <2>4 DEF InPlace, Handler, Fault, Explain, LeaveHandler, Goto, IsAt, InHandler, NewPlaces
    <2>5. QED
      BY <2>1, <2>2, <2>3, <2>4 DEF Step, Wrapper, Begins, Moves, Handler
  <1>4. \A u \in Threads : InPlace(u)'
    BY <1>1, <1>2, <1>3 DEF PlacesKnown, InPlace, InHandler
  <1>5. \A u \in Threads : InHandler(u)' => InHandler(u) \/ (u = t /\ Fault(t))
    <2>1. InHandler(t)' => InHandler(t) \/ Fault(t)
      BY <1>1 DEF InHandler, Step, AllocCheck, Alloc, AllocGivesUp, FreeCheck, Free, GetSize, Release,
             AfterFree, Finish, Goto, IsAt, Malloc, BeginFree, ReallocFails, Realloc, ProtectRealloc, Fault,
             Explain, LeaveHandler
    <2>2. QED
      BY <1>2, <2>1 DEF InHandler
  <1>6. \A u, v \in Threads : InHandler(u)' /\ InHandler(v)' => u = v
    BY <1>1, <1>5 DEF PlacesKnown, Fault
  <1>7. \A u \in Threads \ program : pc'[u] = "idle"
    BY <1>1, <1>2 DEF PlacesKnown
  <1>8. QED
    BY <1>1, <1>4, <1>6, <1>7 DEF PlacesKnown

\* A live block stays its holder's.
LEMMA OwnershipStep ==
  ASSUME LeakInv, NEW t \in program, Step(t)
  PROVE  Ownership'
  <1>1. /\ t \in Threads /\ InPlace(t) /\ Running /\ Running' /\ Ownership
        /\ None \notin Addrs /\ own \subseteq Addrs
        /\ pc \in [Threads -> Places]
        /\ b \in [Threads -> Addrs \cup {None}] /\ nb \in [Threads -> Addrs \cup {None}]
    BY Basics, StepView DEF PlacesKnown, TypeOK
  <1>2. \A u \in Threads : u # t => pc'[u] = pc[u] /\ b'[u] = b[u] /\ nb'[u] = nb[u]
    BY <1>1, StepView
  <1>3. \A u \in Threads, a \in Addrs : u # t => (Holds(u, a)' <=> Holds(u, a))
    BY <1>2 DEF Holds
  <1>4. \A u \in Threads : InPlace(u)
    BY <1>1, Basics DEF PlacesKnown
  <1>5. ASSUME NEW a \in Addrs,
               \/ /\ heap[a] # 0 => heap'[a] # 0
                  /\ a \in own' => a \in own
                  /\ Holds(t, a)' => Holds(t, a)
                  /\ nb'[t] = a => nb[t] = a
               \/ /\ heap[a] = 0 \/ a \in own \/ Holds(t, a) \/ nb[t] = a
                  /\ a \in own' \/ Holds(t, a)' \/ nb'[t] = a => heap'[a] # 0
                  /\ a \in own' => ~ Holds(t, a)' /\ nb'[t] # a
                  /\ Holds(t, a)' => nb'[t] # a
        PROVE  OwnedOnce(a)'
    <2>1. OwnedOnce(a)
      BY <1>1 DEF Ownership
    <2>2. CASE /\ heap[a] # 0 => heap'[a] # 0
               /\ a \in own' => a \in own
               /\ Holds(t, a)' => Holds(t, a)
               /\ nb'[t] = a => nb[t] = a
      BY <1>1, <1>2, <1>3, <2>1, <2>2 DEF OwnedOnce
    <2>3. CASE /\ heap[a] = 0 \/ a \in own \/ Holds(t, a) \/ nb[t] = a
               /\ a \in own' \/ Holds(t, a)' \/ nb'[t] = a => heap'[a] # 0
               /\ a \in own' => ~ Holds(t, a)' /\ nb'[t] # a
               /\ Holds(t, a)' => nb'[t] # a
      <3>1. \A u \in Threads : u # t => ~ Holds(u, a)' /\ nb'[u] # a
        BY <1>1, <1>2, <1>3, <2>1, <2>3 DEF OwnedOnce
      <3>2. QED
        BY <1>1, <2>3, <3>1 DEF OwnedOnce
    <2>4. QED
      BY <1>5, <2>2, <2>3
  <1>6. SUFFICES ASSUME NEW a \in Addrs PROVE OwnedOnce(a)'
    BY DEF Ownership
  <1>7. OwnedOnce(a)
    BY <1>1 DEF Ownership
  <1>8. CASE AllocCheck(t) \/ Alloc(t) \/ AllocGivesUp(t) \/ FreeCheck(t) \/ Free(t)
    <2>1. heap' = heap
      BY <1>8 DEF AllocCheck, Alloc, AllocGivesUp, FreeCheck, Free, memory
    <2>2. QED
      BY <1>1, <1>5, <1>7, <1>8, <2>1
         DEF AllocCheck, Alloc, AllocGivesUp, FreeCheck, Free, AfterFree, Finish, Goto, IsAt, Kept, Holds,
             HoldPlaces, InPlace, NewPlaces, OwnedOnce
  <1>9. CASE GetSize(t) \/ Explain(t) \/ LeaveHandler(t)
    BY <1>1, <1>5, <1>9 DEF GetSize, Explain, LeaveHandler, Goto, IsAt, memory, Holds, HoldPlaces
  <1>10. CASE Release(t)
    <2>1. /\ pc[t] = "release" /\ pc'[t] = "free_check" /\ b'[t] = b[t] /\ nb'[t] = nb[t] /\ own' = own
      BY <1>1, <1>10 DEF Release, Goto, IsAt
    <2>2. heap'[a] = IF a = b[t] THEN 0 ELSE heap[a]
      BY <1>10, HeapAfter
    <2>3. QED
      BY <1>1, <1>5, <1>7, <2>1, <2>2 DEF Holds, HoldPlaces, OwnedOnce
  <1>11. CASE Fault(t)
    <2>1. PICK x \in own \cup {None} : own' = own \ {x} /\ b' = [b EXCEPT ![t] = x]
      BY <1>11 DEF Fault
    <2>2. /\ pc[t] = "idle" /\ pc'[t] = "explain" /\ nb' = nb /\ heap' = heap /\ nb[t] = None
      BY <1>1, <1>11 DEF Fault, Goto, IsAt, memory, InPlace, NewPlaces
    <2>3. b'[t] = x
      BY <1>1, <2>1
    <2>4. QED
      BY <1>1, <1>5, <1>7, <2>1, <2>2, <2>3 DEF Holds, HoldPlaces, OwnedOnce
  <1>12. CASE \E x \in Addrs : BeginFree(t, x) \/ ReallocFails(t, x)
    <2>1. PICK x \in Addrs : BeginFree(t, x) \/ ReallocFails(t, x)
      BY <1>12
    <2>2. /\ pc[t] = "idle" /\ x \in own /\ own' = own \ {x} /\ nb' = nb /\ heap' = heap /\ nb[t] = None
          /\ b'[t] = x
      BY <1>1, <2>1 DEF BeginFree, ReallocFails, Goto, IsAt, memory, InPlace, NewPlaces
    <2>3. QED
      BY <1>1, <1>5, <1>7, <2>2 DEF Holds, OwnedOnce
  <1>13. CASE \E x \in Addrs : Malloc(t, x)
    <2>1. PICK x \in Addrs : Malloc(t, x)
      BY <1>13
    <2>2. /\ pc[t] = "idle" /\ own' = own /\ b' = b /\ b[t] = None /\ nb[t] = None /\ nb'[t] = x
          /\ pc'[t] = "alloc_check"
      BY <1>1, <2>1 DEF Malloc, Goto, IsAt, InPlace, NewPlaces
    <2>3. heap[x] = 0 /\ heap'[x] # 0 /\ (a # x => heap'[a] = heap[a])
      BY <2>1, HeapAfter
    <2>4. QED
      BY <1>1, <1>5, <1>7, <2>2, <2>3 DEF Holds, HoldPlaces, OwnedOnce
  <1>14. CASE Moves(t)
    <2>1. PICK o \in Addrs, x \in Addrs : Realloc(t, o, x) \/ ProtectRealloc(t, o, x)
      BY <1>14 DEF Moves
    <2>2. /\ pc[t] = "idle" /\ o \in own /\ own' = own \ {o} /\ nb[t] = None /\ nb'[t] = x /\ b'[t] = o
          /\ Realloc(t, o, x) => pc'[t] = "free_check"
      BY <1>1, <2>1 DEF Realloc, ProtectRealloc, Goto, IsAt, InPlace, NewPlaces
    <2>3. CASE Realloc(t, o, x)
      <3>1. /\ heap'[x] # 0 /\ (heap[x] = 0 \/ x = o) /\ (a # x => heap'[a] = IF a = o THEN 0 ELSE heap[a])
        BY <2>3, HeapAfter
      <3>2. QED
        BY <1>1, <1>5, <1>7, <2>2, <2>3, <3>1 DEF Holds, HoldPlaces, OwnedOnce
    <2>4. CASE ProtectRealloc(t, o, x)
      <3>1. heap[x] = 0 /\ heap'[x] # 0 /\ (a # x => heap'[a] = heap[a])
        BY <2>4, HeapAfter
      <3>2. x # o
        BY <1>1, <2>2, <3>1 DEF Ownership, OwnedOnce
      <3>3. QED
        BY <1>1, <1>5, <1>7, <2>2, <3>1, <3>2 DEF Holds, OwnedOnce
    <2>5. QED
      BY <2>1, <2>3, <2>4
  <1>15. QED
    BY <1>8, <1>9, <1>10, <1>11, <1>12, <1>13, <1>14 DEF Step, Moves

-----------------------------------------------------------------------------
(* The table and the heap.                                                 *)

\* The threads that announce, or withdraw, an address can be counted.
LEMMA ThreadsCounted ==
  ASSUME NEW S \in SUBSET Threads
  PROVE  /\ IsFiniteSet(S) /\ Cardinality(S) \in Nat
         /\ \A t : Cardinality(S \cup {t}) = Cardinality(S) + (IF t \in S THEN 0 ELSE 1)
         /\ \A t : Cardinality(S \ {t}) = Cardinality(S) - (IF t \in S THEN 1 ELSE 0)
         /\ Cardinality(S) = 0 <=> S = {}
  <1>1. IsFiniteSet(S)
    BY ThreadsAssumption, FS_Subset
  <1>2. Cardinality(S) \in Nat /\ (Cardinality(S) = 0 <=> S = {})
    BY <1>1, FS_CardinalityType, FS_EmptySet
  <1>3. \A t : Cardinality(S \cup {t}) = Cardinality(S) + (IF t \in S THEN 0 ELSE 1)
    <2> TAKE t
    <2>1. Cardinality(S \cup {t}) = IF t \in S THEN Cardinality(S) ELSE Cardinality(S) + 1
      BY <1>1, FS_AddElement
    <2>2. QED
      BY <1>2, <2>1
  <1>4. \A t : Cardinality(S \ {t}) = Cardinality(S) - (IF t \in S THEN 1 ELSE 0)
    <2> TAKE t
    <2>1. Cardinality(S \ {t}) = IF t \in S THEN Cardinality(S) - 1 ELSE Cardinality(S)
      BY <1>1, FS_RemoveElement
    <2>2. QED
      BY <1>2, <2>1
  <1>5. QED
    BY <1>1, <1>2, <1>3, <1>4

\* Whether thread t is among them, as a number.
Announces(t, a) == IF nb[t] = a THEN 1 ELSE 0
Withdraws(t, a) == IF b[t] = a /\ pc[t] \in {"free_check", "free"} THEN 1 ELSE 0

\* A step of t changes the two counts by t's own part.
LEMMA CountsAfter ==
  ASSUME LeakInv, NEW t \in program, Step(t), NEW a
  PROVE  /\ Cardinality(Announcing(a)) \in Nat /\ Cardinality(Withdrawing(a)) \in Nat
         /\ Cardinality(Announcing(a))' = Cardinality(Announcing(a)) - Announces(t, a) + Announces(t, a)'
         /\ Cardinality(Withdrawing(a))' = Cardinality(Withdrawing(a)) - Withdraws(t, a) + Withdraws(t, a)'
  <1>1. /\ t \in Threads /\ pc \in [Threads -> Places]
        /\ b \in [Threads -> Addrs \cup {None}] /\ nb \in [Threads -> Addrs \cup {None}]
    BY Basics, StepView
  <1>2. \A u \in Threads : u # t => pc'[u] = pc[u] /\ b'[u] = b[u] /\ nb'[u] = nb[u]
    BY <1>1, StepView
  <1>3. /\ Announcing(a) \subseteq Threads /\ Announcing(a)' \subseteq Threads
        /\ Announcing(a) \ {t} = Announcing(a)' \ {t}
        /\ t \in Announcing(a) <=> Announces(t, a) = 1
        /\ t \in Announcing(a)' <=> Announces(t, a)' = 1
    BY <1>1, <1>2 DEF Announcing, Announces
  <1>4. /\ Withdrawing(a) \subseteq Threads /\ Withdrawing(a)' \subseteq Threads
        /\ Withdrawing(a) \ {t} = Withdrawing(a)' \ {t}
        /\ t \in Withdrawing(a) <=> Withdraws(t, a) = 1
        /\ t \in Withdrawing(a)' <=> Withdraws(t, a)' = 1
    BY <1>1, <1>2 DEF Withdrawing, Withdraws
  <1>5. ASSUME NEW S \in SUBSET Threads, NEW R \in SUBSET Threads, S \ {t} = R \ {t}
        PROVE  /\ Cardinality(S) \in Nat /\ Cardinality(R) \in Nat
               /\ Cardinality(R) = Cardinality(S) - (IF t \in S THEN 1 ELSE 0) + (IF t \in R THEN 1 ELSE 0)
    <2>1. /\ Cardinality(S) \in Nat /\ Cardinality(R) \in Nat
          /\ Cardinality(S \ {t}) = Cardinality(S) - (IF t \in S THEN 1 ELSE 0)
          /\ Cardinality(R \ {t}) = Cardinality(R) - (IF t \in R THEN 1 ELSE 0)
      BY ThreadsCounted
    <2>2. QED
      BY <1>5, <2>1
  <1>6. /\ Announces(t, a) \in {0, 1} /\ Announces(t, a)' \in {0, 1}
        /\ Withdraws(t, a) \in {0, 1} /\ Withdraws(t, a)' \in {0, 1}
    BY DEF Announces, Withdraws
  <1>7. /\ Cardinality(Announcing(a)) \in Nat
        /\ Cardinality(Announcing(a)') = Cardinality(Announcing(a)) - Announces(t, a) + Announces(t, a)'
    <2>1. /\ Cardinality(Announcing(a)) \in Nat
          /\ Cardinality(Announcing(a)') = Cardinality(Announcing(a))
               - (IF t \in Announcing(a) THEN 1 ELSE 0) + (IF t \in Announcing(a)' THEN 1 ELSE 0)
      BY <1>3, <1>5
    <2>2. QED
      BY <1>3, <1>6, <2>1
  <1>8. /\ Cardinality(Withdrawing(a)) \in Nat
        /\ Cardinality(Withdrawing(a)') = Cardinality(Withdrawing(a)) - Withdraws(t, a) + Withdraws(t, a)'
    <2>1. /\ Cardinality(Withdrawing(a)) \in Nat
          /\ Cardinality(Withdrawing(a)') = Cardinality(Withdrawing(a))
               - (IF t \in Withdrawing(a) THEN 1 ELSE 0) + (IF t \in Withdrawing(a)' THEN 1 ELSE 0)
      BY <1>4, <1>5
    <2>2. QED
      BY <1>4, <1>6, <2>1
  <1>9. QED
    BY <1>7, <1>8

\* While memory lasts, a block that the program or a thread has at hand has an entry,
\* and so has one that is being withdrawn.
LEMMA EntryThere ==
  ASSUME LeakInv, Running, inited # 0, faults = 0, NEW a \in Addrs
  PROVE  /\ Entries(a) = Cardinality(At(alloc_a, a)) /\ Entries(a) \in Nat
         /\ a \in own => LastEntry(a) # 0
         /\ \A t \in Threads :
              /\ Holds(t, a) => LastEntry(a) # 0
              /\ t \in Withdrawing(a) => LastEntry(a) # 0
  <1>1. Entries(a) = Cardinality(At(alloc_a, a)) /\ Entries(a) \in Nat
    BY Basics, AtFinite DEF Entries, At
  <1>2. Entries(a) # 0 => LastEntry(a) # 0
    <2>1. Entries(a) # 0 => At(alloc_a, a) # {}
      BY <1>1, FS_EmptySet
    <2>2. QED
      BY <2>1, Basics, LastEntryFound DEF At
  <1>3. OwnedOnce(a)
    BY Basics DEF Ownership
  <1>4. Entries(a) + Cardinality(Announcing(a)) = Live(a) + Cardinality(Withdrawing(a))
    BY Basics DEF Balance
  <1>5. Announcing(a) \in SUBSET Threads /\ Withdrawing(a) \in SUBSET Threads
    BY DEF Announcing, Withdrawing
  <1>6. Cardinality(Announcing(a)) \in Nat /\ Cardinality(Withdrawing(a)) \in Nat
    BY <1>5, ThreadsCounted
  <1>7. ASSUME Announcing(a) = {}, Live(a) = 1 PROVE LastEntry(a) # 0
    BY <1>1, <1>2, <1>4, <1>5, <1>6, <1>7, ThreadsCounted
  <1>8. a \in own => LastEntry(a) # 0
    BY <1>3, <1>7 DEF OwnedOnce, Announcing, Live
  <1>9. ASSUME NEW t \in Threads, Holds(t, a) PROVE LastEntry(a) # 0
    BY <1>3, <1>7, <1>9 DEF OwnedOnce, Announcing, Live
  <1>10. ASSUME NEW t \in Threads, t \in Withdrawing(a) PROVE LastEntry(a) # 0
    <2>1. Cardinality(Withdrawing(a)) >= 1
      BY <1>5, <1>6, <1>10, ThreadsCounted
    <2>2. CASE Announcing(a) = {}
      BY <1>1, <1>2, <1>4, <1>5, <1>6, <2>1, <2>2, ThreadsCounted DEF Live
    <2>3. CASE Announcing(a) # {}
      <3>1. PICK u \in Threads : nb[u] = a
        BY <2>3 DEF Announcing
      <3>2. Live(a) = 1 /\ Announcing(a) = {u}
        BY <1>3, <3>1 DEF OwnedOnce, Live, Announcing
      <3>3. Cardinality(Announcing(a)) = 1
        BY <3>2, FS_Singleton
      <3>4. QED
        BY <1>1, <1>2, <1>4, <1>6, <2>1, <3>2, <3>3
    <2>4. QED
      BY <2>2, <2>3
  <1>11. QED
    BY <1>1, <1>8, <1>9, <1>10

\* What there is to know of a step that does not run out of memory.
LEMMA Lasting ==
  ASSUME LeakInv, NEW t \in program, Step(t), faults' = 0
  PROVE  /\ faults = 0 /\ Running /\ InPlace(t) /\ t \in Threads
         /\ pc[t] \notin {"keep_check", "keep"}
         /\ inited' = inited \/ (LeaveHandler(t) /\ inited' = 2)
         /\ inited' = 0 <=> inited = 0
  <1>1. /\ faults = 0 /\ ~ AllocGivesUp(t) /\ Running /\ t \in Threads /\ InPlace(t) /\ Untroubled
    BY FaultsOnce, StepView, Basics DEF PlacesKnown
  <1>2. inited' = inited \/ (LeaveHandler(t) /\ inited' = 2)
    BY <1>1 DEF Step, AllocCheck, Alloc, FreeCheck, Free, GetSize, Release, Fault, Explain, LeaveHandler,
       Malloc, BeginFree, ReallocFails, Realloc, ProtectRealloc, tracking
  <1>3. LeaveHandler(t) => inited # 0
    BY <1>1 DEF LeaveHandler, IsAt, InPlace, InHandler, Untroubled
  <1>4. QED
    BY <1>1, <1>2, <1>3 DEF Untroubled

\* Where memory has not run out, the search of Free() finds what it looks for.
LEMMA UntroubledStep ==
  ASSUME LeakInv, NEW t \in program, Step(t)
  PROVE  Untroubled'
  <1> SUFFICES ASSUME faults' = 0 PROVE Untroubled'
    BY DEF Untroubled
  <1>1. /\ faults = 0 /\ ~ AllocGivesUp(t) /\ Untroubled /\ Running /\ Running' /\ t \in Threads /\ InPlace(t)
        /\ UNCHANGED protect /\ pc \in [Threads -> Places] /\ b \in [Threads -> Addrs \cup {None}]
        /\ pc[t] \notin {"keep_check", "keep"}
        /\ \A u \in Threads : u # t => pc'[u] = pc[u]
        /\ inited' = 0 <=> inited = 0
    BY FaultsOnce, Lasting, StepView, Basics
  <1>2. ~ alarm'
    <2>1. CASE Free(t)
      <3>1. pc[t] = "free" /\ inited # 0 /\ b[t] \in Addrs /\ t \in Withdrawing(b[t])
        BY <1>1, <2>1 DEF Free, Untroubled, InPlace, Withdrawing
      <3>2. LastEntry(b[t]) # 0
        BY <1>1, <3>1, EntryThere
      <3>3. QED
        BY <1>1, <2>1, <3>2 DEF Free, Untroubled
    <2>2. CASE ~ Free(t)
      BY <1>1, <2>2 DEF Untroubled, Step, AllocCheck, Alloc, FreeCheck, GetSize, Release, Fault, Explain,
         LeaveHandler, Malloc, BeginFree, ReallocFails, Realloc, ProtectRealloc, tracking
    <2>3. QED
      BY <2>1, <2>2
  <1>3. inited' = 0 => alloc_a' = <<>>
    <2>1. inited = 0 => alloc_a = <<>> /\ ~ Alloc(t) /\ ~ Free(t)
      BY <1>1 DEF Untroubled, Alloc, Free, IsAt
    <2>2. QED
      BY <1>1, <2>1, EntriesAfter
  <1>4. pc'[t] \notin {"keep_check", "keep"}
    <2>1. CASE Begins(t)
      <3>1. PICK a \in Addrs : Malloc(t, a) \/ BeginFree(t, a) \/ ReallocFails(t, a)
        BY <2>1 DEF Begins
      <3>2. CASE ReallocFails(t, a)
        <4>1. a \in own /\ protect /\ LastEntry(a) = 0
          BY <1>1, <3>2 DEF ReallocFails, Fail
        <4>2. inited # 0
          BY <1>1, <4>1 DEF Untroubled
        <4>3. QED
          BY <1>1, <4>1, <4>2, EntryThere
      <3>3. CASE Malloc(t, a) \/ BeginFree(t, a)
        BY <1>1, <3>3 DEF Malloc, BeginFree, Goto
      <3>4. QED
        BY <3>1, <3>2, <3>3
    <2>2. CASE Wrapper(t) \/ Moves(t) \/ Handler(t)
      BY <1>1, <2>2 DEF Wrapper, Moves, Handler, AllocCheck, Alloc, FreeCheck, Free, GetSize, Release, Fault,
         Explain, LeaveHandler, Realloc, ProtectRealloc, AfterFree, Finish, Goto, IsAt
    <2>3. QED
      BY <2>1, <2>2 DEF Step, Wrapper, Begins, Moves, Handler
  <1>5. pc'[t] = "dying" => inited' = 2
    BY <1>1 DEF Step, AllocCheck, Alloc, FreeCheck, Free, GetSize, Release, Fault, Explain, LeaveHandler,
       Malloc, BeginFree, ReallocFails, Realloc, ProtectRealloc, AfterFree, Finish, Goto, IsAt, Untroubled
  <1>6. \A u \in Threads : u # t /\ pc'[u] = "dying" => inited' = 2
    BY <1>1, Lasting DEF Untroubled
  <1>7. inited' = 0 => pc'[t] \notin {"alloc", "free"}
    BY <1>1 DEF Step, AllocCheck, Alloc, FreeCheck, Free, GetSize, Release, Fault, Explain, LeaveHandler,
       Malloc, BeginFree, ReallocFails, Realloc, ProtectRealloc, AfterFree, Finish, Goto, IsAt, Untroubled
  <1>8. protect' => inited' # 0
    BY <1>1 DEF Untroubled
  <1>9. \A u \in Threads : /\ pc'[u] \notin {"keep_check", "keep"}
                           /\ pc'[u] = "dying" => inited' = 2
                           /\ inited' = 0 => pc'[u] \notin {"alloc", "free"}
    BY <1>1, <1>4, <1>5, <1>6, <1>7 DEF Untroubled
  <1>10. QED
    BY <1>2, <1>3, <1>8, <1>9 DEF Untroubled

\* Every step changes both sides of the account by the same amount.
LEMMA BalanceStep ==
  ASSUME LeakInv, NEW t \in program, Step(t)
  PROVE  Balance'
  <1> SUFFICES ASSUME faults' = 0, inited' # 0, NEW a \in Addrs
               PROVE  Entries(a)' + Cardinality(Announcing(a))' = Live(a)' + Cardinality(Withdrawing(a))'
    BY DEF Balance
  <1>1. /\ faults = 0 /\ Running /\ inited # 0 /\ InPlace(t) /\ t \in Threads /\ ~ AllocGivesUp(t)
        /\ pc[t] \notin {"keep_check", "keep"}
        /\ Entries(a) + Cardinality(Announcing(a)) = Live(a) + Cardinality(Withdrawing(a))
        /\ OwnedOnce(a) /\ a # None
    BY Lasting, FaultsOnce, Basics DEF Balance, Ownership
  <1>2. /\ pc \in [Threads -> Places] /\ b \in [Threads -> Addrs \cup {None}]
        /\ nb \in [Threads -> Addrs \cup {None}] /\ own \subseteq Addrs
    BY Basics DEF TypeOK
  <1>3. /\ Entries(a) \in Nat
        /\ Cardinality(Announcing(a)) \in Nat /\ Cardinality(Withdrawing(a)) \in Nat
        /\ Cardinality(Announcing(a))' = Cardinality(Announcing(a)) - Announces(t, a) + Announces(t, a)'
        /\ Cardinality(Withdrawing(a))' = Cardinality(Withdrawing(a)) - Withdraws(t, a) + Withdraws(t, a)'
    BY <1>1, EntryThere, CountsAfter
  <1>4. /\ Announces(t, a) \in 0 .. 1 /\ Announces(t, a)' \in 0 .. 1 /\ Live(a) \in 0 .. 1
        /\ Withdraws(t, a) \in 0 .. 1 /\ Withdraws(t, a)' \in 0 .. 1 /\ Live(a)' \in 0 .. 1
    BY DEF Announces, Withdraws, Live
  <1>5. ~ Alloc(t) /\ ~ Free(t) => Entries(a)' = Entries(a)
    <2>1. ~ Alloc(t) /\ ~ Free(t) => alloc_a' = alloc_a
      BY <1>1, EntriesAfter
    <2>2. QED
      BY <2>1 DEF Entries, alloc_q
  <1>6. ~ HeapSteps(t) => Live(a)' = Live(a)
    BY HeapAfter DEF Live
  <1>7. CASE AllocCheck(t) \/ FreeCheck(t) \/ GetSize(t)
    <2>1. GetSize(t) => LastEntry(b[t]) # 0
      <3>1. GetSize(t) => b[t] \in Addrs /\ Holds(t, b[t])
        BY <1>1, <1>2 DEF GetSize, IsAt, InPlace, Holds, HoldPlaces
      <3>2. QED
        BY <1>1, <3>1, EntryThere
    <2>2. Announces(t, a)' = Announces(t, a) /\ Withdraws(t, a)' = Withdraws(t, a)
      BY <1>1, <1>2, <1>7, <2>1 DEF AllocCheck, FreeCheck, GetSize, Goto, IsAt, Announces, Withdraws
    <2>3. ~ Alloc(t) /\ ~ Free(t) /\ heap' = heap
      BY <1>7 DEF AllocCheck, FreeCheck, GetSize, Alloc, Free, IsAt, memory
    <2>4. Live(a)' = Live(a)
      BY <2>3 DEF Live
    <2>5. QED
      BY <1>1, <1>3, <1>4, <1>5, <2>2, <2>3, <2>4
  <1>8. CASE Alloc(t)
    <2>1. Entries(a)' = Entries(a) + Announces(t, a)
      BY <1>8, EntriesAfter DEF Announces
    <2>2. Announces(t, a)' = 0 /\ Withdraws(t, a)' = 0 /\ Withdraws(t, a) = 0 /\ heap' = heap
      BY <1>1, <1>2, <1>8 DEF Alloc, Finish, Goto, IsAt, Announces, Withdraws, memory
    <2>3. Live(a)' = Live(a)
      BY <2>2 DEF Live
    <2>4. QED
      BY <1>1, <1>3, <1>4, <2>1, <2>2, <2>3
  <1>9. CASE Free(t)
    <2>1. pc[t] = "free" /\ b[t] \in Addrs /\ t \in Withdrawing(b[t])
      BY <1>1, <1>2, <1>9 DEF Free, InPlace, Withdrawing
    <2>2. LastEntry(b[t]) # 0
      BY <1>1, <2>1, EntryThere
    <2>3. Entries(a)' = Entries(a) - Withdraws(t, a)
      BY <1>9, <2>1, <2>2, EntriesAfter DEF Withdraws
    <2>4. Withdraws(t, a)' = 0 /\ Announces(t, a)' = Announces(t, a) /\ heap' = heap
      BY <1>1, <1>2, <1>9, <2>1 DEF Free, AfterFree, Finish, Goto, IsAt, Announces, Withdraws, memory
    <2>5. Live(a)' = Live(a)
      BY <2>4 DEF Live
    <2>6. QED
      BY <1>1, <1>3, <1>4, <2>3, <2>4, <2>5
  <1>10. CASE Release(t)
    <2>1. /\ pc[t] = "release" /\ pc'[t] = "free_check" /\ b'[t] = b[t] /\ nb'[t] = nb[t]
          /\ ~ Alloc(t) /\ ~ Free(t)
      BY <1>1, <1>2, <1>10 DEF Release, Goto, IsAt, Alloc, Free
    <2>2. heap'[a] = IF a = b[t] THEN 0 ELSE heap[a]
      BY <1>10, HeapAfter
    <2>3. a = b[t] => heap[a] # 0
      BY <1>1, <2>1 DEF OwnedOnce, Holds, HoldPlaces
    <2>4. /\ Announces(t, a)' = Announces(t, a) /\ Withdraws(t, a) = 0
          /\ Withdraws(t, a)' = (IF a = b[t] THEN 1 ELSE 0)
      BY <2>1 DEF Announces, Withdraws
    <2>5. Live(a)' = Live(a) - (IF a = b[t] THEN 1 ELSE 0)
      BY <2>2, <2>3 DEF Live
    <2>6. QED
      BY <1>1, <1>3, <1>4, <1>5, <2>1, <2>4, <2>5
  <1>11. CASE Handler(t) \/ \E x \in Addrs : BeginFree(t, x) \/ ReallocFails(t, x)
    <2>1. /\ pc[t] \notin {"free_check", "free", "alloc", "keep"}
          /\ pc'[t] \notin {"free_check", "free"} /\ nb' = nb /\ heap' = heap
      BY <1>1, <1>2, <1>11 DEF Handler, Fault, Explain, LeaveHandler, BeginFree, ReallocFails, Goto, IsAt, memory
    <2>2. Announces(t, a)' = Announces(t, a) /\ Withdraws(t, a) = 0 /\ Withdraws(t, a)' = 0
          /\ Live(a)' = Live(a)
      BY <2>1 DEF Announces, Withdraws, Live
    <2>3. ~ Alloc(t) /\ ~ Free(t)
      BY <2>1 DEF Alloc, Free, IsAt
    <2>4. QED
      BY <1>1, <1>3, <1>4, <1>5, <2>2, <2>3
  <1>12. CASE \E x \in Addrs : Malloc(t, x)
    <2>1. PICK x \in Addrs : Malloc(t, x)
      BY <1>12
    <2>2. /\ pc[t] = "idle" /\ nb[t] = None /\ nb'[t] = x /\ pc'[t] = "alloc_check"
      BY <1>1, <1>2, <2>1 DEF Malloc, Goto, IsAt, InPlace, NewPlaces
    <2>3. heap[x] = 0 /\ heap'[x] # 0 /\ (a # x => heap'[a] = heap[a])
      BY <2>1, HeapAfter
    <2>4. Announces(t, a) = 0 /\ Announces(t, a)' = (IF x = a THEN 1 ELSE 0)
          /\ Withdraws(t, a) = 0 /\ Withdraws(t, a)' = 0
      BY <1>1, <2>2 DEF Announces, Withdraws
    <2>5. Live(a)' = Live(a) + (IF x = a THEN 1 ELSE 0)
      BY <2>3 DEF Live
    <2>6. ~ Alloc(t) /\ ~ Free(t)
      BY <2>2 DEF Alloc, Free, IsAt
    <2>7. QED
      BY <1>1, <1>3, <1>4, <1>5, <2>4, <2>5, <2>6
  <1>13. CASE Moves(t)
    <2>1. PICK o \in Addrs, x \in Addrs : Realloc(t, o, x) \/ ProtectRealloc(t, o, x)
      BY <1>13 DEF Moves
    <2>2. /\ pc[t] = "idle" /\ o \in own /\ nb[t] = None /\ nb'[t] = x /\ b'[t] = o
          /\ Realloc(t, o, x) => pc'[t] = "free_check"
          /\ ProtectRealloc(t, o, x) => pc'[t] = "size"
      BY <1>1, <1>2, <2>1 DEF Realloc, ProtectRealloc, Goto, IsAt, InPlace, NewPlaces
    <2>3. ~ Alloc(t) /\ ~ Free(t)
      BY <2>2 DEF Alloc, Free, IsAt
    <2>4. Announces(t, a) = 0 /\ Announces(t, a)' = (IF x = a THEN 1 ELSE 0) /\ Withdraws(t, a) = 0
      BY <1>1, <2>2 DEF Announces, Withdraws
    <2>5. CASE Realloc(t, o, x)
      <3>1. /\ heap'[x] # 0 /\ (heap[x] = 0 \/ x = o) /\ (a # x => heap'[a] = IF a = o THEN 0 ELSE heap[a])
        BY <2>5, HeapAfter
      <3>2. a = o => heap[a] # 0
        BY <1>1, <2>2 DEF OwnedOnce
      <3>3. Withdraws(t, a)' = (IF a = o THEN 1 ELSE 0)
        BY <2>2, <2>5 DEF Withdraws
      <3>4. Live(a)' = Live(a) + (IF x = a THEN 1 ELSE 0) - (IF a = o THEN 1 ELSE 0)
        BY <3>1, <3>2 DEF Live
      <3>5. QED
        BY <1>1, <1>3, <1>4, <1>5, <2>3, <2>4, <3>3, <3>4
    <2>6. CASE ProtectRealloc(t, o, x)
      <3>1. heap[x] = 0 /\ heap'[x] # 0 /\ (a # x => heap'[a] = heap[a])
        BY <2>6, HeapAfter
      <3>2. Withdraws(t, a)' = 0
        BY <2>2, <2>6 DEF Withdraws
      <3>3. Live(a)' = Live(a) + (IF x = a THEN 1 ELSE 0)
        BY <3>1 DEF Live
      <3>4. QED
        BY <1>1, <1>3, <1>4, <1>5, <2>3, <2>4, <3>2, <3>3
    <2>7. QED
      BY <2>1, <2>5, <2>6
  <1>14. QED
    BY <1>1, <1>7, <1>8, <1>9, <1>10, <1>11, <1>12, <1>13 DEF Step, Moves, Handler

-----------------------------------------------------------------------------
(* One thread.                                                             *)

\* A program of one thread has no other.
LEMMA OnlyOne ==
  ASSUME LeakInv, NEW t \in program, OneThread
  PROVE  program = {t}
  <1>1. IsFiniteSet(program)
    BY Basics, ThreadsAssumption, FS_Subset
  <1>2. PICK x : program = {x}
    BY <1>1, FS_Singleton DEF OneThread
  <1>3. QED
    BY <1>2

\* A table that has each address once loses the one that is removed.
LEMMA RemovedOnce ==
  ASSUME NEW s \in Seq(EntryOf), NEW k \in 1 .. Len(s),
         \A l, m \in 1 .. Len(s) : s[l].ptr = s[m].ptr => l = m
  PROVE  LET r == Removed(s, k)
         IN /\ \A l, m \in 1 .. Len(r) : r[l].ptr = r[m].ptr => l = m
            /\ \A l \in 1 .. Len(r) : /\ r[l].ptr # s[k].ptr
                                      /\ \E m \in 1 .. Len(s) : r[l] = s[m]
  <1> DEFINE r == Removed(s, k)
  <1>1. Len(s) \in Nat /\ k \in 1 .. Len(s)
    OBVIOUS
  <1>2. Len(r) = Len(s) - 1 /\ \A l \in 1 .. Len(s) - 1 : r[l] = IF l = k THEN s[Len(s)] ELSE s[l]
    BY RemovedEntries
  <1> HIDE DEF r
  <1> DEFINE from(l) == IF l = k THEN Len(s) ELSE l
  <1>3. \A l \in 1 .. Len(r) : from(l) \in 1 .. Len(s) /\ from(l) # k /\ r[l] = s[from(l)]
    BY <1>1, <1>2
  <1>4. \A l, m \in 1 .. Len(r) : from(l) = from(m) => l = m
    BY <1>1, <1>2
  <1> HIDE DEF from
  <1>5. \A l, m \in 1 .. Len(r) : r[l].ptr = r[m].ptr => l = m
    BY <1>3, <1>4
  <1>6. \A l \in 1 .. Len(r) : r[l].ptr # s[k].ptr /\ \E m \in 1 .. Len(s) : r[l] = s[m]
    BY <1>3
  <1>7. QED
    BY <1>5, <1>6 DEF r

\* What Alone says if t is the only thread.
Sure(e) == heap[e.ptr] # 0 /\ e.id = heap[e.ptr]
Solo(t) ==
  /\ \A k, l \in 1 .. alloc_q : alloc_a[k].ptr = alloc_a[l].ptr => k = l
  /\ \A k \in 1 .. alloc_q :
       (pc[t] \in {"free_check", "free"} /\ b[t] = alloc_a[k].ptr) \/ Sure(alloc_a[k])
  /\ \A k \in 1 .. alloc_q :
       nb[t] = alloc_a[k].ptr => pc[t] \in {"free_check", "free"} /\ b[t] = nb[t]
  /\ inited = 0 => alloc_a = <<>> /\ pc[t] # "alloc"

\* Without threads every entry is that of the block at its address, or of one being
\* released.
LEMMA AloneStep ==
  ASSUME LeakInv, NEW t \in program, Step(t)
  PROVE  Alone'
  <1> SUFFICES ASSUME OneThread' PROVE Alone'
    BY DEF Alone
  <1>1. /\ Running /\ Running' /\ t \in Threads /\ InPlace(t) /\ UNCHANGED program /\ OneThread
        /\ pc \in [Threads -> Places] /\ b \in [Threads -> Addrs \cup {None}]
        /\ nb \in [Threads -> Addrs \cup {None}] /\ None \notin Addrs
        /\ alloc_a \in Seq(EntryOf) /\ alloc_q = Len(alloc_a) /\ alloc_q \in Nat
    BY StepView, Basics DEF PlacesKnown, OneThread
  <1>2. program = {t}
    BY <1>1, OnlyOne
  <1>3. Solo(t)
    BY <1>1, <1>2, Basics DEF Alone, Solo, Stale, Sure
  <1>4. SUFFICES Solo(t)'
    BY <1>1, <1>2 DEF Alone, Solo, Stale, Sure
  <1>5. \A k \in 1 .. alloc_q : alloc_a[k] \in EntryOf /\ alloc_a[k].ptr \in Addrs /\ alloc_a[k].ptr # None
    <2>1. \A k \in 1 .. alloc_q : alloc_a[k] \in EntryOf
      BY <1>1
    <2>2. \A e \in EntryOf : e.ptr \in Addrs
      BY DEF EntryOf
    <2>3. QED
      BY <1>1, <2>1, <2>2
  <1>6. CASE AllocCheck(t) \/ FreeCheck(t) \/ GetSize(t) \/ Handler(t)
             \/ \E x \in Addrs : BeginFree(t, x) \/ ReallocFails(t, x)
    <2>1. UNCHANGED <<alloc_a, heap, alloc_q>>
      BY <1>6 DEF AllocCheck, FreeCheck, GetSize, Handler, Fault, Explain, LeaveHandler, BeginFree,
             ReallocFails, memory, tracking, alloc_q
    <2>2. /\ nb'[t] \in {nb[t], None}
          /\ pc[t] \in {"free_check", "free"} =>
               inited = 0 \/ (pc'[t] \in {"free_check", "free"} /\ b'[t] = b[t] /\ nb'[t] = nb[t])
          /\ inited' = 0 => inited = 0 /\ pc'[t] # "alloc"
      <3>1. CASE AllocCheck(t) \/ FreeCheck(t) \/ GetSize(t)
        BY <1>1, <1>3, <3>1 DEF AllocCheck, FreeCheck, GetSize, AfterFree, Finish, Goto, IsAt, tracking, Solo
      <3>2. CASE Handler(t) \/ \E x \in Addrs : BeginFree(t, x) \/ ReallocFails(t, x)
        BY <1>1, <1>3, <3>2 DEF Handler, Fault, Explain, LeaveHandler, BeginFree, ReallocFails, Goto, IsAt,
               tracking, Solo
      <3>3. QED
        BY <1>6, <3>1, <3>2
    <2>3. inited = 0 => alloc_q = 0
      BY <1>1, <1>3 DEF Solo
    <2>4. \A k \in 1 .. alloc_q : Sure(alloc_a[k])' <=> Sure(alloc_a[k])
      BY <2>1 DEF Sure
    <2>5. QED
      BY <1>1, <1>3, <1>5, <2>1, <2>2, <2>3, <2>4 DEF Solo
  <1>7. CASE Alloc(t)
    <2>1. /\ pc[t] = "alloc" /\ pc'[t] = "idle" /\ nb'[t] = None /\ UNCHANGED <<heap, inited>>
      BY <1>1, <1>7 DEF Alloc, Finish, Goto, IsAt, memory
    <2>2. nb[t] \in Addrs /\ heap[nb[t]] # 0
      BY <1>1, <2>1, Basics DEF InPlace, Ownership, OwnedOnce
    <2>3. /\ alloc_q' = alloc_q + 1 /\ alloc_a'[alloc_q'] = [ptr |-> nb[t], id |-> heap[nb[t]]]
          /\ \A k \in 1 .. alloc_q : alloc_a'[k] = alloc_a[k]
      BY <1>7, EntriesAfter
    <2>4. alloc_a'[alloc_q'].ptr = nb[t] /\ Sure(alloc_a[alloc_q])'
      BY <2>1, <2>2, <2>3 DEF Sure
    <2>5. \A k \in 1 .. alloc_q : alloc_a'[k].ptr = alloc_a[k].ptr /\ Sure(alloc_a[k])' /\ alloc_a'[k].ptr # nb[t]
      BY <1>3, <2>1, <2>3 DEF Solo, Sure
    <2>6. \A k \in 1 .. alloc_q' : k = alloc_q' \/ k \in 1 .. alloc_q
      BY <1>1, <2>3
    <2>7. \A k \in 1 .. alloc_q' : Sure(alloc_a[k])' /\ nb'[t] # alloc_a'[k].ptr
      BY <1>1, <1>5, <2>1, <2>2, <2>4, <2>5, <2>6
    <2>8. \A k, l \in 1 .. alloc_q' : alloc_a'[k].ptr = alloc_a'[l].ptr => k = l
      BY <1>3, <2>4, <2>5, <2>6 DEF Solo
    <2>9. inited' # 0
      BY <1>3, <2>1 DEF Solo
    <2>10. QED
      BY <2>7, <2>8, <2>9 DEF Solo
  <1>8. CASE AllocGivesUp(t)
    <2>1. alloc_a' = <<>> /\ alloc_q' = 0 /\ pc'[t] = "idle"
      BY <1>1, <1>8 DEF AllocGivesUp, Finish, Goto, alloc_q
    <2>2. QED
      BY <2>1 DEF Solo
  <1>9. CASE Free(t)
    <2>1. /\ UNCHANGED <<heap, inited>> /\ pc'[t] \in {"alloc_check", "idle"} /\ nb'[t] \in {nb[t], None}
      BY <1>1, <1>9 DEF Free, AfterFree, Finish, Goto, memory
    <2>2. \A k \in 1 .. alloc_q : alloc_a[k].ptr = b[t] \/ (Sure(alloc_a[k]) /\ alloc_a[k].ptr # nb[t])
      BY <1>3 DEF Solo
    <2>3. LastEntry(b[t]) \in 0 .. alloc_q
          /\ (LastEntry(b[t]) = 0 => \A k \in 1 .. alloc_q : alloc_a[k].ptr # b[t])
          /\ (LastEntry(b[t]) # 0 => alloc_a[LastEntry(b[t])].ptr = b[t])
      BY <1>1, LastEntryFound
    <2>4. /\ \A k, l \in 1 .. alloc_q' : alloc_a'[k].ptr = alloc_a'[l].ptr => k = l
          /\ \A k \in 1 .. alloc_q' : alloc_a'[k].ptr # b[t] /\ \E m \in 1 .. alloc_q : alloc_a'[k] = alloc_a[m]
      <3>1. CASE LastEntry(b[t]) = 0
        <4>1. alloc_a' = alloc_a /\ alloc_q' = alloc_q
          BY <1>9, <3>1, EntriesAfter DEF alloc_q
        <4>2. QED
          BY <1>3, <2>3, <3>1, <4>1 DEF Solo
      <3>2. CASE LastEntry(b[t]) # 0
        <4>1. alloc_a' = Removed(alloc_a, LastEntry(b[t])) /\ alloc_q' = Len(alloc_a')
          BY <1>9, <3>2, EntriesAfter DEF alloc_q
        <4>2. LastEntry(b[t]) \in 1 .. Len(alloc_a)
          BY <1>1, <2>3, <3>2
        <4>3. \A l, m \in 1 .. Len(alloc_a) : alloc_a[l].ptr = alloc_a[m].ptr => l = m
          BY <1>1, <1>3 DEF Solo
        <4> DEFINE n == LastEntry(b[t])
                   rest == Removed(alloc_a, n)
        <4>4. /\ \A l, m \in 1 .. Len(rest) : rest[l].ptr = rest[m].ptr => l = m
              /\ \A l \in 1 .. Len(rest) : /\ rest[l].ptr # alloc_a[n].ptr
                                            /\ \E m \in 1 .. Len(alloc_a) : rest[l] = alloc_a[m]
          BY <1>1, <4>2, <4>3, RemovedOnce
        <4> HIDE DEF rest
        <4>5. QED
          BY <1>1, <2>3, <3>2, <4>1, <4>4 DEF rest
      <3>3. QED
        BY <3>1, <3>2
    <2>5. \A k \in 1 .. alloc_q' : Sure(alloc_a[k])' /\ alloc_a'[k].ptr # nb'[t]
      BY <1>5, <2>1, <2>2, <2>4 DEF Sure
    <2>6. inited' = 0 => alloc_a' = <<>>
      <3>1. inited' = 0 => alloc_q = 0 /\ alloc_a = <<>>
        BY <1>1, <1>3, <2>1 DEF Solo
      <3>2. inited' = 0 => LastEntry(b[t]) = 0
        BY <2>3, <3>1
      <3>3. QED
        BY <1>9, <3>1, <3>2, EntriesAfter
    <2>7. QED
      BY <2>1, <2>4, <2>5, <2>6 DEF Solo
  <1>10. CASE Release(t)
    <2>1. /\ pc[t] = "release" /\ pc'[t] = "free_check" /\ b'[t] = b[t] /\ nb'[t] = nb[t]
          /\ UNCHANGED <<alloc_a, alloc_q, inited>>
      BY <1>1, <1>10 DEF Release, Goto, IsAt, tracking, alloc_q
    <2>2. \A a \in Addrs : heap'[a] = IF a = b[t] THEN 0 ELSE heap[a]
      BY <1>10, HeapAfter
    <2>3. \A k \in 1 .. alloc_q : alloc_a[k].ptr = b[t] \/ Sure(alloc_a[k])'
      BY <1>3, <1>5, <2>1, <2>2 DEF Solo, Sure
    <2>4. QED
      BY <1>3, <2>1, <2>3 DEF Solo
  <1>11. CASE \E o, x \in Addrs : Malloc(t, x) \/ ProtectRealloc(t, o, x)
    <2>1. PICK o \in Addrs, x \in Addrs : Malloc(t, x) \/ ProtectRealloc(t, o, x)
      BY <1>11
    <2>2. /\ pc[t] = "idle" /\ nb'[t] = x /\ UNCHANGED <<alloc_a, alloc_q, inited>> /\ pc'[t] # "alloc"
      BY <1>1, <2>1 DEF Malloc, ProtectRealloc, Goto, IsAt, tracking, alloc_q
    <2>3. heap[x] = 0 /\ \A a \in Addrs : a # x => heap'[a] = heap[a]
      BY <2>1, HeapAfter
    <2>4. \A k \in 1 .. alloc_q : Sure(alloc_a[k])' /\ alloc_a[k].ptr # x
      BY <1>3, <1>5, <2>2, <2>3 DEF Solo, Sure
    <2>5. QED
      BY <1>3, <2>2, <2>4 DEF Solo
  <1>12. CASE \E o, x \in Addrs : Realloc(t, o, x)
    <2>1. PICK o \in Addrs, x \in Addrs : Realloc(t, o, x)
      BY <1>12
    <2>2. /\ pc[t] = "idle" /\ nb'[t] = x /\ b'[t] = o /\ UNCHANGED <<alloc_a, alloc_q, inited>>
          /\ pc'[t] = "free_check"
      BY <1>1, <2>1 DEF Realloc, Goto, IsAt, tracking, alloc_q
    <2>3. /\ heap[x] = 0 \/ x = o
          /\ \A a \in Addrs : a # x => heap'[a] = IF a = o THEN 0 ELSE heap[a]
      BY <2>1, HeapAfter
    <2>4. \A k \in 1 .. alloc_q : alloc_a[k].ptr = o \/ (Sure(alloc_a[k])' /\ alloc_a[k].ptr # x)
      BY <1>3, <1>5, <2>2, <2>3 DEF Solo, Sure
    <2>5. QED
      BY <1>3, <2>2, <2>4 DEF Solo
  <1>13. QED
    BY <1>6, <1>7, <1>8, <1>9, <1>10, <1>11, <1>12 DEF Step, Handler

-----------------------------------------------------------------------------
(* The touched guard page.                                                 *)

\* A block at hand in exceptionWalker() stays, and so its entry is found and is right.
LEMMA BlameStep ==
  ASSUME LeakInv, NEW t \in program, Step(t)
  PROVE  BlameFindsBlock'
  <1>1. /\ Running /\ Running' /\ t \in Threads /\ InPlace(t) /\ UNCHANGED <<program, protect>>
        /\ pc \in [Threads -> Places] /\ b \in [Threads -> Addrs \cup {None}] /\ alloc_a \in Seq(EntryOf)
        /\ \A u \in Threads : u # t => pc'[u] = pc[u] /\ b'[u] = b[u]
        /\ \A u \in Threads \ program : pc[u] = "idle"
        /\ faults' = 0 => faults = 0
    BY StepView, FaultsOnce, Basics DEF PlacesKnown
  <1> SUFFICES ASSUME NEW u \in Threads, pc'[u] \in {"explained", "dying"}, b'[u] # None
               PROVE  /\ faults' = 0 => \E e \in blamed' : e.ptr = b'[u]
                      /\ OneThread' => \A e \in blamed' : e.id = heap'[b'[u]]
    BY DEF BlameFindsBlock
  <1>2. OneThread' => OneThread
    BY <1>1 DEF OneThread
  <1>3. CASE Explain(t)
    <2>1. /\ pc[t] = "explain" /\ InHandler(t)' /\ InHandler(u)' /\ b' = b /\ heap' = heap
          /\ blamed' = {alloc_a[k] : k \in {LastEntry(b[t])} \ {0}} /\ protect
      BY <1>1, <1>3 DEF Explain, Goto, IsAt, InHandler, memory, InPlace
    <2>2. u = t
      BY <1>1, <2>1, PlacesStep DEF PlacesKnown
    <2>3. /\ b[t] \in Addrs /\ Holds(t, b[t])
          /\ LastEntry(b[t]) # 0 => LastEntry(b[t]) \in 1 .. alloc_q /\ alloc_a[LastEntry(b[t])].ptr = b[t]
      BY <1>1, <2>1, <2>2, Basics, LastEntryFound DEF Holds, HoldPlaces
    <2>4. faults = 0 => inited # 0
      BY <2>1, Basics DEF Untroubled
    <2>5. faults = 0 => LastEntry(b[t]) # 0
      BY <1>1, <2>3, <2>4, EntryThere
    <2>6. ASSUME OneThread, LastEntry(b[t]) # 0
          PROVE  alloc_a[LastEntry(b[t])].id = heap[b[t]]
      <3>1. program = {t}
        BY <2>6, OnlyOne
      <3>2. ~ Stale(alloc_a[LastEntry(b[t])])
        BY <2>1, <3>1 DEF Stale
      <3>3. QED
        BY <1>1, <2>3, <2>6, <3>2, Basics DEF Alone
    <2>7. faults' = 0 => \E e \in blamed' : e.ptr = b'[u]
      BY <1>1, <2>1, <2>2, <2>3, <2>5
    <2>8. OneThread' => \A e \in blamed' : e.id = heap'[b'[u]]
      BY <1>2, <2>1, <2>2, <2>6
    <2>9. QED
      BY <2>7, <2>8
  <1>4. CASE ~ Explain(t)
    <2>1. UNCHANGED blamed
      BY <1>4 DEF Step, AllocCheck, Alloc, AllocGivesUp, FreeCheck, Free, GetSize, Release, Fault, LeaveHandler,
         Malloc, BeginFree, ReallocFails, Realloc, ProtectRealloc, output
    <2>2. pc'[t] \in {"explained", "dying"} => LeaveHandler(t)
      BY <1>1, <1>4 DEF Step, AllocCheck, Alloc, AllocGivesUp, FreeCheck, Free, GetSize, Release, Fault,
         Malloc, BeginFree, ReallocFails, Realloc, ProtectRealloc, AfterFree, Finish, Goto, IsAt
    <2>3. LeaveHandler(t) => pc[t] = "explained" /\ b' = b /\ heap' = heap
      BY DEF LeaveHandler, IsAt, memory
    <2>4. pc[u] \in {"explained", "dying"} /\ b'[u] = b[u]
      BY <1>1, <2>2, <2>3
    <2>5. OneThread => heap' = heap
      <3>1. u \in program
        BY <1>1, <2>4
      <3>2. OneThread => u = t
        BY <3>1, OnlyOne
      <3>3. QED
        BY <2>2, <2>3, <3>2
    <2>6. /\ faults = 0 => \E e \in blamed : e.ptr = b[u]
          /\ OneThread => \A e \in blamed : e.id = heap[b[u]]
      BY <2>4, Basics DEF BlameFindsBlock
    <2>7. QED
      BY <1>1, <1>2, <2>1, <2>4, <2>5, <2>6
  <1>5. QED
    BY <1>3, <1>4

\* A step of a thread keeps the invariant.
LEMMA ThreadStep ==
  ASSUME LeakInv, NEW t \in program, Step(t)
  PROVE  LeakInv'
  <1>1. /\ Running' /\ UNCHANGED <<flagged, reported>> /\ reported = <<>> /\ flagged = {}
        /\ program' # {} /\ program' \subseteq Threads
    BY StepView, Basics DEF ReportSoFar, PlacesKnown
  <1>2. ~ Exiting' /\ ~ Exited'
    BY <1>1 DEF Running, Exiting, Exited, IsAt
  <1>3. Reported' = {}
    BY <1>1 DEF Reported
  <1>4. TableAtExit' /\ ReportSoFar' /\ ReportSound' /\ ReportComplete'
    BY <1>1, <1>2, <1>3 DEF TableAtExit, ReportSoFar, ReportSound, ReportComplete
  <1>5. QED
    BY <1>4, TypeStep, PlacesStep, OwnershipStep, UntroubledStep, BalanceStep, AloneStep, BlameStep DEF LeakInv

-----------------------------------------------------------------------------
(* The report.                                                             *)

\* The program has threads, so that it runs, exits or has exited, and only one of the three.
LEMMA OnePhase ==
  ASSUME PlacesKnown
  PROVE  /\ Running => ~ Exiting /\ ~ Exited
         /\ Exiting => ~ Running /\ ~ Exited
         /\ Exited => ~ Running /\ ~ Exiting
  BY DEF PlacesKnown, Running, Exiting, Exited, IsAt

\* What the table holds for an address that has no more than one block.
LEMMA EntriesFew ==
  ASSUME LeakInv, NEW a
  PROVE  /\ Entries(a) \in Nat
         /\ Entries(a) <= 1 => \A k, l \in 1 .. alloc_q : alloc_a[k].ptr = a /\ alloc_a[l].ptr = a => k = l
         /\ Entries(a) # 0 <=> \E k \in 1 .. alloc_q : alloc_a[k].ptr = a
  <1>1. Entries(a) = Cardinality(At(alloc_a, a)) /\ Entries(a) \in Nat /\ IsFiniteSet(At(alloc_a, a))
    BY Basics, AtFinite DEF Entries, At
  <1>2. Entries(a) # 0 <=> At(alloc_a, a) # {}
    BY <1>1, FS_EmptySet
  <1>3. ASSUME Entries(a) <= 1, NEW k \in At(alloc_a, a), NEW l \in At(alloc_a, a) PROVE k = l
    <2>1. Entries(a) = 1
      BY <1>1, <1>2, <1>3
    <2>2. PICK x : At(alloc_a, a) = {x}
      BY <1>1, <2>1, FS_Singleton
    <2>3. QED
      BY <2>2
  <1>4. QED
    BY <1>1, <1>2, <1>3, Basics DEF At

\* When the program ends, the table has what endfunc() is to report.
LEMMA ExitTable ==
  ASSUME LeakInv, Exit, Running
  PROVE  TableAtExit'
  <1>1. /\ UNCHANGED <<heap, inited, faults, program>> /\ alloc_a' = IF inited = 2 THEN <<>> ELSE alloc_a
        /\ alloc_q' = Len(alloc_a')
    BY DEF Exit, memory, inputs, alloc_q
  <1>2. CASE inited = 2
    BY <1>1, <1>2 DEF TableAtExit
  <1>3. CASE inited # 2
    <2>1. alloc_a' = alloc_a /\ alloc_q' = alloc_q
      BY <1>1, <1>3 DEF alloc_q
    <2>2. \A k \in 1 .. alloc_q : alloc_a[k].ptr \in Addrs
      <3>1. \A k \in 1 .. alloc_q : alloc_a[k] \in EntryOf
        BY Basics
      <3>2. QED
        BY <3>1 DEF EntryOf
    <2>3. faults = 0 => \A t \in Threads : pc[t] = "idle" /\ b[t] = None /\ nb[t] = None
      <3>1. faults = 0 => \A t \in Threads : pc[t] # "dying"
        BY <1>3, Basics DEF Untroubled
      <3>2. faults = 0 => \A t \in Threads : pc[t] = "idle"
        BY <3>1 DEF Exit, IsAt
      <3>3. QED
        BY <3>2, Basics DEF PlacesKnown, InPlace, NewPlaces
    <2>4. faults = 0 /\ inited # 0 => \A a \in Addrs : Entries(a) = Live(a)
      <3>1. ASSUME faults = 0, NEW a \in Addrs PROVE Announcing(a) = {} /\ Withdrawing(a) = {}
        BY <2>3, <3>1, Basics DEF Announcing, Withdrawing
      <3>2. ASSUME faults = 0, inited # 0, NEW a \in Addrs PROVE Entries(a) = Live(a)
        <4>1. Entries(a) + Cardinality(Announcing(a)) = Live(a) + Cardinality(Withdrawing(a))
          BY <3>2, Basics DEF Balance
        <4>2. Cardinality(Announcing(a)) = 0 /\ Cardinality(Withdrawing(a)) = 0
          BY <3>1, <3>2, FS_EmptySet
        <4>3. Entries(a) \in Nat /\ Live(a) \in Nat
          BY EntriesFew DEF Live
        <4>4. QED
          BY <4>1, <4>2, <4>3
      <3>3. QED
        BY <3>2
    <2>5. faults = 0 /\ inited = 0 => alloc_q = 0
      BY Basics DEF Untroubled, alloc_q
    <2>6. faults = 0 => \A k \in 1 .. alloc_q : heap[alloc_a[k].ptr] # 0
      BY <2>2, <2>4, <2>5, EntriesFew DEF Live
    <2>7. OneThread => \A k \in 1 .. alloc_q : Sure(alloc_a[k])
      <3>1. OneThread => \A t \in program : pc[t] \in {"idle", "dying"}
        <4>1. CASE \A t \in Threads : pc[t] = "idle"
          BY <4>1, Basics
        <4>2. CASE \E t \in Threads : pc[t] = "dying"
          <5>1. PICK t \in Threads : pc[t] = "dying"
            BY <4>2
          <5>2. t \in program
            BY <5>1, Basics DEF PlacesKnown
          <5>3. QED
            BY <5>1, <5>2, OnlyOne
        <4>3. QED
          BY <4>1, <4>2 DEF Exit, IsAt
      <3>2. QED
        BY <3>1, Basics DEF Alone, Stale, Sure
    <2>8. inited = 1 /\ faults = 0 =>
            /\ \A k, l \in 1 .. alloc_q : alloc_a[k].ptr = alloc_a[l].ptr => k = l
            /\ \A a \in Addrs : heap[a] # 0 => \E k \in 1 .. alloc_q : alloc_a[k].ptr = a
      <3>1. inited = 1 /\ faults = 0 => \A a \in Addrs : Entries(a) <= 1 /\ (heap[a] # 0 => Entries(a) # 0)
        BY <2>4 DEF Live
      <3>2. QED
        BY <2>2, <3>1, EntriesFew
    <2>9. OneThread' <=> OneThread
      BY <1>1 DEF OneThread
    <2>10. QED
      BY <1>1, <2>1, <2>6, <2>7, <2>8, <2>9 DEF TableAtExit, Sure
  <1>4. QED
    BY <1>2, <1>3

\* The program ends.
LEMMA ExitStep ==
  ASSUME LeakInv, Exit
  PROVE  LeakInv'
  <1>1. /\ TypeOK /\ PlacesKnown /\ ReportSoFar /\ pc \in [Threads -> Places] /\ program # {}
        /\ program \subseteq Threads /\ alloc_a \in Seq(EntryOf) /\ Untroubled
    BY Basics DEF PlacesKnown
  <1>2. /\ UNCHANGED <<program, protect, heap, blocks, own, inited, alloc_s, alarm, b, nb, reported, blamed, faults>>
        /\ alloc_a' = IF inited = 2 THEN <<>> ELSE alloc_a
        /\ i' = 1 /\ flagged' = 1 .. Len(alloc_a') /\ pc' = [t \in Threads |-> "exiting"]
    BY DEF Exit, memory, inputs
  <1>3. Exiting' /\ \A t \in Threads : pc'[t] = "exiting"
    BY <1>2 DEF Exiting, IsAt
  <1>4. Running /\ ~ Running' /\ ~ Exited'
    <2>1. Running
      BY <1>1 DEF Exit, PlacesKnown, Exiting, Exited, IsAt
    <2>2. QED
      BY <1>1, <1>2, <1>3, <2>1 DEF Running, Exited, IsAt
  <1>5. reported = <<>> /\ Reported' = {}
    BY <1>1, <1>2, <1>4 DEF ReportSoFar, Reported
  <1>6. alloc_a' \in Seq(EntryOf) /\ alloc_q' <= alloc_s' /\ flagged' = 1 .. alloc_q'
    BY <1>1, <1>2 DEF TypeOK, alloc_q
  <1>7. TypeOK'
    BY <1>1, <1>2, <1>3, <1>6 DEF TypeOK, Places
  <1>8. PlacesKnown'
    BY <1>1, <1>2, <1>3, <1>4 DEF PlacesKnown, InHandler
  <1>9. Ownership' /\ Balance' /\ Alone'
    BY <1>4 DEF Ownership, Balance, Alone
  <1>10. Untroubled'
    BY <1>1, <1>2, <1>3, <1>4 DEF Untroubled
  <1>11. BlameFindsBlock'
    BY <1>3 DEF BlameFindsBlock
  <1>12. TableAtExit'
    BY <1>4, ExitTable
  <1>13. ReportSoFar'
    <2>1. reported' = <<>> /\ DOMAIN reported' = {}
      BY <1>2, <1>5
    <2>2. {alloc_a'[k] : k \in 1 .. alloc_q' \ flagged'} = {}
      BY <1>6
    <2>3. i' = 1 /\ flagged' \subseteq i' .. alloc_q'
      BY <1>2, <1>6
    <2>4. i' >= 1
      BY <1>2
    <2>5. Reported' = {alloc_a'[k] : k \in 1 .. alloc_q' \ flagged'}
      BY <1>5, <2>2
    <2>6. \A g \in DOMAIN reported' : FALSE
      BY <2>1
    <2>7. QED
      BY <1>4, <2>3, <2>4, <2>5, <2>6 DEF ReportSoFar
  <1>14. ReportSound' /\ ReportComplete'
    BY <1>4, <1>5 DEF ReportSound, ReportComplete
  <1>15. QED
    BY <1>7, <1>8, <1>9, <1>10, <1>11, <1>12, <1>13, <1>14 DEF LeakInv

\* A group has at least the entry that it is made for.
LEMMA SameCounted ==
  ASSUME LeakInv, Exiting, i <= alloc_q, i \in flagged
  PROVE  /\ Same \subseteq flagged /\ i \in Same /\ IsFiniteSet(Same) /\ Cardinality(Same) \in Nat \ {0}
         /\ \A k \in flagged : k \in Same <=> Site[alloc_a[k].id] = Site[alloc_a[i].id]
         /\ flagged \subseteq 1 .. alloc_q /\ SameGroup \in GroupOf
  <1>1. /\ flagged \subseteq i .. alloc_q /\ i \in Nat \ {0} /\ alloc_q \in Nat
    BY Basics DEF ReportSoFar, TypeOK
  <1>2. /\ Same \subseteq flagged /\ i \in Same
        /\ \A k \in flagged : k \in Same <=> Site[alloc_a[k].id] = Site[alloc_a[i].id]
    BY <1>1 DEF Same
  <1>3. flagged \subseteq 1 .. alloc_q
    BY <1>1
  <1>4. IsFiniteSet(Same)
    <2>1. IsFiniteSet(1 .. alloc_q)
      BY <1>1, FS_Interval
    <2>2. QED
      BY <1>2, <1>3, <2>1, FS_Subset
  <1>5. Cardinality(Same) \in Nat \ {0}
    BY <1>2, <1>4, FS_CardinalityType, FS_EmptySet
  <1>6. \A k \in 1 .. alloc_q : alloc_a[k] \in EntryOf /\ alloc_a[k].id \in 1 .. MaxBlocks
    <2>1. \A k \in 1 .. alloc_q : alloc_a[k] \in EntryOf
      BY Basics
    <2>2. QED
      BY <2>1 DEF EntryOf
  <1>7. Site[alloc_a[i].id] \in {Site[n] : n \in 1 .. MaxBlocks}
    BY <1>3, <1>6
  <1>8. {alloc_a[k] : k \in Same} \in SUBSET EntryOf
    BY <1>2, <1>3, <1>6
  <1>9. SameGroup \in GroupOf
    BY <1>5, <1>7, <1>8 DEF SameGroup, GroupOf
  <1>10. QED
    BY <1>2, <1>3, <1>4, <1>5, <1>9

\* Where each address has one entry, a group has as many addresses as entries.
LEMMA GroupCounted ==
  ASSUME NEW s, NEW S, IsFiniteSet(S), \A k, l \in S : s[k].ptr = s[l].ptr => k = l
  PROVE  Cardinality({e.ptr : e \in {s[k] : k \in S}}) = Cardinality(S)
  <1> DEFINE T == {e.ptr : e \in {s[k] : k \in S}}
             f == [k \in S |-> s[k].ptr]
  <1>1. f \in [S -> T] /\ \A x \in T : \E k \in S : f[k] = x
    OBVIOUS
  <1>2. f \in Bijection(S, T)
    BY <1>1 DEF Bijection, Injection, Surjection, IsInjective
  <1>3. QED
    BY <1>2, FS_Bijection DEF ExistsBijection

\* One more group: it has the entries that lose their flags, and no other group has
\* their flag and stack.
LEMMA GroupAdded ==
  ASSUME LeakInv, Exiting, i <= alloc_q, i \in flagged, reported' = Append(reported, SameGroup)
  PROVE  /\ reported' \in Seq(GroupOf) /\ Reported' = Reported \cup {alloc_a[k] : k \in Same}
         /\ \A g \in DOMAIN reported' : \/ g \in DOMAIN reported /\ reported'[g] = reported[g]
                                        \/ g = Len(reported) + 1 /\ reported'[g] = SameGroup
         /\ \A g, h \in DOMAIN reported' : reported'[h].site = reported'[g].site => h = g
  <1>1. reported \in Seq(GroupOf) /\ SameGroup \in GroupOf /\ Len(reported) \in Nat
    BY Basics, SameCounted DEF TypeOK
  <1>2. /\ reported' \in Seq(GroupOf) /\ DOMAIN reported = 1 .. Len(reported)
        /\ DOMAIN reported' = 1 .. Len(reported) + 1 /\ reported'[Len(reported) + 1] = SameGroup
        /\ \A g \in 1 .. Len(reported) : reported'[g] = reported[g]
    BY <1>1
  <1>3. DOMAIN reported' = DOMAIN reported \cup {Len(reported) + 1}
    BY <1>1, <1>2
  <1>4. \A g \in DOMAIN reported' : \/ g \in DOMAIN reported /\ reported'[g] = reported[g]
                                    \/ g = Len(reported) + 1 /\ reported'[g] = SameGroup
    <2> TAKE g \in DOMAIN reported'
    <2>1. g \in DOMAIN reported => reported'[g] = reported[g]
      BY <1>2, Zenon
    <2>2. g = Len(reported) + 1 => reported'[g] = SameGroup
      BY <1>2, Zenon
    <2>3. g \in DOMAIN reported \/ g = Len(reported) + 1
      BY <1>3, Zenon
    <2>4. QED
      BY <2>1, <2>2, <2>3, Zenon
  <1>5. Reported' = Reported \cup SameGroup.of
    <2>1. Reported' = UNION {reported'[g].of : g \in DOMAIN reported'}
      BY DEF Reported
    <2>2. {reported'[g].of : g \in DOMAIN reported'} =
            {reported[g].of : g \in DOMAIN reported} \cup {SameGroup.of}
      <3>1. \A g \in DOMAIN reported : reported'[g] = reported[g]
        BY <1>2, Zenon
      <3>2. reported'[Len(reported) + 1] = SameGroup
        BY <1>2, Zenon
      <3> DEFINE L == {reported'[g].of : g \in DOMAIN reported'}
                 O == {reported[g].of : g \in DOMAIN reported}
      <3>3. ASSUME NEW x \in L
            PROVE  x \in O \cup {SameGroup.of}
        <4>1. PICK g \in DOMAIN reported' : x = reported'[g].of
          BY <3>3, Zenon
        <4>2. CASE g \in DOMAIN reported
          BY <4>1, <4>2, <3>1, Zenon
        <4>3. CASE g = Len(reported) + 1
          BY <4>1, <4>3, <3>2, Zenon
        <4>4. QED
          BY <4>1, <4>2, <4>3, <1>3, Zenon
      <3>4. O \subseteq L
        <4> SUFFICES ASSUME NEW g \in DOMAIN reported PROVE reported[g].of \in L
          BY Zenon
        <4>1. g \in DOMAIN reported' /\ reported'[g] = reported[g]
          BY <1>3, <3>1, Zenon
        <4>2. QED
          BY <4>1, Zenon
      <3>5. SameGroup.of \in L
        BY <1>3, <3>2, Zenon
      <3>6. QED
        BY <3>3, <3>4, <3>5, Zenon
    <2>3. QED
      BY <2>1, <2>2 DEF Reported
  <1>6. SameGroup.of = {alloc_a[k] : k \in Same} /\ SameGroup.site = Site[alloc_a[i].id]
    BY DEF SameGroup
  <1>7. /\ \A g \in DOMAIN reported : reported[g].site # SameGroup.site
        /\ \A g, h \in DOMAIN reported : reported[h].site = reported[g].site => h = g
    BY <1>6, Basics DEF ReportSoFar
  <1>8. \A g, h \in DOMAIN reported' : reported'[h].site = reported'[g].site => h = g
    BY <1>4, <1>7
  <1>9. QED
    BY <1>2, <1>4, <1>5, <1>6, <1>8

\* endfunc() looks at one entry.
LEMMA ReportStep ==
  ASSUME LeakInv, Report
  PROVE  LeakInv'
  <1>1. /\ UNCHANGED <<program, protect, heap, blocks, own, inited, alloc_a, alloc_s, alarm, pc, b, nb, blamed, faults>>
        /\ Exiting /\ i <= alloc_q /\ i' = i + 1 /\ alloc_q' = alloc_q
    BY DEF Report, memory, inputs, tracking, alloc_q
  <1>2. /\ Exiting' /\ ~ Running' /\ ~ Exited' /\ ~ Running /\ ~ Exited
    BY <1>1, OnePhase, Basics DEF Exiting, Running, Exited, IsAt
  <1>3. /\ TypeOK /\ alloc_q \in Nat /\ i \in Nat \ {0} /\ flagged \subseteq i .. alloc_q
        /\ Reported = {alloc_a[k] : k \in 1 .. alloc_q \ flagged}
        /\ reported \in Seq(GroupOf) /\ TableAtExit /\ Untroubled /\ PlacesKnown
    BY <1>1, Basics DEF ReportSoFar, TypeOK
  <1>4. PlacesKnown'
    BY <1>1, <1>2, <1>3 DEF PlacesKnown, InHandler
  <1>5. Ownership' /\ Balance' /\ Alone' /\ Untroubled'
    BY <1>1, <1>2, <1>3 DEF Ownership, Balance, Alone, Untroubled
  <1>6. BlameFindsBlock'
    BY <1>2 DEF Exiting, IsAt, BlameFindsBlock
  <1>7. TableAtExit'
    BY <1>1, <1>3 DEF TableAtExit, OneThread
  <1>8. /\ reported' \in Seq(GroupOf) /\ flagged' \subseteq i' .. alloc_q'
        /\ Reported' = {alloc_a[k] : k \in 1 .. alloc_q \ flagged'}
        /\ \A g \in DOMAIN reported', k \in flagged' : Site[alloc_a[k].id] # reported'[g].site
        /\ \A g, h \in DOMAIN reported' : reported'[h].site = reported'[g].site => h = g
        /\ inited = 1 /\ faults = 0 =>
             \A g \in DOMAIN reported' : reported'[g].nmb = Cardinality({e.ptr : e \in reported'[g].of})
    <2>1. CASE i \notin flagged
      <3>1. UNCHANGED <<reported, flagged>> /\ Reported' = Reported
        BY <2>1 DEF Report, Reported
      <3>2. flagged' \subseteq i' .. alloc_q'
        BY <1>1, <1>3, <2>1, <3>1
      <3>3. QED
        BY <1>1, <1>3, <3>1, <3>2, Basics DEF ReportSoFar
    <2>2. CASE i \in flagged
      <3>1. reported' = Append(reported, SameGroup) /\ flagged' = flagged \ Same
        BY <2>2 DEF Report
      <3>2. /\ Same \subseteq flagged /\ i \in Same /\ IsFiniteSet(Same) /\ flagged \subseteq 1 .. alloc_q
            /\ \A k \in flagged : k \in Same <=> Site[alloc_a[k].id] = Site[alloc_a[i].id]
        BY <1>1, <2>2, SameCounted
      <3>3. /\ reported' \in Seq(GroupOf) /\ Reported' = Reported \cup {alloc_a[k] : k \in Same}
            /\ \A g \in DOMAIN reported' : \/ g \in DOMAIN reported /\ reported'[g] = reported[g]
                                           \/ g = Len(reported) + 1 /\ reported'[g] = SameGroup
            /\ \A g, h \in DOMAIN reported' : reported'[h].site = reported'[g].site => h = g
        BY <1>1, <2>2, <3>1, GroupAdded
      <3>4. flagged' \subseteq i' .. alloc_q'
        BY <1>1, <1>3, <3>1, <3>2
      <3>5. Reported' = {alloc_a[k] : k \in 1 .. alloc_q \ flagged'}
        <4>1. 1 .. alloc_q \ flagged' = (1 .. alloc_q \ flagged) \cup Same
          BY <3>1, <3>2
        <4>2. QED
          BY <1>3, <3>3, <4>1
      <3>6. SameGroup.site = Site[alloc_a[i].id] /\ SameGroup.nmb = Cardinality(Same)
            /\ SameGroup.of = {alloc_a[k] : k \in Same}
        BY DEF SameGroup
      <3>7. \A g \in DOMAIN reported', k \in flagged' : Site[alloc_a[k].id] # reported'[g].site
        <4>1. \A g \in DOMAIN reported, k \in flagged : Site[alloc_a[k].id] # reported[g].site
          BY <1>1, Basics DEF ReportSoFar
        <4>2. QED
          BY <3>1, <3>2, <3>3, <3>6, <4>1
      <3>8. inited = 1 /\ faults = 0 => SameGroup.nmb = Cardinality({e.ptr : e \in SameGroup.of})
        <4>1. inited = 1 /\ faults = 0 => \A k, l \in Same : alloc_a[k].ptr = alloc_a[l].ptr => k = l
          BY <1>1, <1>3, <3>2 DEF TableAtExit
        <4>2. (\A k, l \in Same : alloc_a[k].ptr = alloc_a[l].ptr => k = l)
                => Cardinality({e.ptr : e \in {alloc_a[k] : k \in Same}}) = Cardinality(Same)
          <5> DEFINE S == Same
          <5>1. IsFiniteSet(S)
            BY <3>2
          <5> HIDE DEF S
          <5>2. (\A k, l \in S : alloc_a[k].ptr = alloc_a[l].ptr => k = l)
                  => Cardinality({e.ptr : e \in {alloc_a[k] : k \in S}}) = Cardinality(S)
            BY <5>1, GroupCounted
          <5>3. QED
            BY <5>2 DEF S
        <4>3. Cardinality({e.ptr : e \in SameGroup.of}) = Cardinality({e.ptr : e \in {alloc_a[k] : k \in Same}})
          BY <3>6, Zenon
        <4>4. QED
          BY <3>6, <4>1, <4>2, <4>3, Zenon
      <3>9. inited = 1 /\ faults = 0 =>
              \A g \in DOMAIN reported' : reported'[g].nmb = Cardinality({e.ptr : e \in reported'[g].of})
        BY <1>1, <3>3, <3>8, Basics DEF ReportSoFar
      <3>10. QED
        BY <3>3, <3>4, <3>5, <3>7, <3>9
    <2>3. QED
      BY <2>1, <2>2
  <1>9. ReportSoFar'
    BY <1>1, <1>2, <1>3, <1>8 DEF ReportSoFar
  <1>10. TypeOK'
    BY <1>1, <1>3, <1>8 DEF TypeOK
  <1>11. ReportSound'
    <2>1. \A e \in Reported' : \E k \in 1 .. alloc_q : e = alloc_a[k]
      BY <1>8
    <2>2. OneThread' <=> OneThread
      BY <1>1 DEF OneThread
    <2>3. \A k \in 1 .. alloc_q : /\ OneThread \/ faults = 0 => heap[alloc_a[k].ptr] # 0
                                  /\ OneThread => alloc_a[k].id = heap[alloc_a[k].ptr]
      BY <1>1, <1>3 DEF TableAtExit
    <2>4. QED
      BY <1>1, <2>1, <2>2, <2>3 DEF ReportSound
  <1>12. ReportComplete'
    BY <1>2 DEF ReportComplete
  <1>13. QED
    BY <1>4, <1>5, <1>6, <1>7, <1>9, <1>10, <1>11, <1>12 DEF LeakInv

\* endfunc() has seen every entry.
LEMMA EndStep ==
  ASSUME LeakInv, EndReport
  PROVE  LeakInv'
  <1>1. /\ UNCHANGED <<program, protect, heap, blocks, own, inited, alarm, b, nb, i, flagged, reported, blamed, faults>>
        /\ Exiting /\ i > alloc_q /\ alloc_a' = <<>> /\ alloc_s' = 0 /\ alloc_q' = 0
        /\ pc' = [t \in Threads |-> "exited"]
    BY DEF EndReport, memory, inputs, output, report, alloc_q
  <1>2. /\ TypeOK /\ PlacesKnown /\ Untroubled /\ alloc_q \in Nat /\ i \in Nat \ {0} /\ flagged \subseteq i .. alloc_q
        /\ Reported = {alloc_a[k] : k \in 1 .. alloc_q \ flagged} /\ TableAtExit /\ ReportSoFar
        /\ program # {} /\ program \subseteq Threads /\ ReportSound /\ alloc_a \in Seq(EntryOf)
    <2>1. /\ TypeOK /\ PlacesKnown /\ Untroubled /\ TableAtExit /\ ReportSoFar /\ ReportSound
          /\ alloc_a \in Seq(EntryOf) /\ alloc_q \in Nat
      BY Basics
    <2>2. /\ flagged \subseteq i .. alloc_q /\ Reported = {alloc_a[k] : k \in 1 .. alloc_q \ flagged}
          /\ i >= 1
      BY <1>1, <2>1 DEF ReportSoFar
    <2>3. i \in Nat
      BY <2>1 DEF TypeOK
    <2>4. program # {} /\ program \subseteq Threads
      BY <2>1 DEF PlacesKnown
    <2>5. i \in Nat \ {0}
      BY <2>2, <2>3
    <2>6. QED
      BY <2>1, <2>2, <2>4, <2>5
  <1>3. /\ Exited' /\ ~ Running' /\ ~ Exiting' /\ ~ Running
    <2>1. \A t \in Threads : pc'[t] = "exited"
      BY <1>1
    <2>2. \E t \in Threads : TRUE
      BY <1>2
    <2>3. ~ Running
      BY <1>1, <1>2, OnePhase
    <2>4. QED
      BY <2>1, <2>2, <2>3 DEF Exiting, Running, Exited, IsAt
  <1>4. flagged = {} /\ Reported = {alloc_a[k] : k \in 1 .. alloc_q}
    BY <1>1, <1>2
  <1>5. Reported' = Reported
    BY <1>1 DEF Reported
  <1>6. TypeOK'
    BY <1>1, <1>2, <1>4 DEF TypeOK, Places
  <1>7. PlacesKnown'
    BY <1>1, <1>2, <1>3 DEF PlacesKnown, InHandler
  <1>8. Ownership' /\ Balance' /\ Alone' /\ TableAtExit'
    BY <1>3 DEF Ownership, Balance, Alone, TableAtExit
  <1>9. Untroubled' /\ BlameFindsBlock'
    BY <1>1, <1>2, <1>3 DEF Untroubled, BlameFindsBlock
  <1>10. ReportSoFar'
    BY <1>1, <1>2, <1>3 DEF ReportSoFar
  <1>11. ReportSound'
    BY <1>1, <1>2, <1>5 DEF ReportSound, OneThread
  <1>12. ReportComplete'
    <2> SUFFICES ASSUME inited = 1, faults = 0
                 PROVE  /\ {e.ptr : e \in Reported} = {a \in Addrs : heap[a] # 0}
                        /\ \A g \in DOMAIN reported :
                             /\ reported[g].nmb = Cardinality({e.ptr : e \in reported[g].of})
                             /\ \A h \in DOMAIN reported : reported[h].site = reported[g].site => h = g
      BY <1>1, <1>5 DEF ReportComplete
    <2>1. \A k \in 1 .. alloc_q : heap[alloc_a[k].ptr] # 0
      BY <1>1, <1>2 DEF TableAtExit
    <2>2. \A k \in 1 .. alloc_q : alloc_a[k].ptr \in Addrs
      <3>1. \A k \in 1 .. alloc_q : alloc_a[k] \in EntryOf
        BY Basics
      <3>2. QED
        BY <3>1 DEF EntryOf
    <2>3. \A a \in Addrs : heap[a] # 0 => \E k \in 1 .. alloc_q : alloc_a[k].ptr = a
      BY <1>1, <1>2 DEF TableAtExit
    <2>4. {e.ptr : e \in Reported} = {a \in Addrs : heap[a] # 0}
      BY <1>4, <2>1, <2>2, <2>3
    <2>5. QED
      BY <1>1, <1>2, <2>4 DEF ReportSoFar
  <1>13. QED
    BY <1>6, <1>7, <1>8, <1>9, <1>10, <1>11, <1>12 DEF LeakInv

-----------------------------------------------------------------------------
(* Every run.                                                              *)

\* The program begins with nothing allocated.
LEMMA InitLeak == Init => LeakInv
  <1> SUFFICES ASSUME Init PROVE LeakInv
    OBVIOUS
  <1>0. program \subseteq Threads /\ program # {} /\ protect \in BOOLEAN
    <2>1. program \in (SUBSET Threads) \ {{}} /\ protect \in BOOLEAN
      BY DEF Init
    <2>2. QED
      BY <2>1
  <1>1. Running /\ ~ Exiting /\ ~ Exited /\ reported = <<>> /\ alloc_a = <<>> /\ alloc_q = 0
    <2>1. \A t \in Threads : pc[t] = "idle"
      BY DEF Init
    <2>2. \E t \in Threads : TRUE
      BY <1>0
    <2>3. reported = <<>> /\ alloc_a = <<>> /\ alloc_q = 0
      BY DEF Init, alloc_q
    <2>4. QED
      BY <2>1, <2>2, <2>3 DEF Running, Exiting, Exited, IsAt
  <1>2. TypeOK
    <2>1. heap \in [Addrs -> 0 .. MaxBlocks] /\ blocks \in 0 .. MaxBlocks /\ faults \in 0 .. MaxFaults
      BY SizesAssumption DEF Init
    <2>2. /\ pc \in [Threads -> Places] /\ b \in [Threads -> Addrs \cup {None}]
          /\ nb \in [Threads -> Addrs \cup {None}]
      BY DEF Init, Places
    <2>3. alloc_a \in Seq(EntryOf) /\ alloc_s = 0 /\ reported \in Seq(GroupOf) /\ own \subseteq Addrs
      BY DEF Init
    <2>4. inited \in 0 .. 2 /\ i \in Nat /\ flagged = {} /\ blamed = {} /\ alarm \in BOOLEAN
      <3>1. inited \in {1, 2} \cup {0, 1} /\ i = 0 /\ flagged = {} /\ blamed = {} /\ alarm = FALSE
        BY DEF Init
      <3>2. alarm \in BOOLEAN
        BY <3>1, Zenon
      <3>3. inited \in 0 .. 2 /\ i \in Nat
        BY <3>1
      <3>4. QED
        BY <3>1, <3>2, <3>3, Zenon
    <2>5. alloc_q <= alloc_s /\ alloc_s \in Nat /\ flagged \subseteq 1 .. alloc_q /\ blamed \in SUBSET EntryOf
      BY <1>1, <2>3, <2>4
    <2>6. QED
      BY <2>1, <2>2, <2>3, <2>4, <2>5 DEF TypeOK
  <1>3. PlacesKnown
    <2>1. \A t \in Threads : pc[t] = "idle" /\ b[t] = None /\ nb[t] = None
      BY DEF Init
    <2>2. QED
      BY <1>0, <1>1, <2>1 DEF PlacesKnown, InPlace, InHandler
  <1>4. Ownership
    BY NoneAssumption DEF Init, Ownership, OwnedOnce, Holds, HoldPlaces
  <1>5. Untroubled
    BY DEF Init, Untroubled
  <1>6. Balance
    <2>1. \A a \in Addrs : Announcing(a) = {} /\ Withdrawing(a) = {} /\ Live(a) = 0
      BY NoneAssumption DEF Init, Announcing, Withdrawing, Live
    <2>2. \A a \in Addrs : {k \in 1 .. alloc_q : alloc_a[k].ptr = a} = {}
      BY <1>1
    <2>3. \A a \in Addrs : Entries(a) = 0
      BY <2>2, FS_EmptySet DEF Entries
    <2>4. QED
      BY <2>1, <2>3, FS_EmptySet DEF Balance
  <1>7. Alone
    BY <1>1 DEF Init, Alone
  <1>8. BlameFindsBlock /\ TableAtExit
    BY <1>1 DEF Init, BlameFindsBlock, TableAtExit
  <1>9. Reported = {}
    BY <1>1 DEF Reported
  <1>10. ReportSoFar /\ ReportSound /\ ReportComplete
    BY <1>1, <1>9 DEF Init, ReportSoFar, ReportSound, ReportComplete
  <1>11. QED
    BY <1>2, <1>3, <1>4, <1>5, <1>6, <1>7, <1>8, <1>10 DEF LeakInv

\* Where nothing happens nothing is lost.
LEMMA LeakStutter ==
  ASSUME LeakInv, UNCHANGED vars
  PROVE  LeakInv'
  <1> USE DEF vars, alloc_q, Running, Exiting, Exited, IsAt
  <1>1. TypeOK' /\ Untroubled' /\ TableAtExit'
    BY Basics DEF TypeOK, Untroubled, TableAtExit, OneThread
  <1>2. PlacesKnown'
    BY Basics DEF PlacesKnown, InPlace, InHandler
  <1>3. Ownership'
    BY Basics DEF Ownership, OwnedOnce, Holds
  <1>4. Balance'
    <2>1. \A a : /\ Entries(a)' = Entries(a) /\ Announcing(a)' = Announcing(a)
                 /\ Withdrawing(a)' = Withdrawing(a) /\ Live(a)' = Live(a)
      BY DEF Entries, Announcing, Withdrawing, Live
    <2>2. QED
      BY <2>1, Basics DEF Balance
  <1>5. Alone' /\ BlameFindsBlock'
    BY Basics DEF Alone, BlameFindsBlock, OneThread, Stale
  <1>6. Reported' = Reported
    BY DEF Reported
  <1>7. ReportSoFar' /\ ReportSound' /\ ReportComplete'
    BY <1>6, Basics DEF ReportSoFar, ReportSound, ReportComplete, OneThread
  <1>8. QED
    BY <1>1, <1>2, <1>3, <1>4, <1>5, <1>7 DEF LeakInv

\* The invariant holds of every run.
LEMMA LeakHolds == Spec => []LeakInv
  <1>1. LeakInv /\ [Next]_vars => LeakInv'
    BY ExitStep, ReportStep, EndStep, ThreadStep, LeakStutter DEF Next
  <1>2. QED
    BY InitLeak, <1>1, PTL DEF Spec

\* However ALLOC and FREE of many threads fall between each other's allocations and
\* releases, the table has as many entries for an address as there are blocks, but for
\* those on their way, and no release is taken for a wrong one.
THEOREM AccountingHolds == Spec => []Accounting
  <1>1. LeakInv => Accounting
    BY DEF LeakInv, Accounting, Untroubled, Balance
  <1>2. QED
    BY <1>1, LeakHolds, PTL

\* endfunc() reports no block that was released, and without threads names the call that
\* allocated it.
THEOREM ReportSoundHolds == Spec => []ReportSound
  <1>1. LeakInv => ReportSound
    BY DEF LeakInv
  <1>2. QED
    BY <1>1, LeakHolds, PTL

\* endfunc() counts every leaked block once, in the one group of its flag and stack.
THEOREM ReportCompleteHolds == Spec => []ReportComplete
  <1>1. LeakInv => ReportComplete
    BY DEF LeakInv
  <1>2. QED
    BY <1>1, LeakHolds, PTL

\* exceptionWalker() finds the block whose guard page was touched.
THEOREM BlameHolds == Spec => []BlameFindsBlock
  <1>1. LeakInv => BlameFindsBlock
    BY DEF LeakInv
  <1>2. QED
    BY <1>1, LeakHolds, PTL

=============================================================================
