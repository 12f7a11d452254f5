--------------------------- MODULE InlineWalkProofs ---------------------------
(***************************************************************************)
(* For every tree of DIEs, and whatever libdwarf fails at: dwarf_child()   *)
(* and dwarf_siblingof_b() find the first child and the next sibling in    *)
(* what .debug_info stores; the walk holds exactly the handles of its      *)
(* recursions; the functions it reports are the first one visited that     *)
(* holds the address and those around it; and each is reported at the      *)
(* place where the one before it was called.                               *)
(*                                                                         *)
(* The walk is that of AddressLookup, whose variable tree is the argument  *)
(* t of the lemmas about trees.                                            *)
(***************************************************************************)
EXTENDS LineLookupProofs, FiniteSetTheorems, WellFoundedInduction, SequenceTheorems

-----------------------------------------------------------------------------
(* How a tree is stored.                                                   *)

\* The DIEs of a unit, by their numbers, and the places of their entries.
Dies(t) == 0 .. t.n
Pos(t, d) == Walk!PositionOf(t.last, t.flagged, d)
After(t, d) == Walk!PositionAfter(t.last, t.flagged, d)

\* The DIEs around d that end with it.
Outer(t, d) == {a \in t.flagged : t.last[a] = t.last[d] /\ a < d}

\* Where the DIE after m begins, or the entries end.
Beyond(t, m) == 2 + m + Cardinality({e \in t.flagged : t.last[e] <= m})

\* The walk counts as the theorems do.
LEMMA SameCount == ASSUME NEW S PROVE Walk!Cardinality(S) = Cardinality(S)
  BY DEF Walk!Cardinality, Cardinality

\* What IsTree() says, with the types of the numbers.
LEMMA TreeFacts ==
  ASSUME NEW t, Walk!IsTree(t)
  PROVE  /\ t.n \in Nat /\ t.last[0] = t.n
         /\ \A d \in Dies(t) : d \in Nat /\ t.last[d] \in Nat /\ d <= t.last[d] /\ t.last[d] <= t.n
                               /\ t.last[d] \in Dies(t)
         /\ \A d \in Dies(t), e \in Dies(t) : (d < e /\ e <= t.last[d]) => t.last[e] <= t.last[d]
         /\ \A d \in Dies(t) : t.last[d] > d => d \in t.flagged
         /\ t.flagged \subseteq Dies(t) /\ IsFiniteSet(t.flagged)
         /\ \A e \in t.flagged : e \in Dies(t) /\ e \in Nat /\ t.last[e] \in Nat
  <1>1. IsFiniteSet(Dies(t)) /\ t.flagged \subseteq Dies(t)
    BY FS_Interval DEF Walk!IsTree, Dies
  <1>2. IsFiniteSet(t.flagged)
    BY <1>1, FS_Subset
  <1>3. \A d \in Dies(t) : t.last[d] > d => d \in t.flagged
    BY DEF Walk!IsTree, Dies
  <1>4. t.n \in Nat
    BY DEF Walk!IsTree
  <1>5. \A d \in Dies(t) : t.last[d] \in d .. t.n
    BY DEF Walk!IsTree, Dies
  <1>6. \A d \in Dies(t) : d \in Nat /\ t.last[d] \in Nat /\ d <= t.last[d] /\ t.last[d] <= t.n
                               /\ t.last[d] \in Dies(t)
    BY <1>4, <1>5 DEF Dies
  <1>7. \A d \in Dies(t), e \in Dies(t) : (d < e /\ e <= t.last[d]) => t.last[e] <= t.last[d]
    BY DEF Walk!IsTree, Dies
  <1>8. t.last[0] = t.n
    BY DEF Walk!IsTree
  <1>9. QED
    BY <1>1, <1>2, <1>3, <1>4, <1>6, <1>7, <1>8

\* Counting among the flagged.
LEMMA Counts ==
  ASSUME NEW t, Walk!IsTree(t), NEW S \in SUBSET t.flagged
  PROVE  /\ IsFiniteSet(S) /\ Cardinality(S) \in Nat /\ Cardinality(S) <= Cardinality(t.flagged)
         /\ \A R \in SUBSET S : IsFiniteSet(R) /\ Cardinality(R) \in Nat /\ Cardinality(R) <= Cardinality(S)
  <1>1. IsFiniteSet(t.flagged)
    BY TreeFacts
  <1>2. IsFiniteSet(S) /\ Cardinality(S) <= Cardinality(t.flagged)
    BY <1>1, FS_Subset
  <1>3. \A R \in SUBSET S : IsFiniteSet(R) /\ Cardinality(R) <= Cardinality(S)
    BY <1>2, FS_Subset
  <1>4. QED
    BY <1>2, <1>3, FS_CardinalityType

\* Two sets that share no DIE are counted one after the other.
LEMMA CountsOfTwo ==
  ASSUME NEW t, Walk!IsTree(t), NEW S \in SUBSET t.flagged, NEW R \in SUBSET t.flagged, S \cap R = {}
  PROVE  Cardinality(S \cup R) = Cardinality(S) + Cardinality(R)
  <1>1. IsFiniteSet(S) /\ IsFiniteSet(R) /\ Cardinality(S) \in Nat /\ Cardinality(R) \in Nat
    BY Counts
  <1>2. Cardinality(S \cup R) = Cardinality(S) + Cardinality(R) - Cardinality(S \cap R)
    BY <1>1, FS_Union
  <1>3. Cardinality(S \cap R) = 0
    BY FS_EmptySet
  <1>4. QED
    BY <1>1, <1>2, <1>3

\* A DIE comes after those before it.
LEMMA PosRises ==
  ASSUME NEW t, Walk!IsTree(t), NEW d \in Dies(t), NEW e \in Dies(t), d < e
  PROVE  Pos(t, d) \in Nat /\ Pos(t, e) \in Nat /\ Pos(t, d) < Pos(t, e)
  <1> DEFINE D == {a \in t.flagged : t.last[a] < d}
             E == {a \in t.flagged : t.last[a] < e}
  <1>1. d \in Nat /\ e \in Nat
    BY TreeFacts
  <1>2. D \in SUBSET E /\ E \in SUBSET t.flagged
    <2>1. \A a \in t.flagged : t.last[a] \in Nat
      BY TreeFacts
    <2>2. QED
      BY <1>1, <2>1
  <1>3. Cardinality(D) \in Nat /\ Cardinality(E) \in Nat /\ Cardinality(D) <= Cardinality(E)
    BY <1>2, Counts
  <1>4. Pos(t, d) = 1 + d + Cardinality(D) /\ Pos(t, e) = 1 + e + Cardinality(E)
    BY SameCount DEF Pos, Walk!PositionOf
  <1> HIDE DEF D, E
  <1>5. QED
    BY <1>1, <1>3, <1>4

\* Only the unit's own DIE, 0, is at the first place.
LEMMA PosTyped ==
  ASSUME NEW t, Walk!IsTree(t), NEW d \in Dies(t)
  PROVE  Pos(t, d) \in Nat /\ Pos(t, d) >= 1 /\ (Pos(t, d) = 1 => d = 0) /\ Pos(t, d) <= t.n + 1 + Cardinality(t.flagged)
  <1> DEFINE D == {a \in t.flagged : t.last[a] < d}
  <1>1. d \in Nat /\ t.n \in Nat /\ d <= t.n
    BY TreeFacts DEF Dies
  <1>2. Cardinality(D) \in Nat /\ Cardinality(D) <= Cardinality(t.flagged) /\ Cardinality(t.flagged) \in Nat
    BY Counts
  <1>3. Pos(t, d) = 1 + d + Cardinality(D)
    BY SameCount DEF Pos, Walk!PositionOf
  <1> HIDE DEF D
  <1>4. QED
    BY <1>1, <1>2, <1>3

\* The entries are a sequence, and the one at the position of a DIE is its own.
LEMMA EntriesAre ==
  ASSUME NEW t, Walk!IsTree(t)
  PROVE  /\ Len(t.entries) = t.n + 1 + Cardinality(t.flagged) /\ Len(t.entries) \in Nat
         /\ \A d \in Dies(t) :
              /\ Pos(t, d) \in 1 .. Len(t.entries)
              /\ t.entries[Pos(t, d)] =
                   [die |-> d, children |-> d \in t.flagged, sibling |-> IF d \in t.linked THEN After(t, d) ELSE 0]
         /\ \A p \in 1 .. Len(t.entries) :
              (\A d \in Dies(t) : Pos(t, d) # p) => t.entries[p] = Walk!NullEntry
  <1> DEFINE N == t.n + 1 + Cardinality(t.flagged)
             At(p, d) == [die |-> d, children |-> d \in t.flagged, sibling |-> IF d \in t.linked THEN After(t, d) ELSE 0]
  <1>1. N \in Nat
    BY TreeFacts, Counts
  <1>2. t.entries =
          [p \in 1 .. N |->
             IF \E d \in Dies(t) : Pos(t, d) = p
               THEN LET d == CHOOSE e \in Dies(t) : Pos(t, e) = p
                    IN  [die |-> d, children |-> d \in t.flagged, sibling |-> IF d \in t.linked THEN After(t, d) ELSE 0]
               ELSE Walk!NullEntry]
    <2>1. N = t.n + 1 + Walk!Cardinality(t.flagged)
      BY SameCount
    <2> HIDE DEF N
    <2>2. QED
      BY <2>1 DEF Walk!IsTree, Walk!Entries, Pos, After, Dies
  <1> HIDE DEF N
  <1>3. DOMAIN t.entries = 1 .. N
    BY <1>2
  <1>4. Len(t.entries) = N
    <2> DEFINE R == {t.entries[p] : p \in 1 .. N}
    <2>1. t.entries \in [1 .. N -> R]
      BY <1>2, <1>3
    <2>2. t.entries \in Seq(R)
      BY <1>1, <2>1, SeqDef
    <2>3. QED
      BY <1>1, <1>3, <2>2, LenProperties
  <1>5. ASSUME NEW d \in Dies(t)
        PROVE  /\ Pos(t, d) \in 1 .. N
               /\ t.entries[Pos(t, d)] =
                   [die |-> d, children |-> d \in t.flagged, sibling |-> IF d \in t.linked THEN After(t, d) ELSE 0]
    <2>1. Pos(t, d) \in 1 .. N
      BY <1>1, PosTyped DEF N
    <2> DEFINE e == CHOOSE e \in Dies(t) : Pos(t, e) = Pos(t, d)
    <2>2. e \in Dies(t) /\ Pos(t, e) = Pos(t, d)
      OBVIOUS
    <2>3. t.entries[Pos(t, d)] =
            [die |-> e, children |-> e \in t.flagged, sibling |-> IF e \in t.linked THEN After(t, e) ELSE 0]
      BY <1>2, <2>1
    <2> HIDE DEF e
    <2>4. e = d
      BY <2>2, PosRises, TreeFacts
    <2>5. QED
      BY <2>1, <2>3, <2>4
  <1>6. ASSUME NEW p \in 1 .. N, \A d \in Dies(t) : Pos(t, d) # p
        PROVE  t.entries[p] = Walk!NullEntry
    BY <1>2, <1>6
  <1>7. QED
    BY <1>1, <1>4, <1>5, <1>6 DEF N
\* What the entry of a DIE says.
LEMMA EntryIs ==
  ASSUME NEW t, Walk!IsTree(t), NEW d \in Dies(t)
  PROVE  LET entry == t.entries[Pos(t, d)]
         IN  /\ entry.die = d
             /\ entry.children <=> d \in t.flagged
             /\ entry.sibling = IF d \in t.linked THEN After(t, d) ELSE 0
  <1> DEFINE x == t.entries[Pos(t, d)]
             after == IF d \in t.linked THEN After(t, d) ELSE 0
  <1>1. x = [die |-> d, children |-> d \in t.flagged, sibling |-> after]
    BY EntriesAre
  <1> HIDE DEF x, after
  <1>2. x.die = d /\ x.sibling = after
    BY <1>1
  <1>3. x.children <=> d \in t.flagged
    BY <1>1
  <1>4. QED
    BY <1>2, <1>3 DEF x, after

\* It is one of the entries.
LEMMA PosInEntries ==
  ASSUME NEW t, Walk!IsTree(t), NEW d \in Dies(t)
  PROVE  Pos(t, d) \in 1 .. Len(t.entries) /\ Len(t.entries) \in Nat
  BY Zenon, EntriesAre

\* The DIE after m, if there is one, or the end of the entries.
LEMMA BeyondIs ==
  ASSUME NEW t, Walk!IsTree(t), NEW m \in Dies(t)
  PROVE  /\ Beyond(t, m) \in Nat
         /\ m = t.n => Beyond(t, m) = Len(t.entries) + 1
         /\ m # t.n => m + 1 \in Dies(t) /\ Beyond(t, m) = Pos(t, m + 1)
         /\ Beyond(t, m) <= Len(t.entries) + 1
  <1> DEFINE E == {e \in t.flagged : t.last[e] <= m}
  <1>1. m \in Nat /\ t.n \in Nat /\ m <= t.n /\ \A e \in t.flagged : t.last[e] \in Nat /\ t.last[e] <= t.n
    BY TreeFacts DEF Dies
  <1>2. Cardinality(E) \in Nat /\ Cardinality(E) <= Cardinality(t.flagged) /\ Cardinality(t.flagged) \in Nat
    BY Counts
  <1>3. Beyond(t, m) = 2 + m + Cardinality(E)
    BY DEF Beyond
  <1>4. Len(t.entries) = t.n + 1 + Cardinality(t.flagged)
    BY EntriesAre
  <1>5. m = t.n => E = t.flagged
    BY <1>1
  <1>6. m # t.n => m + 1 \in Dies(t) /\ E = {e \in t.flagged : t.last[e] < m + 1}
    BY <1>1 DEF Dies
  <1>7. Pos(t, m + 1) = 1 + (m + 1) + Cardinality({e \in t.flagged : t.last[e] < m + 1})
    BY SameCount DEF Pos, Walk!PositionOf
  <1>8. m = t.n => Cardinality(E) = Cardinality(t.flagged)
    BY <1>5
  <1>9. m # t.n => Pos(t, m + 1) = 1 + (m + 1) + Cardinality(E)
    BY <1>6, <1>7
  <1> DEFINE below == Cardinality(E)
             all == Cardinality(t.flagged)
  <1>10. below \in Nat /\ below <= all /\ all \in Nat /\ Beyond(t, m) = 2 + m + below /\ Len(t.entries) = t.n + 1 + all
         /\ (m = t.n => below = all) /\ (m # t.n => m + 1 \in Dies(t) /\ Pos(t, m + 1) = 1 + (m + 1) + below)
    BY <1>2, <1>3, <1>4, <1>6, <1>8, <1>9
  <1> HIDE DEF E, below, all
  <1>11. CASE m = t.n
    BY <1>1, <1>10, <1>11, SMTT(30)
  <1>12. CASE m # t.n
    BY <1>1, <1>10, <1>12, SMTT(30)
  <1>13. QED
    BY <1>11, <1>12

\* The entry after the subtree of d, and the lists that end there besides its own.
LEMMA AfterIs ==
  ASSUME NEW t, Walk!IsTree(t), NEW d \in Dies(t)
  PROVE  /\ After(t, d) \in Nat /\ Cardinality(Outer(t, d)) \in Nat
         /\ After(t, d) + Cardinality(Outer(t, d)) = Beyond(t, t.last[d])
         /\ Pos(t, t.last[d]) < After(t, d)
         /\ Pos(t, d) < After(t, d)
  <1> DEFINE m == t.last[d]
             A == {e \in t.flagged : t.last[e] < m}
             B == {e \in t.flagged : t.last[e] < m \/ (t.last[e] = m /\ e >= d)}
             C == {e \in t.flagged : t.last[e] <= m}
  <1>1. /\ d \in Nat /\ m \in Nat /\ d <= m /\ m \in Dies(t)
        /\ \A e \in t.flagged : e \in Nat /\ t.last[e] \in Nat
    BY TreeFacts
  <1>2. /\ After(t, d) = 2 + m + Cardinality(B)
        /\ Pos(t, m) = 1 + m + Cardinality(A)
        /\ Beyond(t, m) = 2 + m + Cardinality(C)
    BY SameCount DEF After, Pos, Beyond, Walk!PositionAfter, Walk!PositionOf
  <1>3. /\ C = B \cup Outer(t, d) /\ B \cap Outer(t, d) = {} /\ A \in SUBSET B
        /\ B \in SUBSET t.flagged /\ Outer(t, d) \in SUBSET t.flagged
    BY <1>1 DEF Outer
  <1> HIDE DEF m, A, B, C
  <1>4. Cardinality(C) = Cardinality(B) + Cardinality(Outer(t, d))
    BY <1>3, CountsOfTwo
  <1>5. Cardinality(B) \in Nat /\ Cardinality(Outer(t, d)) \in Nat
        /\ Cardinality(A) <= Cardinality(B) /\ Cardinality(A) \in Nat
    BY <1>3, Counts
  <1>6. Pos(t, m) < After(t, d)
    BY <1>1, <1>2, <1>5
  <1>7. Pos(t, d) < After(t, d)
    BY <1>1, <1>2, <1>5, <1>6, PosRises
  <1>8. QED
    BY <1>1, <1>2, <1>4, <1>5, <1>6, <1>7 DEF m

\* Between the DIE that ends a subtree and the next one are null entries.
LEMMA NullsAfter ==
  ASSUME NEW t, Walk!IsTree(t), NEW m \in Dies(t), NEW p \in Nat, Pos(t, m) < p, p < Beyond(t, m)
  PROVE  p \in 1 .. Len(t.entries) /\ t.entries[p] = Walk!NullEntry
  <1>1. /\ m \in Nat /\ t.n \in Nat /\ m <= t.n
        /\ Beyond(t, m) \in Nat /\ Beyond(t, m) <= Len(t.entries) + 1 /\ Len(t.entries) \in Nat
        /\ m # t.n => m + 1 \in Dies(t) /\ Beyond(t, m) = Pos(t, m + 1)
        /\ Pos(t, m) \in Nat /\ Pos(t, m) >= 1
    BY BeyondIs, EntriesAre, PosTyped, TreeFacts DEF Dies
  <1>2. p \in 1 .. Len(t.entries)
    BY <1>1
  <1>3. ASSUME NEW e \in Dies(t) PROVE Pos(t, e) # p
    <2>1. e \in Nat /\ e <= t.n
      BY TreeFacts DEF Dies
    <2>2. CASE e <= m
      <3>1. Pos(t, e) <= Pos(t, m) /\ Pos(t, e) \in Nat
        BY <1>1, <2>1, <2>2, PosRises
      <3>2. QED
        BY <1>1, <3>1
    <2>3. CASE e > m
      <3>1. m # t.n /\ m + 1 <= e
        BY <1>1, <2>1, <2>3
      <3>2. Pos(t, m + 1) <= Pos(t, e) /\ Pos(t, e) \in Nat /\ Pos(t, m + 1) \in Nat
        BY <1>1, <2>1, <3>1, PosRises, PosTyped
      <3>3. QED
        BY <1>1, <3>1, <3>2
    <2>4. QED
      BY <1>1, <2>1, <2>2, <2>3
  <1>4. QED
    BY <1>2, <1>3, EntriesAre

\* What follows a DIE without children: its null entry, if it says that it has.
LEMMA AfterLeaf ==
  ASSUME NEW t, Walk!IsTree(t), NEW d \in Dies(t), t.last[d] = d
  PROVE  After(t, d) = Pos(t, d) + (IF d \in t.flagged THEN 2 ELSE 1)
  <1> DEFINE A == {e \in t.flagged : t.last[e] < d}
             B == {e \in t.flagged : t.last[e] < d \/ (t.last[e] = d /\ e >= d)}
             C == {e \in t.flagged : e = d}
  <1>1. d \in Nat /\ \A e \in t.flagged : e \in Nat /\ t.last[e] \in Nat /\ e <= t.last[e]
    BY TreeFacts
  <1>2. After(t, d) = 2 + d + Cardinality(B) /\ Pos(t, d) = 1 + d + Cardinality(A)
    BY SameCount DEF After, Pos, Walk!PositionAfter, Walk!PositionOf
  <1>3. B = A \cup C /\ A \cap C = {} /\ A \in SUBSET t.flagged /\ C \in SUBSET t.flagged
    BY <1>1
  <1>4. Cardinality(C) = IF d \in t.flagged THEN 1 ELSE 0
    <2>1. d \in t.flagged => C = {d}
      OBVIOUS
    <2>2. d \notin t.flagged => C = {}
      OBVIOUS
    <2> HIDE DEF C
    <2>3. QED
      BY <2>1, <2>2, FS_EmptySet, FS_Singleton
  <1> HIDE DEF A, B, C
  <1>5. Cardinality(B) = Cardinality(A) + Cardinality(C) /\ Cardinality(A) \in Nat
    BY <1>3, CountsOfTwo, Counts
  <1>6. QED
    BY <1>1, <1>2, <1>4, <1>5

\* What follows a DIE with children is the first of them.
LEMMA FirstChild ==
  ASSUME NEW t, Walk!IsTree(t), NEW d \in Dies(t), t.last[d] > d
  PROVE  d + 1 \in Dies(t) /\ d \in t.flagged /\ Pos(t, d + 1) = Pos(t, d) + 1
  <1> DEFINE A == {e \in t.flagged : t.last[e] < d}
             B == {e \in t.flagged : t.last[e] < d + 1}
  <1>1. /\ d \in Nat /\ t.last[d] \in Nat /\ t.last[d] <= t.n /\ t.n \in Nat /\ d \in t.flagged
        /\ \A e \in t.flagged : e \in Nat /\ t.last[e] \in Nat /\ e <= t.last[e] /\ e \in Dies(t)
        /\ \A e \in t.flagged : (e < d /\ d <= t.last[e]) => t.last[d] <= t.last[e]
    BY TreeFacts
  <1>2. Pos(t, d) = 1 + d + Cardinality(A) /\ Pos(t, d + 1) = 1 + (d + 1) + Cardinality(B)
    BY SameCount DEF Pos, Walk!PositionOf
  <1>3. \A e \in t.flagged : t.last[e] # d
    <2> SUFFICES ASSUME NEW e \in t.flagged, t.last[e] = d PROVE FALSE
      OBVIOUS
    <2>1. e # d
      BY <1>1
    <2>2. QED
      BY <1>1, <2>1
  <1>4. A = B
    BY <1>1, <1>3
  <1>5. Cardinality(A) \in Nat
    BY Counts
  <1> HIDE DEF A, B
  <1>6. QED
    BY <1>1, <1>2, <1>4, <1>5 DEF Dies

\* dwarf_child() finds the first child.
THEOREM ChildFound ==
  ASSUME NEW t, Walk!IsTree(t), NEW d \in Dies(t)
  PROVE  Walk!ChildAt(t.entries, Pos(t, d)) = IF t.last[d] > d THEN d + 1 ELSE Walk!None
  <1> DEFINE s == t.entries
             p == Pos(t, d)
  <1>1. p \in 1 .. Len(s) /\ Len(s) \in Nat /\ p \in Nat
    BY EntriesAre, PosTyped
  <1>2. s[p].children <=> d \in t.flagged
    BY EntryIs
  <1>3. Walk!ChildAt(s, p) = IF s[p].children /\ ~ (p + 1 > Len(s)) THEN s[p + 1].die ELSE Walk!None
    BY DEF Walk!ChildAt, Walk!NextEntry, Walk!AtEnd
  <1>4. CASE t.last[d] > d
    <2>1. d + 1 \in Dies(t) /\ d \in t.flagged /\ Pos(t, d + 1) = p + 1
      BY <1>4, FirstChild
    <2>2. p + 1 \in 1 .. Len(s)
      BY <2>1, PosInEntries
    <2>3. s[Pos(t, d + 1)].die = d + 1
      BY <2>1, EntryIs
    <2> HIDE DEF s, p
    <2>4. Walk!ChildAt(s, p) = d + 1
      BY <1>1, <1>2, <1>3, <2>1, <2>2, <2>3
    <2>5. QED
      BY <1>4, <2>4 DEF s, p
  <1>5. CASE ~ (t.last[d] > d)
    <2>1. t.last[d] = d
      BY <1>5, TreeFacts
    <2>2. CASE d \in t.flagged
      <3>1. p + 1 < Beyond(t, d) /\ p + 1 \in Nat /\ p < p + 1
        BY <1>1, <2>1, <2>2, AfterLeaf, AfterIs, BeyondIs
      <3>2. s[p + 1] = Walk!NullEntry
        BY <3>1, NullsAfter
      <3>3. s[p + 1].die = Walk!None
        BY <3>2 DEF Walk!NullEntry
      <3> HIDE DEF s, p
      <3>4. QED
        BY <1>3, <1>5, <3>3 DEF s, p
    <2>3. CASE d \notin t.flagged
      <3> HIDE DEF s, p
      <3>1. Walk!ChildAt(s, p) = Walk!None
        BY <1>2, <1>3, <2>3
      <3>2. QED
        BY <1>5, <3>1 DEF s, p
    <2>4. QED
      BY <2>2, <2>3
  <1>6. QED
    BY <1>4, <1>5

-----------------------------------------------------------------------------
(* Loops that are written as recursive functions.                          *)

\* The values of the places at which a loop halts that begins at x.
Orbit(halts, value, next, x, v, k, g) ==
  /\ g[0] = x /\ g[k] \in halts /\ v = value[g[k]]
  /\ \A i \in 0 .. k - 1 : g[i] \notin halts /\ g[i + 1] = next[g[i]]
Reached(X, halts, value, next, x) ==
  {v \in {value[y] : y \in halts} :
     \E k \in Nat : \E g \in [0 .. k -> X] : Orbit(halts, value, next, x, v, k, g)}
IsLoop(X, halts, value, next, f) == f = [x \in X |-> IF x \in halts THEN value[x] ELSE f[next[x]]]

\* The value reached, if there is one.
One(S) == CHOOSE v : v \in S

\* Such a function exists, even if the loop may not end.
LEMMA LoopExists ==
  ASSUME NEW X, NEW halts \in SUBSET X, NEW value, NEW next \in [X -> X]
  PROVE  \E f : IsLoop(X, halts, value, next, f)
  <1> DEFINE R(x) == Reached(X, halts, value, next, x)
             f == [x \in X |-> IF x \in halts THEN value[x] ELSE One(R(x))]
  <1>1. ASSUME NEW x \in halts PROVE One(R(x)) = value[x]
    <2>1. value[x] \in R(x)
      <3> DEFINE g == [i \in 0 .. 0 |-> x]
      <3>1. g \in [0 .. 0 -> X] /\ g[0] = x /\ 0 \in Nat /\ 0 .. 0 - 1 = {}
        OBVIOUS
      <3> HIDE DEF g
      <3>2. QED
        BY <3>1 DEF Reached, Orbit
    <2>2. ASSUME NEW v \in R(x) PROVE v = value[x]
      <3>0. PICK k \in Nat : \E g \in [0 .. k -> X] : Orbit(halts, value, next, x, v, k, g)
        BY DEF Reached
      <3>1. PICK g \in [0 .. k -> X] :
               /\ g[0] = x /\ g[k] \in halts /\ v = value[g[k]]
               /\ \A i \in 0 .. k - 1 : g[i] \notin halts /\ g[i + 1] = next[g[i]]
        BY <3>0 DEF Orbit
      <3>2. k # 0 => 0 \in 0 .. k - 1
        OBVIOUS
      <3>3. QED
        BY <3>1, <3>2
    <2> HIDE DEF R
    <2>3. QED
      BY <2>1, <2>2 DEF One
  <1>2. ASSUME NEW x \in X, x \notin halts PROVE R(x) = R(next[x])
    <2>1. ASSUME NEW v \in R(x) PROVE v \in R(next[x])
      <3>0. PICK k \in Nat : \E g \in [0 .. k -> X] : Orbit(halts, value, next, x, v, k, g)
        BY DEF Reached
      <3>1. PICK g \in [0 .. k -> X] :
               /\ g[0] = x /\ g[k] \in halts /\ v = value[g[k]]
               /\ \A i \in 0 .. k - 1 : g[i] \notin halts /\ g[i + 1] = next[g[i]]
        BY <3>0 DEF Orbit
      <3>2. k # 0 /\ k - 1 \in Nat /\ 0 \in 0 .. k - 1
        BY <1>2, <3>1
      <3> DEFINE h == [i \in 0 .. k - 1 |-> g[i + 1]]
      <3>3. \A i \in 0 .. k - 1 : i + 1 \in 0 .. k /\ h[i] = g[i + 1] /\ i \in Nat
        OBVIOUS
      <3>4. h \in [0 .. k - 1 -> X]
        BY <3>3
      <3>5. h[0] = next[x] /\ h[k - 1] = g[k]
        BY <3>1, <3>2, <3>3
      <3>6. \A i \in 0 .. (k - 1) - 1 : h[i] \notin halts /\ h[i + 1] = next[h[i]]
        <4> SUFFICES ASSUME NEW i \in 0 .. (k - 1) - 1 PROVE h[i] \notin halts /\ h[i + 1] = next[h[i]]
          OBVIOUS
        <4>1. i \in 0 .. k - 1 /\ i + 1 \in 0 .. k - 1
          BY <3>2
        <4> HIDE DEF h
        <4>2. QED
          BY <3>1, <3>3, <4>1
      <3>7. v \in {value[y] : y \in halts}
        BY <3>1
      <3> HIDE DEF h
      <3>8. Orbit(halts, value, next, next[x], v, k - 1, h)
        BY <3>1, <3>2, <3>5, <3>6 DEF Orbit
      <3>9. QED
        BY <3>2, <3>4, <3>7, <3>8 DEF Reached
    <2>2. ASSUME NEW v \in R(next[x]) PROVE v \in R(x)
      <3>0. PICK k \in Nat : \E g \in [0 .. k -> X] : Orbit(halts, value, next, next[x], v, k, g)
        BY DEF Reached
      <3>1. PICK g \in [0 .. k -> X] :
               /\ g[0] = next[x] /\ g[k] \in halts /\ v = value[g[k]]
               /\ \A i \in 0 .. k - 1 : g[i] \notin halts /\ g[i + 1] = next[g[i]]
        BY <3>0 DEF Orbit
      <3> DEFINE h == [i \in 0 .. k + 1 |-> IF i = 0 THEN x ELSE g[i - 1]]
      <3>2. k + 1 \in Nat /\ \A i \in 0 .. k + 1 : i # 0 => i - 1 \in 0 .. k
        OBVIOUS
      <3>3. h \in [0 .. k + 1 -> X]
        BY <3>2
      <3>4. h[0] = x /\ \A i \in 1 .. k + 1 : h[i] = g[i - 1]
        BY <3>2
      <3> HIDE DEF h
      <3>5. h[k + 1] = g[k]
        BY <3>4
      <3>6. \A i \in 0 .. (k + 1) - 1 : h[i] \notin halts /\ h[i + 1] = next[h[i]]
        <4> SUFFICES ASSUME NEW i \in 0 .. (k + 1) - 1 PROVE h[i] \notin halts /\ h[i + 1] = next[h[i]]
          OBVIOUS
        <4>1. CASE i = 0
          <5>1. h[1] = g[0]
            BY <3>4
          <5>2. QED
            BY <1>2, <3>1, <3>4, <4>1, <5>1
        <4>2. CASE i # 0
          <5>1. i - 1 \in 0 .. k - 1 /\ i \in 1 .. k + 1 /\ i + 1 \in 1 .. k + 1 /\ (i - 1) + 1 = i /\ (i + 1) - 1 = i
            BY <4>2
          <5>2. h[i] = g[i - 1] /\ h[i + 1] = g[i]
            BY <3>4, <5>1
          <5>3. g[i - 1] \notin halts /\ g[i] = next[g[i - 1]]
            BY <3>1, <5>1
          <5>4. QED
            BY <5>2, <5>3
        <4>3. QED
          BY <4>1, <4>2
      <3>7. v \in {value[y] : y \in halts}
        BY <3>1
      <3>8. Orbit(halts, value, next, x, v, k + 1, h)
        BY <3>1, <3>2, <3>4, <3>5, <3>6 DEF Orbit
      <3>9. QED
        BY <3>2, <3>3, <3>7, <3>8 DEF Reached
    <2> HIDE DEF R
    <2>3. QED
      BY <2>1, <2>2
  <1>3. ASSUME NEW x \in X PROVE f[x] = IF x \in halts THEN value[x] ELSE f[next[x]]
    <2>1. f[x] = One(R(x))
      BY <1>1
    <2>2. f[next[x]] = One(R(next[x]))
      BY <1>1
    <2> HIDE DEF f, R
    <2>3. QED
      BY <1>1, <1>2, <2>1, <2>2
  <1>4. f = [x \in X |-> f[x]]
    OBVIOUS
  <1> HIDE DEF f
  <1>5. f = [x \in X |-> IF x \in halts THEN value[x] ELSE f[next[x]]]
    BY <1>3, <1>4
  <1>6. QED
    BY <1>5 DEF IsLoop

-----------------------------------------------------------------------------
(* The scan for the next sibling.                                          *)

\* A place among the entries, and how many lists of siblings to leave there.
Places(s) == [at : 1 .. Len(s), depth : Nat]
PlacesAndEnd(s) == [at : 1 .. Len(s) + 1, depth : Nat]
At(p, k) == [at |-> p, depth |-> k]

\* f is the function that LeaveLists() is written with.
IsLeave(s, f) ==
  f = [x \in PlacesAndEnd(s) |->
         IF x.depth = 0 \/ Walk!AtEnd(s, x.at) THEN x
         ELSE IF Walk!IsNull(s, x.at) THEN f[At(x.at + 1, x.depth - 1)]
         ELSE x]

\* LeaveLists() is such a function.
LEMMA LeaveExists ==
  ASSUME NEW s, Len(s) \in Nat
  PROVE  \E f : IsLeave(s, f) /\ \A p, k : Walk!LeaveLists(s, p, k) = f[At(p, k)]
  <1> DEFINE X == PlacesAndEnd(s)
             goesOn(x) == x.depth # 0 /\ ~ Walk!AtEnd(s, x.at) /\ Walk!IsNull(s, x.at)
             halts == {x \in X : ~ goesOn(x)}
             value == [x \in X |-> x]
             next == [x \in X |-> IF goesOn(x) THEN At(x.at + 1, x.depth - 1) ELSE x]
  <1>1. ASSUME NEW x \in X, goesOn(x) PROVE At(x.at + 1, x.depth - 1) \in X
    <2>1. x.at \in 1 .. Len(s) + 1 /\ x.depth \in Nat
      BY DEF PlacesAndEnd
    <2>2. x.at + 1 \in 1 .. Len(s) + 1 /\ x.depth - 1 \in Nat
      BY <1>1, <2>1 DEF Walk!AtEnd
    <2>3. QED
      BY <2>2 DEF PlacesAndEnd, At
  <1>2. halts \in SUBSET X /\ next \in [X -> X]
    BY <1>1
  <1> HIDE DEF X
  <1>3. PICK f : IsLoop(X, halts, value, next, f)
    <2> HIDE DEF halts, value, next
    <2>1. QED
      BY <1>2, LoopExists
  <1>4. f = [x \in X |->
               IF x.depth = 0 \/ Walk!AtEnd(s, x.at) THEN x
               ELSE IF Walk!IsNull(s, x.at) THEN f[At(x.at + 1, x.depth - 1)]
               ELSE x]
    <2>1. ASSUME NEW x \in X
          PROVE  (IF x \in halts THEN value[x] ELSE f[next[x]]) =
                 (IF x.depth = 0 \/ Walk!AtEnd(s, x.at) THEN x
                  ELSE IF Walk!IsNull(s, x.at) THEN f[At(x.at + 1, x.depth - 1)]
                  ELSE x)
      BY DEF At
    <2> HIDE DEF halts, value, next
    <2>2. QED
      BY <1>3, <2>1 DEF IsLoop
  <1>5. \E g : IsLeave(s, g)
    BY <1>4 DEF IsLeave, X
  <1> DEFINE leave == CHOOSE g : IsLeave(s, g)
  <1>6. IsLeave(s, leave)
    BY <1>5
  <1>7. \A p, k : Walk!LeaveLists(s, p, k) = leave[At(p, k)]
    BY Zenon DEF IsLeave, PlacesAndEnd, At, Walk!LeaveLists
  <1>8. QED
    BY <1>6, <1>7

\* Of k lists j end at p.
EndHere(s, p, k, j) ==
  /\ Len(s) \in Nat /\ p \in 1 .. Len(s) + 1 /\ k \in Nat /\ j \in Nat
  /\ j <= k /\ p + j <= Len(s) + 1
  /\ \A i \in 0 .. j - 1 : Walk!IsNull(s, p + i)
  /\ j = k \/ p + j > Len(s) \/ ~ Walk!IsNull(s, p + j)

\* As many lists are left as end.
LEMMA ListsLeft ==
  ASSUME NEW s, NEW p, NEW k, NEW j, EndHere(s, p, k, j)
  PROVE  Walk!LeaveLists(s, p, k) = At(p + j, k - j)
  <1>0. /\ Len(s) \in Nat /\ p \in Nat /\ p \in 1 .. Len(s) + 1 /\ k \in Nat /\ j \in Nat
        /\ j <= k /\ p + j <= Len(s) + 1
        /\ \A i \in 0 .. j - 1 : Walk!IsNull(s, p + i)
        /\ j = k \/ p + j > Len(s) \/ ~ Walk!IsNull(s, p + j)
    BY DEF EndHere
  <1>1. PICK f : IsLeave(s, f) /\ \A q, l : Walk!LeaveLists(s, q, l) = f[At(q, l)]
    BY <1>0, LeaveExists
  <1>2. ASSUME NEW q \in 1 .. Len(s) + 1, NEW l \in Nat
        PROVE  f[At(q, l)] =
                 IF l = 0 \/ q > Len(s) THEN At(q, l)
                 ELSE IF Walk!IsNull(s, q) THEN f[At(q + 1, l - 1)]
                 ELSE At(q, l)
    <2>1. At(q, l) \in PlacesAndEnd(s) /\ At(q, l).at = q /\ At(q, l).depth = l
      BY DEF At, PlacesAndEnd
    <2>2. QED
      BY <1>1, <2>1 DEF IsLeave, Walk!AtEnd
  \* Counted from the last one.
  <1> DEFINE Wrong == {m \in Nat : m <= j /\ f[At(p + (j - m), k - (j - m))] # At(p + j, k - j)}
  <1>3. Wrong = {}
    <2> SUFFICES ASSUME Wrong # {} PROVE FALSE
      OBVIOUS
    <2>1. PICK m \in Wrong : m \in Nat /\ \A l \in Wrong : ~ (l < m)
      <3>1. Wrong \subseteq Nat
        OBVIOUS
      <3> HIDE DEF Wrong
      <3>2. QED
        BY <3>1, LeastOne
    <2>2. m <= j /\ f[At(p + (j - m), k - (j - m))] # At(p + j, k - j)
      BY <2>1
    <2> DEFINE q == p + (j - m)
               l == k - (j - m)
    <2>3. q \in 1 .. Len(s) + 1 /\ l \in Nat
      <3>1. m \in Nat /\ m <= j
        BY <2>1, <2>2
      <3> HIDE DEF Wrong
      <3>2. q \in Nat /\ p <= q /\ q <= p + j /\ l \in Nat
        BY <1>0, <3>1
      <3> HIDE DEF q, l
      <3>3. QED
        BY <1>0, <3>2
    <2>4. f[At(q, l)] =
                 IF l = 0 \/ q > Len(s) THEN At(q, l)
                 ELSE IF Walk!IsNull(s, q) THEN f[At(q + 1, l - 1)]
                 ELSE At(q, l)
      BY <1>0, <1>2, <2>3
    <2>5. CASE m = 0
      <3>1. q = p + j /\ l = k - j
        BY <1>0, <2>5
      <3> HIDE DEF q, l
      <3>2. l = 0 \/ q > Len(s) \/ ~ Walk!IsNull(s, q)
        BY <1>0, <3>1
      <3>3. f[At(q, l)] = At(q, l)
        BY <2>4, <3>2
      <3>4. QED
        BY <2>2, <3>1, <3>3 DEF q, l
    <2>6. CASE m # 0
      <3>1. m - 1 \in Nat /\ m - 1 <= j /\ m - 1 < m
        BY <1>0, <2>1, <2>2, <2>6
      <3>2. f[At(p + (j - (m - 1)), k - (j - (m - 1)))] = At(p + j, k - j)
        BY <2>1, <3>1
      <3>3. q + 1 = p + (j - (m - 1)) /\ l - 1 = k - (j - (m - 1)) /\ l # 0 /\ ~ (q > Len(s))
        BY <1>0, <2>1, <2>2, <2>6
      <3>4. Walk!IsNull(s, q)
        <4>1. j - m \in 0 .. j - 1
          BY <1>0, <2>1, <2>2, <2>6
        <4>2. QED
          BY <1>0, <4>1
      <3> HIDE DEF q, l
      <3>5. f[At(q, l)] = f[At(q + 1, l - 1)]
        BY <2>4, <3>3, <3>4
      <3>6. f[At(q, l)] = At(p + j, k - j)
        BY <3>2, <3>3, <3>5
      <3>7. QED
        BY <2>2, <3>6 DEF q, l
    <2>7. QED
      BY <2>5, <2>6
  <1>4. f[At(p + (j - j), k - (j - j))] = At(p + j, k - j)
    <2>1. j \notin Wrong
      BY <1>3
    <2>2. QED
      BY <1>0, <2>1
  <1>5. p + (j - j) = p /\ k - (j - j) = k
    BY <1>0
  <1>6. QED
    BY <1>1, <1>4, <1>5

\* The DIEs of the subtree of d that the DIE e lies below.
Inner(t, d, e) == {a \in t.flagged : d <= a /\ a < e /\ e <= t.last[a]}
DepthIn(t, d, e) == Cardinality(Inner(t, d, e))

\* All lists that end with the subtree of d.
LEMMA ClimbOut ==
  ASSUME NEW t, Walk!IsTree(t), NEW d \in Dies(t), NEW e \in Dies(t), d <= e, e <= t.last[d], t.last[e] = t.last[d]
  PROVE  DepthIn(t, d, e) \in Nat /\ After(t, e) + DepthIn(t, d, e) = After(t, d)
  <1> DEFINE m == t.last[d]
  <1>1. /\ d \in Nat /\ e \in Nat /\ m \in Nat /\ e <= m
        /\ \A a \in t.flagged : a \in Nat /\ t.last[a] \in Nat
        /\ \A a \in t.flagged : (a < e /\ e <= t.last[a]) => m <= t.last[a]
        /\ \A a \in t.flagged : (d < a /\ a <= m) => t.last[a] <= m
    BY TreeFacts
  <1>2. Inner(t, d, e) = {a \in t.flagged : d <= a /\ a < e /\ t.last[a] = m}
    BY <1>1 DEF Inner
  <1>3. /\ Outer(t, e) = {a \in t.flagged : a < e /\ t.last[a] = m}
        /\ Outer(t, d) = {a \in t.flagged : a < d /\ t.last[a] = m}
    BY DEF Outer
  <1>4. /\ Outer(t, e) = Inner(t, d, e) \cup Outer(t, d) /\ Inner(t, d, e) \cap Outer(t, d) = {}
        /\ Inner(t, d, e) \in SUBSET t.flagged /\ Outer(t, d) \in SUBSET t.flagged
    BY <1>1, <1>2, <1>3
  <1>5. Cardinality(Outer(t, e)) = DepthIn(t, d, e) + Cardinality(Outer(t, d)) /\ DepthIn(t, d, e) \in Nat
    BY <1>4, CountsOfTwo, Counts DEF DepthIn
  <1>6. /\ After(t, d) \in Nat /\ Cardinality(Outer(t, d)) \in Nat
        /\ After(t, d) + Cardinality(Outer(t, d)) = Beyond(t, m)
        /\ After(t, e) \in Nat /\ Cardinality(Outer(t, e)) \in Nat
        /\ After(t, e) + Cardinality(Outer(t, e)) = Beyond(t, m)
    BY AfterIs
  <1>7. QED
    BY <1>5, <1>6

\* All lists that end with the subtree of e, if that of d goes on.
LEMMA ClimbOn ==
  ASSUME NEW t, Walk!IsTree(t), NEW d \in Dies(t), NEW e \in Dies(t), d <= e, e <= t.last[d], t.last[e] # t.last[d]
  PROVE  LET m == t.last[e]
         IN  /\ m + 1 \in Dies(t) /\ e < m + 1 /\ m + 1 <= t.last[d] /\ m # t.n
             /\ DepthIn(t, d, e) \in Nat /\ DepthIn(t, d, m + 1) \in Nat /\ DepthIn(t, d, m + 1) # 0
             /\ DepthIn(t, d, e) = Cardinality(Outer(t, e)) + DepthIn(t, d, m + 1)
  <1> DEFINE m == t.last[e]
  <1>1. /\ d \in Nat /\ e \in Nat /\ m \in Nat /\ e <= m /\ t.last[d] \in Nat /\ t.last[d] <= t.n /\ t.n \in Nat
        /\ \A a \in t.flagged : a \in Nat /\ t.last[a] \in Nat
        /\ \A a \in t.flagged : (a < e /\ e <= t.last[a]) => m <= t.last[a]
        /\ \A a \in t.flagged : (a < d /\ d <= t.last[a]) => t.last[d] <= t.last[a]
        /\ \A a \in t.flagged : (e < a /\ a <= m) => t.last[a] <= m
        /\ d < e => m <= t.last[d]
    BY TreeFacts
  <1>2. m < t.last[d] /\ d # e
    BY <1>1
  <1>3. m + 1 \in Dies(t) /\ e < m + 1 /\ m + 1 <= t.last[d] /\ m # t.n
    BY <1>1, <1>2 DEF Dies
  <1>4. d \in t.flagged
    BY <1>1, <1>2, TreeFacts
  <1>5. d \in Inner(t, d, m + 1)
    BY <1>1, <1>3, <1>4 DEF Inner
  <1>6. ASSUME NEW a \in t.flagged
        PROVE  /\ a \in Inner(t, d, e) <=> (a \in Outer(t, e) \/ a \in Inner(t, d, m + 1))
               /\ ~ (a \in Outer(t, e) /\ a \in Inner(t, d, m + 1))
    <2>1. /\ a \in Nat /\ t.last[a] \in Nat
          /\ (a < e /\ e <= t.last[a]) => m <= t.last[a]
          /\ (a < d /\ d <= t.last[a]) => t.last[d] <= t.last[a]
          /\ (e < a /\ a <= m) => t.last[a] <= m
          /\ a = e => t.last[a] = m
      BY <1>1
    <2>2. /\ a \in Inner(t, d, e) <=> (d <= a /\ a < e /\ e <= t.last[a])
          /\ a \in Outer(t, e) <=> (a < e /\ t.last[a] = m)
          /\ a \in Inner(t, d, m + 1) <=> (d <= a /\ a < m + 1 /\ m + 1 <= t.last[a])
      BY DEF Inner, Outer
    <2> HIDE DEF m
    <2>3. QED
      BY <1>1, <1>2, <2>1, <2>2
  <1>7. /\ Inner(t, d, e) = Outer(t, e) \cup Inner(t, d, m + 1)
        /\ Outer(t, e) \cap Inner(t, d, m + 1) = {}
        /\ Inner(t, d, m + 1) \in SUBSET t.flagged /\ Outer(t, e) \in SUBSET t.flagged /\ Inner(t, d, e) \in SUBSET t.flagged
    <2>1. Inner(t, d, m + 1) \in SUBSET t.flagged /\ Outer(t, e) \in SUBSET t.flagged /\ Inner(t, d, e) \in SUBSET t.flagged
      BY DEF Inner, Outer
    <2> HIDE DEF m
    <2>2. QED
      BY <1>6, <2>1
  <1> HIDE DEF m
  <1>8. DepthIn(t, d, e) = Cardinality(Outer(t, e)) + DepthIn(t, d, m + 1)
    BY <1>7, CountsOfTwo DEF DepthIn
  <1>9. DepthIn(t, d, e) \in Nat /\ DepthIn(t, d, m + 1) \in Nat
    BY <1>7, Counts DEF DepthIn
  <1>10. DepthIn(t, d, m + 1) # 0
    <2>1. IsFiniteSet(Inner(t, d, m + 1))
      BY <1>7, Counts
    <2>2. QED
      BY <1>5, <2>1, FS_EmptySet DEF DepthIn
  <1>11. QED
    BY <1>3, <1>8, <1>9, <1>10 DEF m

\* A child lies one list deeper.
LEMMA ClimbDown ==
  ASSUME NEW t, Walk!IsTree(t), NEW d \in Dies(t), NEW e \in Dies(t), d <= e, e <= t.last[d], t.last[e] > e
  PROVE  /\ e + 1 \in Dies(t) /\ e + 1 <= t.last[d]
         /\ DepthIn(t, d, e) \in Nat /\ DepthIn(t, d, e + 1) = DepthIn(t, d, e) + 1
  <1>1. /\ d \in Nat /\ e \in Nat /\ t.last[e] \in Nat /\ t.last[d] \in Nat /\ t.last[d] <= t.n /\ t.n \in Nat
        /\ e \in t.flagged
        /\ d < e => t.last[e] <= t.last[d]
    BY TreeFacts
  <1>2. e + 1 \in Dies(t) /\ e + 1 <= t.last[d]
    BY <1>1 DEF Dies
  <1>3. ASSUME NEW a \in t.flagged
        PROVE  a \in Inner(t, d, e + 1) <=> (a \in Inner(t, d, e) \/ a = e)
    <2>1. /\ a \in Nat /\ t.last[a] \in Nat
          /\ (a < e /\ e <= t.last[a]) => t.last[e] <= t.last[a]
          /\ a = e => t.last[a] = t.last[e]
      BY TreeFacts
    <2>2. QED
      BY <1>1, <2>1 DEF Inner
  <1>4. Inner(t, d, e + 1) = Inner(t, d, e) \cup {e} /\ e \notin Inner(t, d, e) /\ Inner(t, d, e) \in SUBSET t.flagged
    <2>1. Inner(t, d, e) \in SUBSET t.flagged /\ Inner(t, d, e + 1) \in SUBSET t.flagged
      BY DEF Inner
    <2>2. e \notin Inner(t, d, e)
      BY <1>1 DEF Inner
    <2>3. QED
      BY <1>1, <1>3, <2>1, <2>2
  <1>5. IsFiniteSet(Inner(t, d, e)) /\ DepthIn(t, d, e) \in Nat
    BY <1>4, Counts DEF DepthIn
  <1>6. DepthIn(t, d, e + 1) = DepthIn(t, d, e) + 1
    BY <1>4, <1>5, FS_AddElement DEF DepthIn
  <1>7. QED
    BY <1>2, <1>5, <1>6

\* Where one round of the loop comes to from the DIE e in the subtree of d.
NextScanned(t, d, e) ==
  IF t.last[e] > e /\ e \notin t.linked THEN At(Pos(t, e + 1), DepthIn(t, d, e + 1))
  ELSE IF t.last[e] = t.last[d] THEN At(After(t, d), 0)
  ELSE At(Pos(t, t.last[e] + 1), DepthIn(t, d, t.last[e] + 1))

\* A DIE is no null entry.
LEMMA NotNull ==
  ASSUME NEW t, Walk!IsTree(t), NEW d \in Dies(t)
  PROVE  ~ Walk!IsNull(t.entries, Pos(t, d)) /\ ~ Walk!AtEnd(t.entries, Pos(t, d))
  <1>1. t.entries[Pos(t, d)].die = d /\ Pos(t, d) \in 1 .. Len(t.entries) /\ Len(t.entries) \in Nat
    BY PosInEntries, EntryIs
  <1>2. d # Walk!None
    BY TreeFacts DEF Walk!None
  <1>3. QED
    BY <1>1, <1>2 DEF Walk!IsNull, Walk!AtEnd

\* Past the subtree of e, the lists that end there are left.
LEMMA PastSubtree ==
  ASSUME NEW t, Walk!IsTree(t), NEW d \in Dies(t), NEW e \in Dies(t), d <= e, e <= t.last[d]
  PROVE  LET s == t.entries
             k == DepthIn(t, d, e)
         IN  (IF Walk!AtEnd(s, After(t, e)) \/ Walk!IsNull(s, After(t, e))
                THEN Walk!LeaveLists(s, After(t, e), k) ELSE At(After(t, e), k)) =
             IF t.last[e] = t.last[d] THEN At(After(t, d), 0)
             ELSE At(Pos(t, t.last[e] + 1), DepthIn(t, d, t.last[e] + 1))
  <1> DEFINE s == t.entries
             k == DepthIn(t, d, e)
             q == After(t, e)
             o == Cardinality(Outer(t, e))
             m == t.last[e]
  <1>1. /\ q \in Nat /\ o \in Nat /\ q + o = Beyond(t, m) /\ Pos(t, m) < q /\ Pos(t, m) \in Nat /\ Pos(t, m) >= 1
        /\ m \in Dies(t)
    BY AfterIs, PosTyped, TreeFacts
  <1>2. Beyond(t, m) \in Nat /\ Beyond(t, m) <= Len(s) + 1 /\ Len(s) \in Nat
    BY <1>1, BeyondIs, EntriesAre
  <1>3. ASSUME NEW i \in Nat, i < o PROVE Walk!IsNull(s, q + i) /\ q + i \in Nat /\ q + i <= Len(s)
    <2>1. q + i \in Nat /\ Pos(t, m) < q + i /\ q + i < Beyond(t, m)
      BY <1>1, <1>3
    <2>2. s[q + i] = Walk!NullEntry
      BY <1>1, <2>1, NullsAfter
    <2>3. s[q + i].die = Walk!None
      BY <2>2 DEF Walk!NullEntry
    <2>4. QED
      BY <1>2, <2>1, <2>3 DEF Walk!IsNull
  <1>4. k \in Nat
    BY ClimbOut, ClimbOn
  <1>5. q \in 1 .. Len(s) + 1
    BY <1>1, <1>2
  <1>6. CASE m = t.last[d]
    <2>1. q + k = After(t, d)
      BY <1>6, ClimbOut
    <2>2. k <= o
      <3>1. After(t, d) + Cardinality(Outer(t, d)) = Beyond(t, m) /\ After(t, d) \in Nat /\ Cardinality(Outer(t, d)) \in Nat
        BY <1>6, AfterIs
      <3> HIDE DEF s, k, q, o, m
      <3>2. QED
        BY <1>1, <1>4, <2>1, <3>1
    <2> HIDE DEF s, k, q, o, m
    <2>3. \A i \in 0 .. k - 1 : Walk!IsNull(s, q + i)
      BY <1>1, <1>3, <1>4, <2>2
    <2>4. q + k <= Len(s) + 1
      BY <1>1, <1>2, <1>4, <2>2
    <2>5. Walk!LeaveLists(s, q, k) = At(q + k, k - k)
      <3>1. k <= k
        BY <1>4
      <3>2. q \in Nat /\ Len(s) \in Nat
        BY <1>1, <1>2
      <3>3. EndHere(s, q, k, k)
        BY <1>4, <1>5, <2>3, <2>4, <3>1, <3>2 DEF EndHere
      <3>4. QED
        BY <3>3, ListsLeft
    <2>6. k - k = 0
      BY <1>4
    <2>7. CASE Walk!AtEnd(s, q) \/ Walk!IsNull(s, q)
      BY <1>6, <2>1, <2>5, <2>6, <2>7 DEF s, k, q, o, m
    <2>8. CASE ~ (Walk!AtEnd(s, q) \/ Walk!IsNull(s, q))
      <3>1. k = 0
        <4>1. k > 0 => 0 \in 0 .. k - 1 /\ q + 0 = q
          BY <1>1, <1>4
        <4>2. QED
          BY <1>4, <2>3, <2>8, <4>1
      <3>2. q = After(t, d)
        BY <1>1, <2>1, <3>1
      <3>3. QED
        BY <1>6, <2>8, <3>1, <3>2 DEF s, k, q, o, m
    <2>9. QED
      BY <2>7, <2>8 DEF s, k, q, o, m
  <1>7. CASE m # t.last[d]
    <2>1. /\ m + 1 \in Dies(t) /\ m # t.n /\ k = o + DepthIn(t, d, m + 1) /\ DepthIn(t, d, m + 1) \in Nat
      BY <1>7, ClimbOn
    <2>2. Beyond(t, m) = Pos(t, m + 1)
      BY <1>1, <2>1, BeyondIs
    <2> HIDE DEF s, k, q, o, m
    <2>3. ~ Walk!IsNull(s, q + o) /\ ~ Walk!AtEnd(s, q + o)
      BY <1>1, <2>1, <2>2, NotNull DEF s
    <2>4. ASSUME NEW i \in 0 .. o - 1 PROVE Walk!IsNull(s, q + i)
      <3>1. i \in Nat /\ i < o
        BY <1>1
      <3>2. QED
        BY <1>3, <3>1
    <2>5. o <= k /\ k - o = DepthIn(t, d, m + 1)
      BY <1>1, <2>1
    <2>6. q + o <= Len(s) + 1
      BY <1>1, <1>2
    <2>7. Walk!LeaveLists(s, q, k) = At(q + o, k - o)
      <3>1. ~ Walk!IsNull(s, q + o)
        BY <2>3
      <3>2. q \in Nat /\ Len(s) \in Nat /\ o \in Nat
        BY <1>1, <1>2
      <3>3. EndHere(s, q, k, o)
        BY <1>4, <1>5, <2>4, <2>5, <2>6, <3>1, <3>2 DEF EndHere
      <3>4. QED
        BY <3>3, ListsLeft
    <2>8. CASE Walk!AtEnd(s, q) \/ Walk!IsNull(s, q)
      <3>1. Walk!LeaveLists(s, q, k) = At(Pos(t, m + 1), DepthIn(t, d, m + 1))
        BY <1>1, <2>2, <2>5, <2>7
      <3>2. QED
        BY <1>7, <2>8, <3>1 DEF s, k, q, o, m
    <2>9. CASE ~ (Walk!AtEnd(s, q) \/ Walk!IsNull(s, q))
      <3>1. o = 0
        <4>1. o > 0 => 0 \in 0 .. o - 1 /\ q + 0 = q
          BY <1>1
        <4>2. QED
          BY <1>1, <2>4, <2>9, <4>1
      <3>2. q = Pos(t, m + 1) /\ k = DepthIn(t, d, m + 1)
        BY <1>1, <2>1, <2>2, <3>1
      <3>3. QED
        BY <1>7, <2>9, <3>2 DEF s, k, q, o, m
    <2>10. QED
      BY <2>8, <2>9 DEF s, k, q, o, m
  <1>8. QED
    BY <1>6, <1>7

\* One round of the loop.
LEMMA ScanEntryIs ==
  ASSUME NEW t, Walk!IsTree(t), NEW d \in Dies(t), NEW e \in Dies(t), d <= e, e <= t.last[d]
  PROVE  Walk!ScanEntry(t.entries, Pos(t, e), DepthIn(t, d, e)) = NextScanned(t, d, e)
  <1> DEFINE s == t.entries
             p == Pos(t, e)
             k == DepthIn(t, d, e)
             raw == Walk!NextEntry(s, p, TRUE)
             empty == raw.child /\ ~ Walk!AtEnd(s, raw.at) /\ Walk!IsNull(s, raw.at)
             next == IF empty THEN [at |-> raw.at + 1, child |-> FALSE] ELSE raw
  <1>1. Walk!ScanEntry(s, p, k) =
          IF Walk!AtEnd(s, next.at) \/ Walk!IsNull(s, next.at)
            THEN Walk!LeaveLists(s, next.at, k)
            ELSE At(next.at, IF next.child THEN k + 1 ELSE k)
    BY DEF Walk!ScanEntry, At
  <1>2. /\ s[p].children <=> e \in t.flagged
        /\ s[p].sibling = IF e \in t.linked THEN After(t, e) ELSE 0
    BY EntryIs
  <1>3. After(t, e) \in Nat /\ p < After(t, e) /\ p \in Nat /\ p >= 1
    BY AfterIs, PosTyped
  <1>4. /\ e \in t.linked => raw.at = After(t, e) /\ ~ raw.child
        /\ e \notin t.linked => raw.at = p + 1 /\ (raw.child <=> e \in t.flagged)
    <2>1. e \in t.linked => raw = [at |-> After(t, e), child |-> FALSE]
      BY <1>2, <1>3 DEF Walk!NextEntry
    <2>2. e \notin t.linked => raw = [at |-> p + 1, child |-> s[p].children]
      BY <1>2, <1>3 DEF Walk!NextEntry
    <2> HIDE DEF raw, s, p
    <2>3. QED
      BY <1>2, <2>1, <2>2
  <1> HIDE DEF raw
  <1>5. CASE next.at = After(t, e) /\ ~ next.child /\ ~ (t.last[e] > e /\ e \notin t.linked)
    <2> HIDE DEF next, empty, s, p, k
    <2>1. Walk!ScanEntry(s, p, k) =
            IF Walk!AtEnd(s, After(t, e)) \/ Walk!IsNull(s, After(t, e))
              THEN Walk!LeaveLists(s, After(t, e), k)
              ELSE At(After(t, e), k)
      BY <1>1, <1>5
    <2>2. QED
      BY <1>5, <2>1, PastSubtree DEF NextScanned, s, p, k
  <1>6. CASE e \in t.linked
    <2>1. next = raw
      BY <1>4, <1>6
    <2>2. QED
      BY <1>4, <1>5, <1>6, <2>1
  <1>7. CASE e \notin t.linked /\ t.last[e] > e
    <2>1. /\ e + 1 \in Dies(t) /\ k \in Nat /\ DepthIn(t, d, e + 1) = k + 1
          /\ e \in t.flagged /\ Pos(t, e + 1) = p + 1
      BY <1>7, ClimbDown, FirstChild
    <2>2. raw.at = Pos(t, e + 1) /\ raw.child
      BY <1>4, <1>7, <2>1
    <2>3. ~ Walk!IsNull(s, Pos(t, e + 1)) /\ ~ Walk!AtEnd(s, Pos(t, e + 1))
      BY <2>1, NotNull
    <2> HIDE DEF s, p, k
    <2>4. next = raw
      BY <2>2, <2>3
    <2> HIDE DEF next, empty
    <2>5. Walk!ScanEntry(s, p, k) = At(Pos(t, e + 1), k + 1)
      BY <1>1, <2>2, <2>3, <2>4
    <2>6. QED
      BY <1>7, <2>1, <2>5 DEF NextScanned, s, p, k
  <1>8. CASE e \notin t.linked /\ ~ (t.last[e] > e)
    <2>1. t.last[e] = e /\ e \in Nat
      BY <1>8, TreeFacts
    <2>2. raw.at = p + 1 /\ (raw.child <=> e \in t.flagged)
      BY <1>4, <1>8
    <2>3. CASE e \in t.flagged
      <3>1. After(t, e) = p + 2
        BY <2>1, <2>3, AfterLeaf
      <3>2. Beyond(t, e) \in Nat /\ After(t, e) <= Beyond(t, e)
        BY <2>1, AfterIs, BeyondIs
      <3>3. p + 1 \in Nat /\ Pos(t, e) < p + 1 /\ p + 1 < Beyond(t, e)
        BY <1>3, <3>1, <3>2
      <3>4. p + 1 \in 1 .. Len(s) /\ s[p + 1] = Walk!NullEntry
        BY <3>3, NullsAfter
      <3>5. s[p + 1].die = Walk!None
        BY <3>4 DEF Walk!NullEntry
      <3>6. Len(s) \in Nat
        BY EntriesAre
      <3>7. raw.child /\ raw.at = p + 1
        BY <2>2, <2>3
      <3> HIDE DEF s, p, k
      <3>8. ~ Walk!AtEnd(s, p + 1) /\ Walk!IsNull(s, p + 1)
        BY <1>3, <3>4, <3>5, <3>6 DEF Walk!AtEnd, Walk!IsNull
      <3>9. empty
        BY <3>7, <3>8
      <3>10. (p + 1) + 1 = After(t, e)
        BY <1>3, <3>1
      <3> HIDE DEF empty
      <3>11. next = [at |-> (p + 1) + 1, child |-> FALSE]
        BY <3>7, <3>9
      <3>12. next.at = After(t, e) /\ ~ next.child
        BY <3>10, <3>11
      <3>13. QED
        BY <1>5, <1>8, <3>12
    <2>4. CASE e \notin t.flagged
      <3>1. After(t, e) = p + 1
        BY <2>1, <2>4, AfterLeaf
      <3>2. next = raw
        BY <2>2, <2>4
      <3>3. next.at = After(t, e) /\ ~ next.child
        BY <2>2, <2>4, <3>1, <3>2
      <3>4. QED
        BY <1>5, <1>8, <3>3
    <2>5. QED
      BY <2>3, <2>4
  <1>9. QED
    BY <1>6, <1>7, <1>8

\* Whatever is in the entries, the lists that are left end before they do.
LEMMA LeaveTyped ==
  ASSUME NEW s, Len(s) \in Nat, NEW p \in 1 .. Len(s) + 1, NEW k \in Nat
  PROVE  Walk!LeaveLists(s, p, k) \in PlacesAndEnd(s)
  <1> DEFINE Ends == {m \in Nat : m = k \/ p + m > Len(s) \/ ~ Walk!IsNull(s, p + m)}
  <1>1. k \in Ends
    OBVIOUS
  <1>2. PICK j \in Ends : j \in Nat /\ \A l \in Ends : ~ (l < j)
    <2>1. Ends \subseteq Nat /\ Ends # {}
      BY <1>1
    <2> HIDE DEF Ends
    <2>2. QED
      BY <2>1, LeastOne
  <1>3. j <= k
    BY <1>1, <1>2
  <1>4. ASSUME NEW i \in 0 .. j - 1 PROVE p + i <= Len(s) /\ Walk!IsNull(s, p + i)
    <2>1. i \in Nat /\ i < j
      BY <1>2
    <2>2. i \notin Ends
      BY <1>2, <2>1
    <2>3. QED
      BY <2>1, <2>2
  <1>5. p + j <= Len(s) + 1
    <2>1. CASE j = 0
      BY <2>1
    <2>2. CASE j # 0
      <3>1. j - 1 \in 0 .. j - 1
        BY <1>2, <2>2
      <3>2. p + (j - 1) <= Len(s)
        BY <1>4, <3>1
      <3>3. QED
        BY <1>2, <3>2
    <2>3. QED
      BY <2>1, <2>2
  <1>6. j = k \/ p + j > Len(s) \/ ~ Walk!IsNull(s, p + j)
    BY <1>2
  <1>7. EndHere(s, p, k, j)
    BY <1>2, <1>3, <1>4, <1>5, <1>6 DEF EndHere
  <1>8. Walk!LeaveLists(s, p, k) = At(p + j, k - j)
    BY <1>7, ListsLeft
  <1>9. p + j \in 1 .. Len(s) + 1 /\ k - j \in Nat
    BY <1>2, <1>3, <1>5
  <1>10. QED
    BY <1>8, <1>9 DEF PlacesAndEnd, At

\* A round of the loop stays among the entries, wherever it starts.
LEMMA ScanEntryTyped ==
  ASSUME NEW t, Walk!IsTree(t), NEW p \in 1 .. Len(t.entries), NEW k \in Nat
  PROVE  Walk!ScanEntry(t.entries, p, k) \in PlacesAndEnd(t.entries)
  <1> DEFINE s == t.entries
             raw == Walk!NextEntry(s, p, TRUE)
             empty == raw.child /\ ~ Walk!AtEnd(s, raw.at) /\ Walk!IsNull(s, raw.at)
             next == IF empty THEN [at |-> raw.at + 1, child |-> FALSE] ELSE raw
  <1>1. Walk!ScanEntry(s, p, k) =
          IF Walk!AtEnd(s, next.at) \/ Walk!IsNull(s, next.at)
            THEN Walk!LeaveLists(s, next.at, k)
            ELSE At(next.at, IF next.child THEN k + 1 ELSE k)
    BY DEF Walk!ScanEntry, At
  <1>2. Len(s) \in Nat
    BY EntriesAre
  <1>3. raw.at \in 1 .. Len(s) + 1
    <2>1. raw.at = IF s[p].sibling # 0 THEN s[p].sibling ELSE p + 1
      BY DEF Walk!NextEntry
    <2>2. s[p].sibling # 0 => s[p].sibling \in 1 .. Len(s) + 1
      <3>1. CASE \E d \in Dies(t) : Pos(t, d) = p
        <4>1. PICK d \in Dies(t) : Pos(t, d) = p
          BY <3>1
        <4>2. s[p].sibling = IF d \in t.linked THEN After(t, d) ELSE 0
          BY <4>1, EntryIs
        <4>3. After(t, d) \in Nat /\ After(t, d) <= Beyond(t, t.last[d]) /\ t.last[d] \in Dies(t) /\ Pos(t, d) < After(t, d)
          BY AfterIs, BeyondIs, TreeFacts
        <4>4. Beyond(t, t.last[d]) \in Nat /\ Beyond(t, t.last[d]) <= Len(s) + 1
          BY <4>3, BeyondIs
        <4> HIDE DEF s
        <4>5. QED
          BY <1>2, <4>1, <4>2, <4>3, <4>4
      <3>2. CASE ~ \E d \in Dies(t) : Pos(t, d) = p
        <4>1. s[p] = Walk!NullEntry
          BY <3>2, EntriesAre
        <4>2. QED
          BY <4>1 DEF Walk!NullEntry
      <3>3. QED
        BY <3>1, <3>2
    <2> HIDE DEF s, raw
    <2>3. p + 1 \in 1 .. Len(s) + 1
      BY <1>2 DEF s
    <2>4. QED
      BY <2>1, <2>2, <2>3
  <1> HIDE DEF raw
  <1>4. next.at \in 1 .. Len(s) + 1
    <2>1. CASE empty
      <3>1. next.at = raw.at + 1
        BY <2>1
      <3>2. QED
        BY <1>2, <1>3, <2>1, <3>1 DEF Walk!AtEnd
    <2>2. CASE ~ empty
      BY <1>3, <2>2
    <2>3. QED
      BY <2>1, <2>2
  <1> HIDE DEF next
  <1>5. CASE Walk!AtEnd(s, next.at) \/ Walk!IsNull(s, next.at)
    BY <1>1, <1>2, <1>4, <1>5, LeaveTyped
  <1>6. CASE ~ (Walk!AtEnd(s, next.at) \/ Walk!IsNull(s, next.at))
    <2>1. Walk!ScanEntry(s, p, k) = At(next.at, IF next.child THEN k + 1 ELSE k)
      BY <1>1, <1>6
    <2>2. (IF next.child THEN k + 1 ELSE k) \in Nat
      OBVIOUS
    <2>3. QED
      BY <1>4, <2>1, <2>2 DEF At, PlacesAndEnd
  <1>7. QED
    BY <1>5, <1>6

\* f is the function that SiblingAt() is written with.
IsScan(s, f) ==
  f = [x \in Places(s) |->
         LET next == Walk!ScanEntry(s, x.at, x.depth)
         IN  IF next.depth = 0 \/ Walk!AtEnd(s, next.at) THEN next.at ELSE f[next]]

\* SiblingAt() has such a function.
LEMMA ScanExists ==
  ASSUME NEW t, Walk!IsTree(t)
  PROVE  \E f : /\ IsScan(t.entries, f)
                /\ \A p : Walk!SiblingAt(t.entries, p) =
                            IF Walk!AtEnd(t.entries, f[At(p, 0)]) THEN Walk!None
                            ELSE t.entries[f[At(p, 0)]].die
  <1> DEFINE s == t.entries
             X == Places(s)
             Step(x) == Walk!ScanEntry(s, x.at, x.depth)
             ends(x) == Step(x).depth = 0 \/ Walk!AtEnd(s, Step(x).at)
             halts == {x \in X : ends(x)}
             value == [x \in X |-> Step(x).at]
             next == [x \in X |-> IF ends(x) THEN x ELSE Step(x)]
  <1>1. ASSUME NEW x \in X, ~ ends(x) PROVE Step(x) \in X
    <2>1. x.at \in 1 .. Len(s) /\ x.depth \in Nat
      BY DEF Places
    <2>2. Step(x) \in PlacesAndEnd(s)
      BY <2>1, ScanEntryTyped
    <2>3. ~ (Step(x).at > Len(s))
      BY <1>1 DEF Walk!AtEnd
    <2>4. Len(s) \in Nat
      BY EntriesAre
    <2> HIDE DEF Step, s
    <2>5. QED
      BY <2>2, <2>3, <2>4 DEF Places, PlacesAndEnd
  <1>2. halts \in SUBSET X /\ next \in [X -> X]
    <2> HIDE DEF X, Step, ends
    <2>1. QED
      BY <1>1
  <1> HIDE DEF X
  <1>3. PICK f : IsLoop(X, halts, value, next, f)
    <2> HIDE DEF halts, value, next
    <2>1. QED
      BY <1>2, LoopExists
  <1>4. f = [x \in X |-> IF ends(x) THEN Step(x).at ELSE f[Step(x)]]
    <2> HIDE DEF ends, Step
    <2>1. ASSUME NEW x \in X
          PROVE  (IF x \in halts THEN value[x] ELSE f[next[x]]) =
                 (IF ends(x) THEN Step(x).at ELSE f[Step(x)])
      OBVIOUS
    <2> HIDE DEF halts, value, next
    <2>2. QED
      BY <1>3, <2>1 DEF IsLoop
  <1>5. \E g : IsScan(s, g)
    BY <1>4 DEF IsScan, X
  <1> DEFINE scan == CHOOSE g : IsScan(s, g)
  <1>6. IsScan(s, scan)
    BY <1>5
  <1>7. \A p : Walk!SiblingAt(s, p) =
                 IF Walk!AtEnd(s, scan[At(p, 0)]) THEN Walk!None ELSE s[scan[At(p, 0)]].die
    BY Zenon DEF IsScan, Places, At, Walk!SiblingAt
  <1>8. QED
    BY <1>6, <1>7

\* What follows the subtree of a DIE: its next sibling, or the end of a list if
\* another DIE's subtree ends there, too.
LEMMA AfterSubtree ==
  ASSUME NEW t, Walk!IsTree(t), NEW d \in Dies(t), d # 0
  PROVE  IF \E a \in Dies(t) : a < d /\ t.last[a] = t.last[d]
           THEN /\ After(t, d) \in 1 .. Len(t.entries)
                /\ t.entries[After(t, d)].die = Walk!None
           ELSE /\ t.last[d] + 1 \in Dies(t) /\ After(t, d) \in 1 .. Len(t.entries)
                /\ t.entries[After(t, d)].die = t.last[d] + 1
  <1> DEFINE m == t.last[d]
             o == Cardinality(Outer(t, d))
  <1>1. /\ d \in Nat /\ m \in Nat /\ m \in Dies(t) /\ d <= m /\ m <= t.n /\ t.n \in Nat
        /\ 0 \in Dies(t) /\ t.last[0] = t.n
    BY TreeFacts DEF Dies
  <1>2. /\ After(t, d) \in Nat /\ o \in Nat /\ After(t, d) + o = Beyond(t, m)
        /\ Pos(t, m) < After(t, d) /\ Beyond(t, m) \in Nat
    BY <1>1, AfterIs, BeyondIs
  <1>3. Outer(t, d) = {a \in Dies(t) : a < d /\ t.last[a] = m}
    <2>1. ASSUME NEW a \in Dies(t), a < d, t.last[a] = m PROVE a \in t.flagged
      BY <1>1, <2>1, TreeFacts
    <2>2. t.flagged \subseteq Dies(t)
      BY TreeFacts
    <2>3. QED
      BY <2>1, <2>2 DEF Outer
  <1>4. IsFiniteSet(Outer(t, d))
    BY Counts DEF Outer
  <1>5. o = 0 <=> Outer(t, d) = {}
    BY <1>4, FS_EmptySet
  <1>6. CASE \E a \in Dies(t) : a < d /\ t.last[a] = t.last[d]
    <2>1. o # 0
      BY <1>3, <1>5, <1>6
    <2>2. After(t, d) < Beyond(t, m)
      BY <1>2, <2>1
    <2>3. After(t, d) \in 1 .. Len(t.entries) /\ t.entries[After(t, d)] = Walk!NullEntry
      BY <1>1, <1>2, <2>2, NullsAfter
    <2>4. t.entries[After(t, d)].die = Walk!None
      BY <2>3 DEF Walk!NullEntry
    <2>5. QED
      BY <1>6, <2>3, <2>4
  <1>7. CASE ~ \E a \in Dies(t) : a < d /\ t.last[a] = t.last[d]
    <2>1. o = 0
      BY <1>3, <1>5, <1>7
    <2>2. m # t.n
      BY <1>1, <1>7
    <2>3. m + 1 \in Dies(t) /\ After(t, d) = Pos(t, m + 1)
      BY <1>1, <1>2, <2>1, <2>2, BeyondIs
    <2>4. Pos(t, m + 1) \in 1 .. Len(t.entries) /\ t.entries[Pos(t, m + 1)].die = m + 1
      BY <2>3, PosInEntries, EntryIs
    <2>5. QED
      BY <1>7, <2>3, <2>4
  <1>8. QED
    BY <1>6, <1>7

\* dwarf_siblingof_b() finds the next sibling, whatever the DIEs in between say
\* of children that they do not have, and of where their siblings are.
THEOREM SiblingFound ==
  ASSUME NEW t, Walk!IsTree(t), NEW d \in Dies(t), d # 0
  PROVE  IF \E a \in Dies(t) : a < d /\ t.last[a] = t.last[d]
           THEN Walk!SiblingAt(t.entries, Pos(t, d)) = Walk!None
           ELSE /\ t.last[d] + 1 \in Dies(t)
                /\ Walk!SiblingAt(t.entries, Pos(t, d)) = t.last[d] + 1
  <1> DEFINE s == t.entries
             m == t.last[d]
             x(e) == At(Pos(t, e), DepthIn(t, d, e))
  <1>1. PICK f : /\ IsScan(s, f)
                 /\ \A p : Walk!SiblingAt(s, p) =
                            IF Walk!AtEnd(s, f[At(p, 0)]) THEN Walk!None ELSE s[f[At(p, 0)]].die
    BY ScanExists
  <1>2. d \in Nat /\ m \in Nat /\ d <= m /\ m <= t.n /\ t.n \in Nat
    BY TreeFacts
  <1>3. ASSUME NEW e \in Dies(t), d <= e, e <= m
        PROVE  \/ f[x(e)] = After(t, d)
               \/ \E g \in Dies(t) : e < g /\ g <= m /\ f[x(e)] = f[x(g)]
    <2>1. e \in Nat /\ t.last[e] \in Nat /\ e <= t.last[e] /\ (d < e => t.last[e] <= m)
      BY <1>3, TreeFacts
    <2>2. Walk!ScanEntry(s, Pos(t, e), DepthIn(t, d, e)) = NextScanned(t, d, e)
      BY <1>3, ScanEntryIs
    <2>3. DepthIn(t, d, e) \in Nat
      BY <1>3, ClimbOut, ClimbOn
    <2>4. Pos(t, e) \in 1 .. Len(s)
      BY PosInEntries
    <2>5. x(e) \in Places(s) /\ x(e).at = Pos(t, e) /\ x(e).depth = DepthIn(t, d, e)
      BY <2>3, <2>4 DEF Places, At
    <2> DEFINE next == NextScanned(t, d, e)
    <2>6. f[x(e)] = IF next.depth = 0 \/ Walk!AtEnd(s, next.at) THEN next.at ELSE f[next]
      <3> HIDE DEF x, next, s
      <3>1. f[x(e)] = LET n == Walk!ScanEntry(s, x(e).at, x(e).depth)
                      IN  IF n.depth = 0 \/ Walk!AtEnd(s, n.at) THEN n.at ELSE f[n]
        BY <1>1, <2>5 DEF IsScan
      <3>2. Walk!ScanEntry(s, x(e).at, x(e).depth) = next
        BY <2>2, <2>5 DEF next, s
      <3>3. QED
        BY <3>1, <3>2
    <2>7. ASSUME NEW g \in Dies(t), e < g, g <= m, next = x(g), DepthIn(t, d, g) # 0
          PROVE  f[x(e)] = f[x(g)]
      <3>1. x(g).at = Pos(t, g) /\ x(g).depth = DepthIn(t, d, g)
        BY DEF At
      <3>2. ~ Walk!AtEnd(s, Pos(t, g))
        BY NotNull
      <3> HIDE DEF x, next, s
      <3>3. QED
        BY <2>6, <2>7, <3>1, <3>2
    <2>8. CASE t.last[e] > e /\ e \notin t.linked
      <3>1. /\ e + 1 \in Dies(t) /\ e + 1 <= m /\ e < e + 1
            /\ DepthIn(t, d, e + 1) = DepthIn(t, d, e) + 1
        <4>1. e < e + 1
          BY <2>1
        <4>2. QED
          BY <1>3, <2>8, <4>1, ClimbDown
      <3>2. DepthIn(t, d, e + 1) # 0
        BY <2>3, <3>1
      <3>3. next = x(e + 1)
        BY <2>8 DEF NextScanned
      <3> HIDE DEF x, next, m
      <3>4. QED
        BY <2>7, <3>1, <3>2, <3>3
    <2>9. CASE ~ (t.last[e] > e /\ e \notin t.linked) /\ t.last[e] = m
      <3>1. next = At(After(t, d), 0)
        BY <2>9 DEF NextScanned
      <3>2. next.depth = 0 /\ next.at = After(t, d)
        BY <3>1 DEF At
      <3> HIDE DEF next, x
      <3>3. QED
        BY <2>6, <3>2
    <2>10. CASE ~ (t.last[e] > e /\ e \notin t.linked) /\ t.last[e] # m
      <3> DEFINE g == t.last[e] + 1
      <3>1. g \in Dies(t) /\ e < g /\ g <= m /\ DepthIn(t, d, g) # 0
        BY <1>3, <2>10, ClimbOn
      <3>2. next = x(g)
        BY <2>10 DEF NextScanned
      <3> HIDE DEF x, next, m, g
      <3>3. QED
        BY <2>7, <3>1, <3>2
    <2>11. QED
      BY <2>8, <2>9, <2>10
  <1> HIDE DEF x, s
  \* Counted from the last DIE of the subtree.
  <1> DEFINE Wrong == {l \in Nat : l <= m - d /\ f[x(m - l)] # After(t, d)}
  <1>4. Wrong = {}
    <2> SUFFICES ASSUME Wrong # {} PROVE FALSE
      OBVIOUS
    <2>1. PICK l \in Wrong : l \in Nat /\ \A k \in Wrong : ~ (k < l)
      <3>1. Wrong \subseteq Nat
        OBVIOUS
      <3> HIDE DEF Wrong
      <3>2. QED
        BY <3>1, LeastOne
    <2>2. l <= m - d /\ f[x(m - l)] # After(t, d)
      BY <2>1
    <2>3. m - l \in Dies(t) /\ d <= m - l /\ m - l <= m
      BY <1>2, <2>1, <2>2 DEF Dies
    <2>4. PICK g \in Dies(t) : m - l < g /\ g <= m /\ f[x(m - l)] = f[x(g)]
      BY <1>3, <2>2, <2>3
    <2>5. g \in Nat
      BY TreeFacts
    <2>6. m - g \in Nat /\ m - g < l /\ m - g <= m - d /\ m - (m - g) = g
      BY <1>2, <2>1, <2>3, <2>4, <2>5
    <2>7. f[x(m - (m - g))] = After(t, d)
      BY <2>1, <2>6
    <2>8. QED
      BY <2>2, <2>4, <2>6, <2>7
  <1>5. f[x(d)] = After(t, d)
    <2>1. m - d \in Nat /\ m - d <= m - d /\ m - (m - d) = d
      BY <1>2
    <2>2. m - d \notin Wrong
      BY <1>4
    <2>3. QED
      BY <2>1, <2>2
  <1>6. x(d) = At(Pos(t, d), 0)
    <2>1. Inner(t, d, d) = {}
      BY <1>2, TreeFacts DEF Inner
    <2>2. QED
      BY <2>1, FS_EmptySet DEF x, DepthIn
  <1>7. Walk!SiblingAt(s, Pos(t, d)) =
          IF Walk!AtEnd(s, After(t, d)) THEN Walk!None ELSE s[After(t, d)].die
    BY <1>1, <1>5, <1>6
  <1>8. After(t, d) \in 1 .. Len(s)
    BY AfterSubtree DEF s
  <1>9. ~ Walk!AtEnd(s, After(t, d))
    <2>1. Len(s) \in Nat
      BY EntriesAre DEF s
    <2>2. QED
      BY <1>8, <2>1 DEF Walk!AtEnd
  <1>10. Walk!SiblingAt(s, Pos(t, d)) = s[After(t, d)].die
    BY <1>7, <1>9
  <1>11. QED
    BY <1>10, AfterSubtree DEF s

-----------------------------------------------------------------------------
(* Sequences, and how often something is in one.                           *)

\* A sequence without its last element.
LEMMA FrontIs ==
  ASSUME NEW S, NEW s \in Seq(S), s # <<>>
  PROVE  /\ Len(s) \in Nat /\ Len(s) > 0 /\ s[Len(s)] \in S
         /\ Walk!Front(s) \in Seq(S) /\ Len(Walk!Front(s)) = Len(s) - 1
         /\ \A i \in 1 .. Len(s) - 1 : Walk!Front(s)[i] = s[i]
         /\ s = Append(Walk!Front(s), s[Len(s)])
  <1> DEFINE f == Walk!Front(s)
  <1>1. Len(s) \in Nat /\ Len(s) > 0 /\ s[Len(s)] \in S
    OBVIOUS
  <1>2. f = SubSeq(s, 1, Len(s) - 1)
    BY DEF Walk!Front
  <1>3. f \in Seq(S) /\ Len(f) = Len(s) - 1 /\ \A i \in 1 .. Len(s) - 1 : f[i] = s[i]
    <2> HIDE DEF f
    <2>0. Len(s) - 1 \in Nat /\ Len(s) - 1 <= Len(s)
      BY <1>1
    <2>1. PICK n \in Nat : n = Len(s) - 1 /\ n <= Len(s)
      BY <2>0
    <2>2. /\ SubSeq(s, 1, n) \in Seq(S) /\ Len(SubSeq(s, 1, n)) = n
          /\ \A i \in 1 .. n : SubSeq(s, 1, n)[i] = s[i]
      BY <2>1
    <2>3. QED
      BY <1>2, <2>1, <2>2
  <1> HIDE DEF f
  <1>4. Append(f, s[Len(s)]) = s
    <2> DEFINE r == Append(f, s[Len(s)])
    <2>1. r \in Seq(S) /\ Len(r) = Len(s) /\ \A i \in 1 .. Len(s) : r[i] = s[i]
      BY <1>1, <1>3
    <2> HIDE DEF r
    <2>2. r = s
      BY <2>1
    <2>3. QED
      BY <2>2 DEF r
  <1>5. QED
    BY <1>1, <1>3, <1>4 DEF f

\* A sequence whose last element is exchanged.
LEMMA ExchangedLast ==
  ASSUME NEW S, NEW s \in Seq(S), s # <<>>, NEW x \in S
  PROVE  [s EXCEPT ![Len(s)] = x] = Append(Walk!Front(s), x)
  <1> DEFINE r == [s EXCEPT ![Len(s)] = x]
             q == Append(Walk!Front(s), x)
  <1>1. Len(s) \in Nat /\ Len(s) > 0 /\ Walk!Front(s) \in Seq(S) /\ Len(Walk!Front(s)) = Len(s) - 1
        /\ \A i \in 1 .. Len(s) - 1 : Walk!Front(s)[i] = s[i]
    BY FrontIs
  <1>2. r \in Seq(S) /\ Len(r) = Len(s) /\ \A i \in 1 .. Len(s) : r[i] = IF i = Len(s) THEN x ELSE s[i]
    BY <1>1
  <1>3. q \in Seq(S) /\ Len(q) = Len(s) /\ \A i \in 1 .. Len(s) : q[i] = IF i = Len(s) THEN x ELSE s[i]
    BY <1>1
  <1> HIDE DEF r, q
  <1>4. r = q
    BY <1>2, <1>3
  <1>5. QED
    BY <1>4 DEF r, q

\* One more handle of x.
LEMMA CountAppend ==
  ASSUME NEW S, NEW s \in Seq(S), NEW x \in S, NEW d
  PROVE  /\ Walk!Count(s, d) \in Nat
         /\ Walk!Count(Append(s, x), d) = Walk!Count(s, d) + (IF x = d THEN 1 ELSE 0)
  <1> DEFINE r == Append(s, x)
             A == {k \in DOMAIN s : s[k] = d}
             B == {k \in DOMAIN r : r[k] = d}
  <1>1. Len(s) \in Nat /\ DOMAIN s = 1 .. Len(s) /\ DOMAIN r = 1 .. Len(s) + 1
        /\ r[Len(s) + 1] = x /\ \A k \in 1 .. Len(s) : r[k] = s[k]
    OBVIOUS
  <1>2. Walk!Count(s, d) = Cardinality(A) /\ Walk!Count(r, d) = Cardinality(B)
    BY SameCount DEF Walk!Count
  <1>3. IsFiniteSet(A) /\ Cardinality(A) \in Nat
    <2>1. IsFiniteSet(1 .. Len(s))
      BY <1>1, FS_Interval
    <2>2. A \in SUBSET (1 .. Len(s))
      BY <1>1
    <2> HIDE DEF A
    <2>3. QED
      BY <2>1, <2>2, FS_Subset, FS_CardinalityType
  <1>4. B = IF x = d THEN A \cup {Len(s) + 1} ELSE A
    <2>1. \A k : k \in 1 .. Len(s) + 1 <=> (k \in 1 .. Len(s) \/ k = Len(s) + 1)
      BY <1>1
    <2> HIDE DEF r
    <2>2. QED
      BY <1>1, <2>1
  <1>5. Len(s) + 1 \notin A
    BY <1>1
  <1>6. Cardinality(A \cup {Len(s) + 1}) = Cardinality(A) + 1
    <2> HIDE DEF A
    <2>1. QED
      BY <1>3, <1>5, FS_AddElement
  <1> HIDE DEF A, B, r
  <1>7. QED
    BY <1>2, <1>3, <1>4, <1>6 DEF r

\* There are no handles in an empty list.
LEMMA CountNone == ASSUME NEW d PROVE Walk!Count(<<>>, d) = 0
  <1>1. {k \in DOMAIN <<>> : <<>>[k] = d} = {}
    OBVIOUS
  <1>2. QED
    BY <1>1, FS_EmptySet, SameCount DEF Walk!Count

\* One handle less for the last element.
LEMMA CountFront ==
  ASSUME NEW S, NEW s \in Seq(S), s # <<>>, NEW d
  PROVE  /\ Walk!Count(Walk!Front(s), d) \in Nat
         /\ Walk!Count(s, d) = Walk!Count(Walk!Front(s), d) + (IF s[Len(s)] = d THEN 1 ELSE 0)
  <1>1. s[Len(s)] \in S /\ Walk!Front(s) \in Seq(S) /\ s = Append(Walk!Front(s), s[Len(s)])
    BY FrontIs
  <1> DEFINE f == Walk!Front(s)
             x == s[Len(s)]
  <1>2. f \in Seq(S) /\ x \in S /\ s = Append(f, x)
    BY <1>1
  <1> HIDE DEF f, x
  <1>3. Walk!Count(f, d) \in Nat /\ Walk!Count(Append(f, x), d) = Walk!Count(f, d) + (IF x = d THEN 1 ELSE 0)
    BY <1>2, CountAppend
  <1>4. QED
    BY <1>2, <1>3 DEF f, x

\* The number of handles is one.
LEMMA CountTyped == ASSUME NEW S, NEW s \in Seq(S), NEW d PROVE Walk!Count(s, d) \in Nat
  <1>1. CASE s = <<>>
    BY <1>1, CountNone
  <1>2. CASE s # <<>>
    <2>1. Walk!Count(Walk!Front(s), d) \in Nat
          /\ Walk!Count(s, d) = Walk!Count(Walk!Front(s), d) + (IF s[Len(s)] = d THEN 1 ELSE 0)
      BY <1>2, CountFront
    <2>2. (IF s[Len(s)] = d THEN 1 ELSE 0) \in Nat
      OBVIOUS
    <2>3. QED
      BY <2>1, <2>2
  <1>3. QED
    BY <1>1, <1>2

\* The handles held besides the first link.
LEMMA TailAppend ==
  ASSUME NEW S, NEW s \in Seq(S), s # <<>>, NEW x \in S
  PROVE  Tail(Append(s, x)) = Append(Tail(s), x) /\ Tail(s) \in Seq(S) /\ Tail(<<x>>) = <<>>
  OBVIOUS

\* With more than one element, the first and the last are different ones.
LEMMA TailFront ==
  ASSUME NEW S, NEW s \in Seq(S), Len(s) > 1
  PROVE  /\ Tail(s) \in Seq(S) /\ Tail(s) # <<>> /\ Len(Tail(s)) = Len(s) - 1 /\ Tail(s)[Len(Tail(s))] = s[Len(s)]
         /\ Tail(Walk!Front(s)) = Walk!Front(Tail(s)) /\ Walk!Front(s) # <<>>
  <1> DEFINE f == Walk!Front(s)
             r == Tail(s)
  <1>1. Len(s) \in Nat /\ s # <<>>
    OBVIOUS
  <1>2. f \in Seq(S) /\ Len(f) = Len(s) - 1 /\ \A i \in 1 .. Len(s) - 1 : f[i] = s[i]
    BY <1>1, FrontIs
  <1>3. r \in Seq(S) /\ Len(r) = Len(s) - 1 /\ \A i \in 1 .. Len(s) - 1 : r[i] = s[i + 1]
    BY <1>1
  <1> HIDE DEF f, r
  <1>4. r # <<>> /\ f # <<>>
    BY <1>1, <1>2, <1>3
  <1>5. /\ Walk!Front(r) \in Seq(S) /\ Len(Walk!Front(r)) = Len(s) - 2
        /\ \A i \in 1 .. Len(s) - 2 : Walk!Front(r)[i] = s[i + 1]
    <2>1. /\ Walk!Front(r) \in Seq(S) /\ Len(Walk!Front(r)) = Len(r) - 1
          /\ \A i \in 1 .. Len(r) - 1 : Walk!Front(r)[i] = r[i]
      BY <1>3, <1>4, FrontIs
    <2>2. QED
      BY <1>1, <1>3, <2>1
  <1>6. /\ Tail(f) \in Seq(S) /\ Len(Tail(f)) = Len(s) - 2
        /\ \A i \in 1 .. Len(s) - 2 : Tail(f)[i] = s[i + 1]
    <2>1. Tail(f) \in Seq(S) /\ Len(Tail(f)) = Len(f) - 1 /\ \A i \in 1 .. Len(f) - 1 : Tail(f)[i] = f[i + 1]
      BY <1>2, <1>4
    <2>2. \A i \in 1 .. Len(s) - 2 : i + 1 \in 1 .. Len(s) - 1
      BY <1>1
    <2>3. QED
      BY <1>1, <1>2, <2>1, <2>2
  <1>7. Tail(f) = Walk!Front(r)
    <2> DEFINE u == Tail(f)
               v == Walk!Front(r)
    <2>1. /\ u \in Seq(S) /\ v \in Seq(S) /\ Len(u) = Len(v) /\ Len(u) = Len(s) - 2
          /\ \A i \in 1 .. Len(s) - 2 : u[i] = v[i]
      BY <1>5, <1>6
    <2> HIDE DEF u, v
    <2>2. \A i \in 1 .. Len(u) : u[i] = v[i]
      BY <2>1
    <2>3. u = v
      BY <2>1, <2>2, SeqEqual
    <2>4. QED
      BY <2>3 DEF u, v
  <1>8. r[Len(r)] = s[Len(s)]
    BY <1>1, <1>3
  <1>9. QED
    BY <1>3, <1>4, <1>7, <1>8 DEF f, r

-----------------------------------------------------------------------------
(* The DIEs on the stack are those around the DIE that the walk is at.     *)

\* d is a or below it.
Holds(t, a, d) == a <= d /\ d <= t.last[a]

\* a is visited before d is: the children come before the DIE itself.
Earlier(t, a, d) == a # d /\ (Holds(t, d, a) \/ (a < d /\ ~ Holds(t, a, d)))

\* Sequences of DIEs, from the outermost on.
In(s, a) == \E j \in 1 .. Len(s) : s[j] = a
Rises(s) == \A j \in 1 .. Len(s), k \in 1 .. Len(s) : j < k => s[j] < s[k]
EndOf(s) == IF s = <<>> THEN 0 ELSE s[Len(s)]

\* s is the way from the unit's DIE to the last of s.
IsPath(t, s) ==
  /\ Rises(s)
  /\ s # <<>> => \A a \in 1 .. t.n : Holds(t, a, s[Len(s)]) <=> In(s, a)

\* Numbers of DIEs.
LEMMA DieFacts ==
  ASSUME NEW t, Walk!IsTree(t)
  PROVE  /\ t.n \in Nat /\ t.last[0] = t.n
         /\ \A d \in 1 .. t.n : d \in Nat /\ d > 0 /\ t.last[d] \in Nat /\ d <= t.last[d] /\ t.last[d] <= t.n
         /\ \A d \in 1 .. t.n, e \in 1 .. t.n : (d < e /\ e <= t.last[d]) => t.last[e] <= t.last[d]
  BY TreeFacts DEF Dies

\* The innermost DIE of a path is a DIE, or the unit's own.
LEMMA EndTyped ==
  ASSUME NEW t, Walk!IsTree(t), NEW s \in Seq(1 .. t.n)
  PROVE  /\ EndOf(s) \in Nat /\ t.last[EndOf(s)] \in Nat /\ EndOf(s) <= t.last[EndOf(s)] /\ t.last[EndOf(s)] <= t.n
         /\ s # <<>> => EndOf(s) \in 1 .. t.n /\ EndOf(s) = s[Len(s)]
         /\ s = <<>> => EndOf(s) = 0
         /\ \A e \in 1 .. t.n : (EndOf(s) < e /\ e <= t.last[EndOf(s)]) => t.last[e] <= t.last[EndOf(s)]
  <1>1. CASE s = <<>>
    BY <1>1, TreeFacts DEF EndOf, Dies
  <1>2. CASE s # <<>>
    <2>1. s[Len(s)] \in 1 .. t.n
      BY <1>2, FrontIs
    <2>2. QED
      BY <1>2, <2>1, DieFacts DEF EndOf
  <1>3. QED
    BY <1>1, <1>2

\* What an element more or less does to what is in a sequence.
LEMMA InAppend ==
  ASSUME NEW D, NEW s \in Seq(D), NEW x \in D
  PROVE  /\ \A a : In(Append(s, x), a) <=> In(s, a) \/ a = x
         /\ Append(s, x) # <<>> /\ Append(s, x)[Len(Append(s, x))] = x
         /\ Append(s, x) \in Seq(D)
  <1>1. Len(s) \in Nat /\ Len(Append(s, x)) = Len(s) + 1 /\ Append(s, x)[Len(s) + 1] = x
        /\ \A j \in 1 .. Len(s) : Append(s, x)[j] = s[j]
    OBVIOUS
  <1>2. \A j : j \in 1 .. Len(s) + 1 <=> j \in 1 .. Len(s) \/ j = Len(s) + 1
    BY <1>1
  <1>3. Append(s, x) \in Seq(D)
    OBVIOUS
  <1>5. Append(s, x) # <<>>
    <2>1. Len(<<>>) = 0
      OBVIOUS
    <2> DEFINE r == Append(s, x)
    <2>2. Len(r) > 0
      BY <1>1
    <2> HIDE DEF r
    <2>3. r # <<>>
      BY <2>1, <2>2
    <2>4. QED
      BY <2>3 DEF r
  <1>4. QED
    BY <1>1, <1>2, <1>3, <1>5 DEF In

\* What is on a path is a DIE.
LEMMA InTyped ==
  ASSUME NEW D, NEW s \in Seq(D), NEW a, In(s, a)
  PROVE  a \in D /\ s # <<>>
  <1>1. PICK j \in 1 .. Len(s) : s[j] = a
    BY DEF In
  <1>2. s[j] \in D
    BY <1>1
  <1>3. QED
    BY <1>1, <1>2

\* A path that grows goes on rising.
LEMMA RisesAppend ==
  ASSUME NEW n \in Nat, NEW s \in Seq(1 .. n), NEW x \in 1 .. n, Rises(s), \A a : In(s, a) => a < x
  PROVE  Rises(Append(s, x))
  <1> DEFINE r == Append(s, x)
  <1>1. Len(s) \in Nat /\ Len(r) = Len(s) + 1 /\ r[Len(s) + 1] = x /\ \A j \in 1 .. Len(s) : r[j] = s[j] /\ In(s, s[j])
    BY DEF In
  <1> HIDE DEF r
  <1>2. ASSUME NEW j \in 1 .. Len(r), NEW k \in 1 .. Len(r), j < k
        PROVE  r[j] < r[k]
    <2>1. j \in 1 .. Len(s)
      BY <1>1, <1>2
    <2>2. CASE k = Len(s) + 1
      BY <1>1, <2>1, <2>2
    <2>3. CASE k # Len(s) + 1
      <3>1. k \in 1 .. Len(s)
        BY <1>1, <2>3
      <3>2. QED
        BY <1>1, <1>2, <2>1, <3>1 DEF Rises
    <2>4. QED
      BY <2>2, <2>3
  <1>3. QED
    BY <1>2 DEF Rises, r

\* What is in a sequence that rises besides its last element is less.
LEMMA RisesFront ==
  ASSUME NEW n \in Nat, NEW s \in Seq(1 .. n), s # <<>>, Rises(s)
  PROVE  /\ Rises(Walk!Front(s)) /\ Walk!Front(s) \in Seq(1 .. n) /\ s[Len(s)] \in 1 .. n
         /\ \A a : In(s, a) <=> In(Walk!Front(s), a) \/ a = s[Len(s)]
         /\ \A a : In(Walk!Front(s), a) => a < s[Len(s)] /\ a \in 1 .. n
         /\ Walk!Front(s) # <<>> =>
              \A a : In(Walk!Front(s), a) => a <= Walk!Front(s)[Len(Walk!Front(s))]
  <1> DEFINE f == Walk!Front(s)
             x == s[Len(s)]
             D == 1 .. n
  <1>1. /\ Len(s) \in Nat /\ Len(s) > 0 /\ x \in D /\ f \in Seq(D) /\ Len(f) = Len(s) - 1
        /\ \A i \in 1 .. Len(s) - 1 : f[i] = s[i]
        /\ s = Append(f, x)
    BY FrontIs
  <1>2. \A a : In(s, a) <=> In(f, a) \/ a = x
    <2> HIDE DEF f, x, D
    <2>1. \A a : In(Append(f, x), a) <=> In(f, a) \/ a = x
      BY <1>1, InAppend
    <2>2. QED
      BY <1>1, <2>1
  <1>3. \A i \in 1 .. Len(s) - 1 : i \in 1 .. Len(s) /\ i < Len(s)
    BY <1>1
  <1>4. Len(s) \in 1 .. Len(s)
    BY <1>1
  <1>5. \A a : In(f, a) => a < x /\ a \in D
    <2> SUFFICES ASSUME NEW a, In(f, a) PROVE a < x /\ a \in D
      OBVIOUS
    <2>1. PICK i \in 1 .. Len(s) - 1 : f[i] = a
      BY <1>1 DEF In
    <2>2. s[i] = a /\ i \in 1 .. Len(s) /\ i < Len(s)
      BY <1>1, <1>3, <2>1
    <2>3. a \in D
      BY <2>2
    <2>4. QED
      BY <1>4, <2>2, <2>3 DEF Rises
  <1>6. Rises(f)
    BY <1>1, <1>3 DEF Rises
  <1>7. f # <<>> => \A a : In(f, a) => a <= f[Len(f)]
    <2> SUFFICES ASSUME f # <<>>, NEW a, In(f, a) PROVE a <= f[Len(f)]
      OBVIOUS
    <2> HIDE DEF f, x, D
    <2>1. Len(f) \in 1 .. Len(f) /\ Len(f) \in Nat /\ f[Len(f)] \in D
      BY <1>1
    <2>2. PICK i \in 1 .. Len(f) : f[i] = a
      BY DEF In
    <2>3. i < Len(f) \/ i = Len(f)
      BY <2>1
    <2>4. CASE i < Len(f)
      <3>1. f[i] < f[Len(f)] /\ f[i] \in D
        BY <1>1, <1>6, <2>1, <2>4 DEF Rises
      <3>2. f[i] \in Nat /\ f[Len(f)] \in Nat
        BY <2>1, <3>1 DEF D
      <3>3. QED
        BY <2>2, <3>1, <3>2
    <2>5. CASE i = Len(f)
      <3>1. f[Len(f)] \in Nat
        BY <2>1 DEF D
      <3>2. QED
        BY <2>2, <2>5, <3>1
    <2>6. QED
      BY <2>3, <2>4, <2>5
  <1>8. QED
    BY <1>1, <1>2, <1>5, <1>6, <1>7

\* Down to the first child.
LEMMA PathDown ==
  ASSUME NEW t, Walk!IsTree(t), NEW s \in Seq(1 .. t.n), IsPath(t, s), t.last[EndOf(s)] > EndOf(s)
  PROVE  IsPath(t, Append(s, EndOf(s) + 1)) /\ EndOf(s) + 1 \in 1 .. t.n
  <1> DEFINE h == EndOf(s)
             x == h + 1
  <1>1. /\ h \in Nat /\ t.last[h] \in Nat /\ h <= t.last[h] /\ t.last[h] <= t.n /\ t.last[h] > h
        /\ t.n \in Nat /\ (s # <<>> => h \in 1 .. t.n /\ h = s[Len(s)]) /\ (s = <<>> => h = 0)
    BY EndTyped, DieFacts
  <1>2. x \in 1 .. t.n
    BY <1>1
  <1>3. \A a : In(s, a) => a \in 1 .. t.n /\ s # <<>>
    <2> SUFFICES ASSUME NEW a, In(s, a) PROVE a \in 1 .. t.n /\ s # <<>>
      OBVIOUS
    <2> DEFINE D == 1 .. t.n
    <2> HIDE DEF D
    <2>1. s \in Seq(D)
      BY DEF D
    <2>2. a \in D /\ s # <<>>
      BY <2>1, InTyped
    <2>3. QED
      BY <2>2 DEF D
  <1> HIDE DEF h
  <1>4. ASSUME NEW a \in 1 .. t.n
        PROVE  Holds(t, a, x) <=> In(s, a) \/ a = x
    <2>1. /\ a \in Nat /\ t.last[a] \in Nat /\ a <= t.last[a]
          /\ (h \in 1 .. t.n /\ a < h /\ h <= t.last[a] => t.last[h] <= t.last[a])
      BY DieFacts
    <2>2. CASE s = <<>>
      BY <1>1, <1>3, <2>1, <2>2 DEF Holds
    <2>3. CASE s # <<>>
      <3>1. Holds(t, a, h) <=> In(s, a)
        BY <1>1, <2>3 DEF IsPath
      <3>2. Holds(t, a, x) <=> Holds(t, a, h) \/ a = x
        BY <1>1, <2>1, <2>3 DEF Holds
      <3>3. QED
        BY <3>1, <3>2
    <2>4. QED
      BY <2>2, <2>3
  <1>5. \A a : In(s, a) => a < x
    <2> SUFFICES ASSUME NEW a, In(s, a) PROVE a < x
      OBVIOUS
    <2>1. a \in 1 .. t.n /\ Holds(t, a, h)
      BY <1>1, <1>3 DEF IsPath
    <2>2. QED
      BY <1>1, <2>1 DEF Holds
  <1> HIDE DEF x
  <1>6. Rises(Append(s, x))
    BY <1>1, <1>2, <1>5, RisesAppend DEF IsPath
  <1>7. \A a : In(Append(s, x), a) <=> In(s, a) \/ a = x
    <2> DEFINE D == 1 .. t.n
    <2>1. s \in Seq(D) /\ x \in D
      BY <1>2
    <2> HIDE DEF D
    <2>2. QED
      BY <2>1, InAppend
  <1>8. Append(s, x)[Len(Append(s, x))] = x
    <2> DEFINE D == 1 .. t.n
    <2>1. s \in Seq(D) /\ x \in D
      BY <1>2
    <2> HIDE DEF D
    <2>2. QED
      BY <2>1, InAppend
  <1>9. IsPath(t, Append(s, x))
    BY <1>4, <1>6, <1>7, <1>8 DEF IsPath
  <1>10. QED
    BY <1>2, <1>9 DEF x, h

\* Up to the DIE around it.
LEMMA PathUp ==
  ASSUME NEW t, Walk!IsTree(t), NEW s \in Seq(1 .. t.n), IsPath(t, s), s # <<>>
  PROVE  IsPath(t, Walk!Front(s))
  <1> DEFINE f == Walk!Front(s)
             x == s[Len(s)]
             y == f[Len(f)]
  <1>1. /\ Rises(f) /\ f \in Seq(1 .. t.n) /\ x \in 1 .. t.n /\ t.n \in Nat
        /\ \A a : In(s, a) <=> In(f, a) \/ a = x
        /\ \A a : In(f, a) => a < x /\ a \in 1 .. t.n
        /\ f # <<>> => \A a : In(f, a) => a <= y
    <2>1. t.n \in Nat /\ Rises(s)
      BY DieFacts DEF IsPath
    <2>2. QED
      BY <2>1, RisesFront
  <1>2. \A a \in 1 .. t.n : Holds(t, a, x) <=> In(s, a)
    BY DEF IsPath
  <1>3. f # <<>> => y \in 1 .. t.n /\ In(f, y)
    <2> HIDE DEF f
    <2>1. SUFFICES ASSUME f # <<>> PROVE y \in 1 .. t.n /\ In(f, y)
      OBVIOUS
    <2>2. Len(f) \in 1 .. Len(f) /\ f[Len(f)] \in 1 .. t.n
      BY <1>1, <2>1
    <2>3. QED
      BY <2>2 DEF In
  <1> HIDE DEF f, x, y
  <1>4. ASSUME f # <<>>, NEW a \in 1 .. t.n
        PROVE  Holds(t, a, y) <=> In(f, a)
    <2>1. y \in 1 .. t.n /\ In(f, y) /\ y < x /\ Holds(t, y, x)
      BY <1>1, <1>2, <1>3, <1>4
    <2>2. /\ a \in Nat /\ t.last[a] \in Nat /\ y \in Nat /\ t.last[y] \in Nat /\ x \in Nat
          /\ (a < y /\ y <= t.last[a]) => t.last[y] <= t.last[a]
      BY <1>1, <2>1, DieFacts
    <2>3. ASSUME Holds(t, a, y) PROVE In(f, a)
      <3>1. Holds(t, a, x) /\ a # x
        BY <2>1, <2>2, <2>3 DEF Holds
      <3>2. QED
        BY <1>1, <1>2, <3>1
    <2>4. ASSUME In(f, a) PROVE Holds(t, a, y)
      <3>1. Holds(t, a, x) /\ a <= y
        BY <1>1, <1>2, <1>4, <2>4
      <3>2. QED
        BY <2>1, <2>2, <3>1 DEF Holds
    <2>5. QED
      BY <2>3, <2>4
  <1>5. QED
    BY <1>1, <1>4 DEF IsPath, f, y

\* On to the next sibling.
LEMMA PathOn ==
  ASSUME NEW t, Walk!IsTree(t), NEW s \in Seq(1 .. t.n), IsPath(t, s), s # <<>>,
         \A a \in Dies(t) : ~ (a < s[Len(s)] /\ t.last[a] = t.last[s[Len(s)]]),
         t.last[s[Len(s)]] + 1 \in 1 .. t.n
  PROVE  IsPath(t, Append(Walk!Front(s), t.last[s[Len(s)]] + 1))
  <1> DEFINE f == Walk!Front(s)
             x == s[Len(s)]
             y == t.last[x] + 1
  <1>1. /\ Rises(f) /\ f \in Seq(1 .. t.n) /\ x \in 1 .. t.n /\ t.n \in Nat /\ y \in 1 .. t.n
        /\ \A a : In(s, a) <=> In(f, a) \/ a = x
        /\ \A a : In(f, a) => a < x /\ a \in 1 .. t.n
    <2>1. t.n \in Nat /\ Rises(s)
      BY DieFacts DEF IsPath
    <2>2. QED
      BY <2>1, RisesFront
  <1>2. \A a \in 1 .. t.n : Holds(t, a, x) <=> In(s, a)
    BY DEF IsPath
  <1>3. \A a \in 1 .. t.n : a < x => t.last[a] # t.last[x]
    <2>1. \A a \in 1 .. t.n : a \in Dies(t)
      BY <1>1 DEF Dies
    <2>2. QED
      BY <2>1
  <1>4. x \in Nat /\ t.last[x] \in Nat /\ x <= t.last[x] /\ y = t.last[x] + 1
    BY <1>1, DieFacts
  <1> HIDE DEF f, x, y
  <1>5. ASSUME NEW a \in 1 .. t.n
        PROVE  Holds(t, a, y) <=> In(f, a) \/ a = y
    <2>1. /\ a \in Nat /\ t.last[a] \in Nat /\ a <= t.last[a]
          /\ (a < x /\ x <= t.last[a]) => t.last[x] <= t.last[a]
          /\ (x < a /\ a <= t.last[x]) => t.last[a] <= t.last[x]
      BY <1>1, DieFacts
    <2>2. ASSUME Holds(t, a, y), a # y PROVE In(f, a)
      <3>1. a < x /\ x <= t.last[a]
        BY <1>4, <2>1, <2>2, SMTT(30) DEF Holds
      <3>2. Holds(t, a, x) /\ a # x
        BY <1>4, <2>1, <3>1 DEF Holds
      <3>3. QED
        BY <1>1, <1>2, <3>2
    <2>3. ASSUME In(f, a) PROVE Holds(t, a, y)
      <3>1. a < x /\ Holds(t, a, x) /\ t.last[a] # t.last[x]
        BY <1>1, <1>2, <1>3, <2>3
      <3>2. QED
        BY <1>4, <2>1, <3>1 DEF Holds
    <2>4. Holds(t, y, y)
      <3>1. y \in Nat /\ y <= t.last[y]
        BY <1>1, DieFacts
      <3>2. QED
        BY <3>1 DEF Holds
    <2>5. QED
      BY <2>2, <2>3, <2>4
  <1>6. \A a : In(f, a) => a < y
    <2> SUFFICES ASSUME NEW a, In(f, a) PROVE a < y
      OBVIOUS
    <2>1. a < x /\ a \in 1 .. t.n
      BY <1>1
    <2>2. QED
      BY <1>1, <1>4, <2>1
  <1>7. Rises(Append(f, y))
    BY <1>1, <1>6, RisesAppend
  <1>8. \A a : In(Append(f, y), a) <=> In(f, a) \/ a = y
    <2> DEFINE D == 1 .. t.n
    <2>1. f \in Seq(D) /\ y \in D
      BY <1>1
    <2> HIDE DEF D
    <2>2. QED
      BY <2>1, InAppend
  <1>9. Append(f, y)[Len(Append(f, y))] = y
    <2> DEFINE D == 1 .. t.n
    <2>1. f \in Seq(D) /\ y \in D
      BY <1>1
    <2> HIDE DEF D
    <2>2. QED
      BY <2>1, InAppend
  <1>10. IsPath(t, Append(f, y))
    BY <1>5, <1>7, <1>8, <1>9 DEF IsPath
  <1>11. QED
    BY <1>10 DEF f, x, y

-----------------------------------------------------------------------------
(* What has been visited when the walk is at a DIE.                        *)

\* Behind the DIE whose children come next lie the DIEs that end before it.
LEMMA BehindDown ==
  ASSUME NEW t, Walk!IsTree(t), NEW s \in Seq(1 .. t.n), t.last[EndOf(s)] > EndOf(s),
         NEW e \in 1 .. t.n, e < EndOf(s) + 1, t.last[e] < EndOf(s) + 1
  PROVE  e < EndOf(s) /\ t.last[e] < EndOf(s)
  <1> DEFINE h == EndOf(s)
  <1>1. /\ h \in Nat /\ t.last[h] \in Nat /\ t.last[h] > h /\ (s # <<>> => h \in 1 .. t.n) /\ (s = <<>> => h = 0)
    BY EndTyped
  <1>2. /\ e \in Nat /\ e > 0 /\ t.last[e] \in Nat /\ e <= t.last[e] /\ e < h + 1 /\ t.last[e] < h + 1
        /\ (h \in 1 .. t.n /\ e < h /\ h <= t.last[e]) => t.last[h] <= t.last[e]
    BY DieFacts
  <1> HIDE DEF h
  <1>3. e < h /\ t.last[e] < h
    BY <1>1, <1>2
  <1>4. QED
    BY <1>3 DEF h

\* A DIE without children is visited once those that end before it are.
LEMMA BehindLeaf ==
  ASSUME NEW t, Walk!IsTree(t), NEW d \in 1 .. t.n, t.last[d] <= d,
         NEW e \in 1 .. t.n, Earlier(t, e, d)
  PROVE  e < d /\ t.last[e] < d
  <1>1. d \in Nat /\ t.last[d] \in Nat /\ d <= t.last[d] /\ e \in Nat /\ t.last[e] \in Nat /\ e <= t.last[e]
    BY DieFacts
  <1>2. QED
    BY <1>1 DEF Earlier, Holds

\* A sibling that is gone on to comes right behind what was visited and its
\* elder sibling.
LEMMA BehindOn ==
  ASSUME NEW t, Walk!IsTree(t), NEW d \in 1 .. t.n,
         \A a \in Dies(t) : ~ (a < d /\ t.last[a] = t.last[d]),
         NEW e \in 1 .. t.n, e < t.last[d] + 1, t.last[e] < t.last[d] + 1
  PROVE  e = d \/ Earlier(t, e, d)
  <1>1. /\ d \in Nat /\ t.last[d] \in Nat /\ d <= t.last[d] /\ e \in Nat /\ t.last[e] \in Nat /\ e <= t.last[e]
        /\ (e < d /\ d <= t.last[e]) => t.last[d] <= t.last[e]
    BY DieFacts
  <1>2. e < d => t.last[e] # t.last[d]
    <2>1. e \in Dies(t)
      BY <1>1, DieFacts DEF Dies
    <2>2. QED
      BY <2>1
  <1>3. QED
    BY <1>1, <1>2 DEF Earlier, Holds

\* After the last sibling follows the DIE around them, or the walk is over.
LEMMA BehindUp ==
  ASSUME NEW t, Walk!IsTree(t), NEW s \in Seq(1 .. t.n), IsPath(t, s), s # <<>>,
         \E a \in Dies(t) : a < s[Len(s)] /\ t.last[a] = t.last[s[Len(s)]],
         NEW e \in 1 .. t.n,
         Walk!Front(s) # <<>> => Earlier(t, e, Walk!Front(s)[Len(Walk!Front(s))])
  PROVE  e = s[Len(s)] \/ Earlier(t, e, s[Len(s)])
  <1> DEFINE f == Walk!Front(s)
             x == s[Len(s)]
             y == f[Len(f)]
  <1>1. /\ f \in Seq(1 .. t.n) /\ x \in 1 .. t.n /\ t.n \in Nat
        /\ \A a : In(s, a) <=> In(f, a) \/ a = x
        /\ \A a : In(f, a) => a < x /\ a \in 1 .. t.n /\ f # <<>>
        /\ f # <<>> => \A a : In(f, a) => a <= y
    <2>1. t.n \in Nat /\ Rises(s)
      BY DieFacts DEF IsPath
    <2>2. /\ f \in Seq(1 .. t.n) /\ x \in 1 .. t.n
          /\ \A a : In(s, a) <=> In(f, a) \/ a = x
          /\ \A a : In(f, a) => a < x /\ a \in 1 .. t.n
          /\ f # <<>> => \A a : In(f, a) => a <= y
      BY <2>1, RisesFront
    <2> HIDE DEF f, x, y
    <2>3. \A a : In(f, a) => f # <<>>
      BY <2>2, InTyped
    <2>4. QED
      BY <2>1, <2>2, <2>3
  <1>2. \A a \in 1 .. t.n : Holds(t, a, x) <=> In(s, a)
    BY DEF IsPath
  <1>3. f # <<>> => y \in 1 .. t.n /\ In(f, y)
    <2> HIDE DEF f
    <2>1. SUFFICES ASSUME f # <<>> PROVE y \in 1 .. t.n /\ In(f, y)
      OBVIOUS
    <2>2. Len(f) \in 1 .. Len(f) /\ f[Len(f)] \in 1 .. t.n
      BY <1>1, <2>1
    <2>3. QED
      BY <2>2 DEF In
  <1>4. PICK a \in Dies(t) : a < x /\ t.last[a] = t.last[x]
    OBVIOUS
  <1>5. f # <<>> => Earlier(t, e, y)
    OBVIOUS
  <1> HIDE DEF f, x, y
  <1>6. /\ x \in Nat /\ t.last[x] \in Nat /\ x <= t.last[x] /\ t.last[x] <= t.n /\ a \in Nat /\ (a = 0 \/ a \in 1 .. t.n)
        /\ e \in Nat /\ e > 0 /\ t.last[e] \in Nat /\ e <= t.last[e] /\ e <= t.n /\ t.last[0] = t.n
    <2>1. x \in Nat /\ t.last[x] \in Nat /\ x <= t.last[x] /\ t.last[x] <= t.n
      BY <1>1, DieFacts
    <2>2. a \in Nat /\ (a = 0 \/ a \in 1 .. t.n)
      BY <1>1, <1>4 DEF Dies
    <2>3. e \in Nat /\ e > 0 /\ t.last[e] \in Nat /\ e <= t.last[e] /\ e <= t.n /\ t.last[0] = t.n
      BY DieFacts
    <2>4. QED
      BY <2>1, <2>2, <2>3
  <1>7. SUFFICES ASSUME e < x, Holds(t, e, x) PROVE FALSE
    <2>1. e = x \/ e < x \/ (x < e /\ Holds(t, x, e)) \/ t.last[x] < e
      BY <1>6 DEF Holds
    <2>2. ASSUME t.last[x] < e PROVE FALSE
      <3>1. a \in 1 .. t.n
        BY <1>4, <1>6, <2>2
      <3>2. Holds(t, a, x)
        BY <1>4, <1>6 DEF Holds
      <3>3. In(f, a)
        BY <1>1, <1>2, <1>4, <1>6, <3>1, <3>2
      <3>4. f # <<>> /\ y \in 1 .. t.n /\ In(f, y) /\ a <= y /\ y < x
        BY <1>1, <1>3, <3>3
      <3>5. y \in Nat /\ t.last[y] \in Nat /\ ((a < y /\ y <= t.last[a]) => t.last[y] <= t.last[a])
        BY <3>1, <3>4, DieFacts
      <3>6. t.last[y] <= t.last[x]
        BY <1>4, <1>6, <3>4, <3>5
      <3>7. Earlier(t, e, y)
        BY <1>5, <3>4
      <3>8. QED
        BY <1>6, <2>2, <3>4, <3>5, <3>6, <3>7 DEF Earlier, Holds
    <2>3. e = x \/ Earlier(t, e, x)
      BY <1>6, <1>7, <2>1, <2>2 DEF Earlier, Holds
    <2>4. QED
      BY <2>3 DEF x
  <1>8. In(f, e)
    BY <1>1, <1>2, <1>6, <1>7
  <1>9. f # <<>> /\ y \in 1 .. t.n /\ In(f, y) /\ e <= y /\ y < x /\ Holds(t, y, x)
    BY <1>1, <1>2, <1>3, <1>8
  <1>10. y \in Nat /\ t.last[y] \in Nat
    BY <1>9, DieFacts
  <1>11. Earlier(t, e, y)
    BY <1>5, <1>9
  <1>12. QED
    BY <1>6, <1>7, <1>9, <1>10, <1>11 DEF Earlier, Holds

\* Of two DIEs one is visited before the other, and not the other way round.
LEMMA OneEarlier ==
  ASSUME NEW t, Walk!IsTree(t), NEW d \in 1 .. t.n, NEW e \in 1 .. t.n, d # e
  PROVE  Earlier(t, d, e) <=> ~ Earlier(t, e, d)
  <1>1. d \in Nat /\ e \in Nat /\ t.last[d] \in Nat /\ t.last[e] \in Nat
    BY DieFacts
  <1>2. QED
    BY <1>1 DEF Earlier, Holds

-----------------------------------------------------------------------------
(* The shape of the walk.                                                  *)

\* The DIE that the innermost walkChildren() is at, and where it is used.
DieAt == stack[Len(stack)]
AtTop == {"visit", "call", "name", "unlink"}

\* What the places of the walk rely on.
WalkShape ==
  /\ Walk!IsTree(tree)
  /\ stack \in Seq(1 .. tree.n) /\ links \in Seq(1 .. tree.n)
  /\ attrs \subseteq {"call_file", "call_line"} /\ stop \in BOOLEAN /\ fault \in BOOLEAN
  /\ wpc \in AtTop \cup {"idle", "descend", "done"}
  /\ wpc \in AtTop => stack # <<>>
  /\ wpc \in {"idle", "done"} => stack = <<>>
  /\ wpc \in {"name", "unlink"} <=> links # <<>>
  /\ wpc \in {"call", "name", "unlink"} => Walk!Stops(DieAt)
  /\ wpc = "call" => Walk!die[DieAt].kind = "inlined" /\ Walk!die[DieAt].call # Walk!None
  /\ wpc \in {"name", "unlink"} => Walk!Reports(DieAt)
  /\ attrs # {} => wpc \in {"call", "name", "unlink"} /\ Walk!die[DieAt].kind = "inlined"
  /\ wpc \in {"idle", "descend"} => ~ stop

\* The handles that dwarf_name_of_func_linked() holds.
Held(ls, d) == IF ls = <<>> THEN 0 ELSE Walk!Count(Tail(ls), d)
WalkHandles ==
  /\ live \in [1 .. tree.n -> Int]
  /\ \A d \in 1 .. tree.n : live[d] = Walk!Count(stack, d) + Held(links, d)

\* The walk looks at real DIEs.
LEMMA HereTyped ==
  ASSUME WalkShape
  PROVE  /\ Walk!Here \in Dies(tree) /\ tree.n \in Nat
         /\ stack # <<>> => /\ DieAt \in 1 .. tree.n /\ DieAt \in Dies(tree) /\ DieAt # 0
                            /\ Walk!Top = DieAt /\ Walk!Here = DieAt
         /\ stack = <<>> => Walk!Here = 0
  <1>1. tree.n \in Nat /\ stack \in Seq(1 .. tree.n)
    BY DEF WalkShape, Walk!IsTree
  <1>2. stack # <<>> => DieAt \in 1 .. tree.n
    BY <1>1 DEF DieAt
  <1>3. QED
    BY <1>1, <1>2 DEF Walk!Here, Walk!Top, DieAt, Dies

\* dwarf_child() and dwarf_siblingof_b() in the walk.
LEMMA ChildIs ==
  ASSUME WalkShape
  PROVE  LET h == Walk!Here
         IN  /\ Walk!Child(h) = IF tree.last[h] > h THEN h + 1 ELSE Walk!None
             /\ tree.last[h] > h => h + 1 \in 1 .. tree.n /\ h + 1 # Walk!None
  <1> DEFINE h == Walk!Here
  <1>1. h \in Dies(tree) /\ Walk!IsTree(tree)
    BY HereTyped DEF WalkShape
  <1>2. Walk!Child(h) = Walk!ChildAt(tree.entries, Pos(tree, h))
    BY DEF Walk!Child, Walk!Position, Pos
  <1> HIDE DEF h
  <1>3. Walk!Child(h) = IF tree.last[h] > h THEN h + 1 ELSE Walk!None
    BY <1>1, <1>2, ChildFound
  <1>4. tree.last[h] \in Nat /\ tree.last[h] <= tree.n /\ h \in Nat /\ tree.n \in Nat
    BY <1>1, TreeFacts
  <1>5. QED
    BY <1>3, <1>4 DEF Walk!None, h

\* dwarf_siblingof_b() in the walk finds the sibling that begins where the DIE
\* ends, unless the list of siblings ends there.
LEMMA SiblingIs ==
  ASSUME WalkShape, stack # <<>>
  PROVE  IF \E a \in Dies(tree) : a < DieAt /\ tree.last[a] = tree.last[DieAt]
           THEN Walk!Sibling(DieAt) = Walk!None
           ELSE /\ Walk!Sibling(DieAt) = tree.last[DieAt] + 1
                /\ Walk!Sibling(DieAt) \in 1 .. tree.n /\ Walk!Sibling(DieAt) # Walk!None
  <1>1. DieAt \in Dies(tree) /\ DieAt # 0 /\ Walk!IsTree(tree)
    BY HereTyped DEF WalkShape
  <1>2. Walk!Sibling(DieAt) = Walk!SiblingAt(tree.entries, Pos(tree, DieAt))
    BY DEF Walk!Sibling, Walk!Position, Pos
  <1>3. tree.last[DieAt] \in Nat /\ tree.n \in Nat
    BY <1>1, TreeFacts
  <1>4. CASE \E a \in Dies(tree) : a < DieAt /\ tree.last[a] = tree.last[DieAt]
    BY <1>1, <1>2, <1>4, SiblingFound
  <1>5. CASE ~ \E a \in Dies(tree) : a < DieAt /\ tree.last[a] = tree.last[DieAt]
    <2>1. tree.last[DieAt] + 1 \in Dies(tree) /\ Walk!Sibling(DieAt) = tree.last[DieAt] + 1
      BY <1>1, <1>2, <1>5, SiblingFound
    <2>2. tree.last[DieAt] + 1 \in 1 .. tree.n /\ tree.last[DieAt] + 1 # Walk!None
      BY <1>3, <2>1 DEF Dies, Walk!None
    <2>3. QED
      BY <1>5, <2>1, <2>2
  <1>6. QED
    BY <1>4, <1>5

-----------------------------------------------------------------------------
(* What the steps of the walk do to the recursion.                         *)

\* What walkChildren() returns to.
Goes == wpc' = IF stack' = <<>> THEN "done" ELSE "visit"

\* A walkChildren() ends with the DIE that it has come to.
Popped ==
  /\ stack' = Walk!Front(stack) /\ Goes
  /\ live' = [live EXCEPT ![DieAt] = @ - 1]

\* It goes on with the next.
Swapped ==
  /\ Walk!Sibling(DieAt) # Walk!None
  /\ stack' = Append(Walk!Front(stack), Walk!Sibling(DieAt)) /\ wpc' = "descend"
  /\ live' = Walk!Swap(DieAt, Walk!Sibling(DieAt))

\* What the visit of a DIE ends with.
LEMMA VisitEnds ==
  ASSUME WalkShape, stack # <<>>, NEW res \in BOOLEAN, Walk!AfterVisit(res)
  PROVE  \/ Popped /\ (stop \/ res) /\ stop' = TRUE /\ fault' = fault
         \/ Popped /\ ~ stop /\ ~ res /\ stop' = FALSE /\ fault' = (fault \/ Walk!Sibling(DieAt) # Walk!None)
         \/ Swapped /\ ~ stop /\ ~ res /\ stop' = FALSE /\ fault' = fault
  <1>1. Walk!Top = DieAt
    BY HereTyped
  <1>2. CASE Walk!Stop(res) /\ UNCHANGED fault
    BY <1>1, <1>2 DEF Walk!Stop, Walk!Return, Popped, Goes
  <1>3. CASE ~ stop /\ ~ res /\ Walk!NextSibling /\ UNCHANGED fault
    <2>1. Walk!Sibling(DieAt) # Walk!None /\ Walk!Sibling(DieAt) \in 1 .. tree.n
      BY <1>1, <1>3, SiblingIs DEF Walk!NextSibling
    <2>2. stack \in Seq(1 .. tree.n)
      BY DEF WalkShape
    <2>3. stack' = [stack EXCEPT ![Len(stack)] = Walk!Sibling(DieAt)]
      BY <1>1, <1>3 DEF Walk!NextSibling
    <2>4. stack' = Append(Walk!Front(stack), Walk!Sibling(DieAt))
      BY <2>1, <2>2, <2>3, ExchangedLast
    <2>5. stop = FALSE
      BY <1>3 DEF WalkShape
    <2>6. QED
      BY <1>1, <1>3, <2>1, <2>4, <2>5 DEF Walk!NextSibling, Swapped
  <1>4. CASE ~ stop /\ ~ res /\ Walk!LastSibling /\ fault' = (fault \/ Walk!Sibling(Walk!Top) # Walk!None)
    BY <1>1, <1>4 DEF Walk!LastSibling, Walk!Return, Popped, Goes
  <1>5. QED
    BY <1>2, <1>3, <1>4 DEF Walk!AfterVisit

-----------------------------------------------------------------------------
(* The shape of the walk is kept.                                          *)

\* What a step of the walk leaves alone around it.
Around ==
  /\ tree' = tree /\ list' = list /\ pc' = pc /\ FilenoOffs' = FilenoOffs /\ RowIndex' = RowIndex

\* The walk changes nothing else of the lookup.
LEMMA AroundKept ==
  ASSUME WalkStep
  PROVE  Around /\ Walk!Next
  <1>1. Walk!Next /\ list' = list /\ mode' = mode /\ src' = src /\ pc' = pc /\ rows' = rows /\ hit' = hit
    BY DEF WalkStep, readerVars, lookupVars
  <1>2. tree' = tree
    BY <1>1 DEF Walk!Next, Walk!Descend, Walk!NoChild, Walk!VisitOther, Walk!VisitSubprogram, Walk!VisitNoCall,
      Walk!VisitInlined, Walk!CallUnusable, Walk!CallUsable, Walk!FollowLink, Walk!NameEnds, Walk!NameFails,
      Walk!Unlink, Walk!ReportSubprogram, Walk!ReportInlined
  <1>3. FilenoOffs' = FilenoOffs
    BY <1>1 DEF FilenoOffs
  <1>4. RowIndex' = RowIndex
    BY <1>1, <1>3 DEF RowIndex
  <1>5. QED
    BY <1>1, <1>2, <1>3, <1>4 DEF Around

\* A walkChildren() that ends or goes on leaves no shape broken.
LEMMA LeaveShape ==
  ASSUME WalkShape, stack # <<>>, Around, Popped \/ Swapped, links' = <<>>, attrs' = {},
         stop' \in BOOLEAN, fault' \in BOOLEAN, Swapped => ~ stop'
  PROVE  WalkShape'
  <1>1. stack \in Seq(1 .. tree.n) /\ Walk!IsTree(tree)
    BY DEF WalkShape
  <1>2. Walk!Front(stack) \in Seq(1 .. tree.n)
    BY <1>1, FrontIs
  <1>3. Walk!IsTree(tree)' /\ tree.n' = tree.n
    BY <1>1 DEF Around, Walk!IsTree
  <1>4. CASE Popped
    <2>1. stack' \in Seq(1 .. tree.n) /\ wpc' \in {"done", "visit"}
          /\ (wpc' = "done" => stack' = <<>>) /\ (wpc' = "visit" => stack' # <<>>)
      BY <1>2, <1>4 DEF Popped, Goes
    <2>2. QED
      BY <1>3, <2>1 DEF WalkShape, AtTop
  <1>5. CASE Swapped
    <2>1. Walk!Sibling(DieAt) \in 1 .. tree.n
      BY <1>5, SiblingIs DEF Swapped
    <2>2. stack' \in Seq(1 .. tree.n) /\ wpc' = "descend"
      BY <1>2, <1>5, <2>1 DEF Swapped
    <2>3. QED
      BY <1>3, <1>5, <2>2 DEF WalkShape, AtTop
  <1>6. QED
    BY <1>4, <1>5

\* The shape is kept where the visit of a DIE ends.
LEMMA VisitShape ==
  ASSUME WalkShape, stack # <<>>, Around, links' = <<>>, attrs' = {}, NEW res \in BOOLEAN, Walk!AfterVisit(res)
  PROVE  WalkShape'
  <1>1. \/ Popped /\ (stop \/ res) /\ stop' = TRUE /\ fault' = fault
        \/ Popped /\ ~ stop /\ ~ res /\ stop' = FALSE /\ fault' = (fault \/ Walk!Sibling(DieAt) # Walk!None)
        \/ Swapped /\ ~ stop /\ ~ res /\ stop' = FALSE /\ fault' = fault
    BY VisitEnds
  <1>2. fault \in BOOLEAN /\ (fault \/ Walk!Sibling(DieAt) # Walk!None) \in BOOLEAN
    BY Zenon DEF WalkShape
  <1>3. /\ Popped \/ Swapped
        /\ stop' = TRUE \/ stop' = FALSE
        /\ fault' \in BOOLEAN
        /\ Swapped => ~ stop'
    <2>1. CASE Popped /\ (stop \/ res) /\ stop' = TRUE /\ fault' = fault
      BY <1>2, <2>1 DEF Popped, Swapped, Goes
    <2>2. CASE Popped /\ ~ stop /\ ~ res /\ stop' = FALSE /\ fault' = (fault \/ Walk!Sibling(DieAt) # Walk!None)
      BY <1>2, <2>2, Zenon
    <2>3. CASE Swapped /\ ~ stop /\ ~ res /\ stop' = FALSE /\ fault' = fault
      BY <1>2, <2>3
    <2>4. QED
      BY <1>1, <2>1, <2>2, <2>3
  <1>4. stop' \in BOOLEAN
    BY <1>3
  <1>5. QED
    BY <1>3, <1>4, LeaveShape

\* An origin or specification that is followed is a DIE of the unit's.
LEMMA LinkTyped ==
  ASSUME WalkShape, Walk!FollowLink
  PROVE  Walk!die[Walk!Last(links)].name \in 1 .. tree.n
  <1>1. links \in Seq(1 .. tree.n) /\ links # <<>> /\ Walk!IsTree(tree)
    BY DEF Walk!FollowLink, WalkShape
  <1>2. Walk!Last(links) \in 1 .. tree.n
    <2>1. links[Len(links)] \in 1 .. tree.n
      BY <1>1, FrontIs
    <2>2. QED
      BY <2>1 DEF Walk!Last
  <1>3. tree.n \in Nat /\ \A d \in 1 .. tree.n : tree.die[d] \in Walk!DieAttrs /\ tree.die[d].name < d
    BY <1>1 DEF Walk!IsTree
  <1> DEFINE l == Walk!Last(links)
             m == tree.die[l].name
  <1>4. m > 0 /\ m < l /\ m \in Nat \cup {-1}
    <2>1. tree.die[l] \in Walk!DieAttrs /\ m < l
      BY <1>2, <1>3
    <2>2. m \in Nat \cup {-1}
      BY <2>1 DEF Walk!DieAttrs, Walk!None
    <2>3. QED
      BY <2>1, <2>2 DEF Walk!FollowLink, Walk!die
  <1>5. l \in 1 .. tree.n
    BY <1>2
  <1> HIDE DEF l, m
  <1>6. m \in 1 .. tree.n
    BY <1>3, <1>4, <1>5
  <1>7. QED
    BY <1>6 DEF m, l, Walk!die

\* Every step keeps the shape.
LEMMA ShapeKept ==
  ASSUME WalkShape, WalkStep
  PROVE  WalkShape'
  <1>1. Around /\ Walk!Next
    BY AroundKept
  <1>2. /\ Walk!IsTree(tree) /\ stack \in Seq(1 .. tree.n) /\ links \in Seq(1 .. tree.n)
        /\ Walk!IsTree(tree)' /\ tree' = tree /\ FilenoOffs' = FilenoOffs /\ list' = list
        /\ fault \in BOOLEAN /\ stop \in BOOLEAN
    BY <1>1 DEF Around, Walk!IsTree, WalkShape
  <1>3. wpc \in AtTop => stack # <<>> /\ Walk!Top = DieAt /\ DieAt \in 1 .. tree.n
    BY HereTyped DEF WalkShape
  <1>4. CASE Walk!Descend
    <2>1. Walk!Child(Walk!Here) \in 1 .. tree.n
      BY <1>4, ChildIs DEF Walk!Descend
    <2>2. stack' \in Seq(1 .. tree.n) /\ wpc' = "descend" /\ wpc = "descend"
      BY <1>2, <1>4, <2>1 DEF Walk!Descend
    <2>3. QED
      BY <1>2, <1>4, <2>2 DEF WalkShape, AtTop, Walk!Descend
  <1>5. CASE Walk!NoChild
    BY <1>2, <1>5 DEF WalkShape, AtTop, Walk!NoChild, Walk!Return
  <1>6. CASE Walk!VisitOther
    <2>1. stack # <<>> /\ Walk!AfterVisit(FALSE) /\ links' = <<>> /\ attrs' = {}
      BY <1>3, <1>6 DEF Walk!VisitOther, WalkShape, AtTop
    <2>2. QED
      BY <1>1, <1>2, <2>1, VisitShape
  <1>7. CASE Walk!VisitSubprogram
    <2>1. stack' = stack /\ wpc' = "name" /\ links' = <<DieAt>>
          /\ attrs' = attrs /\ attrs = {} /\ stop' = stop /\ fault' = fault
          /\ stack # <<>> /\ DieAt \in 1 .. tree.n /\ Walk!Stops(DieAt) /\ Walk!die[DieAt].kind = "subprogram"
      BY <1>3, <1>7 DEF Walk!VisitSubprogram, WalkShape, AtTop
    <2>2. links' \in Seq(1 .. tree.n) /\ links' # <<>>
      BY <2>1
    <2>3. QED
      BY <1>2, <2>1, <2>2 DEF WalkShape, AtTop, DieAt, Walk!Stops, Walk!die, Walk!Reports, Walk!CallInList
  <1>8. CASE Walk!VisitNoCall
    <2>1. stack # <<>> /\ Walk!AfterVisit(TRUE) /\ links' = <<>> /\ attrs' = {}
      BY <1>3, <1>8 DEF Walk!VisitNoCall, WalkShape, AtTop
    <2>2. QED
      BY <1>1, <1>2, <2>1, VisitShape
  <1>9. CASE Walk!VisitInlined
    BY <1>2, <1>3, <1>9 DEF Walk!VisitInlined, WalkShape, AtTop, DieAt, Walk!Stops, Walk!die
  <1>10. CASE Walk!CallUnusable
    <2>1. stack # <<>> /\ links' = <<>> /\ attrs' = {} /\ wpc = "call"
      BY <1>3, <1>10 DEF Walk!CallUnusable, WalkShape, AtTop
    <2>2. CASE ~ Walk!CallInList(Walk!Top) /\ Walk!AfterVisit(TRUE)
      BY <1>1, <1>2, <2>1, <2>2, VisitShape
    <2>3. CASE Walk!CallInList(Walk!Top) /\ fault' = TRUE /\ Walk!Stop(TRUE)
      <3>1. Popped /\ stop' = TRUE
        BY <1>3, <2>1, <2>3 DEF Walk!Stop, Walk!Return, Popped, Goes, AtTop
      <3>2. stop' \in BOOLEAN /\ fault' \in BOOLEAN /\ (Swapped => ~ stop')
        BY <2>3, <3>1 DEF Popped, Swapped, Goes
      <3>3. QED
        BY <1>1, <2>1, <3>1, <3>2, LeaveShape
    <2>4. QED
      BY <1>10, <2>2, <2>3 DEF Walk!CallUnusable
  <1>11. CASE Walk!CallUsable
    <2>1. stack' = stack /\ wpc' = "name" /\ wpc = "call" /\ links' = <<DieAt>>
          /\ attrs' = attrs /\ stop' = stop /\ fault' = fault
          /\ stack # <<>> /\ DieAt \in 1 .. tree.n /\ Walk!CallInList(DieAt)
      BY <1>3, <1>11 DEF Walk!CallUsable, AtTop
    <2>2. links' \in Seq(1 .. tree.n) /\ links' # <<>>
      BY <2>1
    <2>3. QED
      BY <1>2, <2>1, <2>2 DEF WalkShape, AtTop, DieAt, Walk!Stops, Walk!die, Walk!Reports, Walk!CallInList
  <1>12. CASE Walk!FollowLink
    <2>1. links # <<>> /\ wpc = "name"
      BY <1>12 DEF Walk!FollowLink, WalkShape
    <2>4. Walk!die[Walk!Last(links)].name \in 1 .. tree.n
      BY <1>12, LinkTyped
    <2>5. links' \in Seq(1 .. tree.n) /\ links' # <<>>
      BY <1>2, <1>12, <2>4 DEF Walk!FollowLink
    <2>6. UNCHANGED <<wpc, stack, stop, attrs, fault>>
      BY <1>12 DEF Walk!FollowLink
    <2>7. QED
      BY <1>2, <2>1, <2>5, <2>6 DEF WalkShape, AtTop, DieAt, Walk!Stops, Walk!die, Walk!Reports, Walk!CallInList
  <1>13. CASE Walk!NameEnds
    BY <1>2, <1>13 DEF Walk!NameEnds, WalkShape, AtTop, DieAt, Walk!Stops, Walk!die, Walk!Reports, Walk!CallInList
  <1>14. CASE Walk!NameFails
    BY <1>2, <1>14 DEF Walk!NameFails, WalkShape, AtTop, DieAt, Walk!Stops, Walk!die, Walk!Reports, Walk!CallInList
  <1>15. CASE Walk!Unlink
    <2>1. links # <<>> /\ wpc = "unlink" /\ Len(links) > 1 /\ links' = Walk!Front(links)
      BY <1>15 DEF Walk!Unlink, WalkShape
    <2>2. links' \in Seq(1 .. tree.n) /\ links' # <<>>
      BY <1>2, <2>1, FrontIs, TailFront
    <2>3. UNCHANGED <<wpc, stack, stop, attrs, fault>>
      BY <1>15 DEF Walk!Unlink
    <2>4. QED
      BY <1>2, <2>1, <2>2, <2>3 DEF WalkShape, AtTop, DieAt, Walk!Stops, Walk!die, Walk!Reports, Walk!CallInList
  <1>16. CASE Walk!ReportSubprogram
    <2>1. stack # <<>> /\ Walk!AfterVisit(TRUE) /\ links' = <<>> /\ attrs' = {}
      <3>1. stack # <<>> /\ Walk!AfterVisit(TRUE) /\ links' = <<>> /\ attrs' = attrs /\ Walk!die[DieAt].kind = "subprogram"
        BY <1>3, <1>16 DEF Walk!ReportSubprogram, AtTop
      <3>2. QED
        BY <3>1 DEF WalkShape
    <2>2. QED
      BY <1>1, <1>2, <2>1, VisitShape
  <1>17. CASE Walk!ReportInlined
    <2>1. stack # <<>> /\ Walk!AfterVisit(TRUE) /\ links' = <<>> /\ attrs' = {}
      BY <1>3, <1>17 DEF Walk!ReportInlined, AtTop
    <2>2. QED
      BY <1>1, <1>2, <2>1, VisitShape
  <1>18. QED
    BY <1>1, <1>4, <1>5, <1>6, <1>7, <1>8, <1>9, <1>10, <1>11, <1>12, <1>13, <1>14, <1>15, <1>16, <1>17 DEF Walk!Next

-----------------------------------------------------------------------------
(* The handles.                                                            *)

\* One handle more or less.
LEMMA OneHandle ==
  ASSUME WalkHandles, WalkShape, NEW x \in 1 .. tree.n, NEW k \in Int
  PROVE  /\ [live EXCEPT ![x] = @ + k] \in [1 .. tree.n -> Int]
         /\ \A d \in 1 .. tree.n : [live EXCEPT ![x] = @ + k][d] = live[d] + (IF x = d THEN k ELSE 0)
  <1>1. live \in [1 .. tree.n -> Int]
    BY DEF WalkHandles
  <1> DEFINE D == 1 .. tree.n
  <1>2. x \in D /\ live \in [D -> Int]
    BY <1>1
  <1> HIDE DEF D
  <1>3. /\ [live EXCEPT ![x] = @ + k] \in [D -> Int]
        /\ \A d \in D : [live EXCEPT ![x] = @ + k][d] = live[d] + (IF x = d THEN k ELSE 0)
    BY <1>2
  <1>4. QED
    BY <1>3 DEF D

\* The code's decrement is an increment by -1.
LEMMA Decrement ==
  ASSUME NEW x \in 1 .. tree.n, live \in [1 .. tree.n -> Int]
  PROVE  [live EXCEPT ![x] = @ - 1] = [live EXCEPT ![x] = @ + (-1)]
  <1>1. live[x] \in Int /\ live[x] - 1 = live[x] + (-1)
    OBVIOUS
  <1>2. QED
    BY <1>1

\* The innermost walkChildren() frees its handle, or exchanges it for the next.
LEMMA LeaveHandles ==
  ASSUME WalkHandles, WalkShape, Around, stack # <<>>, Popped \/ Swapped,
         \A d \in 1 .. tree.n : Held(links', d) = Held(links, d)
  PROVE  WalkHandles'
  <1>1. stack \in Seq(1 .. tree.n) /\ DieAt \in 1 .. tree.n /\ tree' = tree /\ live \in [1 .. tree.n -> Int]
        /\ Walk!Front(stack) \in Seq(1 .. tree.n)
    BY HereTyped, FrontIs DEF WalkShape, Around, WalkHandles
  <1>2. \A d \in 1 .. tree.n :
          /\ Walk!Count(Walk!Front(stack), d) \in Nat
          /\ Walk!Count(stack, d) = Walk!Count(Walk!Front(stack), d) + (IF DieAt = d THEN 1 ELSE 0)
    BY <1>1, CountFront DEF DieAt
  <1>3. \A d \in 1 .. tree.n : Held(links, d) \in Int /\ live[d] = Walk!Count(stack, d) + Held(links, d)
    <2> SUFFICES ASSUME NEW d \in 1 .. tree.n PROVE Held(links, d) \in Int
      BY DEF WalkHandles
    <2>1. links \in Seq(1 .. tree.n)
      BY DEF WalkShape
    <2>2. CASE links = <<>>
      BY <2>2 DEF Held
    <2>3. CASE links # <<>>
      <3>1. Tail(links) \in Seq(1 .. tree.n)
        BY <2>1, <2>3
      <3>2. Walk!Count(Tail(links), d) \in Nat
        BY <3>1, CountTyped
      <3>3. QED
        BY <2>3, <3>2 DEF Held
    <2>4. QED
      BY <2>2, <2>3
  <1>4. CASE Popped
    <2>1. live' = [live EXCEPT ![DieAt] = @ + (-1)] /\ stack' = Walk!Front(stack)
      BY <1>1, <1>4, Decrement DEF Popped
    <2>2. /\ live' \in [1 .. tree.n -> Int]
          /\ \A d \in 1 .. tree.n : live'[d] = live[d] + (IF DieAt = d THEN -1 ELSE 0)
      <3>1. -1 \in Int
        OBVIOUS
      <3>2. DieAt \in 1 .. tree.n
        BY <1>1
      <3>3. /\ [live EXCEPT ![DieAt] = @ + (-1)] \in [1 .. tree.n -> Int]
            /\ \A d \in 1 .. tree.n : [live EXCEPT ![DieAt] = @ + (-1)][d] = live[d] + (IF DieAt = d THEN -1 ELSE 0)
        BY <3>1, <3>2, OneHandle
      <3>4. QED
        BY <2>1, <3>3
    <2>3. ASSUME NEW d \in 1 .. tree.n
          PROVE  live'[d] = Walk!Count(stack', d) + Held(links', d)
      <3>1. CASE DieAt = d
        BY <1>2, <1>3, <2>1, <2>2, <3>1
      <3>2. CASE DieAt # d
        BY <1>2, <1>3, <2>1, <2>2, <3>2
      <3>3. QED
        BY <3>1, <3>2
    <2>4. QED
      BY <1>1, <2>2, <2>3 DEF WalkHandles, Held, Walk!Count
  <1>5. CASE Swapped
    <2> DEFINE s == Walk!Sibling(DieAt)
    <2>1. s \in 1 .. tree.n /\ stack' = Append(Walk!Front(stack), s)
          /\ live' = [live EXCEPT ![DieAt] = @ - 1, ![s] = @ + 1]
      BY <1>5, SiblingIs DEF Swapped, Walk!Swap
    <2> HIDE DEF s
    <2>2. \A d \in 1 .. tree.n :
            Walk!Count(Append(Walk!Front(stack), s), d) = Walk!Count(Walk!Front(stack), d) + (IF s = d THEN 1 ELSE 0)
      <3> SUFFICES ASSUME NEW d \in 1 .. tree.n
                   PROVE  Walk!Count(Append(Walk!Front(stack), s), d) =
                            Walk!Count(Walk!Front(stack), d) + (IF s = d THEN 1 ELSE 0)
        OBVIOUS
      <3> DEFINE f == Walk!Front(stack)
                 D == 1 .. tree.n
      <3>1. f \in Seq(D) /\ s \in D
        BY <1>1, <2>1
      <3> HIDE DEF f, D
      <3>2. Walk!Count(Append(f, s), d) = Walk!Count(f, d) + (IF s = d THEN 1 ELSE 0)
        BY <3>1, CountAppend
      <3>3. QED
        BY <3>2 DEF f
    <2>3. /\ live' \in [1 .. tree.n -> Int]
          /\ \A d \in 1 .. tree.n : live'[d] = live[d] + (IF DieAt = d THEN -1 ELSE 0) + (IF s = d THEN 1 ELSE 0)
      <3> DEFINE D == 1 .. tree.n
      <3>1. live \in [D -> Int] /\ DieAt \in D /\ s \in D
        BY <1>1, <2>1
      <3>2. live' = [live EXCEPT ![DieAt] = @ - 1, ![s] = @ + 1]
        BY <2>1
      <3> HIDE DEF D
      <3>3. live' \in [D -> Int]
        BY <3>1, <3>2, SMTT(30)
      <3>4. ASSUME NEW d \in D
            PROVE  live'[d] = live[d] + (IF DieAt = d THEN -1 ELSE 0) + (IF s = d THEN 1 ELSE 0)
        BY <3>1, <3>2, SMTT(30)
      <3>5. QED
        BY <3>3, <3>4 DEF D
    <2>4. ASSUME NEW d \in 1 .. tree.n
          PROVE  live'[d] = Walk!Count(stack', d) + Held(links', d)
      <3>1. CASE DieAt = d
        BY <1>2, <1>3, <2>1, <2>2, <2>3, <3>1
      <3>2. CASE DieAt # d
        BY <1>2, <1>3, <2>1, <2>2, <2>3, <3>2
      <3>3. QED
        BY <3>1, <3>2
    <2>5. QED
      BY <1>1, <2>3, <2>4 DEF WalkHandles, Held, Walk!Count
  <1>6. QED
    BY <1>4, <1>5

\* Neither handle nor recursion changes.
LEMMA SameHandles ==
  ASSUME WalkHandles, Around, stack' = stack, live' = live,
         \A d \in 1 .. tree.n : Held(links', d) = Held(links, d)
  PROVE  WalkHandles'
  BY DEF WalkHandles, Around, Held, Walk!Count

\* Every step keeps the handles counted.
LEMMA HandlesKept ==
  ASSUME WalkHandles, WalkShape, WalkStep
  PROVE  WalkHandles'
  <1>1. Around /\ Walk!Next
    BY AroundKept
  <1>2. /\ stack \in Seq(1 .. tree.n) /\ links \in Seq(1 .. tree.n) /\ tree' = tree
        /\ live \in [1 .. tree.n -> Int]
    BY <1>1 DEF Around, WalkShape, WalkHandles
  <1>3. wpc \in AtTop => stack # <<>> /\ Walk!Top = DieAt /\ DieAt \in 1 .. tree.n
    BY HereTyped DEF WalkShape
  <1>4. \A d : Held(<<>>, d) = 0
    BY DEF Held
  <1>5. \A d : \A x : Held(<<x>>, d) = 0
    <2>1. \A x : Tail(<<x>>) = <<>>
      OBVIOUS
    <2>2. QED
      BY <2>1, CountNone DEF Held
  <1>6. ASSUME stack # <<>>, links' = <<>>, links = <<>> \/ Len(links) = 1,
               NEW res \in BOOLEAN, Walk!AfterVisit(res)
        PROVE  WalkHandles'
    <2>1. \A d : Held(links, d) = 0
      <3>1. CASE links = <<>>
        BY <1>4, <3>1
      <3>2. CASE Len(links) = 1
        <4>1. links = <<links[1]>>
          BY <1>2, <3>2
        <4>2. QED
          BY <1>5, <4>1
      <3>3. QED
        BY <1>6, <3>1, <3>2
    <2>2. \A d \in 1 .. tree.n : Held(links', d) = Held(links, d)
      BY <1>4, <1>6, <2>1
    <2>3. Popped \/ Swapped
      BY <1>6, VisitEnds
    <2>4. QED
      BY <1>1, <1>6, <2>2, <2>3, LeaveHandles
  <1>7. CASE Walk!Descend
    <2> DEFINE s == Walk!Child(Walk!Here)
    <2>1. s \in 1 .. tree.n /\ stack' = Append(stack, s) /\ live' = [live EXCEPT ![s] = @ + 1] /\ links' = links
      BY <1>7, ChildIs DEF Walk!Descend, Walk!Acquire
    <2> HIDE DEF s
    <2>2. 1 \in Int
      OBVIOUS
    <2>3. /\ live' \in [1 .. tree.n -> Int]
          /\ \A d \in 1 .. tree.n : live'[d] = live[d] + (IF s = d THEN 1 ELSE 0)
      <3>1. /\ [live EXCEPT ![s] = @ + 1] \in [1 .. tree.n -> Int]
            /\ \A d \in 1 .. tree.n : [live EXCEPT ![s] = @ + 1][d] = live[d] + (IF s = d THEN 1 ELSE 0)
        BY <2>1, <2>2, OneHandle
      <3>2. QED
        BY <2>1, <3>1
    <2>4. ASSUME NEW d \in 1 .. tree.n
          PROVE  live'[d] = Walk!Count(stack', d) + Held(links', d)
      <3>1. Walk!Count(stack, d) \in Nat /\ Walk!Count(Append(stack, s), d) = Walk!Count(stack, d) + (IF s = d THEN 1 ELSE 0)
        <4> DEFINE D == 1 .. tree.n
        <4>1. stack \in Seq(D) /\ s \in D
          BY <1>2, <2>1
        <4> HIDE DEF D
        <4>2. QED
          BY <4>1, CountAppend
      <3>2. live[d] = Walk!Count(stack, d) + Held(links, d) /\ live[d] \in Int
        BY <1>2 DEF WalkHandles
      <3>3. links = <<>>
        BY <1>7 DEF Walk!Descend, WalkShape
      <3>4. QED
        BY <1>4, <2>1, <2>3, <3>1, <3>2, <3>3
    <2>5. QED
      BY <1>2, <2>3, <2>4 DEF WalkHandles, Held, Walk!Count
  <1>8. CASE Walk!NoChild
    <2>1. stack' = stack /\ live' = live /\ links' = links
      BY <1>8 DEF Walk!NoChild, Walk!Return
    <2>2. QED
      BY <1>1, <2>1, SameHandles
  <1>9. CASE Walk!VisitOther
    <2>1. stack # <<>> /\ Walk!AfterVisit(FALSE) /\ links' = <<>> /\ links = <<>>
      BY <1>3, <1>9 DEF Walk!VisitOther, WalkShape, AtTop
    <2>2. QED
      BY <1>6, <2>1
  <1>10. CASE Walk!VisitNoCall
    <2>1. stack # <<>> /\ Walk!AfterVisit(TRUE) /\ links' = <<>> /\ links = <<>>
      BY <1>3, <1>10 DEF Walk!VisitNoCall, WalkShape, AtTop
    <2>2. QED
      BY <1>6, <2>1
  <1>11. CASE Walk!CallUnusable
    <2>1. stack # <<>> /\ links' = <<>> /\ links = <<>> /\ wpc = "call"
      BY <1>3, <1>11 DEF Walk!CallUnusable, WalkShape, AtTop
    <2>2. CASE ~ Walk!CallInList(Walk!Top) /\ Walk!AfterVisit(TRUE)
      BY <1>6, <2>1, <2>2
    <2>3. CASE Walk!CallInList(Walk!Top) /\ fault' = TRUE /\ Walk!Stop(TRUE)
      <3>1. Popped
        BY <1>3, <2>1, <2>3 DEF Walk!Stop, Walk!Return, Popped, Goes, AtTop
      <3>2. QED
        BY <1>1, <2>1, <3>1, LeaveHandles
    <2>4. QED
      BY <1>11, <2>2, <2>3 DEF Walk!CallUnusable
  <1>12. CASE Walk!VisitSubprogram \/ Walk!CallUsable
    <2>1. stack' = stack /\ live' = live /\ links = <<>> /\ links' = <<Walk!Top>>
      BY <1>12 DEF Walk!VisitSubprogram, Walk!CallUsable, WalkShape
    <2>2. \A d \in 1 .. tree.n : Held(links', d) = Held(links, d)
      BY <1>4, <1>5, <2>1
    <2>3. QED
      BY <1>1, <2>1, <2>2, SameHandles
  <1>13. CASE Walk!VisitInlined \/ Walk!NameEnds \/ Walk!NameFails
    <2>1. stack' = stack /\ live' = live /\ links' = links
      BY <1>13 DEF Walk!VisitInlined, Walk!NameEnds, Walk!NameFails
    <2>2. QED
      BY <1>1, <2>1, SameHandles
  <1>14. CASE Walk!FollowLink
    <2> DEFINE s == Walk!die[Walk!Last(links)].name
    <2>1. links' = Append(links, s) /\ live' = [live EXCEPT ![s] = @ + 1] /\ stack' = stack /\ links # <<>>
      BY <1>14 DEF Walk!FollowLink, Walk!Acquire, WalkShape
    <2>2. s \in 1 .. tree.n
      BY <1>14, LinkTyped
    <2> HIDE DEF s
    <2>3. 1 \in Int
      OBVIOUS
    <2>4. /\ live' \in [1 .. tree.n -> Int]
          /\ \A d \in 1 .. tree.n : live'[d] = live[d] + (IF s = d THEN 1 ELSE 0)
      <3>1. /\ [live EXCEPT ![s] = @ + 1] \in [1 .. tree.n -> Int]
            /\ \A d \in 1 .. tree.n : [live EXCEPT ![s] = @ + 1][d] = live[d] + (IF s = d THEN 1 ELSE 0)
        BY <2>2, <2>3, OneHandle
      <3>2. QED
        BY <2>1, <3>1
    <2>5. ASSUME NEW d \in 1 .. tree.n
          PROVE  live'[d] = Walk!Count(stack', d) + Held(links', d)
      <3>1. Tail(links) \in Seq(1 .. tree.n) /\ Tail(Append(links, s)) = Append(Tail(links), s)
        BY <1>2, <2>1, <2>2, TailAppend
      <3> DEFINE r == Tail(links)
                 D == 1 .. tree.n
      <3>2. r \in Seq(D) /\ links \in Seq(D) /\ s \in D
        BY <1>2, <2>2, <3>1
      <3> HIDE DEF r, D
      <3>3. Walk!Count(r, d) \in Nat /\ Walk!Count(Append(r, s), d) = Walk!Count(r, d) + (IF s = d THEN 1 ELSE 0)
        BY <3>2, CountAppend
      <3>4. Append(links, s) # <<>>
        BY <3>2, AppendProperties
      <3>5. Held(links', d) = Held(links, d) + (IF s = d THEN 1 ELSE 0) /\ Held(links, d) \in Nat
        BY <2>1, <3>1, <3>3, <3>4 DEF Held, r
      <3>6. live[d] = Walk!Count(stack, d) + Held(links, d) /\ Walk!Count(stack, d) \in Nat
        BY <1>2, CountTyped DEF WalkHandles
      <3>7. QED
        BY <2>1, <2>4, <3>5, <3>6
    <2>6. QED
      BY <1>2, <2>4, <2>5 DEF WalkHandles, Held, Walk!Count
  <1>15. CASE Walk!Unlink
    <2> DEFINE s == links[Len(links)]
    <2>1. links' = Walk!Front(links) /\ live' = [live EXCEPT ![s] = @ - 1] /\ stack' = stack /\ Len(links) > 1
      BY <1>15 DEF Walk!Unlink, Walk!Last
    <2>2. /\ Tail(links) \in Seq(1 .. tree.n) /\ Tail(links) # <<>> /\ Tail(links)[Len(Tail(links))] = s
          /\ Tail(Walk!Front(links)) = Walk!Front(Tail(links)) /\ Walk!Front(links) # <<>> /\ links # <<>>
      BY <1>2, <2>1, TailFront
    <2>3. s \in 1 .. tree.n
      BY <1>2, <2>2, FrontIs
    <2> HIDE DEF s
    <2>4. -1 \in Int /\ live' = [live EXCEPT ![s] = @ + (-1)]
      <3>1. -1 \in Int
        OBVIOUS
      <3>2. [live EXCEPT ![s] = @ - 1] = [live EXCEPT ![s] = @ + (-1)]
        BY <1>2, <2>3, Decrement
      <3>3. QED
        BY <2>1, <3>1, <3>2
    <2>5. /\ live' \in [1 .. tree.n -> Int]
          /\ \A d \in 1 .. tree.n : live'[d] = live[d] + (IF s = d THEN -1 ELSE 0)
      <3>1. /\ [live EXCEPT ![s] = @ + (-1)] \in [1 .. tree.n -> Int]
            /\ \A d \in 1 .. tree.n : [live EXCEPT ![s] = @ + (-1)][d] = live[d] + (IF s = d THEN -1 ELSE 0)
        BY <2>3, <2>4, OneHandle
      <3>2. QED
        BY <2>4, <3>1
    <2>6. ASSUME NEW d \in 1 .. tree.n
          PROVE  live'[d] = Walk!Count(stack', d) + Held(links', d)
      <3> DEFINE r == Tail(links)
      <3>1. Walk!Count(Walk!Front(r), d) \in Nat
            /\ Walk!Count(r, d) = Walk!Count(Walk!Front(r), d) + (IF r[Len(r)] = d THEN 1 ELSE 0)
        BY <2>2, CountFront
      <3>2. Held(links', d) = Walk!Count(Walk!Front(r), d) /\ Held(links, d) = Walk!Count(r, d)
        BY <2>1, <2>2 DEF Held
      <3>3. r[Len(r)] = s
        BY <2>2
      <3>4. live[d] = Walk!Count(stack, d) + Held(links, d) /\ Walk!Count(stack, d) \in Nat
        BY <1>2, CountTyped DEF WalkHandles
      <3> HIDE DEF r
      <3>5. QED
        BY <2>1, <2>5, <3>1, <3>2, <3>3, <3>4
    <2>7. QED
      BY <1>2, <2>5, <2>6 DEF WalkHandles, Held, Walk!Count
  <1>16. CASE Walk!ReportSubprogram
    <2>1. stack # <<>> /\ Walk!AfterVisit(TRUE) /\ links' = <<>> /\ Len(links) = 1
      BY <1>3, <1>16 DEF Walk!ReportSubprogram, AtTop
    <2>2. QED
      BY <1>6, <2>1
  <1>17. CASE Walk!ReportInlined
    <2>1. stack # <<>> /\ Walk!AfterVisit(TRUE) /\ links' = <<>> /\ Len(links) = 1
      BY <1>3, <1>17 DEF Walk!ReportInlined, AtTop
    <2>2. QED
      BY <1>6, <2>1
  <1>18. QED
    BY <1>1, <1>7, <1>8, <1>9, <1>10, <1>11, <1>12, <1>13, <1>14, <1>15, <1>16, <1>17 DEF Walk!Next

-----------------------------------------------------------------------------
(* The kinds of steps that the walk takes.                                 *)

\* Nothing more is reported, and the next report is to be the same.
Alike == UNCHANGED <<frames, fileno, site, ptrOrig>>
Inlined(d) == Walk!die[d].kind = "inlined"

\* The first child is gone to.
Down ==
  /\ wpc = "descend" /\ tree.last[EndOf(stack)] > EndOf(stack)
  /\ stack' = Append(stack, EndOf(stack) + 1) /\ wpc' = "descend"
  /\ UNCHANGED <<stop, fault>> /\ Alike

\* There is no child, or libdwarf did not find it: the DIE itself is next.
Turn ==
  /\ wpc = "descend" /\ stack' = stack /\ Goes /\ stop' = FALSE /\ Alike
  /\ (tree.last[EndOf(stack)] <= EndOf(stack) /\ fault' = fault) \/ fault' = TRUE

\* A DIE's names or the place of its call are being read.
Stay ==
  /\ wpc \in AtTop /\ wpc' \in AtTop /\ UNCHANGED <<stack, stop>> /\ Alike
  /\ fault' \in {fault, TRUE}

\* A DIE that is not looked for is left for its next sibling.
NextOne ==
  /\ wpc = "visit" /\ ~ Walk!Stops(DieAt) /\ ~ stop /\ UNCHANGED <<stop, fault>> /\ Alike
  /\ \A a \in Dies(tree) : ~ (a < DieAt /\ tree.last[a] = tree.last[DieAt])
  /\ tree.last[DieAt] + 1 \in 1 .. tree.n
  /\ stack' = Append(Walk!Front(stack), tree.last[DieAt] + 1) /\ wpc' = "descend"

\* It is the last one, or libdwarf did not find the next.
LastOne ==
  /\ wpc = "visit" /\ ~ Walk!Stops(DieAt) /\ ~ stop /\ stop' = stop /\ Alike
  /\ stack' = Walk!Front(stack) /\ Goes
  /\ \/ fault' = TRUE
     \/ /\ fault' = fault
        /\ \E a \in Dies(tree) : a < DieAt /\ tree.last[a] = tree.last[DieAt]

\* A DIE is left because of what was found below it.
Above ==
  /\ wpc = "visit" /\ ~ Walk!Stops(DieAt) /\ stop /\ UNCHANGED <<stop, fault>> /\ Alike
  /\ stack' = Walk!Front(stack) /\ Goes

\* The walk ends at a DIE, or goes back through one, which is not reported.
NotTold ==
  /\ wpc \in AtTop /\ Walk!Stops(DieAt) /\ stop' = TRUE /\ Alike
  /\ stack' = Walk!Front(stack) /\ Goes
  /\ (~ Walk!Reports(DieAt) /\ fault' = fault) \/ fault' = TRUE

\* One that is reported.
Told ==
  /\ wpc \in AtTop /\ Walk!Reports(DieAt) /\ stop' = TRUE /\ fault' = fault
  /\ stack' = Walk!Front(stack) /\ Goes
  /\ frames' = Append(frames, [die |-> DieAt, file |-> fileno, site |-> site, real |-> ptrOrig])
  /\ \/ ~ Inlined(DieAt) /\ UNCHANGED <<fileno, site, ptrOrig>>
     \/ /\ Inlined(DieAt)
        /\ fileno' = Walk!die[DieAt].call + FilenoOffs /\ site' = DieAt /\ ptrOrig' = FALSE

\* Every step of the walk is of one of these kinds.
LEMMA StepKinds ==
  ASSUME WalkShape, WalkStep
  PROVE  Down \/ Turn \/ Stay \/ NextOne \/ LastOne \/ Above \/ NotTold \/ Told
  <1>1. Around /\ Walk!Next
    BY AroundKept
  <1>2. /\ stack # <<>> => EndOf(stack) = DieAt /\ Walk!Top = DieAt
        /\ Walk!Here = EndOf(stack) /\ Walk!IsTree(tree) /\ stack \in Seq(1 .. tree.n)
        /\ wpc \in AtTop => stack # <<>>
    BY HereTyped DEF WalkShape, EndOf, Walk!Here, Walk!Top, DieAt
  <1>3. /\ EndOf(stack) \in Nat /\ tree.last[EndOf(stack)] \in Nat
    BY <1>2, EndTyped
  <1>4. ASSUME stack # <<>>, NEW res \in BOOLEAN, Walk!AfterVisit(res)
        PROVE  \/ stack' = Walk!Front(stack) /\ Goes /\ (stop \/ res) /\ stop' = TRUE /\ fault' = fault
               \/ /\ stack' = Walk!Front(stack) /\ Goes /\ ~ stop /\ ~ res /\ stop' = FALSE
                  /\ \/ fault' = TRUE
                     \/ /\ fault' = fault
                        /\ \E a \in Dies(tree) : a < DieAt /\ tree.last[a] = tree.last[DieAt]
               \/ /\ ~ stop /\ ~ res /\ stop' = FALSE /\ fault' = fault
                  /\ \A a \in Dies(tree) : ~ (a < DieAt /\ tree.last[a] = tree.last[DieAt])
                  /\ tree.last[DieAt] + 1 \in 1 .. tree.n
                  /\ stack' = Append(Walk!Front(stack), tree.last[DieAt] + 1) /\ wpc' = "descend"
    <2>1. \/ Popped /\ (stop \/ res) /\ stop' = TRUE /\ fault' = fault
          \/ Popped /\ ~ stop /\ ~ res /\ stop' = FALSE /\ fault' = (fault \/ Walk!Sibling(DieAt) # Walk!None)
          \/ Swapped /\ ~ stop /\ ~ res /\ stop' = FALSE /\ fault' = fault
      BY <1>4, VisitEnds
    <2>2. IF \E a \in Dies(tree) : a < DieAt /\ tree.last[a] = tree.last[DieAt]
            THEN Walk!Sibling(DieAt) = Walk!None
            ELSE /\ Walk!Sibling(DieAt) = tree.last[DieAt] + 1
                 /\ Walk!Sibling(DieAt) \in 1 .. tree.n /\ Walk!Sibling(DieAt) # Walk!None
      BY <1>4, SiblingIs
    <2>3. CASE Popped /\ (stop \/ res) /\ stop' = TRUE /\ fault' = fault
      BY <2>3 DEF Popped
    <2>4. CASE Popped /\ ~ stop /\ ~ res /\ stop' = FALSE /\ fault' = (fault \/ Walk!Sibling(DieAt) # Walk!None)
      <3>1. fault \in BOOLEAN
        BY DEF WalkShape
      <3>2. CASE Walk!Sibling(DieAt) # Walk!None
        <4>1. fault' = TRUE
          BY <2>4, <3>2, Zenon
        <4>2. QED
          BY <2>4, <4>1 DEF Popped
      <3>3. CASE Walk!Sibling(DieAt) = Walk!None
        <4>1. fault' = fault
          BY <2>4, <3>1, <3>3, Zenon
        <4>2. \E a \in Dies(tree) : a < DieAt /\ tree.last[a] = tree.last[DieAt]
          BY <2>2, <3>3
        <4>3. QED
          BY <2>4, <4>1, <4>2 DEF Popped
      <3>4. QED
        BY <3>2, <3>3
    <2>5. CASE Swapped /\ ~ stop /\ ~ res /\ stop' = FALSE /\ fault' = fault
      <3>1. ~ \E a \in Dies(tree) : a < DieAt /\ tree.last[a] = tree.last[DieAt]
        BY <2>2, <2>5 DEF Swapped
      <3>2. QED
        BY <2>2, <2>5, <3>1 DEF Swapped
    <2>6. QED
      BY <2>1, <2>3, <2>4, <2>5
  <1>5. stop \in BOOLEAN
    BY DEF WalkShape
  <1>6. CASE Walk!Descend
    BY <1>2, <1>6, ChildIs DEF Walk!Descend, Down, Alike, Walk!location
  <1>7. CASE Walk!NoChild
    <2>1. Walk!Child(EndOf(stack)) = Walk!None => tree.last[EndOf(stack)] <= EndOf(stack)
      BY <1>2, <1>3, ChildIs DEF Walk!None
    <2>2. QED
      BY <1>2, <1>7, <2>1 DEF Walk!NoChild, Walk!Return, Turn, Goes, Alike, Walk!location
  <1>8. CASE Walk!VisitOther
    <2>1. stack # <<>> /\ Walk!AfterVisit(FALSE) /\ Alike /\ ~ Walk!Stops(DieAt) /\ wpc = "visit"
      BY <1>2, <1>8 DEF Walk!VisitOther, Alike, Walk!location, AtTop
    <2>2. QED
      BY <1>4, <1>5, <2>1 DEF NextOne, LastOne, Above
  <1>9. CASE Walk!VisitNoCall
    <2>1. stack # <<>> /\ Walk!AfterVisit(TRUE) /\ Alike /\ Walk!Stops(DieAt) /\ wpc \in AtTop /\ ~ Walk!Reports(DieAt)
      BY <1>2, <1>9 DEF Walk!VisitNoCall, Alike, Walk!location, AtTop, Walk!Reports
    <2>2. QED
      BY <1>4, <2>1 DEF NotTold
  <1>10. CASE Walk!CallUnusable
    <2>1. stack # <<>> /\ Alike /\ Walk!Stops(DieAt) /\ wpc \in AtTop /\ Walk!Top = DieAt
      BY <1>2, <1>10 DEF Walk!CallUnusable, Alike, Walk!location, AtTop, WalkShape
    <2>2. CASE ~ Walk!CallInList(Walk!Top) /\ Walk!AfterVisit(TRUE)
      <3>1. ~ Walk!Reports(DieAt)
        <4>1. Walk!die[DieAt].kind = "inlined"
          BY <1>10 DEF Walk!CallUnusable, WalkShape
        <4>2. QED
          BY <2>1, <2>2, <4>1 DEF Walk!Reports
      <3>2. QED
        BY <1>4, <2>1, <2>2, <3>1 DEF NotTold
    <2>3. CASE Walk!CallInList(Walk!Top) /\ fault' = TRUE /\ Walk!Stop(TRUE)
      BY <2>1, <2>3 DEF Walk!Stop, Walk!Return, Goes, NotTold
    <2>4. QED
      BY <1>10, <2>2, <2>3 DEF Walk!CallUnusable
  <1>11. CASE Walk!VisitSubprogram \/ Walk!CallUsable \/ Walk!VisitInlined \/ Walk!NameEnds \/ Walk!NameFails
              \/ Walk!FollowLink \/ Walk!Unlink
    BY <1>11 DEF Walk!VisitSubprogram, Walk!CallUsable, Walk!VisitInlined, Walk!NameEnds, Walk!NameFails,
                 Walk!FollowLink, Walk!Unlink, Stay, AtTop, Alike, Walk!location
  <1>12. CASE Walk!ReportSubprogram
    <2>1. /\ stack # <<>> /\ Walk!AfterVisit(TRUE) /\ UNCHANGED <<fileno, site, ptrOrig>>
          /\ wpc \in AtTop /\ Walk!Reports(DieAt)
          /\ ~ Inlined(DieAt)
          /\ frames' = Append(frames, [die |-> DieAt, file |-> fileno, site |-> site, real |-> ptrOrig])
      BY <1>2, <1>12 DEF Walk!ReportSubprogram, Walk!Emit, Walk!location, AtTop, WalkShape, Inlined
    <2>2. QED
      BY <1>4, <2>1 DEF Told
  <1>13. CASE Walk!ReportInlined
    <2>1. /\ stack # <<>> /\ Walk!AfterVisit(TRUE) /\ wpc \in AtTop /\ Walk!Reports(DieAt)
          /\ Inlined(DieAt)
          /\ fileno' = Walk!die[DieAt].call + FilenoOffs /\ site' = DieAt /\ ptrOrig' = FALSE
          /\ frames' = Append(frames, [die |-> DieAt, file |-> fileno, site |-> site, real |-> ptrOrig])
      BY <1>2, <1>13 DEF Walk!ReportInlined, Walk!Emit, AtTop, WalkShape, Inlined
    <2>2. QED
      BY <1>4, <2>1 DEF Told
  <1>14. QED
    BY <1>1, <1>6, <1>7, <1>8, <1>9, <1>10, <1>11, <1>12, <1>13 DEF Walk!Next

-----------------------------------------------------------------------------
(* The stack is the way from the unit's DIE to the one that the walk is at. *)

\* The DIEs on the stack lie around each other, and none is left out.
WalkPath == IsPath(tree, stack)

\* Every step keeps the stack a path.
LEMMA PathKept ==
  ASSUME WalkShape, WalkPath, WalkStep
  PROVE  WalkPath'
  <1>1. tree' = tree /\ Walk!IsTree(tree) /\ stack \in Seq(1 .. tree.n) /\ IsPath(tree, stack)
        /\ (wpc \in AtTop => stack # <<>>) /\ "visit" \in AtTop
    BY AroundKept DEF Around, WalkShape, WalkPath, AtTop
  <1>2. IsPath(tree, stack')
    <2>1. CASE Down
      BY <1>1, <2>1, PathDown DEF Down
    <2>2. CASE Turn \/ Stay
      BY <1>1, <2>2 DEF Turn, Stay
    <2>3. CASE NextOne
      BY <1>1, <2>3, PathOn DEF NextOne, DieAt
    <2>4. CASE LastOne \/ Above \/ NotTold \/ Told
      BY <1>1, <2>4, PathUp DEF LastOne, Above, NotTold, Told
    <2>5. QED
      BY <2>1, <2>2, <2>3, <2>4, StepKinds
  <1>3. QED
    BY <1>1, <1>2 DEF WalkPath

-----------------------------------------------------------------------------
(* The walk ends at the first DIE that it is for.                          *)

\* d has been reported.
Shown(d) == \E k \in 1 .. Len(frames) : frames[k].die = d

\* s ended the walk: the functions around it are reported, but those that the

\* recursion is still to return to.
Ended(s) ==
  /\ Walk!FirstStop(s)
  /\ \A a \in 1 .. tree.n : In(stack, a) => Holds(tree, a, s)
  /\ \A d \in 1 .. tree.n : Shown(d) <=> Walk!Reports(d) /\ Holds(tree, d, s) /\ ~ In(stack, d)

\* No DIE visited so far is one that the walk is for, unless it has been ended.
NothingMissed ==
  /\ wpc = "descend" =>
       \A e \in 1 .. tree.n : (e < EndOf(stack) /\ tree.last[e] < EndOf(stack)) => ~ Walk!Stops(e)
  /\ wpc \in AtTop => \A e \in 1 .. tree.n : Earlier(tree, e, DieAt) => ~ Walk!Stops(e)
  /\ wpc = "done" => \A e \in 1 .. tree.n : ~ Walk!Stops(e)

\* What is reported belongs to the DIE that the walk ended at.
WalkEnds ==
  /\ ~ stop => frames = <<>>
  /\ ~ stop /\ ~ fault => NothingMissed
  /\ stop /\ ~ fault => \E s \in 1 .. tree.n : Ended(s)

\* What the DIEs mean stays the same.
LEMMA SameMeaning ==
  ASSUME Around
  PROVE  /\ \A d : Walk!Stops(d)' <=> Walk!Stops(d)
         /\ \A d : Walk!Reports(d)' <=> Walk!Reports(d)
         /\ \A d : Walk!FirstStop(d)' <=> Walk!FirstStop(d)
         /\ \A d : Inlined(d)' <=> Inlined(d)
  <1>1. \A d : Walk!Stops(d)' <=> Walk!Stops(d)
    BY DEF Around, Walk!Stops, Walk!die
  <1>2. \A d : Walk!Reports(d)' <=> Walk!Reports(d)
    BY DEF Around, Walk!Reports, Walk!Stops, Walk!CallInList, Walk!die
  <1>3. \A d : Walk!FirstStop(d)' <=> Walk!FirstStop(d)
    BY <1>1 DEF Around, Walk!FirstStop, Walk!Before, Walk!Encloses, Walk!n
  <1>4. \A d : Inlined(d)' <=> Inlined(d)
    BY DEF Around, Inlined, Walk!die
  <1>5. QED
    BY <1>1, <1>2, <1>3, <1>4

\* What is reported ends the walk below it.
LEMMA ReportsStops == \A d : Walk!Reports(d) => Walk!Stops(d)
  BY DEF Walk!Reports

\* A step that goes on has missed nothing.
LEMMA NothingMissedKept ==
  ASSUME WalkShape, WalkPath, WalkEnds, WalkStep, ~ stop', ~ fault'
  PROVE  NothingMissed'
  <1>1. tree' = tree /\ Walk!IsTree(tree) /\ stack \in Seq(1 .. tree.n) /\ IsPath(tree, stack) /\ tree.n \in Nat
        /\ (wpc \in AtTop => stack # <<>>) /\ "visit" \in AtTop /\ "descend" \notin AtTop /\ "done" \notin AtTop
        /\ (stack # <<>> => DieAt = EndOf(stack) /\ DieAt = stack[Len(stack)] /\ DieAt \in 1 .. tree.n)
    BY AroundKept, DieFacts, HereTyped DEF Around, WalkShape, WalkPath, AtTop, EndOf, DieAt
  <1>2. \A d : Walk!Stops(d)' <=> Walk!Stops(d)
    BY AroundKept, SameMeaning
  <1>3. stop \in BOOLEAN /\ fault \in BOOLEAN
    BY DEF WalkShape
  <1>4. CASE Down
    <2>1. NothingMissed /\ wpc = "descend"
      BY <1>3, <1>4 DEF Down, WalkEnds
    <2>2. EndOf(stack') = EndOf(stack) + 1
      BY <1>1, <1>4, EndTyped, InAppend DEF Down, EndOf
    <2>3. \A e \in 1 .. tree.n : (e < EndOf(stack') /\ tree.last[e] < EndOf(stack')) => ~ Walk!Stops(e)
      BY <1>1, <1>4, <2>1, <2>2, BehindDown DEF Down, NothingMissed
    <2>4. wpc' = "descend" /\ wpc' \notin AtTop /\ wpc' # "done"
      BY <1>1, <1>4 DEF Down
    <2>5. QED
      BY <1>1, <1>2, <2>3, <2>4 DEF NothingMissed, AtTop, EndOf
  <1>5. CASE Turn
    <2>1. /\ NothingMissed /\ wpc = "descend" /\ tree.last[EndOf(stack)] <= EndOf(stack) /\ stack' = stack
          /\ wpc' = IF stack = <<>> THEN "done" ELSE "visit"
      BY <1>3, <1>5 DEF Turn, WalkEnds, WalkShape, Goes
    <2>2. CASE stack = <<>>
      <3>1. tree.n = 0
        <4>1. EndOf(stack) = 0 /\ tree.last[0] = tree.n /\ tree.last[EndOf(stack)] <= EndOf(stack)
          BY <1>1, <2>1, <2>2, DieFacts DEF EndOf
        <4>2. tree.n <= 0
          BY <4>1
        <4>3. QED
          BY <1>1, <4>2
      <3>2. 1 .. tree.n = {}
        BY <3>1
      <3>3. QED
        BY <1>1, <2>1, <2>2, <3>2 DEF NothingMissed, AtTop
    <2>3. CASE stack # <<>>
      <3>1. \A e \in 1 .. tree.n : Earlier(tree, e, DieAt) => ~ Walk!Stops(e)
        BY <1>1, <2>1, <2>3, BehindLeaf DEF NothingMissed
      <3>2. wpc' = "visit" /\ DieAt' = DieAt
        BY <2>1, <2>3 DEF DieAt
      <3>3. QED
        BY <1>1, <1>2, <3>1, <3>2 DEF NothingMissed, AtTop
    <2>4. QED
      BY <2>2, <2>3
  <1>6. CASE Stay
    <2>1. NothingMissed /\ wpc \in AtTop /\ wpc' \in AtTop /\ stack' = stack
      <3>1. fault' = fault \/ fault' = TRUE
        BY <1>6 DEF Stay
      <3>2. ~ fault /\ ~ stop
        BY <1>3, <1>6, <3>1 DEF Stay
      <3>3. QED
        BY <1>6, <3>2 DEF Stay, WalkEnds
    <2>2. DieAt' = DieAt
      BY <2>1 DEF DieAt
    <2>3. QED
      BY <1>1, <1>2, <2>1, <2>2 DEF NothingMissed
  <1>7. CASE NextOne
    <2>1. NothingMissed /\ wpc \in AtTop /\ stack # <<>>
      BY <1>1, <1>3, <1>7 DEF NextOne, WalkEnds
    <2> DEFINE s == tree.last[DieAt] + 1
    <2>2. EndOf(stack') = s
      <3>1. Walk!Front(stack) \in Seq(1 .. tree.n) /\ s \in 1 .. tree.n
        BY <1>1, <1>7, <2>1, FrontIs DEF NextOne
      <3> DEFINE f == Walk!Front(stack)
                 D == 1 .. tree.n
      <3>2. f \in Seq(D) /\ s \in D /\ stack' = Append(f, s)
        BY <1>7, <3>1 DEF NextOne
      <3> HIDE DEF f, s, D
      <3>3. QED
        BY <3>2, InAppend DEF EndOf
    <2>3. ASSUME NEW e \in 1 .. tree.n, e < s, tree.last[e] < s
          PROVE  ~ Walk!Stops(e)
      <3>1. e = DieAt \/ Earlier(tree, e, DieAt)
        BY <1>1, <1>7, <2>1, <2>3, BehindOn DEF NextOne
      <3>2. QED
        BY <1>7, <2>1, <3>1 DEF NothingMissed, NextOne
    <2>4. wpc' = "descend" /\ wpc' \notin AtTop /\ wpc' # "done"
      BY <1>1, <1>7 DEF NextOne
    <2> HIDE DEF s
    <2>5. \A e \in 1 .. tree.n : (e < EndOf(stack') /\ tree.last[e] < EndOf(stack')) => ~ Walk!Stops(e)
      BY <2>2, <2>3
    <2>6. QED
      BY <1>1, <1>2, <2>4, <2>5 DEF NothingMissed, AtTop, EndOf
  <1>8. CASE LastOne
    <2>1. NothingMissed /\ wpc \in AtTop /\ stack # <<>> /\ stack' = Walk!Front(stack) /\ ~ Walk!Stops(DieAt)
          /\ wpc' = IF stack' = <<>> THEN "done" ELSE "visit"
      BY <1>1, <1>3, <1>8 DEF LastOne, WalkEnds, Goes
    <2>2. \E a \in Dies(tree) : a < stack[Len(stack)] /\ tree.last[a] = tree.last[stack[Len(stack)]]
      BY <1>1, <1>3, <1>8, <2>1 DEF LastOne
    <2>3. ASSUME NEW e \in 1 .. tree.n, stack' # <<>> => Earlier(tree, e, stack'[Len(stack')])
          PROVE  ~ Walk!Stops(e)
      <3>1. e = stack[Len(stack)] \/ Earlier(tree, e, stack[Len(stack)])
        BY <1>1, <2>1, <2>2, <2>3, BehindUp
      <3>2. QED
        BY <1>1, <2>1, <3>1 DEF NothingMissed
    <2>4. CASE stack' = <<>>
      BY <1>1, <1>2, <2>1, <2>3, <2>4 DEF NothingMissed, AtTop
    <2>5. CASE stack' # <<>>
      <3>1. wpc' = "visit" /\ DieAt' = stack'[Len(stack')]
        BY <2>1, <2>5 DEF DieAt
      <3>2. QED
        BY <1>1, <1>2, <2>3, <3>1 DEF NothingMissed, AtTop
    <2>6. QED
      BY <2>4, <2>5
  <1>9. CASE Above \/ NotTold \/ Told
    BY <1>3, <1>9 DEF Above, NotTold, Told
  <1>10. QED
    BY <1>4, <1>5, <1>6, <1>7, <1>8, <1>9, StepKinds

\* The first one that is met is the first of all.
LEMMA FirstMet ==
  ASSUME Walk!IsTree(tree), NEW d \in 1 .. tree.n, Walk!Stops(d),
         \A e \in 1 .. tree.n : Earlier(tree, e, d) => ~ Walk!Stops(e)
  PROVE  Walk!FirstStop(d)
  <1>1. \A e \in 1 .. tree.n : (Walk!Stops(e) /\ e # d) => Earlier(tree, d, e)
    BY OneEarlier
  <1>2. QED
    BY <1>1 DEF Walk!FirstStop, Walk!n, Walk!Before, Walk!Encloses, Earlier, Holds

\* What the end of a walkChildren() takes from the stack.
LEMMA FrontOfStack ==
  ASSUME WalkShape, WalkPath, stack # <<>>
  PROVE  /\ \A a : In(stack, a) <=> In(Walk!Front(stack), a) \/ a = DieAt
         /\ \A a : In(Walk!Front(stack), a) => a < DieAt /\ a \in 1 .. tree.n
         /\ ~ In(Walk!Front(stack), DieAt) /\ DieAt \in 1 .. tree.n
         /\ \A a \in 1 .. tree.n : Holds(tree, a, DieAt) <=> In(stack, a)
  <1>1. Walk!IsTree(tree) /\ stack \in Seq(1 .. tree.n) /\ IsPath(tree, stack) /\ tree.n \in Nat /\ Rises(stack)
    BY DieFacts DEF WalkShape, WalkPath, IsPath
  <1>2. /\ \A a : In(stack, a) <=> In(Walk!Front(stack), a) \/ a = DieAt
        /\ \A a : In(Walk!Front(stack), a) => a < DieAt /\ a \in 1 .. tree.n
        /\ DieAt \in 1 .. tree.n
    BY <1>1, RisesFront DEF DieAt
  <1>3. ~ In(Walk!Front(stack), DieAt)
    <2>1. DieAt \in Nat
      BY <1>1, <1>2
    <2>2. ~ (DieAt < DieAt)
      BY <2>1
    <2>3. QED
      BY <1>2, <2>2
  <1>4. QED
    BY <1>1, <1>2, <1>3 DEF IsPath, DieAt

\* One more frame.
LEMMA OneMoreShown ==
  ASSUME NEW D, frames \in Seq(D), NEW x \in D, frames' = Append(frames, x)
  PROVE  \A d : Shown(d)' <=> Shown(d) \/ d = x.die
  <1>1. /\ Len(frames) \in Nat /\ Len(frames') = Len(frames) + 1 /\ frames'[Len(frames) + 1] = x
        /\ \A k \in 1 .. Len(frames) : frames'[k] = frames[k]
    OBVIOUS
  <1>2. \A k : k \in 1 .. Len(frames) + 1 <=> k \in 1 .. Len(frames) \/ k = Len(frames) + 1
    BY <1>1
  <1>3. QED
    BY <1>1, <1>2 DEF Shown

\* What is reported of a DIE of n.
Frame(n) == [die : 1 .. n, file : Int, site : 0 .. n, real : BOOLEAN]

\* Every step keeps what has been visited and reported right, as long as
\* libdwarf did not fail.
LEMMA EndsKept ==
  ASSUME WalkShape, WalkPath, WalkEnds, WalkStep, frames \in Seq(Frame(tree.n)), site \in 0 .. tree.n, fileno \in Int,
         ptrOrig \in BOOLEAN
  PROVE  WalkEnds'
  <1>1. tree' = tree /\ Walk!IsTree(tree) /\ stack \in Seq(1 .. tree.n) /\ tree.n \in Nat
        /\ (wpc \in AtTop => stack # <<>>) /\ "visit" \in AtTop /\ stop \in BOOLEAN /\ fault \in BOOLEAN
    BY AroundKept, DieFacts DEF Around, WalkShape, AtTop
  <1>2. /\ \A d : Walk!Reports(d)' <=> Walk!Reports(d)
        /\ \A d : Walk!FirstStop(d)' <=> Walk!FirstStop(d)
    BY AroundKept, SameMeaning
  <1>3. ~ stop' => frames' = <<>>
    <2>1. CASE Down \/ Turn \/ Stay \/ NextOne \/ LastOne \/ Above
      BY <1>1, <2>1 DEF Down, Turn, Stay, NextOne, LastOne, Above, Alike, WalkEnds, WalkShape
    <2>2. CASE NotTold \/ Told
      BY <2>2 DEF NotTold, Told
    <2>3. QED
      BY <2>1, <2>2, StepKinds
  <1>4. ~ stop' /\ ~ fault' => NothingMissed'
    BY NothingMissedKept
  <1>5. ASSUME stop', ~ fault' PROVE \E s \in 1 .. tree.n : Ended(s)'
    <2>1. CASE Down \/ Turn \/ NextOne \/ LastOne
      BY <1>1, <1>5, <2>1 DEF Down, Turn, NextOne, LastOne, WalkShape
    <2>2. CASE Stay
      <3>1. fault' = fault \/ fault' = TRUE
        BY <2>2 DEF Stay
      <3>2. ~ fault /\ stop /\ stack' = stack /\ frames' = frames
        BY <1>1, <1>5, <2>2, <3>1 DEF Stay, Alike
      <3>3. PICK s \in 1 .. tree.n : Ended(s)
        BY <3>2 DEF WalkEnds
      <3>4. \A d : Shown(d)' <=> Shown(d)
        BY <3>2 DEF Shown
      <3>5. Ended(s)'
        BY <1>1, <1>2, <3>2, <3>3, <3>4 DEF Ended
      <3>6. QED
        BY <3>5
    <2>3. CASE Above \/ NotTold \/ Told
      <3>2. fault' = fault /\ ~ fault
        BY <1>1, <1>5, <2>3 DEF Above, NotTold, Told
      <3>3. /\ \A a : In(stack, a) <=> In(stack', a) \/ a = DieAt
            /\ \A a : In(stack', a) => a < DieAt /\ a \in 1 .. tree.n
            /\ ~ In(stack', DieAt) /\ DieAt \in 1 .. tree.n
            /\ \A a \in 1 .. tree.n : Holds(tree, a, DieAt) <=> In(stack, a)
        <4>1. stack' = Walk!Front(stack) /\ stack # <<>>
          BY <1>1, <2>3 DEF Above, NotTold, Told
        <4>2. QED
          BY <4>1, FrontOfStack
      <3>4. \A d : Shown(d)' <=> Shown(d) \/ (d = DieAt /\ Walk!Reports(DieAt))
        <4>1. CASE Above
          <5>1. frames' = frames /\ ~ Walk!Reports(DieAt)
            BY <4>1, ReportsStops DEF Above, Alike
          <5>2. QED
            BY <5>1 DEF Shown
        <4>2. CASE NotTold
          <5>1. frames' = frames /\ ~ Walk!Reports(DieAt)
            BY <1>5, <4>2 DEF NotTold, Alike
          <5>2. QED
            BY <5>1 DEF Shown
        <4>3. CASE Told
          <5> DEFINE x == [die |-> DieAt, file |-> fileno, site |-> site, real |-> ptrOrig]
          <5>1. x \in Frame(tree.n) /\ x.die = DieAt
            BY <3>3 DEF Frame
          <5>2. frames' = Append(frames, x) /\ Walk!Reports(DieAt)
            BY <4>3 DEF Told
          <5> HIDE DEF x
          <5>3. \A d : Shown(d)' <=> Shown(d) \/ d = x.die
            BY <5>1, <5>2, OneMoreShown
          <5>4. QED
            BY <5>1, <5>2, <5>3
        <4>4. QED
          BY <2>3, <4>1, <4>2, <4>3
      <3>5. PICK s \in 1 .. tree.n :
              /\ Walk!FirstStop(s)
              /\ \A a \in 1 .. tree.n : In(stack, a) => Holds(tree, a, s)
              /\ \A d \in 1 .. tree.n : Shown(d) <=> Walk!Reports(d) /\ Holds(tree, d, s) /\ ~ In(stack, d)
        <4>1. CASE stop
          <5>1. PICK s \in 1 .. tree.n : Ended(s)
            BY <3>2, <4>1 DEF WalkEnds
          <5>2. QED
            BY <5>1 DEF Ended
        <4>2. CASE ~ stop
          <5>1. wpc \in AtTop /\ Walk!Stops(DieAt) /\ frames = <<>> /\ NothingMissed
            BY <2>3, <3>2, <4>2, ReportsStops DEF Above, NotTold, Told, WalkEnds
          <5>2. Walk!FirstStop(DieAt)
            BY <1>1, <3>3, <5>1, FirstMet DEF NothingMissed
          <5>3. \A d : ~ Shown(d)
            <6>1. Len(frames) = 0
              BY <5>1
            <6>2. QED
              BY <6>1 DEF Shown
          <5>4. QED
            BY <3>3, <5>2, <5>3
        <4>3. QED
          BY <4>1, <4>2
      <3>6. Walk!FirstStop(s)'
        BY <1>2, <3>5
      <3>7. \A a \in 1 .. tree.n : In(stack', a) => Holds(tree, a, s)
        BY <3>3, <3>5
      <3>8. \A d \in 1 .. tree.n : Shown(d)' <=> Walk!Reports(d) /\ Holds(tree, d, s) /\ ~ In(stack', d)
        <4>1. Holds(tree, DieAt, s)
          <5>1. In(stack, DieAt)
            BY <3>3
          <5>2. QED
            BY <3>3, <3>5, <5>1
        <4>2. QED
          BY <3>3, <3>4, <3>5, <4>1
      <3>9. Ended(s)'
        BY <1>1, <1>2, <3>6, <3>7, <3>8 DEF Ended
      <3>10. QED
        BY <3>9
    <2>4. QED
      BY <2>1, <2>2, <2>3, StepKinds
  <1>6. QED
    BY <1>1, <1>3, <1>4, <1>5 DEF WalkEnds

-----------------------------------------------------------------------------
(* The frames.                                                             *)

\* The one that was reported last.
LastFrame == frames[Len(frames)].die

\* Each lies around the one before, and the stack around the last.
WalkFrames ==
  /\ frames \in Seq(Frame(tree.n))
  /\ \A k \in 1 .. Len(frames) : Walk!Reports(frames[k].die)
  /\ \A k \in 1 .. Len(frames) - 1 :
       frames[k].die # frames[k + 1].die /\ Holds(tree, frames[k + 1].die, frames[k].die)
  /\ frames # <<>> => \A a : In(stack, a) => a # LastFrame /\ Holds(tree, a, LastFrame)

\* The inlined functions among the frames before the k-th.
InlinedBefore(t, fs, k) == {j \in 1 .. k - 1 : t.die[fs[j].die].kind = "inlined"}

\* A place and a file index that suit the k-th frame.
Placed(t, offs, row, fs, k, s, f) ==
  LET inl == InlinedBefore(t, fs, k)
  IN  IF inl = {} THEN s = 0 /\ f = row
      ELSE \E j \in inl :
             /\ \A l \in inl : l <= j
             /\ s = fs[j].die /\ f = t.die[fs[j].die].call + offs

\* Every frame is at its place, and the next one will be.
WalkSites ==
  /\ site \in 0 .. tree.n /\ fileno \in Int /\ ptrOrig \in BOOLEAN
  /\ \A k \in 1 .. Len(frames) :
       /\ Placed(tree, FilenoOffs, RowIndex, frames, k, frames[k].site, frames[k].file)
       /\ frames[k].real <=> InlinedBefore(tree, frames, k) = {}
  /\ Placed(tree, FilenoOffs, RowIndex, frames, Len(frames) + 1, site, fileno)
  /\ ptrOrig <=> InlinedBefore(tree, frames, Len(frames) + 1) = {}

\* One more element.
LEMMA AppendIs ==
  ASSUME NEW D, NEW s \in Seq(D), NEW x \in D
  PROVE  /\ Len(s) \in Nat /\ Len(Append(s, x)) = Len(s) + 1 /\ Append(s, x)[Len(s) + 1] = x
         /\ \A k \in 1 .. Len(s) : Append(s, x)[k] = s[k] /\ s[k] \in D
         /\ \A k : k \in 1 .. Len(s) + 1 <=> k \in 1 .. Len(s) \/ k = Len(s) + 1
         /\ Append(s, x) \in Seq(D)
  <1>1. Len(s) \in Nat /\ Len(Append(s, x)) = Len(s) + 1 /\ Append(s, x)[Len(s) + 1] = x
        /\ \A k \in 1 .. Len(s) : Append(s, x)[k] = s[k] /\ s[k] \in D
    OBVIOUS
  <1>2. Append(s, x) \in Seq(D)
    OBVIOUS
  <1>3. \A k : k \in 1 .. Len(s) + 1 <=> k \in 1 .. Len(s) \/ k = Len(s) + 1
    BY <1>1
  <1>4. QED
    BY <1>1, <1>2, <1>3

\* Every step keeps each frame around the one before.
LEMMA FramesKept ==
  ASSUME WalkShape, WalkPath, WalkEnds, WalkFrames, WalkSites, WalkStep
  PROVE  WalkFrames'
  <1>1. tree' = tree /\ Walk!IsTree(tree) /\ stack \in Seq(1 .. tree.n) /\ tree.n \in Nat
        /\ (wpc \in AtTop => stack # <<>>) /\ "visit" \in AtTop /\ stop \in BOOLEAN
        /\ (wpc = "descend" => ~ stop)
    BY AroundKept, DieFacts DEF Around, WalkShape, AtTop
  <1>2. \A d : Walk!Reports(d)' <=> Walk!Reports(d)
    BY AroundKept, SameMeaning
  <1>3. CASE Down \/ Turn \/ NextOne \/ LastOne
    <2>1. frames = <<>> /\ frames' = <<>>
      BY <1>1, <1>3 DEF Down, Turn, NextOne, LastOne, WalkEnds, Alike
    <2>2. Len(frames) = 0 /\ Len(frames') = 0 /\ 1 .. 0 = {} /\ 1 .. 0 - 1 = {}
      BY <2>1
    <2>3. frames' \in Seq(Frame(tree.n))
      BY <2>1 DEF WalkFrames
    <2>4. QED
      BY <1>1, <2>1, <2>2, <2>3 DEF WalkFrames
  <1>4. CASE Stay \/ Above \/ NotTold
    <2>1. frames' = frames /\ \A a : In(stack', a) => In(stack, a)
      <3>1. CASE Stay
        BY <3>1 DEF Stay, Alike
      <3>2. CASE Above \/ NotTold
        <4>1. frames' = frames /\ stack' = Walk!Front(stack) /\ stack # <<>>
          BY <1>1, <3>2 DEF Above, NotTold, Alike
        <4>2. QED
          BY <4>1, FrontOfStack
      <3>3. QED
        BY <1>4, <3>1, <3>2
    <2>2. \A k : Walk!Reports(frames[k].die)' <=> Walk!Reports(frames[k].die)
      BY <1>2, <2>1, AroundKept DEF Around, Walk!Reports, Walk!Stops, Walk!CallInList, Walk!die
    <2>3. QED
      BY <1>1, <2>1, <2>2 DEF WalkFrames, LastFrame
  <1>5. CASE Told
    <2>1. stack # <<>> /\ stack' = Walk!Front(stack) /\ Walk!Reports(DieAt)
      BY <1>1, <1>5 DEF Told
    <2>2. /\ \A a : In(stack, a) <=> In(stack', a) \/ a = DieAt
          /\ \A a : In(stack', a) => a < DieAt /\ a \in 1 .. tree.n
          /\ ~ In(stack', DieAt) /\ DieAt \in 1 .. tree.n
          /\ \A a \in 1 .. tree.n : Holds(tree, a, DieAt) <=> In(stack, a)
      BY <2>1, FrontOfStack
    <2> DEFINE x == [die |-> DieAt, file |-> fileno, site |-> site, real |-> ptrOrig]
               D == Frame(tree.n)
    <2>3. x \in D /\ x.die = DieAt
      BY <2>2 DEF Frame, WalkSites
    <2>4. frames' = Append(frames, x) /\ frames \in Seq(D)
      BY <1>5 DEF Told, WalkFrames
    <2>5. D = Frame(tree.n)
      OBVIOUS
    <2> HIDE DEF x, D
    <2>6. /\ Len(frames) \in Nat /\ Len(frames') = Len(frames) + 1 /\ frames'[Len(frames) + 1] = x
          /\ \A k \in 1 .. Len(frames) : frames'[k] = frames[k]
          /\ \A k : k \in 1 .. Len(frames) + 1 <=> k \in 1 .. Len(frames) \/ k = Len(frames) + 1
          /\ frames' \in Seq(D)
      BY <2>3, <2>4, AppendIs
    <2>7. \A k \in 1 .. Len(frames') : Walk!Reports(frames'[k].die)
      BY <2>1, <2>3, <2>6 DEF WalkFrames
    <2>8. \A k : Walk!Reports(frames[k].die)' <=> Walk!Reports(frames'[k].die)
      BY AroundKept DEF Around, Walk!Reports, Walk!Stops, Walk!CallInList, Walk!die
    <2>9. ASSUME NEW k \in 1 .. Len(frames') - 1
          PROVE  frames'[k].die # frames'[k + 1].die /\ Holds(tree, frames'[k + 1].die, frames'[k].die)
      <3>1. k \in 1 .. Len(frames) /\ frames'[k] = frames[k]
        BY <2>6
      <3>2. CASE k = Len(frames)
        <4>1. frames # <<>> /\ In(stack, DieAt)
          <5>1. Len(<<>>) = 0
            OBVIOUS
          <5>2. QED
            BY <2>2, <2>6, <3>1, <3>2, <5>1
        <4>2. DieAt # LastFrame /\ Holds(tree, DieAt, LastFrame)
          BY <4>1 DEF WalkFrames
        <4>3. frames'[k].die = LastFrame /\ frames'[k + 1].die = DieAt
          BY <2>3, <2>6, <3>1, <3>2 DEF LastFrame
        <4>4. QED
          BY <4>2, <4>3
      <3>3. CASE k # Len(frames)
        <4>1. k \in 1 .. Len(frames) - 1 /\ k + 1 \in 1 .. Len(frames)
          BY <2>6, <3>1, <3>3
        <4>2. frames'[k + 1] = frames[k + 1]
          BY <2>6, <4>1
        <4>3. QED
          BY <3>1, <4>1, <4>2 DEF WalkFrames
      <3>4. QED
        BY <3>2, <3>3
    <2>10. \A a : In(stack', a) => a # LastFrame' /\ Holds(tree, a, LastFrame')
      <3>1. LastFrame' = DieAt
        BY <2>3, <2>6 DEF LastFrame
      <3>2. QED
        BY <2>2, <3>1
    <2>11. QED
      BY <1>1, <2>5, <2>6, <2>7, <2>8, <2>9, <2>10 DEF WalkFrames
  <1>6. QED
    BY <1>3, <1>4, <1>5, StepKinds

\* The places suit gs, which is fs and one more frame, as they suit fs.
PlacedAlike(t, offs, row, fs, x, gs) ==
  /\ \A k \in 1 .. Len(fs) + 1 :
       /\ InlinedBefore(t, gs, k) = InlinedBefore(t, fs, k)
       /\ \A s, f : Placed(t, offs, row, gs, k, s, f) <=> Placed(t, offs, row, fs, k, s, f)
  /\ InlinedBefore(t, gs, Len(fs) + 2) =
       InlinedBefore(t, fs, Len(fs) + 1) \cup
         (IF t.die[x.die].kind = "inlined" THEN {Len(fs) + 1} ELSE {})

\* What one more frame does to the places.
LEMMA PlacedAppend ==
  ASSUME NEW D, NEW fs \in Seq(D), NEW x \in D, NEW t, NEW offs, NEW row
  PROVE  PlacedAlike(t, offs, row, fs, x, Append(fs, x))
  <1> DEFINE gs == Append(fs, x)
  <1>1. Len(fs) \in Nat /\ gs[Len(fs) + 1] = x /\ \A j \in 1 .. Len(fs) : gs[j] = fs[j]
    BY AppendIs
  <1> HIDE DEF gs
  <1>2. ASSUME NEW k \in 1 .. Len(fs) + 1
        PROVE  InlinedBefore(t, gs, k) = InlinedBefore(t, fs, k)
    <2>1. \A j \in 1 .. k - 1 : j \in 1 .. Len(fs)
      BY <1>1
    <2>2. \A j \in 1 .. k - 1 : gs[j] = fs[j]
      BY <1>1, <2>1
    <2>3. QED
      BY <2>2 DEF InlinedBefore
  <1>3. ASSUME NEW k \in 1 .. Len(fs) + 1, NEW s, NEW f
        PROVE  Placed(t, offs, row, gs, k, s, f) <=> Placed(t, offs, row, fs, k, s, f)
    <2>1. InlinedBefore(t, gs, k) = InlinedBefore(t, fs, k)
      BY <1>2
    <2>2. \A j \in InlinedBefore(t, fs, k) : gs[j] = fs[j]
      <3>1. \A j \in 1 .. k - 1 : j \in 1 .. Len(fs)
        BY <1>1
      <3>2. QED
        BY <1>1, <3>1 DEF InlinedBefore
    <2>3. QED
      BY <2>1, <2>2 DEF Placed
  <1>4. InlinedBefore(t, gs, Len(fs) + 2) =
          InlinedBefore(t, fs, Len(fs) + 1) \cup (IF t.die[x.die].kind = "inlined" THEN {Len(fs) + 1} ELSE {})
    <2>1. \A j : j \in 1 .. (Len(fs) + 2) - 1 <=> j \in 1 .. (Len(fs) + 1) - 1 \/ j = Len(fs) + 1
      BY <1>1
    <2>2. \A j \in 1 .. (Len(fs) + 1) - 1 : gs[j] = fs[j]
      BY <1>1
    <2>3. \A j : j \in InlinedBefore(t, gs, Len(fs) + 2) <=>
                   \/ j \in InlinedBefore(t, fs, Len(fs) + 1)
                   \/ t.die[x.die].kind = "inlined" /\ j = Len(fs) + 1
      BY <1>1, <2>1, <2>2 DEF InlinedBefore
    <2>4. QED
      BY <2>3
  <1>5. QED
    BY <1>2, <1>3, <1>4 DEF gs, PlacedAlike

\* The file of the call of an inlined function that is reported.
LEMMA CallTyped ==
  ASSUME WalkShape, NEW d \in 1 .. tree.n, Walk!Reports(d), Inlined(d)
  PROVE  /\ tree.die[d].call + FilenoOffs \in Int
         /\ list \in Int => tree.die[d].call + FilenoOffs \in 0 .. list - 1
  <1>1. tree.die[d] \in Walk!DieAttrs
    BY DEF WalkShape, Walk!IsTree
  <1>2. tree.die[d].call \in Nat \cup {-1}
    BY <1>1 DEF Walk!DieAttrs, Walk!None
  <1>3. FilenoOffs \in Int
    BY DEF FilenoOffs
  <1>4. tree.die[d].call + FilenoOffs >= 0 /\ tree.die[d].call + FilenoOffs < list
    BY DEF Walk!Reports, Inlined, Walk!CallInList, Walk!die
  <1> DEFINE callFile == tree.die[d].call
  <1>5. callFile \in Int /\ callFile + FilenoOffs >= 0 /\ callFile + FilenoOffs < list
    BY <1>2, <1>4
  <1> HIDE DEF callFile
  <1>6. callFile + FilenoOffs \in Int /\ (list \in Int => callFile + FilenoOffs \in 0 .. list - 1)
    BY <1>3, <1>5
  <1>7. QED
    BY <1>6 DEF callFile

\* Every step keeps each frame at its place.
LEMMA SitesKept ==
  ASSUME WalkShape, WalkPath, WalkFrames, WalkSites, WalkStep
  PROVE  WalkSites'
  <1>1. tree' = tree /\ FilenoOffs' = FilenoOffs /\ RowIndex' = RowIndex /\ tree.n \in Nat
        /\ (wpc \in AtTop => stack # <<>>)
    BY AroundKept, DieFacts DEF Around, WalkShape
  <1>2. CASE ~ Told
    <2>1. UNCHANGED <<frames, fileno, site, ptrOrig>>
      BY <1>2, StepKinds DEF Down, Turn, Stay, NextOne, LastOne, Above, NotTold, Alike
    <2>2. QED
      BY <1>1, <2>1 DEF WalkSites
  <1>3. CASE Told
    <2>1. stack # <<>> /\ Walk!Reports(DieAt) /\ DieAt \in 1 .. tree.n
      BY <1>1, <1>3, FrontOfStack DEF Told
    <2> DEFINE x == [die |-> DieAt, file |-> fileno, site |-> site, real |-> ptrOrig]
               D == Frame(tree.n)
               m == Len(frames)
    <2>2. x \in D /\ x.die = DieAt /\ x.file = fileno /\ x.site = site
      BY <2>1 DEF Frame, WalkSites
    <2>3. x.real = ptrOrig
      OBVIOUS
    <2>4. frames' = Append(frames, x) /\ frames \in Seq(D)
      BY <1>3 DEF Told, WalkFrames
    <2> HIDE DEF x, D
    <2>5. /\ m \in Nat /\ Len(frames') = m + 1 /\ frames'[m + 1] = x
          /\ \A k \in 1 .. m : frames'[k] = frames[k]
          /\ \A k : k \in 1 .. m + 1 <=> k \in 1 .. m \/ k = m + 1
      BY <2>2, <2>4, AppendIs
    <2>6. /\ \A k \in 1 .. m + 1 :
               /\ InlinedBefore(tree, frames', k) = InlinedBefore(tree, frames, k)
               /\ \A s, f : Placed(tree, FilenoOffs, RowIndex, frames', k, s, f)
                              <=> Placed(tree, FilenoOffs, RowIndex, frames, k, s, f)
          /\ InlinedBefore(tree, frames', m + 2) =
               InlinedBefore(tree, frames, m + 1) \cup
                 (IF tree.die[x.die].kind = "inlined" THEN {m + 1} ELSE {})
      <3>1. PlacedAlike(tree, FilenoOffs, RowIndex, frames, x, frames')
        BY <2>2, <2>4, PlacedAppend
      <3>2. QED
        BY <3>1 DEF PlacedAlike
    <2> HIDE DEF m
    <2>7. ASSUME NEW k \in 1 .. m + 1
          PROVE  /\ Placed(tree, FilenoOffs, RowIndex, frames', k, frames'[k].site, frames'[k].file)
                 /\ frames'[k].real <=> InlinedBefore(tree, frames', k) = {}
      <3>1. CASE k = m + 1
        BY <2>2, <2>3, <2>5, <2>6, <3>1 DEF WalkSites, m
      <3>2. CASE k # m + 1
        <4>1. k \in 1 .. m /\ frames'[k] = frames[k]
          BY <2>5, <3>2
        <4>2. QED
          BY <2>6, <4>1 DEF WalkSites, m
      <3>3. QED
        BY <3>1, <3>2
    <2>8. /\ site' \in 0 .. tree.n /\ fileno' \in Int /\ ptrOrig' \in BOOLEAN
          /\ Placed(tree, FilenoOffs, RowIndex, frames', m + 2, site', fileno')
          /\ ptrOrig' <=> InlinedBefore(tree, frames', m + 2) = {}
      <3>1. CASE ~ Inlined(DieAt) /\ UNCHANGED <<fileno, site, ptrOrig>>
        <4>1. InlinedBefore(tree, frames', m + 2) = InlinedBefore(tree, frames, m + 1)
          BY <2>2, <2>6, <3>1 DEF Inlined, Walk!die
        <4>2. \A j \in InlinedBefore(tree, frames, m + 1) : j \in 1 .. m
          BY <2>5 DEF InlinedBefore
        <4>3. \A s, f : Placed(tree, FilenoOffs, RowIndex, frames', m + 2, s, f)
                          <=> Placed(tree, FilenoOffs, RowIndex, frames, m + 1, s, f)
          BY <2>5, <4>1, <4>2 DEF Placed
        <4>4. QED
          BY <3>1, <4>1, <4>3 DEF WalkSites, m
      <3>2. CASE /\ Inlined(DieAt)
                 /\ fileno' = Walk!die[DieAt].call + FilenoOffs /\ site' = DieAt /\ ptrOrig' = FALSE
        <4>1. InlinedBefore(tree, frames', m + 2) = InlinedBefore(tree, frames, m + 1) \cup {m + 1}
          BY <2>2, <2>6, <3>2 DEF Inlined, Walk!die
        <4>2. \A j \in InlinedBefore(tree, frames, m + 1) : j \in 1 .. m
          BY <2>5 DEF InlinedBefore
        <4>3. \A l \in InlinedBefore(tree, frames', m + 2) : l <= m + 1
          BY <2>5, <4>1, <4>2
        <4>4. m + 1 \in InlinedBefore(tree, frames', m + 2) /\ frames'[m + 1].die = DieAt
          BY <2>2, <2>5, <4>1
        <4>5. Placed(tree, FilenoOffs, RowIndex, frames', m + 2, site', fileno')
          BY <3>2, <4>3, <4>4 DEF Placed, Walk!die
        <4>6. fileno' \in Int /\ site' \in 0 .. tree.n
          BY <2>1, <3>2, CallTyped DEF Walk!die
        <4>7. ptrOrig' \in BOOLEAN /\ (ptrOrig' <=> InlinedBefore(tree, frames', m + 2) = {})
          BY <3>2, <4>4
        <4>8. QED
          BY <4>5, <4>6, <4>7
      <3>3. QED
        BY <1>3, <3>1, <3>2 DEF Told
    <2>9. Len(frames') + 1 = m + 2
      BY <2>5
    <2>10. QED
      BY <1>1, <2>5, <2>7, <2>8, <2>9 DEF WalkSites
  <1>4. QED
    BY <1>2, <1>3

-----------------------------------------------------------------------------
(* The walk within the lookup.                                             *)

\* All that holds of a walk.
WalkInv == WalkShape /\ WalkHandles /\ WalkPath /\ WalkEnds /\ WalkFrames /\ WalkSites

\* Before a walk and after it.
WalkRests ==
  /\ wpc = "idle" /\ stop = FALSE /\ fault = FALSE /\ stack = <<>> /\ links = <<>> /\ attrs = {}
  /\ frames = <<>> /\ site = 0 /\ ptrOrig = TRUE
  /\ Walk!IsTree(tree)
  /\ live \in [1 .. tree.n -> Int] /\ \A d \in 1 .. tree.n : live[d] = 0

\* All that holds of the walk in a lookup, given the invariant of the lookup.
WalkInLookup ==
  /\ list \in Int
  /\ IF pc = "walk" THEN wpc # "idle" /\ WalkInv ELSE WalkRests

\* No walk runs at first.
LEMMA WalkStarts == LookupInit => WalkInLookup
  <1> SUFFICES ASSUME LookupInit PROVE WalkInLookup
    OBVIOUS
  <1>1. Walk!IsTree(tree)
    BY UnitsAssumption DEF LookupInit
  <1>2. Walk!Init /\ pc # "walk" /\ list = -1
    BY DEF LookupInit, NoLookup, Unread
  <1>3. live = [d \in 1 .. tree.n |-> 0]
    BY <1>2 DEF Walk!Init
  <1>4. live \in [1 .. tree.n -> Int] /\ \A d \in 1 .. tree.n : live[d] = 0
    BY <1>3
  <1>5. QED
    BY <1>1, <1>2, <1>4 DEF Walk!Init, WalkRests, WalkInLookup, Walk!RowSite

\* A step of a walk keeps it right.
LEMMA WalkGoesOn ==
  ASSUME WalkInLookup, WalkStep
  PROVE  WalkInLookup'
  <1>1. pc = "walk" /\ pc' = pc /\ list' = list /\ list \in Int /\ WalkInv
    BY AroundKept DEF WalkInLookup, WalkStep, Around
  <1>2. WalkShape' /\ WalkHandles' /\ WalkPath' /\ WalkEnds' /\ WalkFrames' /\ WalkSites'
    BY <1>1, ShapeKept, HandlesKept, PathKept, EndsKept, FramesKept, SitesKept DEF WalkInv, WalkFrames, WalkSites
  <1>3. wpc' # "idle"
    BY <1>1, StepKinds DEF WalkInv, Down, Turn, Stay, NextOne, LastOne, Above, NotTold, Told, Goes, AtTop
  <1>4. QED
    BY <1>1, <1>2, <1>3 DEF WalkInLookup, WalkInv

\* A walk begins with nothing on the stack.
LEMMA WalkBeginsWell ==
  ASSUME IInv, WalkInLookup, WalkBegins
  PROVE  WalkInLookup'
  <1>1. /\ pc = "hit" /\ pc' = "walk" /\ list' = list /\ list \in Int /\ WalkRests /\ Walk!Begin
        /\ rows' = rows /\ hit' = hit /\ mode' = mode /\ src' = src
    BY DEF WalkBegins, RowUsable, WalkInLookup, readerVars
  <1>2. RowIndex' = RowIndex /\ FilenoOffs' = FilenoOffs
    BY <1>1 DEF RowIndex, FilenoOffs
  <1>3. /\ wpc' = "descend" /\ fileno' = RowIndex /\ tree' = tree
        /\ UNCHANGED <<stack, stop, links, attrs, live, site, ptrOrig, frames, fault>>
    BY <1>1 DEF Walk!Begin
  <1>4. /\ Walk!IsTree(tree) /\ stack = <<>> /\ stop = FALSE /\ links = <<>> /\ attrs = {} /\ frames = <<>> /\ fault = FALSE
        /\ site = 0 /\ ptrOrig = TRUE /\ live \in [1 .. tree.n -> Int] /\ \A d \in 1 .. tree.n : live[d] = 0
    BY <1>1 DEF WalkRests
  <1>5. tree.n \in Nat /\ \A D : <<>> \in Seq(D)
    BY <1>4 DEF Walk!IsTree
  <1>6. WalkShape'
    BY <1>3, <1>4, <1>5 DEF WalkShape, AtTop, Walk!IsTree
  <1>7. WalkHandles'
    BY <1>3, <1>4, CountNone DEF WalkHandles, Held, Walk!Count
  <1>8. /\ Len(<<>>) = 0 /\ 1 .. 0 = {} /\ 1 .. 0 + 1 - 1 = {}
    OBVIOUS
  <1>9. WalkPath'
    BY <1>3, <1>4, <1>8 DEF WalkPath, IsPath, Rises
  <1>10. WalkEnds'
    <2>1. \A e \in 1 .. tree.n : ~ (e < 0)
      BY <1>5
    <2>2. EndOf(stack') = 0
      BY <1>3, <1>4 DEF EndOf
    <2>3. QED
      BY <1>3, <1>4, <2>1, <2>2 DEF WalkEnds, NothingMissed, AtTop, EndOf
  <1>11. WalkFrames'
    BY <1>3, <1>4, <1>5, <1>8 DEF WalkFrames
  <1>12. WalkSites'
    <2>1. RowIndex \in Int
      <3>1. rows \in Seq(Row) /\ hit \in 1 .. Len(rows)
        BY <1>1 DEF IInv, SearchInv, SearchTyped
      <3>2. rows[hit] \in Row
        BY <3>1
      <3>3. rows[hit].file \in Nat
        BY <3>2 DEF Row
      <3>4. FilenoOffs \in Int
        BY DEF FilenoOffs
      <3>5. QED
        BY <1>1, <3>3, <3>4 DEF RowIndex
    <2>2. InlinedBefore(tree, <<>>, 1) = {}
      BY DEF InlinedBefore
    <2>3. QED
      BY <1>2, <1>3, <1>4, <1>5, <1>8, <2>1, <2>2 DEF WalkSites, Placed
  <1>13. QED
    BY <1>1, <1>3, <1>6, <1>7, <1>9, <1>10, <1>11, <1>12 DEF WalkInLookup, WalkInv

\* What is left when a walk has ended.
LEMMA WalkLeavesNothing ==
  ASSUME WalkInLookup, pc = "walk", Walk!End
  PROVE  WalkRests'
  <1>1. WalkShape /\ WalkHandles /\ wpc = "done" /\ stack = <<>>
    BY DEF WalkInLookup, WalkInv, Walk!End, WalkShape
  <1>2. links = <<>> /\ attrs = {} /\ Walk!IsTree(tree)
    BY <1>1 DEF WalkShape
  <1>3. live \in [1 .. tree.n -> Int] /\ \A d \in 1 .. tree.n : live[d] = 0
    BY <1>1, <1>2, CountNone DEF WalkHandles, Held
  <1>4. /\ wpc' = "idle" /\ stop' = FALSE /\ site' = 0 /\ ptrOrig' = TRUE /\ frames' = <<>> /\ fault' = FALSE
        /\ UNCHANGED <<tree, stack, links, attrs, live>>
    BY DEF Walk!End, Walk!RowSite
  <1>5. QED
    BY <1>1, <1>2, <1>3, <1>4 DEF WalkRests, Walk!IsTree

\* Nothing happens to the walk.
LEMMA WalkUntouched ==
  ASSUME WalkInLookup, UNCHANGED walkVars, list' \in Int,
         \/ pc # "walk" /\ pc' # "walk"
         \/ pc' = pc /\ list' = list /\ FilenoOffs' = FilenoOffs /\ RowIndex' = RowIndex
  PROVE  WalkInLookup'
  <1>1. UNCHANGED <<tree, wpc, stack, stop, links, attrs, live, fileno, site, ptrOrig, frames, fault>>
    BY DEF walkVars
  <1>2. CASE pc # "walk"
    <2>1. WalkRests /\ pc' # "walk"
      BY <1>2 DEF WalkInLookup
    <2>2. QED
      BY <1>1, <2>1 DEF WalkInLookup, WalkRests, Walk!IsTree
  <1>3. CASE pc = "walk"
    <2>1. Around /\ WalkInv /\ wpc' # "idle" /\ pc' = "walk"
      BY <1>1, <1>3 DEF WalkInLookup, Around
    <2>2. WalkShape'
      BY <1>1, <2>1 DEF Around, WalkInv, WalkShape, DieAt, Walk!IsTree, Walk!Stops, Walk!Reports, Walk!CallInList, Walk!die
    <2>3. WalkHandles'
      BY <1>1, <2>1, SameHandles DEF WalkInv
    <2>4. WalkPath'
      BY <1>1, <2>1 DEF WalkInv, WalkPath
    <2>5. WalkEnds'
      <3>1. /\ \A d : Walk!Stops(d)' <=> Walk!Stops(d)
            /\ \A d : Walk!Reports(d)' <=> Walk!Reports(d)
            /\ \A d : Walk!FirstStop(d)' <=> Walk!FirstStop(d)
        BY <2>1, SameMeaning
      <3>2. NothingMissed => NothingMissed'
        BY <1>1, <3>1 DEF NothingMissed, DieAt
      <3>3. \A s : Ended(s) => Ended(s)'
        BY <1>1, <3>1 DEF Ended, Shown
      <3>4. QED
        BY <1>1, <2>1, <3>2, <3>3 DEF WalkInv, WalkEnds
    <2>6. WalkFrames'
      <3>1. \A k : Walk!Reports(frames[k].die)' <=> Walk!Reports(frames[k].die)
        BY <1>1, <2>1 DEF Around, Walk!Reports, Walk!Stops, Walk!CallInList, Walk!die
      <3>2. QED
        BY <1>1, <2>1, <3>1 DEF WalkInv, WalkFrames, LastFrame
    <2>7. WalkSites'
      BY <1>1, <2>1 DEF Around, WalkInv, WalkSites
    <2>8. QED
      BY <2>1, <2>2, <2>3, <2>4, <2>5, <2>6, <2>7 DEF WalkInLookup, WalkInv
  <1>4. QED
    BY <1>2, <1>3

\* The walk is right in every lookup, step by step.
LEMMA WalkStays == LookupSpec => []WalkInLookup
  <1>1. IInv /\ WalkInLookup /\ [LookupNext]_allVars => WalkInLookup'
    <2> SUFFICES ASSUME IInv, WalkInLookup, [LookupNext]_allVars PROVE WalkInLookup'
      OBVIOUS
    <2>1. list \in Int /\ src.files \in Int /\ (pc # "idle" => mode \in {"none", "table"})
      BY DEF WalkInLookup, IInv, ReaderTyped, IsSource, SearchInv, SearchTyped
    <2>2. CASE WalkStep
      BY <2>2, WalkGoesOn
    <2>3. CASE WalkBegins
      BY <2>3, WalkBeginsWell
    <2>4. CASE Answered
      <3>1. pc' = "idle" /\ list' = list
        BY <2>4 DEF Answered
      <3>2. CASE pc \in {"turned_down", "no_src_file"} /\ UNCHANGED walkVars
        BY <2>1, <3>1, <3>2, WalkUntouched
      <3>3. CASE pc = "walk" /\ Walk!End
        BY <2>1, <3>1, <3>3, WalkLeavesNothing DEF WalkInLookup
      <3>4. QED
        BY <2>4, <3>2, <3>3 DEF Answered
    <2>5. CASE ReadTable
      <3>1. mode \notin {"none", "table"}
        BY <2>5 DEF ReadTable, ReaderNext, NoTable, FindTable, OffsetBad, OffsetGood, HeaderBad, ReadParameters,
                    ReadDirectories, ReadFileFormats, ReadFile, FilesEnd, ReadSubprograms, HeaderEnds,
                    Execute, OpBad, AddRow, AddRowFails, AddEntryFails, DefineFile, DefineFileBad,
                    BlockFails, Deliver, Accept, Reject, AtOp
      <3>2. pc = "idle" /\ pc' = pc /\ list' = list /\ UNCHANGED walkVars
        BY <2>1, <2>5, <3>1 DEF ReadTable
      <3>3. QED
        BY <2>1, <3>2, WalkUntouched
    <2>6. CASE (\E p \in Ptrs : Ask(p)) \/ SearchRows \/ ReadFileList \/ TurnDown \/ NoSrcFile \/ CleanUp
      <3>1. pc # "walk" /\ pc' # "walk" /\ UNCHANGED walkVars
        BY <2>6 DEF Ask, SearchRows, Skip, Hit, Exhaust, ReadFails, ReadFileList, RowUsable, lookupVars,
                     TurnDown, NoSrcFile, CleanUp
      <3>2. list' \in Int
        BY <2>1, <2>6 DEF Ask, SearchRows, ReadFileList, TurnDown, NoSrcFile, CleanUp, Unread
      <3>3. QED
        BY <3>1, <3>2, WalkUntouched
    <2>7. CASE UNCHANGED allVars
      <3>1. UNCHANGED walkVars /\ list' = list /\ pc' = pc /\ rows' = rows /\ hit' = hit /\ mode' = mode /\ src' = src
        BY <2>7 DEF allVars, lookupVars, readerVars
      <3>2. FilenoOffs' = FilenoOffs
        BY <3>1 DEF FilenoOffs
      <3>3. RowIndex' = RowIndex
        BY <3>1, <3>2 DEF RowIndex
      <3>4. QED
        BY <2>1, <3>1, <3>2, <3>3, WalkUntouched
    <2>8. QED
      BY <2>2, <2>3, <2>4, <2>5, <2>6, <2>7 DEF LookupNext, Stopped
  <1>2. QED
    BY <1>1, WalkStarts, Inductive, PTL DEF LookupSpec

-----------------------------------------------------------------------------

\* No handle of a DIE is lost or given back twice.
THEOREM HandlesMatchRecursionCorrect == LookupSpec => []HandlesMatchRecursion
  <1>1. WalkInLookup => HandlesMatchRecursion
    <2> SUFFICES ASSUME WalkInLookup PROVE HandlesMatchRecursion
      OBVIOUS
    <2>1. CASE pc = "walk"
      <3>1. WalkShape /\ WalkHandles
        BY <2>1 DEF WalkInLookup, WalkInv
      <3>2. wpc = "done" => stack = <<>> /\ links = <<>> /\ attrs = {}
        BY <3>1 DEF WalkShape
      <3>3. QED
        BY <3>1, <3>2 DEF WalkHandles, Held, HandlesMatchRecursion, Walk!HandlesMatchRecursion, Walk!n
    <2>2. CASE pc # "walk"
      BY <2>2, CountNone DEF WalkInLookup, WalkRests, HandlesMatchRecursion, Walk!HandlesMatchRecursion, Walk!n
    <2>3. QED
      BY <2>1, <2>2
  <1>2. QED
    BY <1>1, WalkStays, PTL

\* Where functions nest, or in any case around the first one that is visited, all that can be are reported.
LEMMA ShownIsRight ==
  ASSUME WalkShape, WalkPath, WalkEnds, wpc = "done", ~ fault, NEW d \in 1 .. tree.n
  PROVE  Shown(d) <=> Walk!Reports(d) /\ (Walk!Nested \/ \E s \in 1 .. tree.n : Walk!FirstStop(s) /\ Walk!Encloses(d, s))
  <1>1. Walk!IsTree(tree) /\ stop \in BOOLEAN /\ stack = <<>>
    BY DEF WalkShape
  <1>2. CASE stop
    <2>1. PICK s \in 1 .. tree.n : Ended(s)
      BY <1>2 DEF WalkEnds
    <2>2. \A a : ~ In(stack, a)
      <3>1. Len(stack) = 0
        BY <1>1
      <3>2. QED
        BY <3>1 DEF In
    <2>3. Shown(d) <=> Walk!Reports(d) /\ Holds(tree, d, s)
      BY <2>1, <2>2 DEF Ended
    <2>4. Walk!FirstStop(s) /\ \A e : Walk!Encloses(d, e) <=> Holds(tree, d, e)
      BY <2>1 DEF Ended, Walk!Encloses, Holds
    <2>5. ASSUME NEW e \in 1 .. tree.n, Walk!FirstStop(e) PROVE e = s
      <3>1. CASE e # s
        <4>1. Earlier(tree, e, s) /\ Earlier(tree, s, e)
          BY <2>4, <2>5, <3>1 DEF Walk!FirstStop, Walk!n, Walk!Before, Walk!Encloses, Earlier, Holds
        <4>2. QED
          BY <1>1, <3>1, <4>1, OneEarlier
      <3>2. QED
        BY <3>1
    <2>6. ASSUME Walk!Nested, Walk!Reports(d) PROVE Holds(tree, d, s)
      <3>1. Walk!Stops(d) /\ Walk!Stops(s)
        BY <2>4, <2>6 DEF Walk!Reports, Walk!FirstStop
      <3>2. Holds(tree, d, s) \/ Holds(tree, s, d)
        BY <2>6, <3>1 DEF Walk!Nested, Walk!n, Walk!Encloses, Holds
      <3>3. d # s => Earlier(tree, s, d)
        BY <2>4, <3>1 DEF Walk!FirstStop, Walk!n, Walk!Before, Walk!Encloses, Earlier, Holds
      <3>4. d \in Nat /\ s \in Nat /\ tree.last[d] \in Nat /\ d <= tree.last[d]
        BY <1>1, DieFacts
      <3>5. QED
        BY <3>2, <3>3, <3>4 DEF Earlier, Holds
    <2>7. QED
      BY <2>3, <2>4, <2>5, <2>6
  <1>3. CASE ~ stop
    <2>1. frames = <<>> /\ NothingMissed
      BY <1>3 DEF WalkEnds
    <2>2. Len(frames) = 0
      BY <2>1
    <2>3. ~ Shown(d) /\ ~ Walk!Reports(d)
      BY <2>1, <2>2 DEF Shown, NothingMissed, Walk!Reports
    <2>4. QED
      BY <2>3
  <1>4. QED
    BY <1>1, <1>2, <1>3

\* The functions reported are those around the first one that holds the address.
THEOREM FramesAreEnclosingCorrect == LookupSpec => []FramesAreEnclosing
  <1>1. WalkInLookup => FramesAreEnclosing
    <2> SUFFICES ASSUME WalkInLookup PROVE FramesAreEnclosing
      OBVIOUS
    <2>1. CASE pc = "walk"
      <3>1. WalkShape /\ WalkPath /\ WalkEnds /\ WalkFrames
        BY <2>1 DEF WalkInLookup, WalkInv
      <3>2. \A k \in 1 .. Len(frames) - 1 :
              frames[k].die # frames[k + 1].die /\ Walk!Encloses(frames[k + 1].die, frames[k].die)
        BY <3>1 DEF WalkFrames, Walk!Encloses, Holds
      <3>3. (wpc = "done" /\ ~ fault) =>
              \A d \in 1 .. tree.n :
                (\E k \in 1 .. Len(frames) : frames[k].die = d)
                  <=> Walk!Reports(d) /\ (Walk!Nested \/ \E s \in 1 .. tree.n : Walk!FirstStop(s) /\ Walk!Encloses(d, s))
        BY <3>1, ShownIsRight DEF Shown
      <3>4. QED
        BY <3>2, <3>3 DEF FramesAreEnclosing, Walk!FramesAreEnclosing, Walk!n
    <2>2. CASE pc # "walk"
      <3>1. frames = <<>> /\ wpc = "idle"
        BY <2>2 DEF WalkInLookup, WalkRests
      <3>2. Len(frames) = 0 /\ 1 .. 0 - 1 = {}
        BY <3>1
      <3>3. QED
        BY <3>1, <3>2 DEF FramesAreEnclosing, Walk!FramesAreEnclosing
    <2>3. QED
      BY <2>1, <2>2
  <1>2. QED
    BY <1>1, WalkStays, PTL

\* The places and the real address in the frames.
LEMMA RealIsFirst ==
  ASSUME WalkShape, WalkFrames, WalkSites,
         \A d \in 1 .. tree.n, e \in 1 .. tree.n :
           (Walk!die[d].kind = "subprogram" /\ d # e /\ Walk!Encloses(e, d)) => ~ Walk!Stops(e),
         NEW k \in 1 .. Len(frames)
  PROVE  frames[k].real <=> k = 1
  <1>1. frames[k].real <=> InlinedBefore(tree, frames, k) = {}
    BY DEF WalkSites
  <1>2. CASE k = 1
    <2>1. InlinedBefore(tree, frames, 1) = {}
      BY DEF InlinedBefore
    <2>2. QED
      BY <1>1, <1>2, <2>1
  <1>3. CASE k # 1
    <2>1. frames \in Seq(Frame(tree.n)) /\ Len(frames) \in Nat
      BY DEF WalkFrames
    <2>2. PICK j \in 1 .. Len(frames) - 1 : k = j + 1
      <3>1. k - 1 \in 1 .. Len(frames) - 1 /\ k = (k - 1) + 1
        BY <1>3, <2>1
      <3>2. QED
        BY <3>1
    <2>3. j \in 1 .. Len(frames) /\ j \in 1 .. k - 1
      BY <2>1, <2>2
    <2> DEFINE d == frames[j].die
               e == frames[k].die
    <2>4. d # e /\ Walk!Encloses(e, d) /\ Walk!Reports(d) /\ Walk!Reports(e)
      BY <2>2, <2>3 DEF WalkFrames, Walk!Encloses, Holds
    <2>5. d \in 1 .. tree.n /\ e \in 1 .. tree.n
      <3>1. frames[j] \in Frame(tree.n) /\ frames[k] \in Frame(tree.n)
        BY <2>1, <2>3
      <3>2. QED
        BY <3>1 DEF Frame
    <2> HIDE DEF d, e
    <2>6. Walk!Stops(e) /\ Walk!Stops(d)
      BY <2>4 DEF Walk!Reports
    <2>7. tree.die[d].kind # "subprogram"
      BY <2>4, <2>5, <2>6 DEF Walk!die
    <2>8. tree.die[d] \in Walk!DieAttrs
      BY <2>5 DEF WalkShape, Walk!IsTree
    <2>9. tree.die[d].kind \in {"subprogram", "inlined", "other"}
      BY <2>8 DEF Walk!DieAttrs
    <2>10. tree.die[d].kind = "inlined"
      BY <2>6, <2>7, <2>9 DEF Walk!Stops, Walk!die
    <2>11. j \in InlinedBefore(tree, frames, k)
      BY <2>3, <2>10 DEF InlinedBefore, d
    <2>12. QED
      BY <1>1, <1>3, <2>11
  <1>4. QED
    BY <1>2, <1>3

\* The walk has its types.
LEMMA WalkTyped ==
  ASSUME WalkInLookup
  PROVE  Walk!TypeOK
  <1>1. list \in Int
    BY DEF WalkInLookup
  <1>2. CASE pc # "walk"
    <2>1. WalkRests
      BY <1>2 DEF WalkInLookup
    <2>2. live \in [1 .. tree.n -> Nat] /\ \A D : <<>> \in Seq(D)
      BY <2>1 DEF WalkRests
    <2>3. tree.n \in Nat /\ 0 \in 0 .. tree.n
      BY <2>1 DEF WalkRests, Walk!IsTree
    <2>4. QED
      BY <2>1, <2>2, <2>3 DEF WalkRests, Walk!TypeOK, Walk!n, Walk!RowSite
  <1>3. CASE pc = "walk"
    <2>1. WalkShape /\ WalkHandles /\ WalkFrames /\ WalkSites
      BY <1>3 DEF WalkInLookup, WalkInv
    <2>2. live \in [1 .. tree.n -> Nat]
      <3>1. ASSUME NEW d \in 1 .. tree.n PROVE live[d] \in Nat
        <4>1. stack \in Seq(1 .. tree.n) /\ links \in Seq(1 .. tree.n)
          BY <2>1 DEF WalkShape
        <4>2. Walk!Count(stack, d) \in Nat
          BY <4>1, CountTyped
        <4>3. Held(links, d) \in Nat
          <5>1. CASE links = <<>>
            BY <5>1 DEF Held
          <5>2. CASE links # <<>>
            <6>1. Tail(links) \in Seq(1 .. tree.n)
              BY <4>1, <5>2
            <6>2. QED
              BY <5>2, <6>1, CountTyped DEF Held
          <5>3. QED
            BY <5>1, <5>2
        <4>4. QED
          BY <2>1, <4>2, <4>3 DEF WalkHandles
      <3>2. QED
        BY <2>1, <3>1 DEF WalkHandles
    <2>3. IF site = 0 THEN fileno = RowIndex ELSE fileno \in 0 .. list - 1
      <3> DEFINE inl == InlinedBefore(tree, frames, Len(frames) + 1)
      <3>1. Placed(tree, FilenoOffs, RowIndex, frames, Len(frames) + 1, site, fileno)
        BY <2>1 DEF WalkSites
      <3>2. CASE inl = {}
        BY <3>1, <3>2 DEF Placed
      <3>3. CASE inl # {}
        <4>1. PICK j \in inl : site = frames[j].die /\ fileno = tree.die[frames[j].die].call + FilenoOffs
          BY <3>1, <3>3 DEF Placed
        <4>2. frames \in Seq(Frame(tree.n)) /\ Len(frames) \in Nat
          BY <2>1 DEF WalkFrames
        <4>3. j \in 1 .. Len(frames) /\ tree.die[frames[j].die].kind = "inlined"
          BY <4>2 DEF InlinedBefore
        <4>4. frames[j] \in Frame(tree.n)
          BY <4>2, <4>3
        <4>5. frames[j].die \in 1 .. tree.n /\ Walk!Reports(frames[j].die) /\ Inlined(frames[j].die)
          BY <2>1, <4>3, <4>4 DEF Frame, WalkFrames, Inlined, Walk!die
        <4>6. fileno \in 0 .. list - 1
          BY <1>1, <2>1, <4>1, <4>5, CallTyped
        <4>7. site # 0
          BY <4>1, <4>5
        <4>8. QED
          BY <4>6, <4>7
      <3>4. QED
        BY <3>2, <3>3
    <2>4. wpc \in {"idle", "descend", "visit", "call", "name", "unlink", "done"}
      BY <2>1 DEF WalkShape, AtTop
    <2>5. QED
      BY <2>1, <2>2, <2>3, <2>4 DEF WalkShape, WalkSites, Walk!TypeOK, Walk!n, Walk!RowSite
  <1>4. QED
    BY <1>2, <1>3

\* Each function is reported where the one before it was called.
THEOREM LocationsChainCorrect == LookupSpec => []LocationsChain
  <1>1. WalkInLookup => LocationsChain
    <2> SUFFICES ASSUME WalkInLookup PROVE LocationsChain
      OBVIOUS
    <2>1. CASE pc = "walk"
      <3>1. WalkShape /\ WalkFrames /\ WalkSites
        BY <2>1 DEF WalkInLookup, WalkInv
      <3>2. ASSUME NEW k \in 1 .. Len(frames)
            PROVE  LET inl == {j \in 1 .. k - 1 : Walk!die[frames[j].die].kind = "inlined"}
                   IN IF inl = {}
                        THEN frames[k].site = 0 /\ frames[k].file = RowIndex
                        ELSE \E j \in inl :
                               /\ \A l \in inl : l <= j
                               /\ frames[k].site = frames[j].die
                               /\ frames[k].file = Walk!die[frames[j].die].call + FilenoOffs
        <4>1. Placed(tree, FilenoOffs, RowIndex, frames, k, frames[k].site, frames[k].file)
          BY <3>1 DEF WalkSites
        <4>2. QED
          BY <4>1 DEF Placed, InlinedBefore, Walk!die
      <3>3. (\A d \in 1 .. tree.n, e \in 1 .. tree.n :
               (Walk!die[d].kind = "subprogram" /\ d # e /\ Walk!Encloses(e, d)) => ~ Walk!Stops(e)) =>
                 \A k \in 1 .. Len(frames) : frames[k].real <=> k = 1
        BY <3>1, RealIsFirst
      <3>4. QED
        BY <3>2, <3>3, WalkTyped DEF LocationsChain, Walk!LocationsChain, Walk!n, Walk!RowSite
    <2>2. CASE pc # "walk"
      <3>1. frames = <<>>
        BY <2>2 DEF WalkInLookup, WalkRests
      <3>2. Len(frames) = 0 /\ 1 .. 0 = {}
        BY <3>1
      <3>3. QED
        BY <3>2, WalkTyped DEF LocationsChain, Walk!LocationsChain
    <2>3. QED
      BY <2>1, <2>2
  <1>2. QED
    BY <1>1, WalkStays, PTL

-----------------------------------------------------------------------------
(* The answers.                                                            *)

\* The walk begins with the file of the row that was hit, and goes on to those
\* of the calls with a place of their own.
LEMMA SiteOfRow ==
  ASSUME WalkShape, WalkFrames, WalkSites, site = 0
  PROVE  fileno = RowIndex
  <1> DEFINE inl == InlinedBefore(tree, frames, Len(frames) + 1)
  <1>1. Placed(tree, FilenoOffs, RowIndex, frames, Len(frames) + 1, site, fileno)
    BY DEF WalkSites
  <1>2. ASSUME NEW j \in inl PROVE frames[j].die # 0
    <2>1. frames \in Seq(Frame(tree.n)) /\ j \in 1 .. Len(frames) + 1 - 1
      BY DEF WalkFrames, InlinedBefore
    <2>2. j \in 1 .. Len(frames)
      BY <2>1
    <2>3. frames[j] \in Frame(tree.n)
      BY <2>1, <2>2
    <2>4. frames[j].die \in 1 .. tree.n
      BY <2>3 DEF Frame
    <2>5. QED
      BY <2>4
  <1>3. inl = {}
    <2>1. SUFFICES ASSUME inl # {} PROVE FALSE
      OBVIOUS
    <2>2. PICK j \in inl : site = frames[j].die
      BY <1>1, <2>1 DEF Placed
    <2>3. QED
      BY <1>2, <2>2
  <1>4. QED
    BY <1>1, <1>3 DEF Placed

\* What the unit is for the modules that take it for a value.
UnitOf == [low |-> 0, high |-> 0, ranges |-> <<>>, v5 |-> src.header.v5,
           table |-> IF mode = "table" THEN "rows" ELSE "none",
           rows |-> MeantRows, fileCount |-> src.files, frames |-> <<>>]

\* The value that the other modules take for a unit's answer is what the row
\* that was found says; without one there is none.
LEMMA ValueIsRow ==
  ASSUME IInv, AnswerInv, RowsInv, PlainProgram, mode \in {"none", "table"}
  PROVE  LET loc == Info!LocationOf(UnitOf, ptr)
         IN /\ HitHas => /\ loc = [file |-> rows[hit].file, line |-> rows[hit].line]
                         /\ Info!FileIndex(UnitOf, loc.file) = rows[hit].file + FilenoOffs
            /\ (\A r \in 1 .. Len(rows) : ~ Brackets(rows, r, ptr)) => loc = Info!NoLocation
  <1> DEFINE loc == Info!LocationOf(UnitOf, ptr)
  <1>1. rows = IF mode = "table" THEN ctx.logicals ELSE <<>>
    BY DEF AnswerInv
  <1>2. mode = "table" => rows = MeantRows
    BY <1>1 DEF RowsInv
  <1>3. /\ UnitOf.rows = MeantRows /\ UnitOf.v5 = src.header.v5
        /\ UnitOf.table = IF mode = "table" THEN "rows" ELSE "none"
    BY DEF UnitOf
  <1>4. loc = IF mode # "table" \/ RowFor(MeantRows, ptr) = 0 THEN Info!NoLocation
              ELSE [file |-> MeantRows[RowFor(MeantRows, ptr)].file, line |-> MeantRows[RowFor(MeantRows, ptr)].line]
    BY <1>3, SameRowFor DEF Info!LocationOf
  <1>5. Len(rows) \in Nat
    BY DEF IInv, SearchInv, SearchTyped
  <1>6. ASSUME HitHas
        PROVE  /\ loc = [file |-> rows[hit].file, line |-> rows[hit].line]
               /\ Info!FileIndex(UnitOf, loc.file) = rows[hit].file + FilenoOffs
    <2>1. hit \in 1 .. Len(rows) /\ RowFor(rows, ptr) = hit
      BY <1>5, <1>6, RowForIs DEF HitHas
    <2>2. mode = "table"
      <3>1. mode # "table" => Len(rows) = 0
        BY <1>1
      <3>2. QED
        BY <2>1, <3>1
    <2>3. rows = MeantRows /\ hit # 0
      BY <1>2, <2>1, <2>2
    <2>4. loc = [file |-> rows[hit].file, line |-> rows[hit].line]
      BY <1>4, <2>1, <2>2, <2>3
    <2>5. Info!FileIndex(UnitOf, loc.file) = loc.file + IF src.header.v5 THEN 0 ELSE -1
      BY <1>3 DEF Info!FileIndex
    <2>6. FilenoOffs = IF src.header.v5 THEN 0 ELSE -1
      BY <2>2 DEF FilenoOffs
    <2>7. loc.file = rows[hit].file
      BY <2>4
    <2>8. QED
      BY <2>4, <2>5, <2>6, <2>7
  <1>7. ASSUME \A r \in 1 .. Len(rows) : ~ Brackets(rows, r, ptr)
        PROVE  loc = Info!NoLocation
    <2>1. RowFor(rows, ptr) = 0
      BY <1>7 DEF RowFor
    <2>2. QED
      BY <1>2, <1>4, <2>1
  <1>8. QED
    BY <1>6, <1>7

\* From the bytes of the line table to the callback: an address is answered with
\* the row that DWARF means for it and the file that the list has at that row's
\* number, or it is turned down because there is none to report, there are no
\* files, or a read has failed.
THEOREM AnswersCorrect == LookupSpec => []AnswersAsMeant
  <1>1. IInv /\ AnswerInv /\ RowsInv /\ WalkInLookup => AnswersAsMeant
    <2> SUFFICES ASSUME IInv, AnswerInv, RowsInv, WalkInLookup, PlainProgram
                 PROVE  LET loc == Info!LocationOf(UnitOf, ptr)
                            index == Info!FileIndex(UnitOf, loc.file)
                        IN /\ pc = "walk" =>
                                /\ Info!Usable(UnitOf, loc) /\ Info!FileListed(UnitOf, loc)
                                /\ site = 0 => fileno = index
                                /\ rows[hit].line = loc.line
                           /\ pc = "no_src_file" => Info!Usable(UnitOf, loc) /\ ~Info!FileListed(UnitOf, loc)
                           /\ pc = "turned_down" =>
                                ~Info!Usable(UnitOf, loc) \/ list = 0 \/ (hit = 0 /\ c <= Len(rows))
      BY DEF AnswersAsMeant, UnitOf
    <2> DEFINE loc == Info!LocationOf(UnitOf, ptr)
               index == Info!FileIndex(UnitOf, loc.file)
    <2>1. pc \in {"walk", "no_src_file", "turned_down"} => mode \in {"none", "table"}
      BY DEF IInv, SearchInv, SearchTyped
    <2>2. ASSUME pc \in {"walk", "no_src_file", "turned_down"}, HitHas
          PROVE  /\ loc.line = rows[hit].line /\ index = rows[hit].file + FilenoOffs
                 /\ (Info!Usable(UnitOf, loc) <=> HitUsable)
                 /\ (Info!FileListed(UnitOf, loc) <=> index <= src.files)
      <3>1. /\ loc = [file |-> rows[hit].file, line |-> rows[hit].line]
            /\ index = rows[hit].file + FilenoOffs
        BY <2>1, <2>2, ValueIsRow
      <3>2. loc.line = rows[hit].line
        BY <3>1
      <3>3. UnitOf.fileCount = src.files
        BY DEF UnitOf
      <3>4. QED
        BY <3>1, <3>2, <3>3 DEF Info!Usable, Info!FileListed, HitUsable
    <2>3. pc \in {"walk", "no_src_file"} => HitHas /\ HitUsable /\ list = src.files
      BY DEF AnswerInv, Unread
    <2>4. ASSUME pc = "walk"
          PROVE  /\ Info!Usable(UnitOf, loc) /\ Info!FileListed(UnitOf, loc)
                 /\ site = 0 => fileno = index
                 /\ rows[hit].line = loc.line
      <3>1. RowIndex = rows[hit].file + FilenoOffs
        BY <2>4 DEF RowIndex
      <3>2. site = 0 => fileno = RowIndex
        BY <2>4, SiteOfRow DEF WalkInLookup, WalkInv
      <3>3. rows[hit].file + FilenoOffs <= list
        BY <2>4 DEF AnswerInv
      <3>4. QED
        BY <2>2, <2>3, <2>4, <3>1, <3>2, <3>3
    <2>5. ASSUME pc = "no_src_file" PROVE Info!Usable(UnitOf, loc) /\ ~Info!FileListed(UnitOf, loc)
      <3>1. rows[hit].file + FilenoOffs > list
        BY <2>5 DEF AnswerInv
      <3>2. rows[hit].file + FilenoOffs \in Int /\ list \in Int
        <4>1. rows \in Seq(Row) /\ hit \in 1 .. Len(rows)
          BY <2>3, <2>5 DEF IInv, SearchInv, SearchTyped, HitHas
        <4>2. rows[hit] \in Row
          BY <4>1
        <4>3. rows[hit].file \in Nat
          BY <4>2 DEF Row
        <4>4. QED
          BY <4>3 DEF FilenoOffs, WalkInLookup
      <3>3. QED
        BY <2>2, <2>3, <2>5, <3>1, <3>2
    <2>6. ASSUME pc = "turned_down"
          PROVE  ~Info!Usable(UnitOf, loc) \/ list = 0 \/ (hit = 0 /\ c <= Len(rows))
      <3>1. CASE HitHas /\ (~ HitUsable \/ list = 0)
        BY <2>2, <2>6, <3>1
      <3>2. CASE \A r \in 1 .. Len(rows) : ~ Brackets(rows, r, ptr)
        <4>1. loc = Info!NoLocation
          BY <2>1, <2>6, <3>2, ValueIsRow
        <4>2. loc.line = 0
          BY <4>1 DEF Info!NoLocation
        <4>3. QED
          BY <4>2 DEF Info!Usable
      <3>3. QED
        BY <2>6, <3>1, <3>2 DEF AnswerInv
    <2>7. QED
      BY <2>4, <2>5, <2>6
  <1>2. QED
    BY <1>1, Inductive, AnswerHolds, RowsHold, WalkStays, PTL

=============================================================================
