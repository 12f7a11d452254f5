------------------------- MODULE DwarfMemoryProofs -------------------------
(***************************************************************************)
(* A Dwarf_Debug implements DebugMemory, for every set of addresses, every *)
(* hash function and every list of table sizes; and its list of harmless   *)
(* errors has the newest of them, whatever sizes it is given.              *)
(***************************************************************************)
EXTENDS DwarfMemory, TLAPS, SequenceTheorems, WellFoundedInduction

Sizes_ == 1 .. Len(Primes)

\* A table of one of the sizes.
IsTable(t) ==
    /\ t = [index |-> t.index, count |-> t.count, slot |-> t.slot]
    /\ t.index \in Sizes_
    /\ t.slot \in [0 .. Primes[t.index] - 1 -> Seq(Keys)]

\* The size of a table is positive.
LEMMA PrimePositive == ASSUME NEW i \in Sizes_ PROVE Primes[i] \in Nat /\ Primes[i] > 0
BY PrimesAssumption DEF Sizes_

\* A position lies in the table.
LEMMA PositionInTable ==
    ASSUME NEW t, IsTable(t), NEW k \in Keys
    PROVE  Position(t, k) \in DOMAIN t.slot /\ Position(t, k) \in Nat
<1>1. Primes[t.index] \in Nat /\ Primes[t.index] > 0
  BY PrimePositive DEF IsTable
<1>2. HashOf[k] \in Nat
  BY HashAssumption
<1>3. HashOf[k] % Primes[t.index] \in 0 .. Primes[t.index] - 1
  BY <1>1, <1>2
<1> QED
  BY <1>1, <1>3 DEF Position, IsTable

\* An entry at the place where a table has it.
LEMMA KeysOfMember ==
    ASSUME NEW t, IsTable(t), NEW k
    PROVE  k \in KeysOf(t) <=>
             \E h \in DOMAIN t.slot : \E i \in DOMAIN t.slot[h] : t.slot[h][i] = k
BY DEF KeysOf

\* A search finds exactly the keys of a table whose keys are placed.
LEMMA HasKeyIsMember ==
    ASSUME NEW t, IsTable(t), Placed(t), NEW k \in Keys
    PROVE  HasKey(t, k) <=> k \in KeysOf(t)
<1>1. Position(t, k) \in DOMAIN t.slot
  BY PositionInTable
<1>2. ASSUME k \in KeysOf(t) PROVE HasKey(t, k)
  <2>0. PICK h \in DOMAIN t.slot : \E i \in DOMAIN t.slot[h] : t.slot[h][i] = k
    BY <1>2, KeysOfMember
  <2>1. PICK i \in DOMAIN t.slot[h] : t.slot[h][i] = k
    BY <2>0
  <2>2. Position(t, k) = h
    BY <2>1 DEF Placed
  <2> QED
    BY <2>1, <2>2 DEF HasKey, Chain
<1>3. ASSUME HasKey(t, k) PROVE k \in KeysOf(t)
  BY <1>1, <1>3, KeysOfMember DEF HasKey, Chain
<1> QED
  BY <1>2, <1>3

\* The entries of two sequences one after the other.
LEMMA JoinedEntries ==
    ASSUME NEW s \in Seq(Keys), NEW r \in Seq(Keys)
    PROVE  /\ s \o r \in Seq(Keys)
           /\ Len(s \o r) = Len(s) + Len(r)
           /\ \A j \in 1 .. Len(s) : (s \o r)[j] = s[j]
           /\ \A j \in 1 .. Len(r) : (s \o r)[Len(s) + j] = r[j]
OBVIOUS

\* A sequence of n entries of which the first m come from s.
LEMMA JoinedEntry ==
    ASSUME NEW s \in Seq(Keys), NEW r \in Seq(Keys),
           NEW j \in 1 .. Len(s) + Len(r)
    PROVE  (s \o r)[j] = IF j <= Len(s) THEN s[j] ELSE r[j - Len(s)]
<1>1. CASE j <= Len(s)
  BY <1>1, JoinedEntries
<1>2. CASE j > Len(s)
  <2>1. j - Len(s) \in 1 .. Len(r) /\ Len(s) + (j - Len(s)) = j
    BY <1>2
  <2>2. (s \o r)[Len(s) + (j - Len(s))] = r[j - Len(s)]
    BY <2>1, JoinedEntries
  <2> QED
    BY <1>2, <2>1, <2>2
<1> QED
  BY <1>1, <1>2

\* A new key behind the head of a chain leaves every other entry in it.
LEMMA ChainedEntries ==
    ASSUME NEW c \in Seq(Keys), NEW k \in Keys
    PROVE  /\ Chained(c, k) \in Seq(Keys)
           /\ Len(Chained(c, k)) = Len(c) + 1
           /\ \A j \in 1 .. Len(c) + 1 : Chained(c, k)[j] =
                IF c = <<>> THEN k
                ELSE IF j = 1 THEN c[1] ELSE IF j = 2 THEN k ELSE c[j - 1]
<1>1. CASE c = <<>>
  BY <1>1 DEF Chained
<1>2. CASE c # <<>>
  <2>1. <<Head(c), k>> \in Seq(Keys) /\ Tail(c) \in Seq(Keys)
    BY <1>2
  <2>2. Len(<<Head(c), k>>) = 2 /\ <<Head(c), k>>[1] = c[1] /\ <<Head(c), k>>[2] = k
    BY <1>2
  <2>3. Len(Tail(c)) = Len(c) - 1 /\ \A j \in 1 .. Len(c) - 1 : Tail(c)[j] = c[j + 1]
    BY <1>2
  <2>4. Chained(c, k) = <<Head(c), k>> \o Tail(c)
    BY <1>2 DEF Chained
  <2>5. ASSUME NEW s \in Seq(Keys), NEW r \in Seq(Keys),
               Len(s) = 2, s[1] = c[1], s[2] = k,
               Len(r) = Len(c) - 1, \A j \in 1 .. Len(c) - 1 : r[j] = c[j + 1]
        PROVE  /\ s \o r \in Seq(Keys)
               /\ Len(s \o r) = Len(c) + 1
               /\ \A j \in 1 .. Len(c) + 1 :
                    (s \o r)[j] = IF j = 1 THEN c[1] ELSE IF j = 2 THEN k ELSE c[j - 1]
    <3>1. Len(c) \in Nat /\ Len(c) > 0
      BY <1>2
    <3>2. s \o r \in Seq(Keys) /\ Len(s \o r) = Len(c) + 1
      <4>1. s \o r \in Seq(Keys) /\ Len(s \o r) = Len(s) + Len(r)
        BY JoinedEntries
      <4>2. Len(s) = 2 /\ Len(r) = Len(c) - 1
        BY <2>5
      <4> QED
        BY <3>1, <4>1, <4>2
    <3>3. ASSUME NEW j \in 1 .. Len(c) + 1
          PROVE  (s \o r)[j] = IF j = 1 THEN c[1] ELSE IF j = 2 THEN k ELSE c[j - 1]
      <4>0. Len(s) = 2 /\ Len(s) + Len(r) = Len(c) + 1
        BY <2>5, <3>1
      <4>a. j \in 1 .. Len(s) + Len(r)
        BY <4>0
      <4>1. (s \o r)[j] = IF j <= 2 THEN s[j] ELSE r[j - 2]
        BY <4>0, <4>a, JoinedEntry
      <4>2. j > 2 => j - 2 \in 1 .. Len(c) - 1 /\ (j - 2) + 1 = j - 1
        BY <3>1
      <4>3. j > 2 => r[j - 2] = c[j - 1]
        BY <2>5, <4>2
      <4> QED
        BY <2>5, <3>1, <4>1, <4>3
    <3> QED
      BY <3>2, <3>3
  <2>6. /\ Chained(c, k) \in Seq(Keys)
        /\ Len(Chained(c, k)) = Len(c) + 1
        /\ \A j \in 1 .. Len(c) + 1 :
             Chained(c, k)[j] = IF j = 1 THEN c[1] ELSE IF j = 2 THEN k ELSE c[j - 1]
    <3>1. \A s \in Seq(Keys), r \in Seq(Keys) :
            /\ Len(s) = 2 /\ s[1] = c[1] /\ s[2] = k
            /\ Len(r) = Len(c) - 1
            /\ \A j \in 1 .. Len(c) - 1 : r[j] = c[j + 1]
            => /\ s \o r \in Seq(Keys)
               /\ Len(s \o r) = Len(c) + 1
               /\ \A j \in 1 .. Len(c) + 1 :
                    (s \o r)[j] = IF j = 1 THEN c[1] ELSE IF j = 2 THEN k ELSE c[j - 1]
      BY <2>5, Zenon
    <3>2. /\ <<Head(c), k>> \o Tail(c) \in Seq(Keys)
          /\ Len(<<Head(c), k>> \o Tail(c)) = Len(c) + 1
          /\ \A j \in 1 .. Len(c) + 1 : (<<Head(c), k>> \o Tail(c))[j] =
               IF j = 1 THEN c[1] ELSE IF j = 2 THEN k ELSE c[j - 1]
      BY <2>1, <2>2, <2>3, <3>1
    <3> QED
      BY <2>4, <3>2, Zenon
  <2> QED
    BY <1>2, <2>6
<1> QED
  BY <1>1, <1>2

\* A chain with one entry taken out.
LEMMA RemovedEntries ==
    ASSUME NEW c \in Seq(Keys), NEW i \in DOMAIN c
    PROVE  /\ RemoveAt(c, i) \in Seq(Keys)
           /\ Len(RemoveAt(c, i)) = Len(c) - 1
           /\ \A j \in 1 .. Len(c) - 1 :
                RemoveAt(c, i)[j] = IF j < i THEN c[j] ELSE c[j + 1]
<1>1. i \in 1 .. Len(c) /\ Len(c) \in Nat
  OBVIOUS
<1>2. SubSeq(c, 1, i - 1) \in Seq(Keys) /\ SubSeq(c, i + 1, Len(c)) \in Seq(Keys)
  BY <1>1
<1>3. Len(SubSeq(c, 1, i - 1)) = i - 1 /\ \A j \in 1 .. i - 1 : SubSeq(c, 1, i - 1)[j] = c[j]
  BY <1>1
<1>4. /\ Len(SubSeq(c, i + 1, Len(c))) = Len(c) - i
      /\ \A j \in 1 .. Len(c) - i : SubSeq(c, i + 1, Len(c))[j] = c[i + j]
  BY <1>1
<1>5. ASSUME NEW s \in Seq(Keys), NEW r \in Seq(Keys),
             Len(s) = i - 1, \A j \in 1 .. i - 1 : s[j] = c[j],
             Len(r) = Len(c) - i, \A j \in 1 .. Len(c) - i : r[j] = c[i + j]
      PROVE  /\ s \o r \in Seq(Keys)
             /\ Len(s \o r) = Len(c) - 1
             /\ \A j \in 1 .. Len(c) - 1 :
                  (s \o r)[j] = IF j < i THEN c[j] ELSE c[j + 1]
  <2>1. s \o r \in Seq(Keys) /\ Len(s \o r) = Len(c) - 1
    BY <1>1, <1>5, JoinedEntries
  <2>2. ASSUME NEW j \in 1 .. Len(c) - 1
        PROVE  (s \o r)[j] = IF j < i THEN c[j] ELSE c[j + 1]
    <3>1. (s \o r)[j] = IF j <= i - 1 THEN s[j] ELSE r[j - (i - 1)]
      BY <1>1, <1>5, JoinedEntry
    <3>2. j >= i => j - (i - 1) \in 1 .. Len(c) - i /\ i + (j - (i - 1)) = j + 1
      BY <1>1
    <3>3. j >= i => r[j - (i - 1)] = c[j + 1]
      BY <1>5, <3>2
    <3>4. j < i => s[j] = c[j] /\ j <= i - 1
      BY <1>1, <1>5
    <3> QED
      BY <1>1, <3>1, <3>3, <3>4
  <2> QED
    BY <2>1, <2>2
<1> QED
  BY <1>2, <1>3, <1>4, <1>5 DEF RemoveAt

\* Replacing the chain of a key leaves the other chains and every position.
LEMMA ReplacedChain ==
    ASSUME NEW t, IsTable(t), NEW p \in DOMAIN t.slot, NEW c \in Seq(Keys), NEW n
    PROVE  /\ IsTable(WithChain(t, p, c, n)) /\ WithChain(t, p, c, n).index = t.index
           /\ DOMAIN WithChain(t, p, c, n).slot = DOMAIN t.slot
           /\ WithChain(t, p, c, n).slot[p] = c
           /\ \A h \in DOMAIN t.slot : h # p => WithChain(t, p, c, n).slot[h] = t.slot[h]
           /\ \A x \in Keys : Position(WithChain(t, p, c, n), x) = Position(t, x)
<1> DEFINE u == WithChain(t, p, c, n)
<1>2. t.slot \in [0 .. Primes[t.index] - 1 -> Seq(Keys)]
  BY DEF IsTable
<1>3. u = [index |-> t.index, count |-> n, slot |-> [t.slot EXCEPT ![p] = c]]
  BY DEF WithChain
<1>4. u.index = t.index /\ u.count = n /\ u.slot = [t.slot EXCEPT ![p] = c]
  BY <1>3
<1>5. IsTable(u)
  BY <1>2, <1>3, <1>4 DEF IsTable
<1>6. \A x \in Keys : Position(u, x) = Position(t, x)
  BY <1>4 DEF Position
<1> QED
  BY <1>2, <1>4, <1>5, <1>6

\* Entering a key adds it to the keys of a table and to nothing else.
LEMMA PutKeys ==
    ASSUME NEW t, IsTable(t), Placed(t), NEW k \in Keys, k \notin KeysOf(t)
    PROVE  /\ IsTable(Put(t, k)) /\ Put(t, k).index = t.index
           /\ Placed(Put(t, k))
           /\ KeysOf(Put(t, k)) = KeysOf(t) \cup {k}
<1> DEFINE p == Position(t, k)
           c == t.slot[p]
           u == Put(t, k)
<1>1. p \in DOMAIN t.slot
  BY PositionInTable
<1>2. c \in Seq(Keys)
  BY <1>1 DEF IsTable
<1>3. /\ Chained(c, k) \in Seq(Keys)
      /\ Len(Chained(c, k)) = Len(c) + 1
      /\ \A j \in 1 .. Len(c) + 1 : Chained(c, k)[j] =
           IF c = <<>> THEN k
           ELSE IF j = 1 THEN c[1] ELSE IF j = 2 THEN k ELSE c[j - 1]
  BY <1>2, ChainedEntries
<1>4. u = WithChain(t, p, Chained(c, k), t.count + 1)
  BY DEF Put, Chain
<1>5. /\ IsTable(u) /\ u.index = t.index
      /\ DOMAIN u.slot = DOMAIN t.slot
      /\ u.slot[p] = Chained(c, k)
      /\ \A h \in DOMAIN t.slot : h # p => u.slot[h] = t.slot[h]
      /\ \A x \in Keys : Position(u, x) = Position(t, x)
  BY <1>1, <1>3, <1>4, ReplacedChain
<1>6. \A h \in DOMAIN t.slot : t.slot[h] \in Seq(Keys)
  BY DEF IsTable
<1>7. \A i \in DOMAIN c : c[i] # k /\ c[i] \in Keys
  BY <1>1, <1>2, KeysOfMember
\* Where the entries of the longer chain come from.
<1>8. \A j \in 1 .. Len(c) + 1 :
        \/ Chained(c, k)[j] = k
        \/ j = 1 /\ j \in DOMAIN c /\ Chained(c, k)[j] = c[j]
        \/ j > 2 /\ j - 1 \in DOMAIN c /\ Chained(c, k)[j] = c[j - 1]
  BY <1>2, <1>3
<1>9. \A i \in DOMAIN c : \E j \in 1 .. Len(c) + 1 : Chained(c, k)[j] = c[i]
  <2> TAKE i \in DOMAIN c
  <2>1. i \in 1 .. Len(c) /\ c # <<>>
    BY <1>2
  <2>2. CASE i = 1
    BY <1>3, <2>1, <2>2
  <2>3. CASE i > 1
    <3>1. i + 1 \in 1 .. Len(c) + 1 /\ i + 1 # 1 /\ i + 1 # 2 /\ (i + 1) - 1 = i
      BY <2>1, <2>3
    <3> QED
      BY <1>3, <2>1, <3>1
  <2> QED
    BY <2>1, <2>2, <2>3
<1>10. \E j \in 1 .. Len(c) + 1 : Chained(c, k)[j] = k
  <2>1. CASE c = <<>>
    BY <1>2, <1>3, <2>1
  <2>2. CASE c # <<>>
    <3>1. 2 \in 1 .. Len(c) + 1
      BY <1>2, <2>2
    <3> QED
      BY <1>3, <2>2, <3>1
  <2> QED
    BY <2>1, <2>2
<1>11. DOMAIN Chained(c, k) = 1 .. Len(c) + 1
  BY <1>2, <1>3
<1>12. KeysOf(u) = KeysOf(t) \cup {k}
  <2>1. ASSUME NEW x \in KeysOf(u) PROVE x \in KeysOf(t) \cup {k}
    <3>1. PICK h \in DOMAIN t.slot : \E j \in DOMAIN u.slot[h] : u.slot[h][j] = x
      BY <1>5, <2>1, KeysOfMember
    <3>2. PICK j \in DOMAIN u.slot[h] : u.slot[h][j] = x
      BY <3>1
    <3>3. CASE h = p
      <4>1. x = k \/ \E i \in DOMAIN c : x = c[i]
        BY <1>5, <1>8, <1>11, <3>2, <3>3
      <4> QED
        BY <1>1, <4>1, KeysOfMember
    <3>4. CASE h # p
      BY <1>5, <3>2, <3>4, KeysOfMember
    <3> QED
      BY <3>3, <3>4
  <2>2. ASSUME NEW x \in KeysOf(t) PROVE x \in KeysOf(u)
    <3>1. PICK h \in DOMAIN t.slot : \E i \in DOMAIN t.slot[h] : t.slot[h][i] = x
      BY <2>2, KeysOfMember
    <3>2. CASE h = p
      <4>1. \E j \in DOMAIN Chained(c, k) : Chained(c, k)[j] = x
        BY <1>9, <1>11, <3>1, <3>2
      <4> QED
        BY <1>1, <1>5, <4>1, KeysOfMember
    <3>3. CASE h # p
      BY <1>5, <3>1, <3>3, KeysOfMember
    <3> QED
      BY <3>2, <3>3
  <2>3. k \in KeysOf(u)
    BY <1>1, <1>5, <1>10, <1>11, KeysOfMember
  <2> QED
    BY <2>1, <2>2, <2>3
<1>13. Placed(u)
  <2> SUFFICES ASSUME NEW h \in DOMAIN t.slot, NEW i \in DOMAIN u.slot[h]
               PROVE  /\ Position(u, u.slot[h][i]) = h
                      /\ \A j \in DOMAIN u.slot[h] : u.slot[h][j] = u.slot[h][i] => j = i
    BY <1>5 DEF Placed
  <2>1. CASE h # p
    BY <1>5, <1>6, <2>1 DEF Placed
  <2>2. CASE h = p
    <3>1. i \in 1 .. Len(c) + 1 /\ u.slot[h][i] = Chained(c, k)[i]
      BY <1>5, <1>11, <2>2
    <3>2. Position(u, u.slot[h][i]) = h
      <4>1. u.slot[h][i] = k \/ \E j \in DOMAIN c : u.slot[h][i] = c[j]
        BY <1>8, <3>1
      <4>2. \A j \in DOMAIN c : Position(t, c[j]) = p
        BY <1>1 DEF Placed
      <4> QED
        BY <1>5, <1>7, <2>2, <4>1, <4>2
    <3>3. ASSUME NEW j \in DOMAIN u.slot[h], u.slot[h][j] = u.slot[h][i]
          PROVE  j = i
      <4>1. j \in 1 .. Len(c) + 1 /\ Chained(c, k)[j] = Chained(c, k)[i]
        BY <1>5, <1>11, <2>2, <3>1, <3>3
      <4>2. \A a, b \in DOMAIN c : c[a] = c[b] => a = b
        BY <1>1 DEF Placed
      <4>3. i \in 1 .. Len(c) + 1
        BY <3>1
      <4>4. \A a \in 1 .. Len(c) + 1 : Chained(c, k)[a] = k =>
              IF c = <<>> THEN a = 1 ELSE a = 2
        <5> SUFFICES ASSUME NEW a \in 1 .. Len(c) + 1, Chained(c, k)[a] = k, c # <<>>
                     PROVE  a = 2
          BY <1>2
        <5>1. CASE a = 1
          BY <1>2, <1>3, <1>7, <5>1
        <5>2. CASE a > 2
          <6>1. a - 1 \in DOMAIN c /\ Chained(c, k)[a] = c[a - 1]
            BY <1>2, <1>3, <5>2
          <6> QED
            BY <1>7, <6>1
        <5> QED
          BY <1>2, <5>1, <5>2
      <4>5. CASE Chained(c, k)[i] = k
        BY <4>1, <4>3, <4>4, <4>5
      <4>6. CASE Chained(c, k)[i] # k
        <5>1. /\ \/ i = 1 /\ i \in DOMAIN c /\ Chained(c, k)[i] = c[i]
                 \/ i > 2 /\ i - 1 \in DOMAIN c /\ Chained(c, k)[i] = c[i - 1]
              /\ \/ j = 1 /\ j \in DOMAIN c /\ Chained(c, k)[j] = c[j]
                 \/ j > 2 /\ j - 1 \in DOMAIN c /\ Chained(c, k)[j] = c[j - 1]
          BY <1>8, <4>1, <4>3, <4>6
        <5>2. (IF i = 1 THEN i ELSE i - 1) = (IF j = 1 THEN j ELSE j - 1)
          BY <4>1, <4>2, <4>3, <5>1
        <5> QED
          BY <4>1, <4>3, <5>1, <5>2
      <4> QED
        BY <4>5, <4>6
    <3> QED
      BY <3>2, <3>3
  <2> QED
    BY <2>1, <2>2
<1> QED
  BY <1>5, <1>12, <1>13

\* Taking the entry i out of the chain of k, where k lies, takes k out of the
\* table and nothing else.
LEMMA UnlinkedKeys ==
    ASSUME NEW t, IsTable(t), Placed(t), NEW k \in Keys, NEW n,
           NEW p \in DOMAIN t.slot, p = Position(t, k),
           NEW i \in DOMAIN t.slot[p], t.slot[p][i] = k
    PROVE  /\ IsTable(WithChain(t, p, RemoveAt(t.slot[p], i), n))
           /\ WithChain(t, p, RemoveAt(t.slot[p], i), n).index = t.index
           /\ Placed(WithChain(t, p, RemoveAt(t.slot[p], i), n))
           /\ KeysOf(WithChain(t, p, RemoveAt(t.slot[p], i), n)) = KeysOf(t) \ {k}
<1> DEFINE c == t.slot[p]
           r == RemoveAt(c, i)
           u == WithChain(t, p, r, n)
<1>1. p \in DOMAIN t.slot /\ c \in Seq(Keys)
  BY DEF IsTable
<1>2. i \in DOMAIN c /\ c[i] = k
  OBVIOUS
<1>3. /\ r \in Seq(Keys)
      /\ Len(r) = Len(c) - 1
      /\ \A j \in 1 .. Len(c) - 1 : r[j] = IF j < i THEN c[j] ELSE c[j + 1]
  BY <1>1, <1>2, RemovedEntries
<1>5. /\ IsTable(u) /\ u.index = t.index
      /\ DOMAIN u.slot = DOMAIN t.slot
      /\ u.slot[p] = r
      /\ \A h \in DOMAIN t.slot : h # p => u.slot[h] = t.slot[h]
      /\ \A x \in Keys : Position(u, x) = Position(t, x)
  BY <1>1, <1>3, ReplacedChain
<1>6. \A a, b \in DOMAIN c : c[a] = c[b] => a = b
  BY <1>1 DEF Placed
<1>7. DOMAIN c = 1 .. Len(c) /\ DOMAIN r = 1 .. Len(c) - 1 /\ i \in 1 .. Len(c) /\ Len(c) \in Nat
  BY <1>1, <1>2, <1>3
\* Which entry of the longer chain an entry of the shorter one is.
<1>8. \A j \in DOMAIN r :
        (IF j < i THEN j ELSE j + 1) \in DOMAIN c /\ r[j] = c[IF j < i THEN j ELSE j + 1]
  BY <1>3, <1>7
<1>9. \A j \in DOMAIN r : r[j] # k
  <2> TAKE j \in DOMAIN r
  <2>1. (IF j < i THEN j ELSE j + 1) # i
    BY <1>7
  <2> QED
    BY <1>2, <1>6, <1>8, <2>1
<1>10. \A j \in DOMAIN c : j # i => \E a \in DOMAIN r : r[a] = c[j]
  <2> TAKE j \in DOMAIN c
  <2> HAVE j # i
  <2>1. CASE j < i
    BY <1>3, <1>7, <2>1
  <2>2. CASE j > i
    <3>1. j - 1 \in 1 .. Len(c) - 1 /\ ~(j - 1 < i) /\ (j - 1) + 1 = j
      BY <1>7, <2>2
    <3>2. r[j - 1] = c[j]
      BY <1>3, <3>1
    <3> QED
      BY <1>7, <3>1, <3>2
  <2> QED
    BY <1>7, <2>1, <2>2
<1>11. KeysOf(u) = KeysOf(t) \ {k}
  <2>1. ASSUME NEW x \in KeysOf(u) PROVE x \in KeysOf(t) \ {k}
    <3>1. PICK h \in DOMAIN t.slot : \E j \in DOMAIN u.slot[h] : u.slot[h][j] = x
      BY <1>5, <2>1, KeysOfMember
    <3>2. PICK j \in DOMAIN u.slot[h] : u.slot[h][j] = x
      BY <3>1
    <3>3. CASE h = p
      <4>1. x # k /\ \E a \in DOMAIN c : x = c[a]
        BY <1>5, <1>8, <1>9, <3>2, <3>3
      <4> QED
        BY <1>1, <4>1, KeysOfMember
    <3>4. CASE h # p
      <4>1. x \in KeysOf(t)
        BY <1>5, <3>2, <3>4, KeysOfMember
      <4>2. Position(t, x) = h
        BY <1>5, <3>2, <3>4 DEF Placed
      <4> QED
        BY <3>4, <4>1, <4>2
    <3> QED
      BY <3>3, <3>4
  <2>2. ASSUME NEW x \in KeysOf(t) \ {k} PROVE x \in KeysOf(u)
    <3>1. PICK h \in DOMAIN t.slot : \E j \in DOMAIN t.slot[h] : t.slot[h][j] = x
      BY <2>2, KeysOfMember
    <3>2. CASE h = p
      <4>1. \E j \in DOMAIN r : r[j] = x
        BY <1>2, <1>10, <2>2, <3>1, <3>2
      <4> QED
        BY <1>1, <1>5, <4>1, KeysOfMember
    <3>3. CASE h # p
      BY <1>5, <3>1, <3>3, KeysOfMember
    <3> QED
      BY <3>2, <3>3
  <2> QED
    BY <2>1, <2>2
<1>12. Placed(u)
  <2> SUFFICES ASSUME NEW h \in DOMAIN t.slot, NEW j \in DOMAIN u.slot[h]
               PROVE  /\ Position(u, u.slot[h][j]) = h
                      /\ \A a \in DOMAIN u.slot[h] : u.slot[h][a] = u.slot[h][j] => a = j
    BY <1>5 DEF Placed
  <2>1. CASE h # p
    <3>1. t.slot[h] \in Seq(Keys)
      BY DEF IsTable
    <3> QED
      BY <1>5, <2>1, <3>1 DEF Placed
  <2>2. CASE h = p
    <3>1. j \in DOMAIN r /\ u.slot[h][j] = r[j]
      BY <1>5, <2>2
    <3>2. \A a \in DOMAIN c : c[a] \in Keys /\ Position(t, c[a]) = p
      BY <1>1 DEF Placed
    <3>3. Position(u, u.slot[h][j]) = h
      BY <1>5, <1>8, <2>2, <3>1, <3>2
    <3>4. ASSUME NEW a \in DOMAIN r, r[a] = r[j] PROVE a = j
      <4>1. (IF a < i THEN a ELSE a + 1) = (IF j < i THEN j ELSE j + 1)
        BY <1>6, <1>8, <3>1, <3>4
      <4> QED
        BY <1>7, <3>1, <4>1
    <3> QED
      BY <1>5, <2>2, <3>1, <3>3, <3>4
  <2> QED
    BY <2>1, <2>2
<1> QED
  BY <1>5, <1>11, <1>12

\* Deleting a key takes it out and nothing else.
LEMMA DropKeys ==
    ASSUME NEW t, IsTable(t), Placed(t), NEW k \in Keys
    PROVE  /\ IsTable(Drop(t, k)) /\ Drop(t, k).index = t.index
           /\ Placed(Drop(t, k))
           /\ KeysOf(Drop(t, k)) = KeysOf(t) \ {k}
<1>1. CASE ~HasKey(t, k)
  BY <1>1, HasKeyIsMember DEF Drop
<1>2. CASE HasKey(t, k)
  <2>1. PICK p \in DOMAIN t.slot : p = Position(t, k)
    BY PositionInTable
  <2>2. PICK n : n = t.count - 1
    OBVIOUS
  <2>3. PICK i \in DOMAIN t.slot[p] :
          /\ t.slot[p][i] = k
          /\ i = CHOOSE j \in DOMAIN t.slot[p] : t.slot[p][j] = k
    BY <1>2, <2>1 DEF HasKey, Chain
  <2>4. Drop(t, k) = WithChain(t, p, RemoveAt(t.slot[p], i), n)
    BY <1>2, <2>1, <2>2, <2>3 DEF Drop, Chain
  <2>5. \A m : \A q \in DOMAIN t.slot : q = Position(t, k) =>
          \A a \in DOMAIN t.slot[q] : t.slot[q][a] = k =>
            /\ IsTable(WithChain(t, q, RemoveAt(t.slot[q], a), m))
            /\ WithChain(t, q, RemoveAt(t.slot[q], a), m).index = t.index
            /\ Placed(WithChain(t, q, RemoveAt(t.slot[q], a), m))
            /\ KeysOf(WithChain(t, q, RemoveAt(t.slot[q], a), m)) = KeysOf(t) \ {k}
    BY UnlinkedKeys
  <2>6. /\ IsTable(WithChain(t, p, RemoveAt(t.slot[p], i), n))
        /\ WithChain(t, p, RemoveAt(t.slot[p], i), n).index = t.index
        /\ Placed(WithChain(t, p, RemoveAt(t.slot[p], i), n))
        /\ KeysOf(WithChain(t, p, RemoveAt(t.slot[p], i), n)) = KeysOf(t) \ {k}
    BY <2>1, <2>3, <2>5
  <2> QED
    BY <2>4, <2>6
<1> QED
  BY <1>1, <1>2

(***************************************************************************)
(* The walk over a table                                                   *)
(***************************************************************************)

\* The keys of t from the entry p of the slot i on; Ahead is that of the walk.
Rest(t, i, p) ==
    UNION {{t.slot[h][j] : j \in {a \in DOMAIN t.slot[h] : h > i \/ a >= p}} :
           h \in {g \in DOMAIN t.slot : g >= i}}

\* A key of the rest, with the place where it lies.
LEMMA RestMember ==
    ASSUME NEW t, IsTable(t), NEW i \in Nat, NEW p \in Nat \ {0}, NEW x
    PROVE  x \in Rest(t, i, p) <=>
             \E h \in DOMAIN t.slot : \E j \in DOMAIN t.slot[h] :
               h >= i /\ (h > i \/ j >= p) /\ t.slot[h][j] = x
BY DEF Rest

\* In the beginning every key is ahead.
LEMMA RestAll ==
    ASSUME NEW t, IsTable(t)
    PROVE  Rest(t, 0, 1) = KeysOf(t)
<1>1. \A h \in DOMAIN t.slot : h \in Int /\ h >= 0
  BY PrimePositive DEF IsTable
<1>2. \A h \in DOMAIN t.slot : \A j \in DOMAIN t.slot[h] : j \in Int /\ j >= 1
  <2>1. \A h \in DOMAIN t.slot : t.slot[h] \in Seq(Keys)
    BY DEF IsTable
  <2> QED
    BY <2>1
<1>3. ASSUME NEW x PROVE x \in Rest(t, 0, 1) <=> x \in KeysOf(t)
  BY <1>1, <1>2, RestMember, KeysOfMember
<1> QED
  BY <1>3

\* In the end none is.
LEMMA RestEnd ==
    ASSUME NEW t, IsTable(t), NEW i \in Nat, NEW p \in Nat \ {0}, i \notin DOMAIN t.slot
    PROVE  Rest(t, i, p) = {}
<1>1. \A h \in DOMAIN t.slot : h \in Int /\ h < i
  <2>1. Primes[t.index] \in Nat /\ DOMAIN t.slot = 0 .. Primes[t.index] - 1
    BY PrimePositive DEF IsTable
  <2> QED
    BY <2>1
<1>2. ASSUME NEW x \in Rest(t, i, p) PROVE FALSE
  BY <1>1, <1>2, RestMember
<1> QED
  BY <1>2

\* Going on to the next slot at the end of a chain passes no key.
LEMMA RestNextSlot ==
    ASSUME NEW t, IsTable(t), NEW i \in DOMAIN t.slot, NEW p \in Nat \ {0},
           p \notin DOMAIN t.slot[i]
    PROVE  i + 1 \in Nat /\ Rest(t, i + 1, 1) = Rest(t, i, p)
<1>1. i \in Nat /\ \A h \in DOMAIN t.slot : h \in Int
  BY PrimePositive DEF IsTable
<1>2. \A h \in DOMAIN t.slot : \A j \in DOMAIN t.slot[h] : j \in Int /\ j >= 1
  <2>1. \A h \in DOMAIN t.slot : t.slot[h] \in Seq(Keys)
    BY DEF IsTable
  <2> QED
    BY <2>1
<1>3. \A j \in DOMAIN t.slot[i] : j < p
  <2>1. t.slot[i] \in Seq(Keys)
    BY DEF IsTable
  <2> QED
    BY <2>1
<1>4. i + 1 \in Nat /\ 1 \in Nat \ {0}
  BY <1>1
<1>5. ASSUME NEW x PROVE x \in Rest(t, i + 1, 1) <=> x \in Rest(t, i, p)
  <2>1. x \in Rest(t, i + 1, 1) <=>
          \E h \in DOMAIN t.slot : \E j \in DOMAIN t.slot[h] :
            h >= i + 1 /\ (h > i + 1 \/ j >= 1) /\ t.slot[h][j] = x
    BY <1>4, RestMember
  <2>2. x \in Rest(t, i, p) <=>
          \E h \in DOMAIN t.slot : \E j \in DOMAIN t.slot[h] :
            h >= i /\ (h > i \/ j >= p) /\ t.slot[h][j] = x
    BY <1>1, RestMember
  <2>3. \A h \in DOMAIN t.slot : \A j \in DOMAIN t.slot[h] :
          h >= i + 1 /\ (h > i + 1 \/ j >= 1) <=> h >= i /\ (h > i \/ j >= p)
    BY <1>1, <1>2, <1>3
  <2> QED
    BY <2>1, <2>2, <2>3
<1> QED
  BY <1>4, <1>5

\* Passing an entry leaves the other ones ahead.
LEMMA RestVisit ==
    ASSUME NEW t, IsTable(t), Placed(t),
           NEW i \in DOMAIN t.slot, NEW p \in DOMAIN t.slot[i]
    PROVE  /\ p \in Nat \ {0} /\ i \in Nat
           /\ t.slot[i][p] \in Keys
           /\ t.slot[i][p] \in Rest(t, i, p)
           /\ Rest(t, i, p + 1) = Rest(t, i, p) \ {t.slot[i][p]}
<1>1. i \in Nat /\ \A h \in DOMAIN t.slot : h \in Int
  BY PrimePositive DEF IsTable
<1>2. \A h \in DOMAIN t.slot : \A j \in DOMAIN t.slot[h] :
        j \in Int /\ j >= 1 /\ t.slot[h][j] \in Keys
  <2>1. \A h \in DOMAIN t.slot : t.slot[h] \in Seq(Keys)
    BY DEF IsTable
  <2> QED
    BY <2>1
<1>3. p \in Nat \ {0} /\ p + 1 \in Nat \ {0}
  BY <1>2
<1>4. t.slot[i][p] \in Rest(t, i, p)
  BY <1>1, <1>3, RestMember
\* The key that is passed lies nowhere else.
<1>5. \A h \in DOMAIN t.slot : \A j \in DOMAIN t.slot[h] :
        t.slot[h][j] = t.slot[i][p] => h = i /\ j = p
  <2> TAKE h \in DOMAIN t.slot
  <2> TAKE j \in DOMAIN t.slot[h]
  <2> HAVE t.slot[h][j] = t.slot[i][p]
  <2>1. Position(t, t.slot[h][j]) = h /\ Position(t, t.slot[i][p]) = i
    BY DEF Placed
  <2>2. h = i
    BY <2>1
  <2> QED
    BY <2>2 DEF Placed
<1>6. ASSUME NEW x PROVE x \in Rest(t, i, p + 1) <=> x \in Rest(t, i, p) \ {t.slot[i][p]}
  <2>1. x \in Rest(t, i, p + 1) <=>
          \E h \in DOMAIN t.slot : \E j \in DOMAIN t.slot[h] :
            h >= i /\ (h > i \/ j >= p + 1) /\ t.slot[h][j] = x
    BY <1>1, <1>3, RestMember
  <2>2. x \in Rest(t, i, p) <=>
          \E h \in DOMAIN t.slot : \E j \in DOMAIN t.slot[h] :
            h >= i /\ (h > i \/ j >= p) /\ t.slot[h][j] = x
    BY <1>1, <1>3, RestMember
  <2>3. \A h \in DOMAIN t.slot : \A j \in DOMAIN t.slot[h] :
          h >= i /\ (h > i \/ j >= p + 1) <=>
          h >= i /\ (h > i \/ j >= p) /\ ~(h = i /\ j = p)
    BY <1>1, <1>2, <1>3
  <2>4. \A h \in DOMAIN t.slot : \A j \in DOMAIN t.slot[h] :
          h = i /\ j = p <=> t.slot[h][j] = t.slot[i][p]
    BY <1>5
  <2> QED
    BY <2>1, <2>2, <2>3, <2>4
<1> QED
  BY <1>1, <1>2, <1>3, <1>4, <1>6

(***************************************************************************)
(* The invariant                                                           *)
(***************************************************************************)

\* The tables are sound, whether one is growing or not.
HashInv ==
    /\ IsTable(head) /\ IsTable(fresh)
    /\ ix \in Nat /\ pos \in Nat \ {0}
    /\ key \in Keys \cup {NoKey}
    /\ Placed(head) /\ Placed(fresh)
    /\ Dividing

MemTypes ==
    /\ type \in [Blocks -> Types \cup {Unused}]
    /\ tree \in BOOLEAN
    /\ stage \in {"open", "contexts", "walk", "gone"}

\* A key is being entered: its block is in use and not yet in the table.
Entering == key # NoKey => key \in Live /\ key \notin KeysOf(head) /\ stage = "open" /\ tree

MemInv ==
    /\ HashInv
    /\ MemTypes
    /\ Growing => key # NoKey
    /\ Entering
    /\ Owned \subseteq Live
    /\ attached \subseteq Live
    /\ \A b \in contexts : b \in Blocks /\ type[b] = "context"
    /\ ~tree => KeysOf(head) = {}
    /\ stage \in {"walk", "gone"} => contexts = {}

\* An empty table is a table, and has no keys.
LEMMA EmptyTableKeys ==
    ASSUME NEW i \in Sizes_
    PROVE  /\ IsTable(EmptyTable(i)) /\ EmptyTable(i).index = i
           /\ Placed(EmptyTable(i))
           /\ KeysOf(EmptyTable(i)) = {}
<1>1. Primes[i] \in Nat /\ Primes[i] > 0
  BY PrimePositive
<1>2. <<>> \in Seq(Keys) /\ DOMAIN (<<>>) = {}
  OBVIOUS
<1>3. IsTable(EmptyTable(i)) /\ EmptyTable(i).index = i
  BY <1>2 DEF EmptyTable, IsTable
<1>4. \A h \in DOMAIN EmptyTable(i).slot : EmptyTable(i).slot[h] = <<>>
  BY DEF EmptyTable
<1>5. Placed(EmptyTable(i))
  BY <1>2, <1>4 DEF Placed
<1>6. KeysOf(EmptyTable(i)) = {}
  BY <1>2, <1>4 DEF KeysOf
<1> QED
  BY <1>3, <1>5, <1>6

\* The sets that the definitions of the walk and of the state name.
LEMMA AheadIsRest == Ahead = Rest(head, ix, pos)
BY DEF Ahead, Rest

\* The invariant holds in the beginning.
LEMMA MemInvInit == Init => MemInv
<1> SUFFICES ASSUME Init PROVE MemInv
  OBVIOUS
<1>1. 1 \in Sizes_
  BY PrimesAssumption DEF Sizes_
<1>2. /\ IsTable(head) /\ Placed(head) /\ KeysOf(head) = {}
      /\ fresh = head /\ key = NoKey /\ ix = 0 /\ pos = 1
  BY <1>1, EmptyTableKeys DEF Init, AllocInit, HashInit
<1>3. /\ type \in [Blocks -> Types \cup {Unused}]
      /\ tree \in BOOLEAN /\ stage = "open"
      /\ attached = {} /\ contexts = {}
  BY DEF Init, AllocInit, HashInit
<1>4. MemTypes
  BY <1>3 DEF MemTypes
<1>5. ~Growing
  BY <1>2 DEF Growing
<1>6. Dividing
  BY <1>2, <1>5 DEF Dividing
<1>7. Entering
  BY <1>2 DEF Entering
<1>8. Owned \subseteq Live
  BY <1>2, <1>3 DEF Owned
<1>9. HashInv
  BY <1>2, <1>6 DEF HashInv
<1> QED
  BY <1>2, <1>3, <1>4, <1>5, <1>7, <1>8, <1>9 DEF MemInv

(***************************************************************************)
(* The steps of the table                                                  *)
(***************************************************************************)

\* A search begins, and with it perhaps the growth of the table.
LEMMA SearchStep ==
    ASSUME HashInv, ~Growing, NEW k \in Keys, NEW granted \in BOOLEAN, Search(k, granted)
    PROVE  HashInv' /\ key' = k /\ head' = head
<1>1. head' = head /\ key' = k /\ ix' = 0 /\ pos' = 1 /\ fresh = head /\ IsTable(head)
  BY DEF Search, HashInv, Dividing
<1>2. CASE Overfull /\ MayGrow /\ granted
  <2>1. fresh' = EmptyTable(head.index + 1)
    BY <1>2 DEF Search
  <2>2. head.index + 1 \in Sizes_ /\ head.index + 1 # head.index
    BY <1>1, <1>2 DEF MayGrow, IsTable, Sizes_
  <2>3. /\ IsTable(fresh') /\ Placed(fresh') /\ fresh'.index = head.index + 1
        /\ KeysOf(fresh') = {}
    BY <2>1, <2>2, EmptyTableKeys
  <2>4. Ahead' = KeysOf(head')
    BY <1>1, RestAll DEF Ahead, Rest
  <2>5. Growing'
    BY <1>1, <2>2, <2>3 DEF Growing
  <2>6. Dividing'
    BY <2>3, <2>4, <2>5 DEF Dividing
  <2> QED
    BY <1>1, <2>3, <2>6 DEF HashInv
<1>3. CASE ~(Overfull /\ MayGrow /\ granted)
  <2>1. fresh' = head'
    BY <1>1, <1>3 DEF Search
  <2>2. Dividing'
    BY <2>1 DEF Dividing, Growing
  <2> QED
    BY <1>1, <2>1, <2>2 DEF HashInv
<1> QED
  BY <1>2, <1>3

\* A key goes over to the larger table.
LEMMA MoveStep ==
    ASSUME HashInv, Move
    PROVE  HashInv' /\ Growing'
<1>1. /\ head' = head /\ ix' = ix /\ key' = key /\ pos' = pos + 1
      /\ fresh' = Put(fresh, KeyAt)
      /\ IsTable(head) /\ Placed(head) /\ IsTable(fresh) /\ Placed(fresh) /\ Growing
  BY DEF Move, HashInv
<1>2. ix \in DOMAIN head.slot /\ pos \in DOMAIN head.slot[ix]
  BY DEF Move, AtKey
<1>3. /\ KeyAt \in Keys /\ KeyAt \in Ahead
      /\ Rest(head, ix, pos + 1) = Rest(head, ix, pos) \ {KeyAt}
      /\ pos + 1 \in Nat \ {0}
  <2>1. KeyAt = head.slot[ix][pos]
    BY DEF KeyAt
  <2>2. /\ head.slot[ix][pos] \in Keys /\ pos \in Nat \ {0}
        /\ head.slot[ix][pos] \in Rest(head, ix, pos)
        /\ Rest(head, ix, pos + 1) = Rest(head, ix, pos) \ {head.slot[ix][pos]}
    BY <1>1, <1>2, RestVisit
  <2> QED
    BY <2>1, <2>2, AheadIsRest
<1>4. Ahead' = Ahead \ {KeyAt}
  <2>1. Ahead' = Rest(head, ix, pos + 1)
    BY <1>1 DEF Ahead, Rest
  <2> QED
    BY <1>3, <2>1, AheadIsRest
<1>5. KeysOf(fresh) \cup Ahead = KeysOf(head) /\ KeysOf(fresh) \cap Ahead = {}
  BY <1>1 DEF HashInv, Dividing
<1>6. /\ IsTable(fresh') /\ Placed(fresh') /\ fresh'.index = fresh.index
      /\ KeysOf(fresh') = KeysOf(fresh) \cup {KeyAt}
  BY <1>1, <1>3, <1>5, PutKeys
<1>7. Growing'
  BY <1>1, <1>6 DEF Growing
<1>8. Dividing'
  BY <1>1, <1>3, <1>4, <1>5, <1>6, <1>7 DEF Dividing
<1> QED
  BY <1>1, <1>3, <1>6, <1>7, <1>8 DEF HashInv

\* The growth is given up.
LEMMA MoveFailsStep ==
    ASSUME HashInv, MoveFails
    PROVE  HashInv' /\ ~Growing'
<1>1. UNCHANGED <<head, ix, pos, key>> /\ fresh' = head
  BY DEF MoveFails
<1>2. ~Growing' /\ Dividing'
  BY <1>1 DEF Growing, Dividing
<1> QED
  BY <1>1, <1>2 DEF HashInv

\* The walk goes on to the next slot.
LEMMA NextSlotStep ==
    ASSUME HashInv, NextSlot
    PROVE  HashInv' /\ Ahead' = Ahead /\ (Growing' <=> Growing)
<1>1. head' = head /\ fresh' = fresh /\ key' = key /\ ix' = ix + 1 /\ pos' = 1
  BY DEF NextSlot
<1>2. ix \in DOMAIN head.slot /\ pos \notin DOMAIN head.slot[ix]
  BY DEF NextSlot, AtEnd, AtKey
<1>3. IsTable(head) /\ pos \in Nat \ {0}
  BY DEF HashInv
<1>4. ix + 1 \in Nat /\ Rest(head, ix + 1, 1) = Rest(head, ix, pos)
  BY <1>2, <1>3, RestNextSlot
<1>5. Ahead' = Rest(head, ix + 1, 1)
  BY <1>1 DEF Ahead, Rest
<1>6. Ahead' = Ahead
  BY <1>4, <1>5, AheadIsRest
<1>7. Growing' <=> Growing
  BY <1>1 DEF Growing
<1>8. Dividing'
  BY <1>1, <1>6, <1>7 DEF HashInv, Dividing
<1> QED
  BY <1>1, <1>4, <1>6, <1>7, <1>8 DEF HashInv

\* At the end of the walk no key is ahead.
LEMMA AtEndNone == ASSUME HashInv, AtEnd PROVE Ahead = {}
<1>1. IsTable(head) /\ ix \in Nat /\ pos \in Nat \ {0} /\ ix \notin DOMAIN head.slot
  BY DEF HashInv, AtEnd
<1> QED
  BY <1>1, RestEnd, AheadIsRest

\* The larger table takes over, with the same keys.
LEMMA GrownStep ==
    ASSUME HashInv, Grown
    PROVE  HashInv' /\ ~Growing' /\ KeysOf(head') = KeysOf(head)
<1>1. UNCHANGED <<fresh, ix, pos, key>> /\ head' = fresh /\ Growing /\ AtEnd
  BY DEF Grown
<1>2. Ahead = {}
  BY <1>1, AtEndNone
<1>3. KeysOf(fresh) = KeysOf(head)
  BY <1>1, <1>2 DEF HashInv, Dividing
<1>4. ~Growing' /\ Dividing'
  BY <1>1 DEF Growing, Dividing
<1> QED
  BY <1>1, <1>3, <1>4 DEF HashInv

\* A key is entered, or there is no memory for it.
LEMMA EnterStep ==
    ASSUME HashInv, NEW granted \in BOOLEAN, Enter(granted), key \notin KeysOf(head)
    PROVE  /\ HashInv' /\ ~Growing' /\ key' = NoKey
           /\ KeysOf(head') = KeysOf(head) \/ KeysOf(head') = KeysOf(head) \cup {key}
<1>1. /\ IsTable(head) /\ Placed(head) /\ key \in Keys
      /\ UNCHANGED <<ix, pos>> /\ fresh' = head' /\ key' = NoKey
  BY DEF Enter, HashInv
<1>2. head' = Put(head, key) \/ head' = head
  BY DEF Enter
<1>3. /\ IsTable(Put(head, key)) /\ Placed(Put(head, key))
      /\ KeysOf(Put(head, key)) = KeysOf(head) \cup {key}
  BY <1>1, PutKeys
<1>4. ~Growing' /\ Dividing'
  BY <1>1 DEF Growing, Dividing
<1>5. IsTable(head') /\ Placed(head') /\ ix \in Nat /\ pos \in Nat \ {0}
  BY <1>1, <1>2, <1>3 DEF HashInv
<1> QED
  BY <1>1, <1>2, <1>3, <1>4, <1>5 DEF HashInv

\* A key is deleted.
LEMMA DeleteStep ==
    ASSUME HashInv, NEW k \in Keys, Delete(k)
    PROVE  HashInv' /\ ~Growing' /\ key' = key /\ KeysOf(head') = KeysOf(head) \ {k}
<1>1. /\ IsTable(head) /\ Placed(head)
      /\ UNCHANGED <<ix, pos, key>> /\ fresh' = head' /\ head' = Drop(head, k)
  BY DEF Delete, HashInv
<1>2. IsTable(head') /\ Placed(head') /\ KeysOf(head') = KeysOf(head) \ {k}
  BY <1>1, DropKeys
<1>3. ~Growing' /\ Dividing'
  BY <1>1 DEF Growing, Dividing
<1> QED
  BY <1>1, <1>2, <1>3 DEF HashInv

\* The walk begins with every key ahead.
LEMMA WalkStep ==
    ASSUME HashInv, ~Growing, Walk
    PROVE  HashInv' /\ ~Growing' /\ key' = key /\ Ahead' = KeysOf(head)
<1>1. UNCHANGED <<head, fresh, key>> /\ ix' = 0 /\ pos' = 1 /\ IsTable(head) /\ fresh = head
  BY DEF Walk, HashInv, Dividing
<1>2. Ahead' = KeysOf(head)
  BY <1>1, RestAll DEF Ahead, Rest
<1>3. ~Growing' /\ Dividing'
  BY <1>1 DEF Growing, Dividing
<1> QED
  BY <1>1, <1>2, <1>3 DEF HashInv

\* The walk passes a key.
LEMMA VisitStep ==
    ASSUME HashInv, ~Growing, Visit
    PROVE  /\ HashInv' /\ ~Growing' /\ key' = key
           /\ KeyAt \in Ahead /\ KeyAt \in Keys
           /\ Ahead' = Ahead \ {KeyAt}
<1>1. /\ UNCHANGED <<head, fresh, ix, key>> /\ pos' = pos + 1 /\ fresh = head
      /\ IsTable(head) /\ Placed(head)
  BY DEF Visit, HashInv, Dividing
<1>2. ix \in DOMAIN head.slot /\ pos \in DOMAIN head.slot[ix]
  BY DEF Visit, AtKey
<1>3. /\ KeyAt \in Keys /\ KeyAt \in Ahead
      /\ Rest(head, ix, pos + 1) = Rest(head, ix, pos) \ {KeyAt}
      /\ pos + 1 \in Nat \ {0}
  <2>1. KeyAt = head.slot[ix][pos]
    BY DEF KeyAt
  <2>2. /\ head.slot[ix][pos] \in Keys /\ pos \in Nat \ {0}
        /\ head.slot[ix][pos] \in Rest(head, ix, pos)
        /\ Rest(head, ix, pos + 1) = Rest(head, ix, pos) \ {head.slot[ix][pos]}
    BY <1>1, <1>2, RestVisit
  <2> QED
    BY <2>1, <2>2, AheadIsRest
<1>4. Ahead' = Rest(head, ix, pos + 1)
  BY <1>1 DEF Ahead, Rest
<1>5. ~Growing' /\ Dividing'
  BY <1>1 DEF Growing, Dividing
<1> QED
  BY <1>1, <1>3, <1>4, <1>5, AheadIsRest DEF HashInv

(***************************************************************************)
(* The steps of the allocator, and the steps of DebugMemory that they are  *)
(***************************************************************************)

AbstractStep == [Memory!Next]_(Memory!memoryVars)

\* A step that leaves the blocks in use and the keys alone is a stutter.
LEMMA AbstractStutter ==
    ASSUME Live' = Live, Owned' = Owned, stage' = "gone" <=> stage = "gone"
    PROVE  AbstractStep
BY DEF AbstractStep, Memory!memoryVars

\* A block is handed out.
LEMMA AbstractTake ==
    ASSUME NEW b \in Blocks, b \notin Live, Live' = Live \cup {b}, Owned' = Owned,
           stage # "gone", stage' # "gone"
    PROVE  AbstractStep
BY DEF AbstractStep, Memory!Next, Memory!Take

\* A block is released, and no longer tracked.
LEMMA AbstractRelease ==
    ASSUME NEW b \in Blocks, b \in Live, Live' = Live \ {b}, Owned' = Owned \ {b},
           stage # "gone", stage' # "gone"
    PROVE  AbstractStep
BY DEF AbstractStep, Memory!Next, Memory!Release

\* An unused block comes into use.
LEMMA LiveTaken ==
    ASSUME MemTypes, NEW b \in Blocks, type[b] = Unused, NEW t \in Types,
           type' = [type EXCEPT ![b] = t]
    PROVE  b \notin Live /\ Live' = Live \cup {b} /\ type' \in [Blocks -> Types \cup {Unused}]
BY DEF MemTypes, Live, Types, Unused

\* A block goes out of use.
LEMMA LiveReleased ==
    ASSUME MemTypes, NEW b \in Blocks, type' = [type EXCEPT ![b] = Unused]
    PROVE  Live' = Live \ {b} /\ type' \in [Blocks -> Types \cup {Unused}]
BY DEF MemTypes, Live

\* The table is left alone.
LEMMA HashUnchanged ==
    ASSUME HashInv, UNCHANGED hashVars
    PROVE  /\ HashInv' /\ head' = head /\ key' = key
           /\ (Growing' <=> Growing) /\ Ahead' = Ahead
<1>1. head' = head /\ fresh' = fresh /\ ix' = ix /\ pos' = pos /\ key' = key
  BY DEF hashVars
<1>2. Ahead' = Ahead
  BY <1>1 DEF Ahead
<1>3. Growing' <=> Growing
  BY <1>1 DEF Growing
<1>4. Dividing'
  BY <1>1, <1>2, <1>3 DEF HashInv, Dividing
<1> QED
  BY <1>1, <1>2, <1>3, <1>4 DEF HashInv

\* _dwarf_get_alloc().
LEMMA GetAllocStep ==
    ASSUME MemInv, NEW b \in Blocks, NEW t \in Types, NEW granted \in BOOLEAN,
           GetAlloc(b, t, granted)
    PROVE  MemInv' /\ AbstractStep
<1>1. /\ stage = "open" /\ stage' = "open" /\ key = NoKey /\ tree' = tree
      /\ type[b] = Unused /\ type' = [type EXCEPT ![b] = t]
  BY DEF GetAlloc, Idle
<1>2. ~Growing /\ HashInv /\ MemTypes /\ Owned = KeysOf(head)
  BY <1>1 DEF MemInv, Owned
<1>3. b \notin Live /\ Live' = Live \cup {b} /\ type' \in [Blocks -> Types \cup {Unused}]
  BY <1>1, <1>2, LiveTaken
<1>4. b \notin KeysOf(head)
  BY <1>2, <1>3 DEF MemInv
<1>5. MemTypes'
  BY <1>1, <1>2, <1>3 DEF MemTypes
<1>6. attached' \subseteq Live'
  BY <1>3 DEF GetAlloc, MemInv
<1>7. \A c \in contexts' : c \in Blocks /\ type'[c] = "context"
  BY <1>1, <1>2 DEF GetAlloc, MemInv, MemTypes, Unused
<1>8. /\ HashInv' /\ head' = head
      /\ IF tree THEN key' = b ELSE key' = NoKey /\ ~Growing'
  <2>1. CASE tree
    <3>1. Search(b, granted) /\ b \in Keys
      BY <2>1, BlocksAssumption DEF GetAlloc
    <3> QED
      BY <1>2, <2>1, <3>1, SearchStep
  <2>2. CASE ~tree
    <3>1. UNCHANGED hashVars
      BY <2>2 DEF GetAlloc
    <3>2. HashInv' /\ head' = head /\ key' = key /\ (Growing' <=> Growing)
      BY <1>2, <3>1, HashUnchanged
    <3> QED
      BY <1>1, <1>2, <2>2, <3>2
  <2> QED
    BY <2>1, <2>2
<1>9. Entering' /\ (Growing' => key' # NoKey)
  BY <1>1, <1>3, <1>4, <1>8, KeysAssumption, BlocksAssumption DEF Entering, MemTypes
<1>10. Owned' = Owned
  BY <1>1, <1>2, <1>8 DEF Owned
<1>11. MemInv'
  BY <1>1, <1>3, <1>5, <1>6, <1>7, <1>8, <1>9, <1>10 DEF MemInv
<1> QED
  BY <1>1, <1>3, <1>10, <1>11, AbstractTake

\* A constructor fails.
LEMMA ConstructorFailsStep ==
    ASSUME MemInv, NEW b \in Blocks, ConstructorFails(b)
    PROVE  MemInv' /\ AbstractStep
<1>1. /\ stage = "open" /\ key = NoKey /\ type[b] = Unused
      /\ type' = [type EXCEPT ![b] = "frame"]
      /\ UNCHANGED hashVars /\ UNCHANGED <<attached, contexts, tree, stage>>
  BY DEF ConstructorFails, Idle
<1>2. HashInv /\ MemTypes /\ "frame" \in Types
  BY DEF MemInv, Types
<1>3. b \notin Live /\ Live' = Live \cup {b} /\ type' \in [Blocks -> Types \cup {Unused}]
  BY <1>1, <1>2, LiveTaken
<1>4. /\ HashInv' /\ head' = head /\ key' = key
      /\ (Growing' <=> Growing) /\ Ahead' = Ahead
  BY <1>1, <1>2, HashUnchanged
<1>5. Owned' = Owned
  BY <1>1, <1>4 DEF Owned
<1>6. \A c \in contexts' : c \in Blocks /\ type'[c] = "context"
  BY <1>1, <1>2 DEF MemInv, MemTypes, Unused
<1>7. MemTypes' /\ Entering'
  BY <1>1, <1>2, <1>3, <1>4 DEF MemTypes, Entering
<1>8. MemInv'
  BY <1>1, <1>3, <1>4, <1>5, <1>6, <1>7 DEF MemInv
<1> QED
  BY <1>1, <1>3, <1>5, <1>8, AbstractTake

\* A step of dwarf_tsearch() leaves the blocks alone, and the keys, or enters
\* the one that is being searched for.
LEMMA FinishSearchStep ==
    ASSUME MemInv, FinishSearch
    PROVE  MemInv' /\ AbstractStep
<1>1. UNCHANGED <<type, attached, contexts, tree, stage>> /\ HashInv /\ MemTypes
  BY DEF FinishSearch, MemInv
<1>2. Live' = Live
  BY <1>1 DEF Live
<1>3. MemTypes'
  BY <1>1 DEF MemTypes
<1>4. key # NoKey
  BY DEF FinishSearch, Move, MoveFails, Grown, Enter, MemInv
<1>5. key \in Live /\ key \notin KeysOf(head) /\ stage = "open" /\ tree /\ key \in Blocks
  BY <1>1, <1>4, BlocksAssumption DEF MemInv, Entering, HashInv
<1>6. Owned = KeysOf(head) /\ Owned' = KeysOf(head')
  BY <1>1, <1>5 DEF Owned
<1>7. CASE HashInv' /\ key' = key /\ KeysOf(head') = KeysOf(head)
  <2>1. Entering'
    BY <1>1, <1>2, <1>5, <1>7 DEF Entering
  <2>2. MemInv'
    BY <1>1, <1>2, <1>3, <1>4, <1>5, <1>6, <1>7, <2>1 DEF MemInv
  <2>3. AbstractStep
    BY <1>1, <1>2, <1>6, <1>7, AbstractStutter
  <2> QED
    BY <2>2, <2>3
<1>8. CASE Move
  <2>1. HashInv' /\ key' = key /\ head' = head
    BY <1>1, <1>8, MoveStep DEF Move
  <2> QED
    BY <1>7, <2>1
<1>9. CASE MoveFails
  <2>1. HashInv' /\ key' = key /\ head' = head
    BY <1>1, <1>9, MoveFailsStep DEF MoveFails
  <2> QED
    BY <1>7, <2>1
<1>10. CASE NextSlot
  <2>1. HashInv' /\ key' = key /\ head' = head
    BY <1>1, <1>10, NextSlotStep DEF NextSlot
  <2> QED
    BY <1>7, <2>1
<1>11. CASE Grown
  <2>1. HashInv' /\ key' = key /\ KeysOf(head') = KeysOf(head)
    BY <1>1, <1>11, GrownStep DEF Grown
  <2> QED
    BY <1>7, <2>1
<1>12. CASE \E granted \in BOOLEAN : Enter(granted)
  <2>1. /\ HashInv' /\ ~Growing' /\ key' = NoKey
        /\ KeysOf(head') = KeysOf(head) \/ KeysOf(head') = KeysOf(head) \cup {key}
    BY <1>1, <1>5, <1>12, EnterStep
  <2>2. Entering'
    BY <2>1 DEF Entering
  <2>3. MemInv'
    BY <1>1, <1>2, <1>3, <1>5, <1>6, <2>1, <2>2 DEF MemInv
  <2>4. AbstractStep
    <3>1. CASE KeysOf(head') = KeysOf(head)
      BY <1>1, <1>2, <1>6, <3>1, AbstractStutter
    <3>2. CASE KeysOf(head') = KeysOf(head) \cup {key}
      <4>1. Memory!Track(key)
        BY <1>1, <1>2, <1>5, <1>6, <3>2 DEF Memory!Track
      <4> QED
        BY <1>5, <4>1 DEF AbstractStep, Memory!Next
    <3> QED
      BY <2>1, <3>1, <3>2
  <2> QED
    BY <2>3, <2>4
<1> QED
  BY <1>8, <1>9, <1>10, <1>11, <1>12 DEF FinishSearch

\* Discard() of a block in use, outside of the walk.
LEMMA DiscardStep ==
    ASSUME MemInv, NEW b \in Blocks, b \in Live, Discard(b), key = NoKey, tree' = tree,
           stage \in {"open", "contexts"}, stage' \in {"open", "contexts"},
           contexts' \subseteq contexts, b \notin contexts'
    PROVE  MemInv' /\ AbstractStep
<1>1. HashInv /\ MemTypes /\ ~Growing /\ Owned = KeysOf(head)
  BY DEF MemInv, Owned
<1>2. type' = [type EXCEPT ![b] = Unused] /\ attached' = attached \ {b}
  BY DEF Discard
<1>3. Live' = Live \ {b} /\ type' \in [Blocks -> Types \cup {Unused}]
  BY <1>1, <1>2, LiveReleased
<1>4. HashInv' /\ ~Growing' /\ key' = key /\ KeysOf(head') = KeysOf(head) \ {b}
  <2>1. CASE tree
    <3>1. Delete(b) /\ b \in Keys
      BY <2>1, BlocksAssumption DEF Discard
    <3> QED
      BY <1>1, <3>1, DeleteStep
  <2>2. CASE ~tree
    <3>1. UNCHANGED hashVars /\ KeysOf(head) = {}
      BY <2>2 DEF Discard, MemInv
    <3>2. HashInv' /\ head' = head /\ key' = key /\ (Growing' <=> Growing)
      BY <1>1, <3>1, HashUnchanged
    <3> QED
      BY <1>1, <3>1, <3>2
  <2> QED
    BY <2>1, <2>2 DEF MemInv, MemTypes
<1>5. Owned' = Owned \ {b}
  BY <1>1, <1>4 DEF Owned
<1>6. MemTypes'
  BY <1>1, <1>3 DEF MemTypes
<1>7. Entering'
  BY <1>4 DEF Entering
<1>8. \A c \in contexts' : c \in Blocks /\ type'[c] = "context"
  BY <1>1, <1>2 DEF MemInv, MemTypes
<1>9. Owned' \subseteq Live' /\ attached' \subseteq Live'
  BY <1>2, <1>3, <1>5 DEF MemInv
<1>10. ~tree' => KeysOf(head') = {}
  BY <1>4 DEF MemInv
<1>11. MemInv'
  BY <1>4, <1>6, <1>7, <1>8, <1>9, <1>10 DEF MemInv
<1> QED
  BY <1>3, <1>5, <1>11, AbstractRelease

\* dwarf_dealloc().
LEMMA DeallocStep ==
    ASSUME MemInv, NEW b \in Blocks, Dealloc(b)
    PROVE  MemInv' /\ AbstractStep
<1>1. /\ stage = "open" /\ stage' = stage /\ key = NoKey /\ tree' = tree
      /\ contexts' = contexts /\ Discard(b)
      /\ type[b] # Unused /\ type[b] # "context"
  BY DEF Dealloc, Idle
<1>2. b \in Live /\ b \notin contexts
  BY <1>1 DEF MemInv, Live
<1> QED
  BY <1>1, <1>2, DiscardStep

\* freecontextlist().
LEMMA FreeContextStep ==
    ASSUME MemInv, NEW b \in Blocks, FreeContext(b)
    PROVE  MemInv' /\ AbstractStep
<1>1. /\ stage \in {"open", "contexts"} /\ stage' = "contexts" /\ key = NoKey
      /\ tree' = tree /\ b \in contexts /\ contexts' = contexts \ {b} /\ Discard(b)
  BY DEF FreeContext, Finishing
<1>2. b \in Live
  BY <1>1 DEF MemInv, Live, Unused
<1> QED
  BY <1>1, <1>2, DiscardStep

\* dwarf_tdestroy() begins.
LEMMA DestroyStep == ASSUME MemInv, Destroy PROVE MemInv' /\ AbstractStep
<1>1. /\ stage \in {"open", "contexts"} /\ key = NoKey /\ stage' = "walk" /\ Walk
      /\ contexts = {} /\ UNCHANGED <<type, attached, contexts, tree>>
  BY DEF Destroy, Finishing
<1>2. HashInv /\ MemTypes /\ ~Growing /\ Owned = KeysOf(head)
  BY <1>1 DEF MemInv, Owned
<1>3. HashInv' /\ ~Growing' /\ key' = key /\ Ahead' = KeysOf(head) /\ head' = head
  BY <1>1, <1>2, WalkStep DEF Walk
<1>4. Live' = Live /\ Owned' = Owned
  BY <1>1, <1>2, <1>3 DEF Live, Owned
<1>5. MemTypes' /\ Entering'
  BY <1>1, <1>2, <1>3 DEF MemTypes, Entering
<1>6. MemInv'
  BY <1>1, <1>3, <1>4, <1>5 DEF MemInv
<1> QED
  BY <1>1, <1>4, <1>6, AbstractStutter

\* tdestroy_free_node().
LEMMA FreeNodeStep == ASSUME MemInv, FreeNode PROVE MemInv' /\ AbstractStep
<1>1. /\ stage = "walk" /\ stage' = "walk" /\ Visit
      /\ type' = [type EXCEPT ![KeyAt] = Unused] /\ attached' = attached \ {KeyAt}
      /\ UNCHANGED <<contexts, tree>>
  BY DEF FreeNode
<1>2. HashInv /\ MemTypes /\ key = NoKey /\ ~Growing /\ Owned = Ahead
  BY <1>1 DEF MemInv, Entering, Owned
<1>3. /\ HashInv' /\ ~Growing' /\ key' = key /\ head' = head
      /\ KeyAt \in Ahead /\ KeyAt \in Blocks /\ Ahead' = Ahead \ {KeyAt}
  BY <1>1, <1>2, VisitStep, BlocksAssumption DEF Visit
<1>4. Live' = Live \ {KeyAt} /\ type' \in [Blocks -> Types \cup {Unused}]
  BY <1>1, <1>2, <1>3, LiveReleased
<1>5. Owned' = Owned \ {KeyAt} /\ KeyAt \in Live
  BY <1>1, <1>2, <1>3 DEF Owned, MemInv
<1>6. contexts' = {}
  BY <1>1 DEF MemInv
<1>7. MemTypes' /\ Entering'
  BY <1>1, <1>2, <1>3, <1>4 DEF MemTypes, Entering
<1>8. Owned' \subseteq Live' /\ attached' \subseteq Live'
  BY <1>1, <1>4, <1>5 DEF MemInv
<1>9. MemInv'
  BY <1>1, <1>3, <1>6, <1>7, <1>8 DEF MemInv
<1> QED
  BY <1>1, <1>3, <1>4, <1>5, <1>9, AbstractRelease

\* The walk goes on to the next chain.
LEMMA NextChainStep == ASSUME MemInv, NextChain PROVE MemInv' /\ AbstractStep
<1>1. /\ stage = "walk" /\ NextSlot
      /\ UNCHANGED <<type, attached, contexts, tree, stage>>
  BY DEF NextChain
<1>2. HashInv /\ MemTypes /\ key = NoKey /\ ~Growing
  BY <1>1 DEF MemInv, Entering
<1>3. HashInv' /\ Ahead' = Ahead /\ ~Growing' /\ head' = head /\ key' = key
  BY <1>1, <1>2, NextSlotStep DEF NextSlot
<1>4. Live' = Live /\ Owned' = Owned
  BY <1>1, <1>3 DEF Live, Owned
<1>5. MemTypes' /\ Entering'
  BY <1>1, <1>2, <1>3 DEF MemTypes, Entering
<1>6. MemInv'
  BY <1>1, <1>3, <1>4, <1>5 DEF MemInv
<1> QED
  BY <1>1, <1>4, <1>6, AbstractStutter

\* Nothing that is tracked is left when the walk is over.
LEMMA GoneStep == ASSUME MemInv, Gone PROVE MemInv' /\ AbstractStep
<1>1. /\ stage = "walk" /\ stage' = "gone" /\ AtEnd
      /\ UNCHANGED hashVars /\ UNCHANGED <<type, attached, contexts, tree>>
  BY DEF Gone
<1>2. HashInv /\ MemTypes /\ key = NoKey /\ ~Growing
  BY <1>1 DEF MemInv, Entering
<1>3. HashInv' /\ head' = head /\ key' = key /\ ~Growing' /\ Ahead' = Ahead
  BY <1>1, <1>2, HashUnchanged
<1>4. Live' = Live /\ Owned' = Owned /\ Owned = {}
  BY <1>1, <1>2, <1>3, AtEndNone DEF Live, Owned
<1>5. MemTypes' /\ Entering'
  BY <1>1, <1>2, <1>3 DEF MemTypes, Entering
<1>6. MemInv'
  BY <1>1, <1>3, <1>4, <1>5 DEF MemInv
<1>7. Memory!Close
  BY <1>1, <1>4 DEF Memory!Close
<1> QED
  BY <1>6, <1>7 DEF AbstractStep, Memory!Next

\* The list of harmless errors has its own variables.
LEMMA AllocUnchanged == ASSUME MemInv, UNCHANGED allocVars PROVE MemInv' /\ AbstractStep
<1>1. UNCHANGED hashVars /\ UNCHANGED <<type, attached, contexts, tree, stage>>
  BY DEF allocVars
<1>2. HashInv /\ MemTypes
  BY DEF MemInv
<1>3. /\ HashInv' /\ head' = head /\ key' = key
      /\ (Growing' <=> Growing) /\ Ahead' = Ahead
  BY <1>1, <1>2, HashUnchanged
<1>4. Live' = Live /\ Owned' = Owned
  BY <1>1, <1>3 DEF Live, Owned
<1>5. MemTypes' /\ Entering'
  BY <1>1, <1>2, <1>3, <1>4 DEF MemTypes, Entering, MemInv
<1>6. MemInv'
  BY <1>1, <1>3, <1>4, <1>5 DEF MemInv
<1> QED
  BY <1>1, <1>4, <1>6, AbstractStutter

\* Every step keeps the invariant and is one of DebugMemory, or none.
LEMMA MemInvStep == ASSUME MemInv, [Next]_memory PROVE MemInv' /\ AbstractStep
<1>1. CASE AllocStep
  <2>1. CASE \E b \in Blocks, t \in Types, granted \in BOOLEAN : GetAlloc(b, t, granted)
    BY <2>1, GetAllocStep
  <2>2. CASE \E b \in Blocks : ConstructorFails(b)
    BY <2>2, ConstructorFailsStep
  <2>3. CASE \E b \in Blocks : Dealloc(b)
    BY <2>3, DeallocStep
  <2>4. CASE \E b \in Blocks : FreeContext(b)
    BY <2>4, FreeContextStep
  <2>5. CASE FinishSearch
    BY <2>5, FinishSearchStep
  <2>6. CASE FreeNode
    BY <2>6, FreeNodeStep
  <2>7. CASE NextChain
    BY <2>7, NextChainStep
  <2>8. CASE Gone
    BY <2>8, GoneStep
  <2> QED
    BY <1>1, <2>1, <2>2, <2>3, <2>4, <2>5, <2>6, <2>7, <2>8 DEF AllocStep
<1>2. CASE Destroy
  BY <1>2, DestroyStep
<1>3. CASE UNCHANGED allocVars
  BY <1>3, AllocUnchanged
<1> QED
  BY <1>1, <1>2, <1>3 DEF Next, CleanAndDestroy, memory

\* The invariant holds at all times.
THEOREM MemInvHolds == Spec => []MemInv
<1>1. Init => MemInv
  BY MemInvInit
<1>2. MemInv /\ [Next]_memory => MemInv'
  BY MemInvStep
<1> QED
  BY <1>1, <1>2, PTL DEF Spec

\* The table of allocations stays sound whichever allocation fails while it
\* grows, and every key in it is that of a block in use.
THEOREM TableStaysSound == Spec => []TableSound
<1>1. MemInv => TableSound
  BY DEF MemInv, HashInv, TableSound
<1> QED
  BY <1>1, MemInvHolds, PTL

\* No memory that hangs on a block outlives it.
THEOREM AttachedReleased == Spec => []AttachedGoesToo
<1>1. MemInv => AttachedGoesToo
  BY DEF MemInv, AttachedGoesToo
<1> QED
  BY <1>1, MemInvHolds, PTL

\* A Dwarf_Debug releases every block once, and none that it tracks survives
\* dwarf_object_finish().
THEOREM MemoryImplemented == Spec => Implements
<1>1. Init => Memory!Init
  <2> SUFFICES ASSUME Init PROVE Memory!Init
    OBVIOUS
  <2>1. KeysOf(head) = {}
    <3>1. 1 \in Sizes_ /\ head = EmptyTable(1)
      BY PrimesAssumption DEF Sizes_, Init, AllocInit, HashInit
    <3> QED
      BY <3>1, EmptyTableKeys
  <2>2. Live = {} /\ stage = "open"
    BY DEF Init, AllocInit, Live
  <2> QED
    BY <2>1, <2>2 DEF Memory!Init, Owned
<1>2. MemInv /\ [Next]_memory => [Memory!Next]_(Memory!memoryVars)
  BY MemInvStep DEF AbstractStep
<1> QED
  BY <1>1, <1>2, MemInvHolds, PTL DEF Spec, Memory!Spec, Implements

-----------------------------------------------------------------------------
(* The ring of harmless errors, and what is inserted into it.               *)

\* A ring of at least two places, one of which stays free.
IsRing(r) ==
    /\ r = [maxcount |-> r.maxcount, errors |-> r.errors, next |-> r.next,
            first |-> r.first, count |-> r.count]
    /\ r.maxcount \in Nat /\ r.maxcount > 1
    /\ r.errors \in [0 .. r.maxcount - 1 -> Nat]
    /\ r.next \in 0 .. r.maxcount - 1 /\ r.first \in 0 .. r.maxcount - 1
    /\ r.count \in Nat

\* The number of messages in a ring, and where the i-th of them is.
Length(r) == IF r.next >= r.first THEN r.next - r.first ELSE r.next - r.first + r.maxcount

Place(r, i) ==
    IF r.first + i - 1 < r.maxcount THEN r.first + i - 1 ELSE r.first + i - 1 - r.maxcount

\* Remainders of numbers that lie near the divisor.
LEMMA RemainderIs ==
    ASSUME NEW m \in Nat, m > 0, NEW x \in 1 - m .. m + m - 1
    PROVE  x % m = IF x < 0 THEN x + m ELSE IF x < m THEN x ELSE x - m
<1>1. ASSUME x \in 0 .. m - 1 PROVE x % m = x
  BY <1>1
<1>2. ASSUME x \in m .. m + m - 1 PROVE x % m = x - m
  BY <1>2
<1>3. ASSUME x \in 1 - m .. -1 PROVE x % m = x + m
  BY <1>3
<1> QED
  BY <1>1, <1>2, <1>3

\* The place behind the last one is the first.
LEMMA FollowingIs ==
    ASSUME NEW r, IsRing(r), NEW i \in 0 .. r.maxcount - 1
    PROVE  Following(r, i) = IF i + 1 = r.maxcount THEN 0 ELSE i + 1
<1> DEFINE m == r.maxcount
<1>1. m \in Nat /\ m > 1
  BY DEF IsRing
<1> HIDE DEF m
<1>2. i \in 0 .. m - 1
  BY DEF m
<1>3. (i + 1) % m = IF i + 1 < m THEN i + 1 ELSE i + 1 - m
  BY <1>1, <1>2, RemainderIs
<1> QED
  BY <1>1, <1>2, <1>3 DEF Following, m

\* The messages of a ring, without remainders.
LEMMA PendingIs ==
    ASSUME NEW r, IsRing(r)
    PROVE  /\ Length(r) \in 0 .. r.maxcount - 1
           /\ \A i \in 1 .. Length(r) : Place(r, i) \in 0 .. r.maxcount - 1
           /\ Pending(r) = [i \in 1 .. Length(r) |-> r.errors[Place(r, i)]]
           /\ Pending(r) \in Seq(Nat) /\ Len(Pending(r)) = Length(r)
<1>1. PICK m \in Nat, f \in Nat, n \in Nat :
        /\ m = r.maxcount /\ f = r.first /\ n = r.next
        /\ m > 1 /\ f < m /\ n < m
  BY DEF IsRing
<1>2. r.errors \in [0 .. m - 1 -> Nat]
  BY <1>1 DEF IsRing
<1>3. \A x \in 1 - m .. m + m - 1 : x % m = IF x < 0 THEN x + m ELSE IF x < m THEN x ELSE x - m
  BY <1>1, RemainderIs
<1>4. (n - f) % m \in 0 .. m - 1 /\ Length(r) = (n - f) % m
  <2>1. n - f \in 1 - m .. m + m - 1
    BY <1>1
  <2>2. (n - f) % m = IF n - f < 0 THEN n - f + m ELSE n - f
    <3>1. PICK x \in Int : x = n - f
      OBVIOUS
    <3>2. x % m = IF x < 0 THEN x + m ELSE IF x < m THEN x ELSE x - m
      BY <2>1, <3>1, <1>3
    <3> QED
      BY <1>1, <3>1, <3>2
  <2> QED
    BY <1>1, <2>2 DEF Length
<1>5. PICK L \in Nat : L = Length(r) /\ L < m /\ L = (n - f) % m
  BY <1>1, <1>4
<1>6. ASSUME NEW i \in 1 .. L
      PROVE  Place(r, i) \in 0 .. m - 1 /\ (f + i - 1) % m = Place(r, i)
  <2>1. PICK x \in Int : x = f + i - 1 /\ x \in 1 - m .. m + m - 1 /\ x >= 0
    BY <1>1, <1>5
  <2>2. Place(r, i) = IF x < m THEN x ELSE x - m
    BY <1>1, <2>1 DEF Place
  <2>3. x % m = IF x < 0 THEN x + m ELSE IF x < m THEN x ELSE x - m
    BY <2>1, <1>3
  <2> QED
    BY <1>1, <2>1, <2>2, <2>3
<1>7. Pending(r) = [i \in 1 .. L |-> r.errors[Place(r, i)]]
  <2>1. HasRing(r)
    BY <1>1 DEF HasRing
  <2>2. Pending(r) = [i \in 1 .. (n - f) % m |-> r.errors[(f + i - 1) % m]]
    BY <1>1, <2>1 DEF Pending
  <2> QED
    BY <1>5, <1>6, <2>2
<1>8. \A i \in 1 .. L : r.errors[Place(r, i)] \in Nat
  BY <1>2, <1>6
<1>9. Pending(r) \in Seq(Nat) /\ Len(Pending(r)) = L
  BY <1>7, <1>8
<1> QED
  BY <1>1, <1>5, <1>6, <1>7, <1>9

\* The newest of a sequence that has no more members, and of one that has more.
LEMMA NewestIs ==
    ASSUME NEW s \in Seq(Nat), NEW n \in Nat
    PROVE  /\ Len(s) <= n => Newest(s, n) = s
           /\ Len(s) > n => Newest(s, n) = [i \in 1 .. n |-> s[Len(s) - n + i]]
           /\ Newest(s, n) \in Seq(Nat) /\ Len(Newest(s, n)) = IF Len(s) > n THEN n ELSE Len(s)
<1>1. Len(s) \in Nat /\ s = [i \in 1 .. Len(s) |-> s[i]] /\ \A i \in 1 .. Len(s) : s[i] \in Nat
  OBVIOUS
<1>2. CASE Len(s) <= n
  <2>1. Newest(s, n) = SubSeq(s, 1, Len(s))
    BY <1>1, <1>2 DEF Newest
  <2>2. SubSeq(s, 1, Len(s)) = s
    BY <1>1
  <2> QED
    BY <1>1, <1>2, <2>1, <2>2
<1>3. CASE Len(s) > n
  <2> DEFINE l == Len(s)
             t == SubSeq(s, l - n + 1, l)
  <2>1. Newest(s, n) = t
    BY <1>1, <1>3 DEF Newest
  <2>2. l \in Nat /\ l > n /\ l - n + 1 \in Int /\ \A i \in l - n + 1 .. l : s[i] \in Nat
    BY <1>1, <1>3
  <2>3. /\ t \in Seq(Nat)
        /\ Len(t) = IF l - n + 1 <= l THEN l - (l - n + 1) + 1 ELSE 0
        /\ \A i \in 1 .. l - (l - n + 1) + 1 : t[i] = s[l - n + 1 + i - 1]
    <3> HIDE DEF l
    <3> QED
      BY <2>2, SubSeqProperties
  <2> HIDE DEF l, t
  <2>4. Len(t) = n /\ \A i \in 1 .. n : t[i] = s[l - n + i]
    BY <2>2, <2>3
  <2>5. t = [i \in 1 .. n |-> s[l - n + i]]
    BY <2>3, <2>4
  <2> QED
    BY <1>3, <2>1, <2>2, <2>3, <2>4, <2>5 DEF l
<1> QED
  BY <1>1, <1>2, <1>3

\* Inserting a message keeps the ring a ring, and its newest messages.
LEMMA InsertedIs ==
    ASSUME NEW r, IsRing(r), NEW x \in Nat
    PROVE  /\ IsRing(Inserted(r, x))
           /\ Inserted(r, x).maxcount = r.maxcount /\ Inserted(r, x).count = r.count + 1
           /\ Pending(Inserted(r, x)) = Newest(Append(Pending(r), x), r.maxcount - 1)
<1>1. PICK m \in Nat, f \in Nat, n \in Nat, c \in Nat :
        /\ m = r.maxcount /\ f = r.first /\ n = r.next /\ c = r.count
        /\ m > 1 /\ f < m /\ n < m
  BY DEF IsRing
<1> DEFINE e == r.errors
<1>2. /\ r = [maxcount |-> m, errors |-> e, next |-> n, first |-> f, count |-> c]
      /\ m > 1 /\ f < m /\ n < m /\ e \in [0 .. m - 1 -> Nat]
  BY <1>1 DEF IsRing
<1> HIDE DEF e
<1>3. m > 1 /\ f < m /\ n < m
  BY <1>1
<1>4. PICK n1 \in Nat : n1 = (IF n + 1 = m THEN 0 ELSE n + 1) /\ n1 < m
  BY <1>2
<1>5. PICK f1 \in Nat : f1 = (IF n1 # f THEN f ELSE IF f + 1 = m THEN 0 ELSE f + 1) /\ f1 < m
  BY <1>2
<1>6. PICK e1 \in [0 .. m - 1 -> Nat] : e1 = [e EXCEPT ![n] = x]
  BY <1>2
<1> DEFINE s == Inserted(r, x)
<1>7. s = [maxcount |-> m, errors |-> e1, next |-> n1, first |-> f1, count |-> c + 1]
  <2>1. HasRing(r)
    BY <1>2 DEF HasRing
  <2>2. Following(r, n) = n1 /\ Following(r, f) = IF f + 1 = m THEN 0 ELSE f + 1
    <3>1. n \in 0 .. r.maxcount - 1 /\ f \in 0 .. r.maxcount - 1 /\ r.maxcount = m
      BY <1>2, <1>3
    <3>2. /\ Following(r, n) = IF n + 1 = r.maxcount THEN 0 ELSE n + 1
          /\ Following(r, f) = IF f + 1 = r.maxcount THEN 0 ELSE f + 1
      BY <3>1, FollowingIs
    <3> QED
      BY <1>4, <3>1, <3>2
  <2>3. s = [r EXCEPT !.errors[n] = x, !.count = @ + 1, !.next = n1,
                      !.first = IF n1 = f THEN Following(r, f) ELSE f]
    BY <1>2, <2>1, <2>2 DEF Inserted
  <2>4. s = [r EXCEPT !.errors = e1, !.count = c + 1, !.next = n1, !.first = f1]
    BY <1>2, <1>5, <1>6, <2>2, <2>3
  <2> QED
    BY <1>2, <2>4
<1> HIDE DEF s
<1>8. IsRing(s)
  BY <1>2, <1>4, <1>5, <1>7 DEF IsRing
<1>9. /\ r.maxcount = m /\ r.errors = e /\ r.next = n /\ r.first = f
      /\ s.maxcount = m /\ s.errors = e1 /\ s.next = n1 /\ s.first = f1
  BY <1>2, <1>7
<1>10. PICK L \in Nat : L = IF n >= f THEN n - f ELSE n - f + m
  <2>1. (IF n >= f THEN n - f ELSE n - f + m) \in Nat
    BY <1>3
  <2> QED
    BY <2>1
<1>11. PICK l \in Nat : l = IF n1 >= f1 THEN n1 - f1 ELSE n1 - f1 + m
  <2>1. (IF n1 >= f1 THEN n1 - f1 ELSE n1 - f1 + m) \in Nat
    BY <1>4, <1>5
  <2> QED
    BY <2>1
<1>12. Length(r) = L /\ Length(s) = l
  BY <1>9, <1>10, <1>11 DEF Length
<1>13. IF n1 # f THEN f1 = f /\ l = L + 1 /\ L + 1 <= m - 1
      ELSE f1 = (IF f + 1 = m THEN 0 ELSE f + 1) /\ l = L /\ L = m - 1
  BY <1>3, <1>4, <1>5, <1>10, <1>11
<1> DEFINE P == Pending(r)
           t == Append(P, x)
<1>14. /\ P = [i \in 1 .. L |-> e[Place(r, i)]] /\ P \in Seq(Nat) /\ Len(P) = L
       /\ \A i \in 1 .. L : Place(r, i) \in 0 .. m - 1
  BY <1>9, <1>12, PendingIs
<1>15. Pending(s) = [i \in 1 .. l |-> e1[Place(s, i)]] /\ Pending(s) \in Seq(Nat)
  BY <1>9, <1>8, <1>12, PendingIs
<1>16. t \in Seq(Nat) /\ Len(t) = L + 1 /\ t[L + 1] = x /\ \A i \in 1 .. L : t[i] = e[Place(r, i)]
  <2> HIDE DEF P
  <2>1. t \in Seq(Nat) /\ Len(t) = Len(P) + 1 /\ t[Len(P) + 1] = x /\ \A i \in 1 .. Len(P) : t[i] = P[i]
    BY <1>14, AppendProperties
  <2> HIDE DEF t
  <2> QED
    BY <1>14, <2>1
<1>17. \A i \in Nat : Place(r, i) = IF f + i - 1 < m THEN f + i - 1 ELSE f + i - 1 - m
  BY <1>9 DEF Place
<1>18. \A i \in Nat : Place(s, i) = IF f1 + i - 1 < m THEN f1 + i - 1 ELSE f1 + i - 1 - m
  BY <1>9 DEF Place
<1>19. Place(r, L + 1) = n /\ \A i \in 1 .. L : Place(r, i) # n
  BY <1>3, <1>10, <1>17
<1> HIDE DEF P, t
<1>20. \A i \in 1 .. L : e1[Place(r, i)] = t[i]
  BY <1>6, <1>14, <1>16, <1>19
<1>21. e1[Place(r, L + 1)] = t[L + 1]
  BY <1>2, <1>6, <1>16, <1>19
<1>22. \A i \in 1 .. L + 1 : e1[Place(r, i)] = t[i]
  BY <1>20, <1>21
<1>23. Pending(s) = Newest(t, m - 1)
  <2>1. CASE n1 # f
    <3>1. Newest(t, m - 1) = t
      <4>1. m - 1 \in Nat /\ Len(t) <= m - 1
        BY <1>3, <1>13, <1>16, <2>1
      <4> QED
        BY <1>16, <4>1, NewestIs
    <3>2. \A i \in 1 .. L + 1 : Place(s, i) = Place(r, i)
      BY <1>13, <1>17, <1>18, <2>1
    <3>3. Pending(s) = [i \in 1 .. L + 1 |-> t[i]]
      BY <1>13, <1>15, <1>22, <2>1, <3>2
    <3>4. t = [i \in 1 .. L + 1 |-> t[i]]
      BY <1>16
    <3> QED
      BY <3>1, <3>3, <3>4
  <2>2. CASE n1 = f
    <3>1. Len(t) > m - 1 /\ m - 1 \in Nat /\ L + 1 - (m - 1) = 1 /\ l = m - 1
      BY <1>3, <1>13, <1>16, <2>2
    <3>2. Newest(t, m - 1) = [i \in 1 .. m - 1 |-> t[Len(t) - (m - 1) + i]]
      BY <1>16, <3>1, NewestIs
    <3>3. \A i \in 1 .. m - 1 : Len(t) - (m - 1) + i = i + 1
      BY <1>16, <3>1
    <3>4. Newest(t, m - 1) = [i \in 1 .. m - 1 |-> t[i + 1]]
      BY <3>2, <3>3
    <3>5. \A i \in 1 .. m - 1 : Place(s, i) = Place(r, i + 1)
      <4> TAKE i \in 1 .. m - 1
      <4>1. i \in Nat /\ i + 1 \in Nat /\ i > 0 /\ i < m
        BY <1>3
      <4>2. Place(r, i + 1) = IF f + (i + 1) - 1 < m THEN f + (i + 1) - 1 ELSE f + (i + 1) - 1 - m
        BY <4>1, <1>17
      <4>3. Place(s, i) = IF f1 + i - 1 < m THEN f1 + i - 1 ELSE f1 + i - 1 - m
        BY <4>1, <1>18
      <4>4. f1 = IF f + 1 = m THEN 0 ELSE f + 1
        BY <1>13, <2>2
      <4>5. CASE f + 1 = m
        BY <1>3, <4>1, <4>2, <4>3, <4>4, <4>5
      <4>6. CASE f + 1 # m
        BY <1>3, <4>1, <4>2, <4>3, <4>4, <4>6
      <4> QED
        BY <4>5, <4>6
    <3>6. \A i \in 1 .. m - 1 : e1[Place(s, i)] = t[i + 1]
      BY <1>13, <1>22, <2>2, <3>5
    <3> QED
      BY <1>15, <3>1, <3>4, <3>6
  <2> QED
    BY <2>1, <2>2
<1> QED
  BY <1>2, <1>7, <1>8, <1>23 DEF s, t, P

\* What fell out of a list is not among the newest of the longer one either.
LEMMA NewestAppend ==
    ASSUME NEW s \in Seq(Nat), NEW x \in Nat, NEW n \in Nat
    PROVE  Newest(Append(Newest(s, n), x), n) = Newest(Append(s, x), n)
<1> DEFINE t == Newest(s, n)
           a == Append(s, x)
           b == Append(t, x)
<1>1. t \in Seq(Nat) /\ Len(t) = IF Len(s) > n THEN n ELSE Len(s)
  BY NewestIs
<1>2. CASE Len(s) <= n
  BY <1>2, NewestIs
<1>3. CASE Len(s) > n
  <2>1. PICK l \in Nat : l = Len(s) /\ l > n
    BY <1>3
  <2>2. t = [i \in 1 .. n |-> s[l - n + i]] /\ Len(t) = n
    <3>1. t = [i \in 1 .. n |-> s[Len(s) - n + i]]
      BY <1>3, NewestIs
    <3> HIDE DEF t
    <3> QED
      BY <1>1, <1>3, <2>1, <3>1
  <2>3. /\ a \in Seq(Nat) /\ Len(a) = l + 1 /\ a[l + 1] = x /\ \A i \in 1 .. l : a[i] = s[i]
    BY <2>1, AppendProperties
  <2> HIDE DEF t, a
  <2>4. /\ b \in Seq(Nat) /\ Len(b) = n + 1 /\ b[n + 1] = x /\ \A i \in 1 .. n : b[i] = t[i]
    BY <1>1, <2>2, AppendProperties
  <2> HIDE DEF b
  <2>5. Newest(a, n) = [i \in 1 .. n |-> a[l + 1 - n + i]]
    <3>1. Len(a) > n
      BY <2>1, <2>3
    <3>2. Newest(a, n) = [i \in 1 .. n |-> a[Len(a) - n + i]]
      BY <2>3, <3>1, NewestIs
    <3> QED
      BY <2>3, <3>2
  <2>6. Newest(b, n) = [i \in 1 .. n |-> b[n + 1 - n + i]]
    <3>1. Len(b) > n
      BY <2>4
    <3>2. Newest(b, n) = [i \in 1 .. n |-> b[Len(b) - n + i]]
      BY <2>4, <3>1, NewestIs
    <3> QED
      BY <2>4, <3>2
  <2>7. ASSUME NEW i \in 1 .. n
        PROVE  b[n + 1 - n + i] = a[l + 1 - n + i]
    <3>1. CASE i = n
      <4>1. n + 1 - n + i = n + 1 /\ l + 1 - n + i = l + 1
        BY <3>1
      <4> QED
        BY <2>3, <2>4, <4>1
    <3>2. CASE i # n
      <4>1. PICK j \in 1 .. n : j = i + 1
        BY <3>2
      <4>2. n + 1 - n + i = j /\ l + 1 - n + i = l - n + j /\ l - n + j \in 1 .. l
        BY <2>1, <4>1
      <4>3. b[j] = s[l - n + j]
        BY <2>2, <2>4, <4>1
      <4> QED
        BY <2>3, <4>2, <4>3
    <3> QED
      BY <3>1, <3>2
  <2> QED
    BY <2>5, <2>6, <2>7 DEF t, a, b
<1> QED
  BY <1>1, <1>2, <1>3

\* One more member of a sequence.
LEMMA OneMore ==
    ASSUME NEW s \in Seq(Nat), NEW k \in 1 .. Len(s)
    PROVE  /\ SubSeq(s, 1, k - 1) \in Seq(Nat)
           /\ SubSeq(s, 1, k) = Append(SubSeq(s, 1, k - 1), s[k])
<1> DEFINE u == SubSeq(s, 1, k - 1)
           v == SubSeq(s, 1, k)
           w == Append(u, s[k])
<1>1. /\ k - 1 \in Int /\ k \in Int /\ 1 \in Int /\ s[k] \in Nat
      /\ \A i \in 1 .. k - 1 : s[i] \in Nat
      /\ \A i \in 1 .. k : s[i] \in Nat
  OBVIOUS
<1>2. u \in Seq(Nat) /\ Len(u) = k - 1 /\ \A i \in 1 .. k - 1 : u[i] = s[i]
  <2>1. /\ u \in Seq(Nat) /\ Len(u) = IF 1 <= k - 1 THEN k - 1 - 1 + 1 ELSE 0
        /\ \A i \in 1 .. k - 1 - 1 + 1 : u[i] = s[1 + i - 1]
    BY <1>1, SubSeqProperties
  <2> HIDE DEF u
  <2> QED
    BY <2>1
<1>3. v \in Seq(Nat) /\ Len(v) = k /\ \A i \in 1 .. k : v[i] = s[i]
  <2>1. /\ v \in Seq(Nat) /\ Len(v) = IF 1 <= k THEN k - 1 + 1 ELSE 0
        /\ \A i \in 1 .. k - 1 + 1 : v[i] = s[1 + i - 1]
    BY <1>1, SubSeqProperties
  <2> HIDE DEF v
  <2> QED
    BY <2>1
<1> HIDE DEF u, v
<1>4. /\ w \in Seq(Nat) /\ Len(w) = Len(u) + 1 /\ w[Len(u) + 1] = s[k]
      /\ \A i \in 1 .. Len(u) : w[i] = u[i]
  BY <1>1, <1>2, AppendProperties
<1> HIDE DEF w
<1>5. Len(v) = Len(w)
  BY <1>2, <1>3, <1>4
<1>6. \A i \in 1 .. Len(v) : v[i] = w[i]
  <2> TAKE i \in 1 .. Len(v)
  <2>1. CASE i = k
    BY <1>2, <1>3, <1>4, <2>1
  <2>2. CASE i # k
    <3>1. i \in 1 .. k - 1
      BY <1>3, <2>2
    <3> QED
      BY <1>2, <1>3, <1>4, <3>1
  <2> QED
    BY <2>1, <2>2
<1>7. v = w
  BY <1>3, <1>4, <1>5, <1>6, SeqEqual
<1> QED
  BY <1>2, <1>7 DEF u, v, w

\* What comes of inserting the first n messages of s, one after the other.
AreInserted(r, s, n, h) ==
    h = [k \in 0 .. n |-> IF k = 0 THEN r ELSE Inserted(h[k - 1], s[k])]

HoldsFirst(r, s, k, q) ==
    /\ IsRing(q) /\ q.maxcount = r.maxcount /\ q.count = r.count + k
    /\ Pending(q) = Newest(SubSeq(s, 1, k), r.maxcount - 1)

\* The least number that something fails for.
LEMMA LeastOne ==
    ASSUME NEW S, S \subseteq Nat, S # {}
    PROVE  \E m \in S : m \in Nat /\ \A l \in S : ~ (l < m)
<1>1. PICK m \in S : \A l \in S : ~ (<<l, m>> \in OpToRel(<, Nat))
  BY NatLessThanWellFounded, WFMin
<1> QED
  BY <1>1 DEF OpToRel

\* Whatever is inserted, there is what comes of it.
LEMMA InsertedExist ==
    ASSUME NEW r, NEW s, NEW n \in Nat
    PROVE  \E h : AreInserted(r, s, n, h)
<1> DEFINE Lacking == {m \in Nat : ~ \E h : AreInserted(r, s, m, h)}
<1>1. SUFFICES ASSUME Lacking # {} PROVE FALSE
  OBVIOUS
<1>2. PICK m \in Lacking : m \in Nat /\ \A l \in Lacking : ~ (l < m)
  <2>1. Lacking \subseteq Nat
    OBVIOUS
  <2> HIDE DEF Lacking
  <2> QED
    BY <1>1, <2>1, LeastOne
<1>3. CASE m = 0
  <2> DEFINE h == [k \in 0 .. m |-> r]
  <2>1. AreInserted(r, s, m, h)
    BY <1>3 DEF AreInserted
  <2> QED
    BY <2>1
<1>4. CASE m # 0
  <2>1. m - 1 \in Nat /\ m - 1 < m
    BY <1>2, <1>4
  <2>2. PICK g : AreInserted(r, s, m - 1, g)
    BY <1>2, <2>1
  <2> DEFINE h == [k \in 0 .. m |-> IF k = m THEN Inserted(g[m - 1], s[m]) ELSE g[k]]
  <2>3. h[m] = Inserted(g[m - 1], s[m]) /\ \A k \in 0 .. m - 1 : h[k] = g[k]
    BY <1>2, <2>1
  <2>4. ASSUME NEW k \in 0 .. m
        PROVE  h[k] = IF k = 0 THEN r ELSE Inserted(h[k - 1], s[k])
    <3> HIDE DEF h
    <3>1. CASE k = m
      <4>1. h[m - 1] = g[m - 1]
        BY <1>2, <2>1, <2>3
      <4> QED
        BY <1>4, <2>3, <3>1, <4>1
    <3>2. CASE k # m
      <4>1. k \in 0 .. m - 1 /\ (k # 0 => k - 1 \in 0 .. m - 1)
        BY <1>2, <3>2
      <4>2. g[k] = IF k = 0 THEN r ELSE Inserted(g[k - 1], s[k])
        BY <2>2, <4>1 DEF AreInserted
      <4>3. h[k] = g[k] /\ (k # 0 => h[k - 1] = g[k - 1])
        BY <2>3, <4>1
      <4> QED
        BY <4>2, <4>3
    <3> QED
      BY <3>1, <3>2
  <2>5. h = [k \in 0 .. m |-> h[k]]
    OBVIOUS
  <2> HIDE DEF h
  <2>6. AreInserted(r, s, m, h)
    BY <2>4, <2>5 DEF AreInserted
  <2> QED
    BY <2>6
<1> QED
  BY <1>3, <1>4

\* One message more is there.
LEMMA HoldsOneMore ==
    ASSUME NEW r, IsRing(r), NEW s \in Seq(Nat), NEW k \in 1 .. Len(s), NEW q,
           HoldsFirst(r, s, k - 1, q)
    PROVE  HoldsFirst(r, s, k, Inserted(q, s[k]))
<1> DEFINE u == SubSeq(s, 1, k - 1)
<1>1. k \in Nat /\ s[k] \in Nat /\ r.maxcount - 1 \in Nat /\ r.count \in Nat
  BY DEF IsRing
<1>2. /\ IsRing(q) /\ q.maxcount = r.maxcount /\ q.count = r.count + (k - 1)
      /\ Pending(q) = Newest(u, r.maxcount - 1)
  BY DEF HoldsFirst
<1>3. /\ IsRing(Inserted(q, s[k]))
      /\ Inserted(q, s[k]).maxcount = q.maxcount /\ Inserted(q, s[k]).count = q.count + 1
      /\ Pending(Inserted(q, s[k])) = Newest(Append(Pending(q), s[k]), q.maxcount - 1)
  BY <1>1, <1>2, InsertedIs
<1>4. u \in Seq(Nat) /\ SubSeq(s, 1, k) = Append(u, s[k])
  BY OneMore
<1> HIDE DEF u
<1>5. Newest(Append(Newest(u, r.maxcount - 1), s[k]), r.maxcount - 1)
        = Newest(Append(u, s[k]), r.maxcount - 1)
  BY <1>1, <1>4, NewestAppend
<1>6. q.count + 1 = r.count + k
  BY <1>1, <1>2
<1> QED
  BY <1>2, <1>3, <1>4, <1>5, <1>6 DEF HoldsFirst

\* A list inserted into an empty ring leaves its newest messages there.
LEMMA InsertedAllIs ==
    ASSUME NEW r, IsRing(r), Pending(r) = <<>>, NEW s \in Seq(Nat)
    PROVE  HoldsFirst(r, s, Len(s), InsertedAll(r, s))
<1>1. Len(s) \in Nat /\ r.maxcount - 1 \in Nat /\ r.count \in Nat
  BY DEF IsRing
<1>2. PICK h : AreInserted(r, s, Len(s), h) /\ InsertedAll(r, s) = h[Len(s)]
  <2> DEFINE after == CHOOSE f : AreInserted(r, s, Len(s), f)
  <2>1. AreInserted(r, s, Len(s), after)
    BY <1>1, InsertedExist
  <2>2. InsertedAll(r, s) = after[Len(s)]
    BY Zenon DEF InsertedAll, AreInserted
  <2> QED
    BY <2>1, <2>2
<1> DEFINE Lacking == {n \in Nat : n <= Len(s) /\ ~ HoldsFirst(r, s, n, h[n])}
<1>3. ASSUME Lacking # {} PROVE FALSE
  <2>1. PICK m \in Lacking : m \in Nat /\ \A l \in Lacking : ~ (l < m)
    <3>1. Lacking \subseteq Nat
      OBVIOUS
    <3> HIDE DEF Lacking
    <3> QED
      BY <1>3, <3>1, LeastOne
  <2>2. m <= Len(s) /\ ~ HoldsFirst(r, s, m, h[m])
    BY <2>1
  <2>3. CASE m = 0
    <3>1. h[m] = r
      BY <1>1, <1>2, <2>3 DEF AreInserted
    <3>2. SubSeq(s, 1, 0) = <<>>
      BY SubSeqEmpty
    <3>3. Newest(<<>>, r.maxcount - 1) = <<>>
      <4>1. <<>> \in Seq(Nat) /\ Len(<<>>) <= r.maxcount - 1
        BY <1>1
      <4> QED
        BY <1>1, <4>1, NewestIs
    <3>4. r.count = r.count + m
      BY <1>1, <2>3
    <3> QED
      BY <2>2, <2>3, <3>1, <3>2, <3>3, <3>4 DEF HoldsFirst
  <2>4. CASE m # 0
    <3>1. m - 1 \in Nat /\ m - 1 < m /\ m - 1 <= Len(s) /\ m \in 1 .. Len(s) /\ m \in 0 .. Len(s)
      BY <1>1, <2>1, <2>2, <2>4
    <3>2. HoldsFirst(r, s, m - 1, h[m - 1])
      BY <2>1, <3>1
    <3>3. h[m] = Inserted(h[m - 1], s[m])
      BY <1>2, <2>4, <3>1 DEF AreInserted
    <3> QED
      BY <2>2, <3>1, <3>2, <3>3, HoldsOneMore
  <2> QED
    BY <2>3, <2>4
<1> QED
  BY <1>1, <1>2, <1>3

-----------------------------------------------------------------------------
(* What the ring stands for while a Dwarf_Debug is in use.                  *)

RingFaithful ==
    /\ IsRing(ring) /\ Pending(ring) = kept /\ ring.count = total
    /\ Len(kept) <= total /\ (kept = <<>> => total = 0)

\* Nothing is said of it once an allocation has failed: without a ring the
\* messages are only counted.
RingInv ==
    /\ refused \in Nat /\ number \in Nat
    /\ refused = 0 =>
         /\ "maxcount" \in DOMAIN ring
         /\ stage = "open" => HasRing(ring)
         /\ HasRing(ring) => RingFaithful

\* A ring that has just been allocated is empty.
LEMMA NewRingIs ==
    ASSUME NEW size \in Nat \ {0}
    PROVE  /\ IsRing(NewRing(size)) /\ Pending(NewRing(size)) = <<>> /\ HasRing(NewRing(size))
           /\ NewRing(size).maxcount = size + 1 /\ NewRing(size).count = 0
<1> DEFINE r == NewRing(size)
<1>1. r = [maxcount |-> size + 1, errors |-> [i \in 0 .. size |-> 0],
           next |-> 0, first |-> 0, count |-> 0]
  BY DEF NewRing, NoMessage
<1>2. size + 1 \in Nat /\ size + 1 > 1 /\ 0 .. (size + 1) - 1 = 0 .. size
  OBVIOUS
<1> HIDE DEF r
<1>3. IsRing(r)
  BY <1>1, <1>2 DEF IsRing
<1>4. Length(r) = 0
  BY <1>1 DEF Length
<1>5. Pending(r) \in Seq(Nat) /\ Len(Pending(r)) = 0
  BY <1>3, <1>4, PendingIs
<1>6. Pending(r) = <<>>
  BY <1>5
<1> QED
  BY <1>1, <1>2, <1>3, <1>6 DEF HasRing, r

\* An empty list is one that nothing has been inserted into since it was read.
LEMMA EmptyIs ==
    ASSUME NEW r, IsRing(r)
    PROVE  (r.next = r.first) <=> (Pending(r) = <<>>)
<1>1. PICK m \in Nat, f \in Nat, n \in Nat :
        m = r.maxcount /\ f = r.first /\ n = r.next /\ m > 1 /\ f < m /\ n < m
  BY DEF IsRing
<1>2. Length(r) = IF n >= f THEN n - f ELSE n - f + m
  BY <1>1 DEF Length
<1>3. Length(r) = 0 <=> n = f
  BY <1>1, <1>2
<1>4. Pending(r) \in Seq(Nat) /\ Len(Pending(r)) = Length(r)
  BY PendingIs
<1> QED
  BY <1>1, <1>3, <1>4

\* A list of another size has what was in the old one, as far as it goes.
LEMMA ResizedIs ==
    ASSUME RingFaithful, NEW size \in Nat \ {0}
    PROVE  LET r == Resized(ring, NewRing(size))
           IN /\ IsRing(r) /\ HasRing(r) /\ "maxcount" \in DOMAIN r
              /\ Pending(r) = Newest(kept, size) /\ r.count = total
<1> DEFINE r0 == NewRing(size)
           r == Resized(ring, r0)
           q == InsertedAll(r0, kept)
<1>1. /\ IsRing(ring) /\ Pending(ring) = kept /\ kept \in Seq(Nat) /\ Len(kept) \in Nat
      /\ ring.count = total /\ total \in Nat /\ Len(kept) <= total /\ (kept = <<>> => total = 0)
  <2>1. IsRing(ring) /\ Pending(ring) = kept
    BY DEF RingFaithful
  <2>2. kept \in Seq(Nat)
    BY <2>1, PendingIs
  <2> QED
    BY <2>1, <2>2 DEF RingFaithful, IsRing
<1>2. /\ IsRing(r0) /\ Pending(r0) = <<>> /\ HasRing(r0)
      /\ r0.maxcount = size + 1 /\ r0.count = 0
  BY NewRingIs
<1> HIDE DEF r0
<1>3. CASE ring.next = ring.first
  <2>1. kept = <<>> /\ total = 0
    BY <1>1, <1>3, EmptyIs
  <2>2. r = r0
    BY <1>3 DEF Resized
  <2>3. Newest(kept, size) = kept
    <3>1. kept \in Seq(Nat) /\ Len(kept) <= size /\ size \in Nat
      BY <1>1, <2>1
    <3> QED
      BY <3>1, NewestIs
  <2>4. "maxcount" \in DOMAIN r0
    BY <1>2 DEF IsRing
  <2> QED
    BY <1>2, <2>1, <2>2, <2>3, <2>4 DEF r0
<1>4. CASE ring.next # ring.first
  <2>1. HoldsFirst(r0, kept, Len(kept), q)
    BY <1>1, <1>2, InsertedAllIs
  <2>2. r = [q EXCEPT !.count = IF ring.count > q.count THEN ring.count ELSE q.count]
    BY <1>1, <1>4 DEF Resized
  <2> HIDE DEF q
  <2>3. SubSeq(kept, 1, Len(kept)) = kept
    BY <1>1, SubSeqFull
  <2>4. /\ IsRing(q) /\ q.maxcount = size + 1 /\ q.count = Len(kept)
        /\ Pending(q) = Newest(kept, size)
    <3>1. r0.maxcount - 1 = size /\ r0.count + Len(kept) = Len(kept)
      BY <1>1, <1>2
    <3> QED
      BY <1>2, <2>1, <2>3, <3>1 DEF HoldsFirst
  <2>5. r = [q EXCEPT !.count = total]
    <3>1. (IF ring.count > q.count THEN ring.count ELSE q.count) = total
      BY <1>1, <2>4
    <3> QED
      BY <2>2, <3>1
  <2>6. r = [maxcount |-> q.maxcount, errors |-> q.errors, next |-> q.next,
             first |-> q.first, count |-> total]
    BY <2>4, <2>5 DEF IsRing
  <2> HIDE DEF r
  <2>7. IsRing(r)
    BY <1>1, <2>4, <2>6 DEF IsRing
  <2>8. Pending(r) = Pending(q) /\ HasRing(r)
    BY <2>4, <2>6 DEF Pending, HasRing
  <2>9. "maxcount" \in DOMAIN r /\ r.count = total
    BY <2>6
  <2> QED
    BY <2>4, <2>7, <2>8, <2>9 DEF r, r0
<1> QED
  BY <1>3, <1>4

\* dwarf_insert_harmless_error().
LEMMA InsertErrorRing == ASSUME RingInv, InsertError, stage' = stage, stage = "open" PROVE RingInv'
<1>1. refused' = refused /\ number' = number + 1 /\ number' \in Nat /\ refused' \in Nat
  BY DEF RingInv, InsertError
<1>2. ASSUME refused = 0 PROVE HasRing(ring') /\ RingFaithful' /\ "maxcount" \in DOMAIN ring'
  <2>1. HasRing(ring) /\ IsRing(ring) /\ Pending(ring) = kept /\ ring.count = total
    BY <1>2 DEF RingInv, RingFaithful
  <2>2. /\ ring' = Inserted(ring, number + 1)
        /\ kept' = Newest(Append(kept, number + 1), ring.maxcount - 1)
        /\ total' = total + 1
    BY DEF InsertError
  <2>3. number + 1 \in Nat
    BY <1>1
  <2>4. /\ IsRing(ring') /\ ring'.maxcount = ring.maxcount /\ ring'.count = total'
        /\ Pending(ring') = kept'
    BY <2>1, <2>2, <2>3, InsertedIs
  <2>5. kept \in Seq(Nat) /\ Len(kept) \in Nat /\ Len(kept) <= total /\ total \in Nat
    BY <1>2, <2>1, PendingIs DEF RingInv, RingFaithful, IsRing
  <2>6. Append(kept, number + 1) \in Seq(Nat) /\ Len(Append(kept, number + 1)) = Len(kept) + 1
    BY <2>3, <2>5, AppendProperties
  <2>7. ring.maxcount - 1 \in Nat /\ ring.maxcount - 1 > 0 /\ ring'.maxcount # 0
    BY <2>1, <2>4 DEF IsRing
  <2>8. /\ kept' \in Seq(Nat)
        /\ Len(kept') = IF Len(kept) + 1 > ring.maxcount - 1 THEN ring.maxcount - 1 ELSE Len(kept) + 1
    BY <2>2, <2>6, <2>7, NewestIs
  <2>9. Len(kept') <= total' /\ Len(kept') > 0
    BY <2>2, <2>5, <2>7, <2>8
  <2>10. kept' # <<>>
    BY <2>9
  <2>11. "maxcount" \in DOMAIN ring'
    BY <2>4 DEF IsRing
  <2> QED
    BY <2>4, <2>7, <2>9, <2>10, <2>11 DEF RingFaithful, HasRing
<1> QED
  BY <1>1, <1>2 DEF RingInv

\* dwarf_get_harmless_error_list().
LEMMA ReadListRing == ASSUME RingInv, ReadList, stage' = stage, stage = "open" PROVE RingInv'
<1>1. refused' = refused /\ number' = number /\ kept' = <<>> /\ total' = 0
  BY DEF ReadList
<1>2. ASSUME refused = 0 PROVE HasRing(ring') /\ RingFaithful' /\ "maxcount" \in DOMAIN ring'
  <2>1. HasRing(ring) /\ IsRing(ring)
    BY <1>2 DEF RingInv, RingFaithful
  <2>2. ring' = [maxcount |-> ring.maxcount, errors |-> ring.errors,
                 next |-> 0, first |-> 0, count |-> 0]
    BY <2>1 DEF ReadList, IsRing
  <2>3. IsRing(ring')
    BY <2>1, <2>2 DEF IsRing
  <2>4. Pending(ring') = <<>> /\ HasRing(ring') /\ ring'.count = 0 /\ "maxcount" \in DOMAIN ring'
    BY <2>1, <2>2, <2>3, EmptyIs DEF HasRing
  <2> QED
    BY <1>1, <2>3, <2>4 DEF RingFaithful
<1> QED
  BY <1>1, <1>2 DEF RingInv

\* dwarf_set_harmless_error_list_size().
LEMMA SetSizeRing ==
    ASSUME RingInv, NEW size \in Sizes, SetSize(size), stage' = stage, stage = "open"
    PROVE  RingInv'
<1>1. /\ refused' = refused /\ number' = number /\ total' = total
      /\ kept' = Newest(kept, size) /\ ring' = Resized(ring, NewRing(size))
  BY DEF SetSize
<1>2. size \in Nat \ {0}
  BY SizesAssumption
<1>3. ASSUME refused = 0 PROVE HasRing(ring') /\ RingFaithful' /\ "maxcount" \in DOMAIN ring'
  <2>1. RingFaithful
    BY <1>3 DEF RingInv
  <2>2. /\ IsRing(ring') /\ HasRing(ring') /\ "maxcount" \in DOMAIN ring'
        /\ Pending(ring') = kept' /\ ring'.count = total'
    BY <1>1, <1>2, <2>1, ResizedIs
  <2>3. /\ kept \in Seq(Nat) /\ Len(kept) \in Nat /\ Len(kept) <= total /\ total \in Nat
        /\ kept = <<>> => total = 0
    BY <2>1, PendingIs DEF RingFaithful, IsRing
  <2>4. kept' \in Seq(Nat) /\ Len(kept') = IF Len(kept) > size THEN size ELSE Len(kept)
    BY <1>1, <1>2, <2>3, NewestIs
  <2>5. Len(kept') <= total' /\ (Len(kept') = 0 => Len(kept) = 0)
    BY <1>1, <1>2, <2>3, <2>4
  <2>6. kept' = <<>> => total' = 0
    BY <1>1, <2>3, <2>5
  <2> QED
    BY <2>2, <2>5, <2>6 DEF RingFaithful
<1> QED
  BY <1>1, <1>3 DEF RingInv

\* Allocating and freeing leave the list alone, and no Dwarf_Debug that is
\* being finished is in use again.
LEMMA AllocStepRing == ASSUME RingInv, AllocStep, UNCHANGED ringVars PROVE RingInv'
<1>1. stage' = "open" => stage = "open"
  BY DEF AllocStep, GetAlloc, ConstructorFails, Dealloc, FreeContext, FinishSearch, FreeNode,
         NextChain, Gone
<1>2. UNCHANGED <<ring, kept, total, number, refused>>
  BY DEF ringVars
<1>3. HasRing(ring)' <=> HasRing(ring)
  BY <1>2 DEF HasRing
<1>4. RingFaithful' <=> RingFaithful
  BY <1>2 DEF RingFaithful
<1> QED
  BY <1>1, <1>2, <1>3, <1>4 DEF RingInv

\* Every step keeps the ring.
LEMMA RingInvStep == ASSUME RingInv, [Next]_memory PROVE RingInv'
<1>1. CASE AllocStep /\ UNCHANGED ringVars
  BY <1>1, AllocStepRing
<1>2. CASE Idle /\ RingNext /\ UNCHANGED allocVars
  <2>1. stage = "open" /\ stage' = stage
    BY <1>2 DEF Idle, allocVars
  <2>2. CASE \E size \in Sizes : SetSizeFails(size)
    <3>1. refused \in Nat /\ refused' = refused + 1 /\ number' = number
      BY <2>2 DEF SetSizeFails, RingInv
    <3>2. refused' \in Nat /\ refused' # 0
      BY <3>1
    <3> QED
      BY <3>1, <3>2 DEF RingInv
  <2> QED
    BY <1>2, <2>1, <2>2, InsertErrorRing, ReadListRing, SetSizeRing DEF RingNext
<1>3. CASE CleanAndDestroy
  <2>1. stage' = "walk" /\ UNCHANGED <<kept, total, number, refused>>
    BY <1>3 DEF CleanAndDestroy, Destroy, Cleanout
  <2>2. ASSUME refused = 0 PROVE "maxcount" \in DOMAIN ring' /\ ring'.maxcount = 0
    BY <1>3, <2>2 DEF CleanAndDestroy, Cleanout, RingInv
  <2> QED
    BY <2>1, <2>2 DEF RingInv, HasRing
<1>4. CASE UNCHANGED memory
  <2>1. UNCHANGED <<stage, ring, kept, total, number, refused>>
    BY <1>4 DEF memory, allocVars, ringVars
  <2> QED
    BY <2>1 DEF RingInv, RingFaithful, HasRing
<1> QED
  BY <1>1, <1>2, <1>3, <1>4 DEF Next

\* A Dwarf_Debug begins with an empty list.
LEMMA RingInvInit == Init => RingInv
<1> SUFFICES ASSUME Init PROVE RingInv
  OBVIOUS
<1>1. ring = NewRing(DefaultSize) /\ kept = <<>> /\ total = 0 /\ number = 0 /\ refused = 0
  BY DEF Init, RingInit
<1>2. DefaultSize \in Nat \ {0}
  BY SizesAssumption
<1>3. IsRing(ring) /\ Pending(ring) = <<>> /\ HasRing(ring) /\ ring.count = 0
  BY <1>1, <1>2, NewRingIs
<1>4. "maxcount" \in DOMAIN ring
  BY <1>3 DEF IsRing
<1> QED
  BY <1>1, <1>3, <1>4 DEF RingInv, RingFaithful

\* Through every change of its size the ring has the newest harmless errors in
\* the order they came in, and counts those that fell out of it.
THEOREM NewestKept == Spec => []ListIsNewest
<1>1. RingInv => ListIsNewest
  BY DEF RingInv, RingFaithful, ListIsNewest
<1> QED
  BY <1>1, RingInvInit, RingInvStep, PTL DEF Spec
=============================================================================
