----------------------------- MODULE SearchHash -----------------------------
(***************************************************************************)
(* The hash table of libdwarf (dwarf_tsearchhash.c), in which a            *)
(* Dwarf_Debug remembers what it has allocated.  A slot holds a chain of   *)
(* keys; a key that is new to an occupied slot goes behind the first key   *)
(* of the chain.  When the table holds more keys than FillPercent of its   *)
(* size, the next insertion first moves every key to a table of the next   *)
(* size, one at a time, and gives the new table up when memory runs out.   *)
(*                                                                         *)
(* The operations of the interface are actions with the memory's answers   *)
(* as parameters; DwarfAlloc makes the calls.                              *)
(***************************************************************************)
EXTENDS Integers, Sequences, SequencesExt

CONSTANTS
    Keys,         \* addresses that may be entered
    Primes,       \* the sizes a table can have, growing
    HashOf,       \* hashfunc_: the hash of a key
    FillPercent,  \* allowed_fill_percent
    NoKey         \* no search is going on

ASSUME KeysAssumption == NoKey \notin Keys
ASSUME PrimesAssumption ==
    Primes \in Seq(Nat \ {0}) /\ Primes # <<>> /\ FillPercent \in Nat
ASSUME HashAssumption == HashOf \in [Keys -> Nat]

VARIABLES
    head,   \* the table: index of its size, record_count_, chains by slot
    fresh,  \* newhead of resize_table()
    ix,     \* the slot that resize_table() or dwarf_tdestroy() has come to
    pos,    \* and the entry of its chain
    key     \* the key being entered by dwarf_tsearch(), NoKey outside of it

hashVars == <<head, fresh, ix, pos, key>>

(***************************************************************************)
(* Tables                                                                  *)
(***************************************************************************)

EmptyTable(i) ==
    [index |-> i, count |-> 0, slot |-> [h \in 0 .. Primes[i] - 1 |-> <<>>]]

AllowedFill(i) == (Primes[i] * FillPercent) \div 100

Position(t, k) == HashOf[k] % Primes[t.index]

Chain(t, k) == t.slot[Position(t, k)]

\* tsearch_inner() compares the key with every entry of its chain.
HasKey(t, k) == \E i \in DOMAIN Chain(t, k) : Chain(t, k)[i] = k

\* Only an entry of a chain needs memory, the first one lies in the table.
NeedsMemory(t, k) == Chain(t, k) # <<>>

\* A new key goes into the free slot, or behind the head of the chain.
Chained(c, k) == IF c = <<>> THEN <<k>> ELSE <<Head(c), k>> \o Tail(c)

WithChain(t, h, c, n) ==
    [index |-> t.index, count |-> n, slot |-> [t.slot EXCEPT ![h] = c]]

Put(t, k) == WithChain(t, Position(t, k), Chained(Chain(t, k), k), t.count + 1)

\* dwarf_tdelete(): the entry is unlinked; the second is pulled up if it is the
\* head of the chain.
Drop(t, k) ==
    IF HasKey(t, k)
    THEN LET c == Chain(t, k)
             i == CHOOSE j \in DOMAIN c : c[j] = k
         IN WithChain(t, Position(t, k), RemoveAt(c, i), t.count - 1)
    ELSE t

KeysOf(t) == UNION {{t.slot[h][i] : i \in DOMAIN t.slot[h]} : h \in DOMAIN t.slot}

\* The loop over the slots and the entries of their chains, which both
\* resize_table() and dwarf_tdestroy_inner() go through.
AtKey == ix \in DOMAIN head.slot /\ pos \in DOMAIN head.slot[ix]

AtEnd == ix \notin DOMAIN head.slot

KeyAt == head.slot[ix][pos]

\* The keys that the loop has not come to.
Ahead ==
    UNION {{head.slot[h][i] : i \in {j \in DOMAIN head.slot[h] : h > ix \/ j >= pos}} :
           h \in {g \in DOMAIN head.slot : g >= ix}}

(***************************************************************************)
(* The operations                                                          *)
(***************************************************************************)

HashInit ==
    /\ head = EmptyTable(1)
    /\ fresh = head
    /\ ix = 0 /\ pos = 1
    /\ key = NoKey

Growing == fresh.index # head.index

Overfull == head.count > AllowedFill(head.index)

\* resize_table() refuses when there is no larger size or when the allowed fill
\* of that size is implausibly small.  The sizes are taken to lie so far apart
\* that the larger table does not have to grow while it is being filled.
MayGrow ==
    /\ head.index < Len(Primes)
    /\ AllowedFill(head.index + 1) >= Primes[head.index + 1] \div 2

\* dwarf_tsearch() is called; resize_table() starts if the table is full and if
\* there is memory for a larger one.
Search(k, granted) ==
    /\ key = NoKey
    /\ key' = k
    /\ fresh' = IF Overfull /\ MayGrow /\ granted
                THEN EmptyTable(head.index + 1) ELSE fresh
    /\ ix' = 0 /\ pos' = 1
    /\ UNCHANGED head

\* Mutant: a key keeps its slot, although the new table has another size.
MoveToSameSlot ==
    /\ Growing /\ AtKey
    /\ fresh' = WithChain(fresh, ix, Chained(fresh.slot[ix], KeyAt), fresh.count + 1)
    /\ pos' = pos + 1
    /\ UNCHANGED <<head, ix, key>>

\* One turn of the loop: a key goes to the new table.
Move ==
    /\ Growing /\ AtKey
    /\ fresh' = Put(fresh, KeyAt)
    /\ pos' = pos + 1
    /\ UNCHANGED <<head, ix, key>>

\* The chain is at its end.
NextSlot ==
    /\ ~AtEnd /\ ~AtKey
    /\ ix' = ix + 1
    /\ pos' = 1
    /\ UNCHANGED <<head, fresh, key>>

\* fillnewfail: the new table is given up, the old one stays as it is.
MoveFails ==
    /\ Growing /\ AtKey
    /\ NeedsMemory(fresh, KeyAt)
    /\ fresh' = head
    /\ UNCHANGED <<head, ix, pos, key>>

\* The old table's chains and slots are freed and the new one takes its place.
Grown ==
    /\ Growing /\ AtEnd
    /\ head' = fresh
    /\ UNCHANGED <<fresh, ix, pos, key>>

\* The search itself, after the table has grown or not.
Enter(granted) ==
    /\ key # NoKey /\ ~Growing
    /\ head' = IF ~HasKey(head, key) /\ (NeedsMemory(head, key) => granted)
               THEN Put(head, key) ELSE head
    /\ fresh' = head'
    /\ key' = NoKey
    /\ UNCHANGED <<ix, pos>>

Delete(k) ==
    /\ key = NoKey
    /\ head' = Drop(head, k)
    /\ fresh' = head'
    /\ UNCHANGED <<ix, pos, key>>

\* dwarf_tdestroy() starts its walk; Visit is one call of its callback.
Walk ==
    /\ key = NoKey
    /\ ix' = 0 /\ pos' = 1
    /\ UNCHANGED <<head, fresh, key>>

Visit ==
    /\ AtKey
    /\ pos' = pos + 1
    /\ UNCHANGED <<head, fresh, ix, key>>
=============================================================================
