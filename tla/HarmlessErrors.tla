--------------------------- MODULE HarmlessErrors ---------------------------
(***************************************************************************)
(* The list of harmless errors of a Dwarf_Debug (dwarf_harmless.c): a ring *)
(* of fixed size in which new messages replace the oldest ones.  One place *)
(* of the ring always stays free, so that equal indices mean an empty list.*)
(***************************************************************************)
EXTENDS Integers, Sequences

CONSTANTS
    Sizes,      \* numbers of messages a caller may ask the ring to hold
    DefaultSize, \* the number it holds at first
    MaxErrors,  \* bound: messages inserted
    MaxRefused  \* bound: allocations that fail

ASSUME SizesAssumption == Sizes \subseteq Nat \ {0} /\ DefaultSize \in Nat \ {0}
ASSUME MaxErrorsAssumption == MaxErrors \in Nat /\ MaxRefused \in Nat

VARIABLES
    ring,     \* dh_maxcount, dh_errors, dh_next_to_use, dh_first, dh_errs_count
    kept,     \* the list that the ring stands for, oldest message first
    total,    \* messages inserted since the list was last read
    number,   \* messages inserted altogether; a message is its number
    refused   \* allocations that failed

ringVars == <<ring, kept, total, number, refused>>

NoMessage == 0

\* dwarf_harmless_init().
NewRing(size) ==
    [maxcount |-> size + 1, errors |-> [i \in 0 .. size |-> NoMessage],
     next |-> 0, first |-> 0, count |-> 0]

\* What it leaves behind if there is no memory.
NoRing == [maxcount |-> 0, errors |-> <<>>, next |-> 0, first |-> 0, count |-> 0]

HasRing(r) == r.maxcount # 0

Following(r, i) == (i + 1) % r.maxcount

\* Mutant: the oldest message is not given up when the ring is full.
InsertedKeepingFirst(r, m) ==
    IF ~HasRing(r)
    THEN [r EXCEPT !.count = @ + 1]
    ELSE [r EXCEPT !.errors[r.next] = m, !.count = @ + 1, !.next = Following(r, @)]

\* dwarf_insert_harmless_error().
Inserted(r, m) ==
    IF ~HasRing(r)
    THEN [r EXCEPT !.count = @ + 1]
    ELSE LET next == Following(r, r.next)
         IN [r EXCEPT !.errors[r.next] = m,
                      !.count = @ + 1,
                      !.next = next,
                      !.first = IF next = @ THEN Following(r, @) ELSE @]

\* The messages from dh_first to dh_next_to_use.
Pending(r) ==
    IF ~HasRing(r) THEN <<>>
    ELSE [i \in 1 .. (r.next - r.first) % r.maxcount |->
            r.errors[(r.first + i - 1) % r.maxcount]]

\* The messages s inserted one after the other.
InsertedAll(r, s) ==
    LET after[k \in 0 .. Len(s)] == IF k = 0 THEN r ELSE Inserted(after[k - 1], s[k])
    IN after[Len(s)]

\* dwarf_set_harmless_error_list_size(): the messages of the old ring are
\* inserted into the new one, and the larger of the two counts is kept.
Resized(r, new) ==
    IF r.next = r.first THEN new
    ELSE [InsertedAll(new, Pending(r)) EXCEPT !.count = IF r.count > @ THEN r.count ELSE @]

\* The newest n members of a sequence.
Newest(s, n) == SubSeq(s, IF Len(s) > n THEN Len(s) - n + 1 ELSE 1, Len(s))

RingInit ==
    /\ ring = NewRing(DefaultSize)
    /\ kept = <<>> /\ total = 0
    /\ number = 0
    /\ refused = 0

InsertError ==
    /\ number < MaxErrors
    /\ number' = number + 1
    /\ ring' = Inserted(ring, number + 1)
    /\ kept' = Newest(Append(kept, number + 1), ring.maxcount - 1)
    /\ total' = total + 1
    /\ UNCHANGED refused

\* dwarf_get_harmless_error_list() empties the list it returns.
ReadList ==
    /\ ring.count # 0
    /\ ring' = IF HasRing(ring)
               THEN [ring EXCEPT !.next = 0, !.first = 0, !.count = 0]
               ELSE [ring EXCEPT !.count = 0]
    /\ kept' = <<>> /\ total' = 0
    /\ UNCHANGED <<number, refused>>

SetSize(size) ==
    /\ size + 1 # ring.maxcount
    /\ ring' = Resized(ring, NewRing(size))
    /\ kept' = Newest(kept, size)
    /\ UNCHANGED <<total, number, refused>>

SetSizeFails(size) ==
    /\ size + 1 # ring.maxcount
    /\ refused < MaxRefused
    /\ refused' = refused + 1
    /\ ring' = Resized(ring, NoRing)
    /\ UNCHANGED <<kept, total, number>>

\* dwarf_harmless_cleanout(), when the Dwarf_Debug is finished.
Cleanout ==
    /\ ring' = [ring EXCEPT !.maxcount = 0, !.errors = <<>>]
    /\ UNCHANGED <<kept, total, number, refused>>

RingNext ==
    \/ InsertError
    \/ ReadList
    \/ \E size \in Sizes : SetSize(size) \/ SetSizeFails(size)

(***************************************************************************)
(* What has to hold                                                        *)
(***************************************************************************)

\* As long as no allocation has failed, the ring has the newest messages in
\* the order they came in, as many as its size allows, through every change of
\* its size, and counts also those that fell out of it.
ListIsNewest ==
    HasRing(ring) /\ refused = 0 => Pending(ring) = kept /\ ring.count = total
=============================================================================
