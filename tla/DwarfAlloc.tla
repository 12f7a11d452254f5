----------------------------- MODULE DwarfAlloc -----------------------------
(***************************************************************************)
(* The memory of a Dwarf_Debug (dwarf_alloc.c): _dwarf_get_alloc() and     *)
(* dwarf_dealloc(), which enter and delete blocks in the hash table of     *)
(* SearchHash, and _dwarf_free_all_of_one_debug(), which releases what is  *)
(* left.  A block is an address; the record in front of it holds its type. *)
(***************************************************************************)
EXTENDS SearchHash

CONSTANTS
    Blocks,    \* addresses malloc() may return
    MaxFails   \* bound: allocations that fail

ASSUME BlocksAssumption == Keys = Blocks
ASSUME MaxFailsAssumption == MaxFails \in Nat

\* The types that are treated differently: a string may turn out to lie in a
\* section, contexts are also listed in the Dwarf_Debug, heads have a
\* destructor that releases the memory attached to them, and frames a
\* constructor, too, which may fail.
Types == {"plain", "string", "context", "head", "frame"}

Unused == "unused"

VARIABLES
    type,      \* rd_type of every block, Unused when it is not allocated
    attached,  \* heads and frames whose own memory has not been released
    contexts,  \* de_cu_context_list
    tree,      \* de_alloc_tree exists
    fails,     \* allocations that failed
    stage      \* "open", or the place in _dwarf_free_all_of_one_debug()

allocVars == <<hashVars, type, attached, contexts, tree, fails, stage>>

Live == {b \in Blocks : type[b] # Unused}

\* _dwarf_get_debug(): there is no table if the caller switched the tracking
\* off, or if there is no memory for it.
AllocInit ==
    /\ HashInit
    /\ type = [b \in Blocks |-> Unused]
    /\ attached = {} /\ contexts = {}
    /\ tree \in BOOLEAN
    /\ fails = 0
    /\ stage = "open"

\* granted is the memory's answer if it is asked; refusals are counted.
Ask(needed, granted) ==
    /\ ~needed => granted
    /\ granted \/ fails < MaxFails
    /\ fails' = IF granted THEN fails ELSE fails + 1

Idle == stage = "open" /\ key = NoKey

(***************************************************************************)
(* _dwarf_get_alloc() and dwarf_tsearch()                                  *)
(***************************************************************************)

GetAlloc(b, t, granted) ==
    /\ Idle
    /\ type[b] = Unused
    /\ type' = [type EXCEPT ![b] = t]
    /\ attached' = IF t \in {"head", "frame"} THEN attached \cup {b} ELSE attached
    /\ contexts' = IF t = "context" THEN contexts \cup {b} ELSE contexts
    /\ Ask(tree /\ Overfull /\ MayGrow, granted)
    /\ IF tree THEN Search(b, granted) ELSE UNCHANGED hashVars
    /\ UNCHANGED <<tree, stage>>

\* The constructor fails: the block is neither tracked nor handed out.
ConstructorFails(b) ==
    /\ Idle
    /\ type[b] = Unused
    /\ Ask(TRUE, FALSE)
    /\ type' = [type EXCEPT ![b] = "frame"]
    /\ UNCHANGED <<hashVars, attached, contexts, tree, stage>>

\* The rest of dwarf_tsearch().  If the last step finds no memory the block is
\* handed out all the same.
FinishSearch ==
    /\ \/ Move /\ UNCHANGED fails
       \/ MoveFails /\ Ask(TRUE, FALSE)
       \/ Growing /\ NextSlot /\ UNCHANGED fails
       \/ Grown /\ UNCHANGED fails
       \/ \E granted \in BOOLEAN :
            Enter(granted) /\ Ask(NeedsMemory(head, key), granted)
    /\ UNCHANGED <<type, attached, contexts, tree, stage>>

(***************************************************************************)
(* dwarf_dealloc()                                                         *)
(***************************************************************************)

\* Mutant: the block is freed without being deleted from the table.
DiscardKeepingKey(b) ==
    /\ attached' = attached \ {b}
    /\ UNCHANGED hashVars
    /\ type' = [type EXCEPT ![b] = Unused]

\* The destructor, the deletion from the table and free().
Discard(b) ==
    /\ attached' = attached \ {b}
    /\ IF tree THEN Delete(b) ELSE UNCHANGED hashVars
    /\ type' = [type EXCEPT ![b] = Unused]

\* A string that the table does not know is taken for one in a section, and
\* left alone.
InSection(b) == tree /\ type[b] = "string" /\ ~HasKey(head, b)

\* A caller gives back what it got, with the type it asked for.  Contexts are
\* given back by the library only.
Dealloc(b) ==
    /\ Idle
    /\ type[b] \notin {Unused, "context"}
    /\ ~InSection(b)
    /\ Discard(b)
    /\ UNCHANGED <<contexts, tree, fails, stage>>

(***************************************************************************)
(* _dwarf_free_all_of_one_debug()                                          *)
(***************************************************************************)

Finishing == stage \in {"open", "contexts"} /\ key = NoKey

\* freecontextlist() gives the contexts back one by one.
FreeContext(b) ==
    /\ Finishing
    /\ b \in contexts
    /\ stage' = "contexts"
    /\ contexts' = contexts \ {b}
    /\ Discard(b)
    /\ UNCHANGED <<tree, fails>>

\* dwarf_tdestroy() begins to walk the table.
Destroy ==
    /\ Finishing
    /\ contexts = {}
    /\ stage' = "walk"
    /\ Walk
    /\ UNCHANGED <<type, attached, contexts, tree, fails>>

\* Mutant: free() without the destructor.
FreeNodePlainly ==
    /\ stage = "walk"
    /\ Visit
    /\ type' = [type EXCEPT ![KeyAt] = Unused]
    /\ UNCHANGED <<attached, contexts, tree, fails, stage>>

\* tdestroy_free_node(): the destructor and free().
FreeNode ==
    /\ stage = "walk"
    /\ Visit
    /\ attached' = attached \ {KeyAt}
    /\ type' = [type EXCEPT ![KeyAt] = Unused]
    /\ UNCHANGED <<contexts, tree, fails, stage>>

NextChain ==
    /\ stage = "walk"
    /\ NextSlot
    /\ UNCHANGED <<type, attached, contexts, tree, fails, stage>>

Gone ==
    /\ stage = "walk" /\ AtEnd
    /\ stage' = "gone"
    /\ UNCHANGED <<hashVars, type, attached, contexts, tree, fails>>

AllocStep ==
    \/ \E b \in Blocks :
        \/ \E t \in Types, granted \in BOOLEAN : GetAlloc(b, t, granted)
        \/ ConstructorFails(b)
        \/ Dealloc(b)
        \/ FreeContext(b)
    \/ FinishSearch
    \/ FreeNode
    \/ NextChain
    \/ Gone

AllocNext == AllocStep \/ Destroy

AllocSpec == AllocInit /\ [][AllocNext]_allocVars

(***************************************************************************)
(* What has to hold                                                        *)
(***************************************************************************)

\* Every key lies in the slot where a search looks for it, once.
Placed(t) ==
    \A h \in DOMAIN t.slot : \A i \in DOMAIN t.slot[h] :
        /\ Position(t, t.slot[h][i]) = h
        /\ \A j \in DOMAIN t.slot[h] : t.slot[h][j] = t.slot[h][i] => j = i

\* While the table grows, each key is either in the new table or still to be
\* moved, never both and never neither, whichever allocation fails.
Dividing ==
    IF Growing
    THEN /\ KeysOf(fresh) \cup Ahead = KeysOf(head)
         /\ KeysOf(fresh) \cap Ahead = {}
    ELSE fresh = head

\* The keys that the table is still responsible for.
Owned == IF stage \in {"walk", "gone"} THEN Ahead ELSE KeysOf(head)

\* The table's keys can be found, and are those of blocks in use, also while it
\* grows (dwarf_tsearchhash.c:339).
TableSound ==
    /\ Placed(head) /\ Placed(fresh)
    /\ Dividing
    /\ Owned \subseteq Live

\* Memory that hangs on a block is released together with it, by
\* dwarf_dealloc() and by dwarf_tdestroy() alike.
AttachedGoesToo == attached \subseteq Live

Memory == INSTANCE DebugMemory WITH
    live <- Live,
    owned <- Owned,
    closed <- stage = "gone"

\* Each block of a Dwarf_Debug is released once, and none that is tracked
\* survives dwarf_object_finish().
Implements == Memory!Spec
=============================================================================
