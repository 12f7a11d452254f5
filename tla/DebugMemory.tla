---------------------------- MODULE DebugMemory ----------------------------
(***************************************************************************)
(* What a Dwarf_Debug promises about the memory it hands out: a block is   *)
(* released once, by dwarf_dealloc() or, if the caller forgot, when the    *)
(* Dwarf_Debug is finished.  Memory that is short may lose track of a      *)
(* block, never the other way round: what is tracked is in use.            *)
(***************************************************************************)
CONSTANT Blocks

VARIABLES
    live,    \* blocks in use
    owned,   \* blocks the Dwarf_Debug keeps track of
    closed   \* dwarf_object_finish() has returned

memoryVars == <<live, owned, closed>>

Init == live = {} /\ owned = {} /\ closed = FALSE

Take(b) ==
    /\ ~closed /\ b \notin live
    /\ live' = live \cup {b}
    /\ UNCHANGED <<owned, closed>>

Track(b) ==
    /\ ~closed /\ b \in live \ owned
    /\ owned' = owned \cup {b}
    /\ UNCHANGED <<live, closed>>

Release(b) ==
    /\ ~closed /\ b \in live
    /\ live' = live \ {b}
    /\ owned' = owned \ {b}
    /\ UNCHANGED closed

Close ==
    /\ ~closed /\ owned = {}
    /\ closed' = TRUE
    /\ UNCHANGED <<live, owned>>

Next == Close \/ \E b \in Blocks : Take(b) \/ Track(b) \/ Release(b)

Spec == Init /\ [][Next]_memoryVars
=============================================================================
