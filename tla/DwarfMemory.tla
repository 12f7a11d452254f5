---------------------------- MODULE DwarfMemory ----------------------------
(***************************************************************************)
(* A Dwarf_Debug with what it owns: its allocations (DwarfAlloc) and its   *)
(* list of harmless errors (HarmlessErrors), both of which end with it.    *)
(***************************************************************************)
EXTENDS DwarfAlloc, HarmlessErrors

memory == <<allocVars, ringVars>>

Init == AllocInit /\ RingInit

\* _dwarf_free_all_of_one_debug() cleans the list up before it walks the table.
CleanAndDestroy == Destroy /\ Cleanout

Next ==
    \/ AllocStep /\ UNCHANGED ringVars
    \/ Idle /\ RingNext /\ UNCHANGED allocVars
    \/ CleanAndDestroy

Spec == Init /\ [][Next]_memory
=============================================================================
