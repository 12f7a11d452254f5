---------------------------- MODULE ProcessGroups ----------------------------
(***************************************************************************)
(* dwstOfProcessExt() (src/dwst-process.c): the addresses of a stack are   *)
(* taken in groups that lie in the same module, and each group is handed   *)
(* to dwstOfFileExt() with the module's base and file name.  Meanwhile     *)
(* other threads of the process may load and unload modules, so that every *)
(* VirtualQuery() and GetModuleFileNameW() sees the address space of its   *)
(* own moment.                                                             *)
(***************************************************************************)
EXTENDS Naturals, Sequences

CONSTANTS
  Modules,    \* the images that can be mapped
  Base,       \* Base[m]: the address module m is mapped at
  Pages,      \* Pages[m]: the addresses in it
  Code,       \* Code[m]: those whose page is executable
  Stacks,     \* the arrays of addresses passed in
  MaxChanges, \* bound: how often a module is loaded or unloaded
  None        \* no module

ASSUME ModulesAssumption ==
  /\ None \notin Modules
  /\ \A m \in Modules :
       Base[m] \in Nat \ {0} /\ Base[m] \in Pages[m] /\ Code[m] \subseteq Pages[m]
ASSUME StacksAssumption == \A a \in Stacks : a \in Seq(Nat)
ASSUME ChangesAssumption == MaxChanges \in Nat

VARIABLES
  addr,       \* the addresses
  loaded,     \* the modules that are mapped
  pc,         \* where the code is
  s, c,       \* the group being formed: addr[s] to addr[s + c - 1]
  base,       \* the module whose base address is in base
  name,       \* the module whose file name is in name
  converted,  \* the number of addresses handed on
  groups,     \* history: the calls of dwstOfFileExt()
  changes,    \* history: modules loaded and unloaded
  unnamed     \* history: GetModuleFileNameW() has failed

vars == <<addr, loaded, pc, s, c, base, name, converted, groups, changes, unnamed>>
memory == <<loaded, changes>>

count == Len(addr)

\* The module an address lies in at this moment.
ModuleAt(a) ==
  IF \E m \in loaded : a \in Pages[m]
    THEN CHOOSE m \in loaded : a \in Pages[m] ELSE None

\* The address is in committed, executable memory of an image.
IsCode(a) == ModuleAt(a) # None /\ a \in Code[ModuleAt(a)]

\* Of the addresses after the first only the allocation's base counts.
SameModule(a) == ModuleAt(a) # None /\ Base[ModuleAt(a)] = base

Init ==
  /\ addr \in Stacks
  /\ loaded \in SUBSET Modules
  /\ \A m, k \in loaded : m # k => Pages[m] \cap Pages[k] = {}
  /\ pc = "first" /\ s = 1 /\ c = 0 /\ base = 0 /\ name = None /\ converted = 0
  /\ groups = <<>> /\ changes = 0 /\ unnamed = FALSE

-----------------------------------------------------------------------------
(* Other threads.                                                          *)

Load(m) ==
  /\ changes < MaxChanges /\ pc # "done"
  /\ m \notin loaded
  /\ \A k \in loaded : Pages[m] \cap Pages[k] = {}
  /\ loaded' = loaded \cup {m}
  /\ changes' = changes + 1
  /\ UNCHANGED <<addr, pc, s, c, base, name, converted, groups, unnamed>>

Unload(m) ==
  /\ changes < MaxChanges /\ pc # "done"
  /\ m \in loaded
  /\ loaded' = loaded \ {m}
  /\ changes' = changes + 1
  /\ UNCHANGED <<addr, pc, s, c, base, name, converted, groups, unnamed>>

-----------------------------------------------------------------------------
(* The loop.                                                               *)

\* The address is not one of code in an image: go on with the next.
SkipAddress ==
  /\ pc = "first"
  /\ s <= count
  /\ ~IsCode(addr[s])
  /\ s' = s + 1
  /\ UNCHANGED <<addr, memory, pc, c, base, name, converted, groups, unnamed>>

TakeBase ==
  /\ pc = "first"
  /\ s <= count
  /\ IsCode(addr[s])
  /\ base' = Base[ModuleAt(addr[s])]
  /\ pc' = "name"
  /\ UNCHANGED <<addr, memory, s, c, name, converted, groups, unnamed>>

\* GetModuleFileNameW() fails, as it must if no module is there any more.
NameFails ==
  /\ pc = "name"
  /\ \/ UNCHANGED unnamed /\ \A m \in loaded : Base[m] # base
     \/ unnamed' = TRUE
  /\ s' = s + 1
  /\ pc' = "first"
  /\ UNCHANGED <<addr, memory, c, base, name, converted, groups>>

TakeName ==
  /\ pc = "name"
  /\ \E m \in loaded : Base[m] = base /\ name' = m
  /\ c' = 1
  /\ pc' = "extend"
  /\ UNCHANGED <<addr, memory, s, base, converted, groups, unnamed>>

Extend ==
  /\ pc = "extend"
  /\ s + c <= count
  /\ SameModule(addr[s + c])
  /\ c' = c + 1
  /\ UNCHANGED <<addr, memory, pc, s, base, name, converted, groups, unnamed>>

\* A group that ends one address early.
StopEarly ==
  /\ pc = "extend"
  /\ s + c < count => ~SameModule(addr[s + c])
  /\ pc' = "convert"
  /\ UNCHANGED <<addr, memory, s, c, base, name, converted, groups, unnamed>>

Stop ==
  /\ pc = "extend"
  /\ s + c <= count => ~SameModule(addr[s + c])
  /\ pc' = "convert"
  /\ UNCHANGED <<addr, memory, s, c, base, name, converted, groups, unnamed>>

\* A step to the last address of the group instead of the first after it.
ConvertRepeatsLast ==
  /\ pc = "convert"
  /\ groups' = Append(groups, [from |-> s, to |-> s + c - 1, base |-> base, name |-> name])
  /\ converted' = converted + c
  /\ s' = IF c = 1 THEN s + 1 ELSE s + c - 1
  /\ pc' = "first"
  /\ UNCHANGED <<addr, memory, c, base, name, unnamed>>

\* dwstOfFileExt() answers all of the group's addresses and returns how many
\* they are; then the loop's own increment steps to the first address after it.
Convert ==
  /\ pc = "convert"
  /\ groups' = Append(groups, [from |-> s, to |-> s + c - 1, base |-> base, name |-> name])
  /\ converted' = converted + c
  /\ s' = s + c
  /\ pc' = "first"
  /\ UNCHANGED <<addr, memory, c, base, name, unnamed>>

Return ==
  /\ pc = "first"
  /\ s > count
  /\ pc' = "done"
  /\ UNCHANGED <<addr, memory, s, c, base, name, converted, groups, unnamed>>

Done == pc = "done" /\ UNCHANGED vars

Loop ==
  \/ SkipAddress \/ TakeBase \/ NameFails \/ TakeName
  \/ Extend \/ Stop \/ Convert \/ Return
Next == Loop \/ (\E m \in Modules : Load(m) \/ Unload(m)) \/ Done

Spec == Init /\ [][Next]_vars

-----------------------------------------------------------------------------

Group == [from : Nat \ {0}, to : Nat \ {0}, base : {Base[m] : m \in Modules}, name : Modules]

\* The variables' types; a group being formed stays within the array.
TypeOK ==
  /\ addr \in Seq(Nat) /\ loaded \subseteq Modules /\ changes \in 0 .. MaxChanges
  /\ pc \in {"first", "name", "extend", "convert", "done"}
  /\ s \in 1 .. count + 1
  /\ pc \in {"extend", "convert"} => c \in 1 .. count + 1 - s
  /\ base \in {0} \cup {Base[m] : m \in Modules}
  /\ name \in Modules \cup {None}
  /\ converted \in 0 .. count
  /\ groups \in Seq(Group) /\ unnamed \in BOOLEAN

\* The groups are in order and share no address, and the name given with each
\* belongs to a module at the group's base, whatever is loaded or unloaded;
\* none reaches an address that has not been looked at, or is not in the array.
GroupsInOrder ==
  /\ TypeOK
  /\ \A g \in DOMAIN groups :
       /\ groups[g].from <= groups[g].to /\ groups[g].to < s
       /\ Base[groups[g].name] = groups[g].base
       /\ \A h \in 1 .. g - 1 : groups[h].to < groups[g].from
  /\ pc \in {"extend", "convert"} => Base[name] = base

InGroup(k) == \E g \in DOMAIN groups : groups[g].from <= k /\ k <= groups[g].to

\* If no module comes or goes and every name can be had, no address of code is
\* left out, and neighbours in one module are converted by one call.
NothingLost ==
  (pc = "done" /\ changes = 0 /\ ~unnamed) =>
    /\ \A k \in 1 .. count : IsCode(addr[k]) => InGroup(k)
    /\ \A g \in DOMAIN groups : \A k \in groups[g].from .. groups[g].to :
         ModuleAt(addr[k]) = groups[g].name
    /\ \A g, h \in DOMAIN groups :
         (groups[g].to + 1 = groups[h].from) => groups[g].name # groups[h].name

=============================================================================
