------------------------- MODULE ProcessGroupsProofs -------------------------
(***************************************************************************)
(* For every chain of frames, and however often other threads load and     *)
(* unload modules between the steps of dwstOfProcessExt(): the addresses   *)
(* captured are calls of the chain, none left out; the groups are in       *)
(* order, disjoint and inside the array, each with the name of a module at *)
(* its base; no address of code is lost; and the dialog shows one text,    *)
(* with the lines of each group below its base.  The first invariant adds  *)
(* what the loop has established about the group that it is forming; the   *)
(* others follow the walk along the chain, the text and the lines.         *)
(***************************************************************************)
EXTENDS CrashReport, TLAPS, SequenceTheorems, FiniteSets, FiniteSetTheorems

\* The group starts inside the array, at the base of a module; once it has a
\* name, that is a module, too.  No address was converted that is not behind.
Forming ==
  /\ pc \in {"name", "extend", "convert"} => s <= count /\ base \in {Base[m] : m \in Modules}
  /\ pc \in {"extend", "convert"} => name \in Modules
  /\ converted < s

IInv == GroupsInOrder /\ Forming

-----------------------------------------------------------------------------

\* The numbers that the loop compares are natural numbers.
LEMMA Sizes ==
  ASSUME TypeOK
  PROVE  count \in Nat /\ s \in Nat /\ s >= 1 /\ s <= count + 1 /\ converted \in Nat
  <1>1. count \in Nat
    BY DEF TypeOK, count
  <1>2. QED
    BY <1>1 DEF TypeOK

\* An address of code lies in a module.
LEMMA CodeInModule ==
  ASSUME NEW a, loaded \subseteq Modules, IsCode(a)
  PROVE  ModuleAt(a) \in Modules
  <1>1. ModuleAt(a) # None
    BY DEF IsCode
  <1>2. \E m \in loaded : a \in Pages[m]
    BY <1>1 DEF ModuleAt
  <1>3. QED
    BY <1>2 DEF ModuleAt

-----------------------------------------------------------------------------

\* At first there are no groups.
LEMMA InitEstablishes == Init => IInv
  <1> SUFFICES ASSUME Init PROVE IInv
    OBVIOUS
  <1>1. count \in Nat
    BY StacksAssumption DEF Init, count
  <1>2. groups \in Seq(Group) /\ DOMAIN groups = {}
    BY DEF Init
  <1>3. TypeOK
    <2>1. /\ addr \in Seq(Nat) /\ loaded \subseteq Modules /\ name \in Modules \cup {None}
          /\ unnamed \in BOOLEAN
      BY StacksAssumption DEF Init
    <2>2. /\ changes \in 0 .. MaxChanges /\ s \in 1 .. count + 1 /\ converted \in 0 .. count
          /\ pc = "first" /\ base = 0
      BY <1>1, ChangesAssumption DEF Init
    <2>3. QED
      BY <1>2, <2>1, <2>2 DEF TypeOK
  <1>4. GroupsInOrder /\ Forming
    BY <1>2, <1>3 DEF Init, GroupsInOrder, Forming
  <1>5. QED
    BY <1>4 DEF IInv

\* What other threads do to the address space changes nothing that the loop
\* has noted.
LEMMA OthersPreserve ==
  ASSUME IInv, NEW m \in Modules, Load(m) \/ Unload(m)
  PROVE  IInv'
  <1>1. /\ UNCHANGED <<addr, pc, s, c, base, name, converted, groups, unnamed>>
        /\ loaded' \subseteq Modules
        /\ changes' \in 0 .. MaxChanges
    BY ChangesAssumption DEF Load, Unload, IInv, GroupsInOrder, TypeOK
  <1>2. TypeOK'
    BY <1>1 DEF IInv, GroupsInOrder, TypeOK, count
  <1>3. QED
    BY <1>1, <1>2 DEF IInv, GroupsInOrder, Forming, count

\* An address is passed over, or the end is reached: the groups stay behind.
LEMMA PassingPreserves ==
  ASSUME IInv, SkipAddress \/ NameFails \/ Return
  PROVE  IInv'
  <1>1. count \in Nat /\ s \in Nat /\ s >= 1 /\ s <= count + 1 /\ converted \in Nat
    BY Sizes DEF IInv, GroupsInOrder
  <1>2. /\ UNCHANGED <<addr, loaded, changes, c, base, name, converted, groups>>
        /\ unnamed' \in BOOLEAN
        /\ pc' \in {"first", "done"}
        /\ s' \in {s, s + 1} /\ s' <= count + 1
    <2>1. CASE SkipAddress
      BY <1>1, <2>1 DEF SkipAddress, memory, IInv, GroupsInOrder, TypeOK
    <2>2. CASE NameFails
      <3>1. s <= count /\ unnamed \in BOOLEAN
        BY <2>2 DEF NameFails, IInv, GroupsInOrder, Forming, TypeOK
      <3>2. unnamed' \in BOOLEAN
        BY <2>2, <3>1, Zenon DEF NameFails
      <3>3. /\ UNCHANGED <<addr, loaded, changes, c, base, name, converted, groups>>
            /\ pc' = "first" /\ s' = s + 1
        BY <2>2 DEF NameFails, memory
      <3>4. QED
        BY <1>1, <3>1, <3>2, <3>3
    <2>3. CASE Return
      BY <1>1, <2>3 DEF Return, memory, IInv, GroupsInOrder, TypeOK
    <2>4. QED
      BY <2>1, <2>2, <2>3
  <1>3. TypeOK'
    BY <1>1, <1>2 DEF IInv, GroupsInOrder, TypeOK, count
  <1>4. ASSUME NEW g \in DOMAIN groups
        PROVE  groups[g].to < s'
    <2>1. groups[g].to < s /\ groups[g] \in Group
      BY DEF IInv, GroupsInOrder, TypeOK
    <2>2. groups[g].to \in Nat
      BY <2>1 DEF Group
    <2>3. QED
      BY <1>1, <1>2, <2>1, <2>2
  <1>5. GroupsInOrder'
    BY <1>2, <1>3, <1>4 DEF IInv, GroupsInOrder
  <1>6. Forming'
    BY <1>1, <1>2 DEF IInv, Forming
  <1>7. QED
    BY <1>5, <1>6 DEF IInv

\* A group is begun and extended, within the array and one module's place.
LEMMA FormingPreserves ==
  ASSUME IInv, TakeBase \/ TakeName \/ Extend \/ Stop
  PROVE  IInv'
  <1>1. count \in Nat /\ s \in Nat /\ s >= 1 /\ s <= count + 1 /\ converted \in Nat
    BY Sizes DEF IInv, GroupsInOrder
  <1>2. UNCHANGED <<addr, loaded, changes, s, converted, groups, unnamed>>
    BY DEF TakeBase, TakeName, Extend, Stop, memory
  <1>3. CASE TakeBase
    <2>1. ModuleAt(addr[s]) \in Modules
      BY <1>3, CodeInModule DEF TakeBase, IInv, GroupsInOrder, TypeOK
    <2>2. pc' = "name" /\ base' \in {Base[m] : m \in Modules} /\ UNCHANGED <<c, name>>
      BY <1>3, <2>1 DEF TakeBase
    <2>3. TypeOK'
      BY <1>2, <2>2 DEF IInv, GroupsInOrder, TypeOK, count
    <2>4. QED
      BY <1>2, <1>3, <2>2, <2>3 DEF TakeBase, IInv, GroupsInOrder, Forming, count
  <1>4. CASE TakeName
    <2>1. /\ pc = "name" /\ pc' = "extend" /\ c' = 1 /\ UNCHANGED base
          /\ name' \in Modules /\ Base[name'] = base
      BY <1>4 DEF TakeName, IInv, GroupsInOrder, TypeOK
    <2>2. c' \in 1 .. count + 1 - s
      BY <1>1, <2>1 DEF IInv, Forming
    <2>3. TypeOK'
      BY <1>2, <2>1, <2>2 DEF IInv, GroupsInOrder, TypeOK, count
    <2>4. QED
      BY <1>2, <2>1, <2>3 DEF IInv, GroupsInOrder, Forming, count
  <1>5. CASE Extend \/ Stop
    <2>1. /\ pc = "extend" /\ pc' \in {"extend", "convert"} /\ UNCHANGED <<base, name>>
          /\ c' \in 1 .. count + 1 - s
      BY <1>1, <1>5 DEF Extend, Stop, IInv, GroupsInOrder, TypeOK
    <2>2. TypeOK'
      BY <1>2, <2>1 DEF IInv, GroupsInOrder, TypeOK, count
    <2>3. QED
      BY <1>2, <2>1, <2>2 DEF IInv, GroupsInOrder, Forming, count
  <1>6. QED
    BY <1>3, <1>4, <1>5

\* The group is converted: it comes after all others and ends before the
\* address that is looked at next.
LEMMA ConvertPreserves ==
  ASSUME IInv, Convert
  PROVE  IInv'
  <1> DEFINE new == [from |-> s, to |-> s + c - 1, base |-> base, name |-> name]
  <1>1. /\ count \in Nat /\ s \in Nat /\ s >= 1 /\ s <= count + 1
        /\ converted \in Nat /\ converted < s
    BY Sizes DEF IInv, GroupsInOrder, Forming
  <1>2. c \in Nat /\ c >= 1 /\ s + c <= count + 1
    BY <1>1 DEF Convert, IInv, GroupsInOrder, TypeOK
  <1>3. name \in Modules /\ Base[name] = base
    BY DEF Convert, IInv, GroupsInOrder, Forming
  <1>4. /\ UNCHANGED <<addr, loaded, changes, c, base, name, unnamed>>
        /\ groups' = Append(groups, new)
        /\ converted' = converted + c /\ s' = s + c /\ pc' = "first"
    BY DEF Convert, memory
  <1>5. new \in Group
    BY <1>1, <1>2, <1>3 DEF Group
  <1>6. groups \in Seq(Group) /\ groups' \in Seq(Group)
    BY <1>4, <1>5 DEF IInv, GroupsInOrder, TypeOK
  <1>7. /\ DOMAIN groups = 1 .. Len(groups) /\ Len(groups) \in Nat
        /\ DOMAIN groups' = 1 .. Len(groups) + 1
        /\ \A g \in DOMAIN groups : groups'[g] = groups[g]
        /\ groups'[Len(groups) + 1] = new
    BY <1>4, <1>5, <1>6
  <1>8. TypeOK'
    BY <1>1, <1>2, <1>4, <1>6 DEF IInv, GroupsInOrder, TypeOK, count
  <1>9. ASSUME NEW g \in DOMAIN groups'
        PROVE  /\ groups'[g].from <= groups'[g].to /\ groups'[g].to < s'
               /\ Base[groups'[g].name] = groups'[g].base
               /\ \A h \in 1 .. g - 1 : groups'[h].to < groups'[g].from
    <2>1. CASE g \in DOMAIN groups
      <3>1. /\ groups[g].from <= groups[g].to /\ groups[g].to < s
            /\ Base[groups[g].name] = groups[g].base
            /\ \A h \in 1 .. g - 1 : groups[h].to < groups[g].from
        BY <2>1 DEF IInv, GroupsInOrder
      <3>2. groups[g].to \in Nat
        <4>1. groups[g] \in Group
          BY <1>6, <2>1
        <4>2. QED
          BY <4>1 DEF Group
      <3>3. groups'[g] = groups[g] /\ \A h \in 1 .. g - 1 : groups'[h] = groups[h]
        BY <1>7, <2>1
      <3>4. groups[g].to < s'
        BY <1>1, <1>2, <1>4, <3>1, <3>2
      <3>5. QED
        BY <3>1, <3>3, <3>4
    <2>2. CASE g = Len(groups) + 1
      <3>1. groups'[g] = new
        BY <1>7, <2>2
      <3>2. \A h \in 1 .. g - 1 : groups'[h].to < s
        BY <1>7, <2>2 DEF IInv, GroupsInOrder
      <3>3. new.from <= new.to /\ new.to < s' /\ Base[new.name] = new.base
        BY <1>1, <1>2, <1>3, <1>4
      <3>4. QED
        BY <3>1, <3>2, <3>3
    <2>3. QED
      BY <1>7, <2>1, <2>2
  <1>10. GroupsInOrder'
    BY <1>4, <1>8, <1>9 DEF GroupsInOrder
  <1>11. Forming'
    BY <1>1, <1>2, <1>4 DEF Forming
  <1>12. QED
    BY <1>10, <1>11 DEF IInv

\* Every step, the loop's or another thread's, keeps the invariant.
LEMMA StepPreserves ==
  ASSUME IInv, [Next]_vars
  PROVE  IInv'
  <1>1. CASE UNCHANGED vars \/ Done
    <2>1. UNCHANGED vars
      BY <1>1 DEF Done
    <2>2. TypeOK'
      BY <2>1 DEF vars, IInv, GroupsInOrder, TypeOK, count
    <2>3. QED
      BY <2>1, <2>2 DEF vars, IInv, GroupsInOrder, Forming, count
  <1>2. QED
    BY <1>1, OthersPreserve, PassingPreserves, FormingPreserves, ConvertPreserves
       DEF Next, Loop

-----------------------------------------------------------------------------
(* Within a stack trace: the addresses are captured first.                 *)

Capturing == stage \in {"start", "frames", "walk", "capture", "convert"}

\* What is captured are natural numbers, and nothing is converted before.
Captured ==
  /\ stage \in {"start", "frames", "walk", "capture", "convert", "cleanup", "done"}
  /\ chain \in Chains /\ cip \in Nat /\ top \in Nat /\ frames \in Seq(Nat)
  /\ variant = "location_return" => Capture!Usable(1) /\ chain[1].ret # 0
  /\ stage = "start" => sp = 1
  /\ Capturing => pc = "first" /\ s = 1 /\ converted = 0 /\ groups = <<>>

TraceInv == IInv /\ Captured

\* A return address that is not null leads into the call before it.
LEMMA ReturnAddress ==
  ASSUME Captured, NEW k, Capture!Usable(k), chain[k].ret # 0
  PROVE  chain[k].ret \in Nat /\ chain[k].ret - 1 \in Nat
  <1>1. chain \in [DOMAIN chain -> Capture!Frame] /\ k \in DOMAIN chain
    BY ChainsAssumption DEF Captured, Capture!Usable
  <1>2. chain[k].ret \in Nat
    BY <1>1 DEF Capture!Frame
  <1>3. QED
    BY <1>2

\* The frames captured so far are natural numbers after every step.
LEMMA FramesCaptured ==
  ASSUME Captured, Capture!Next
  PROVE  frames' \in Seq(Nat)
  <1>1. ASSUME NEW a \in Nat
        PROVE  Append(frames, a) \in Seq(Nat)
    BY DEF Captured
  <1>2. CASE Capture!StartException
    <2>1. frames' = IF top # 0 THEN <<cip>> \o <<top - 1>> ELSE <<cip>> \o <<>>
      BY <1>2 DEF Capture!StartException
    <2>2. <<cip>> \in Seq(Nat) /\ (top # 0 => <<top - 1>> \in Seq(Nat)) /\ <<>> \in Seq(Nat)
      BY DEF Captured
    <2>3. QED
      BY <2>1, <2>2
  <1>3. CASE Capture!StartReturn
    <2>1. Capture!Usable(sp) /\ chain[sp].ret # 0 /\ frames' = <<chain[sp].ret - 1>>
      BY <1>3 DEF Capture!StartReturn, Captured
    <2>2. chain[sp].ret - 1 \in Nat
      BY <2>1, ReturnAddress
    <2>3. QED
      BY <2>1, <2>2
  <1>4. CASE Capture!CaptureMore \/ Capture!Follow
    <2>1. Capture!Usable(sp) /\ chain[sp].ret # 0 /\ frames' = Append(frames, chain[sp].ret - 1)
      BY <1>4 DEF Capture!CaptureMore, Capture!Follow, Capture!Valid
    <2>2. QED
      BY <1>1, <2>1, ReturnAddress
  <1>5. CASE Capture!Walk
    <2>1. CASE Capture!count = 0
      BY <1>1, <1>5, <2>1 DEF Capture!Walk, Capture!WalkPc, Captured
    <2>2. CASE Capture!count # 0
      <3>1. Capture!Usable(sp) /\ chain[sp].ret # 0 /\ frames' = Append(frames, chain[sp].ret - 1)
        BY <1>5, <2>2 DEF Capture!Walk, Capture!WalkPc
      <3>2. QED
        BY <1>1, <3>1, ReturnAddress
    <2>3. QED
      BY <2>1, <2>2
  <1>6. CASE UNCHANGED frames
    BY <1>6 DEF Captured
  <1>7. QED
    BY <1>2, <1>3, <1>4, <1>5, <1>6
       DEF Capture!Next, Capture!StartWalk, Capture!StartFrames, Capture!StartCapture,
           Capture!CaptureEnds, Capture!FollowEnds, Capture!WalkEnds, Capture!Convert,
           Capture!Cleanup, Capture!Done, Capture!vars

\* A step of the capture: the loop's variables rest, and its array is filled
\* before it begins.
LEMMA CapturePreserves ==
  ASSUME TraceInv, CaptureStep
  PROVE  TraceInv'
  <1>1. Capture!Next /\ UNCHANGED groupVars
    BY DEF CaptureStep
  <1>2. UNCHANGED <<chain, variant, cip, top>>
    BY <1>1 DEF Capture!Next, Capture!StartException, Capture!StartWalk, Capture!StartFrames,
                Capture!StartReturn, Capture!StartCapture, Capture!CaptureMore, Capture!CaptureEnds,
                Capture!Follow, Capture!FollowEnds, Capture!Walk, Capture!WalkEnds,
                Capture!Convert, Capture!Cleanup, Capture!Done, Capture!vars, Capture!inputs
  <1>3. /\ stage' \in {"start", "frames", "walk", "capture", "convert", "cleanup", "done"}
        /\ stage' = "start" => stage = "start" /\ sp' = sp
        /\ Capturing' => Capturing
        /\ \/ UNCHANGED addr
           \/ Capturing /\ addr' = frames
    BY <1>1 DEF Capture!Next, Capture!StartException, Capture!StartWalk, Capture!StartFrames,
                Capture!StartReturn, Capture!StartCapture, Capture!CaptureMore, Capture!CaptureEnds,
                Capture!Follow, Capture!FollowEnds, Capture!Walk, Capture!WalkEnds,
                Capture!Convert, Capture!Cleanup, Capture!Done, Capture!vars,
                TraceInv, Captured, Capturing
  <1>4. frames' \in Seq(Nat)
    BY <1>1, FramesCaptured DEF TraceInv
  <1>5. Captured'
    <2>1. Capture!Usable(1) => Capture!Usable(1)'
      BY <1>2 DEF Capture!Usable
    <2>2. Capturing' => (pc = "first" /\ s = 1 /\ converted = 0 /\ groups = <<>>)'
      BY <1>1, <1>3 DEF groupVars, TraceInv, Captured
    <2>3. QED
      BY <1>2, <1>3, <1>4, <2>1, <2>2 DEF TraceInv, Captured
  <1>6. IInv'
    <2>1. CASE UNCHANGED addr
      BY <1>1, <2>1, StepPreserves DEF TraceInv, groupVars, vars
    <2>2. CASE Capturing /\ addr' = frames
      <3>1. /\ addr' \in Seq(Nat) /\ count' \in Nat
            /\ pc' = "first" /\ s' = 1 /\ converted' = 0 /\ groups' = <<>>
        BY <1>1, <2>2 DEF TraceInv, Captured, groupVars, count
      <3>2. /\ loaded' \subseteq Modules /\ changes' \in 0 .. MaxChanges
            /\ base' \in {0} \cup {Base[m] : m \in Modules} /\ name' \in Modules \cup {None}
        BY <1>1 DEF TraceInv, IInv, GroupsInOrder, TypeOK, groupVars
      <3>3. groups' \in Seq(Group) /\ DOMAIN groups' = {}
        BY <3>1
      <3>4. unnamed' \in BOOLEAN
        BY <1>1, Zenon DEF TraceInv, IInv, GroupsInOrder, TypeOK, groupVars
      <3>5. s' \in 1 .. count' + 1 /\ converted' \in 0 .. count'
        BY <3>1 DEF count
      <3>6. TypeOK'
        BY <3>1, <3>2, <3>3, <3>4, <3>5 DEF TypeOK
      <3>7. QED
        BY <3>1, <3>3, <3>6 DEF IInv, GroupsInOrder, Forming
    <2>3. QED
      BY <1>3, <2>1, <2>2
  <1>7. QED
    BY <1>5, <1>6 DEF TraceInv

\* A step of the loop, or of another thread while it runs, leaves what was
\* captured alone.
LEMMA LoopPreserves ==
  ASSUME TraceInv, GroupStep \/ OthersStep
  PROVE  TraceInv'
  <1>1. /\ stage = "cleanup" /\ UNCHANGED captureVars
        /\ Loop \/ \E m \in Modules : Load(m) \/ Unload(m)
    BY DEF GroupStep, OthersStep, Converting
  <1>2. IInv'
    BY <1>1, StepPreserves DEF TraceInv, Next
  <1>3. Captured'
    BY <1>1 DEF TraceInv, Captured, Capturing, captureVars, Capture!Usable
  <1>4. QED
    BY <1>2, <1>3 DEF TraceInv

\* The crash dialog and the callbacks leave the trace alone.
LEMMA CrashStepPreserves ==
  ASSUME TraceInv, [CrashNext]_crashVars
  PROVE  TraceInv'
  <1>1. CASE TakeTrace \/ ChangeModules
    BY <1>1, CapturePreserves, LoopPreserves DEF TakeTrace, ChangeModules
  <1>2. CASE UNCHANGED traceVars
    <2>1. IInv'
      BY <1>2, StepPreserves DEF traceVars, groupVars, vars, TraceInv
    <2>2. Captured'
      BY <1>2 DEF traceVars, groupVars, captureVars, TraceInv, Captured, Capturing, Capture!Usable
    <2>3. QED
      BY <2>1, <2>2 DEF TraceInv
  <1>3. ASSUME Tell PROVE UNCHANGED traceVars
    BY <1>3 DEF Tell, TellBase, TellUnknown, TellSource, TellCall, TellNothing, NextAddress
  <1>4. ASSUME Report \/ Application \/ UNCHANGED crashVars PROVE UNCHANGED traceVars
    BY <1>4 DEF Report, Application, crashVars
  <1>5. QED
    BY <1>1, <1>2, <1>3, <1>4 DEF CrashNext

\* At first nothing is captured.
LEMMA TraceEstablished == CrashInit => TraceInv
  <1> SUFFICES ASSUME CrashInit PROVE TraceInv
    OBVIOUS
  <1>1. Capture!Init /\ Init
    BY DEF CrashInit, TraceInit
  <1>2. Captured
    BY <1>1, PcsAssumption DEF Capture!Init, Init, Captured, Capturing
  <1>3. QED
    BY <1>1, <1>2, InitEstablishes DEF TraceInv

\* dwstOfProcessExt() converts no address twice and none outside of the array,
\* and gives each group the name of a module at its base, whatever stack was
\* captured and whatever the other threads load and unload meanwhile.
THEOREM GroupsCorrect == CrashSpec => []GroupsInOrder
  <1>1. TraceInv => GroupsInOrder
    BY DEF TraceInv, IInv
  <1>2. QED
    BY <1>1, TraceEstablished, CrashStepPreserves, PTL DEF CrashSpec

-----------------------------------------------------------------------------
(* What is lost of the trace: nothing, if no module comes or goes and every *)
(* name can be had.                                                        *)

\* The module of an address among the modules l, and whether it is one of code.
Holder(l, a) == IF \E m \in l : a \in Pages[m] THEN CHOOSE m \in l : a \in Pages[m] ELSE None
CodeAmong(l, a) == Holder(l, a) # None /\ a \in Code[Holder(l, a)]

\* No two modules are mapped to the same place.
Apart == \A m, k \in loaded : m # k => Pages[m] \cap Pages[k] = {}

Undisturbed == changes = 0 /\ unnamed = FALSE

\* The addresses that the loop has left behind are in groups if they are code.
Behind == \A k \in 1 .. s - 1 : CodeAmong(loaded, addr[k]) => InGroup(k)

\* A group has the addresses of one module, and no neighbour of the same one:
\* neither a group nor the address that is looked at next.
OfOneModule ==
  /\ \A g \in DOMAIN groups : \A k \in groups[g].from .. groups[g].to :
       Holder(loaded, addr[k]) = groups[g].name
  /\ \A g, h \in DOMAIN groups :
       (groups[g].to + 1 = groups[h].from) => groups[g].name # groups[h].name
  /\ \A g \in DOMAIN groups :
       (groups[g].to + 1 = s /\ s <= count) => Holder(loaded, addr[s]) # groups[g].name

\* The same of the group that is being formed.
FormedOfOne ==
  /\ pc = "name" => CodeAmong(loaded, addr[s]) /\ base = Base[Holder(loaded, addr[s])]
  /\ pc \in {"extend", "convert"} => \A k \in s .. s + c - 1 : Holder(loaded, addr[k]) = name
  /\ (pc = "convert" /\ s + c <= count) => Holder(loaded, addr[s + c]) # name
  /\ pc = "done" => s > count

Kept == Apart /\ (Undisturbed => Behind /\ OfOneModule /\ FormedOfOne)

\* The module of an address is one of those that are mapped, and holds it.
LEMMA HolderMapped ==
  ASSUME NEW l, NEW a, Holder(l, a) # None
  PROVE  Holder(l, a) \in l /\ a \in Pages[Holder(l, a)]
  <1>1. \E m \in l : a \in Pages[m]
    BY DEF Holder
  <1>2. QED
    BY <1>1 DEF Holder

\* A base address tells the modules that are mapped apart.
LEMMA BaseTells ==
  ASSUME Apart, loaded \subseteq Modules, NEW m \in loaded, NEW k \in loaded, Base[m] = Base[k]
  PROVE  m = k
  BY ModulesAssumption DEF Apart

\* Other threads disturb the trace, but keep modules apart.
LEMMA OthersKeep ==
  ASSUME IInv, Kept, NEW m \in Modules, Load(m) \/ Unload(m)
  PROVE  Kept'
  <1>1. changes' # 0
    BY DEF IInv, GroupsInOrder, TypeOK, Load, Unload
  <1>2. Apart'
    BY DEF Kept, Apart, Load, Unload
  <1>3. QED
    BY <1>1, <1>2 DEF Kept, Undisturbed

\* An address that is passed over is not one of code, unless it has no name.
LEMMA PassingKeeps ==
  ASSUME IInv, Kept, SkipAddress \/ NameFails \/ Return
  PROVE  Kept'
  <1>1. /\ UNCHANGED <<addr, loaded, changes, c, base, name, converted, groups>>
        /\ count \in Nat /\ s \in Nat /\ s >= 1
    BY Sizes DEF SkipAddress, NameFails, Return, memory, IInv, GroupsInOrder
  <1>2. Apart'
    BY <1>1 DEF Kept, Apart
  <1>3. SUFFICES ASSUME Undisturbed'
                 PROVE  Behind' /\ OfOneModule' /\ FormedOfOne'
    BY <1>2 DEF Kept
  <1>4. Undisturbed
    <2>1. changes = 0
      BY <1>1, <1>3 DEF Undisturbed
    <2>2. unnamed' = FALSE
      BY <1>3 DEF Undisturbed
    <2>3. unnamed = FALSE
      BY <2>2, Zenon DEF SkipAddress, NameFails, Return
    <2>4. QED
      BY <2>1, <2>3 DEF Undisturbed
  <1>5. Behind /\ OfOneModule /\ FormedOfOne
    BY <1>4 DEF Kept
  <1>6. CASE Return
    <2>1. pc' = "done" /\ s > count /\ UNCHANGED s
      BY <1>6 DEF Return
    <2>2. Behind' /\ OfOneModule'
      BY <1>1, <1>5, <2>1 DEF Behind, InGroup, OfOneModule, count
    <2>3. FormedOfOne'
      BY <1>1, <2>1 DEF FormedOfOne, count
    <2>4. QED
      BY <2>2, <2>3
  <1>7. CASE SkipAddress
    <2>1. ~CodeAmong(loaded, addr[s]) /\ s' = s + 1 /\ pc' = "first"
      BY <1>7 DEF SkipAddress, IsCode, ModuleAt, CodeAmong, Holder
    <2>2. Behind'
      <3> SUFFICES ASSUME NEW k \in 1 .. s, CodeAmong(loaded, addr[k])
                   PROVE  InGroup(k)
        BY <1>1, <2>1 DEF Behind, InGroup
      <3>1. k # s
        BY <2>1
      <3>2. k \in 1 .. s - 1
        BY <1>1, <3>1
      <3>3. QED
        BY <1>5, <3>2 DEF Behind
    <2>3. \A g \in DOMAIN groups : groups[g].to + 1 # s + 1
      <3> SUFFICES ASSUME NEW g \in DOMAIN groups PROVE groups[g].to + 1 # s + 1
        OBVIOUS
      <3>1. groups[g] \in Group /\ groups[g].to < s
        BY DEF IInv, GroupsInOrder, TypeOK
      <3>2. groups[g].to \in Nat
        BY <3>1 DEF Group
      <3>3. QED
        BY <1>1, <3>1, <3>2
    <2>4. OfOneModule'
      BY <1>1, <1>5, <2>1, <2>3 DEF OfOneModule, count
    <2>5. FormedOfOne'
      BY <2>1 DEF FormedOfOne
    <2>6. QED
      BY <2>2, <2>4, <2>5
  <1>8. CASE NameFails
    <2>1. \A m \in loaded : Base[m] # base
      <3>1. unnamed' = FALSE
        BY <1>3 DEF Undisturbed
      <3>2. QED
        BY <1>8, <3>1, Zenon DEF NameFails
    <2>2. /\ CodeAmong(loaded, addr[s]) /\ base = Base[Holder(loaded, addr[s])]
      BY <1>5, <1>8 DEF FormedOfOne, NameFails
    <2>3. QED
      BY <2>1, <2>2, HolderMapped DEF CodeAmong
  <1>9. QED
    BY <1>6, <1>7, <1>8

\* A group is begun with an address of code, and takes only those of its module.
LEMMA FormingKeeps ==
  ASSUME IInv, Kept, TakeBase \/ TakeName \/ Extend \/ Stop
  PROVE  Kept'
  <1>1. /\ UNCHANGED <<addr, loaded, changes, s, converted, groups, unnamed>>
        /\ count \in Nat /\ s \in Nat /\ s >= 1
    BY Sizes DEF TakeBase, TakeName, Extend, Stop, memory, IInv, GroupsInOrder
  <1>2. Apart' /\ Apart /\ loaded \subseteq Modules
    BY <1>1 DEF Kept, Apart, IInv, GroupsInOrder, TypeOK
  <1>3. SUFFICES ASSUME Undisturbed'
                 PROVE  Behind' /\ OfOneModule' /\ FormedOfOne'
    BY <1>2 DEF Kept
  <1>4. Behind /\ OfOneModule /\ FormedOfOne
    BY <1>1, <1>3 DEF Kept, Undisturbed
  <1>5. Behind' /\ OfOneModule'
    BY <1>1, <1>4 DEF Behind, InGroup, OfOneModule, count
  <1>6. CASE TakeBase
    <2>1. /\ pc' = "name" /\ CodeAmong(loaded, addr[s]) /\ base' = Base[Holder(loaded, addr[s])]
      BY <1>6 DEF TakeBase, IsCode, ModuleAt, CodeAmong, Holder
    <2>2. QED
      BY <1>1, <1>5, <2>1 DEF FormedOfOne
  <1>7. CASE TakeName
    <2>1. /\ pc = "name" /\ pc' = "extend" /\ c' = 1 /\ name' \in loaded /\ Base[name'] = base
      BY <1>7 DEF TakeName
    <2>2. Holder(loaded, addr[s]) \in loaded /\ base = Base[Holder(loaded, addr[s])]
      BY <1>4, <2>1, HolderMapped DEF FormedOfOne, CodeAmong
    <2>3. name' = Holder(loaded, addr[s])
      BY <1>2, <2>1, <2>2, BaseTells
    <2>4. \A k \in s .. s + 1 - 1 : k = s
      BY <1>1
    <2>5. QED
      BY <1>1, <1>5, <2>1, <2>3, <2>4 DEF FormedOfOne
  <1>8. CASE Extend \/ Stop
    <2>1. /\ pc = "extend" /\ UNCHANGED <<base, name>>
          /\ c \in Nat /\ c >= 1 /\ name \in Modules /\ Base[name] = base
      BY <1>1, <1>8 DEF Extend, Stop, IInv, GroupsInOrder, TypeOK, Forming
    <2>2. \A k \in s .. s + c - 1 : Holder(loaded, addr[k]) = name
      BY <1>4, <2>1 DEF FormedOfOne
    <2>3. name \in loaded
      <3>1. Holder(loaded, addr[s]) = name
        BY <1>1, <2>1, <2>2
      <3>2. name # None
        BY <2>1, ModulesAssumption
      <3>3. QED
        BY <3>1, <3>2, HolderMapped
    <2>4. CASE Extend
      <3>1. /\ pc' = "extend" /\ c' = c + 1
            /\ Holder(loaded, addr[s + c]) # None /\ Base[Holder(loaded, addr[s + c])] = base
        BY <2>4 DEF Extend, SameModule, ModuleAt, Holder
      <3>2. Holder(loaded, addr[s + c]) = name
        BY <1>2, <2>1, <2>3, <3>1, HolderMapped, BaseTells
      <3>3. \A k \in s .. s + (c + 1) - 1 : k \in s .. s + c - 1 \/ k = s + c
        BY <1>1, <2>1
      <3>4. QED
        BY <1>1, <1>5, <2>1, <2>2, <3>1, <3>2, <3>3 DEF FormedOfOne
    <2>5. CASE Stop
      <3>1. pc' = "convert" /\ UNCHANGED c
        BY <2>5 DEF Stop
      <3>2. s + c <= count => Holder(loaded, addr[s + c]) # name
        <4> SUFFICES ASSUME s + c <= count, Holder(loaded, addr[s + c]) = name
                     PROVE  FALSE
          OBVIOUS
        <4>1. name # None
          BY <2>1, ModulesAssumption
        <4>2. ModuleAt(addr[s + c]) = name
          BY DEF ModuleAt, Holder
        <4>3. QED
          BY <2>1, <2>5, <4>1, <4>2 DEF Stop, SameModule
      <3>3. QED
        BY <1>1, <1>5, <2>1, <2>2, <3>1, <3>2 DEF FormedOfOne, count
    <2>6. QED
      BY <1>8, <2>4, <2>5
  <1>9. QED
    BY <1>6, <1>7, <1>8

\* The group that is converted holds what is behind the loop now.
LEMMA ConvertKeeps ==
  ASSUME IInv, Kept, Convert
  PROVE  Kept'
  <1> DEFINE new == [from |-> s, to |-> s + c - 1, base |-> base, name |-> name]
             last == Len(groups) + 1
  <1>1. /\ count \in Nat /\ s \in Nat /\ s >= 1
    BY Sizes DEF IInv, GroupsInOrder
  <1>2. c \in Nat /\ c >= 1 /\ s + c <= count + 1
    BY <1>1 DEF Convert, IInv, GroupsInOrder, TypeOK
  <1>3. /\ UNCHANGED <<addr, loaded, changes, c, base, name, unnamed>>
        /\ groups' = Append(groups, new) /\ s' = s + c /\ pc = "convert" /\ pc' = "first"
    BY DEF Convert, memory
  <1>4. /\ groups \in Seq(Group) /\ DOMAIN groups' = DOMAIN groups \cup {last}
        /\ \A g \in DOMAIN groups : groups'[g] = groups[g]
        /\ groups'[last] = new /\ last \notin DOMAIN groups
    <2>1. groups \in Seq(Group)
      BY DEF IInv, GroupsInOrder, TypeOK
    <2>2. QED
      BY <1>3, <2>1
  <1>5. \A g \in DOMAIN groups : /\ groups[g].to < s /\ groups[g].from <= groups[g].to
                                 /\ groups[g].to \in Nat /\ groups[g].from \in Nat
    <2> SUFFICES ASSUME NEW g \in DOMAIN groups
                 PROVE  /\ groups[g].to < s /\ groups[g].from <= groups[g].to
                        /\ groups[g].to \in Nat /\ groups[g].from \in Nat
      OBVIOUS
    <2>1. groups[g].to < s /\ groups[g].from <= groups[g].to
      BY DEF IInv, GroupsInOrder
    <2>2. groups[g] \in Group
      BY <1>4
    <2>3. QED
      BY <2>1, <2>2 DEF Group
  <1>6. Apart'
    BY <1>3 DEF Kept, Apart
  <1>7. SUFFICES ASSUME Undisturbed'
                 PROVE  Behind' /\ OfOneModule' /\ FormedOfOne'
    BY <1>6 DEF Kept
  <1>8. Behind /\ OfOneModule /\ FormedOfOne
    BY <1>3, <1>7 DEF Kept, Undisturbed
  <1>9. /\ new.from = s /\ new.to = s + c - 1 /\ new.name = name
    OBVIOUS
  <1> HIDE DEF new, last
  <1>10. Behind'
    <2> SUFFICES ASSUME NEW k \in 1 .. (s + c) - 1, CodeAmong(loaded, addr[k])
                 PROVE  InGroup(k)'
      BY <1>3 DEF Behind
    <2>1. CASE k < s
      <3>1. k \in 1 .. s - 1
        BY <1>1, <1>2, <2>1
      <3>2. PICK g \in DOMAIN groups : groups[g].from <= k /\ k <= groups[g].to
        BY <1>8, <3>1 DEF Behind, InGroup
      <3>3. g \in DOMAIN groups' /\ groups'[g] = groups[g]
        BY <1>4
      <3>4. QED
        BY <3>2, <3>3 DEF InGroup
    <2>2. CASE k >= s
      <3>1. new.from <= k /\ k <= new.to
        BY <1>1, <1>2, <1>9, <2>2
      <3>2. last \in DOMAIN groups' /\ groups'[last] = new
        BY <1>4
      <3>3. QED
        BY <3>1, <3>2 DEF InGroup
    <2>3. QED
      BY <1>1, <2>1, <2>2
  <1>11. OfOneModule'
    <2>1. ASSUME NEW g \in DOMAIN groups', NEW k \in groups'[g].from .. groups'[g].to
          PROVE  Holder(loaded, addr[k]) = groups'[g].name
      <3>1. CASE g \in DOMAIN groups
        BY <1>4, <1>8, <2>1, <3>1 DEF OfOneModule
      <3>2. CASE g = last
        <4>1. groups'[g] = new /\ k \in s .. s + c - 1
          BY <1>4, <1>9, <2>1, <3>2
        <4>2. QED
          BY <1>3, <1>8, <1>9, <4>1 DEF FormedOfOne
      <3>3. QED
        BY <1>4, <3>1, <3>2
    <2>2. ASSUME NEW g \in DOMAIN groups', NEW h \in DOMAIN groups',
                 groups'[g].to + 1 = groups'[h].from
          PROVE  groups'[g].name # groups'[h].name
      <3>1. CASE g \in DOMAIN groups /\ h \in DOMAIN groups
        BY <1>4, <1>8, <2>2, <3>1 DEF OfOneModule
      <3>2. CASE g \in DOMAIN groups /\ h = last
        <4>1. groups'[g] = groups[g] /\ groups'[h] = new /\ groups[g].to + 1 = s
          BY <1>4, <1>9, <2>2, <3>2
        <4>2. s <= count /\ s \in s .. s + c - 1
          BY <1>1, <1>2
        <4>3. Holder(loaded, addr[s]) # groups[g].name
          BY <1>8, <3>2, <4>1, <4>2 DEF OfOneModule
        <4>4. Holder(loaded, addr[s]) = name
          BY <1>3, <1>8, <4>2 DEF FormedOfOne
        <4>5. QED
          BY <1>9, <4>1, <4>3, <4>4
      <3>3. CASE g = last
        <4>1. groups'[h].from <= s /\ groups'[g].to = s + c - 1 /\ groups'[h].from \in Nat
          <5>1. CASE h = last
            BY <1>1, <1>4, <1>9, <3>3, <5>1
          <5>2. CASE h \in DOMAIN groups
            <6>1. groups[h].from \in Nat /\ groups[h].from <= s
              BY <1>1, <1>5, <5>2
            <6>2. QED
              BY <1>4, <1>9, <3>3, <5>2, <6>1
          <5>3. QED
            BY <1>4, <5>1, <5>2
        <4>2. QED
          BY <1>1, <1>2, <2>2, <4>1
      <3>4. QED
        BY <1>4, <3>1, <3>2, <3>3
    <2>3. ASSUME NEW g \in DOMAIN groups', groups'[g].to + 1 = s + c, s + c <= count
          PROVE  Holder(loaded, addr[s + c]) # groups'[g].name
      <3>1. CASE g \in DOMAIN groups
        <4>1. groups'[g].to < s /\ groups'[g].to \in Nat
          BY <1>4, <1>5, <3>1
        <4>2. QED
          BY <1>1, <1>2, <2>3, <4>1
      <3>2. CASE g = last
        BY <1>3, <1>4, <1>8, <1>9, <2>3, <3>2 DEF FormedOfOne
      <3>3. QED
        BY <1>4, <3>1, <3>2
    <2>4. QED
      BY <1>3, <2>1, <2>2, <2>3 DEF OfOneModule, count
  <1>12. FormedOfOne'
    BY <1>3 DEF FormedOfOne
  <1>13. QED
    BY <1>10, <1>11, <1>12

\* A step that leaves the loop and the modules alone.
LEMMA IdleKeeps ==
  ASSUME Kept, UNCHANGED groupVars, UNCHANGED addr
  PROVE  Kept'
  <1>1. UNCHANGED <<loaded, pc, s, c, base, name, groups, changes, unnamed, addr>>
    BY DEF groupVars
  <1>2. Apart' /\ (Undisturbed' => Undisturbed)
    BY <1>1 DEF Kept, Apart, Undisturbed
  <1>3. Behind' = Behind
    BY <1>1 DEF Behind, InGroup
  <1>4. OfOneModule' = OfOneModule
    BY <1>1 DEF OfOneModule, count
  <1>5. FormedOfOne' = FormedOfOne
    BY <1>1 DEF FormedOfOne, count
  <1>6. QED
    BY <1>2, <1>3, <1>4, <1>5 DEF Kept

\* While the addresses are captured there is nothing to lose.
LEMMA NothingYet ==
  ASSUME Apart, s = 1, pc = "first", groups = <<>>
  PROVE  Kept
  BY DEF Kept, Behind, OfOneModule, FormedOfOne

\* Every step of a trace keeps it.
LEMMA KeptByStep ==
  ASSUME TraceInv, Kept, [CrashNext]_crashVars
  PROVE  Kept'
  <1>1. CASE CaptureStep
    <2>1. UNCHANGED groupVars
      BY <1>1 DEF CaptureStep
    <2>2. CASE UNCHANGED addr
      BY <2>1, <2>2, IdleKeeps
    <2>3. CASE Capturing
      <3>1. /\ s' = 1 /\ pc' = "first" /\ groups' = <<>> /\ UNCHANGED loaded
        BY <2>1, <2>3 DEF groupVars, TraceInv, Captured
      <3>2. Apart'
        BY <3>1 DEF Kept, Apart
      <3>3. QED
        BY <3>1, <3>2 DEF Kept, Behind, OfOneModule, FormedOfOne
    <2>4. UNCHANGED addr \/ Capturing
      BY <1>1 DEF CaptureStep, Capture!Next, Capture!StartException, Capture!StartWalk,
                Capture!StartFrames, Capture!StartReturn, Capture!StartCapture, Capture!CaptureMore,
                Capture!CaptureEnds, Capture!Follow, Capture!FollowEnds, Capture!Walk,
                Capture!WalkEnds, Capture!Convert, Capture!Cleanup, Capture!Done, Capture!vars,
                Capturing
    <2>5. QED
      BY <2>2, <2>3, <2>4
  <1>2. CASE GroupStep \/ OthersStep
    <2>1. Loop \/ \E m \in Modules : Load(m) \/ Unload(m)
      BY <1>2 DEF GroupStep, OthersStep
    <2>2. QED
      BY <2>1, OthersKeep, PassingKeeps, FormingKeeps, ConvertKeeps DEF Loop, TraceInv
  <1>3. CASE UNCHANGED traceVars
    BY <1>3, IdleKeeps DEF traceVars
  <1>4. ASSUME Tell \/ Report \/ Application \/ UNCHANGED crashVars PROVE UNCHANGED traceVars
    BY <1>4 DEF Tell, TellBase, TellUnknown, TellSource, TellCall, TellNothing, NextAddress,
                Report, Application, crashVars
  <1>5. QED
    BY <1>1, <1>2, <1>3, <1>4 DEF CrashNext, TakeTrace, ChangeModules

\* No address of code is left out, and neighbours in one module are converted
\* together, in every trace that is not disturbed.
THEOREM NothingLostCorrect == CrashSpec => []NothingLost
  <1>1. CrashInit => Kept
    <2> SUFFICES ASSUME CrashInit PROVE Kept
      OBVIOUS
    <2>1. Init
      BY DEF CrashInit, TraceInit
    <2>2. QED
      BY <2>1, NothingYet DEF Init, Apart
  <1>2. TraceInv /\ Kept => NothingLost
    <2> SUFFICES ASSUME TraceInv, Kept, pc = "done", changes = 0, ~unnamed
                 PROVE  /\ \A k \in 1 .. count : IsCode(addr[k]) => InGroup(k)
                        /\ \A g \in DOMAIN groups : \A k \in groups[g].from .. groups[g].to :
                             ModuleAt(addr[k]) = groups[g].name
                        /\ \A g, h \in DOMAIN groups :
                             (groups[g].to + 1 = groups[h].from) => groups[g].name # groups[h].name
      BY DEF NothingLost
    <2>1. unnamed = FALSE
      BY Zenon DEF TraceInv, IInv, GroupsInOrder, TypeOK
    <2>2. Behind /\ OfOneModule /\ FormedOfOne
      BY <2>1 DEF Kept, Undisturbed
    <2>3. s > count /\ s \in Nat /\ count \in Nat
      BY <2>2, Sizes DEF FormedOfOne, TraceInv, IInv, GroupsInOrder
    <2>4. \A k \in 1 .. count : k \in 1 .. s - 1
      BY <2>3
    <2>5. \A k \in 1 .. count : IsCode(addr[k]) => CodeAmong(loaded, addr[k])
      BY DEF IsCode, ModuleAt, CodeAmong, Holder
    <2>6. \A g \in DOMAIN groups : \A k \in groups[g].from .. groups[g].to :
            ModuleAt(addr[k]) = groups[g].name
      BY <2>2 DEF OfOneModule, ModuleAt, Holder
    <2>7. QED
      BY <2>2, <2>4, <2>5, <2>6 DEF Behind, OfOneModule
  <1>3. QED
    BY <1>1, <1>2, TraceEstablished, CrashStepPreserves, KeptByStep, PTL DEF CrashSpec

-----------------------------------------------------------------------------
(* The text of the crash dialog.                                           *)

Chosen == 1 .. MaxCalls \cup {None}

\* From the free() to the assignment no text is allocated, and at all other
\* times the one that is pointed to.
TextInv ==
  /\ filter \in BOOLEAN /\ myExtraInfo \in Chosen /\ texts \subseteq 1 .. MaxCalls
  /\ setter \in {"idle", "free", "assign"} /\ arg \in Chosen /\ calls \in 0 .. MaxCalls
  /\ printer \in {"idle", "info", "show_info", "trace", "open", "closed"}
  /\ shown \in 0 .. MaxCalls \cup {None}
  /\ texts = IF setter = "assign" THEN {} ELSE {myExtraInfo} \ {None}
  /\ setter = "idle" => myExtraInfo \in {arg, None}

settingVars == <<filter, myExtraInfo, texts, setter, arg, calls>>

\* At first there is no text.
LEMMA TextBegins == CrashInit => TextInv
  <1> SUFFICES ASSUME CrashInit PROVE TextInv
    OBVIOUS
  <1>1. filter \in BOOLEAN
    BY Zenon DEF CrashInit, Dialog!DialogInit
  <1>2. 0 \in 0 .. MaxCalls
    BY CallsAssumption
  <1>3. QED
    BY <1>1, <1>2 DEF CrashInit, Dialog!DialogInit, TextInv, Chosen

\* A call of dwstExceptionDialog() leaves the text that it was given, or none.
LEMMA SetKeeps ==
  ASSUME TextInv, Dialog!Set
  PROVE  TextInv'
  <1>1. UNCHANGED <<printer, shown>>
    BY DEF Dialog!Set, Dialog!SetFilter, Dialog!FreeInfo, Dialog!Assign
  <1>2. CASE Dialog!SetFilter
    <2>1. /\ setter = "idle" /\ setter' = "free" /\ filter' = TRUE
          /\ calls < MaxCalls /\ calls' = calls + 1 /\ arg' \in {None, calls'}
          /\ UNCHANGED <<myExtraInfo, texts>>
      BY <1>2 DEF Dialog!SetFilter
    <2>2. calls' \in 1 .. MaxCalls
      BY <2>1, CallsAssumption DEF TextInv
    <2>3. QED
      BY <1>1, <2>1, <2>2 DEF TextInv, Chosen
  <1>3. CASE Dialog!FreeInfo
    <2>1. /\ setter = "free" /\ setter' = "assign" /\ texts' = texts \ {myExtraInfo}
          /\ UNCHANGED <<filter, myExtraInfo, arg, calls>>
      BY <1>3 DEF Dialog!FreeInfo
    <2>2. texts' = {}
      BY <2>1 DEF TextInv
    <2>3. filter' \in BOOLEAN
      BY <2>1, Zenon DEF TextInv
    <2>4. QED
      BY <1>1, <2>1, <2>2, <2>3 DEF TextInv, Chosen
  <1>4. CASE Dialog!Assign
    <2>1. /\ setter = "assign" /\ setter' = "idle" /\ myExtraInfo' \in {arg, None}
          /\ texts' = IF myExtraInfo' = None THEN texts ELSE texts \cup {arg}
          /\ UNCHANGED <<filter, arg, calls>>
      BY <1>4 DEF Dialog!Assign
    <2>2. texts' = {myExtraInfo'} \ {None}
      BY <2>1 DEF TextInv
    <2>3. filter' \in BOOLEAN
      BY <2>1, Zenon DEF TextInv
    <2>4. QED
      BY <1>1, <2>1, <2>2, <2>3 DEF TextInv, Chosen
  <1>5. QED
    BY <1>2, <1>3, <1>4 DEF Dialog!Set

\* The thread that crashed only reads it.
LEMMA PrinterKeeps ==
  ASSUME TextInv, UNCHANGED settingVars,
         printer' \in {"idle", "info", "show_info", "trace", "open", "closed"},
         shown' \in 0 .. MaxCalls \cup {None}
  PROVE  TextInv'
  <1>1. UNCHANGED <<filter, myExtraInfo, texts, setter, arg, calls>>
    BY DEF settingVars
  <1>2. filter' \in BOOLEAN
    BY <1>1, Zenon DEF TextInv
  <1>3. QED
    BY <1>1, <1>2 DEF TextInv, Chosen

\* A callback concerns the lines alone.
LEMMA TellsLines ==
  ASSUME Tell
  PROVE  UNCHANGED <<settingVars, printer, shown>>
  BY DEF Tell, TellBase, TellUnknown, TellSource, TellCall, TellNothing, dialogVars, settingVars,
         Dialog!PrintBase, Dialog!PrintUnknown, Dialog!PrintSource, Dialog!Callback, Dialog!setting

\* Every step keeps one text.
LEMMA TextKept ==
  ASSUME TextInv, [CrashNext]_crashVars
  PROVE  TextInv'
  <1>1. CASE Application
    <2>1. CASE Dialog!Set
      BY <2>1, SetKeeps
    <2>2. CASE Dialog!Crash \/ Dialog!Close
      BY <2>2, PrinterKeeps DEF Dialog!Crash, Dialog!Close, Dialog!setting, settingVars, TextInv
    <2>3. QED
      BY <1>1, <2>1, <2>2 DEF Application
  <1>2. CASE Report
    <2>1. CASE Dialog!ShowInfo
      <3>1. shown' \in 0 .. MaxCalls \cup {None}
        BY <2>1, CallsAssumption DEF Dialog!ShowInfo, Dialog!Freed, TextInv, Chosen
      <3>2. QED
        BY <2>1, <3>1, PrinterKeeps DEF Dialog!ShowInfo, Dialog!setting, settingVars
    <2>2. CASE Dialog!SkipInfo \/ Dialog!TestInfo \/ Dialog!Show
      BY <2>2, PrinterKeeps
         DEF Dialog!SkipInfo, Dialog!TestInfo, Dialog!Show, Dialog!setting, settingVars, TextInv
    <2>3. QED
      BY <1>2, <2>1, <2>2 DEF Report
  <1>3. CASE UNCHANGED <<settingVars, printer, shown>>
    BY <1>3, PrinterKeeps DEF TextInv
  <1>4. ASSUME TakeTrace \/ ChangeModules \/ UNCHANGED crashVars
        PROVE  UNCHANGED <<settingVars, printer, shown>>
    BY <1>4 DEF TakeTrace, ChangeModules, crashVars, dialogVars, settingVars
  <1>5. QED
    BY <1>1, <1>2, <1>3, <1>4, TellsLines DEF CrashNext

\* A crash shows the text that is set, except between the free() and the
\* assignment.
THEOREM ShowsTextCorrect == CrashSpec => ShowsText
  <1>1. TextInv /\ [CrashNext]_crashVars =>
          [(printer = "show_info" /\ printer' = "trace" /\ setter # "assign") =>
             shown' = myExtraInfo]_crashVars
    <2> SUFFICES ASSUME TextInv, CrashNext, printer = "show_info", printer' = "trace",
                        setter # "assign"
                 PROVE  shown' = myExtraInfo
      OBVIOUS
    <2>1. Dialog!ShowInfo
      <3>1. ~Application
        BY DEF Application, Dialog!Set, Dialog!SetFilter, Dialog!FreeInfo, Dialog!Assign,
               Dialog!Crash, Dialog!Close
      <3>2. ~TakeTrace /\ ~ChangeModules
        BY DEF TakeTrace, ChangeModules, dialogVars
      <3>3. ~Tell
        BY TellsLines
      <3>4. Report
        BY <3>1, <3>2, <3>3 DEF CrashNext
      <3>5. QED
        BY <3>4 DEF Report, Dialog!SkipInfo, Dialog!TestInfo, Dialog!Show
    <2>2. myExtraInfo \in texts \cup {None}
      BY DEF TextInv
    <2>3. QED
      BY <2>1, <2>2 DEF Dialog!ShowInfo
  <1>2. QED
    BY <1>1, TextBegins, TextKept, PTL DEF CrashSpec, ShowsText

-----------------------------------------------------------------------------
(* The lines of the crash dialog.                                          *)

Bases == {Base[m] : m \in Modules}
LineSet ==
  [kind : {"base", "stack"}, num : Nat \cup {None}, base : Bases, name : Modules, of : Nat]
Told ==
  [what : {"base_addr", "no_dbg_sym", "not_found", "no_src_file", "source"},
   addr : Nat \cup {None}, base : Bases, name : Modules, of : Nat]

\* The lines with a number, and how many of them are for an address before o.
NumberedOf(ls) == {l \in DOMAIN ls : ls[l].num # None}
EarlierOf(ls, o) == {l \in DOMAIN ls : ls[l].num # None /\ ls[l].of < o}

\* n lines have a number, each that of the lines for earlier addresses, and all
\* are for addresses before b.
Counted(ls, n, b) ==
  /\ n = Cardinality(NumberedOf(ls))
  /\ \A l \in NumberedOf(ls) : ls[l].num = Cardinality(EarlierOf(ls, ls[l].of)) /\ ls[l].of < b

\* Every callback for an address has a numbered line.
Covered(ls, tr) ==
  \A k \in DOMAIN tr : tr[k].what # "base_addr" =>
    \E l \in DOMAIN ls : ls[l].of = tr[k].of /\ ls[l].num # None

\* Line m is the last base line before line l, or of all lines.
LastAbove(ls, m, l) ==
  /\ m \in DOMAIN ls /\ m < l /\ ls[m].kind = "base"
  /\ \A n \in DOMAIN ls : (m < n /\ n < l) => ls[n].kind # "base"

\* The base in x is that of the last base line, and there is none before one.
Remembers(ls, x) ==
  IF x = None THEN \A l \in DOMAIN ls : ls[l].kind # "base"
              ELSE \E m \in DOMAIN ls : LastAbove(ls, m, Len(ls) + 1) /\ ls[m].base = x

\* Stack lines are below their base, and base lines below another or none.
Headed(ls) ==
  \A l \in DOMAIN ls :
    IF ls[l].kind = "stack"
      THEN \E m \in DOMAIN ls : LastAbove(ls, m, l) /\ ls[m].base = ls[l].base
      ELSE \/ \A m \in DOMAIN ls : m < l => ls[m].kind # "base"
           \/ \E m \in DOMAIN ls : LastAbove(ls, m, l) /\ ls[m].base # ls[l].base

\* What a sequence of lines has in it when another is appended.
LEMMA Appended ==
  ASSUME NEW S, NEW q \in Seq(S), NEW e \in S
  PROVE  /\ Append(q, e) \in Seq(S) /\ Len(q) \in Nat /\ Len(Append(q, e)) = Len(q) + 1
         /\ DOMAIN q = 1 .. Len(q) /\ DOMAIN Append(q, e) = DOMAIN q \cup {Len(q) + 1}
         /\ Len(q) + 1 \notin DOMAIN q
         /\ \A l \in DOMAIN q : Append(q, e)[l] = q[l] /\ q[l] \in S
         /\ Append(q, e)[Len(q) + 1] = e
  OBVIOUS

\* There are finitely many lines.
LEMMA LinesFinite ==
  ASSUME NEW ls \in Seq(LineSet)
  PROVE  IsFiniteSet(NumberedOf(ls)) /\ Cardinality(NumberedOf(ls)) \in Nat
  <1>1. IsFiniteSet(DOMAIN ls)
    <2>1. DOMAIN ls = 1 .. Len(ls) /\ Len(ls) \in Nat
      OBVIOUS
    <2>2. QED
      BY <2>1, FS_Interval
  <1>2. NumberedOf(ls) \subseteq DOMAIN ls
    BY DEF NumberedOf
  <1>3. IsFiniteSet(NumberedOf(ls))
    BY <1>1, <1>2, FS_Subset
  <1>4. QED
    BY <1>3, FS_CardinalityType

\* A line without a number leaves the numbers alone.
LEMMA PlainLine ==
  ASSUME NEW ls \in Seq(LineSet), NEW e \in LineSet, e.num = None, NEW n, NEW b, Counted(ls, n, b)
  PROVE  Counted(Append(ls, e), n, b)
  <1> DEFINE q == Append(ls, e)
  <1>1. /\ DOMAIN q = DOMAIN ls \cup {Len(ls) + 1} /\ Len(ls) + 1 \notin DOMAIN ls
        /\ \A l \in DOMAIN ls : q[l] = ls[l]
        /\ q[Len(ls) + 1] = e
    BY Appended
  <1> HIDE DEF q
  <1>2. NumberedOf(q) = NumberedOf(ls)
    BY <1>1 DEF NumberedOf
  <1>3. \A o : EarlierOf(q, o) = EarlierOf(ls, o)
    BY <1>1 DEF EarlierOf
  <1>4. \A l \in NumberedOf(ls) : q[l] = ls[l]
    BY <1>1 DEF NumberedOf
  <1>5. Counted(q, n, b)
    BY <1>2, <1>3, <1>4 DEF Counted
  <1>6. QED
    BY <1>5 DEF q

\* One with the next number, for an address after all others, continues them.
LEMMA NumberedLine ==
  ASSUME NEW ls \in Seq(LineSet), NEW e \in LineSet, None \notin Nat,
         NEW n \in Nat, NEW b \in Nat, NEW d \in Nat, Counted(ls, n, b),
         e.num = n, b <= e.of, e.of < d
  PROVE  Counted(Append(ls, e), n + 1, d)
  <1> DEFINE q == Append(ls, e)
             new == Len(ls) + 1
  <1>1. /\ DOMAIN q = DOMAIN ls \cup {new} /\ new \notin DOMAIN ls
        /\ \A l \in DOMAIN ls : q[l] = ls[l] /\ ls[l] \in LineSet
        /\ q[new] = e
    BY Appended
  <1> HIDE DEF q, new
  <1>2. e.num # None /\ e.of \in Nat
    BY DEF LineSet
  <1>3. /\ NumberedOf(ls) \subseteq DOMAIN ls /\ new \notin NumberedOf(ls)
        /\ IsFiniteSet(NumberedOf(ls))
    BY <1>1, LinesFinite DEF NumberedOf
  <1>4. NumberedOf(q) = NumberedOf(ls) \cup {new}
    BY <1>1, <1>2 DEF NumberedOf
  <1>5. Cardinality(NumberedOf(q)) = n + 1
    <2> DEFINE N == NumberedOf(ls)
    <2>1. IsFiniteSet(N) /\ new \notin N /\ Cardinality(N) = n
      BY <1>3 DEF Counted
    <2> HIDE DEF N
    <2>2. Cardinality(N \cup {new}) = Cardinality(N) + 1
      BY <2>1, FS_AddElement
    <2>3. QED
      BY <1>4, <2>1, <2>2 DEF N
  <1>6. \A l \in NumberedOf(ls) : /\ ls[l].of < b /\ ls[l].of \in Nat
                                 /\ ls[l].num = Cardinality(EarlierOf(ls, ls[l].of))
    BY <1>1, <1>3 DEF Counted, LineSet
  <1>7. ASSUME NEW l \in NumberedOf(ls)
        PROVE  EarlierOf(q, ls[l].of) = EarlierOf(ls, ls[l].of)
    <2>1. ~(e.of < ls[l].of)
      BY <1>2, <1>6
    <2>2. QED
      BY <1>1, <2>1 DEF EarlierOf
  <1>8. EarlierOf(q, e.of) = NumberedOf(ls)
    <2>1. ASSUME NEW l \in NumberedOf(ls) PROVE ls[l].of < e.of
      BY <1>2, <1>6
    <2>2. ~(e.of < e.of)
      BY <1>2
    <2>3. QED
      BY <1>1, <2>1, <2>2 DEF EarlierOf, NumberedOf
  <1>9. ASSUME NEW l \in NumberedOf(q)
        PROVE  q[l].num = Cardinality(EarlierOf(q, q[l].of)) /\ q[l].of < d
    <2>1. CASE l \in NumberedOf(ls)
      <3>1. q[l] = ls[l] /\ ls[l].of < d
        BY <1>1, <1>2, <1>3, <1>6, <2>1
      <3>2. QED
        BY <1>6, <1>7, <2>1, <3>1
    <2>2. CASE l = new
      BY <1>1, <1>8, <2>2 DEF Counted
    <2>3. QED
      BY <1>4, <2>1, <2>2
  <1>10. Counted(q, n + 1, d)
    BY <1>5, <1>9 DEF Counted
  <1>11. QED
    BY <1>10 DEF q

\* More lines cover more callbacks.
LEMMA CoverMore ==
  ASSUME NEW ls \in Seq(LineSet), NEW e \in LineSet, NEW tr \in Seq(Told), NEW cb \in Told,
         Covered(ls, tr),
         \/ cb.what = "base_addr"
         \/ \E l \in DOMAIN ls : ls[l].of = cb.of /\ ls[l].num # None
         \/ e.of = cb.of /\ e.num # None
  PROVE  Covered(Append(ls, e), Append(tr, cb))
  <1> DEFINE q == Append(ls, e)
             u == Append(tr, cb)
  <1>1. /\ DOMAIN q = DOMAIN ls \cup {Len(ls) + 1} /\ q[Len(ls) + 1] = e
        /\ \A l \in DOMAIN ls : q[l] = ls[l]
    BY Appended
  <1>2. /\ DOMAIN u = DOMAIN tr \cup {Len(tr) + 1} /\ u[Len(tr) + 1] = cb
        /\ \A k \in DOMAIN tr : u[k] = tr[k]
    BY Appended
  <1> HIDE DEF q, u
  <1>3. ASSUME NEW o, \E l \in DOMAIN ls : ls[l].of = o /\ ls[l].num # None
        PROVE  \E l \in DOMAIN q : q[l].of = o /\ q[l].num # None
    BY <1>1, <1>3
  <1>4. ASSUME NEW k \in DOMAIN u, u[k].what # "base_addr"
        PROVE  \E l \in DOMAIN q : q[l].of = u[k].of /\ q[l].num # None
    <2>1. CASE k \in DOMAIN tr
      BY <1>2, <1>3, <1>4, <2>1 DEF Covered
    <2>2. CASE k = Len(tr) + 1
      <3>1. u[k] = cb
        BY <1>2, <2>2
      <3>2. CASE e.of = cb.of /\ e.num # None
        BY <1>1, <3>1, <3>2
      <3>3. CASE \E l \in DOMAIN ls : ls[l].of = cb.of /\ ls[l].num # None
        BY <1>3, <3>1, <3>3
      <3>4. QED
        BY <1>4, <3>1, <3>2, <3>3
    <2>3. QED
      BY <1>2, <2>1, <2>2
  <1>5. Covered(q, u)
    BY <1>4 DEF Covered
  <1>6. QED
    BY <1>5 DEF q, u

\* A base address that is not printed again needs no line.
LEMMA CoverBase ==
  ASSUME NEW ls, NEW tr \in Seq(Told), NEW cb \in Told, Covered(ls, tr), cb.what = "base_addr"
  PROVE  Covered(ls, Append(tr, cb))
  BY Appended DEF Covered

\* The last base line of the lines before an appended one is that of all before.
LEMMA AboveAppended ==
  ASSUME NEW ls \in Seq(LineSet), NEW e \in LineSet, NEW l \in DOMAIN ls \cup {Len(ls) + 1}, NEW m
  PROVE  LastAbove(Append(ls, e), m, l) <=> LastAbove(ls, m, l)
  <1> DEFINE q == Append(ls, e)
             new == Len(ls) + 1
  <1>1. /\ DOMAIN q = DOMAIN ls \cup {new} /\ DOMAIN ls = 1 .. Len(ls) /\ Len(ls) \in Nat
        /\ \A k \in DOMAIN ls : q[k] = ls[k]
    BY Appended
  <1>2. \A k \in DOMAIN q : k < l => k \in DOMAIN ls
    BY <1>1
  <1> HIDE DEF q, new
  <1>3. (m \in DOMAIN q /\ m < l) <=> (m \in DOMAIN ls /\ m < l)
    BY <1>1, <1>2
  <1>4. LastAbove(q, m, l) <=> LastAbove(ls, m, l)
    BY <1>1, <1>2, <1>3 DEF LastAbove
  <1>5. QED
    BY <1>4 DEF q

\* A base line is appended if its base is another than the last.
LEMMA BaseLine ==
  ASSUME NEW ls \in Seq(LineSet), NEW e \in LineSet, e.kind = "base", None \notin Nat,
         NEW x, Remembers(ls, x), Headed(ls), e.base # x
  PROVE  Headed(Append(ls, e)) /\ Remembers(Append(ls, e), e.base)
  <1> DEFINE q == Append(ls, e)
             new == Len(ls) + 1
  <1>1. /\ DOMAIN q = DOMAIN ls \cup {new} /\ DOMAIN ls = 1 .. Len(ls) /\ Len(ls) \in Nat
        /\ \A k \in DOMAIN ls : q[k] = ls[k]
        /\ q[new] = e /\ new \notin DOMAIN ls /\ Len(q) = new
    BY Appended
  <1>2. \A l \in DOMAIN q : \A m : LastAbove(q, m, l) <=> LastAbove(ls, m, l)
    BY <1>1, AboveAppended
  <1>3. e.base # None
    BY ModulesAssumption DEF LineSet, Bases
  <1>4. \/ \A m \in DOMAIN ls : ls[m].kind # "base"
        \/ \E m \in DOMAIN ls : LastAbove(ls, m, new) /\ ls[m].base # e.base
    BY DEF Remembers
  <1> HIDE DEF q, new
  <1>5. Headed(q)
    <2> SUFFICES ASSUME NEW l \in DOMAIN q
                 PROVE  IF q[l].kind = "stack"
                          THEN \E m \in DOMAIN q : LastAbove(q, m, l) /\ q[m].base = q[l].base
                          ELSE \/ \A m \in DOMAIN q : m < l => q[m].kind # "base"
                               \/ \E m \in DOMAIN q : LastAbove(q, m, l) /\ q[m].base # q[l].base
      BY DEF Headed
    <2>1. CASE l \in DOMAIN ls
      <3>1. q[l] = ls[l] /\ \A m \in DOMAIN q : m < l => m \in DOMAIN ls
        BY <1>1, <2>1 DEF new
      <3>2. QED
        BY <1>1, <1>2, <2>1, <3>1 DEF Headed
    <2>2. CASE l = new
      <3>1. \A m \in DOMAIN q : m < l => m \in DOMAIN ls
        BY <1>1, <2>2 DEF new
      <3>2. QED
        BY <1>1, <1>2, <1>4, <2>2, <3>1
    <2>3. QED
      BY <1>1, <2>1, <2>2
  <1>6. Remembers(q, e.base)
    <2>1. new < new + 1 /\ new \in DOMAIN q /\ \A n \in DOMAIN q : ~(new < n)
      BY <1>1 DEF new
    <2>2. LastAbove(q, new, new + 1)
      BY <1>1, <2>1 DEF LastAbove
    <2>3. QED
      BY <1>1, <1>3, <2>1, <2>2 DEF Remembers
  <1>7. QED
    BY <1>5, <1>6 DEF q

\* A stack line is appended below the last base.
LEMMA StackLine ==
  ASSUME NEW ls \in Seq(LineSet), NEW e \in LineSet, e.kind = "stack", None \notin Nat,
         Remembers(ls, e.base), Headed(ls)
  PROVE  Headed(Append(ls, e)) /\ Remembers(Append(ls, e), e.base)
  <1> DEFINE q == Append(ls, e)
             new == Len(ls) + 1
  <1>1. /\ DOMAIN q = DOMAIN ls \cup {new} /\ DOMAIN ls = 1 .. Len(ls) /\ Len(ls) \in Nat
        /\ \A k \in DOMAIN ls : q[k] = ls[k]
        /\ q[new] = e /\ new \notin DOMAIN ls /\ Len(q) = new
    BY Appended
  <1>2. \A l \in DOMAIN q : \A m : LastAbove(q, m, l) <=> LastAbove(ls, m, l)
    BY <1>1, AboveAppended
  <1>3. e.base # None
    BY ModulesAssumption DEF LineSet, Bases
  <1>4. PICK k \in DOMAIN ls : LastAbove(ls, k, new) /\ ls[k].base = e.base
    BY <1>3 DEF Remembers, new
  <1> HIDE DEF q, new
  <1>5. Headed(q)
    <2> SUFFICES ASSUME NEW l \in DOMAIN q
                 PROVE  IF q[l].kind = "stack"
                          THEN \E m \in DOMAIN q : LastAbove(q, m, l) /\ q[m].base = q[l].base
                          ELSE \/ \A m \in DOMAIN q : m < l => q[m].kind # "base"
                               \/ \E m \in DOMAIN q : LastAbove(q, m, l) /\ q[m].base # q[l].base
      BY DEF Headed
    <2>1. CASE l \in DOMAIN ls
      <3>1. q[l] = ls[l] /\ \A m \in DOMAIN q : m < l => m \in DOMAIN ls
        BY <1>1, <2>1 DEF new
      <3>2. QED
        BY <1>1, <1>2, <2>1, <3>1 DEF Headed
    <2>2. CASE l = new
      BY <1>1, <1>2, <1>4, <2>2
    <2>3. QED
      BY <1>1, <2>1, <2>2
  <1>6. Remembers(q, e.base)
    <2>1. k < new + 1 /\ \A n \in DOMAIN q : (k < n /\ n < new + 1) => n \in DOMAIN ls \cup {new}
      <3>1. k \in 1 .. Len(ls) /\ Len(ls) \in Nat /\ new = Len(ls) + 1
        BY <1>1 DEF new
      <3>2. k < new + 1
        BY <3>1
      <3>3. QED
        BY <1>1, <3>2
    <2>2. q[k] = ls[k] /\ k \in DOMAIN q /\ ls[k].kind = "base"
      BY <1>1, <1>4 DEF LastAbove
    <2>3. \A n \in DOMAIN q : (k < n /\ n < new + 1) => q[n].kind # "base"
      <3>1. q[new].kind # "base"
        BY <1>1
      <3>2. ASSUME NEW n \in DOMAIN ls, k < n PROVE q[n].kind # "base"
        <4>1. n < new
          BY <1>1 DEF new
        <4>2. QED
          BY <1>1, <1>4, <3>2, <4>1 DEF LastAbove
      <3>3. QED
        BY <1>1, <3>1, <3>2
    <2>4. LastAbove(q, k, new + 1)
      BY <2>1, <2>2, <2>3 DEF LastAbove
    <2>5. QED
      BY <1>1, <1>3, <1>4, <2>2, <2>4 DEF Remembers
  <1>7. QED
    BY <1>5, <1>6 DEF q

\* The callbacks of a group come in order, and all lines so far are for
\* addresses before this one.
Due == IF told = 0 THEN s ELSE s + told - 1

InTurn ==
  /\ told \in Nat
  /\ pc # "convert" => told = 0
  /\ pc = "convert" => told <= c + 1

ReportTyped ==
  /\ lines \in Seq(LineSet) /\ trace \in Seq(Told)
  /\ numbered \in Nat /\ lastBase \in Bases \cup {None}
  /\ numbered <= Len(lines) /\ Len(lines) <= Len(trace)

\* After a group's base the last callback is one of the group's.
Current ==
  (pc = "convert" /\ told >= 1) =>
    /\ lastBase = base /\ Len(trace) >= 1
    /\ trace[Len(trace)].base = base /\ trace[Len(trace)].name = name
    /\ trace[Len(trace)].what # "base_addr" => trace[Len(trace)].of \in s .. s + told - 2

\* The groups, and the one that is handed on, have all addresses with lines.
Placed(l) ==
  \/ \E g \in DOMAIN groups :
       lines[l].of \in groups[g].from .. groups[g].to /\ lines[l].base = groups[g].base
  \/ pc = "convert" /\ lines[l].of \in s .. s + c - 1 /\ lines[l].base = base

AllPlaced == \A l \in DOMAIN lines : lines[l].kind = "stack" => Placed(l)

\* Lines and groups carry names of modules at their bases, which are mapped
\* still if none has come or gone.
NamesMapped ==
  /\ \A l \in DOMAIN lines : Base[lines[l].name] = lines[l].base
  /\ changes = 0 =>
       /\ \A l \in DOMAIN lines : lines[l].name \in loaded
       /\ \A g \in DOMAIN groups : groups[g].name \in loaded
       /\ pc \in {"extend", "convert"} => name \in loaded

LinesInv ==
  /\ InTurn /\ ReportTyped /\ Current /\ AllPlaced /\ NamesMapped
  /\ Counted(lines, numbered, Due) /\ Covered(lines, trace)
  /\ Headed(lines) /\ Remembers(lines, lastBase)

\* What is known of the group while it is handed on.
LEMMA HandedOn ==
  ASSUME IInv, pc = "convert"
  PROVE  /\ s \in Nat /\ s >= 1 /\ c \in Nat /\ c >= 1 /\ count \in Nat /\ s + c <= count + 1
         /\ base \in Bases /\ name \in Modules /\ Base[name] = base
         /\ \A k \in s .. s + c - 1 : addr[k] \in Nat
  <1>1. count \in Nat /\ s \in Nat /\ s >= 1
    BY Sizes DEF IInv, GroupsInOrder
  <1>2. c \in Nat /\ c >= 1 /\ s + c <= count + 1
    BY <1>1 DEF IInv, GroupsInOrder, TypeOK
  <1>3. base \in Bases /\ name \in Modules /\ Base[name] = base
    BY DEF IInv, GroupsInOrder, Forming, Bases
  <1>4. ASSUME NEW k \in s .. s + c - 1 PROVE addr[k] \in Nat
    <2>1. k \in 1 .. count
      BY <1>1, <1>2
    <2>2. QED
      BY <2>1 DEF IInv, GroupsInOrder, TypeOK, count
  <1>5. QED
    BY <1>1, <1>2, <1>3, <1>4

\* A line of the group is in its place.
LEMMA LinePlaced ==
  ASSUME LinesInv, UNCHANGED <<groups, pc, s, c, base, name, loaded, changes>>, pc = "convert",
         NEW e \in LineSet, lines' = Append(lines, e),
         e.base = base, e.name = name \/ (e.name \in Modules /\ Base[e.name] = base),
         changes = 0 => e.name \in loaded, Base[name] = base,
         e.kind = "stack" => e.of \in s .. s + c - 1
  PROVE  AllPlaced' /\ NamesMapped'
  <1> DEFINE new == Len(lines) + 1
  <1>1. /\ DOMAIN lines' = DOMAIN lines \cup {new} /\ lines'[new] = e
        /\ \A l \in DOMAIN lines : lines'[l] = lines[l]
    BY Appended DEF LinesInv, ReportTyped
  <1> HIDE DEF new
  <1>2. ASSUME NEW l \in DOMAIN lines', lines'[l].kind = "stack"
        PROVE  Placed(l)'
    <2>1. CASE l \in DOMAIN lines
      <3>1. lines'[l] = lines[l] /\ Placed(l)
        BY <1>1, <1>2, <2>1 DEF LinesInv, AllPlaced
      <3>2. QED
        BY <3>1 DEF Placed
    <2>2. CASE l = new
      BY <1>1, <1>2, <2>2 DEF Placed
    <2>3. QED
      BY <1>1, <2>1, <2>2
  <1>3. NamesMapped'
    <2>1. Base[e.name] = e.base
      OBVIOUS
    <2>2. QED
      BY <1>1, <2>1 DEF LinesInv, NamesMapped
  <1>4. QED
    BY <1>2, <1>3 DEF AllPlaced

\* The base address of the group.
LEMMA TellBaseKeeps ==
  ASSUME IInv, LinesInv, TellBase
  PROVE  LinesInv'
  <1> DEFINE cb == [what |-> "base_addr", addr |-> None, base |-> base, name |-> name, of |-> 0]
             e == [kind |-> "base", num |-> None, base |-> base, name |-> name, of |-> 0]
  <1>1. /\ pc = "convert" /\ told = 0 /\ told' = 1
        /\ UNCHANGED <<groups, pc, s, c, base, name, loaded, changes>>
        /\ trace' = Append(trace, cb) /\ UNCHANGED numbered
        /\ IF base # lastBase THEN lines' = Append(lines, e) /\ lastBase' = base
                              ELSE UNCHANGED <<lines, lastBase>>
    BY DEF TellBase, Telling, traceVars, groupVars, Dialog!PrintBase, Dialog!Callback,
           Dialog!Emit, Dialog!Line
  <1>2. /\ s \in Nat /\ s >= 1 /\ c \in Nat /\ c >= 1
        /\ base \in Bases /\ name \in Modules /\ Base[name] = base
    BY <1>1, HandedOn
  <1>3. cb \in Told /\ e \in LineSet
    BY <1>2 DEF Told, LineSet
  <1>4. /\ lines \in Seq(LineSet) /\ trace \in Seq(Told)
        /\ numbered \in Nat /\ lastBase \in Bases \cup {None}
        /\ numbered <= Len(lines) /\ Len(lines) <= Len(trace)
        /\ Counted(lines, numbered, s) /\ Covered(lines, trace)
        /\ Headed(lines) /\ Remembers(lines, lastBase)
    BY <1>1 DEF LinesInv, ReportTyped, Due
  <1>5. /\ trace' \in Seq(Told) /\ Len(trace') = Len(trace) + 1 /\ trace'[Len(trace')] = cb
        /\ Len(trace) \in Nat /\ Len(lines) \in Nat
    BY <1>1, <1>3, <1>4, Appended
  <1>6. e.kind = "base" /\ e.num = None /\ e.base = base /\ e.name = name /\ cb.what = "base_addr"
        /\ cb.base = base /\ cb.name = name
    OBVIOUS
  <1> HIDE DEF cb, e
  <1>7. InTurn' /\ Due' = s
    BY <1>1, <1>2 DEF InTurn, Due
  <1>8. lastBase' = base
    BY <1>1
  <1>9. Current'
    BY <1>1, <1>5, <1>6, <1>8 DEF Current
  <1>10. CASE base # lastBase
    <2>1. lines' = Append(lines, e) /\ lines' \in Seq(LineSet) /\ Len(lines') = Len(lines) + 1
      BY <1>1, <1>3, <1>4, <1>10, Appended
    <2>2. ReportTyped'
      BY <1>1, <1>2, <1>4, <1>5, <1>8, <2>1 DEF ReportTyped
    <2>3. Counted(lines', numbered', s)
      BY <1>1, <1>3, <1>4, <1>6, <2>1, PlainLine
    <2>4. Covered(lines', trace')
      BY <1>1, <1>3, <1>4, <1>6, <2>1, CoverMore
    <2>5. Headed(lines') /\ Remembers(lines', lastBase')
      BY <1>3, <1>4, <1>6, <1>8, <1>10, <2>1, NoneAssumption, BaseLine
    <2>6. changes = 0 => name \in loaded
      BY <1>1 DEF LinesInv, NamesMapped
    <2>7. AllPlaced' /\ NamesMapped'
      BY <1>1, <1>2, <1>3, <1>6, <2>1, <2>6, LinePlaced
    <2>8. QED
      BY <1>7, <1>9, <2>2, <2>3, <2>4, <2>5, <2>7 DEF LinesInv
  <1>11. CASE base = lastBase
    <2>1. UNCHANGED <<lines, lastBase>>
      BY <1>1, <1>11
    <2>2. ReportTyped'
      BY <1>1, <1>4, <1>5, <2>1 DEF ReportTyped
    <2>3. Covered(lines', trace')
      BY <1>1, <1>3, <1>4, <1>6, <2>1, CoverBase
    <2>4. AllPlaced' /\ NamesMapped'
      BY <1>1, <2>1 DEF LinesInv, AllPlaced, Placed, NamesMapped
    <2>5. QED
      BY <1>1, <1>4, <1>7, <1>9, <2>1, <2>2, <2>3, <2>4 DEF LinesInv
  <1>12. QED
    BY <1>10, <1>11

\* An address with the next number.
LEMMA TellAddressKeeps ==
  ASSUME IInv, LinesInv, TellUnknown \/ TellSource
  PROVE  LinesInv'
  <1>1. PICK w \in {"no_dbg_sym", "not_found", "no_src_file", "source"} :
          /\ pc = "convert" /\ told \in 1 .. c /\ told' = told + 1
          /\ UNCHANGED <<groups, pc, s, c, base, name, loaded, changes, lastBase>>
          /\ \/ TellUnknown /\ Dialog!PrintUnknown(Cb(w, FALSE))
             \/ TellSource /\ Dialog!PrintSource(Cb(w, FALSE))
    <2>1. ASSUME TellUnknown
          PROVE  \E w \in {"no_dbg_sym", "not_found", "no_src_file"} :
                   Dialog!PrintUnknown(Cb(w, FALSE)) /\ UNCHANGED lastBase
      BY <2>1 DEF TellUnknown, Dialog!PrintUnknown
    <2>2. ASSUME TellSource
          PROVE  \E w \in {"no_dbg_sym", "source"} :
                   Dialog!PrintSource(Cb(w, FALSE)) /\ UNCHANGED lastBase
      BY <2>2 DEF TellSource, Dialog!PrintSource
    <2>3. /\ pc = "convert" /\ told \in 1 .. c /\ told' = told + 1
          /\ UNCHANGED <<groups, pc, s, c, base, name, loaded, changes>>
      BY DEF TellUnknown, TellSource, NextAddress, Telling, traceVars, groupVars
    <2>4. QED
      BY <2>1, <2>2, <2>3
  <1> DEFINE o == s + told - 1
             cb == [what |-> w, addr |-> addr[o], base |-> base, name |-> name, of |-> o]
             e == [kind |-> "stack", num |-> numbered, base |-> base, name |-> name, of |-> o]
  <1>2. /\ s \in Nat /\ s >= 1 /\ c \in Nat /\ c >= 1 /\ told \in Nat /\ told >= 1
        /\ base \in Bases /\ name \in Modules /\ Base[name] = base
        /\ o \in s .. s + c - 1 /\ o \in Nat /\ addr[o] \in Nat
    <2>1. /\ s \in Nat /\ s >= 1 /\ c \in Nat /\ c >= 1
          /\ base \in Bases /\ name \in Modules /\ Base[name] = base
          /\ \A k \in s .. s + c - 1 : addr[k] \in Nat
      BY <1>1, HandedOn
    <2>2. o \in s .. s + c - 1 /\ o \in Nat /\ told \in Nat /\ told >= 1
      BY <1>1, <2>1
    <2>3. QED
      BY <2>1, <2>2
  <1>3. addr[o] # None
    BY <1>2, NoneAssumption
  <1>4. Cb(w, FALSE) = cb
    BY DEF Cb
  <1>5. trace' = Append(trace, cb) /\ lines' = Append(lines, e) /\ numbered' = numbered + 1
    <2>1. cb.addr # None /\ cb.base = base /\ cb.name = name /\ cb.of = o
      BY <1>3
    <2>2. CASE TellUnknown /\ Dialog!PrintUnknown(Cb(w, FALSE))
      BY <1>4, <2>1, <2>2 DEF Dialog!PrintUnknown, Dialog!Callback, Dialog!Emit, Dialog!Line
    <2>3. CASE TellSource /\ Dialog!PrintSource(Cb(w, FALSE))
      BY <1>4, <2>1, <2>3 DEF Dialog!PrintSource, Dialog!Callback, Dialog!Emit, Dialog!Line
    <2>4. QED
      BY <1>1, <2>2, <2>3
  <1>6. /\ lines \in Seq(LineSet) /\ trace \in Seq(Told)
        /\ numbered \in Nat /\ lastBase \in Bases \cup {None}
        /\ numbered <= Len(lines) /\ Len(lines) <= Len(trace)
        /\ Counted(lines, numbered, o) /\ Covered(lines, trace)
        /\ Headed(lines) /\ Remembers(lines, base) /\ lastBase = base
    <2>1. Due = o
      BY <1>2 DEF Due
    <2>2. lastBase = base
      BY <1>1, <1>2 DEF LinesInv, Current
    <2>3. QED
      BY <2>1, <2>2 DEF LinesInv, ReportTyped
  <1>7. cb \in Told /\ e \in LineSet
    BY <1>2, <1>6 DEF Told, LineSet
  <1>8. /\ trace' \in Seq(Told) /\ Len(trace') = Len(trace) + 1 /\ trace'[Len(trace')] = cb
        /\ lines' \in Seq(LineSet) /\ Len(lines') = Len(lines) + 1
        /\ Len(trace) \in Nat /\ Len(lines) \in Nat
    BY <1>5, <1>6, <1>7, Appended
  <1>9. /\ e.kind = "stack" /\ e.num = numbered /\ e.base = base /\ e.name = name /\ e.of = o
        /\ cb.base = base /\ cb.name = name /\ cb.of = o
    OBVIOUS
  <1>10. told' = told + 1 /\ Due' = o + 1 /\ o <= o /\ o < o + 1 /\ o + 1 \in Nat
    BY <1>1, <1>2 DEF Due
  <1>11. o \in s' .. s' + told' - 2 /\ told' <= c' + 1 /\ told' \in Nat /\ told' >= 1
    BY <1>1, <1>2, <1>10
  <1> HIDE DEF cb, e, o
  <1>12. InTurn'
    BY <1>1, <1>11 DEF InTurn
  <1>13. Current'
    BY <1>1, <1>6, <1>8, <1>9, <1>11 DEF Current
  <1>14. ReportTyped'
    BY <1>1, <1>5, <1>6, <1>8 DEF ReportTyped
  <1>15. Counted(lines', numbered', Due')
    BY <1>2, <1>5, <1>6, <1>7, <1>9, <1>10, NoneAssumption, NumberedLine
  <1>16. Covered(lines', trace')
    <2>1. e.num # None
      BY <1>6, <1>9, NoneAssumption
    <2>2. QED
      BY <1>5, <1>6, <1>7, <1>9, <2>1, CoverMore
  <1>17. Headed(lines') /\ Remembers(lines', lastBase')
    BY <1>1, <1>5, <1>6, <1>7, <1>9, NoneAssumption, StackLine
  <1>18. changes = 0 => name \in loaded
    BY <1>1 DEF LinesInv, NamesMapped
  <1>19. AllPlaced' /\ NamesMapped'
    BY <1>1, <1>2, <1>5, <1>7, <1>9, <1>18, LinePlaced
  <1>20. QED
    BY <1>12, <1>13, <1>14, <1>15, <1>16, <1>17, <1>19 DEF LinesInv

\* The caller of the function inlined there: a line without a number.
LEMMA TellCallKeeps ==
  ASSUME IInv, LinesInv, TellCall
  PROVE  LinesInv'
  <1> DEFINE t == trace[Len(trace)]
             cb == [t EXCEPT !.addr = None]
             e == [kind |-> "stack", num |-> None, base |-> base, name |-> name, of |-> t.of]
  <1>1. /\ pc = "convert" /\ told \in 2 .. c + 1 /\ t.what = "source"
        /\ UNCHANGED <<groups, pc, s, c, base, name, loaded, changes, told, lastBase>>
        /\ Dialog!PrintSource(cb)
    BY DEF TellCall, Telling, traceVars, groupVars, tellVars, Dialog!PrintSource
  <1>2. /\ s \in Nat /\ s >= 1 /\ c \in Nat /\ c >= 1 /\ told \in Nat /\ told >= 1
        /\ base \in Bases /\ name \in Modules /\ Base[name] = base
    BY <1>1, HandedOn
  <1>3. /\ lines \in Seq(LineSet) /\ trace \in Seq(Told)
        /\ numbered \in Nat /\ lastBase \in Bases \cup {None}
        /\ numbered <= Len(lines) /\ Len(lines) <= Len(trace)
        /\ Counted(lines, numbered, Due) /\ Covered(lines, trace)
        /\ Headed(lines) /\ Remembers(lines, base) /\ lastBase = base
    <2>1. lastBase = base
      BY <1>1, <1>2 DEF LinesInv, Current
    <2>2. QED
      BY <2>1 DEF LinesInv, ReportTyped
  <1>4. /\ Len(trace) \in DOMAIN trace /\ t \in Told /\ t.base = base /\ t.name = name
        /\ t.of \in s .. s + told - 2
    <2>1. /\ Len(trace) >= 1 /\ t.base = base /\ t.name = name
          /\ t.what # "base_addr" => t.of \in s .. s + told - 2
      BY <1>1, <1>2 DEF LinesInv, Current
    <2>2. Len(trace) \in DOMAIN trace /\ t \in Told
      BY <1>3, <2>1
    <2>3. QED
      BY <1>1, <2>1, <2>2
  <1>5. t.of \in s .. s + c - 1 /\ t.of \in Nat
    BY <1>1, <1>2, <1>4
  <1>6. /\ cb \in Told /\ cb.addr = None /\ cb.what = "source" /\ cb.base = base /\ cb.name = name
        /\ cb.of = t.of
    BY <1>1, <1>4 DEF Told
  <1>7. e \in LineSet
    BY <1>2, <1>5 DEF LineSet
  <1>8. /\ e.kind = "stack" /\ e.num = None /\ e.base = base /\ e.name = name /\ e.of = t.of
    OBVIOUS
  <1> HIDE DEF t, cb
  <1>9. trace' = Append(trace, cb) /\ lines' = Append(lines, e) /\ numbered' = numbered
    BY <1>1, <1>6 DEF Dialog!PrintSource, Dialog!Callback, Dialog!Emit, Dialog!Line
  <1> HIDE DEF e
  <1>10. /\ trace' \in Seq(Told) /\ Len(trace') = Len(trace) + 1 /\ trace'[Len(trace')] = cb
         /\ lines' \in Seq(LineSet) /\ Len(lines') = Len(lines) + 1
         /\ Len(trace) \in Nat /\ Len(lines) \in Nat
    BY <1>3, <1>6, <1>7, <1>9, Appended
  <1>11. InTurn' /\ Due' = Due
    BY <1>1 DEF LinesInv, InTurn, Due
  <1>12. Current'
    BY <1>1, <1>3, <1>4, <1>6, <1>10 DEF Current
  <1>13. ReportTyped'
    BY <1>1, <1>3, <1>9, <1>10 DEF ReportTyped
  <1>14. Counted(lines', numbered', Due')
    BY <1>3, <1>7, <1>8, <1>9, <1>11, PlainLine
  <1>15. Covered(lines', trace')
    <2>1. \E l \in DOMAIN lines : lines[l].of = cb.of /\ lines[l].num # None
      BY <1>1, <1>3, <1>4, <1>6 DEF Covered, t
    <2>2. QED
      BY <1>3, <1>6, <1>7, <1>9, <2>1, CoverMore
  <1>16. Headed(lines') /\ Remembers(lines', lastBase')
    BY <1>1, <1>3, <1>7, <1>8, <1>9, NoneAssumption, StackLine
  <1>17. changes = 0 => name \in loaded
    BY <1>1 DEF LinesInv, NamesMapped
  <1>18. AllPlaced' /\ NamesMapped'
    BY <1>1, <1>2, <1>5, <1>7, <1>8, <1>9, <1>17, LinePlaced
  <1>19. QED
    BY <1>11, <1>12, <1>13, <1>14, <1>15, <1>16, <1>18 DEF LinesInv

\* The bound that the numbered lines lie below may grow.
LEMMA CountedLater ==
  ASSUME NEW ls \in Seq(LineSet), NEW n, NEW b \in Nat, NEW d \in Nat, Counted(ls, n, b), b <= d
  PROVE  Counted(ls, n, d)
  <1> SUFFICES ASSUME NEW l \in NumberedOf(ls) PROVE ls[l].of < d
    BY DEF Counted
  <1>1. ls[l] \in LineSet /\ ls[l].of < b
    BY DEF Counted, NumberedOf
  <1>2. ls[l].of \in Nat
    BY <1>1 DEF LineSet
  <1>3. QED
    BY <1>1, <1>2

\* An address without a callback.
LEMMA TellNothingKeeps ==
  ASSUME IInv, LinesInv, TellNothing
  PROVE  LinesInv'
  <1>1. /\ pc = "convert" /\ told \in 1 .. c /\ told' = told + 1
        /\ UNCHANGED <<groups, pc, s, c, base, name, loaded, changes, lines, trace, numbered, lastBase>>
    BY DEF TellNothing, NextAddress, Telling, traceVars, groupVars, dialogVars
  <1>2. s \in Nat /\ s >= 1 /\ c \in Nat /\ told \in Nat /\ told >= 1
    BY <1>1, HandedOn
  <1>3. InTurn' /\ Due \in Nat /\ Due' \in Nat /\ Due <= Due'
    BY <1>1, <1>2 DEF InTurn, Due
  <1>4. ReportTyped' /\ ReportTyped
    BY <1>1 DEF LinesInv, ReportTyped
  <1>5. Current'
    <2>1. /\ lastBase = base /\ Len(trace) >= 1
          /\ trace[Len(trace)].base = base /\ trace[Len(trace)].name = name
          /\ trace[Len(trace)].what # "base_addr" => trace[Len(trace)].of \in s .. s + told - 2
      BY <1>1, <1>2 DEF LinesInv, Current
    <2>2. \A k \in s .. s + told - 2 : k \in s .. s + (told + 1) - 2
      BY <1>2
    <2>3. QED
      BY <1>1, <2>1, <2>2 DEF Current
  <1>6. Counted(lines', numbered', Due')
    BY <1>1, <1>3, <1>4, CountedLater DEF LinesInv, ReportTyped
  <1>7. AllPlaced' /\ NamesMapped'
    BY <1>1 DEF LinesInv, AllPlaced, Placed, NamesMapped
  <1>8. QED
    BY <1>1, <1>3, <1>4, <1>5, <1>6, <1>7 DEF LinesInv

\* The loop goes on when everything is told about its group.
LEMMA GroupKeepsLines ==
  ASSUME IInv, LinesInv, Loop, pc = "convert" => told <= c + 1, told' = 0,
         UNCHANGED <<lines, trace, numbered, lastBase>>
  PROVE  LinesInv'
  <1>1. /\ lines \in Seq(LineSet) /\ ReportTyped' /\ Covered(lines', trace')
        /\ Headed(lines') /\ Remembers(lines', lastBase') /\ Counted(lines, numbered, Due)
    BY DEF LinesInv, ReportTyped
  <1>2. count \in Nat /\ s \in Nat /\ s >= 1 /\ told \in Nat
    BY Sizes DEF IInv, GroupsInOrder, LinesInv, InTurn
  <1>3. ASSUME Due \in Nat, s' \in Nat, Due <= s', pc' = "convert" => 0 <= c' + 1,
               AllPlaced', NamesMapped'
        PROVE  LinesInv'
    <2>1. Due' = s'
      BY DEF Due
    <2>2. Counted(lines', numbered', Due')
      BY <1>1, <1>3, <2>1, CountedLater
    <2>3. InTurn' /\ Current'
      BY <1>3 DEF InTurn, Current
    <2>4. QED
      BY <1>1, <1>3, <2>2, <2>3 DEF LinesInv
  <1>4. CASE Convert
    <2> DEFINE new == [from |-> s, to |-> s + c - 1, base |-> base, name |-> name]
               last == Len(groups) + 1
    <2>1. /\ pc = "convert" /\ pc' = "first" /\ s' = s + c /\ groups' = Append(groups, new)
          /\ UNCHANGED <<loaded, changes, c>>
      BY <1>4 DEF Convert, memory
    <2>2. /\ c \in Nat /\ c >= 1 /\ name \in Modules /\ base \in Bases
      BY <2>1, HandedOn
    <2>3. Due \in Nat /\ s' \in Nat /\ Due <= s'
      BY <1>2, <2>1, <2>2 DEF Due
    <2>4. new \in Group
      BY <1>2, <2>1, <2>2, HandedOn DEF Group, Bases
    <2>5. /\ DOMAIN groups' = DOMAIN groups \cup {last} /\ groups'[last] = new
          /\ \A g \in DOMAIN groups : groups'[g] = groups[g]
      <3>1. groups \in Seq(Group)
        BY DEF IInv, GroupsInOrder, TypeOK
      <3>2. QED
        BY <2>1, <2>4, <3>1, Appended
    <2>6. new.from = s /\ new.to = s + c - 1 /\ new.base = base /\ new.name = name
      OBVIOUS
    <2> HIDE DEF new, last
    <2>7. ASSUME NEW l \in DOMAIN lines, lines[l].kind = "stack"
          PROVE  \E g \in DOMAIN groups' :
                   lines[l].of \in groups'[g].from .. groups'[g].to /\ lines[l].base = groups'[g].base
      <3>1. Placed(l)
        BY <2>7 DEF LinesInv, AllPlaced
      <3>2. CASE \E g \in DOMAIN groups :
                   lines[l].of \in groups[g].from .. groups[g].to /\ lines[l].base = groups[g].base
        BY <2>5, <3>2
      <3>3. CASE lines[l].of \in s .. s + c - 1 /\ lines[l].base = base
        BY <2>5, <2>6, <3>3
      <3>4. QED
        BY <3>1, <3>2, <3>3 DEF Placed
    <2>8. AllPlaced'
      BY <2>7 DEF AllPlaced, Placed
    <2>9. NamesMapped'
      BY <2>1, <2>5, <2>6 DEF LinesInv, NamesMapped
    <2>10. QED
      BY <1>3, <2>1, <2>3, <2>8, <2>9
  <1>5. CASE SkipAddress \/ NameFails \/ Return
    <2>1. /\ pc \in {"first", "name"} /\ pc' \in {"first", "done"} /\ s' \in {s, s + 1}
          /\ UNCHANGED <<groups, loaded, changes>>
      BY <1>5 DEF SkipAddress, NameFails, Return, memory
    <2>2. told = 0 /\ Due = s
      BY <2>1 DEF LinesInv, InTurn, Due
    <2>3. Due \in Nat /\ s' \in Nat /\ Due <= s'
      BY <1>2, <2>1, <2>2
    <2>4. AllPlaced' /\ NamesMapped'
      BY <2>1 DEF LinesInv, AllPlaced, Placed, NamesMapped
    <2>5. QED
      BY <1>3, <2>1, <2>3, <2>4
  <1>6. CASE TakeBase \/ TakeName \/ Extend \/ Stop
    <2>1. /\ pc \in {"first", "name", "extend"} /\ pc' \in {"name", "extend", "convert"}
          /\ UNCHANGED <<s, groups, loaded, changes>>
          /\ pc' = "extend" => (pc = "extend" /\ UNCHANGED name) \/ name' \in loaded
          /\ pc' = "convert" => pc = "extend" /\ UNCHANGED <<name, c>>
      BY <1>6 DEF TakeBase, TakeName, Extend, Stop, memory
    <2>2. told = 0 /\ Due = s
      BY <2>1 DEF LinesInv, InTurn, Due
    <2>3. Due \in Nat /\ s' \in Nat /\ Due <= s'
      BY <1>2, <2>1, <2>2
    <2>4. pc' = "convert" => 0 <= c' + 1
      <3>1. pc = "extend" => c \in Nat
        BY <1>2 DEF IInv, GroupsInOrder, TypeOK
      <3>2. QED
        BY <2>1, <3>1
    <2>5. AllPlaced' /\ NamesMapped'
      BY <2>1 DEF LinesInv, AllPlaced, Placed, NamesMapped
    <2>6. QED
      BY <1>3, <2>1, <2>3, <2>4, <2>5
  <1>7. QED
    BY <1>4, <1>5, <1>6 DEF Loop

\* Other threads change only which modules are mapped.
LEMMA OthersKeepLines ==
  ASSUME IInv, LinesInv, NEW m \in Modules, Load(m) \/ Unload(m),
         UNCHANGED <<told, lines, trace, numbered, lastBase>>
  PROVE  LinesInv'
  <1>1. UNCHANGED <<groups, pc, s, c, base, name>> /\ changes' # 0
    BY DEF Load, Unload, IInv, GroupsInOrder, TypeOK
  <1>2. AllPlaced' /\ NamesMapped'
    BY <1>1 DEF LinesInv, AllPlaced, Placed, NamesMapped
  <1>3. InTurn' /\ ReportTyped' /\ Current' /\ Due' = Due
    BY <1>1 DEF LinesInv, InTurn, ReportTyped, Current, Due
  <1>4. QED
    BY <1>2, <1>3 DEF LinesInv

\* All else leaves the lines, and what they are about, alone.
LEMMA IdleKeepsLines ==
  ASSUME LinesInv, UNCHANGED <<groupVars, told, lines, trace, numbered, lastBase>>
  PROVE  LinesInv'
  <1>1. UNCHANGED <<groups, pc, s, c, base, name, loaded, changes>>
    BY DEF groupVars
  <1>2. AllPlaced' /\ NamesMapped'
    BY <1>1 DEF LinesInv, AllPlaced, Placed, NamesMapped
  <1>3. InTurn' /\ ReportTyped' /\ Current' /\ Due' = Due
    BY <1>1 DEF LinesInv, InTurn, ReportTyped, Current, Due
  <1>4. QED
    BY <1>2, <1>3 DEF LinesInv

\* Every step keeps the lines in order.
LEMMA LinesKept ==
  ASSUME TraceInv, LinesInv, [CrashNext]_crashVars
  PROVE  LinesInv'
  <1> DEFINE told4 == <<told, lines, trace, numbered, lastBase>>
  <1>1. CASE TakeTrace
    <2>1. UNCHANGED <<lines, trace, numbered, lastBase>>
      BY <1>1 DEF TakeTrace, dialogVars
    <2>2. CASE CaptureStep /\ UNCHANGED told
      BY <2>1, <2>2, IdleKeepsLines DEF CaptureStep
    <2>3. CASE GroupStep /\ told' = 0
      BY <2>1, <2>3, GroupKeepsLines DEF GroupStep, LinesInv, InTurn, TraceInv
    <2>4. QED
      BY <1>1, <2>2, <2>3 DEF TakeTrace
  <1>2. CASE ChangeModules
    <2>1. UNCHANGED told4 /\ \E m \in Modules : Load(m) \/ Unload(m)
      BY <1>2 DEF ChangeModules, OthersStep, tellVars, dialogVars
    <2>2. QED
      BY <2>1, OthersKeepLines DEF TraceInv
  <1>3. CASE Tell
    BY <1>3, TellBaseKeeps, TellAddressKeeps, TellCallKeeps, TellNothingKeeps DEF Tell, TraceInv
  <1>4. CASE Report \/ Application \/ UNCHANGED crashVars
    <2>1. UNCHANGED told4 /\ UNCHANGED groupVars
      BY <1>4 DEF Report, Application, crashVars, traceVars, tellVars, dialogVars,
                Dialog!SkipInfo, Dialog!TestInfo, Dialog!ShowInfo, Dialog!Show, Dialog!Set,
                Dialog!SetFilter, Dialog!FreeInfo, Dialog!Assign, Dialog!Crash, Dialog!Close,
                Dialog!report
    <2>2. QED
      BY <2>1, IdleKeepsLines
  <1>5. QED
    BY <1>1, <1>2, <1>3, <1>4 DEF CrashNext

\* At first there are no lines.
LEMMA LinesBegin == CrashInit => LinesInv
  <1> SUFFICES ASSUME CrashInit PROVE LinesInv
    OBVIOUS
  <1>1. /\ lines = <<>> /\ trace = <<>> /\ numbered = 0 /\ lastBase = None /\ told = 0
        /\ pc = "first" /\ groups = <<>>
    BY DEF CrashInit, TraceInit, Init, Dialog!DialogInit
  <1>2. NumberedOf(lines) = {}
    BY <1>1 DEF NumberedOf
  <1>3. Counted(lines, numbered, Due)
    BY <1>1, <1>2, FS_EmptySet DEF Counted
  <1>4. InTurn /\ ReportTyped /\ Current /\ AllPlaced /\ NamesMapped
    BY <1>1 DEF InTurn, ReportTyped, Current, AllPlaced, NamesMapped
  <1>5. Covered(lines, trace) /\ Headed(lines) /\ Remembers(lines, lastBase)
    BY <1>1 DEF Covered, Headed, Remembers
  <1>6. QED
    BY <1>3, <1>4, <1>5 DEF LinesInv

\* The three invariants hold together, for what relies on all of them.
LEMMA LinesAlways == CrashSpec => [](TraceInv /\ Kept /\ LinesInv)
  <1>1. CrashInit => Kept
    <2> SUFFICES ASSUME CrashInit PROVE Kept
      OBVIOUS
    <2>1. Init
      BY DEF CrashInit, TraceInit
    <2>2. QED
      BY <2>1, NothingYet DEF Init, Apart
  <1>2. QED
    BY <1>1, TraceEstablished, CrashStepPreserves, KeptByStep, LinesBegin, LinesKept, PTL
       DEF CrashSpec

\* The text of the dialog is one that is allocated, whatever calls there were.
THEOREM OneTextCorrect == CrashSpec => []OneTextKept
  <1>1. TextInv /\ LinesInv => OneTextKept
    <2> SUFFICES ASSUME TextInv, LinesInv PROVE OneTextKept
      OBVIOUS
    <2>1. Dialog!TypeOK
      BY DEF TextInv, LinesInv, ReportTyped, Chosen, Dialog!TypeOK
    <2>2. QED
      BY <2>1 DEF OneTextKept, Dialog!OneTextKept, TextInv
  <1>2. QED
    BY <1>1, LinesAlways, TextBegins, TextKept, PTL DEF CrashSpec

\* There is one last base line above a line.
LEMMA OneAbove ==
  ASSUME NEW ls \in Seq(LineSet), NEW l \in DOMAIN ls, NEW m, LastAbove(ls, m, l)
  PROVE  /\ m \in 1 .. l - 1 /\ ls[m].kind = "base"
         /\ \A o \in 1 .. l - 1 : ls[o].kind = "base" => o <= m
         /\ ls[l].kind = "stack" => \A o \in m + 1 .. l : ls[o].kind = "stack"
  <1>1. DOMAIN ls = 1 .. Len(ls) /\ Len(ls) \in Nat
    OBVIOUS
  <1>2. m \in 1 .. l - 1 /\ ls[m].kind = "base"
    BY <1>1 DEF LastAbove
  <1>3. ASSUME NEW o \in 1 .. l - 1, ls[o].kind = "base" PROVE o <= m
    <2>1. o \in DOMAIN ls /\ o < l
      BY <1>1
    <2>2. ~(m < o)
      BY <1>3, <2>1 DEF LastAbove
    <2>3. QED
      BY <1>1, <1>2, <2>2
  <1>4. ASSUME NEW o \in m + 1 .. l, ls[l].kind = "stack" PROVE ls[o].kind = "stack"
    <2>1. o \in DOMAIN ls /\ ls[o] \in LineSet
      BY <1>1, <1>2
    <2>2. CASE o = l
      BY <1>4, <2>2
    <2>3. CASE o # l
      <3>1. o \in 1 .. l - 1 /\ ~(o <= m)
        BY <1>1, <1>2, <2>3
      <3>2. ls[o].kind # "base"
        BY <1>3, <3>1
      <3>3. QED
        BY <2>1, <3>2 DEF LineSet
    <2>4. QED
      BY <2>2, <2>3
  <1>5. QED
    BY <1>2, <1>3, <1>4

\* What is written into the dialog is what the trace is: every address once, in
\* order, below its own module.
THEOREM LinesCorrect == CrashSpec => []LinesInOrder
  <1>1. TraceInv /\ Kept /\ LinesInv => LinesInOrder
    <2> SUFFICES ASSUME TraceInv, Kept, LinesInv PROVE LinesInOrder
      OBVIOUS
    <2>1. lines \in Seq(LineSet) /\ DOMAIN lines = 1 .. Len(lines) /\ Len(lines) \in Nat
      BY DEF LinesInv, ReportTyped
    <2>2. \A l \in DOMAIN lines :
            lines[l].num # None => lines[l].num = Dialog!Number(lines[l].of)
      <3> SUFFICES ASSUME NEW l \in DOMAIN lines, lines[l].num # None
                   PROVE  lines[l].num = Dialog!Number(lines[l].of)
        OBVIOUS
      <3>1. l \in NumberedOf(lines)
        BY DEF NumberedOf
      <3>2. lines[l].num = Cardinality(EarlierOf(lines, lines[l].of))
        BY <3>1 DEF LinesInv, Counted
      <3>3. \A o : Dialog!Number(o) = Cardinality(EarlierOf(lines, o))
        <4>1. \A S : Dialog!Cardinality(S) = Cardinality(S)
          BY Zenon DEF Cardinality, Dialog!Cardinality
        <4>2. QED
          BY <4>1, Zenon DEF EarlierOf, Dialog!Number
      <3>4. QED
        BY <3>2, <3>3
    <2>3. \A k \in DOMAIN trace : trace[k].what # "base_addr" =>
            \E l \in DOMAIN lines : lines[l].of = trace[k].of /\ lines[l].num # None
      BY DEF LinesInv, Covered
    <2>4. ASSUME NEW l \in DOMAIN lines
          PROVE  LET bases == {m \in 1 .. l - 1 : lines[m].kind = "base"}
                     above == CHOOSE m \in bases : \A o \in bases : o <= m
                 IN IF lines[l].kind = "stack"
                      THEN bases # {} /\ lines[above].base = lines[l].base
                      ELSE bases # {} => lines[above].base # lines[l].base
      <3> DEFINE bases == {m \in 1 .. l - 1 : lines[m].kind = "base"}
                 above == CHOOSE m \in bases : \A o \in bases : o <= m
      <3>1. ASSUME NEW m \in DOMAIN lines, LastAbove(lines, m, l) PROVE m \in bases /\ above = m
        <4>1. m \in bases /\ \A o \in bases : o <= m
          BY <2>1, <3>1, OneAbove
        <4>2. \A k \in bases : (\A o \in bases : o <= k) => k = m
          BY <2>1, <4>1
        <4>3. QED
          BY <4>1, <4>2
      <3>2. CASE lines[l].kind = "stack"
        <4>1. PICK m \in DOMAIN lines : LastAbove(lines, m, l) /\ lines[m].base = lines[l].base
          BY <3>2 DEF LinesInv, Headed
        <4>2. QED
          BY <3>1, <3>2, <4>1
      <3>3. CASE lines[l].kind # "stack"
        <4>1. CASE \A m \in DOMAIN lines : m < l => lines[m].kind # "base"
          <5>1. bases = {}
            BY <2>1, <4>1
          <5>2. QED
            BY <3>3, <5>1
        <4>2. CASE \E m \in DOMAIN lines : LastAbove(lines, m, l) /\ lines[m].base # lines[l].base
          BY <3>1, <3>3, <4>2
        <4>3. QED
          BY <3>3, <4>1, <4>2 DEF LinesInv, Headed
      <3>4. QED
        BY <3>2, <3>3
    <2>5. ASSUME NEW l \in DOMAIN lines, lines[l].kind = "stack"
          PROVE  LET above == CHOOSE m \in 1 .. l : /\ lines[m].kind = "base"
                                                    /\ \A n \in m + 1 .. l : lines[n].kind = "stack"
                 IN \/ \E g \in DOMAIN groups :
                         /\ lines[l].of \in groups[g].from .. groups[g].to
                         /\ lines[above].base = groups[g].base
                         /\ changes = 0 => lines[above].name = groups[g].name
                    \/ pc = "convert" /\ lines[l].of \in s .. s + c - 1 /\ lines[above].base = base
      <3> DEFINE Is(m) == /\ lines[m].kind = "base"
                          /\ \A n \in m + 1 .. l : lines[n].kind = "stack"
                 above == CHOOSE m \in 1 .. l : Is(m)
      <3>1. PICK m \in DOMAIN lines : LastAbove(lines, m, l) /\ lines[m].base = lines[l].base
        BY <2>5 DEF LinesInv, Headed
      <3>2. m \in 1 .. l /\ Is(m) /\ m < l
        BY <2>1, <2>5, <3>1, OneAbove
      <3>3. ASSUME NEW k \in 1 .. l, Is(k) PROVE k = m
        <4>1. ~(k < m)
          BY <2>1, <3>2, <3>3
        <4>2. ~(m < k)
          BY <2>1, <3>2, <3>3
        <4>3. QED
          BY <2>1, <3>2, <4>1, <4>2
      <3>4. above = m
        BY <3>2, <3>3
      <3>5. Placed(l)
        BY <2>5 DEF LinesInv, AllPlaced
      <3>6. ASSUME NEW g \in DOMAIN groups, lines[l].base = groups[g].base, changes = 0
            PROVE  lines[m].name = groups[g].name
        <4>1. lines[m].name \in loaded /\ groups[g].name \in loaded
          BY <3>6 DEF LinesInv, NamesMapped
        <4>2. Base[lines[m].name] = lines[m].base /\ Base[groups[g].name] = groups[g].base
          BY DEF LinesInv, NamesMapped, TraceInv, IInv, GroupsInOrder
        <4>3. Apart /\ loaded \subseteq Modules
          BY DEF Kept, TraceInv, IInv, GroupsInOrder, TypeOK
        <4>4. QED
          BY <3>1, <3>6, <4>1, <4>2, <4>3, BaseTells
      <3>7. QED
        BY <3>1, <3>4, <3>5, <3>6 DEF Placed
    <2>6. QED
      BY <2>2, <2>3, <2>4, <2>5 DEF LinesInOrder, Dialog!LinesInOrder
  <1>2. QED
    BY <1>1, LinesAlways, PTL

-----------------------------------------------------------------------------
(* How the trace is captured: captureStackTrace(), captureStackWalk() and    *)
(* RtlCaptureStackBackTrace() follow the chain of frames.                    *)

\* The frame that follows f in the chain, 0 past its end, and the frames that the
\* first n steps lead to.
NextFrame(ch, f) == IF f \in DOMAIN ch /\ ch[f].readable THEN ch[f].next ELSE 0

AreHops(ch, n, h) == h = [k \in 0 .. n |-> IF k = 0 THEN 1 ELSE NextFrame(ch, h[k - 1])]

\* Whatever the chain, there are the frames that n steps along it lead to.
LEMMA HopsExist ==
  ASSUME NEW ch, NEW n \in Nat
  PROVE  \E h : AreHops(ch, n, h)
  <1> DEFINE Lacking == {m \in Nat : ~ \E h : AreHops(ch, m, h)}
  <1>1. SUFFICES ASSUME Lacking # {} PROVE FALSE
    OBVIOUS
  <1>2. PICK m \in Lacking : \A l \in Lacking : ~ (<<l, m>> \in OpToRel(<, Nat))
    <2>1. Lacking \subseteq Nat
      OBVIOUS
    <2> HIDE DEF Lacking
    <2>2. QED
      BY <1>1, <2>1, NatLessThanWellFounded, WFMin
  <1>3. m \in Nat /\ \A l \in Lacking : ~ (l < m)
    BY <1>2 DEF OpToRel
  <1>4. CASE m = 0
    <2> DEFINE h == [k \in 0 .. m |-> 1]
    <2>1. AreHops(ch, m, h)
      BY <1>4 DEF AreHops
    <2>2. QED
      BY <2>1
  <1>5. CASE m # 0
    <2>1. m - 1 \in Nat /\ m - 1 < m
      BY <1>3, <1>5
    <2>2. PICK g : AreHops(ch, m - 1, g)
      BY <1>3, <2>1
    <2> DEFINE h == [k \in 0 .. m |-> IF k = m THEN NextFrame(ch, g[m - 1]) ELSE g[k]]
    <2>3. \A k \in 0 .. m - 1 : h[k] = g[k]
      BY <1>3, <2>1
    <2>4. ASSUME NEW k \in 0 .. m
          PROVE  h[k] = IF k = 0 THEN 1 ELSE NextFrame(ch, h[k - 1])
      <3>1. CASE k = m
        <4>1. h[k] = NextFrame(ch, g[m - 1]) /\ h[k - 1] = g[m - 1]
          BY <1>3, <2>1, <2>3, <3>1
        <4>2. QED
          BY <1>5, <3>1, <4>1
      <3>2. CASE k # m
        <4>1. k \in 0 .. m - 1
          BY <1>3, <3>2
        <4>2. h[k] = g[k] /\ (k # 0 => h[k - 1] = g[k - 1])
          BY <2>3, <4>1, <1>3
        <4>3. g[k] = IF k = 0 THEN 1 ELSE NextFrame(ch, g[k - 1])
          BY <2>2, <4>1 DEF AreHops
        <4> HIDE DEF h
        <4>4. QED
          BY <4>2, <4>3
      <3>3. QED
        BY <3>1, <3>2
    <2>5. h = [k \in 0 .. m |-> h[k]]
      OBVIOUS
    <2>6. AreHops(ch, m, h)
      <3> HIDE DEF h
      <3>1. QED
        BY <2>4, <2>5 DEF AreHops
    <2>7. QED
      BY <2>6
  <1>6. QED
    BY <1>4, <1>5

\* The frames that the property speaks of are those.
LEMMA HopsAre == AreHops(chain, MaxFrames, Capture!Hops)
  <1>1. PICK h : AreHops(chain, MaxFrames, h)
    BY HopsExist, FramesAssumption
  <1>2. h = [k \in 0 .. MaxFrames |->
               IF k = 0 THEN 1 ELSE IF Capture!Usable(h[k - 1]) THEN chain[h[k - 1]].next ELSE 0]
    BY <1>1 DEF AreHops, NextFrame, Capture!Usable
  <1>3. Capture!Hops = [k \in 0 .. MaxFrames |->
               IF k = 0 THEN 1 ELSE IF Capture!Usable(Capture!Hops[k - 1]) THEN chain[Capture!Hops[k - 1]].next ELSE 0]
    BY <1>2, Zenon DEF Capture!Hops
  <1>4. QED
    BY <1>3 DEF AreHops, NextFrame, Capture!Usable

\* They stay as long as the chain does.
LEMMA HopsStay ==
  ASSUME UNCHANGED chain
  PROVE  Capture!Hops' = Capture!Hops
  BY DEF Capture!Hops, Capture!Usable

-----------------------------------------------------------------------------

\* In the trace so far, each call is the one that the chain gives next, and
\* the frame looked at is that of the call after it.  A walk that has ended
\* before the buffer was full came to where the chain ends.
Walked ==
  /\ variant \in Capture!Variants
  /\ stage = "start" => frames = <<>>
  /\ stage = "frames" => variant \in {"exception", "location_frames"}
  /\ stage = "capture" => variant = "location"
  /\ stage = "walk" => variant = "exception_walk"
  /\ stage \in {"frames", "capture"} \/ (stage = "walk" /\ Capture!count > 0) =>
       Capture!Before <= Capture!count /\ sp = Capture!Hops[Capture!count - Capture!Before]
  /\ stage = "walk" /\ Capture!count = 0 => sp = 1
  /\ sp \in Nat /\ Capture!count <= MaxFrames
  /\ FramesAreCalls
  /\ (stage \in {"convert", "cleanup", "done"} /\ variant \in {"exception", "location_frames"}
        /\ Capture!count < MaxFrames) =>
       ~Capture!Valid(Capture!Hops[Capture!count - Capture!Before])
  /\ stage \in {"cleanup", "done"} => addr = frames
  /\ symbols \in BOOLEAN
  /\ symbols <=> variant = "exception_walk" /\ stage \in {"walk", "convert", "cleanup"}

\* What is not taken from the chain are two addresses at most.
LEMMA BeforeIs ==
  /\ Capture!Before \in 0 .. 2
  /\ variant = "exception_walk" => Capture!Before = 1
  /\ variant = "exception" => Capture!Before > 0
  /\ variant \in {"location", "location_frames", "location_return"} => Capture!Before = 0
  BY DEF Capture!Before

\* The input of the walk stays, and with it what the chain leads to.
LEMMA InputStays ==
  ASSUME UNCHANGED Capture!inputs
  PROVE  /\ Capture!Hops' = Capture!Hops /\ Capture!Before' = Capture!Before
         /\ chain' = chain /\ variant' = variant /\ cip' = cip
         /\ \A k : Capture!Usable(k)' <=> Capture!Usable(k)
         /\ \A k : Capture!Valid(k)' <=> Capture!Valid(k)
  <1>1. chain' = chain /\ variant' = variant /\ cip' = cip /\ top' = top
    BY DEF Capture!inputs
  <1>2. Capture!Hops' = Capture!Hops
    BY <1>1, HopsStay
  <1>3. Capture!Before' = Capture!Before
    BY <1>1 DEF Capture!Before
  <1>4. \A k : /\ Capture!Usable(k)' <=> Capture!Usable(k)
               /\ Capture!Valid(k)' <=> Capture!Valid(k)
    BY <1>1 DEF Capture!Usable, Capture!Valid
  <1>5. QED
    BY <1>1, <1>2, <1>3, <1>4

\* A step along the chain leads to the frame it gives next.
LEMMA OneHop ==
  ASSUME NEW n \in Nat, n < MaxFrames, Capture!Usable(Capture!Hops[n])
  PROVE  Capture!Hops[n + 1] = chain[Capture!Hops[n]].next
  <1>1. n + 1 \in 0 .. MaxFrames /\ n + 1 # 0 /\ n + 1 - 1 = n
    BY FramesAssumption
  <1> DEFINE h == Capture!Hops
  <1>2. h[n + 1] = NextFrame(chain, h[n])
    <2>1. h = [k \in 0 .. MaxFrames |-> IF k = 0 THEN 1 ELSE NextFrame(chain, h[k - 1])]
      BY HopsAre DEF AreHops
    <2> HIDE DEF h
    <2>2. \A k \in 0 .. MaxFrames : h[k] = IF k = 0 THEN 1 ELSE NextFrame(chain, h[k - 1])
      BY <2>1
    <2>3. ASSUME NEW j \in 0 .. MaxFrames, j # 0
          PROVE  h[j] = NextFrame(chain, h[j - 1])
      BY <2>2, <2>3
    <2>4. h[n + 1] = NextFrame(chain, h[n + 1 - 1])
      BY <1>1, <2>3
    <2>5. h[n + 1 - 1] = h[n]
      BY <1>1
    <2>6. QED
      BY <2>4, <2>5
  <1>3. QED
    BY <1>2 DEF NextFrame, Capture!Usable

\* The walk starts at the frame that the registers give.
LEMMA NoHop == Capture!Hops[0] = 1
  <1> DEFINE h == Capture!Hops
  <1>1. 0 \in 0 .. MaxFrames
    BY FramesAssumption
  <1>2. h = [k \in 0 .. MaxFrames |-> IF k = 0 THEN 1 ELSE NextFrame(chain, h[k - 1])]
    BY HopsAre DEF AreHops
  <1> HIDE DEF h
  <1>3. h[0] = 1
    BY <1>1, <1>2
  <1>4. QED
    BY <1>3 DEF h

\* The call that is returned to from the frame looked at is the next one of
\* the trace.
LEMMA FrameTaken ==
  ASSUME Captured, FramesAreCalls, UNCHANGED Capture!inputs,
         Capture!Before <= Capture!count, Capture!count < MaxFrames,
         sp = Capture!Hops[Capture!count - Capture!Before],
         variant \in {"exception", "exception_walk"} => Capture!count > 0,
         Capture!Usable(sp), chain[sp].ret # 0,
         frames' = Append(frames, chain[sp].ret - 1), sp' = chain[sp].next
  PROVE  /\ FramesAreCalls'
         /\ Capture!count' = Capture!count + 1
         /\ (Capture!Before <= Capture!count
              /\ sp = Capture!Hops[Capture!count - Capture!Before])'
  <1> DEFINE n == Capture!count
             b == Capture!Before
  <1>1. /\ n \in Nat /\ b \in Nat /\ frames \in Seq(Nat) /\ n = Len(frames)
        /\ chain[sp].ret \in Nat /\ chain[sp].ret - 1 \in Nat
    BY BeforeIs, ReturnAddress DEF Captured, Capture!count
  <1>2. /\ Len(frames') = n + 1
        /\ \A k \in 1 .. n : frames'[k] = frames[k]
        /\ frames'[n + 1] = chain[sp].ret - 1
    BY <1>1
  <1>3. Capture!count' = n + 1
    BY <1>2 DEF Capture!count
  <1>4. Capture!Hops[n - b + 1] = chain[sp].next
    <2>1. n - b \in Nat /\ n - b < MaxFrames
      BY <1>1, FramesAssumption
    <2> HIDE DEF n, b
    <2>2. QED
      BY <2>1, OneHop DEF n, b
  <1>5. ASSUME NEW k \in b + 1 .. n + 1
        PROVE  /\ Capture!Usable(Capture!Hops[k - b - 1])
               /\ frames'[k] + 1 = chain[Capture!Hops[k - b - 1]].ret
    <2>1. CASE k = n + 1
      <3>1. k - b - 1 = n - b
        BY <1>1, <2>1
      <3>2. frames'[k] + 1 = chain[sp].ret
        BY <1>1, <1>2, <2>1
      <3>3. QED
        BY <3>1, <3>2
    <2>2. CASE k # n + 1
      <3>1. k \in b + 1 .. n /\ k \in 1 .. n
        BY <1>1, <2>2
      <3>2. QED
        BY <1>2, <3>1 DEF FramesAreCalls, Capture!FramesAreCalls
    <2>3. QED
      BY <2>1, <2>2
  <1>6. FramesAreCalls'
    <2>1. variant \in {"exception", "exception_walk"} => frames'[1] = cip
      BY <1>1, <1>2 DEF FramesAreCalls, Capture!FramesAreCalls
    <2>2. QED
      BY <1>3, <1>5, <2>1, InputStays DEF FramesAreCalls, Capture!FramesAreCalls
  <1>7. sp' = Capture!Hops'[Capture!count' - Capture!Before']
    <2>1. n + 1 - b = n - b + 1
      BY <1>1
    <2>2. Capture!Hops' = Capture!Hops /\ Capture!Before' = b
      BY InputStays
    <2>3. Capture!count' - Capture!Before' = n - b + 1
      <3> HIDE DEF n, b
      <3>1. QED
        BY <1>1, <1>3, <2>2
    <2>4. QED
      BY <1>4, <2>2, <2>3
  <1>8. QED
    BY <1>1, <1>3, <1>6, <1>7, InputStays

\* The walk begins with what is not taken from the chain.
LEMMA StartWalked ==
  ASSUME TraceInv, Walked,
         \/ Capture!StartException \/ Capture!StartWalk \/ Capture!StartFrames
         \/ Capture!StartReturn \/ Capture!StartCapture
  PROVE  Walked'
  <1>1. /\ frames = <<>> /\ sp = 1 /\ cip \in Nat /\ top \in Nat /\ frames \in Seq(Nat)
        /\ variant = "location_return" => Capture!Usable(1) /\ chain[1].ret # 0
        /\ stage = "start" /\ ~symbols
    BY DEF TraceInv, Captured, Walked, Capture!StartException, Capture!StartWalk,
           Capture!StartFrames, Capture!StartReturn, Capture!StartCapture
  <1>2. UNCHANGED <<Capture!inputs, sp, addr>>
    BY DEF Capture!StartException, Capture!StartWalk, Capture!StartFrames,
           Capture!StartReturn, Capture!StartCapture
  <1>3. /\ Capture!Hops' = Capture!Hops /\ Capture!Before' = Capture!Before
        /\ chain' = chain /\ variant' = variant /\ cip' = cip
        /\ \A k : Capture!Usable(k)' <=> Capture!Usable(k)
    BY <1>2, InputStays
  <1>4. CASE Capture!StartException
    <2>1. /\ variant = "exception" /\ stage' = "frames" /\ symbols' = symbols
          /\ frames' = IF top # 0 THEN <<cip>> \o <<top - 1>> ELSE <<cip>> \o <<>>
      BY <1>4 DEF Capture!StartException
    <2>2. Capture!Before = IF top # 0 THEN 2 ELSE 1
      BY <2>1 DEF Capture!Before
    <2>3. Len(frames') = Capture!Before /\ frames'[1] = cip
      <3>1. CASE top # 0
        <4>1. <<cip>> \in Seq(Nat) /\ <<top - 1>> \in Seq(Nat)
          BY <1>1, <3>1
        <4>2. frames' = <<cip>> \o <<top - 1>>
          BY <2>1, <3>1
        <4>3. Len(frames') = 2 /\ frames'[1] = cip
          BY <4>1, <4>2, ConcatProperties
        <4>4. QED
          BY <2>2, <3>1, <4>3
      <3>2. CASE top = 0
        <4>1. frames' = <<cip>>
          BY <1>1, <2>1, <3>2
        <4>2. QED
          BY <1>1, <2>2, <3>2, <4>1
      <3>3. QED
        BY <3>1, <3>2
    <2>4. Capture!count' = Capture!Before /\ Capture!Before \in 0 .. 2
      BY <2>3, BeforeIs DEF Capture!count
    <2>5. FramesAreCalls'
      BY <1>3, <2>3, <2>4 DEF FramesAreCalls, Capture!FramesAreCalls
    <2>6. sp' = Capture!Hops'[Capture!count' - Capture!Before']
      <3>1. Capture!count' - Capture!Before' = 0
        BY <1>3, <2>4
      <3>2. QED
        BY <1>1, <1>2, <1>3, <3>1, NoHop
    <2>7. QED
      BY <1>1, <1>2, <1>3, <2>1, <2>4, <2>5, <2>6, FramesAssumption DEF Walked
  <1>5. CASE Capture!StartWalk
    <2>1. variant = "exception_walk" /\ stage' = "walk" /\ symbols' = TRUE /\ frames' = frames
      BY <1>5 DEF Capture!StartWalk
    <2>2. Capture!count' = 0 /\ Capture!Before = 1
      BY <1>1, <2>1, BeforeIs DEF Capture!count
    <2>3. FramesAreCalls'
      BY <1>3, <2>2 DEF FramesAreCalls, Capture!FramesAreCalls
    <2>4. QED
      BY <1>1, <1>2, <1>3, <2>1, <2>2, <2>3, FramesAssumption DEF Walked
  <1>6. CASE Capture!StartFrames \/ Capture!StartCapture
    <2>1. /\ variant \in {"location_frames", "location"} /\ stage' \in {"frames", "capture"}
          /\ stage' = "frames" => variant = "location_frames"
          /\ stage' = "capture" => variant = "location"
          /\ symbols' = symbols /\ frames' = frames
      BY <1>6 DEF Capture!StartFrames, Capture!StartCapture
    <2>2. Capture!count' = 0 /\ Capture!Before = 0
      BY <1>1, <2>1, BeforeIs DEF Capture!count
    <2>3. FramesAreCalls'
      BY <1>3, <2>1, <2>2 DEF FramesAreCalls, Capture!FramesAreCalls
    <2>4. sp' = Capture!Hops'[Capture!count' - Capture!Before']
      <3>1. Capture!count' - Capture!Before' = 0
        BY <1>3, <2>2
      <3>2. QED
        BY <1>1, <1>2, <1>3, <3>1, NoHop
    <2>5. QED
      BY <1>1, <1>2, <1>3, <2>1, <2>2, <2>3, <2>4, FramesAssumption DEF Walked
  <1>7. CASE Capture!StartReturn
    <2>1. /\ variant = "location_return" /\ stage' = "convert" /\ symbols' = symbols
          /\ frames' = <<chain[1].ret - 1>>
      BY <1>1, <1>7 DEF Capture!StartReturn
    <2>2. chain[1].ret \in Nat /\ chain[1].ret - 1 + 1 = chain[1].ret /\ Capture!Usable(1)
      BY <1>1, <2>1, ReturnAddress DEF TraceInv
    <2>3. Len(frames') = 1 /\ frames'[1] = chain[1].ret - 1 /\ Capture!Before = 0
      BY <2>1, BeforeIs
    <2>4. Capture!count' = 1
      BY <2>3 DEF Capture!count
    <2>5. ASSUME NEW k \in Capture!Before' + 1 .. Capture!count'
          PROVE  /\ Capture!Usable(Capture!Hops[k - Capture!Before - 1])
                 /\ frames'[k] + 1 = chain[Capture!Hops[k - Capture!Before - 1]].ret
      <3>1. k = 1
        BY <1>3, <2>3, <2>4, <2>5
      <3>2. k - Capture!Before - 1 = 0
        BY <2>3, <3>1
      <3>3. QED
        BY <2>2, <2>3, <3>1, <3>2, NoHop
    <2>6. FramesAreCalls'
      BY <1>3, <2>1, <2>5 DEF FramesAreCalls, Capture!FramesAreCalls
    <2>7. QED
      BY <1>1, <1>2, <1>3, <2>1, <2>4, <2>6, FramesAssumption DEF Walked
  <1>8. QED
    BY <1>4, <1>5, <1>6, <1>7

\* A frame is taken from the chain, or the instruction pointer is.
LEMMA FollowWalked ==
  ASSUME TraceInv, Walked, Capture!CaptureMore \/ Capture!Follow \/ Capture!Walk
  PROVE  Walked'
  <1> DEFINE n == Capture!count
  <1>1. /\ UNCHANGED <<Capture!inputs, stage, symbols, addr>> /\ n < MaxFrames
        /\ stage \in {"capture", "frames", "walk"}
        /\ n \in Nat /\ frames \in Seq(Nat) /\ n = Len(frames)
    BY DEF Capture!CaptureMore, Capture!Follow, Capture!Walk, TraceInv, Captured, Capture!count
  <1>2. /\ Capture!Hops' = Capture!Hops /\ Capture!Before' = Capture!Before
        /\ chain' = chain /\ variant' = variant /\ cip' = cip
    BY <1>1, InputStays
  <1>3. CASE stage = "walk" /\ n = 0
    <2>1. Capture!Walk
      BY <1>3 DEF Capture!CaptureMore, Capture!Follow
    <2>2. frames' = Append(frames, cip) /\ sp' = sp /\ sp = 1 /\ cip \in Nat
      BY <1>3, <2>1 DEF Capture!Walk, Capture!WalkPc, Walked, TraceInv, Captured
    <2>3. Len(frames') = 1 /\ frames'[1] = cip
      <3>1. frames \in Seq(Nat) /\ Len(frames) = 0
        BY <1>1, <1>3
      <3>2. QED
        BY <2>2, <3>1
    <2>4. Capture!count' = 1 /\ Capture!Before' = 1 /\ variant = "exception_walk"
      BY <1>2, <1>3, <2>3, BeforeIs DEF Capture!count, Walked
    <2>5. FramesAreCalls'
      BY <1>2, <2>3, <2>4 DEF FramesAreCalls, Capture!FramesAreCalls
    <2>6. sp' = Capture!Hops'[Capture!count' - Capture!Before']
      <3>1. Capture!count' - Capture!Before' = 0
        BY <2>4
      <3>2. QED
        BY <1>2, <2>2, <3>1, NoHop
    <2>7. QED
      BY <1>1, <1>2, <1>3, <2>2, <2>4, <2>5, <2>6, FramesAssumption DEF Walked
  <1>4. CASE stage # "walk" \/ n # 0
    <2>1. /\ Capture!Usable(sp) /\ chain[sp].ret # 0
          /\ frames' = Append(frames, chain[sp].ret - 1) /\ sp' = chain[sp].next
      BY <1>1, <1>4 DEF Capture!CaptureMore, Capture!Follow, Capture!Walk, Capture!WalkPc,
                        Capture!Valid
    <2>2. /\ Capture!Before <= n /\ sp = Capture!Hops[n - Capture!Before] /\ FramesAreCalls
      BY <1>1, <1>4 DEF Walked
    <2>3. variant \in {"exception", "exception_walk"} => n > 0
      BY <1>1, <2>2, BeforeIs
    <2>4. /\ FramesAreCalls' /\ Capture!count' = n + 1
          /\ (Capture!Before <= Capture!count
               /\ sp = Capture!Hops[Capture!count - Capture!Before])'
      BY <1>1, <2>1, <2>2, <2>3, FrameTaken DEF TraceInv
    <2>5. sp' \in Nat
      <3>1. chain \in [DOMAIN chain -> Capture!Frame] /\ sp \in DOMAIN chain
        BY <2>1, ChainsAssumption DEF TraceInv, Captured, Capture!Usable
      <3>2. QED
        BY <2>1, <3>1 DEF Capture!Frame
    <2>6. Capture!count' <= MaxFrames /\ Capture!count' # 0
      BY <1>1, <2>4, FramesAssumption
    <2>7. QED
      BY <1>1, <1>2, <2>4, <2>5, <2>6 DEF Walked
  <1>5. QED
    BY <1>3, <1>4

\* The walk ends, the addresses are converted, and dbghelp's session is closed.
LEMMA EndWalked ==
  ASSUME TraceInv, Walked,
         \/ Capture!CaptureEnds \/ Capture!FollowEnds \/ Capture!WalkEnds
         \/ Capture!Convert \/ Capture!Cleanup \/ Capture!Done
  PROVE  Walked'
  <1>1. UNCHANGED <<Capture!inputs, sp, frames>>
    BY DEF Capture!CaptureEnds, Capture!FollowEnds, Capture!WalkEnds, Capture!Convert,
           Capture!Cleanup, Capture!Done, Capture!vars, Capture!inputs
  <1>2. /\ Capture!Hops' = Capture!Hops /\ Capture!Before' = Capture!Before
        /\ chain' = chain /\ variant' = variant /\ cip' = cip
        /\ \A k : Capture!Usable(k)' <=> Capture!Usable(k)
        /\ \A k : Capture!Valid(k)' <=> Capture!Valid(k)
    BY <1>1, InputStays
  <1>3. Capture!count' = Capture!count /\ frames' = frames /\ sp' = sp
    BY <1>1 DEF Capture!count
  <1>4. FramesAreCalls'
    BY <1>2, <1>3 DEF Walked, FramesAreCalls, Capture!FramesAreCalls
  <1>5. CASE Capture!CaptureEnds \/ Capture!WalkEnds
    BY <1>2, <1>3, <1>4, <1>5 DEF Walked, Capture!CaptureEnds, Capture!WalkEnds
  <1>6. CASE Capture!FollowEnds
    <2>1. /\ stage = "frames" /\ stage' = "convert" /\ symbols' = symbols
          /\ Capture!count >= MaxFrames \/ ~Capture!Valid(sp)
      BY <1>6 DEF Capture!FollowEnds
    <2>2. Capture!count \in Nat
      BY DEF Capture!count, TraceInv, Captured
    <2>3. Capture!count < MaxFrames =>
            ~Capture!Valid(Capture!Hops[Capture!count - Capture!Before])
      BY <2>1, <2>2, FramesAssumption DEF Walked
    <2>4. QED
      BY <1>2, <1>3, <1>4, <2>1, <2>3 DEF Walked
  <1>7. CASE Capture!Convert
    <2>1. stage = "convert" /\ stage' = "cleanup" /\ symbols' = symbols /\ addr' = frames
      BY <1>7 DEF Capture!Convert
    <2>2. QED
      BY <1>2, <1>3, <1>4, <2>1 DEF Walked
  <1>8. CASE Capture!Cleanup
    <2>1. stage = "cleanup" /\ stage' = "done" /\ symbols' = FALSE /\ addr' = addr
      BY <1>8 DEF Capture!Cleanup
    <2>2. QED
      BY <1>2, <1>3, <1>4, <2>1 DEF Walked
  <1>9. CASE Capture!Done
    <2>1. UNCHANGED <<stage, symbols, addr>>
      BY <1>9 DEF Capture!Done, Capture!vars
    <2>2. QED
      BY <1>2, <1>3, <1>4, <2>1 DEF Walked
  <1>10. QED
    BY <1>5, <1>6, <1>7, <1>8, <1>9

\* What is captured is not touched again.
LEMMA OtherWalked ==
  ASSUME Walked, UNCHANGED <<captureVars, addr>>
  PROVE  Walked'
  <1>1. /\ UNCHANGED Capture!inputs
        /\ UNCHANGED <<stage, sp, frames, symbols, addr>>
    BY DEF captureVars, Capture!inputs
  <1>2. /\ Capture!Hops' = Capture!Hops /\ Capture!Before' = Capture!Before
        /\ chain' = chain /\ variant' = variant /\ cip' = cip
        /\ \A k : Capture!Usable(k)' <=> Capture!Usable(k)
        /\ \A k : Capture!Valid(k)' <=> Capture!Valid(k)
    BY <1>1, InputStays
  <1>3. Capture!count' = Capture!count
    BY <1>1 DEF Capture!count
  <1>4. FramesAreCalls'
    BY <1>1, <1>2, <1>3 DEF Walked, FramesAreCalls, Capture!FramesAreCalls
  <1>5. QED
    BY <1>1, <1>2, <1>3, <1>4 DEF Walked

\* Every step of the report keeps what the walk has established.
LEMMA WalkedKept ==
  ASSUME TraceInv, Walked, [CrashNext]_crashVars
  PROVE  Walked'
  <1>1. ASSUME CaptureStep PROVE Walked'
    BY <1>1, StartWalked, FollowWalked, EndWalked DEF CaptureStep, Capture!Next
  <1>2. ASSUME GroupStep \/ OthersStep PROVE UNCHANGED <<captureVars, addr>>
    BY <1>2 DEF GroupStep, OthersStep, Loop, SkipAddress, NameFails, Return, TakeBase,
                TakeName, Extend, Stop, Convert, Load, Unload, memory
  <1>3. ASSUME Tell \/ Report \/ Application \/ UNCHANGED crashVars
        PROVE  UNCHANGED <<captureVars, addr>>
    BY <1>3 DEF Tell, TellBase, TellUnknown, TellSource, TellCall, TellNothing, NextAddress,
                Report, Application, crashVars, traceVars
  <1>4. QED
    BY <1>1, <1>2, <1>3, OtherWalked DEF CrashNext, TakeTrace, ChangeModules

\* At first there is no trace.
LEMMA WalkedBegins == CrashInit => Walked
  <1> SUFFICES ASSUME CrashInit PROVE Walked
    OBVIOUS
  <1>1. /\ variant \in Capture!Variants /\ stage = "start" /\ sp = 1 /\ frames = <<>>
        /\ symbols = FALSE
    BY DEF CrashInit, TraceInit, Capture!Init
  <1>2. Capture!count = 0
    BY <1>1 DEF Capture!count
  <1>3. FramesAreCalls
    BY <1>2, BeforeIs DEF FramesAreCalls, Capture!FramesAreCalls
  <1>4. symbols \in BOOLEAN /\ ~symbols
    BY <1>1, Zenon
  <1>5. QED
    BY <1>1, <1>2, <1>3, <1>4, FramesAssumption DEF Walked

\* dbghelp's session is closed when the callbacks have been made.
Closed == stage = "done" => pc = "done"

\* The capture goes on after the callbacks only.
LEMMA ClosedKept ==
  ASSUME TraceInv, Closed, [CrashNext]_crashVars
  PROVE  Closed'
  <1>1. ASSUME CaptureStep PROVE Closed'
    <2>1. Capture!Next /\ pc' = pc /\ (stage = "cleanup" => pc = "done")
      BY <1>1 DEF CaptureStep, Converting, groupVars
    <2>2. stage' = "done" => stage \in {"cleanup", "done"}
      BY <2>1 DEF Capture!Next, Capture!StartException, Capture!StartWalk, Capture!StartFrames,
                  Capture!StartReturn, Capture!StartCapture, Capture!CaptureMore,
                  Capture!CaptureEnds, Capture!Follow, Capture!FollowEnds, Capture!Walk,
                  Capture!WalkEnds, Capture!Convert, Capture!Cleanup, Capture!Done, Capture!vars
    <2>3. QED
      BY <2>1, <2>2 DEF Closed
  <1>2. ASSUME GroupStep \/ OthersStep PROVE Closed'
    BY <1>2 DEF GroupStep, OthersStep, Converting, Closed, captureVars
  <1>3. ASSUME Tell \/ Report \/ Application \/ UNCHANGED crashVars
        PROVE  UNCHANGED <<stage, pc>>
    BY <1>3 DEF Tell, TellBase, TellUnknown, TellSource, TellCall, TellNothing, NextAddress,
                Report, Application, crashVars, traceVars, captureVars, groupVars
  <1>4. QED
    BY <1>1, <1>2, <1>3 DEF CrashNext, TakeTrace, ChangeModules, Closed

\* The trace is the faulting instruction and then the calls of the chain, none left
\* out or taken twice, each by an address inside the call instruction, whatever the
\* chain of saved frame pointers leads to.
THEOREM FramesCorrect == CrashSpec => []FramesAreCalls
  <1>1. Walked => FramesAreCalls
    BY DEF Walked
  <1>2. QED
    BY <1>1, TraceEstablished, CrashStepPreserves, WalkedBegins, WalkedKept, PTL DEF CrashSpec

\* The walk along the frame pointers stops before the buffer is full only where the
\* chain ends, and dbghelp's session is open for the walk and the callbacks and
\* closed after them.
THEOREM FramesCompleteCorrect == CrashSpec => []FramesComplete
  <1>1. TraceInv /\ Walked /\ Closed => FramesComplete
    <2> SUFFICES ASSUME TraceInv, Walked, Closed PROVE FramesComplete
      OBVIOUS
    <2>1. /\ addr \in Seq(Nat) /\ frames \in Seq(Nat) /\ sp \in Nat /\ symbols \in BOOLEAN
          /\ Capture!count <= MaxFrames
          /\ stage \in {"start", "frames", "walk", "capture", "convert", "cleanup", "done"}
      BY DEF TraceInv, IInv, GroupsInOrder, TypeOK, Captured, Walked
    <2>2. Capture!TypeOK
      BY <2>1 DEF Capture!TypeOK
    <2>3. Len(addr) = Capture!count \/ stage # "done"
      BY DEF Walked, Capture!count
    <2>4. Capture!FramesComplete
      <3>1. (stage = "done" /\ variant \in {"exception", "location_frames"} /\ Len(addr) < MaxFrames) =>
              ~Capture!Valid(Capture!Hops[Len(addr) - Capture!Before])
        BY <2>3 DEF Walked
      <3>2. /\ stage \in {"walk", "convert", "cleanup"} => (symbols <=> variant = "exception_walk")
            /\ stage = "done" => ~symbols
        BY DEF Walked
      <3>3. QED
        BY <3>1, <3>2 DEF Capture!FramesComplete
    <2>5. pc = "convert" => stage = "cleanup"
      BY <2>1 DEF TraceInv, Captured, Capturing, Closed
    <2>6. QED
      BY <2>2, <2>4, <2>5 DEF FramesComplete, Walked
  <1>2. CrashInit => Closed
    BY DEF CrashInit, TraceInit, Capture!Init, Closed
  <1>3. QED
    BY <1>1, <1>2, TraceEstablished, CrashStepPreserves, WalkedBegins, WalkedKept, ClosedKept, PTL
       DEF CrashSpec

=============================================================================
