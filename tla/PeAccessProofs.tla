--------------------------- MODULE PeAccessProofs ----------------------------
(***************************************************************************)
(* Whatever the files and whichever calls fail: every label of             *)
(* dwarf_pe_init_link() finds exactly what it and the labels below it give *)
(* back, the image base handed out is that of the file opened, and that    *)
(* file is the first with debug information.  The invariants add where the *)
(* image base is from, and what has been tried, while the file is being    *)
(* opened.  Of its units: the list has them in order, from the first on.   *)
(* Of its sections: the table has the one section of each name, and packed *)
(* bytes are handed out as contents only if they could not be unpacked.    *)
(***************************************************************************)
EXTENDS OpenObject, TLAPS, FiniteSetTheorems, WellFoundedInduction

\* From the moment the file is mapped and checked, the base is its own.
BaseTaken ==
  (pc = "acquire" /\ "view" \in held) \/ pc \in {"setup", "open"} => imageBase = path

IInv == LabelsMatchLadder /\ BaseTaken

-----------------------------------------------------------------------------
(* The ladder.                                                             *)

\* The ladder, its labels and the order of dwarf_pe_finish(), one by one.
LEMMA LadderLabels ==
  /\ Len(Ladder) = 5 /\ Len(Labels) = 5 /\ Len(Finishing) = 6
  /\ Ladder[1] = "pe_obj" /\ Ladder[2] = "file" /\ Ladder[3] = "mapping"
  /\ Ladder[4] = "view" /\ Ladder[5] = "intfc"
  /\ Labels[1] = "no_file" /\ Labels[2] = "no_file_mapping" /\ Labels[3] = "no_view_of_file"
  /\ Labels[4] = "no_intfc" /\ Labels[5] = "no_dbg"
  /\ Finishing[1] = "view" /\ Finishing[2] = "mapping" /\ Finishing[3] = "file"
  /\ Finishing[4] = "pe_obj" /\ Finishing[5] = "intfc" /\ Finishing[6] = "dbg"
  BY DEF Ladder, Labels, Finishing

\* The first k resources, one by one.
LEMMA RungsListed ==
  /\ Rungs(0) = {}
  /\ Rungs(1) = {"pe_obj"}
  /\ Rungs(2) = {"pe_obj", "file"}
  /\ Rungs(3) = {"pe_obj", "file", "mapping"}
  /\ Rungs(4) = {"pe_obj", "file", "mapping", "view"}
  /\ Rungs(5) = {"pe_obj", "file", "mapping", "view", "intfc"}
  <1>1. Rungs(0) = {}
    BY DEF Rungs
  <1>2. Rungs(1) = {Ladder[1]}
    BY DEF Rungs
  <1>3. Rungs(2) = {Ladder[1], Ladder[2]}
    BY DEF Rungs
  <1>4. Rungs(3) = {Ladder[1], Ladder[2], Ladder[3]}
    BY DEF Rungs
  <1>5. Rungs(4) = {Ladder[1], Ladder[2], Ladder[3], Ladder[4]}
    BY DEF Rungs
  <1>6. Rungs(5) = {Ladder[1], Ladder[2], Ladder[3], Ladder[4], Ladder[5]}
    BY DEF Rungs
  <1>7. QED
    BY <1>1, <1>2, <1>3, <1>4, <1>5, <1>6, LadderLabels

\* Acquiring one more goes up by one rung, and giving it back down by one.
LEMMA RungsStep ==
  ASSUME NEW k \in 0 .. 4
  PROVE  /\ Rungs(k + 1) = Rungs(k) \cup {Ladder[k + 1]}
         /\ Ladder[k + 1] \notin Rungs(k)
         /\ Rungs(k + 1) \ {Ladder[k + 1]} = Rungs(k)
  <1>1. k \in {0, 1, 2, 3, 4}
    OBVIOUS
  <1>2. CASE k = 0
    BY <1>2, RungsListed, LadderLabels
  <1>3. CASE k = 1
    BY <1>3, RungsListed, LadderLabels
  <1>4. CASE k = 2
    BY <1>4, RungsListed, LadderLabels
  <1>5. CASE k = 3
    BY <1>5, RungsListed, LadderLabels
  <1>6. CASE k = 4
    BY <1>6, RungsListed, LadderLabels
  <1>7. QED
    BY <1>1, <1>2, <1>3, <1>4, <1>5, <1>6

\* The number of resources held tells which one is next.
LEMMA RungsCount ==
  \A k \in 0 .. 5 : IsFiniteSet(Rungs(k)) /\ Cardinality(Rungs(k)) = k
  <1>0. IsFiniteSet(Rungs(0)) /\ Cardinality(Rungs(0)) = 0
    BY RungsListed, FS_EmptySet
  <1>1. ASSUME NEW k \in 0 .. 4, IsFiniteSet(Rungs(k)), Cardinality(Rungs(k)) = k
        PROVE  IsFiniteSet(Rungs(k + 1)) /\ Cardinality(Rungs(k + 1)) = k + 1
    <2>1. Rungs(k + 1) = Rungs(k) \cup {Ladder[k + 1]} /\ Ladder[k + 1] \notin Rungs(k)
      BY RungsStep
    <2>2. /\ IsFiniteSet(Rungs(k) \cup {Ladder[k + 1]})
          /\ Cardinality(Rungs(k) \cup {Ladder[k + 1]}) = Cardinality(Rungs(k)) + 1
      BY <1>1, <2>1, FS_AddElement
    <2>3. QED
      BY <1>1, <2>1, <2>2
  <1>2. IsFiniteSet(Rungs(1)) /\ Cardinality(Rungs(1)) = 1
    BY <1>0, <1>1
  <1>3. IsFiniteSet(Rungs(2)) /\ Cardinality(Rungs(2)) = 2
    BY <1>2, <1>1
  <1>4. IsFiniteSet(Rungs(3)) /\ Cardinality(Rungs(3)) = 3
    BY <1>3, <1>1
  <1>5. IsFiniteSet(Rungs(4)) /\ Cardinality(Rungs(4)) = 4
    BY <1>4, <1>1
  <1>6. IsFiniteSet(Rungs(5)) /\ Cardinality(Rungs(5)) = 5
    BY <1>5, <1>1
  <1>7. \A k \in 0 .. 5 : k = 0 \/ k = 1 \/ k = 2 \/ k = 3 \/ k = 4 \/ k = 5
    OBVIOUS
  <1>8. QED
    BY <1>0, <1>2, <1>3, <1>4, <1>5, <1>6, <1>7

\* While resources are being acquired, k of them are held and resource k+1 is
\* the next.
LEMMA Climbing ==
  ASSUME IInv, pc = "acquire"
  PROVE  \E k \in 0 .. 4 :
           held = Rungs(k) /\ Cardinality(held) = k /\ Rung = Ladder[k + 1]
  <1>1. PICK k \in 0 .. 4 : held = Rungs(k)
    BY DEF IInv, LabelsMatchLadder
  <1>2. Cardinality(held) = k
    BY <1>1, RungsCount
  <1>3. QED
    BY <1>1, <1>2 DEF Rung

\* The labels as a set.
LEMMA LabelSetListed ==
  LabelSet = {"no_file", "no_file_mapping", "no_view_of_file", "no_intfc", "no_dbg"}
  <1>1. LabelSet = {Labels[1], Labels[2], Labels[3], Labels[4], Labels[5]}
    BY LadderLabels DEF LabelSet
  <1>2. QED
    BY <1>1, LadderLabels

-----------------------------------------------------------------------------

\* dwarf_pe_init() starts with nothing in hand.
LEMMA InitEstablishes == Init => IInv
  <1> SUFFICES ASSUME Init PROVE IInv
    OBVIOUS
  <1>1. TypeOK
    BY DisksAssumption DEF Init, TypeOK, Paths
  <1>2. held = Rungs(0)
    BY RungsListed DEF Init
  <1>3. LabelsMatchLadder
    BY <1>1, <1>2, LadderLabels DEF Init, LabelsMatchLadder
  <1>4. BaseTaken
    BY DEF Init, BaseTaken
  <1>5. QED
    BY <1>3, <1>4 DEF IInv

\* One more resource: the next rung, or the label of a file that is no image.
LEMMA AcquirePreserves ==
  ASSUME IInv, Acquire
  PROVE  IInv'
  <1>1. PICK k \in 0 .. 4 : held = Rungs(k) /\ Rung = Ladder[k + 1]
    BY Climbing DEF Acquire
  <1>2. held' = Rungs(k + 1)
    BY <1>1, RungsStep DEF Acquire
  <1>3. k \in {0, 1, 2, 3, 4}
    OBVIOUS
  <1>4. held' \subseteq Rungs(5) \cup {"dbg"}
    BY <1>2, <1>3, RungsListed
  <1>5. \/ pc' = "no_intfc" /\ k = 3
        \/ pc' = "setup" /\ k = 4
        \/ pc' = "acquire" /\ k \in 0 .. 3
    BY <1>1, <1>3, LadderLabels DEF Acquire
  <1>6. imageBase' \in Paths \cup {"none"}
    BY DEF Acquire, IInv, LabelsMatchLadder, TypeOK
  <1>7. TypeOK'
    BY <1>4, <1>5, <1>6, LabelSetListed DEF Acquire, IInv, LabelsMatchLadder, TypeOK, inputs, where
  <1>8. LabelsMatchLadder'
    <2>1. CASE pc' = "no_intfc" /\ k = 3
      BY <2>1, <1>2, <1>7, LadderLabels DEF LabelsMatchLadder
    <2>2. CASE pc' = "setup" /\ k = 4
      BY <2>2, <1>2, <1>7, LadderLabels DEF LabelsMatchLadder
    <2>3. CASE pc' = "acquire" /\ k \in 0 .. 3
      BY <2>3, <1>2, <1>7, LadderLabels DEF LabelsMatchLadder
    <2>4. QED
      BY <1>5, <2>1, <2>2, <2>3
  <1>9. BaseTaken'
    <2>1. CASE k = 3
      BY <2>1, <1>1, <1>5, LadderLabels DEF Acquire, BaseTaken, where
    <2>2. CASE k = 4
      BY <2>2, <1>1, <1>5, LadderLabels, RungsListed DEF Acquire, BaseTaken, IInv, where
    <2>3. CASE k \in {0, 1, 2}
      BY <2>3, <1>2, <1>5, RungsListed DEF BaseTaken
    <2>4. QED
      BY <1>3, <2>1, <2>2, <2>3
  <1>10. QED
    BY <1>8, <1>9 DEF IInv

\* A failure goes to the label of the resource acquired last.
LEMMA AcquireFailsPreserves ==
  ASSUME IInv, AcquireFails
  PROVE  IInv'
  <1>1. PICK k \in 0 .. 4 : held = Rungs(k) /\ Cardinality(held) = k
    BY Climbing DEF AcquireFails
  <1>2. k \in {0, 1, 2, 3, 4}
    OBVIOUS
  <1>3. held = {} <=> k = 0
    BY <1>1, <1>2, RungsListed
  <1>4. \/ k = 0 /\ pc' = "no_internals"
        \/ k \in 1 .. 4 /\ pc' = Labels[k]
    BY <1>1, <1>2, <1>3 DEF AcquireFails
  <1>5. faults' \in 0 .. MaxFaults
    BY DisksAssumption DEF AcquireFails, Fail, IInv, LabelsMatchLadder, TypeOK
  <1>6. pc' \in {"no_internals"} \cup LabelSet
    BY <1>2, <1>4, LadderLabels, LabelSetListed
  <1>7. TypeOK'
    BY <1>5, <1>6 DEF AcquireFails, IInv, LabelsMatchLadder, TypeOK, inputs, where
  <1>8. LabelsMatchLadder'
    <2>1. held' = Rungs(k)
      BY <1>1 DEF AcquireFails
    <2>2. CASE k = 0
      BY <2>1, <2>2, <1>4, <1>7, LadderLabels, RungsListed DEF LabelsMatchLadder
    <2>3. CASE k \in 1 .. 4
      <3>1. k = 1 \/ k = 2 \/ k = 3 \/ k = 4
        BY <2>3
      <3>2. QED
        BY <3>1, <2>1, <1>4, <1>7, LadderLabels DEF LabelsMatchLadder
    <2>4. QED
      BY <1>2, <2>2, <2>3
  <1>9. BaseTaken'
    BY <1>6, LabelSetListed DEF BaseTaken
  <1>10. QED
    BY <1>8, <1>9 DEF IInv

\* libdwarf accepts the file, or the way leads to the link with all in hand.
LEMMA SetupPreserves ==
  ASSUME IInv, Setup \/ SetupNoEntry \/ SetupError
  PROVE  IInv'
  <1>1. pc = "setup" /\ held = Rungs(5) /\ imageBase = path
    BY DEF IInv, LabelsMatchLadder, BaseTaken, Setup, SetupNoEntry, SetupError
  <1>2. /\ UNCHANGED <<inputs, where, linkPath, imageBase>>
        /\ faults' \in 0 .. MaxFaults
        /\ \/ pc' = "open" /\ held' = held \cup {"dbg"}
           \/ pc' \in {"link", "crashed"} /\ held' = held
    BY DisksAssumption
       DEF Setup, SetupNoEntry, SetupError, Fail, IInv, LabelsMatchLadder, TypeOK
  <1>3. TypeOK'
    BY <1>1, <1>2 DEF IInv, LabelsMatchLadder, TypeOK, inputs, where
  <1>4. LabelsMatchLadder'
    BY <1>1, <1>2, <1>3, LadderLabels DEF LabelsMatchLadder
  <1>5. BaseTaken'
    BY <1>1, <1>2 DEF BaseTaken, where
  <1>6. QED
    BY <1>4, <1>5 DEF IInv

\* Looking for the linked file leaves what is held for the label no_dbg.
LEMMA FindLinkPreserves ==
  ASSUME IInv, FindLink
  PROVE  IInv'
  <1>1. Linked \in Paths \cup {"none"}
    BY DEF Linked, Paths
  <1>2. linkPath' \in Paths \cup {"none"} /\ faults' \in 0 .. MaxFaults
    BY <1>1, DisksAssumption DEF FindLink, Fail, IInv, LabelsMatchLadder, TypeOK
  <1>3. pc = "link" /\ pc' = "no_dbg" /\ held = Rungs(5)
    BY DEF FindLink, IInv, LabelsMatchLadder
  <1>4. TypeOK'
    BY <1>2, <1>3, LabelSetListed
       DEF FindLink, IInv, LabelsMatchLadder, TypeOK, inputs, where
  <1>5. LabelsMatchLadder'
    BY <1>3, <1>4, LadderLabels DEF FindLink, LabelsMatchLadder
  <1>6. BaseTaken'
    BY <1>3 DEF BaseTaken
  <1>7. QED
    BY <1>5, <1>6 DEF IInv

\* Each label gives one resource back and leaves those of the label below.
LEMMA UnwindPreserves ==
  ASSUME IInv, Unwind
  PROVE  IInv'
  <1>1. PICK k \in 1 .. 5 :
          /\ pc = Labels[k]
          /\ held' = held \ {Ladder[k]}
          /\ pc' = IF k = 1 THEN "no_internals" ELSE Labels[k - 1]
    BY LadderLabels DEF Unwind
  <1>2. held = Rungs(k)
    BY <1>1, LadderLabels DEF IInv, LabelsMatchLadder
  <1>3. held' = Rungs(k - 1)
    BY <1>1, <1>2, RungsStep
  <1>4. k \in {1, 2, 3, 4, 5}
    OBVIOUS
  <1>5. pc' \in {"no_internals"} \cup LabelSet
    BY <1>1, <1>4, LadderLabels, LabelSetListed
  <1>6. TypeOK'
    BY <1>1, <1>5 DEF Unwind, IInv, LabelsMatchLadder, TypeOK, inputs, where
  <1>7. LabelsMatchLadder'
    BY <1>1, <1>3, <1>4, <1>6, LadderLabels, RungsListed DEF LabelsMatchLadder
  <1>8. BaseTaken'
    BY <1>5, LabelSetListed DEF BaseTaken
  <1>9. QED
    BY <1>7, <1>8 DEF IInv

\* The second attempt starts with nothing in hand.
LEMMA RedirectPreserves ==
  ASSUME IInv, Redirect
  PROVE  IInv'
  <1>1. held = {} /\ held' = {} /\ Rungs(0) = {}
    BY RungsListed DEF Redirect, IInv, LabelsMatchLadder
  <1>2. /\ pc' \in {"acquire", "failed"}
        /\ path' \in Paths /\ attempt' \in {1, 2}
    BY DEF Redirect, IInv, LabelsMatchLadder, TypeOK, where
  <1>3. TypeOK'
    BY <1>1, <1>2 DEF Redirect, IInv, LabelsMatchLadder, TypeOK, inputs
  <1>4. LabelsMatchLadder'
    BY <1>1, <1>2, <1>3, LadderLabels DEF LabelsMatchLadder
  <1>5. BaseTaken'
    BY <1>1, <1>2 DEF BaseTaken
  <1>6. QED
    BY <1>4, <1>5 DEF IInv

\* dwarf_pe_finish() gives back one after the other, libdwarf's last.
LEMMA FinishPreserves ==
  ASSUME IInv, BeginFinish \/ Finish
  PROVE  IInv'
  <1>1. CASE BeginFinish
    <2>1. TypeOK'
      BY <1>1 DEF BeginFinish, IInv, LabelsMatchLadder, TypeOK, inputs, where
    <2>2. QED
      BY <1>1, <2>1, LadderLabels DEF BeginFinish, IInv, LabelsMatchLadder, BaseTaken
  <1>2. CASE Finish
    <2>1. PICK k \in 1 .. 6 :
            /\ \A l \in 1 .. k - 1 : Finishing[l] \notin held
            /\ held' = held \ {Finishing[k]}
            /\ pc' = IF k = 6 THEN "finished" ELSE "finish"
      BY <1>2, LadderLabels DEF Finish
    <2>2. held \subseteq {"pe_obj", "file", "mapping", "view", "intfc", "dbg"}
      BY RungsListed DEF IInv, LabelsMatchLadder, TypeOK
    <2>3. ASSUME k = 6
          PROVE  held' = {}
      <3>1. /\ Finishing[1] \notin held /\ Finishing[2] \notin held /\ Finishing[3] \notin held
            /\ Finishing[4] \notin held /\ Finishing[5] \notin held
        BY <2>1, <2>3
      <3>2. QED
        BY <3>1, <2>1, <2>2, <2>3, LadderLabels
    <2>4. TypeOK'
      BY <1>2, <2>1 DEF Finish, IInv, LabelsMatchLadder, TypeOK, inputs, where
    <2>5. QED
      BY <2>1, <2>3, <2>4, LadderLabels DEF IInv, LabelsMatchLadder, BaseTaken
  <1>3. QED
    BY <1>1, <1>2

\* Every step keeps the invariant.
LEMMA StepPreserves ==
  ASSUME IInv, [Next]_vars
  PROVE  IInv'
  <1>1. CASE UNCHANGED vars \/ Done
    BY <1>1 DEF Done, vars, IInv, LabelsMatchLadder, TypeOK, BaseTaken
  <1>2. QED
    BY <1>1, AcquirePreserves, AcquireFailsPreserves, SetupPreserves, FindLinkPreserves,
       UnwindPreserves, RedirectPreserves, FinishPreserves DEF Next

-----------------------------------------------------------------------------

\* A section that cannot be unpacked counts as a fault and changes nothing else.
LEMMA FaultPreserves ==
  ASSUME IInv, Fail, UNCHANGED <<inputs, pc, where, linkPath, held, imageBase>>
  PROVE  IInv'
  <1>1. faults' \in 0 .. MaxFaults
    BY DisksAssumption DEF Fail, IInv, LabelsMatchLadder, TypeOK
  <1>2. QED
    BY <1>1 DEF inputs, where, IInv, LabelsMatchLadder, TypeOK, BaseTaken

\* What happens to the sections and units of an open file leaves all of this
\* alone, and so the invariant holds of the file that they belong to.
LEMMA ObjectStepPreserves ==
  ASSUME IInv, [ObjectNext]_objectVars
  PROVE  IInv'
  <1>1. CASE Access
    BY <1>1, StepPreserves DEF Access, Next
  <1>2. CASE SetupSections \/ Close
    BY <1>2, StepPreserves DEF SetupSections, Close, Next
  <1>3. CASE LoadSection
    <2>1. /\ UNCHANGED <<inputs, pc, where, linkPath, held, imageBase>>
          /\ Fail \/ UNCHANGED faults
      BY <1>3 DEF LoadSection
    <2>2. CASE UNCHANGED faults
      BY <2>1, <2>2, StepPreserves DEF inputs, where, vars
    <2>3. QED
      BY <2>1, <2>2, FaultPreserves
  <1>4. CASE ReadUnits \/ Ended \/ UNCHANGED objectVars
    BY <1>4, StepPreserves DEF ReadUnits, Ended, objectVars
  <1>5. QED
    BY <1>1, <1>2, <1>3, <1>4 DEF ObjectNext

\* From the path of an image to the end of its use.
LEMMA IInvHolds == ObjectSpec => []IInv
  <1>1. ObjectInit => IInv
    BY InitEstablishes DEF ObjectInit
  <1>2. QED
    BY <1>1, ObjectStepPreserves, PTL DEF ObjectSpec

\* dwarf_pe_init() gives back what it acquired, each resource once, whichever
\* call fails, and dwarf_pe_finish() leaves nothing.
THEOREM LadderCorrect == ObjectSpec => []LabelsMatchLadder
  <1>1. IInv => LabelsMatchLadder
    BY DEF IInv
  <1>2. QED
    BY <1>1, IInvHolds, PTL

\* The image base that dwarf_pe_init() stores belongs to the file it opened,
\* whichever of the two it is.
THEOREM BaseCorrect == ObjectSpec => []BaseOfOpenedFile
  <1>1. IInv => BaseOfOpenedFile
    BY DEF IInv, BaseTaken, BaseOfOpenedFile
  <1>2. QED
    BY <1>1, IInvHolds, PTL

-----------------------------------------------------------------------------
(* Which file is opened.                                                   *)

\* Where an attempt has failed.
Unwinding == pc \in LabelSet \cup {"no_internals", "failed"}

\* Whether the image leads to another file.
LinkUsed == disk["image"].kind \in {"stripped", "damaged"} /\ disk["image"].link

\* As long as no call fails, the code's place tells what the file it tries is, the
\* first one is the image, and the second is the one that the image leads to.
Tried ==
  faults = 0 =>
    /\ pc = "acquire" =>
         /\ "file" \in held => file.kind # "absent"
         /\ "view" \in held => file.kind # "not_pe"
    /\ pc = "setup" => file.kind \notin {"absent", "not_pe"}
    /\ pc = "link" => file.kind \in {"stripped", "damaged"}
    /\ pc = "open" => file.kind = "dwarf"
    /\ Unwinding => file.kind # "dwarf"
    /\ attempt = 1 =>
         /\ path = "image"
         /\ pc \in {"acquire", "setup", "link"} => linkPath = "none"
         /\ Unwinding => linkPath = IF LinkUsed THEN Linked ELSE "none"
         /\ pc = "failed" => linkPath = "none"
    /\ attempt = 2 => LinkUsed /\ path = Linked /\ Linked # "none"

\* The places of an attempt that has failed, one by one.
LEMMA UnwindingListed ==
  Unwinding <=> pc \in {"no_file", "no_file_mapping", "no_view_of_file", "no_intfc", "no_dbg",
                        "no_internals", "failed"}
  BY LabelSetListed DEF Unwinding

\* The image is tried first.
LEMMA InitTried == Init => Tried
  BY UnwindingListed DEF Init, Tried

\* A file that is there is mapped; what is no image is given up.
LEMMA AcquireTried ==
  ASSUME IInv, Tried, Acquire \/ AcquireFails
  PROVE  Tried'
  <1> SUFFICES ASSUME faults' = 0
               PROVE  Tried'
    BY DEF Tried
  <1>1. /\ faults = 0 /\ pc = "acquire" /\ UNCHANGED <<disk, path, attempt, linkPath>>
        /\ AcquireFails => ~ Available(Rung)
    BY DisksAssumption DEF Acquire, AcquireFails, Fail, inputs, where, IInv, LabelsMatchLadder, TypeOK
  <1>2. PICK k \in 0 .. 4 : held = Rungs(k) /\ Cardinality(held) = k /\ Rung = Ladder[k + 1]
    BY <1>1, Climbing
  <1>3. k \in {0, 1, 2, 3, 4} /\ file' = file /\ Linked' = Linked /\ LinkUsed' = LinkUsed
    BY <1>1 DEF file, Linked, LinkUsed
  <1>4. /\ "file" \in held => file.kind # "absent"
        /\ "view" \in held => file.kind # "not_pe"
        /\ file \in File /\ attempt \in {1, 2}
    BY <1>1 DEF Tried, IInv, LabelsMatchLadder, TypeOK, file
  <1>5. /\ attempt = 1 => path = "image" /\ linkPath = "none"
        /\ attempt = 2 => LinkUsed /\ path = Linked /\ Linked # "none"
    BY <1>1 DEF Tried
  <1>6. CASE Acquire
    <2>1. held' = held \cup {Rung} /\ Available(Rung)
      BY <1>6 DEF Acquire
    <2>2. \/ pc' = "no_intfc" /\ Rung = "view" /\ file.kind = "not_pe"
          \/ pc' = "setup" /\ k = 4
          \/ pc' = "acquire" /\ ~ (Rung = "view" /\ file.kind = "not_pe")
      BY <1>6, <1>2, <1>3, LadderLabels DEF Acquire
    <2>3. CASE pc' = "no_intfc" /\ Rung = "view" /\ file.kind = "not_pe"
      BY <1>1, <1>3, <1>5, <2>3, UnwindingListed DEF Tried, LinkUsed, Unwinding, file
    <2>4. CASE pc' = "setup" /\ k = 4
      <3>1. "file" \in held /\ "view" \in held
        BY <1>2, <2>4, RungsListed
      <3>2. ~ Unwinding'
        BY <2>4, LabelSetListed DEF Unwinding
      <3>3. QED
        BY <1>1, <1>3, <1>4, <1>5, <2>4, <3>1, <3>2 DEF Tried
    <2>5. CASE pc' = "acquire" /\ ~ (Rung = "view" /\ file.kind = "not_pe")
      <3>1. "file" \in held' => file.kind # "absent"
        BY <1>4, <2>1 DEF Available
      <3>2. "view" \in held' => file.kind # "not_pe"
        BY <1>4, <2>1, <2>5
      <3>3. ~ Unwinding'
        BY <2>5, LabelSetListed DEF Unwinding
      <3>4. QED
        BY <1>1, <1>3, <1>5, <2>5, <3>1, <3>2, <3>3 DEF Tried
    <2>6. QED
      BY <2>2, <2>3, <2>4, <2>5
  <1>7. CASE AcquireFails
    <2>1. file.kind = "absent"
      BY <1>1, <1>7 DEF Available
    <2>2. pc' \in {"no_file", "no_file_mapping", "no_view_of_file", "no_intfc", "no_internals"}
      <3>1. held = {} <=> k = 0
        BY <1>2, <1>3, RungsListed
      <3>2. \/ k = 0 /\ pc' = "no_internals"
            \/ k \in 1 .. 4 /\ pc' = Labels[k]
        BY <1>2, <1>7, <3>1 DEF AcquireFails
      <3>3. QED
        BY <1>3, <3>2, LadderLabels
    <2>3. pc' \notin {"acquire", "setup", "link", "open", "failed"}
      BY <2>2
    <2>4. attempt = 1 => ~ LinkUsed
      BY <1>5, <2>1 DEF LinkUsed, file
    <2>5. QED
      BY <1>1, <1>3, <1>5, <2>1, <2>3, <2>4 DEF Tried
  <1>8. QED
    BY <1>6, <1>7

\* libdwarf tells what is in the file.
LEMMA SetupTried ==
  ASSUME IInv, Tried, Setup \/ SetupNoEntry \/ SetupError
  PROVE  Tried'
  <1> SUFFICES ASSUME faults' = 0
               PROVE  Tried'
    BY DEF Tried
  <1>1. /\ faults = 0 /\ pc = "setup" /\ UNCHANGED <<disk, path, attempt, linkPath>>
        /\ \/ pc' = "open" /\ file.kind = "dwarf"
           \/ pc' \in {"link", "crashed"} /\ file.kind \in {"stripped", "damaged"}
    BY DisksAssumption
       DEF Setup, SetupNoEntry, SetupError, Fail, inputs, where, IInv, LabelsMatchLadder, TypeOK
  <1>2. file' = file /\ Linked' = Linked /\ LinkUsed' = LinkUsed
    BY <1>1 DEF file, Linked, LinkUsed
  <1>3. ~ Unwinding' /\ pc' \notin {"acquire", "setup", "failed"}
    BY <1>1, LabelSetListed DEF Unwinding
  <1>4. QED
    BY <1>1, <1>2, <1>3 DEF Tried

\* The way back: the link is looked for, and what was acquired is given back.
LEMMA BackTried ==
  ASSUME IInv, Tried, FindLink \/ Unwind
  PROVE  Tried'
  <1> SUFFICES ASSUME faults' = 0
               PROVE  Tried'
    BY DEF Tried
  <1>1. /\ faults = 0 /\ UNCHANGED <<disk, path, attempt>>
        /\ FindLink => pc = "link" /\ pc' = "no_dbg"
        /\ FindLink => linkPath' = IF attempt = 1 /\ file.link THEN Linked ELSE linkPath
        /\ Unwind => linkPath' = linkPath
    BY DisksAssumption DEF FindLink, Unwind, Fail, inputs, where, IInv, LabelsMatchLadder, TypeOK
  <1>2. file' = file /\ Linked' = Linked /\ LinkUsed' = LinkUsed
    BY <1>1 DEF file, Linked, LinkUsed
  <1>3. ASSUME Unwind
        PROVE  /\ Unwinding
               /\ pc' \in {"no_file", "no_file_mapping", "no_view_of_file", "no_intfc", "no_internals"}
    <2>1. PICK k \in 1 .. 5 :
            pc = Labels[k] /\ pc' = IF k = 1 THEN "no_internals" ELSE Labels[k - 1]
      BY <1>3, LadderLabels DEF Unwind
    <2>2. k \in {1, 2, 3, 4, 5}
      OBVIOUS
    <2>3. QED
      BY <2>1, <2>2, LadderLabels, UnwindingListed
  <1>4. /\ pc' \notin {"acquire", "setup", "link", "open", "failed"}
        /\ file.kind # "dwarf"
        /\ FindLink => file.kind \in {"stripped", "damaged"}
    BY <1>1, <1>3 DEF Tried
  <1>5. attempt = 1 => path = "image" /\ linkPath' = IF LinkUsed THEN Linked ELSE "none"
    <2> SUFFICES ASSUME attempt = 1
                 PROVE  path = "image" /\ linkPath' = IF LinkUsed THEN Linked ELSE "none"
      OBVIOUS
    <2>1. path = "image"
      BY <1>1 DEF Tried
    <2>2. CASE FindLink
      <3>1. linkPath = "none"
        BY <1>1, <2>2 DEF Tried
      <3>2. file.link <=> LinkUsed
        BY <1>4, <2>1, <2>2 DEF LinkUsed, file
      <3>3. QED
        BY <1>1, <2>1, <2>2, <3>1, <3>2
    <2>3. CASE Unwind
      BY <1>1, <1>3, <2>1, <2>3 DEF Tried
    <2>4. QED
      BY <2>2, <2>3
  <1>6. attempt = 2 => LinkUsed /\ path = Linked /\ Linked # "none"
    BY <1>1 DEF Tried
  <1>7. QED
    BY <1>1, <1>2, <1>4, <1>5, <1>6 DEF Tried

\* The second attempt is made with the file that the image leads to, and no third.
LEMMA RedirectTried ==
  ASSUME IInv, Tried, Redirect
  PROVE  Tried'
  <1> SUFFICES ASSUME faults' = 0
               PROVE  Tried'
    BY DEF Tried
  <1>1. /\ faults = 0 /\ UNCHANGED <<disk, linkPath>> /\ pc = "no_internals" /\ held' = {}
        /\ Linked' = Linked /\ LinkUsed' = LinkUsed
    BY DEF Redirect, inputs, Linked, LinkUsed, IInv, LabelsMatchLadder
  <1>2. /\ file.kind # "dwarf"
        /\ attempt = 1 => path = "image" /\ linkPath = IF LinkUsed THEN Linked ELSE "none"
        /\ attempt = 2 => LinkUsed /\ path = Linked /\ Linked # "none"
    BY <1>1, UnwindingListed DEF Tried
  <1>3. CASE attempt = 1 /\ linkPath # "none"
    <2>1. pc' = "acquire" /\ attempt' = 2 /\ path' = linkPath
      BY <1>3 DEF Redirect
    <2>2. ~ Unwinding'
      BY <2>1, LabelSetListed DEF Unwinding
    <2>3. LinkUsed /\ linkPath = Linked
      BY <1>2, <1>3
    <2>4. QED
      BY <1>1, <1>3, <2>1, <2>2, <2>3 DEF Tried
  <1>4. CASE ~ (attempt = 1 /\ linkPath # "none")
    <2>1. pc' = "failed" /\ path' = path /\ attempt' = attempt
      BY <1>4 DEF Redirect, where
    <2>2. file' = file
      BY <1>1, <2>1 DEF file
    <2>3. QED
      BY <1>1, <1>2, <1>4, <2>1, <2>2 DEF Tried
  <1>5. QED
    BY <1>3, <1>4

\* Where the file is open or done with nothing is tried.
LEMMA UseTried ==
  ASSUME Tried, UNCHANGED <<disk, path, attempt, linkPath>>, faults' = 0 => faults = 0,
         pc' \in {"finish", "finished"} \/ UNCHANGED <<pc, held>>
  PROVE  Tried'
  <1>1. file' = file /\ Linked' = Linked /\ LinkUsed' = LinkUsed
    BY DEF file, Linked, LinkUsed
  <1>2. CASE pc' \in {"finish", "finished"}
    <2>1. ~ Unwinding'
      BY <1>2, LabelSetListed DEF Unwinding
    <2>2. QED
      BY <1>1, <1>2, <2>1 DEF Tried
  <1>3. CASE UNCHANGED <<pc, held>>
    BY <1>1, <1>3 DEF Tried, Unwinding
  <1>4. QED
    BY <1>2, <1>3

\* Every step of an image in use.
LEMMA ObjectStepTried ==
  ASSUME IInv, Tried, [ObjectNext]_objectVars
  PROVE  Tried'
  <1>1. CASE Acquire \/ AcquireFails \/ Setup \/ SetupNoEntry \/ SetupError
    BY <1>1, AcquireTried, SetupTried
  <1>2. CASE FindLink \/ Unwind \/ Redirect
    BY <1>2, BackTried, RedirectTried
  <1>3. CASE Finish \/ BeginFinish
    <2>1. pc' \in {"finish", "finished"} /\ UNCHANGED <<disk, path, attempt, linkPath, faults>>
      BY <1>3 DEF Finish, BeginFinish, inputs, where
    <2>2. QED
      BY <2>1, UseTried
  <1>4. CASE LoadSection
    <2>1. UNCHANGED <<disk, path, attempt, linkPath, pc, held>> /\ (Fail \/ UNCHANGED faults)
      BY <1>4 DEF LoadSection, inputs, where
    <2>2. faults' = 0 => faults = 0
      BY <2>1, DisksAssumption DEF Fail, IInv, LabelsMatchLadder, TypeOK
    <2>3. QED
      BY <2>1, <2>2, UseTried
  <1>5. CASE ReadUnits \/ Ended \/ UNCHANGED objectVars
    <2>1. UNCHANGED <<disk, path, attempt, linkPath, pc, held, faults>>
      BY <1>5 DEF ReadUnits, Ended, objectVars, vars
    <2>2. QED
      BY <2>1, UseTried
  <1>6. QED
    BY <1>1, <1>2, <1>3, <1>4, <1>5 DEF ObjectNext, Access, SetupSections, Close

\* If no call fails, dwarf_pe_init() opens the image if it has debug information,
\* else the file that it leads to, and fails only if neither has.
THEOREM ExpectedOpened == ObjectSpec => []OpensExpected
  <1>1. ObjectInit => IInv /\ Tried
    BY InitEstablishes, InitTried DEF ObjectInit
  <1>2. IInv /\ Tried /\ [ObjectNext]_objectVars => (IInv /\ Tried)'
    BY ObjectStepPreserves, ObjectStepTried
  <1>3. IInv /\ Tried => OpensExpected
    <2> SUFFICES ASSUME IInv, Tried, faults = 0
                 PROVE  /\ pc = "open" => path = Expected
                        /\ pc = "failed" => Expected = "none"
      BY DEF OpensExpected
    <2>1. attempt \in {1, 2} /\ disk["image"] \in File
      BY DEF IInv, LabelsMatchLadder, TypeOK, Paths
    <2>2. CASE pc = "open"
      <3>1. file.kind = "dwarf" /\ (attempt = 1 => path = "image")
            /\ (attempt = 2 => LinkUsed /\ path = Linked /\ Linked # "none")
        BY <2>2 DEF Tried
      <3>2. QED
        BY <2>1, <2>2, <3>1 DEF Expected, LinkUsed, file
    <2>3. CASE pc = "failed"
      <3>1. /\ file.kind # "dwarf"
            /\ attempt = 1 => path = "image" /\ linkPath = "none"
            /\ attempt = 1 => linkPath = IF LinkUsed THEN Linked ELSE "none"
            /\ attempt = 2 => LinkUsed /\ path = Linked /\ Linked # "none"
        BY <2>3, UnwindingListed DEF Tried
      <3>2. QED
        BY <2>1, <2>3, <3>1 DEF Expected, LinkUsed, file
    <2>4. QED
      BY <2>2, <2>3
  <1>4. QED
    BY <1>1, <1>2, <1>3, PTL DEF ObjectSpec

-----------------------------------------------------------------------------
(* The units of an open file.                                              *)

\* The units one after the other, with the end of the last.
Turn == 1 .. Len(section.units) + 1
Start(k) == StartOf(section.units, k)

\* What the assumption says of the section that is read.
LEMMA UnitsGiven ==
  ASSUME section \in Sections
  PROVE  /\ Len(section.units) \in Nat /\ DOMAIN section.units = 1 .. Len(section.units)
         /\ HeaderSize \in Nat /\ HeaderSize > 0
         /\ \A k \in DOMAIN section.units :
              /\ section.units[k].at \in Nat /\ section.units[k].at = Start(k)
              /\ SizeOf(section.units[k]) \in Nat /\ SizeOf(section.units[k]) > 0
  <1>1. section.units \in Seq(Range(section.units)) /\ HeaderSize \in Nat \ {0}
    BY SectionsAssumption
  <1>2. ASSUME NEW k \in DOMAIN section.units
        PROVE  /\ section.units[k].at \in Nat /\ section.units[k].at = Start(k)
               /\ SizeOf(section.units[k]) \in Nat /\ SizeOf(section.units[k]) > 0
    <2>1. IsUnit(section.units[k]) /\ section.units[k].at = Start(k)
      BY SectionsAssumption DEF Start
    <2>2. section.units[k].at \in Nat /\ Len(section.units[k].dies) \in Nat
      BY <2>1 DEF IsUnit
    <2>3. QED
      BY <1>1, <2>1, <2>2 DEF SizeOf
  <1>3. QED
    BY <1>1, <1>2

\* No unit starts before the one in front of it ends.
LEMMA StartsRise ==
  ASSUME section \in Sections, NEW k \in Turn
  PROVE  /\ Start(k) \in Nat
         /\ \A j \in 1 .. k - 1 : section.units[j].at + SizeOf(section.units[j]) <= Start(k)
  <1> DEFINE us == section.units
             L == Len(us)
             Rises(m) == /\ Start(m) \in Nat
                         /\ \A j \in 1 .. m - 1 : us[j].at + SizeOf(us[j]) <= Start(m)
             Wrong == {m \in Nat : m \in Turn /\ ~Rises(m)}
  <1>1. SUFFICES ASSUME Wrong # {} PROVE FALSE
    <2>1. k \in Nat
      BY UnitsGiven DEF Turn
    <2>2. Wrong = {} => Rises(k)
      <3> HIDE DEF Rises
      <3>1. QED
        BY <2>1
    <2>3. QED
      BY <2>2
  <1>2. PICK m \in Wrong : \A l \in Wrong : ~ (<<l, m>> \in OpToRel(<, Nat))
    <2>1. Wrong \subseteq Nat
      OBVIOUS
    <2> HIDE DEF Wrong
    <2>2. QED
      BY <1>1, <2>1, NatLessThanWellFounded, WFMin
  <1>3. m \in Nat /\ m \in Turn /\ ~Rises(m) /\ \A l \in Wrong : ~ (l < m)
    BY <1>2 DEF OpToRel
  <1>4. L \in Nat /\ m \in 1 .. L + 1 /\ DOMAIN us = 1 .. L
    BY <1>3, UnitsGiven DEF Turn
  <1>5. m # 1
    <2> SUFFICES ASSUME m = 1 PROVE FALSE
      OBVIOUS
    <2>1. Start(m) = 0 /\ 1 .. m - 1 = {}
      BY DEF Start, StartOf
    <2>2. QED
      BY <1>3, <2>1
  <1>6. m - 1 \in 1 .. L /\ m - 1 \in Turn /\ m - 1 \in Nat /\ m - 1 < m
    BY <1>4, <1>5 DEF Turn
  <1>7. Rises(m - 1)
    BY <1>3, <1>6
  <1>8. Start(m) = us[m - 1].at + SizeOf(us[m - 1])
    BY <1>5 DEF Start, StartOf
  <1>9. /\ us[m - 1].at \in Nat /\ us[m - 1].at = Start(m - 1)
        /\ SizeOf(us[m - 1]) \in Nat
    BY <1>4, <1>6, UnitsGiven
  <1>10. ASSUME NEW j \in 1 .. m - 1
         PROVE  us[j].at + SizeOf(us[j]) <= Start(m)
    <2>1. us[j].at \in Nat /\ SizeOf(us[j]) \in Nat
      BY <1>4, UnitsGiven, SMTT(30)
    <2>2. CASE j = m - 1
      BY <1>8, <1>9, <2>1, <2>2
    <2>3. CASE j # m - 1
      <3>1. j \in 1 .. m - 1 - 1
        BY <1>4, <2>3
      <3>2. us[j].at + SizeOf(us[j]) <= Start(m - 1)
        BY <1>7, <3>1
      <3> HIDE DEF us
      <3>3. QED
        BY <1>8, <1>9, <2>1, <3>2
    <2>4. QED
      BY <2>2, <2>3
  <1>11. Start(m) \in Nat
    BY <1>8, <1>9
  <1>12. QED
    BY <1>3, <1>10, <1>11

\* Units that come later start later, and the last one ends last.
LEMMA StartsOrdered ==
  ASSUME section \in Sections, NEW j \in Turn, NEW k \in Turn, j < k
  PROVE  Start(j) < Start(k)
  <1> DEFINE u == section.units[j]
  <1>1. Len(section.units) \in Nat /\ j \in DOMAIN section.units /\ j \in 1 .. k - 1
    BY UnitsGiven DEF Turn
  <1>2. u.at \in Nat /\ u.at = Start(j) /\ SizeOf(u) \in Nat /\ SizeOf(u) > 0
    BY <1>1, UnitsGiven
  <1>3. u.at + SizeOf(u) <= Start(k) /\ Start(k) \in Nat
    BY <1>1, StartsRise
  <1> HIDE DEF u
  <1>4. QED
    BY <1>2, <1>3

\* A unit is found by where it starts, and ends where the next one starts.
LEMMA UnitThere ==
  ASSUME section \in Sections, NEW k \in DOMAIN section.units
  PROVE  /\ IsStart(Start(k)) /\ UnitAt(Start(k)) = section.units[k]
         /\ EndOf(Start(k)) = Start(k + 1)
         /\ k \in Turn /\ k + 1 \in Turn /\ Start(k) < Start(k + 1)
  <1> DEFINE us == section.units
             f == CHOOSE j \in DOMAIN us : us[j].at = Start(k)
  <1>1. /\ Len(us) \in Nat /\ DOMAIN us = 1 .. Len(us)
        /\ k \in Turn /\ k + 1 \in Turn /\ us[k].at = Start(k)
    BY UnitsGiven DEF Turn
  <1>2. f \in DOMAIN us /\ us[f].at = Start(k)
    BY <1>1
  <1>3. f = k
    <2> HIDE DEF f
    <2>1. f \in Turn /\ Start(f) = Start(k)
      <3>1. us[f].at = Start(f)
        BY <1>2, UnitsGiven
      <3>2. QED
        BY <1>1, <1>2, <3>1 DEF Turn
    <2>2. Start(k) \in Nat
      BY <1>1, StartsRise
    <2>3. ~ (f < k) /\ ~ (k < f)
      BY <1>1, <2>1, <2>2, StartsOrdered
    <2>4. f \in Nat /\ k \in Nat
      BY <1>1, <1>2
    <2>5. QED
      BY <2>3, <2>4
  <1>4. IsStart(Start(k)) /\ UnitAt(Start(k)) = us[k]
    BY <1>1, <1>3 DEF IsStart, UnitAt
  <1>5. Start(k + 1) = us[k].at + SizeOf(us[k])
    <2> DEFINE m == k + 1
    <2>1. m # 1 /\ m - 1 = k
      BY <1>1
    <2> HIDE DEF m
    <2>2. Start(m) = us[k].at + SizeOf(us[k])
      BY <2>1 DEF Start, StartOf
    <2>3. QED
      BY <2>2 DEF m
  <1>6. EndOf(Start(k)) = Start(k + 1)
    BY <1>1, <1>4, <1>5 DEF EndOf
  <1>7. QED
    BY <1>1, <1>4, <1>6, StartsOrdered

\* Behind the last unit there is none.
LEMMA NoneBehind ==
  ASSUME section \in Sections, NEW k \in Turn, IsStart(Start(k))
  PROVE  k \in DOMAIN section.units
  <1>1. PICK j \in DOMAIN section.units : section.units[j].at = Start(k)
    BY DEF IsStart
  <1>2. j \in Turn /\ Start(j) = Start(k) /\ Start(k) \in Nat
    BY <1>1, UnitsGiven, StartsRise DEF Turn
  <1>3. Len(section.units) \in Nat /\ DOMAIN section.units = 1 .. Len(section.units)
    BY UnitsGiven
  <1>4. ~ (j < k)
    BY <1>2, StartsOrdered
  <1>5. QED
    BY <1>2, <1>3, <1>4 DEF Turn

-----------------------------------------------------------------------------

\* Some sequence.
IsList(l) == \E S : l \in Seq(S)

Making == {"make", "cu_die", "attrs", "bases"}

\* The list has the first units, each where it starts; the context that is being
\* made is that of the next one, and where dwarf_next_cu_header_d() makes it, it
\* has come to the end of the list.  From the time that its header is read on,
\* there is such a unit, and de_last_offset is not before its end.
Chained ==
  /\ section \in Sections
  /\ IsList(list) /\ Len(list) <= Len(section.units)
  /\ \A j \in DOMAIN list : "start" \in DOMAIN list[j] /\ list[j].start = Start(j)
  /\ lastOffset \in Nat /\ Start(Len(list) + 1) <= lastOffset
  /\ seen \in 0 .. Len(list)
  /\ current = IF seen = 0 THEN None ELSE Start(seen)
  /\ "op" \in DOMAIN call
  /\ upc \in Making \cup {"idle", "die", "ask", "crashed"}
  /\ upc \in {"idle", "die", "ask"} => fresh = NoContext
  /\ upc \in Making =>
       /\ "start" \in DOMAIN fresh /\ fresh.start = Start(Len(list) + 1)
       /\ call.op = "next" => seen = Len(list)
  /\ upc \in Making \ {"make"} =>
       Len(list) < Len(section.units) /\ Start(Len(list) + 2) <= lastOffset

\* The sequence of contexts, and what can be added to it.
LEMMA ListTyped ==
  ASSUME NEW l, IsList(l)
  PROVE  /\ Len(l) \in Nat /\ DOMAIN l = 1 .. Len(l)
         /\ \A c : /\ IsList(Append(l, c)) /\ Len(Append(l, c)) = Len(l) + 1
                   /\ \A j \in DOMAIN l : Append(l, c)[j] = l[j]
                   /\ Append(l, c)[Len(l) + 1] = c
         /\ \A c, j : /\ IsList([l EXCEPT ![j] = c]) /\ Len([l EXCEPT ![j] = c]) = Len(l)
                      /\ DOMAIN [l EXCEPT ![j] = c] = DOMAIN l
  <1>1. PICK S : l \in Seq(S)
    BY DEF IsList
  <1>2. Len(l) \in Nat /\ DOMAIN l = 1 .. Len(l)
    BY <1>1
  <1>3. ASSUME NEW c
        PROVE  /\ IsList(Append(l, c)) /\ Len(Append(l, c)) = Len(l) + 1
               /\ \A j \in DOMAIN l : Append(l, c)[j] = l[j]
               /\ Append(l, c)[Len(l) + 1] = c
    <2> DEFINE U == S \cup {c}
    <2>1. l \in Seq(U) /\ c \in U
      BY <1>1
    <2> HIDE DEF U
    <2>2. Append(l, c) \in Seq(U)
      BY <2>1
    <2>3. QED
      BY <2>1, <2>2 DEF IsList
  <1>4. ASSUME NEW c, NEW j
        PROVE  /\ IsList([l EXCEPT ![j] = c]) /\ Len([l EXCEPT ![j] = c]) = Len(l)
               /\ DOMAIN [l EXCEPT ![j] = c] = DOMAIN l
    <2> DEFINE U == S \cup {c}
               n == Len(l)
               e == [l EXCEPT ![j] = c]
    <2>1. n \in Nat /\ DOMAIN e = 1 .. n /\ \A k \in 1 .. n : e[k] \in U
      BY <1>1, <1>2
    <2>2. e \in [1 .. n -> U]
      <3>1. e = [k \in 1 .. n |-> e[k]]
        BY <1>2
      <3> HIDE DEF e, U, n
      <3>2. QED
        BY <2>1, <3>1
    <2> HIDE DEF e, U, n
    <2>3. e \in Seq(U) /\ Len(e) = n
      BY <2>1, <2>2
    <2>4. QED
      BY <1>2, <2>1, <2>3 DEF IsList, e, n
  <1>5. QED
    BY <1>2, <1>3, <1>4

\* A lookup leaves where the unit of a context starts.
LEMMA StartKept ==
  ASSUME NEW c, NEW code, NEW room, "start" \in DOMAIN c
  PROVE  /\ "start" \in DOMAIN LookedUp(c, code, room).context
         /\ LookedUp(c, code, room).context.start = c.start
  BY DEF LookedUp

\* What the positions of the list are worth.
LEMMA ListPlaces ==
  ASSUME Chained
  PROVE  /\ Len(list) \in Nat /\ Len(section.units) \in Nat
         /\ DOMAIN list = 1 .. Len(list) /\ DOMAIN section.units = 1 .. Len(section.units)
         /\ \A j \in DOMAIN list : j \in DOMAIN section.units /\ EndOf(list[j].start) = Start(j + 1)
         /\ Start(Len(list) + 1) \in Nat
         /\ seen \in Nat /\ seen <= Len(list)
         /\ After = Start(seen + 1)
  <1>1. /\ Len(list) \in Nat /\ Len(section.units) \in Nat
        /\ DOMAIN list = 1 .. Len(list) /\ DOMAIN section.units = 1 .. Len(section.units)
    BY ListTyped, UnitsGiven DEF Chained
  <1> DEFINE n == Len(list)
             m == Len(section.units)
  <1>0. /\ section \in Sections /\ n <= m /\ seen \in 0 .. n
        /\ \A j \in DOMAIN list : list[j].start = Start(j)
        /\ current = IF seen = 0 THEN None ELSE Start(seen)
    BY DEF Chained
  <1>2. ASSUME NEW j \in DOMAIN list
        PROVE  j \in DOMAIN section.units /\ EndOf(list[j].start) = Start(j + 1)
    <2> HIDE DEF n, m
    <2>1. j \in DOMAIN section.units /\ list[j].start = Start(j)
      BY <1>0, <1>1 DEF n, m
    <2>2. QED
      BY <1>0, <2>1, UnitThere
  <1>3. Start(n + 1) \in Nat
    <2>1. n + 1 \in 1 .. m + 1
      <3> HIDE DEF n, m
      <3>1. QED
        BY <1>0, <1>1 DEF n, m
    <2>2. QED
      BY <1>0, <2>1, StartsRise DEF Turn
  <1>4. seen \in Nat /\ seen <= n
    <2> HIDE DEF n, m
    <2>1. QED
      BY <1>0, <1>1 DEF n
  <1>5. After = Start(seen + 1)
    <2>1. CASE seen = 0
      BY <2>1 DEF After, Chained, Start, StartOf
    <2>2. CASE seen # 0
      <3>1. seen \in DOMAIN section.units /\ current = Start(seen)
        <4>1. seen \in 1 .. m
          <5> HIDE DEF n, m
          <5>1. QED
            BY <1>0, <1>1, <1>4, <2>2 DEF n, m
        <4>2. QED
          BY <1>0, <1>1, <2>2, <4>1
      <3>2. Start(seen) \in Nat /\ EndOf(Start(seen)) = Start(seen + 1)
        <4>1. seen \in Turn
          BY <3>1, UnitThere DEF Chained
        <4>2. QED
          BY <3>1, <4>1, UnitThere, StartsRise DEF Chained
      <3>3. current # None
        BY <3>1, <3>2 DEF None
      <3>4. QED
        BY <3>1, <3>2, <3>3 DEF After
    <2>3. QED
      BY <2>1, <2>2
  <1>6. QED
    BY <1>1, <1>2, <1>3, <1>4, <1>5

\* Only the unit behind those that dwarf_next_cu_header_d() has given can hold
\* the offset that it goes on from.
LEMMA FindNext ==
  ASSUME Chained
  PROVE  IF seen < Len(list) THEN Find(After) = seen + 1 ELSE Find(After) = 0
  <1>1. /\ Len(list) \in Nat /\ Len(section.units) \in Nat /\ section \in Sections
        /\ DOMAIN list = 1 .. Len(list) /\ DOMAIN section.units = 1 .. Len(section.units)
        /\ seen \in Nat /\ seen <= Len(list) /\ After = Start(seen + 1)
        /\ Len(list) <= Len(section.units)
    BY ListPlaces DEF Chained
  <1>2. seen + 1 \in Turn /\ After \in Nat
    BY <1>1, StartsRise DEF Turn
  <1>3. ASSUME NEW j \in Holding(After)
        PROVE  j = seen + 1 /\ seen < Len(list)
    <2>1. j \in DOMAIN list /\ Start(j) <= After /\ After < Start(j + 1)
      BY <1>1, ListPlaces DEF Holding, Chained
    <2>2. j \in Turn /\ j + 1 \in Turn
      BY <1>1, <2>1 DEF Turn
    <2>3. Start(j) \in Nat /\ Start(j + 1) \in Nat
      BY <1>1, <2>2, StartsRise
    <2>4. ~ (j + 1 < seen + 1) /\ j + 1 # seen + 1
      BY <1>1, <1>2, <2>1, <2>2, <2>3, StartsOrdered
    <2>5. ~ (seen + 1 < j)
      BY <1>1, <1>2, <2>1, <2>2, <2>3, StartsOrdered
    <2>6. QED
      BY <1>1, <2>1, <2>4, <2>5, SMTT(30)
  <1>4. CASE seen < Len(list)
    <2> DEFINE k == seen + 1
    <2>1. k \in DOMAIN list /\ k \in DOMAIN section.units /\ k + 1 \in Turn
      BY <1>1, <1>4, SMTT(30) DEF Turn
    <2>2. list[k].start = Start(k) /\ Start(k) = After /\ EndOf(list[k].start) = Start(k + 1)
      BY <1>1, <2>1, ListPlaces DEF Chained
    <2>3. Start(k + 1) \in Nat /\ After < Start(k + 1)
      <3>1. k < k + 1 /\ k \in Turn
        BY <1>1, <1>2
      <3>2. QED
        BY <1>1, <2>1, <2>2, <3>1, StartsOrdered, StartsRise
    <2>4. k \in Holding(After)
      BY <1>2, <2>1, <2>2, <2>3 DEF Holding
    <2>5. Holding(After) = {k}
      BY <1>3, <2>4
    <2>6. After < lastOffset
      <3>1. lastOffset \in Nat /\ Start(Len(list) + 1) <= lastOffset /\ Start(Len(list) + 1) \in Nat
        BY ListPlaces DEF Chained
      <3>2. Start(k + 1) <= Start(Len(list) + 1)
        <4>1. CASE k = Len(list)
          BY <2>3, <4>1
        <4>2. CASE k # Len(list)
          <5>1. k < Len(list)
            <6> DEFINE n == Len(list)
            <6>1. n \in Nat /\ seen \in Nat /\ seen < n /\ seen + 1 # n
              BY <1>1, <1>4, <4>2
            <6> HIDE DEF n
            <6>2. QED
              BY <6>1, SMTT(30) DEF n
          <5>2. k + 1 < Len(list) + 1 /\ Len(list) + 1 \in Turn
            <6> DEFINE n == Len(list)
                       m == Len(section.units)
            <6>1. n \in Nat /\ m \in Nat /\ k \in Nat /\ k < n /\ n <= m
              BY <1>1, <5>1
            <6> HIDE DEF n, m, k
            <6>2. k + 1 < n + 1 /\ n + 1 \in 1 .. m + 1
              BY <6>1
            <6>3. QED
              BY <6>2 DEF n, m, Turn
          <5>3. QED
            BY <1>1, <2>1, <2>3, <3>1, <5>2, StartsOrdered
        <4>3. QED
          BY <4>1, <4>2
      <3>3. QED
        BY <1>2, <2>3, <3>1, <3>2
    <2>7. \A S : S = {k} => Min(S) = k
      <3>1. k \in Nat
        BY <1>1
      <3> HIDE DEF k
      <3>2. QED
        BY <3>1 DEF Min
    <2>8. Find(After) = k
      <3> DEFINE ahead == {j \in Holding(After) : current # None /\ current <= list[j].start}
      <3>1. ahead = {} \/ ahead = {k}
        BY <2>5
      <3>2. Min(Holding(After)) = k /\ (ahead # {} => Min(ahead) = k)
        BY <2>5, <2>7, <3>1
      <3>3. ~ (After >= lastOffset) /\ Holding(After) # {}
        BY <1>2, <2>5, <2>6 DEF Chained
      <3>4. Find(After) = IF ahead # {} THEN Min(ahead) ELSE Min(Holding(After))
        BY <3>3 DEF Find
      <3> HIDE DEF ahead
      <3>5. QED
        BY <3>2, <3>4
    <2>9. QED
      BY <1>4, <2>8
  <1>5. CASE ~ (seen < Len(list))
    <2>1. Holding(After) = {}
      BY <1>3, <1>5
    <2>2. QED
      BY <1>5, <2>1 DEF Find
  <1>6. QED
    BY <1>4, <1>5

\* A step that neither reaches a unit nor completes one.
LEMMA QuietChain ==
  ASSUME Chained, UNCHANGED <<section, list, lastOffset, current, seen, fresh>>,
         \/ upc \notin Making /\ upc' \in {"idle", "die", "ask"} /\ upc \in {"idle", "die", "ask"}
              /\ "op" \in DOMAIN call'
         \/ upc' \in {upc, "crashed"} /\ call' = call
  PROVE  Chained'
  <1>1. /\ section' \in Sections /\ IsList(list') /\ Len(list') <= Len(section'.units)
        /\ \A j \in DOMAIN list' : "start" \in DOMAIN list'[j] /\ list'[j].start = Start(j)
        /\ lastOffset' \in Nat /\ Start(Len(list') + 1) <= lastOffset'
        /\ seen' \in 0 .. Len(list')
        /\ current' = IF seen' = 0 THEN None ELSE Start(seen')
    BY DEF Chained, Start
  <1>2. "op" \in DOMAIN call' /\ upc' \in Making \cup {"idle", "die", "ask", "crashed"}
    BY DEF Chained
  <1>3. upc' \in {"idle", "die", "ask"} => fresh' = NoContext
    BY DEF Chained, Making
  <1>4. upc' \in Making =>
          /\ upc = upc' /\ call' = call
          /\ "start" \in DOMAIN fresh' /\ fresh'.start = Start(Len(list') + 1)
          /\ call'.op = "next" => seen' = Len(list')
    BY DEF Chained, Making, Start
  <1>5. upc' \in Making \ {"make"} =>
          Len(list') < Len(section'.units) /\ Start(Len(list') + 2) <= lastOffset'
    BY <1>4, SMTT(30) DEF Chained, Making, Start
  <1>6. QED
    BY <1>1, <1>2, <1>3, <1>4, <1>5 DEF Chained, Start

\* An abbreviation is looked up with a context of the list.
LEMMA TableChain ==
  ASSUME Chained, upc \in {"idle", "die"},
         IsList(list'), Len(list') = Len(list), DOMAIN list' = DOMAIN list,
         \A k \in DOMAIN list : "start" \in DOMAIN list'[k] /\ list'[k].start = list[k].start,
         UNCHANGED <<section, lastOffset, current, seen, fresh>>,
         upc' \in {"idle", "ask"}, "op" \in DOMAIN call'
  PROVE  Chained'
  <1>1. \A k \in DOMAIN list' : "start" \in DOMAIN list'[k] /\ list'[k].start = Start(k)
    BY ZenonT(30) DEF Chained
  <1>2. /\ section' \in Sections /\ Len(list') <= Len(section'.units)
        /\ lastOffset' \in Nat /\ Start(Len(list') + 1) <= lastOffset'
        /\ seen' \in 0 .. Len(list')
        /\ current' = IF seen' = 0 THEN None ELSE Start(seen')
    BY ZenonT(30) DEF Chained
  <1>3. upc' \in {"idle", "die", "ask"} /\ fresh' = NoContext
    BY DEF Chained
  <1>4. QED
    BY <1>1, <1>2, <1>3, ZenonT(30) DEF Chained, Making, Start

\* Nothing comes of a context.
LEMMA GivenUpChain ==
  ASSUME Chained, NEW result, GiveUp(result)
  PROVE  Chained'
  <1>1. /\ UNCHANGED <<section, list, lastOffset, current, seen, call>>
        /\ fresh' = NoContext /\ upc' = "idle"
    BY DEF GiveUp, Answer
  <1>2. QED
    BY <1>1 DEF Chained, Start, Making

\* The header of a unit is read: there is one where the list ends.
LEMMA HeaderChain ==
  ASSUME Chained, HeaderRead
  PROVE  Chained'
  <1> DEFINE n == Len(list)
             m == Len(section.units)
  <1>1. /\ UNCHANGED <<section, list, current, fresh, call, seen>>
        /\ upc = "make" /\ upc' = "cu_die"
        /\ IsStart(fresh.start) /\ lastOffset' = EndOf(fresh.start)
    BY DEF HeaderRead
  <1>2. /\ "start" \in DOMAIN fresh /\ fresh.start = Start(n + 1)
        /\ call.op = "next" => seen = n
        /\ section \in Sections /\ n <= m
    BY <1>1 DEF Chained, Making
  <1>3. n \in Nat /\ m \in Nat /\ DOMAIN section.units = 1 .. m
    BY ListPlaces
  <1>4. n + 1 \in Turn
    <2> HIDE DEF n, m
    <2>1. n + 1 \in 1 .. m + 1
      BY <1>2, <1>3
    <2>2. QED
      BY <2>1 DEF Turn, m
  <1>5. n + 1 \in DOMAIN section.units
    BY <1>1, <1>2, <1>4, NoneBehind
  <1>6. n < m
    <2> HIDE DEF n, m
    <2>1. QED
      BY <1>3, <1>5
  <1>7. /\ EndOf(fresh.start) = Start(n + 1 + 1) /\ n + 1 + 1 \in Turn
        /\ Start(n + 1) < Start(n + 1 + 1)
    BY <1>2, <1>5, UnitThere
  <1>8. n + 1 + 1 = n + 2
    <2> HIDE DEF n
    <2>1. QED
      BY <1>3
  <1>9. Start(n + 2) \in Nat /\ Start(n + 1) \in Nat
    BY <1>2, <1>4, <1>7, <1>8, StartsRise
  <1>10. /\ lastOffset' = Start(n + 2) /\ lastOffset' \in Nat
         /\ Start(n + 1) <= lastOffset' /\ Start(n + 2) <= lastOffset'
    BY <1>1, <1>7, <1>8, <1>9
  <1>11. /\ section' \in Sections /\ IsList(list') /\ Len(list') <= Len(section'.units)
         /\ \A j \in DOMAIN list' : "start" \in DOMAIN list'[j] /\ list'[j].start = Start(j)
         /\ seen' \in 0 .. Len(list')
         /\ current' = IF seen' = 0 THEN None ELSE Start(seen')
         /\ "op" \in DOMAIN call'
    BY <1>1 DEF Chained, Start
  <1>12. /\ lastOffset' \in Nat /\ Start(Len(list') + 1) <= lastOffset'
         /\ Start(Len(list') + 2) <= lastOffset' /\ Len(list') < Len(section'.units)
    BY <1>1, <1>6, <1>10 DEF Start
  <1>13. /\ "start" \in DOMAIN fresh' /\ fresh'.start = Start(Len(list') + 1)
         /\ call'.op = "next" => seen' = Len(list')
    BY <1>1, <1>2 DEF Start
  <1>14. QED
    BY <1>1, <1>11, <1>12, <1>13 DEF Chained, Making, Start

\* The making of a context goes on with the same unit.
LEMMA ProceedChain ==
  ASSUME Chained, upc \in Making \ {"make"}, NEW next \in Making \ {"make"}, NEW d,
         "start" \in DOMAIN d, d.start = fresh.start, Proceed(d, next)
  PROVE  Chained'
  <1>1. /\ UNCHANGED <<section, list, lastOffset, current, seen, call>>
        /\ fresh' = d /\ upc' = next
    BY SMTT(30) DEF Proceed
  <1>2. QED
    BY <1>1 DEF Chained, Start, Making

\* A context that is complete is put at the end of the list.
LEMMA InsertedLast ==
  ASSUME Chained, upc \in Making \ {"make"}, NEW d, d.start = fresh.start, Complete(d)
  PROVE  LET n == Len(list)
         IN /\ list' = Append(list, d) /\ IsList(list') /\ Len(list') = n + 1
            /\ \A j \in DOMAIN list : list'[j] = list[j]
            /\ list'[n + 1] = d /\ d.start = Start(n + 1) /\ EndOf(d.start) = Start(n + 2)
            /\ n \in Nat /\ n + 1 \in DOMAIN section.units /\ n + 2 \in Turn /\ n + 1 + 1 = n + 2
            /\ Start(n + 1) \in Nat /\ Start(n + 2) \in Nat
  <1> DEFINE n == Len(list)
             m == Len(section.units)
  <1>1. /\ section \in Sections /\ IsList(list) /\ n < m /\ Start(n + 2) <= lastOffset
        /\ d.start = Start(n + 1) /\ lastOffset \in Nat /\ seen \in 0 .. n
        /\ call.op = "next" => seen = n
        /\ \A j \in DOMAIN list : "start" \in DOMAIN list[j] /\ list[j].start = Start(j)
    BY DEF Chained, Making
  <1>2. /\ n \in Nat /\ m \in Nat /\ DOMAIN list = 1 .. n /\ DOMAIN section.units = 1 .. m
    BY ListPlaces
  <1>3. /\ n + 1 \in 1 .. m /\ n + 1 + 1 = n + 2 /\ n + 1 # 0 /\ n + 2 \in 1 .. m + 1
        /\ n + 1 \in 1 .. m + 1
    <2> HIDE DEF n, m
    <2>1. QED
      BY <1>1, <1>2
  <1>4. /\ n + 1 \in DOMAIN section.units /\ n + 2 \in Turn /\ n + 1 \in Turn
    BY <1>2, <1>3 DEF Turn
  <1>5. /\ EndOf(d.start) = Start(n + 2) /\ Start(n + 1) < Start(n + 2)
        /\ Start(n + 1) \in Nat /\ Start(n + 2) \in Nat
    BY <1>1, <1>3, <1>4, UnitThere, StartsRise
  <1>6. list = <<>> \/ list[Len(list)].start < d.start
    <2>1. CASE n = 0
      BY <1>1, <2>1, SMTT(30) DEF IsList
    <2>2. CASE n # 0
      <3>1. n \in 1 .. n /\ n \in 1 .. m + 1 /\ n < n + 1
        <4> HIDE DEF n, m
        <4>1. QED
          BY <1>1, <1>2, <2>2
      <3>2. Start(n) < Start(n + 1)
        BY <1>1, <1>4, <3>1, StartsOrdered DEF Turn
      <3>3. QED
        BY <1>1, <1>2, <3>1, <3>2
    <2>3. QED
      BY <2>1, <2>2
  <1>7. list' = Append(list, d)
    BY <1>6 DEF Complete, Inserted
  <1>8. /\ IsList(list') /\ Len(list') = n + 1
        /\ \A j \in DOMAIN list : list'[j] = list[j]
        /\ list'[n + 1] = d
    BY <1>1, <1>7, ListTyped
  <1>9. QED
    BY <1>1, <1>2, <1>3, <1>4, <1>5, <1>7, <1>8

\* A context is put at the end of the list.
LEMMA CompleteChain ==
  ASSUME Chained, upc \in Making \ {"make"}, NEW d,
         "start" \in DOMAIN d, d.start = fresh.start, Complete(d)
  PROVE  Chained'
  <1> DEFINE n == Len(list)
             m == Len(section.units)
  <1>1. /\ section \in Sections /\ IsList(list) /\ n < m /\ Start(n + 2) <= lastOffset
        /\ d.start = Start(n + 1) /\ lastOffset \in Nat /\ seen \in 0 .. n
        /\ call.op = "next" => seen = n
        /\ \A j \in DOMAIN list : "start" \in DOMAIN list[j] /\ list[j].start = Start(j)
    BY DEF Chained, Making
  <1>2. /\ n \in Nat /\ m \in Nat /\ DOMAIN list = 1 .. n /\ DOMAIN section.units = 1 .. m
    BY ListPlaces
  <1>3. n + 1 + 1 = n + 2 /\ n + 1 # 0
    <2> HIDE DEF n
    <2>1. QED
      BY <1>2
  <1>5. EndOf(d.start) = Start(n + 2) /\ Start(n + 2) \in Nat
    BY InsertedLast
  <1>8. /\ IsList(list') /\ Len(list') = n + 1
        /\ \A j \in DOMAIN list : list'[j] = list[j]
        /\ list'[n + 1] = d
    BY InsertedLast
  <1>9. UNCHANGED <<section, lastOffset>>
    BY DEF Complete
  <1>10. section' = section
    BY <1>9
  <1>11. ASSUME NEW j \in DOMAIN list'
         PROVE  "start" \in DOMAIN list'[j] /\ list'[j].start = Start(j)
    <2>1. DOMAIN list' = 1 .. n + 1
      BY <1>8, ListTyped
    <2>2. j = n + 1 \/ j \in 1 .. n
      <3> HIDE DEF n
      <3>1. QED
        BY <1>2, <2>1
    <2>3. CASE j = n + 1
      BY <1>1, <1>8, <1>10, <2>3, SMTT(30)
    <2>4. CASE j \in 1 .. n
      BY <1>1, <1>2, <1>8, <1>10, <2>4
    <2>5. QED
      BY <2>2, <2>3, <2>4
  <1>12. n + 1 <= m /\ seen \in 0 .. n + 1 /\ Start(n + 2) <= lastOffset /\ n + 1 + 1 = n + 2
    <2> HIDE DEF n, m
    <2>1. QED
      BY <1>1, <1>2
  <1>13. /\ section' \in Sections /\ Len(list') <= Len(section'.units)
         /\ lastOffset' \in Nat /\ Start(Len(list') + 1) <= lastOffset'
    BY <1>1, <1>8, <1>9, <1>10, <1>12
  <1>14. CASE call.op = "next"
    <2>1. /\ current' = d.start /\ seen' = seen + 1 /\ upc' = "idle"
          /\ fresh' = NoContext /\ call' = call
      BY <1>14 DEF Complete, Answer
    <2>2. seen' = n + 1 /\ seen' \in 0 .. n + 1 /\ seen' # 0
      <3> HIDE DEF n, m
      <3>1. QED
        BY <1>1, <1>2, <1>14, <2>1
    <2>3. current' = IF seen' = 0 THEN None ELSE Start(seen')
      BY <1>1, <1>10, <2>1, <2>2
    <2>4. seen' \in 0 .. Len(list')
      BY <1>8, <2>2
    <2>5. QED
      BY <1>8, <1>10, <1>11, <1>13, <2>1, <2>3, <2>4 DEF Chained, Making, Start
  <1>15. CASE call.op # "next"
    <2>1. /\ UNCHANGED <<current, seen>> /\ "op" \in DOMAIN call' /\ call'.op = call.op
          /\ \/ upc' = "make" /\ fresh' = ContextAt(EndOf(d.start))
             \/ upc' = "die" /\ fresh' = NoContext
      BY <1>15 DEF Complete, Chained
    <2>2. "start" \in DOMAIN ContextAt(EndOf(d.start)) /\ ContextAt(EndOf(d.start)).start = EndOf(d.start)
      BY DEF ContextAt, NoContext
    <2>3. upc' = "make" => "start" \in DOMAIN fresh' /\ fresh'.start = Start(Len(list') + 1)
      BY <1>3, <1>5, <1>8, <1>10, <2>1, <2>2
    <2>4. seen' \in 0 .. Len(list')
      BY <1>8, <1>12, <2>1
    <2>5. current' = IF seen' = 0 THEN None ELSE Start(seen')
      BY <1>10, <2>1 DEF Chained
    <2>6. QED
      BY <1>8, <1>10, <1>11, <1>13, <1>15, <2>1, <2>3, <2>4, <2>5 DEF Chained, Making, Start
  <1>16. QED
    BY <1>14, <1>15

\* A new context is that of the unit at an offset.
LEMMA NewContext ==
  ASSUME NEW o
  PROVE  "start" \in DOMAIN ContextAt(o) /\ ContextAt(o).start = o
  BY DEF ContextAt, NoContext

\* A call that begins is the one that is noted.
LEMMA CallBegun ==
  ASSUME NEW op, NEW o, NEW unit, Begin(op, o, unit)
  PROVE  upc = "idle" /\ "op" \in DOMAIN call' /\ call'.op = op
  BY DEF Begin, BeginCall

\* dwarf_next_cu_header_d() goes on by one unit, or starts over.
LEMMA NextHeaderChain ==
  ASSUME Chained, NextHeaderEnds \/ NextHeaderKnown \/ NextHeaderNew
  PROVE  Chained'
  <1> DEFINE n == Len(list)
  <1>1. /\ n \in Nat /\ DOMAIN list = 1 .. n /\ seen \in Nat /\ seen <= n
        /\ After = Start(seen + 1)
    BY ListPlaces
  <1>2. /\ UNCHANGED <<section, list, lastOffset>> /\ upc = "idle" /\ "op" \in DOMAIN call'
    BY CallBegun DEF NextHeaderEnds, NextHeaderKnown, NextHeaderNew
  <1>3. /\ section' \in Sections /\ IsList(list') /\ Len(list') <= Len(section'.units)
        /\ \A j \in DOMAIN list' : "start" \in DOMAIN list'[j] /\ list'[j].start = Start(j)
        /\ lastOffset' \in Nat /\ Start(Len(list') + 1) <= lastOffset'
        /\ fresh = NoContext
    BY <1>2 DEF Chained
  <1>4. CASE NextHeaderEnds
    <2>1. current' = None /\ seen' = 0 /\ fresh' = fresh /\ upc' = "idle"
      BY <1>4 DEF NextHeaderEnds, Answer
    <2>2. seen' \in 0 .. Len(list')
      BY <1>1, <1>2, <2>1
    <2>3. QED
      BY <1>2, <1>3, <2>1, <2>2 DEF Chained, Making, Start
  <1>5. CASE NextHeaderKnown
    <2>1. /\ Find(After) # 0 /\ current' = list[Find(After)].start /\ seen' = seen + 1
          /\ fresh' = fresh /\ upc' = "idle"
      BY <1>5 DEF NextHeaderKnown, Answer
    <2>2. seen < n /\ Find(After) = seen + 1
      BY <2>1, FindNext
    <2>3. seen' \in 1 .. n /\ seen' # 0
      <3> HIDE DEF n
      <3>1. QED
        BY <1>1, <2>1, <2>2 DEF n
    <2>4. current' = Start(seen')
      BY <1>1, <2>1, <2>2, <2>3 DEF Chained
    <2>5. seen' \in 0 .. Len(list')
      BY <1>1, <1>2, <2>3
    <2>6. QED
      BY <1>2, <1>3, <2>1, <2>3, <2>4, <2>5 DEF Chained, Making, Start
  <1>6. CASE NextHeaderNew
    <2>1. /\ Find(After) = 0 /\ upc' = "make" /\ fresh' = ContextAt(After)
          /\ UNCHANGED <<current, seen>>
      BY <1>6 DEF NextHeaderNew
    <2>2. seen = n
      <3>1. ~ (seen < n)
        <4>1. seen + 1 # 0
          BY <1>1
        <4>2. QED
          BY <2>1, <4>1, FindNext
      <3> HIDE DEF n
      <3>2. QED
        BY <1>1, <3>1
    <2>3. "start" \in DOMAIN fresh' /\ fresh'.start = Start(Len(list') + 1)
      BY <1>1, <1>2, <2>1, <2>2, NewContext
    <2>4. seen' = Len(list') /\ seen' \in 0 .. Len(list')
      BY <1>1, <1>2, <2>1, <2>2
    <2>5. current' = IF seen' = 0 THEN None ELSE Start(seen')
      BY <2>1 DEF Chained
    <2>6. QED
      BY <1>2, <1>3, <2>1, <2>3, <2>4, <2>5 DEF Chained, Making, Start
  <1>7. QED
    BY <1>4, <1>5, <1>6

\* dwarf_offdie_b() makes the context of the unit behind the last of the list.
LEMMA OffDieChain ==
  ASSUME Chained, NEW o, OffDieNew(o)
  PROVE  Chained'
  <1> DEFINE n == Len(list)
             start == IF list = <<>> THEN 0 ELSE EndOf(list[Len(list)].start)
  <1>1. n \in Nat /\ DOMAIN list = 1 .. n
    BY ListPlaces
  <1>2. /\ UNCHANGED <<section, list, lastOffset, current, seen>> /\ upc' = "make"
        /\ fresh' = ContextAt(start) /\ "op" \in DOMAIN call' /\ call'.op = "offdie"
    BY CallBegun DEF OffDieNew
  <1>3. start = Start(n + 1)
    <2>1. CASE list = <<>>
      <3>1. n + 1 = 1
        BY <2>1
      <3> HIDE DEF n
      <3>2. QED
        BY <2>1, <3>1 DEF Start, StartOf
    <2>2. CASE list # <<>>
      <3>1. n # 0
        BY <2>2 DEF Chained, IsList
      <3>2. n \in 1 .. n
        <4> HIDE DEF n
        <4>1. QED
          BY <1>1, <3>1
      <3>3. QED
        BY <1>1, <2>2, <3>2, ListPlaces
    <2>3. QED
      BY <2>1, <2>2
  <1>4. "start" \in DOMAIN fresh' /\ fresh'.start = Start(Len(list') + 1)
    <2> HIDE DEF start
    <2>1. QED
      BY <1>2, <1>3, NewContext
  <1>5. /\ section' \in Sections /\ IsList(list') /\ Len(list') <= Len(section'.units)
        /\ \A j \in DOMAIN list' : "start" \in DOMAIN list'[j] /\ list'[j].start = Start(j)
        /\ lastOffset' \in Nat /\ Start(Len(list') + 1) <= lastOffset'
        /\ seen' \in 0 .. Len(list')
        /\ current' = IF seen' = 0 THEN None ELSE Start(seen')
    BY <1>2 DEF Chained
  <1>6. QED
    BY <1>2, <1>4, <1>5 DEF Chained, Making, Start

\* A context is made, step by step.
LEMMA MakingChain ==
  ASSUME Chained,
         \/ HeaderFails \/ HeaderRead \/ NoAbbreviations \/ NoCuDie \/ CuDieBases \/ NoMemory
         \/ \E room \in 0 .. MaxRoom : CuDie(room) \/ CuDieAttrs(room)
  PROVE  Chained'
  <1>1. upc \in Making => "start" \in DOMAIN fresh
    BY DEF Chained
  <1>2. ASSUME NEW code, NEW room, "start" \in DOMAIN fresh
        PROVE  /\ "start" \in DOMAIN LookedUp(fresh, code, room).context
               /\ LookedUp(fresh, code, room).context.start = fresh.start
    BY <1>2, StartKept
  <1>3. CASE HeaderFails \/ NoAbbreviations \/ NoMemory
    <2>1. \E result : GiveUp(result)
      BY <1>3 DEF HeaderFails, NoAbbreviations, NoMemory
    <2>2. QED
      BY <2>1, GivenUpChain
  <1>4. CASE HeaderRead
    BY <1>4, HeaderChain
  <1>5. CASE NoCuDie
    BY <1>1, <1>5, CompleteChain DEF NoCuDie, Making
  <1>6. ASSUME NEW room \in 0 .. MaxRoom, CuDie(room) PROVE Chained'
    <2> DEFINE r == LookedUp(fresh, codeOfNew, room)
    <2>1. upc = "cu_die" /\ (Proceed(r.context, "attrs") \/ GiveUp("error"))
      BY <1>6 DEF CuDie
    <2>2. "start" \in DOMAIN r.context /\ r.context.start = fresh.start
      BY <1>1, <1>2, <2>1 DEF Making
    <2> HIDE DEF r
    <2>3. QED
      BY <2>1, <2>2, ProceedChain, GivenUpChain DEF Making
  <1>7. ASSUME NEW room \in 0 .. MaxRoom, CuDieAttrs(room) PROVE Chained'
    <2> DEFINE r == LookedUp(fresh, codeOfNew, room)
    <2>1. upc = "attrs" /\ (Proceed(r.context, "bases") \/ GiveUp("error"))
      BY <1>7 DEF CuDieAttrs
    <2>2. "start" \in DOMAIN r.context /\ r.context.start = fresh.start
      BY <1>1, <1>2, <2>1 DEF Making
    <2> HIDE DEF r
    <2>3. QED
      BY <2>1, <2>2, ProceedChain, GivenUpChain DEF Making
  <1>8. CASE CuDieBases
    <2>1. PICK r, taken : upc = "bases" /\ BasesFound(r, taken)
      BY <1>8 DEF CuDieBases
    <2>2. \A b : /\ "start" \in DOMAIN [fresh EXCEPT !.bases = b]
                 /\ [fresh EXCEPT !.bases = b].start = fresh.start
      BY <1>1, <2>1 DEF Making
    <2>3. ASSUME NEW b, Complete([fresh EXCEPT !.bases = b]) PROVE Chained'
      <3> DEFINE d == [fresh EXCEPT !.bases = b]
      <3>1. "start" \in DOMAIN d /\ d.start = fresh.start /\ Complete(d)
        BY <2>2, <2>3
      <3> HIDE DEF d
      <3>2. QED
        BY <2>1, <3>1, CompleteChain DEF Making
    <2>4. ASSUME Interrupted(r), UNCHANGED <<answer, list>> PROVE Chained'
      <3>1. /\ UNCHANGED <<section, list, lastOffset, current, seen, fresh, call>>
            /\ upc' \in {upc, "crashed"}
        BY <2>4 DEF Interrupted
      <3>2. QED
        BY <3>1, QuietChain
    <2>5. QED
      BY <2>1, <2>3, <2>4, GivenUpChain DEF BasesFound
  <1>9. QED
    BY <1>3, <1>4, <1>5, <1>6, <1>7, <1>8

\* What is read of units that have contexts, and what a DIE is asked for.
LEMMA ReadingChain ==
  ASSUME Chained,
         \/ \E o \in Offsets : OffDieKnown(o)
         \/ UnitDie \/ NoUnitYet \/ ReadNoDie \/ NoDieAllocated \/ Answered \/ NoAttribute
         \/ \E room \in 0 .. MaxRoom : ReadDie(room)
         \/ \E query \in Queries, room \in 0 .. MaxRoom : Ask(query, room)
  PROVE  Chained'
  <1>1. "op" \in DOMAIN call
    BY DEF Chained
  <1>2. ASSUME \/ \E o \in Offsets : OffDieKnown(o)
               \/ UnitDie \/ NoUnitYet
        PROVE  Chained'
    <2>1. /\ UNCHANGED <<section, list, lastOffset, current, seen, fresh>>
          /\ upc = "idle" /\ upc' \in {"idle", "die"} /\ "op" \in DOMAIN call'
      BY <1>2, CallBegun DEF OffDieKnown, UnitDie, NoUnitYet, contextVars, Answer
    <2>2. QED
      BY <2>1, QuietChain DEF Making
  <1>3. ASSUME ReadNoDie \/ NoDieAllocated \/ NoAttribute PROVE Chained'
    <2>1. /\ UNCHANGED <<section, list, lastOffset, current, seen, fresh, call>>
          /\ upc \in {"die", "ask"} /\ upc' = "idle"
      BY <1>3 DEF ReadNoDie, NoDieAllocated, NoAttribute, contextVars, Answer, NotAnswered, AnswerWith
    <2>2. QED
      BY <1>1, <2>1, QuietChain DEF Making
  <1>4. ASSUME Answered PROVE Chained'
    <2>1. PICK r : upc = "ask" /\ AnswerFound(r) /\ list' = list
      BY <1>4 DEF Answered
    <2>2. /\ UNCHANGED <<section, list, lastOffset, current, seen, fresh, call>>
          /\ upc' \in {upc, "crashed", "idle"}
      BY <2>1 DEF AnswerFound, Interrupted, AnswerWith, contextVars
    <2>3. QED
      BY <1>1, <2>1, <2>2, QuietChain DEF Making
  <1>5. ASSUME NEW j, NEW code, NEW room,
               list' = [list EXCEPT ![j] = LookedUp(list[j], code, room).context]
        PROVE  /\ IsList(list') /\ Len(list') = Len(list) /\ DOMAIN list' = DOMAIN list
               /\ \A k \in DOMAIN list :
                    "start" \in DOMAIN list'[k] /\ list'[k].start = list[k].start
    <2> DEFINE d == LookedUp(list[j], code, room).context
    <2>1. IsList(list') /\ Len(list') = Len(list) /\ DOMAIN list' = DOMAIN list
      BY <1>5, ListTyped DEF Chained
    <2>2. ASSUME NEW k \in DOMAIN list
          PROVE  "start" \in DOMAIN list'[k] /\ list'[k].start = list[k].start
      <3>1. "start" \in DOMAIN list[k]
        BY DEF Chained
      <3>2. CASE k = j
        <4>1. "start" \in DOMAIN d /\ d.start = list[k].start
          BY <3>1, <3>2, StartKept
        <4>2. list'[k] = d
          BY <1>5, <3>2
        <4> HIDE DEF d
        <4>3. QED
          BY <4>1, <4>2
      <3>3. CASE k # j
        BY <1>5, <3>1, <3>3
      <3>4. QED
        BY <3>2, <3>3
    <2>3. QED
      BY <2>1, <2>2
  <1>6. ASSUME NEW room \in 0 .. MaxRoom, ReadDie(room) PROVE Chained'
    <2>1. /\ upc = "die" /\ upc' = "idle" /\ UNCHANGED call
          /\ UNCHANGED <<section, lastOffset, current, seen, fresh>>
      BY <1>6 DEF ReadDie, Answer
    <2>2. /\ IsList(list') /\ Len(list') = Len(list) /\ DOMAIN list' = DOMAIN list
          /\ \A k \in DOMAIN list : "start" \in DOMAIN list'[k] /\ list'[k].start = list[k].start
      BY <1>5, <1>6, Zenon DEF ReadDie
    <2>3. QED
      BY <1>1, <2>1, <2>2, TableChain, SMTT(30)
  <1>7. ASSUME NEW query \in Queries, NEW room \in 0 .. MaxRoom, Ask(query, room) PROVE Chained'
    <2>1. /\ upc = "idle" /\ upc' \in {"idle", "ask"}
          /\ UNCHANGED <<section, lastOffset, current, seen, fresh>>
          /\ call' = [call EXCEPT !.op = "ask", !.query = query]
      BY <1>7 DEF Ask, BeginCall, NotAnswered, AnswerWith
    <2>2. /\ IsList(list') /\ Len(list') = Len(list) /\ DOMAIN list' = DOMAIN list
          /\ \A k \in DOMAIN list : "start" \in DOMAIN list'[k] /\ list'[k].start = list[k].start
      BY <1>5, <1>7, Zenon DEF Ask
    <2>3. "op" \in DOMAIN call'
      BY <1>1, <2>1
    <2>4. QED
      BY <2>1, <2>2, <2>3, TableChain
  <1>8. QED
    BY <1>2, <1>3, <1>4, <1>6, <1>7

\* Every step keeps the chain, whatever happens to the sections and the file.
LEMMA ChainKept ==
  ASSUME Chained, [ObjectNext]_objectVars
  PROVE  Chained'
  <1>1. ASSUME UnitsNext PROVE Chained'
    BY <1>1, NextHeaderChain, OffDieChain, MakingChain, ReadingChain DEF UnitsNext
  <1>2. ASSUME UNCHANGED unitVars PROVE Chained'
    <2>1. UNCHANGED <<section, list, lastOffset, current, seen, fresh, call, upc>>
      BY <1>2 DEF unitVars, contextVars
    <2>2. QED
      BY <2>1, QuietChain
  <1>3. ASSUME NEW result, SectionLoaded(result) PROVE Chained'
    <2>1. UNCHANGED <<section, list, lastOffset, current, seen, fresh, call, upc>>
      BY <1>3 DEF SectionLoaded, contextVars
    <2>2. QED
      BY <2>1, QuietChain
  <1>4. ASSUME Close PROVE Chained'
    <2>1. /\ section' = section /\ list' = <<>> /\ current' = None /\ lastOffset' = 0
          /\ fresh' = NoContext /\ upc' = "idle" /\ call' = NoCall /\ seen' = 0
      BY <1>4 DEF Close, UnitsReset
    <2>2. section \in Sections /\ Len(section.units) \in Nat
      BY UnitsGiven DEF Chained
    <2>3. IsList(list') /\ Len(list') = 0 /\ DOMAIN list' = {}
      <3>1. list' \in Seq({})
        BY <2>1
      <3>2. QED
        BY <2>1, <3>1 DEF IsList
    <2>4. Start(Len(list') + 1) = 0
      BY <2>3 DEF Start, StartOf
    <2>5. "op" \in DOMAIN call'
      BY <2>1 DEF NoCall
    <2>6. QED
      BY <2>1, <2>2, <2>3, <2>4, <2>5 DEF Chained, Making, Start
  <1>5. CASE Access \/ SetupSections \/ Ended \/ UNCHANGED objectVars
    BY <1>2, <1>5 DEF Access, SetupSections, Ended, objectVars
  <1>6. CASE LoadSection
    BY <1>2, <1>3, <1>6 DEF LoadSection
  <1>7. CASE ReadUnits
    BY <1>1, <1>7 DEF ReadUnits
  <1>8. QED
    BY <1>4, <1>5, <1>6, <1>7 DEF ObjectNext

\* At first there is no context.
LEMMA ChainBegins == ObjectInit => Chained
  <1> SUFFICES ASSUME ObjectInit PROVE Chained
    OBVIOUS
  <1>1. /\ section \in Sections /\ list = <<>> /\ current = None /\ lastOffset = 0
        /\ fresh = NoContext /\ upc = "idle" /\ call = NoCall /\ seen = 0
    BY DEF ObjectInit, UnitsInit
  <1>2. Len(section.units) \in Nat
    BY <1>1, UnitsGiven
  <1>3. IsList(list) /\ Len(list) = 0 /\ DOMAIN list = {}
    <2>1. list \in Seq({})
      BY <1>1
    <2>2. QED
      BY <1>1, <2>1 DEF IsList
  <1>4. Start(Len(list) + 1) = 0
    BY <1>3 DEF Start, StartOf
  <1>5. "op" \in DOMAIN call
    BY <1>1 DEF NoCall
  <1>6. QED
    BY <1>1, <1>2, <1>3, <1>4, <1>5 DEF Chained, Making

\* In whatever order dwarf_next_cu_header_d() and dwarf_offdie_b() reach units, and
\* whatever fails on the way, the list has each unit once and in order, and
\* dwarf_next_cu_header_d() passes none over and gives none twice.
THEOREM UnitsInTurnCorrect == ObjectSpec => []UnitsInTurn
  <1>1. Chained => UnitsInTurn
    <2> SUFFICES ASSUME Chained PROVE UnitsInTurn
      OBVIOUS
    <2> DEFINE n == Len(list)
               m == Len(section.units)
    <2>1. /\ n \in Nat /\ m \in Nat /\ DOMAIN list = 1 .. n /\ seen <= n /\ n <= m
          /\ Start(n + 1) \in Nat /\ Start(n + 1) <= lastOffset /\ lastOffset \in Nat
          /\ section \in Sections
      BY ListPlaces DEF Chained
    <2>2. ASSUME NEW j \in DOMAIN list
          PROVE  list[j].start = Start(j) /\ EndOf(list[j].start) <= lastOffset
      <3>1. list[j].start = Start(j) /\ EndOf(list[j].start) = Start(j + 1)
        BY ListPlaces DEF Chained
      <3>2. /\ j + 1 \in 1 .. m + 1 /\ n + 1 \in 1 .. m + 1
            /\ j + 1 < n + 1 \/ j + 1 = n + 1
        <4> HIDE DEF n, m
        <4>1. QED
          BY <2>1
      <3>3. Start(j + 1) \in Nat
        BY <2>1, <3>2, StartsRise DEF Turn
      <3>4. Start(j + 1) < Start(n + 1) \/ Start(j + 1) = Start(n + 1)
        BY <2>1, <3>2, StartsOrdered DEF Turn
      <3> HIDE DEF n
      <3>5. QED
        BY <2>1, <3>1, <3>3, <3>4
    <2>3. current = IF seen = 0 THEN None ELSE Start(seen)
      BY DEF Chained
    <2>4. upc # "crashed" => ((fresh # NoContext) <=> (upc \in {"make", "cu_die", "attrs", "bases"}))
      <3>1. upc \in {"make", "cu_die", "attrs", "bases", "idle", "die", "ask", "crashed"}
        BY DEF Chained, Making
      <3>2. upc \in {"idle", "die", "ask"} => fresh = NoContext
        BY DEF Chained
      <3>3. upc \in Making => fresh.start = Start(n + 1)
        BY DEF Chained
      <3>4. fresh.start = Start(n + 1) => fresh # NoContext
        <4>1. NoContext.start = -1
          BY DEF NoContext, None
        <4> HIDE DEF n
        <4>2. QED
          BY <2>1, <4>1
      <3>5. QED
        BY <3>1, <3>2, <3>3, <3>4 DEF Making
    <2>5. QED
      BY <2>1, <2>2, <2>3, <2>4 DEF UnitsInTurn, Start
  <1>2. QED
    BY <1>1, ChainBegins, ChainKept, PTL DEF ObjectSpec

(* The sections of an open file.                                           *)

\* The least number that something fails for.
LEMMA LeastOne ==
  ASSUME NEW S, S \subseteq Nat, S # {}
  PROVE  \E m \in S : m \in Nat /\ \A l \in S : ~ (l < m)
  <1>1. PICK m \in S : \A l \in S : ~ (<<l, m>> \in OpToRel(<, Nat))
    BY NatLessThanWellFounded, WFMin
  <1>2. QED
    BY <1>1 DEF OpToRel

\* The table after each of the first n headers.
AreEntered(hs, n, h) ==
  h = [k \in 0 .. n |-> IF k = 0 THEN NoneEntered ELSE Enter(h[k - 1], hs[k], k)]

\* Whatever the headers, there is the table that they leave.
LEMMA EnteredExist ==
  ASSUME NEW hs, NEW n \in Nat
  PROVE  \E h : AreEntered(hs, n, h)
  <1> DEFINE Lacking == {m \in Nat : ~ \E h : AreEntered(hs, m, h)}
  <1>1. SUFFICES ASSUME Lacking # {} PROVE FALSE
    OBVIOUS
  <1>2. PICK m \in Lacking : m \in Nat /\ \A l \in Lacking : ~ (l < m)
    <2>1. Lacking \subseteq Nat
      OBVIOUS
    <2> HIDE DEF Lacking
    <2>2. QED
      BY <1>1, <2>1, LeastOne
  <1>3. CASE m = 0
    <2> DEFINE h == [k \in 0 .. m |-> NoneEntered]
    <2>1. AreEntered(hs, m, h)
      BY <1>3 DEF AreEntered
    <2>2. QED
      BY <2>1
  <1>4. CASE m # 0
    <2>1. m - 1 \in Nat /\ m - 1 < m
      BY <1>2, <1>4
    <2>2. PICK g : AreEntered(hs, m - 1, g)
      BY <1>2, <2>1
    <2> DEFINE h == [k \in 0 .. m |-> IF k = m THEN Enter(g[m - 1], hs[m], m) ELSE g[k]]
    <2>3. h[m] = Enter(g[m - 1], hs[m], m) /\ \A k \in 0 .. m - 1 : h[k] = g[k]
      BY <1>2, <2>1
    <2>4. ASSUME NEW k \in 0 .. m
          PROVE  h[k] = IF k = 0 THEN NoneEntered ELSE Enter(h[k - 1], hs[k], k)
      <3> HIDE DEF h
      <3>1. CASE k = m
        <4>1. h[m - 1] = g[m - 1]
          BY <1>2, <2>1, <2>3
        <4>2. QED
          BY <1>4, <2>3, <3>1, <4>1
      <3>2. CASE k # m
        <4>1. k \in 0 .. m - 1 /\ (k # 0 => k - 1 \in 0 .. m - 1)
          BY <1>2, <3>2
        <4>2. g[k] = IF k = 0 THEN NoneEntered ELSE Enter(g[k - 1], hs[k], k)
          BY <2>2, <4>1 DEF AreEntered
        <4>3. h[k] = g[k] /\ (k # 0 => h[k - 1] = g[k - 1])
          BY <2>3, <4>1
        <4>4. QED
          BY <4>2, <4>3
      <3>3. QED
        BY <3>1, <3>2
    <2>5. h = [k \in 0 .. m |-> h[k]]
      OBVIOUS
    <2> HIDE DEF h
    <2>6. AreEntered(hs, m, h)
      BY <2>4, <2>5 DEF AreEntered
    <2>7. QED
      BY <2>6
  <1>5. QED
    BY <1>3, <1>4

\* The table t of the first k headers: unless there is an error, each name that
\* was met is used, and what is entered for a name is the only section of it.
OneEach(hs, k, t) ==
  /\ t = [used |-> t.used, at |-> t.at, result |-> t.result]
  /\ t.at \in [Names -> Nat]
  /\ t.result # "error" =>
       \A n \in Names :
         /\ \A j \in 1 .. k : hs[j].name = n => n \in t.used
         /\ t.at[n] # 0 =>
              /\ t.at[n] \in 1 .. k /\ hs[t.at[n]].name = n
              /\ \A j \in 1 .. k : hs[j].name = n => j = t.at[n]

\* The table is sound before there is a header.
LEMMA NoneEnteredYet == ASSUME NEW hs PROVE OneEach(hs, 0, NoneEntered)
  BY DEF OneEach, NoneEntered, NoSections

\* One more header.
LEMMA EnterOnce ==
  ASSUME NEW hs \in Seq(Header), NEW k \in 1 .. Len(hs), NEW t, OneEach(hs, k - 1, t)
  PROVE  OneEach(hs, k, Enter(t, hs[k], k))
  <1> DEFINE h == hs[k]
             s == Enter(t, h, k)
  <1>1. k \in Nat /\ k > 0 /\ 1 .. k = (1 .. k - 1) \cup {k} /\ k \notin 1 .. k - 1
    OBVIOUS
  <1>2. h.name \in Names \cup {"other"}
    <2>1. h \in Header
      BY DEF h
    <2> HIDE DEF h
    <2>2. QED
      BY <2>1 DEF Header
  <1>3. /\ t = [used |-> t.used, at |-> t.at, result |-> t.result]
        /\ t.at \in [Names -> Nat]
    BY DEF OneEach
  <1> HIDE DEF h
  <1>4. CASE t.result = "error"
    <2>1. s = t
      BY <1>4 DEF Enter
    <2>2. QED
      BY <1>3, <1>4, <2>1 DEF OneEach, h
  <1>5. CASE t.result # "error" /\ h.name = "other"
    <2>1. s = t
      BY <1>5 DEF Enter
    <2>2. \A n \in Names : n # "other"
      BY DEF Names
    <2>3. QED
      BY <1>1, <1>5, <2>1, <2>2 DEF OneEach, h
  <1>6. CASE t.result # "error" /\ h.name # "other" /\ (h.name \in t.used \/ (h.empty /\ h.name \in NotEmpty))
    <2>1. s = [t EXCEPT !.result = "error"]
      BY <1>6 DEF Enter
    <2>2. s = [used |-> t.used, at |-> t.at, result |-> "error"]
      BY <1>3, <2>1
    <2> HIDE DEF s
    <2>3. QED
      BY <1>3, <2>2 DEF OneEach, s, h
  <1>7. CASE t.result # "error" /\ h.name # "other" /\ h.name \notin t.used /\ ~ (h.empty /\ h.name \in NotEmpty)
    <2>1. s = [used |-> t.used \cup {h.name},
               at |-> IF h.empty THEN t.at ELSE [t.at EXCEPT ![h.name] = k],
               result |-> IF h.name \in HaveDwarf THEN "ok" ELSE t.result]
      BY <1>7 DEF Enter
    <2> HIDE DEF s
    <2>2. h.name \in Names
      BY <1>2, <1>7
    <2>3. s.at \in [Names -> Nat]
      BY <1>1, <1>3, <2>1, <2>2
    <2>4. ASSUME NEW n \in Names
          PROVE  /\ \A j \in 1 .. k : hs[j].name = n => n \in s.used
                 /\ s.at[n] # 0 =>
                      /\ s.at[n] \in 1 .. k /\ hs[s.at[n]].name = n
                      /\ \A j \in 1 .. k : hs[j].name = n => j = s.at[n]
      <3>1. /\ \A j \in 1 .. k - 1 : hs[j].name = n => n \in t.used
            /\ t.at[n] # 0 =>
                 /\ t.at[n] \in 1 .. k - 1 /\ hs[t.at[n]].name = n
                 /\ \A j \in 1 .. k - 1 : hs[j].name = n => j = t.at[n]
        BY <1>7 DEF OneEach
      <3>2. \A j \in 1 .. k : hs[j].name = n => n \in s.used
        BY <1>1, <2>1, <3>1 DEF h
      <3>3. CASE n = h.name
        <4>1. t.at[n] = 0
          BY <1>1, <1>7, <3>1, <3>3
        <4>2. s.at[n] = IF h.empty THEN 0 ELSE k
          BY <1>3, <2>1, <2>2, <3>3, <4>1
        <4>3. \A j \in 1 .. k : hs[j].name = n => j = k
          BY <1>1, <1>7, <3>1, <3>3
        <4>4. QED
          BY <1>1, <3>2, <3>3, <4>2, <4>3 DEF h
      <3>4. CASE n # h.name
        <4>1. s.at[n] = t.at[n]
          BY <1>3, <2>1, <2>2, <3>4
        <4>2. \A j \in 1 .. k : hs[j].name = n => j \in 1 .. k - 1
          BY <1>1, <3>4 DEF h
        <4>3. QED
          BY <1>1, <3>1, <3>2, <4>1, <4>2
      <3>5. QED
        BY <3>3, <3>4
    <2>5. s = [used |-> s.used, at |-> s.at, result |-> s.result]
      BY <2>1
    <2>6. QED
      BY <2>3, <2>4, <2>5 DEF OneEach, s, h
  <1>8. QED
    BY <1>4, <1>5, <1>6, <1>7

\* Unless _dwarf_setup() fails, a section that it entered is the only one of its name.
LEMMA SetUpOnce ==
  ASSUME NEW hs \in Seq(Header)
  PROVE  OneEach(hs, Len(hs), SetUp(hs))
  <1>1. PICK h : AreEntered(hs, Len(hs), h) /\ SetUp(hs) = h[Len(hs)]
    <2> DEFINE after == CHOOSE f : AreEntered(hs, Len(hs), f)
    <2>1. AreEntered(hs, Len(hs), after)
      BY EnteredExist
    <2>2. SetUp(hs) = after[Len(hs)]
      BY Zenon DEF SetUp, AreEntered
    <2>3. QED
      BY <2>1, <2>2
  <1> DEFINE Lacking == {m \in Nat : m <= Len(hs) /\ ~ OneEach(hs, m, h[m])}
  <1>2. ASSUME Lacking # {} PROVE FALSE
    <2>1. PICK m \in Lacking : m \in Nat /\ \A l \in Lacking : ~ (l < m)
      <3>1. Lacking \subseteq Nat
        OBVIOUS
      <3> HIDE DEF Lacking
      <3>2. QED
        BY <1>2, <3>1, LeastOne
    <2>2. m <= Len(hs) /\ ~ OneEach(hs, m, h[m]) /\ Len(hs) \in Nat
      BY <2>1
    <2>3. CASE m = 0
      <3>1. h[m] = NoneEntered
        BY <1>1, <2>2, <2>3 DEF AreEntered
      <3>2. QED
        BY <2>2, <2>3, <3>1, NoneEnteredYet
    <2>4. CASE m # 0
      <3>1. m - 1 \in Nat /\ m - 1 < m /\ m - 1 <= Len(hs) /\ m \in 1 .. Len(hs) /\ m \in 0 .. Len(hs)
        BY <2>1, <2>2, <2>4
      <3>2. OneEach(hs, m - 1, h[m - 1])
        BY <2>1, <3>1
      <3>3. h[m] = Enter(h[m - 1], hs[m], m)
        BY <1>1, <2>4, <3>1 DEF AreEntered
      <3>4. QED
        BY <2>2, <3>1, <3>2, <3>3, EnterOnce
    <2>5. QED
      BY <2>3, <2>4
  <1>3. QED
    BY <1>1, <1>2

-----------------------------------------------------------------------------

\* The table is that of the file's headers, and is there while the file is open;
\* packed bytes stand for contents only if they could not be unpacked.
Loading ==
  /\ disk \in Disks
  /\ at \in [Names -> Nat] /\ data \in [Names -> {"none", "bytes", "contents"}]
  /\ unpacked \subseteq Names
  /\ \A n \in Names :
       /\ at[n] # 0 => \A k \in DOMAIN headers : (headers[k].name = n) <=> (k = at[n])
       /\ data[n] # "none" => at[n] # 0
       /\ data[n] = "bytes" => n \in spoilt
       /\ n \in unpacked => data[n] = "contents"
  /\ load.result = "ok" => load.name \in Names /\ data[load.name] # "none"
  /\ pc # "open" => NoneLoaded

\* Before anything is loaded.
LEMMA NothingYet ==
  ASSUME disk \in Disks, NoneLoaded
  PROVE  Loading
  BY DEF NoneLoaded, Loading, NoSections, NotLoaded, NoLoad, Names

\* What is left after a Dwarf_Debug.
LEMMA NothingLeft ==
  ASSUME disk' \in Disks, NothingLoaded
  PROVE  Loading'
  BY DEF NothingLoaded, NoneLoaded, Loading, NoSections, NotLoaded, NoLoad, Names

\* dwarf_pe_init() sets the sections up.
LEMMA SetupSectionsLoads ==
  ASSUME Loading, SetupSections
  PROVE  Loading'
  <1>1. PICK hs \in Listed(disk) : SetUp(hs).result = "ok" /\ headers' = hs /\ SectionsSetUp
    BY DEF SetupSections
  <1>2. pc = "setup" /\ pc' = "open" /\ disk' = disk
    BY DEF SetupSections, Setup, inputs
  <1>3. hs \in Seq(Header)
    BY ListedAssumption DEF Loading
  <1>4. OneEach(hs, Len(hs), SetUp(hs)) /\ DOMAIN hs = 1 .. Len(hs)
    BY <1>3, SetUpOnce
  <1>5. /\ SetUp(hs).at \in [Names -> Nat]
        /\ \A n \in Names : SetUp(hs).at[n] # 0 =>
             \A k \in DOMAIN hs : (hs[k].name = n) <=> (k = SetUp(hs).at[n])
    BY <1>1, <1>4 DEF OneEach
  <1>6. at' = SetUp(hs).at /\ UNCHANGED <<data, unpacked, load, spoilt>>
    BY <1>1 DEF SectionsSetUp
  <1>7. /\ data = NotLoaded /\ unpacked = {} /\ load.result = "none"
        /\ data \in [Names -> {"none", "bytes", "contents"}]
    BY <1>2 DEF Loading, NoneLoaded, NoLoad
  <1>8. \A n \in Names : data[n] = "none"
    BY <1>7 DEF NotLoaded
  <1>9. QED
    BY <1>1, <1>2, <1>5, <1>6, <1>7, <1>8 DEF Loading

\* A section is loaded, or not.
LEMMA LoadSectionLoads ==
  ASSUME Loading, LoadSection
  PROVE  Loading'
  <1>1. PICK n \in Names : LoadKnown(n) \/ LoadPlain(n) \/ Unpack(n) \/ UnpackFails(n)
    BY DEF LoadSection
  <1>2. pc = "open" /\ pc' = pc /\ disk' = disk
    BY DEF LoadSection, inputs
  <1>3. /\ UNCHANGED <<headers, at>> /\ load'.name = n
        /\ at \in [Names -> Nat] /\ data \in [Names -> {"none", "bytes", "contents"}]
        /\ unpacked \subseteq Names
    BY <1>1 DEF LoadKnown, LoadPlain, Unpack, UnpackFails, Returns, Loading
  <1>4. CASE LoadKnown(n)
    <2>1. /\ UNCHANGED <<data, unpacked, spoilt>>
          /\ load'.result = "ok" => at[n] # 0 /\ data[n] # "none"
      BY <1>4 DEF LoadKnown, Returns
    <2>2. QED
      BY <1>2, <1>3, <2>1 DEF Loading
  <1>5. CASE LoadPlain(n) \/ Unpack(n)
    <2>1. /\ at[n] # 0 /\ data' = [data EXCEPT ![n] = "contents"]
          /\ unpacked' \in {unpacked, unpacked \cup {n}} /\ spoilt' = spoilt
      BY <1>5 DEF LoadPlain, Unpack
    <2>2. data' \in [Names -> {"none", "bytes", "contents"}]
      BY <1>3, <2>1
    <2>3. data'[n] = "contents" /\ \A m \in Names : m # n => data'[m] = data[m]
      BY <1>3, <2>1
    <2>4. QED
      BY <1>2, <1>3, <2>1, <2>2, <2>3 DEF Loading
  <1>6. CASE UnpackFails(n)
    <2>1. /\ at[n] # 0 /\ data[n] = "none" /\ data' = [data EXCEPT ![n] = "bytes"]
          /\ unpacked' = unpacked /\ spoilt' = spoilt \cup {n}
          /\ load'.result = "error"
      BY <1>6 DEF UnpackFails, Returns
    <2>2. data' \in [Names -> {"none", "bytes", "contents"}]
      BY <1>3, <2>1
    <2>3. data'[n] = "bytes" /\ \A m \in Names : m # n => data'[m] = data[m]
      BY <1>3, <2>1
    <2>4. n \notin unpacked
      BY <2>1 DEF Loading
    <2>5. QED
      BY <1>2, <1>3, <2>1, <2>2, <2>3, <2>4 DEF Loading
  <1>7. QED
    BY <1>1, <1>4, <1>5, <1>6

\* Every step of an image in use.
LEMMA LoadingKept ==
  ASSUME Loading, [ObjectNext]_objectVars
  PROVE  Loading'
  <1>1. CASE Access
    <2>1. /\ pc # "open" /\ UNCHANGED sectionVars /\ disk' = disk
          /\ Acquire \/ AcquireFails \/ SetupNoEntry \/ SetupError \/ FindLink \/ Unwind \/ Redirect \/ Finish
      <3>1. "open" \notin LabelSet
        BY LabelSetListed
      <3>2. \A k \in 1 .. Len(Labels) : Labels[k] \in LabelSet
        BY DEF LabelSet
      <3>3. QED
        BY <1>1, <3>1, <3>2
           DEF Access, Acquire, AcquireFails, SetupNoEntry, SetupError, FindLink, Unwind, Redirect, Finish,
               inputs
    <2>2. NoneLoaded /\ NoneLoaded'
      BY <2>1 DEF Loading, NoneLoaded, sectionVars
    <2>3. QED
      BY <2>1, <2>2 DEF Loading, sectionVars
  <1>2. CASE SetupSections
    BY <1>2, SetupSectionsLoads
  <1>3. CASE LoadSection
    BY <1>3, LoadSectionLoads
  <1>4. CASE ReadUnits
    <2>1. pc = "open" /\ pc' = pc /\ UNCHANGED <<disk, headers, at, data, unpacked, spoilt>> /\ load'.result = "none"
      BY <1>4 DEF ReadUnits, vars, NoLoad
    <2>2. QED
      BY <2>1 DEF Loading
  <1>5. CASE Close
    <2>1. disk' \in Disks
      BY <1>5 DEF Close, BeginFinish, inputs, Loading
    <2>2. QED
      BY <1>5, <2>1, NothingLeft DEF Close
  <1>6. CASE Ended \/ UNCHANGED objectVars
    <2>1. UNCHANGED <<pc, disk, headers, at, data, unpacked, load, spoilt>>
      BY <1>6 DEF Ended, objectVars, vars, sectionVars
    <2>2. QED
      BY <2>1 DEF Loading, NoneLoaded
  <1>7. QED
    BY <1>1, <1>2, <1>3, <1>4, <1>5, <1>6 DEF ObjectNext

\* The table has for each name the one section of it, and what is handed out as
\* contents are the contents, unless the section could not be unpacked before.
THEOREM SectionsCorrect == ObjectSpec => []SectionsAsStored
  <1>1. ObjectInit => Loading
    BY NothingYet DEF ObjectInit, Init
  <1>2. Loading => SectionsAsStored
    BY DEF Loading, SectionsAsStored
  <1>3. QED
    BY <1>1, <1>2, LoadingKept, PTL DEF ObjectSpec

-----------------------------------------------------------------------------
(* Folds and sequences.                                                    *)

\* What holds at first, and after each step if it did before, holds throughout.
LEMMA CountUp ==
  ASSUME NEW n \in Nat, NEW S, 0 \in S, \A k \in 0 .. n - 1 : k \in S => k + 1 \in S
  PROVE  \A k \in 0 .. n : k \in S
  <1> DEFINE Wrong == {k \in Nat : k \in 0 .. n /\ k \notin S}
  <1>1. SUFFICES ASSUME Wrong # {} PROVE FALSE
    OBVIOUS
  <1>2. PICK m \in Wrong : m \in Nat /\ \A l \in Wrong : ~ (l < m)
    BY <1>1, LeastOne
  <1>3. m # 0 /\ m - 1 \in 0 .. n - 1 /\ m - 1 < m /\ m - 1 \in Nat
    BY <1>2
  <1>4. m - 1 \in S
    BY <1>2, <1>3
  <1>5. m - 1 + 1 = m
    BY <1>2
  <1>6. m \in S
    BY <1>3, <1>4, <1>5
  <1>7. QED
    BY <1>2, <1>6

\* A fold over the subsets of U that takes elements in the order C.
IsFold(F, C, b, D, g) ==
  g = [s \in D |-> IF s = {} THEN b ELSE F[<<g[s \ {C[s]}], C[s]>>]]

\* Whatever the step does with values, there is its fold.
LEMMA FoldExists ==
  ASSUME NEW U, IsFiniteSet(U), NEW V, NEW b \in V, NEW F \in [V \X U -> V],
         NEW C, \A s \in SUBSET U : s # {} => C[s] \in s
  PROVE  \E g \in [SUBSET U -> V] : IsFold(F, C, b, SUBSET U, g)
  <1> DEFINE Upto(n) == {s \in SUBSET U : Cardinality(s) <= n}
             Good(n) == \E g \in [Upto(n) -> V] : IsFold(F, C, b, Upto(n), g)
             Lacking == {n \in Nat : ~ Good(n)}
  <1>1. ASSUME NEW s \in SUBSET U, s # {}
        PROVE  /\ C[s] \in s /\ C[s] \in U /\ s \ {C[s]} \in SUBSET U
               /\ Cardinality(s) \in Nat /\ Cardinality(s \ {C[s]}) = Cardinality(s) - 1
    <2>1. IsFiniteSet(s)
      BY FS_Subset
    <2>2. C[s] \in s
      BY <1>1
    <2>3. QED
      BY <2>1, <2>2, FS_RemoveElement, FS_CardinalityType
  <1>2. ASSUME Lacking # {} PROVE FALSE
    <2>1. PICK n \in Lacking : n \in Nat /\ \A l \in Lacking : ~ (l < n)
      BY <1>2, LeastOne
    <2>2. CASE n = 0
      <3> DEFINE g == [s \in Upto(0) |-> b]
      <3>1. \A s \in Upto(0) : s = {}
        BY FS_Subset, FS_EmptySet, FS_CardinalityType
      <3>2. g = [s \in Upto(0) |-> IF s = {} THEN b ELSE F[<<g[s \ {C[s]}], C[s]>>]]
        BY <3>1
      <3>3. g \in [Upto(0) -> V]
        OBVIOUS
      <3> HIDE DEF g, Upto
      <3>4. Good(0)
        BY <3>2, <3>3 DEF IsFold
      <3>5. QED
        BY <2>1, <2>2, <3>4
    <2>3. CASE n # 0
      <3>1. n - 1 \in Nat /\ n - 1 < n
        BY <2>1, <2>3
      <3>2. PICK g \in [Upto(n - 1) -> V] : IsFold(F, C, b, Upto(n - 1), g)
        BY <2>1, <3>1
      <3> DEFINE Next1(s) == F[<<g[s \ {C[s]}], C[s]>>]
                 e == [s \in Upto(n) |-> IF s = {} THEN b ELSE Next1(s)]
      <3>3. ASSUME NEW s \in Upto(n), s # {}
            PROVE  s \ {C[s]} \in Upto(n - 1) /\ s \ {C[s]} \in Upto(n)
        BY <1>1, <2>1, <3>1, <3>3
      <3>4. ASSUME NEW s \in Upto(n - 1) PROVE e[s] = g[s] /\ s \in Upto(n)
        <4>1. s \in Upto(n)
          <5>1. IsFiniteSet(s)
            BY FS_Subset
          <5>2. Cardinality(s) \in Nat
            BY <5>1, FS_CardinalityType
          <5>3. QED
            BY <2>1, <5>2
        <4>2. g[s] = IF s = {} THEN b ELSE F[<<g[s \ {C[s]}], C[s]>>]
          BY <3>2 DEF IsFold
        <4>3. QED
          BY <4>1, <4>2
      <3>5. ASSUME NEW s \in Upto(n), s # {} PROVE Next1(s) \in V
        <4>1. g[s \ {C[s]}] \in V /\ C[s] \in U
          BY <1>1, <3>2, <3>3, <3>5
        <4>2. QED
          BY <4>1
      <3>6. e \in [Upto(n) -> V]
        <4>1. ASSUME NEW s \in Upto(n) PROVE (IF s = {} THEN b ELSE Next1(s)) \in V
          BY <3>5
        <4> HIDE DEF Upto, Next1
        <4>2. QED
          BY <4>1
      <3>7. e = [s \in Upto(n) |-> IF s = {} THEN b ELSE F[<<e[s \ {C[s]}], C[s]>>]]
        <4>1. ASSUME NEW s \in Upto(n), s # {} PROVE e[s \ {C[s]}] = g[s \ {C[s]}]
          BY <3>3, <3>4, <4>1
        <4>2. QED
          BY <4>1
      <3> HIDE DEF e, Upto
      <3>8. Good(n)
        BY <3>6, <3>7 DEF IsFold
      <3>9. QED
        BY <2>1, <3>8
    <2>4. QED
      BY <2>2, <2>3
  <1>3. Cardinality(U) \in Nat
    BY FS_CardinalityType
  <1>4. Good(Cardinality(U))
    BY <1>2, <1>3
  <1>5. Upto(Cardinality(U)) = SUBSET U
    BY FS_Subset
  <1> HIDE DEF Upto
  <1>6. QED
    BY <1>4, <1>5

\* The last and the first of numbers.
LEMMA MaxIn ==
  ASSUME NEW n \in Nat, NEW s \in SUBSET (1 .. n), s # {}
  PROVE  Max(s) \in s /\ \A k \in s : k <= Max(s)
  <1> DEFINE S == {m \in Nat : \A k \in s : k <= m}
  <1>1. PICK m \in S : m \in Nat /\ \A l \in S : ~ (l < m)
    <2>1. n \in S /\ S \subseteq Nat
      OBVIOUS
    <2> HIDE DEF S
    <2>2. S # {}
      BY <2>1
    <2>3. QED
      BY <2>1, <2>2, LeastOne
  <1>2. m \in s
    <2>1. SUFFICES ASSUME m \notin s PROVE FALSE
      OBVIOUS
    <2>2. m # 0
      <3>0. PICK k \in s : TRUE
        OBVIOUS
      <3>1. k \in Nat /\ k >= 1
        OBVIOUS
      <3>2. k <= m
        BY <1>1
      <3>3. QED
        BY <1>1, <3>1, <3>2
    <2>3. m - 1 \in S
      BY <1>1, <2>1, <2>2
    <2>4. QED
      BY <1>1, <2>2, <2>3
  <1>3. \E x \in s : \A y \in s : x >= y
    BY <1>1, <1>2
  <1>4. QED
    BY <1>3 DEF Max

\* The first of numbers is one of them.
LEMMA MinIn ==
  ASSUME NEW s, s \subseteq Nat, s # {}
  PROVE  Min(s) \in s /\ \A k \in s : Min(s) <= k
  <1>1. PICK m \in s : m \in Nat /\ \A l \in s : ~ (l < m)
    BY LeastOne
  <1>2. \E x \in s : \A y \in s : x =< y
    BY <1>1
  <1>3. QED
    BY <1>2 DEF Min

\* The last of the numbers up to m, without which they are those up to m - 1.
LEMMA MaxUpTo ==
  ASSUME NEW n \in Nat, NEW m \in 1 .. n
  PROVE  Max(1 .. m) = m /\ (1 .. m) \ {m} = 1 .. m - 1 /\ 1 .. m # {}
  <1>1. 1 .. m \in SUBSET (1 .. m) /\ m \in Nat /\ m \in 1 .. m
    OBVIOUS
  <1>2. Max(1 .. m) \in 1 .. m /\ m <= Max(1 .. m)
    BY <1>1, MaxIn
  <1>3. QED
    BY <1>1, <1>2

\* The first of the numbers from m on.
LEMMA MinFrom ==
  ASSUME NEW n \in Nat, NEW m \in 1 .. n
  PROVE  Min(m .. n) = m /\ (m .. n) \ {m} = m + 1 .. n /\ m .. n # {}
  <1>1. m .. n \subseteq Nat /\ m \in m .. n
    OBVIOUS
  <1>2. Min(m .. n) \in m .. n /\ Min(m .. n) <= m
    BY <1>1, MinIn
  <1>3. QED
    BY <1>1, <1>2

\* A step on values and places, and what it makes of a sequence of n places, from
\* the left or from the right.
Steps(F, V, n) == F \in [V \X (1 .. n) -> V]
FoldsLeft(F, V, b, n, g) ==
  /\ g \in [SUBSET (1 .. n) -> V]
  /\ g = [s \in SUBSET (1 .. n) |-> IF s = {} THEN b ELSE F[<<g[s \ {Max(s)}], Max(s)>>]]
FoldsRight(F, V, b, n, g) ==
  /\ g \in [SUBSET (1 .. n) -> V]
  /\ g = [s \in SUBSET (1 .. n) |-> IF s = {} THEN b ELSE F[<<g[s \ {Min(s)}], Min(s)>>]]

\* For each step there is its fold from the left.
LEMMA LeftFold ==
  ASSUME NEW n \in Nat, NEW V, NEW b \in V, NEW F, Steps(F, V, n)
  PROVE  \E g : FoldsLeft(F, V, b, n, g)
  <1> DEFINE C == [s \in SUBSET (1 .. n) |-> Max(s)]
  <1>1. \A s \in SUBSET (1 .. n) : C[s] = Max(s) /\ (s # {} => C[s] \in s)
    BY MaxIn
  <1>2. IsFiniteSet(1 .. n)
    BY FS_Interval
  <1>0. F \in [V \X (1 .. n) -> V]
    BY DEF Steps
  <1> HIDE DEF C
  <1>3. PICK g \in [SUBSET (1 .. n) -> V] : IsFold(F, C, b, SUBSET (1 .. n), g)
    BY <1>0, <1>1, <1>2, FoldExists
  <1>4. ASSUME NEW s \in SUBSET (1 .. n)
        PROVE  g[s] = IF s = {} THEN b ELSE F[<<g[s \ {Max(s)}], Max(s)>>]
    BY <1>1, <1>3, ZenonT(30) DEF IsFold
  <1>5. QED
    BY <1>4 DEF FoldsLeft

\* And from the right.
LEMMA RightFold ==
  ASSUME NEW n \in Nat, NEW V, NEW b \in V, NEW F, Steps(F, V, n)
  PROVE  \E g : FoldsRight(F, V, b, n, g)
  <1> DEFINE C == [s \in SUBSET (1 .. n) |-> Min(s)]
  <1>1. \A s \in SUBSET (1 .. n) : C[s] = Min(s) /\ (s # {} => C[s] \in s)
    <2>1. \A s \in SUBSET (1 .. n) : s \subseteq Nat
      OBVIOUS
    <2>2. QED
      BY <2>1, MinIn
  <1>2. IsFiniteSet(1 .. n)
    BY FS_Interval
  <1>0. F \in [V \X (1 .. n) -> V]
    BY DEF Steps
  <1> HIDE DEF C
  <1>3. PICK g \in [SUBSET (1 .. n) -> V] : IsFold(F, C, b, SUBSET (1 .. n), g)
    BY <1>0, <1>1, <1>2, FoldExists
  <1>4. ASSUME NEW s \in SUBSET (1 .. n)
        PROVE  g[s] = IF s = {} THEN b ELSE F[<<g[s \ {Min(s)}], Min(s)>>]
    BY <1>1, <1>3 DEF IsFold
  <1>5. QED
    BY <1>4 DEF FoldsRight

-----------------------------------------------------------------------------

\* One sequence behind another.
LEMMA Behind ==
  ASSUME NEW S, NEW s \in Seq(S), NEW t \in Seq(S)
  PROVE  /\ s \o t \in Seq(S) /\ Len(s) \in Nat /\ Len(t) \in Nat
         /\ Len(s \o t) = Len(s) + Len(t)
         /\ \A i \in 1 .. Len(s) : (s \o t)[i] = s[i]
         /\ \A i \in 1 .. Len(t) : (s \o t)[Len(s) + i] = t[i]
  OBVIOUS

\* The sequences that come of the first sequences of seqs.
Flattening(S, seqs, g) ==
  /\ seqs \in Seq(Seq(S)) /\ g \in [0 .. Len(seqs) -> Seq(S)]
  /\ g[0] = <<>>
  /\ \A k \in 0 .. Len(seqs) - 1 : g[k + 1] = g[k] \o seqs[k + 1]

\* FlattenSeq() takes one after the other.
LEMMA Flattens ==
  ASSUME NEW S, NEW seqs \in Seq(Seq(S))
  PROVE  \E g : Flattening(S, seqs, g) /\ FlattenSeq(seqs) = g[Len(seqs)]
  <1> DEFINE n == Len(seqs)
             G(m, f) == [i \in 1 .. m |-> IF i = 1 THEN seqs[i] ELSE f[i - 1] \o seqs[i]]
             There == {m \in Nat : \E f \in [1 .. m -> Seq(S)] : f = G(m, f)}
  <1>1. n \in Nat /\ \A k \in 1 .. n : seqs[k] \in Seq(S)
    OBVIOUS
  <1>2. 0 \in There
    <2> DEFINE f == [i \in 1 .. 0 |-> <<>>]
    <2>1. f \in [1 .. 0 -> Seq(S)] /\ f = G(0, f)
      OBVIOUS
    <2>2. QED
      BY <2>1
  <1>3. ASSUME NEW m \in 0 .. n - 1, m \in There PROVE m + 1 \in There
    <2>1. PICK f \in [1 .. m -> Seq(S)] : f = G(m, f)
      BY <1>3
    <2> DEFINE last == IF m = 0 THEN seqs[1] ELSE f[m] \o seqs[m + 1]
               e == [i \in 1 .. m + 1 |-> IF i = m + 1 THEN last ELSE f[i]]
    <2>2. m \in Nat /\ m + 1 \in 1 .. n /\ seqs[m + 1] \in Seq(S) /\ (m # 0 => m \in 1 .. m /\ f[m] \in Seq(S))
      BY <1>1, <2>1
    <2>3. last \in Seq(S)
      <3>1. m = 0 => last = seqs[m + 1]
        OBVIOUS
      <3>2. QED
        BY <2>2, <3>1
    <2>4. ASSUME NEW i \in 1 .. m + 1
          PROVE  /\ e[i] \in Seq(S)
                 /\ e[i] = IF i = 1 THEN seqs[i] ELSE e[i - 1] \o seqs[i]
      <3>1. CASE i = m + 1
        <4>1. e[i] = last
          BY <3>1
        <4>2. i = 1 <=> m = 0
          BY <2>2, <3>1
        <4>3. i # 1 => e[i - 1] = f[m]
          BY <2>2, <3>1, <4>2
        <4> HIDE DEF e
        <4>4. QED
          BY <2>2, <2>3, <3>1, <4>1, <4>2, <4>3
      <3>2. CASE i # m + 1
        <4>1. i \in 1 .. m /\ e[i] = f[i] /\ (i # 1 => e[i - 1] = f[i - 1])
          BY <2>2, <3>2
        <4>2. f[i] = IF i = 1 THEN seqs[i] ELSE f[i - 1] \o seqs[i]
          BY <2>1, <4>1
        <4> HIDE DEF e
        <4>3. QED
          BY <2>1, <4>1, <4>2
      <3>3. QED
        BY <3>1, <3>2
    <2>5. e = [i \in 1 .. m + 1 |-> e[i]]
      OBVIOUS
    <2> HIDE DEF e
    <2>6. e \in [1 .. m + 1 -> Seq(S)] /\ e = G(m + 1, e)
      BY <2>4, <2>5
    <2>7. m + 1 \in Nat
      BY <2>2
    <2> HIDE DEF G
    <2>8. QED
      BY <2>6, <2>7
  <1>4. n \in There
    <2> HIDE DEF There
    <2>1. \A k \in 0 .. n : k \in There
      BY <1>1, <1>2, <1>3, CountUp
    <2>2. QED
      BY <1>1, <2>1
  <1> DEFINE f == CHOOSE h : h = G(n, h)
  <1>5. f = G(n, f)
    <2> HIDE DEF G
    <2>1. \E h : h = G(n, h)
      BY <1>4
    <2>2. QED
      BY <2>1
  <1> DEFINE g == [k \in 0 .. n |-> IF k = 0 THEN <<>> ELSE f[k]]
  <1>6. FlattenSeq(seqs) = g[n]
    <2>1. CASE n = 0
      <3>1. FlattenSeq(seqs) = seqs /\ seqs = <<>>
        BY <2>1, SMTT(30) DEF FlattenSeq
      <3>2. QED
        BY <2>1, <3>1
    <2>2. CASE n # 0
      <3>1. FlattenSeq(seqs) = f[n]
        BY <2>2 DEF FlattenSeq
      <3>2. g[n] = f[n]
        BY <1>1, <2>2, SMTT(30)
      <3>3. QED
        BY <3>1, <3>2
    <2>3. QED
      BY <2>1, <2>2
  <1>7. ASSUME NEW k \in 0 .. n - 1 PROVE g[k + 1] = g[k] \o seqs[k + 1]
    <2>1. k + 1 \in 1 .. n /\ k + 1 # 0 /\ g[k + 1] = f[k + 1] /\ k + 1 - 1 = k
      BY <1>1
    <2>2. f[k + 1] = IF k + 1 = 1 THEN seqs[k + 1] ELSE f[k + 1 - 1] \o seqs[k + 1]
      <3> DEFINE i == k + 1
      <3>1. i \in 1 .. n
        BY <2>1
      <3> HIDE DEF i, f
      <3>2. f[i] = IF i = 1 THEN seqs[i] ELSE f[i - 1] \o seqs[i]
        BY <1>5, <3>1
      <3>3. QED
        BY <3>2 DEF i
    <2>3. CASE k = 0
      <3>1. g[k] = <<>> /\ seqs[k + 1] \in Seq(S) /\ f[k + 1] = seqs[k + 1]
        BY <1>1, <2>1, <2>2, <2>3
      <3> HIDE DEF g, f
      <3>2. QED
        BY <2>1, <3>1
    <2>4. CASE k # 0
      <3>1. g[k] = f[k] /\ k + 1 # 1
        BY <1>1, <2>4
      <3> HIDE DEF g, f
      <3>2. QED
        BY <2>1, <2>2, <3>1
    <2>5. QED
      BY <2>3, <2>4
  <1>8. g[0] = <<>>
    BY <1>1
  <1>9. \A k \in 0 .. n : g[k] \in Seq(S)
    <2> DEFINE T == {k \in Nat : g[k] \in Seq(S)}
    <2>1. 0 \in T
      BY <1>8
    <2>2. ASSUME NEW k \in 0 .. n - 1, k \in T PROVE k + 1 \in T
      <3>1. g[k] \in Seq(S) /\ seqs[k + 1] \in Seq(S) /\ k + 1 \in Nat
        BY <1>1, <2>2, SMTT(30)
      <3>2. g[k + 1] = g[k] \o seqs[k + 1]
        BY <1>7
      <3>3. g[k + 1] \in Seq(S)
        <4> HIDE DEF g
        <4>1. QED
          BY <3>1, <3>2, Behind
      <3>4. QED
        BY <3>1, <3>3
    <2> HIDE DEF T, g
    <2>3. \A k \in 0 .. n : k \in T
      BY <1>1, <2>1, <2>2, CountUp
    <2>4. QED
      BY <2>3 DEF T
  <1>10. g = [k \in 0 .. n |-> g[k]]
    OBVIOUS
  <1> HIDE DEF g
  <1>11. g \in [0 .. n -> Seq(S)]
    BY <1>9, <1>10
  <1>12. Flattening(S, seqs, g)
    BY <1>7, <1>11, <1>8 DEF Flattening
  <1>13. QED
    BY <1>6, <1>11, <1>12

\* Where the sequence behind the first k lies in what comes of the first e.
Lies(seqs, g, k, e) ==
  /\ Len(g[k]) \in Nat /\ Len(seqs[k + 1]) \in Nat /\ Len(g[e]) \in Nat
  /\ Len(g[k + 1]) = Len(g[k]) + Len(seqs[k + 1])
  /\ Len(g[k + 1]) <= Len(g[e])
  /\ \A i \in 1 .. Len(seqs[k + 1]) : g[e][Len(g[k]) + i] = seqs[k + 1][i]

\* Each of the sequences is there.
LEMMA Flattened ==
  ASSUME NEW S, NEW seqs, NEW g, Flattening(S, seqs, g),
         NEW k \in 0 .. Len(seqs) - 1, NEW e \in k + 1 .. Len(seqs)
  PROVE  Lies(seqs, g, k, e)
  <1> DEFINE n == Len(seqs)
             a == Len(g[k])
             w == Len(seqs[k + 1])
             Reaches(m) == /\ a + w <= Len(g[m])
                           /\ \A i \in 1 .. w : g[m][a + i] = seqs[k + 1][i]
             T == {j \in Nat : k + 1 + j <= n => Reaches(k + 1 + j)}
  <1>a. seqs \in Seq(Seq(S))
    BY DEF Flattening
  <1>1. n \in Nat /\ k \in Nat /\ k + 1 \in 1 .. n /\ k \in 0 .. n
    BY <1>a
  <1>0. \A j \in 1 .. n : seqs[j] \in Seq(S)
    BY <1>a
  <1>2. g[k] \in Seq(S) /\ seqs[k + 1] \in Seq(S)
    <2> HIDE DEF n
    <2>1. QED
      BY <1>0, <1>1 DEF n, Flattening
  <1>3. g[k + 1] = g[k] \o seqs[k + 1]
    BY <1>1 DEF Flattening
  <1>4. Len(g[k + 1]) = a + w /\ Reaches(k + 1) /\ a \in Nat /\ w \in Nat
    <2> DEFINE s == g[k]
               t == seqs[k + 1]
    <2> HIDE DEF s, t
    <2>0. s \in Seq(S) /\ t \in Seq(S)
      BY <1>2 DEF s, t
    <2>1. /\ Len(s) \in Nat /\ Len(t) \in Nat /\ Len(s \o t) = Len(s) + Len(t)
          /\ \A i \in 1 .. Len(t) : (s \o t)[Len(s) + i] = t[i]
      BY <2>0, Behind
    <2>2. Len(s) + Len(t) <= Len(s) + Len(t)
      BY <2>1
    <2>3. QED
      BY <1>3, <2>1, <2>2 DEF s, t
  <1> HIDE DEF Reaches
  <1>5. 0 \in T
    <2>1. k + 1 + 0 = k + 1
      BY <1>1
    <2>2. QED
      BY <1>4, <2>1
  <1>6. ASSUME NEW j \in 0 .. n - 1, j \in T PROVE j + 1 \in T
    <2>1. ASSUME k + 1 + (j + 1) <= n PROVE Reaches(k + 1 + (j + 1))
      <3> DEFINE m == k + 1 + j
      <3>2. m \in 0 .. n - 1 /\ m + 1 \in 1 .. n /\ k + 1 + (j + 1) = m + 1 /\ m \in 0 .. n /\ m <= n
        BY <1>1, <2>1
      <3>3. Reaches(m)
        BY <1>6, <3>2
      <3> HIDE DEF m
      <3>4. g[m + 1] = g[m] \o seqs[m + 1] /\ g[m] \in Seq(S) /\ seqs[m + 1] \in Seq(S)
        <4> HIDE DEF n
        <4>1. QED
          BY <1>0, <3>2 DEF Flattening, n
      <3> DEFINE s == g[m]
                 t == seqs[m + 1]
      <3> HIDE DEF s, t, a, w
      <3>0. s \in Seq(S) /\ t \in Seq(S) /\ a \in Nat /\ w \in Nat
        BY <1>4, <3>4 DEF s, t
      <3>5. /\ Len(s) \in Nat /\ Len(t) \in Nat /\ Len(s \o t) = Len(s) + Len(t)
            /\ \A i \in 1 .. Len(s) : (s \o t)[i] = s[i]
        BY <3>0, Behind
      <3>6. a + w <= Len(s) /\ \A i \in 1 .. w : s[a + i] = seqs[k + 1][i]
        BY <3>3 DEF Reaches, s, a, w
      <3>7. a + w <= Len(s \o t)
        BY <3>0, <3>5, <3>6
      <3>8. ASSUME NEW i \in 1 .. w PROVE (s \o t)[a + i] = seqs[k + 1][i]
        <4>1. a + i \in 1 .. Len(s)
          BY <3>0, <3>5, <3>6
        <4>2. QED
          BY <3>5, <3>6, <4>1
      <3>9. Reaches(m + 1)
        BY <3>4, <3>7, <3>8 DEF Reaches, s, t, a, w
      <3>10. QED
        BY <3>2, <3>9
    <2>2. j + 1 \in Nat
      BY <1>1
    <2>3. QED
      BY <2>1, <2>2
  <1>7. \A j \in 0 .. n : j \in T
    <2> HIDE DEF T
    <2>1. QED
      BY <1>1, <1>5, <1>6, CountUp
  <1>8. ASSUME NEW m \in k + 1 .. n PROVE Reaches(m)
    <2> DEFINE j == m - (k + 1)
    <2>1. j \in 0 .. n /\ k + 1 + j = m /\ m <= n
      BY <1>1
    <2> HIDE DEF j
    <2>2. QED
      BY <1>7, <2>1
  <1>9. Len(g[e]) \in Nat
    <2>1. e \in 0 .. n
      BY <1>1
    <2>2. g[e] \in Seq(S)
      BY <2>1 DEF Flattening
    <2>3. QED
      BY <2>2
  <1>10. QED
    BY <1>4, <1>8, <1>9 DEF Reaches, Lies

\* The first of the sequences, flattened.
LEMMA FlattenFirst ==
  ASSUME NEW S, NEW seqs, NEW g, Flattening(S, seqs, g),
         NEW k \in 0 .. Len(seqs)
  PROVE  FlattenSeq([i \in 1 .. k |-> seqs[i]]) = g[k]
  <1> DEFINE n == Len(seqs)
             first == [i \in 1 .. k |-> seqs[i]]
  <1>1. n \in Nat /\ k \in Nat /\ \A j \in 1 .. n : seqs[j] \in Seq(S)
    <2>1. seqs \in Seq(Seq(S))
      BY DEF Flattening
    <2>2. QED
      BY <2>1
  <1>2. first \in Seq(Seq(S)) /\ Len(first) = k /\ \A j \in 1 .. k : first[j] = seqs[j]
    BY <1>1
  <1> HIDE DEF first
  <1>3. PICK h : Flattening(S, first, h) /\ FlattenSeq(first) = h[k]
    BY <1>2, Flattens
  <1> DEFINE T == {j \in Nat : h[j] = g[j]}
  <1>4. 0 \in T
    BY <1>3 DEF Flattening
  <1>5. ASSUME NEW j \in 0 .. k - 1, j \in T PROVE j + 1 \in T
    <2>1. h[j + 1] = h[j] \o first[j + 1]
      BY <1>2, <1>3 DEF Flattening
    <2>2. j \in 0 .. n - 1 /\ j + 1 \in 1 .. k /\ j + 1 \in Nat
      BY <1>1
    <2>3. g[j + 1] = g[j] \o seqs[j + 1] /\ first[j + 1] = seqs[j + 1]
      BY <1>2, <2>2 DEF Flattening
    <2>4. QED
      BY <1>5, <2>1, <2>2, <2>3
  <1> HIDE DEF T
  <1>6. \A j \in 0 .. k : j \in T
    BY <1>1, <1>4, <1>5, CountUp
  <1>7. k \in T
    BY <1>1, <1>6
  <1>8. QED
    BY <1>3, <1>7 DEF T, first

-----------------------------------------------------------------------------
(* The table of abbreviations.                                             *)

\* The abbreviations of a unit, with their codes.
Coded(ab) ==
  /\ ab \in Seq(Abbreviation)
  /\ \A j \in DOMAIN ab : \A k \in 1 .. j - 1 : ab[k].code # ab[j].code

\* Chains of entries, and what is in the chain that its code leads to.
Slotted(slots, m, ab) == m \in Nat \ {0} /\ slots \in [1 .. m -> Seq(DOMAIN ab)]
HeldIn(slots, ab, q) ==
  \E i \in DOMAIN slots[SlotOf(slots, ab[q].code)] : slots[SlotOf(slots, ab[q].code)][i] = q

\* A table, and the place where the reading goes on: what was read before it is
\* in the table.
TableFor(t, last, ab) ==
  /\ last \in 1 .. Len(ab) + 1
  /\ t = [slots |-> t.slots, total |-> t.total] /\ t.total \in Nat
  /\ \/ t.slots = NoSlots /\ last = 1
     \/ /\ \E m : Slotted(t.slots, m, ab)
        /\ \A q \in 1 .. last - 1 : HeldIn(t.slots, ab, q)

\* What is assumed of the abbreviations: no two have the same code.
LEMMA CodesDiffer ==
  ASSUME NEW ab, Coded(ab)
  PROVE  /\ Len(ab) \in Nat /\ DOMAIN ab = 1 .. Len(ab)
         /\ \A q \in DOMAIN ab : ab[q].code \in Nat /\ ab[q].damage \in {"none", "early", "late"}
         /\ \A p, q \in DOMAIN ab : ab[p].code = ab[q].code => p = q
  <1>1. ab \in Seq(Abbreviation) /\ Len(ab) \in Nat /\ DOMAIN ab = 1 .. Len(ab)
    BY DEF Coded
  <1>2. ASSUME NEW q \in DOMAIN ab PROVE ab[q].code \in Nat /\ ab[q].damage \in {"none", "early", "late"}
    <2>1. ab[q] \in Abbreviation
      BY <1>1
    <2>2. QED
      BY <2>1 DEF Abbreviation
  <1>3. ASSUME NEW p \in DOMAIN ab, NEW q \in DOMAIN ab, ab[p].code = ab[q].code PROVE p = q
    <2>1. p \in 1 .. q - 1 \/ q \in 1 .. p - 1 \/ p = q
      BY <1>1
    <2>2. QED
      BY <1>3, <2>1 DEF Coded
  <1>4. QED
    BY <1>1, <1>2, <1>3

\* The chain that a code leads to.
LEMMA SlotThere ==
  ASSUME NEW slots, NEW m, NEW ab, Slotted(slots, m, ab), NEW code \in Nat
  PROVE  /\ Len(slots) = m /\ SlotOf(slots, code) \in 1 .. m
         /\ slots[SlotOf(slots, code)] \in Seq(DOMAIN ab)
  <1>1. m \in Nat /\ m > 0 /\ slots \in [1 .. m -> Seq(DOMAIN ab)]
    BY DEF Slotted
  <1>2. slots \in Seq(Seq(DOMAIN ab)) /\ Len(slots) = m
    BY <1>1
  <1>3. code % m \in 0 .. m - 1
    BY <1>1
  <1>4. SlotOf(slots, code) \in 1 .. m
    BY <1>1, <1>2, <1>3 DEF SlotOf
  <1>5. QED
    BY <1>1, <1>2, <1>4

\* An entry is put in front of those with the same slot.
LEMMA PushedHolds ==
  ASSUME NEW ab, Coded(ab), NEW m, NEW slots, Slotted(slots, m, ab), NEW q \in DOMAIN ab
  PROVE  /\ Slotted(Pushed(slots, ab, q), m, ab)
         /\ HeldIn(Pushed(slots, ab, q), ab, q)
         /\ \A r \in DOMAIN ab : HeldIn(slots, ab, r) => HeldIn(Pushed(slots, ab, q), ab, r)
  <1> DEFINE D == DOMAIN ab
             at1 == SlotOf(slots, ab[q].code)
             chain == slots[at1]
             new1 == Pushed(slots, ab, q)
  <1>1. m \in Nat /\ slots \in [1 .. m -> Seq(D)] /\ ab[q].code \in Nat
    BY CodesDiffer DEF Slotted
  <1>2. Len(slots) = m /\ at1 \in 1 .. m /\ chain \in Seq(D)
    BY <1>1, SlotThere
  <1> DEFINE longer == <<q>> \o chain
  <1>3. <<q>> \in Seq(D) /\ Len(<<q>>) = 1 /\ <<q>>[1] = q
    OBVIOUS
  <1>4. /\ longer \in Seq(D) /\ Len(longer) = 1 + Len(chain) /\ longer[1] = q /\ Len(chain) \in Nat
        /\ \A i \in 1 .. Len(chain) : longer[1 + i] = chain[i]
    <2> HIDE DEF chain, D
    <2> DEFINE one == <<q>>
    <2>1. one \in Seq(D) /\ chain \in Seq(D) /\ Len(one) = 1 /\ one[1] = q
      BY <1>2, <1>3
    <2> HIDE DEF one
    <2>2. /\ one \o chain \in Seq(D) /\ Len(chain) \in Nat
          /\ Len(one \o chain) = Len(one) + Len(chain)
          /\ \A i \in 1 .. Len(one) : (one \o chain)[i] = one[i]
          /\ \A i \in 1 .. Len(chain) : (one \o chain)[Len(one) + i] = chain[i]
      BY <2>1, Behind, SMTT(30)
    <2>3. QED
      BY <2>1, <2>2 DEF one
  <1>5. new1 = [slots EXCEPT ![at1] = longer]
    BY DEF Pushed
  <1> HIDE DEF longer, chain, at1, new1, D
  <1>6. /\ new1 \in [1 .. m -> Seq(D)] /\ new1[at1] = longer
        /\ \A i \in 1 .. m : i # at1 => new1[i] = slots[i]
    BY <1>1, <1>2, <1>4, <1>5
  <1>7. Slotted(new1, m, ab)
    BY <1>6 DEF Slotted, D
  <1>8. ASSUME NEW r \in D
        PROVE  SlotOf(new1, ab[r].code) = SlotOf(slots, ab[r].code) /\ SlotOf(slots, ab[r].code) \in 1 .. m
    <2>1. ab[r].code \in Nat
      BY CodesDiffer DEF D
    <2>2. Len(new1) = m /\ Len(slots) = m /\ SlotOf(slots, ab[r].code) \in 1 .. m
      BY <1>7, <2>1, SlotThere
    <2>3. QED
      BY <2>2 DEF SlotOf
  <1>9. HeldIn(new1, ab, q)
    <2>1. SlotOf(new1, ab[q].code) = at1
      BY <1>8 DEF at1, D
    <2>2. 1 \in DOMAIN longer
      BY <1>4
    <2>3. QED
      BY <1>4, <1>6, <2>1, <2>2 DEF HeldIn
  <1>10. ASSUME NEW r \in D, HeldIn(slots, ab, r) PROVE HeldIn(new1, ab, r)
    <2> DEFINE s == SlotOf(slots, ab[r].code)
    <2>1. SlotOf(new1, ab[r].code) = s /\ s \in 1 .. m
      BY <1>8
    <2>2. PICK i \in DOMAIN slots[s] : slots[s][i] = r
      BY <1>10 DEF HeldIn
    <2> HIDE DEF s
    <2>3. CASE s # at1
      <3>1. new1[s] = slots[s]
        BY <1>6, <2>1, <2>3
      <3>2. QED
        BY <2>1, <2>2, <3>1 DEF HeldIn
    <2>4. CASE s = at1
      <3>1. i \in 1 .. Len(chain) /\ chain[i] = r
        BY <1>2, <2>2, <2>4 DEF chain
      <3>2. 1 + i \in DOMAIN longer /\ longer[1 + i] = r
        BY <1>4, <3>1
      <3>3. QED
        BY <1>6, <2>1, <2>4, <3>2 DEF HeldIn
    <2>5. QED
      BY <2>3, <2>4
  <1>11. QED
    BY <1>7, <1>9, <1>10 DEF new1, D

\* The tables with m slots.
TablesOf(m, ab) == [slots : [1 .. m -> Seq(DOMAIN ab)], total : Nat]

\* Such a table is one of slots, with a total.
LEMMA TableTyped ==
  ASSUME NEW m \in Nat \ {0}, NEW ab, NEW t
  PROVE  t \in TablesOf(m, ab) <=>
           t = [slots |-> t.slots, total |-> t.total] /\ t.total \in Nat /\ Slotted(t.slots, m, ab)
  BY DEF TablesOf, Slotted

\* An entry that is added is held then, and the others stay held.
LEMMA AddedTyped ==
  ASSUME NEW ab, Coded(ab), NEW m \in Nat \ {0}, NEW t \in TablesOf(m, ab), NEW q \in DOMAIN ab
  PROVE  /\ Added(t, ab, q) \in TablesOf(m, ab)
         /\ Added(t, ab, q).slots = Pushed(t.slots, ab, q)
         /\ HeldIn(Added(t, ab, q).slots, ab, q)
         /\ \A r \in DOMAIN ab : HeldIn(t.slots, ab, r) => HeldIn(Added(t, ab, q).slots, ab, r)
  <1>1. Slotted(t.slots, m, ab) /\ t.total \in Nat
    BY TableTyped
  <1>2. /\ Slotted(Pushed(t.slots, ab, q), m, ab) /\ HeldIn(Pushed(t.slots, ab, q), ab, q)
        /\ \A r \in DOMAIN ab : HeldIn(t.slots, ab, r) => HeldIn(Pushed(t.slots, ab, q), ab, r)
    BY <1>1, PushedHolds
  <1>3. Added(t, ab, q).slots = Pushed(t.slots, ab, q) /\ Added(t, ab, q).total \in Nat
    BY <1>1 DEF Added
  <1>4. Added(t, ab, q) = [slots |-> Added(t, ab, q).slots, total |-> Added(t, ab, q).total]
    BY DEF Added
  <1>5. QED
    BY <1>2, <1>3, <1>4, TableTyped

\* Reading from p to q adds these entries and keeps the others.
LEMMA AddedAllTyped ==
  ASSUME NEW ab, Coded(ab), NEW m \in Nat \ {0}, NEW t \in TablesOf(m, ab),
         NEW p \in 1 .. Len(ab) + 1, NEW q \in p - 1 .. Len(ab)
  PROVE  /\ AddedAll(t, ab, p, q) \in TablesOf(m, ab)
         /\ \A r \in DOMAIN ab :
              HeldIn(t.slots, ab, r) \/ r \in p .. q => HeldIn(AddedAll(t, ab, p, q).slots, ab, r)
  <1> DEFINE n == q - p + 1
             V == TablesOf(m, ab)
             places == [k \in 1 .. n |-> p + k - 1]
             Step(u, k) == Added(u, ab, places[k])
             G(f) == [s \in SUBSET (1 .. n) |-> IF s = {} THEN t ELSE Step(f[s \ {Max(s)}], Max(s))]
             F == [x \in V \X (1 .. n) |-> Step(x[1], x[2])]
             c == CHOOSE f : f = G(f)
  <1>1. n \in Nat /\ Len(ab) \in Nat /\ DOMAIN ab = 1 .. Len(ab) /\ p \in Nat /\ q \in Int
    BY CodesDiffer
  <1>2. \A k \in 1 .. n : places[k] = p + k - 1 /\ places[k] \in DOMAIN ab
    BY <1>1
  <1>3. AddedAll(t, ab, p, q) = c[1 .. n]
    <2>1. DOMAIN places = 1 .. n
      OBVIOUS
    <2>2. AddedAll(t, ab, p, q) =
            (CHOOSE f : f = [s \in SUBSET (DOMAIN places) |->
               IF s = {} THEN t ELSE Added(f[s \ {Max(s)}], ab, places[Max(s)])])[DOMAIN places]
      BY DEF AddedAll, FoldLeft, MapThenFoldSet
    <2> HIDE DEF places
    <2>3. QED
      BY <2>1, <2>2
  <1> HIDE DEF places
  <1>4. \A u \in V, k \in 1 .. n : Step(u, k) \in V
    BY <1>2, AddedTyped
  <1> HIDE DEF V, Step, n
  <1>5. Steps(F, V, n)
    BY <1>4 DEF Steps
  <1>6. t \in V
    BY DEF V
  <1>7. \E g : g = G(g)
    <2> HIDE DEF F
    <2>1. PICK g : FoldsLeft(F, V, t, n, g)
      BY <1>1, <1>5, <1>6, LeftFold
    <2>2. ASSUME NEW s \in SUBSET (1 .. n), s # {}
          PROVE  F[<<g[s \ {Max(s)}], Max(s)>>] = Step(g[s \ {Max(s)}], Max(s))
      <3>1. Max(s) \in 1 .. n /\ g[s \ {Max(s)}] \in V
        BY <1>1, <2>1, <2>2, MaxIn DEF FoldsLeft
      <3>2. QED
        BY <3>1 DEF F
    <2>3. g = G(g)
      BY <2>1, <2>2 DEF FoldsLeft
    <2>4. QED
      BY <2>3
  <1>8. c = G(c)
    <2> HIDE DEF G
    <2>1. QED
      BY <1>7
  <1>9. c[1 .. 0] = t /\ \A k \in 0 .. n - 1 : c[1 .. k + 1] = Step(c[1 .. k], k + 1)
    <2> HIDE DEF c
    <2>1. 1 .. 0 = {}
      OBVIOUS
    <2>2. c[{}] = t
      BY <1>8
    <2>3. ASSUME NEW k \in 0 .. n - 1 PROVE c[1 .. k + 1] = Step(c[1 .. k], k + 1)
      <3> DEFINE j == k + 1
      <3>1. j \in 1 .. n /\ j - 1 = k
        BY <1>1
      <3> HIDE DEF j
      <3>2. Max(1 .. j) = j /\ (1 .. j) \ {j} = 1 .. j - 1 /\ 1 .. j # {} /\ 1 .. j \in SUBSET (1 .. n)
        BY <1>1, <3>1, MaxUpTo
      <3>3. c[1 .. j] = Step(c[1 .. j - 1], j)
        BY <1>8, <3>2
      <3>4. QED
        BY <3>1, <3>3 DEF j
    <2>4. QED
      BY <2>1, <2>2, <2>3
  <1> HIDE DEF c, G, F
  <1> DEFINE Good(k) == /\ c[1 .. k] \in TablesOf(m, ab)
                        /\ \A r \in DOMAIN ab :
                             HeldIn(t.slots, ab, r) \/ r \in p .. p + k - 1 => HeldIn(c[1 .. k].slots, ab, r)
             T == {k \in Nat : Good(k)}
  <1>10. 0 \in T
    <2>1. p .. p + 0 - 1 = {}
      BY <1>1
    <2>2. QED
      BY <1>6, <1>9, <2>1
  <1>11. ASSUME NEW k \in 0 .. n - 1, k \in T PROVE k + 1 \in T
    <2> DEFINE d == places[k + 1]
    <2>1. d = p + k /\ d \in DOMAIN ab /\ k \in Nat
      <3>1. k + 1 \in 1 .. n /\ k \in Nat
        BY <1>1
      <3>2. QED
        BY <1>1, <1>2, <3>1
    <2>2. c[1 .. k + 1] = Added(c[1 .. k], ab, d)
      BY <1>9 DEF Step
    <2>3. c[1 .. k] \in TablesOf(m, ab)
      BY <1>11
    <2> DEFINE u == c[1 .. k]
    <2> HIDE DEF d, u
    <2>4. /\ Added(u, ab, d) \in TablesOf(m, ab) /\ HeldIn(Added(u, ab, d).slots, ab, d)
          /\ \A r \in DOMAIN ab : HeldIn(u.slots, ab, r) => HeldIn(Added(u, ab, d).slots, ab, r)
      BY <2>1, <2>3, AddedTyped DEF u
    <2>5. ASSUME NEW r \in DOMAIN ab, HeldIn(t.slots, ab, r) \/ r \in p .. p + (k + 1) - 1
          PROVE  HeldIn(Added(u, ab, d).slots, ab, r)
      <3>1. r = d \/ HeldIn(t.slots, ab, r) \/ r \in p .. p + k - 1
        BY <1>1, <2>1, <2>5
      <3>2. HeldIn(t.slots, ab, r) \/ r \in p .. p + k - 1 => HeldIn(u.slots, ab, r)
        BY <1>11 DEF u
      <3>3. QED
        BY <2>4, <3>1, <3>2
    <2>6. Good(k + 1)
      BY <2>2, <2>4, <2>5 DEF u
    <2>7. QED
      BY <2>1, <2>6
  <1>12. n \in T
    <2> HIDE DEF T
    <2>1. \A k \in 0 .. n : k \in T
      BY <1>1, <1>10, <1>11, CountUp
    <2>2. QED
      BY <1>1, <2>1
  <1>13. p .. p + n - 1 = p .. q
    BY <1>1 DEF n
  <1>14. QED
    BY <1>3, <1>12, <1>13

\* Entries that are put into more slots are found there.
LEMMA RehashedTyped ==
  ASSUME NEW ab, Coded(ab), NEW m \in Nat \ {0}, NEW t \in TablesOf(m, ab), t.total # 0
  PROVE  /\ Rehashed(t, ab) \in TablesOf(t.total, ab)
         /\ \A r \in DOMAIN ab : HeldIn(t.slots, ab, r) => HeldIn(Rehashed(t, ab).slots, ab, r)
  <1> DEFINE D == DOMAIN ab
             entries == FlattenSeq(t.slots)
             n == Len(entries)
             w == t.total
             V == [1 .. w -> Seq(D)]
             Step(u, k) == Pushed(u, ab, entries[k])
             b == EmptySlots(w)
             G(f) == [s \in SUBSET (1 .. n) |-> IF s = {} THEN b ELSE Step(f[s \ {Max(s)}], Max(s))]
             F == [x \in V \X (1 .. n) |-> Step(x[1], x[2])]
             c == CHOOSE f : f = G(f)
  <1>1. w \in Nat \ {0} /\ Slotted(t.slots, m, ab) /\ t.slots \in Seq(Seq(D)) /\ Len(t.slots) = m
    BY TableTyped DEF Slotted
  <1>2. PICK g : Flattening(D, t.slots, g) /\ entries = g[Len(t.slots)]
    BY <1>1, Flattens
  <1>3. entries \in Seq(D) /\ n \in Nat /\ DOMAIN entries = 1 .. n /\ \A k \in 1 .. n : entries[k] \in D
    <2>1. entries \in Seq(D)
      BY <1>1, <1>2 DEF Flattening
    <2> HIDE DEF entries
    <2>2. QED
      BY <2>1
  <1>4. ASSUME NEW r \in D, HeldIn(t.slots, ab, r) PROVE \E k \in 1 .. n : entries[k] = r
    <2> DEFINE s == SlotOf(t.slots, ab[r].code)
    <2>1. s \in 1 .. m /\ t.slots[s] \in Seq(D)
      <3>1. ab[r].code \in Nat
        BY CodesDiffer
      <3>2. QED
        BY <1>1, <3>1, SlotThere
    <2>2. PICK i \in DOMAIN t.slots[s] : t.slots[s][i] = r
      BY <1>4 DEF HeldIn
    <2> HIDE DEF s
    <2> DEFINE k == s - 1
    <2>3. k \in 0 .. Len(t.slots) - 1 /\ k + 1 = s /\ Len(t.slots) \in k + 1 .. Len(t.slots)
      BY <1>1, <2>1
    <2> HIDE DEF k, entries, n
    <2> DEFINE seqs == t.slots
               L == Len(seqs)
    <2>4. seqs \in Seq(Seq(D)) /\ Flattening(D, seqs, g) /\ k \in 0 .. L - 1 /\ L \in k + 1 .. L
      BY <1>1, <1>2, <2>3
    <2> HIDE DEF seqs, D
    <2>5. /\ Len(g[k]) \in Nat /\ Len(seqs[k + 1]) \in Nat
          /\ Len(g[k + 1]) = Len(g[k]) + Len(seqs[k + 1])
          /\ Len(g[k + 1]) <= Len(g[L])
          /\ \A j \in 1 .. Len(seqs[k + 1]) : g[L][Len(g[k]) + j] = seqs[k + 1][j]
      <3>1. Lies(seqs, g, k, L)
        BY <2>4, Flattened
      <3>2. QED
        BY <3>1 DEF Lies
    <2> DEFINE a == Len(g[k])
               x == seqs[k + 1]
    <2>6. i \in 1 .. Len(x) /\ x[i] = r
      BY <2>1, <2>2, <2>3 DEF seqs
    <2> HIDE DEF a, x
    <2>7. a \in Nat /\ Len(x) \in Nat /\ a + Len(x) <= Len(entries) /\ entries[a + i] = x[i]
      BY <1>2, <2>5, <2>6 DEF a, x, seqs
    <2>8. a + i \in 1 .. n
      BY <1>3, <2>6, <2>7 DEF n
    <2>9. QED
      BY <2>6, <2>7, <2>8
  <1>5. Rehashed(t, ab) = [slots |-> c[1 .. n], total |-> n]
    <2>1. Rehashed(t, ab).slots =
            (CHOOSE f : f = [s \in SUBSET (DOMAIN entries) |->
               IF s = {} THEN b ELSE Pushed(f[s \ {Max(s)}], ab, entries[Max(s)])])[DOMAIN entries]
      BY DEF Rehashed, FoldLeft, MapThenFoldSet
    <2>2. Rehashed(t, ab) = [slots |-> Rehashed(t, ab).slots, total |-> n]
      BY DEF Rehashed
    <2> HIDE DEF entries, b
    <2>3. Rehashed(t, ab).slots = c[1 .. n]
      BY <1>3, <2>1
    <2>4. QED
      BY <2>2, <2>3
  <1>6. ASSUME NEW u, Slotted(u, w, ab), NEW k \in 1 .. n
        PROVE  /\ Slotted(Step(u, k), w, ab) /\ HeldIn(Step(u, k), ab, entries[k])
               /\ \A r \in D : HeldIn(u, ab, r) => HeldIn(Step(u, k), ab, r)
    BY <1>3, <1>6, PushedHolds
  <1>7. b \in V
    <2>1. <<>> \in Seq(D)
      OBVIOUS
    <2>2. QED
      BY <2>1 DEF EmptySlots
  <1> HIDE DEF entries, n, b, Step
  <1>8. \A u \in V, k \in 1 .. n : Step(u, k) \in V
    BY <1>1, <1>6 DEF Slotted
  <1> HIDE DEF V
  <1>9. Steps(F, V, n)
    BY <1>8 DEF Steps
  <1>10. \E h : h = G(h)
    <2> HIDE DEF F
    <2>1. PICK h : FoldsLeft(F, V, b, n, h)
      BY <1>3, <1>7, <1>9, LeftFold
    <2>2. ASSUME NEW s \in SUBSET (1 .. n), s # {}
          PROVE  F[<<h[s \ {Max(s)}], Max(s)>>] = Step(h[s \ {Max(s)}], Max(s))
      <3>1. Max(s) \in 1 .. n /\ h[s \ {Max(s)}] \in V
        BY <1>3, <2>1, <2>2, MaxIn DEF FoldsLeft
      <3>2. QED
        BY <3>1 DEF F
    <2>3. h = G(h)
      BY <2>1, <2>2 DEF FoldsLeft
    <2>4. QED
      BY <2>3
  <1>11. c = G(c)
    <2> HIDE DEF G
    <2>1. QED
      BY <1>10
  <1>12. c[1 .. 0] = b /\ \A k \in 0 .. n - 1 : c[1 .. k + 1] = Step(c[1 .. k], k + 1)
    <2> HIDE DEF c
    <2>1. 1 .. 0 = {}
      OBVIOUS
    <2>2. c[{}] = b
      BY <1>11
    <2>3. ASSUME NEW k \in 0 .. n - 1 PROVE c[1 .. k + 1] = Step(c[1 .. k], k + 1)
      <3> DEFINE j == k + 1
      <3>1. j \in 1 .. n /\ j - 1 = k
        BY <1>3
      <3> HIDE DEF j
      <3>2. Max(1 .. j) = j /\ (1 .. j) \ {j} = 1 .. j - 1 /\ 1 .. j # {} /\ 1 .. j \in SUBSET (1 .. n)
        BY <1>3, <3>1, MaxUpTo
      <3>3. c[1 .. j] = Step(c[1 .. j - 1], j)
        BY <1>11, <3>2
      <3>4. QED
        BY <3>1, <3>3 DEF j
    <2>4. QED
      BY <2>1, <2>2, <2>3
  <1> HIDE DEF c, G, F, w
  <1> DEFINE Good(k) == Slotted(c[1 .. k], w, ab) /\ \A j \in 1 .. k : HeldIn(c[1 .. k], ab, entries[j])
             T == {k \in Nat : Good(k)}
  <1>13. 0 \in T
    BY <1>1, <1>7, <1>12 DEF Slotted, V
  <1>14. ASSUME NEW k \in 0 .. n - 1, k \in T PROVE k + 1 \in T
    <2> DEFINE u == c[1 .. k]
    <2>1. k + 1 \in 1 .. n /\ k \in Nat /\ c[1 .. k + 1] = Step(u, k + 1)
      BY <1>3, <1>12
    <2>2. Slotted(u, w, ab) /\ \A j \in 1 .. k : HeldIn(u, ab, entries[j])
      BY <1>14
    <2> HIDE DEF u
    <2>3. /\ Slotted(Step(u, k + 1), w, ab) /\ HeldIn(Step(u, k + 1), ab, entries[k + 1])
          /\ \A r \in D : HeldIn(u, ab, r) => HeldIn(Step(u, k + 1), ab, r)
      BY <1>6, <2>1, <2>2
    <2>4. ASSUME NEW j \in 1 .. k + 1 PROVE HeldIn(Step(u, k + 1), ab, entries[j])
      <3>1. j = k + 1 \/ j \in 1 .. k
        BY <2>1
      <3>2. entries[j] \in D
        BY <1>3, <2>1
      <3>3. QED
        BY <2>2, <2>3, <3>1, <3>2
    <2>5. Good(k + 1)
      BY <2>1, <2>3, <2>4
    <2>6. QED
      BY <2>1, <2>5
  <1>15. n \in T
    <2> HIDE DEF T
    <2>1. \A k \in 0 .. n : k \in T
      BY <1>3, <1>13, <1>14, CountUp
    <2>2. QED
      BY <1>3, <2>1
  <1>16. ASSUME NEW r \in D, HeldIn(t.slots, ab, r) PROVE HeldIn(c[1 .. n], ab, r)
    BY <1>4, <1>15, <1>16
  <1>17. Rehashed(t, ab) \in TablesOf(w, ab)
    BY <1>3, <1>5, <1>15 DEF TablesOf, Slotted
  <1>18. QED
    BY <1>5, <1>16, <1>17 DEF w, D

\* The table that a lookup works with has slots, and what was read before.
LEMMA PreparedFor ==
  ASSUME NEW ab, Coded(ab), NEW t, NEW last, TableFor(t, last, ab)
  PROVE  /\ TableFor(Prepared(t, ab), last, ab)
         /\ \E m \in Nat \ {0} : Prepared(t, ab) \in TablesOf(m, ab)
         /\ \A q \in 1 .. last - 1 : HeldIn(Prepared(t, ab).slots, ab, q)
  <1>1. Len(ab) \in Nat /\ DOMAIN ab = 1 .. Len(ab) /\ last \in 1 .. Len(ab) + 1
    BY CodesDiffer DEF TableFor
  <1>2. ASSUME NEW m \in Nat \ {0}, NEW u \in TablesOf(m, ab),
               \A q \in 1 .. last - 1 : HeldIn(u.slots, ab, q)
        PROVE  TableFor(u, last, ab)
    BY <1>1, <1>2, TableTyped DEF TableFor
  <1>3. CASE t.slots = NoSlots /\ last = 1
    <2> DEFINE u == [slots |-> EmptySlots(HtMultiple), total |-> 0]
    <2>1. Prepared(t, ab) = u /\ HtMultiple \in Nat \ {0}
      BY <1>3, HtMultipleAssumption DEF Prepared
    <2>2. Slotted(EmptySlots(HtMultiple), HtMultiple, ab)
      <3>1. <<>> \in Seq(DOMAIN ab)
        OBVIOUS
      <3>2. QED
        BY <2>1, <3>1 DEF Slotted, EmptySlots
    <2>3. u \in TablesOf(HtMultiple, ab)
      BY <2>1, <2>2, TableTyped
    <2>4. 1 .. last - 1 = {}
      BY <1>3
    <2> HIDE DEF u
    <2>5. QED
      BY <1>2, <2>1, <2>3, <2>4
  <1>4. CASE ~ (t.slots = NoSlots /\ last = 1)
    <2>1. PICK m : Slotted(t.slots, m, ab)
      BY <1>4 DEF TableFor
    <2>2. /\ m \in Nat \ {0} /\ t \in TablesOf(m, ab)
          /\ \A q \in 1 .. last - 1 : HeldIn(t.slots, ab, q)
      BY <1>4, <2>1, TableTyped DEF TableFor, Slotted
    <2>3. t.slots # NoSlots
      <3>1. 1 \in DOMAIN t.slots
        BY <2>1, <2>2 DEF Slotted
      <3>2. DOMAIN NoSlots = {}
        BY DEF NoSlots
      <3>3. QED
        BY <3>1, <3>2
    <2>4. CASE NeedsSlots(t)
      <3>1. Prepared(t, ab) = Rehashed(t, ab)
        BY <2>3, <2>4 DEF Prepared
      <3>2. t.total \in Nat /\ t.total # 0
        <4>1. t.total \in Nat /\ Len(t.slots) = m
          BY <2>1, <2>2 DEF TablesOf, Slotted
        <4>2. t.total > m * HtMultiple
          BY <2>3, <2>4, <4>1 DEF NeedsSlots
        <4>3. m * HtMultiple >= 0
          BY <2>2, HtMultipleAssumption
        <4>4. m * HtMultiple \in Int
          BY <2>2, HtMultipleAssumption
        <4>5. QED
          BY <4>1, <4>2, <4>3, <4>4
      <3>3. /\ Rehashed(t, ab) \in TablesOf(t.total, ab)
            /\ \A r \in DOMAIN ab : HeldIn(t.slots, ab, r) => HeldIn(Rehashed(t, ab).slots, ab, r)
        BY <2>2, <3>2, RehashedTyped
      <3>4. \A q \in 1 .. last - 1 : HeldIn(Rehashed(t, ab).slots, ab, q)
        BY <1>1, <2>2, <3>3
      <3>5. t.total \in Nat \ {0}
        BY <3>2
      <3>6. QED
        BY <1>2, <3>1, <3>3, <3>4, <3>5
    <2>5. CASE ~ NeedsSlots(t)
      <3>1. Prepared(t, ab) = t
        BY <2>3, <2>5 DEF Prepared
      <3>2. QED
        BY <1>2, <2>2, <3>1
    <2>6. QED
      BY <2>4, <2>5
  <1>5. QED
    BY <1>3, <1>4

\* What is found in the table has the code, and what is held there is found.
LEMMA EntryFound ==
  ASSUME NEW ab, Coded(ab), NEW m \in Nat \ {0}, NEW t \in TablesOf(m, ab), NEW code \in Nat
  PROVE  /\ EntryFor(t, ab, code) # 0 =>
              EntryFor(t, ab, code) \in DOMAIN ab /\ ab[EntryFor(t, ab, code)].code = code
         /\ \A q \in DOMAIN ab : HeldIn(t.slots, ab, q) /\ ab[q].code = code => EntryFor(t, ab, code) # 0
  <1> DEFINE chain == t.slots[SlotOf(t.slots, code)]
             hits == {j \in DOMAIN chain : ab[chain[j]].code = code}
  <1>1. Slotted(t.slots, m, ab)
    BY TableTyped
  <1>2. chain \in Seq(DOMAIN ab)
    BY <1>1, SlotThere
  <1>3. Len(chain) \in Nat /\ DOMAIN chain = 1 .. Len(chain) /\ \A j \in DOMAIN chain : chain[j] \in DOMAIN ab
    BY <1>2
  <1>4. hits \subseteq Nat
    BY <1>3
  <1>5. hits # {} => chain[Min(hits)] \in DOMAIN ab /\ ab[chain[Min(hits)]].code = code
    <2>1. ASSUME hits # {} PROVE Min(hits) \in hits
      <3> HIDE DEF hits
      <3>1. QED
        BY <1>4, <2>1, MinIn
    <2>2. QED
      BY <1>3, <2>1
  <1>6. EntryFor(t, ab, code) = IF hits = {} THEN 0 ELSE chain[Min(hits)]
    BY DEF EntryFor
  <1>7. ASSUME NEW q \in DOMAIN ab, HeldIn(t.slots, ab, q), ab[q].code = code PROVE hits # {}
    BY <1>7 DEF HeldIn
  <1>8. \A q \in DOMAIN ab : q # 0
    <2>1. DOMAIN ab = 1 .. Len(ab)
      BY CodesDiffer
    <2>2. QED
      BY <2>1
  <1> HIDE DEF hits, chain
  <1>9. QED
    BY <1>5, <1>6, <1>7, <1>8

\* The place where reading stops, if there is something to read.
LEMMA Stops ==
  ASSUME NEW ab, Coded(ab), NEW p \in 1 .. Len(ab), NEW code, NEW room
  PROVE  /\ StopsAt(ab, p, code, room) \in p .. Len(ab)
         /\ LET s == StopsAt(ab, p, code, room)
            IN /\ ab[s].code = code \/ ab[s].damage # "none" \/ s - p >= room \/ s = Len(ab)
               /\ \A q \in p .. Len(ab) : ab[q].code = code => s <= q
  <1> DEFINE S == {q \in p .. Len(ab) :
                     \/ ab[q].code = code \/ ab[q].damage # "none"
                     \/ q - p >= room \/ q = Len(ab)}
  <1>1. Len(ab) \in Nat /\ Len(ab) \in S /\ S \subseteq Nat
    BY CodesDiffer
  <1>2. StopsAt(ab, p, code, room) = Min(S)
    BY DEF StopsAt
  <1>3. Min(S) \in S /\ \A k \in S : Min(S) <= k
    <2> HIDE DEF S
    <2>1. QED
      BY <1>1, MinIn
  <1>4. QED
    BY <1>2, <1>3

\* The abbreviations up to that of the code are intact.
CanBeReached(ab, code) ==
  \E q \in DOMAIN ab : ab[q].code = code /\ \A p \in 1 .. q : ab[p].damage = "none"

\* What a lookup leaves and returns.
LooksUp(r, ab, code, room) ==
  /\ TableFor(r.table, r.last, ab)
  /\ r.result = "ok" => r.entry \in DOMAIN ab /\ ab[r.entry].code = code
  /\ Len(ab) < room /\ CanBeReached(ab, code) => r.result = "ok"

\* With whatever memory, a lookup leaves a table with what was read before the
\* place where it goes on, and what it returns is of the code; with enough memory
\* it finds what can be reached.
LEMMA LookupKeeps ==
  ASSUME NEW ab, Coded(ab), NEW t, NEW last, TableFor(t, last, ab),
         NEW code \in Nat, NEW room \in Nat
  PROVE  LooksUp(Lookup(t, last, ab, code, room), ab, code, room)
  <1> DEFINE Result(table, place, result, entry) ==
               [table |-> table, last |-> place, result |-> result, entry |-> entry]
             ready == Prepared(t, ab)
             left == IF NeedsSlots(t) THEN room - 1 ELSE room
             known == EntryFor(ready, ab, code)
             stop == StopsAt(ab, last, code, left)
             made == stop - last < left /\ ab[stop].damage # "early"
             upto == IF made THEN stop ELSE stop - 1
             filled == AddedAll(ready, ab, last, upto)
             r == Lookup(t, last, ab, code, room)
  <1>1. Len(ab) \in Nat /\ DOMAIN ab = 1 .. Len(ab) /\ last \in 1 .. Len(ab) + 1 /\ left \in Int
    BY CodesDiffer DEF TableFor
  <1>2. PICK m \in Nat \ {0} : ready \in TablesOf(m, ab)
    BY PreparedFor
  <1>3. TableFor(ready, last, ab) /\ \A q \in 1 .. last - 1 : HeldIn(ready.slots, ab, q)
    BY PreparedFor
  <1>4. r = IF left < 0 THEN Result(t, last, "no_entry", 0)
            ELSE IF known # 0 THEN Result(ready, last, "ok", known)
            ELSE IF last > Len(ab) THEN Result(ready, last, "no_entry", 0)
            ELSE IF ~made \/ ab[stop].damage # "none" THEN Result(filled, last, "error", 0)
            ELSE IF ab[stop].code # code THEN Result(filled, last, "no_entry", 0)
            ELSE Result(filled, stop + 1, "ok", stop)
    BY DEF Lookup
  <1>5. known # 0 => known \in DOMAIN ab /\ ab[known].code = code
    BY <1>2, EntryFound
  <1>6. \A q \in DOMAIN ab : HeldIn(ready.slots, ab, q) /\ ab[q].code = code => known # 0
    BY <1>2, EntryFound
  <1> HIDE DEF ready, known
  <1>7. ASSUME last <= Len(ab)
        PROVE  /\ stop \in last .. Len(ab)
               /\ ab[stop].code = code \/ ab[stop].damage # "none" \/ stop - last >= left \/ stop = Len(ab)
               /\ \A q \in last .. Len(ab) : ab[q].code = code => stop <= q
    <2>1. last \in 1 .. Len(ab)
      BY <1>1, <1>7
    <2>2. QED
      BY <2>1, Stops
  <1> HIDE DEF stop
  <1>8. ASSUME last <= Len(ab)
        PROVE  /\ filled \in TablesOf(m, ab)
               /\ \A q \in DOMAIN ab :
                    HeldIn(ready.slots, ab, q) \/ q \in last .. upto => HeldIn(filled.slots, ab, q)
    <2>1. upto \in last - 1 .. Len(ab) /\ last \in 1 .. Len(ab) + 1
      BY <1>1, <1>7, <1>8
    <2> HIDE DEF upto
    <2>2. QED
      BY <1>2, <2>1, AddedAllTyped
  <1> HIDE DEF filled
  <1>9. ASSUME NEW place \in last .. Len(ab) + 1, last <= Len(ab), place - 1 <= upto, upto \in Int
        PROVE  TableFor(filled, place, ab)
    <2>1. filled = [slots |-> filled.slots, total |-> filled.total] /\ filled.total \in Nat
          /\ Slotted(filled.slots, m, ab)
      BY <1>2, <1>8, <1>9, TableTyped
    <2>2. ASSUME NEW q \in 1 .. place - 1 PROVE HeldIn(filled.slots, ab, q)
      <3>1. q \in DOMAIN ab /\ (q \in 1 .. last - 1 \/ q \in last .. upto)
        BY <1>1, <1>9
      <3>2. QED
        BY <1>3, <1>8, <1>9, <3>1
    <2>3. place \in 1 .. Len(ab) + 1
      BY <1>1, <1>9
    <2>4. QED
      BY <2>1, <2>2, <2>3 DEF TableFor
  <1>10. ASSUME last <= Len(ab)
         PROVE  upto \in Int /\ last - 1 <= upto /\ (made => stop + 1 - 1 <= upto)
                /\ stop + 1 \in last .. Len(ab) + 1 /\ last \in last .. Len(ab) + 1
    BY <1>1, <1>7, <1>10
  <1>11. TableFor(r.table, r.last, ab)
    <2>1. CASE left < 0
      BY <1>4, <2>1
    <2>2. CASE left >= 0 /\ (known # 0 \/ last > Len(ab))
      BY <1>1, <1>3, <1>4, <2>2
    <2>3. CASE left >= 0 /\ known = 0 /\ last <= Len(ab)
      <3>1. TableFor(filled, last, ab) /\ (made => TableFor(filled, stop + 1, ab))
        <4> DEFINE after == stop + 1
        <4>1. /\ upto \in Int /\ last - 1 <= upto /\ last \in last .. Len(ab) + 1
              /\ after \in last .. Len(ab) + 1 /\ (made => after - 1 <= upto)
          BY <1>10, <2>3
        <4> HIDE DEF made, upto, after
        <4>2. TableFor(filled, last, ab)
          BY <1>9, <2>3, <4>1
        <4>3. ASSUME made PROVE TableFor(filled, after, ab)
          BY <1>9, <2>3, <4>1, <4>3
        <4>4. QED
          BY <4>2, <4>3 DEF after
      <3>2. \/ r = Result(filled, last, "error", 0)
            \/ r = Result(filled, last, "no_entry", 0)
            \/ made /\ r = Result(filled, stop + 1, "ok", stop)
        <4> HIDE DEF made
        <4>1. ~ (left < 0) /\ ~ (last > Len(ab))
          BY <1>1, <2>3
        <4> HIDE DEF Result, r
        <4>2. QED
          BY <1>4, <2>3, <4>1
      <3> HIDE DEF made, r
      <3>3. QED
        BY <3>1, <3>2
    <2>4. QED
      BY <1>1, <2>1, <2>2, <2>3
  <1>12. r.result = "ok" => r.entry \in DOMAIN ab /\ ab[r.entry].code = code
    <2>1. ASSUME last <= Len(ab), ab[stop].code = code PROVE stop \in DOMAIN ab
      BY <1>1, <1>7, <2>1
    <2>2. r.result = "ok" =>
            \/ known # 0 /\ r.entry = known
            \/ ~ (last > Len(ab)) /\ ab[stop].code = code /\ r.entry = stop
      <3> HIDE DEF made
      <3>1. QED
        BY <1>4
    <2>3. ~ (last > Len(ab)) <=> last <= Len(ab)
      BY <1>1
    <2> HIDE DEF r
    <2>4. QED
      BY <1>5, <2>1, <2>2, <2>3
  <1>13. ASSUME Len(ab) < room, NEW q \in DOMAIN ab, ab[q].code = code,
                \A p \in 1 .. q : ab[p].damage = "none"
         PROVE  r.result = "ok"
    <2>1. ~ (left < 0) /\ Len(ab) <= left
      BY <1>1, <1>13
    <2>2. CASE known # 0
      BY <1>4, <2>1, <2>2
    <2>3. CASE known = 0
      <3>1. q \in last .. Len(ab) /\ last <= Len(ab)
        <4>1. ~ (q \in 1 .. last - 1)
          BY <1>3, <1>6, <1>13, <2>3
        <4>2. QED
          BY <1>1, <4>1
      <3>2. stop <= q /\ stop \in last .. Len(ab) /\ stop \in 1 .. q
        BY <1>1, <1>7, <1>13, <3>1
      <3>3. ab[stop].damage = "none"
        BY <1>13, <3>2
      <3>4. stop - last < left
        BY <1>1, <2>1, <3>2
      <3>5. ab[stop].code = code
        <4>0. ~ (stop - last >= left)
          BY <1>1, <3>2, <3>4
        <4>1. ab[stop].code = code \/ stop = Len(ab)
          <5> HIDE DEF left
          <5>1. QED
            BY <1>7, <3>1, <3>3, <4>0
        <4>2. stop = Len(ab) => stop = q
          BY <1>1, <3>1, <3>2
        <4>3. QED
          BY <1>13, <4>1, <4>2
      <3>6. ~ (last > Len(ab)) /\ made
        BY <1>1, <3>1, <3>3, <3>4
      <3>7. r = Result(filled, stop + 1, "ok", stop)
        <4> HIDE DEF made, r, Result
        <4>1. QED
          BY <1>4, <2>1, <2>3, <3>3, <3>5, <3>6
      <3>8. QED
        BY <3>7
    <2>4. QED
      BY <2>2, <2>3
  <1>14. QED
    BY <1>11, <1>12, <1>13 DEF CanBeReached, LooksUp

-----------------------------------------------------------------------------
(* How values are written.                                                 *)

\* What is left of a number is one; nothing is taken away with no bytes, and one
\* that is below Base is gone with one byte or more.
LEMMA AboveTyped ==
  ASSUME NEW n \in Nat, NEW w \in Nat
  PROVE  /\ Above(n, w) \in Nat
         /\ w = 0 => Above(n, w) = n
         /\ w = 1 => Above(n, w) = n \div Base
         /\ n < Base /\ w > 0 => Above(n, w) = 0
  <1> DEFINE G(f, m) == [k \in 0 .. m |-> IF k = 0 THEN n ELSE f[k - 1] \div Base]
             There == {m \in Nat : \E f \in [0 .. m -> Nat] : f = G(f, m)}
  <1>1. Base \in Nat /\ Base > 0 /\ \A a \in Nat : a \div Base \in Nat /\ (a < Base => a \div Base = 0)
    <2>1. Base \in Nat /\ Base > 0
      BY BytesAssumption DEF FormList
    <2>2. ASSUME NEW a \in Nat PROVE a \div Base \in Nat /\ (a < Base => a \div Base = 0)
      BY <2>1
    <2>3. QED
      BY <2>1, <2>2
  <1>2. 0 \in There
    <2> DEFINE f == [k \in 0 .. 0 |-> n]
    <2>1. f \in [0 .. 0 -> Nat] /\ f = G(f, 0)
      OBVIOUS
    <2>2. QED
      BY <2>1
  <1>3. ASSUME NEW m \in 0 .. w - 1, m \in There PROVE m + 1 \in There
    <2>1. PICK f \in [0 .. m -> Nat] : f = G(f, m)
      BY <1>3
    <2> DEFINE e == [k \in 0 .. m + 1 |-> IF k = m + 1 THEN f[m] \div Base ELSE f[k]]
    <2>2. m \in Nat /\ m + 1 \in Nat /\ f[m] \in Nat /\ f[m] \div Base \in Nat
      <3>1. m \in Nat /\ f[m] \in Nat
        BY <2>1
      <3>2. QED
        BY <1>1, <3>1
    <2>3. ASSUME NEW k \in 0 .. m + 1
          PROVE  e[k] \in Nat /\ e[k] = IF k = 0 THEN n ELSE e[k - 1] \div Base
      <3>1. CASE k = m + 1
        <4>1. e[k] = f[m] \div Base /\ k # 0 /\ e[k - 1] = f[m]
          BY <2>2, <3>1
        <4> HIDE DEF e
        <4>2. QED
          BY <2>2, <4>1
      <3>2. CASE k # m + 1
        <4>1. k \in 0 .. m /\ e[k] = f[k] /\ (k # 0 => e[k - 1] = f[k - 1])
          BY <2>2, <3>2
        <4>2. f[k] = IF k = 0 THEN n ELSE f[k - 1] \div Base
          BY <2>1, <4>1
        <4> HIDE DEF e
        <4>3. QED
          BY <2>1, <4>1, <4>2
      <3>3. QED
        BY <3>1, <3>2
    <2>4. e = [k \in 0 .. m + 1 |-> e[k]]
      OBVIOUS
    <2> HIDE DEF e
    <2>5. e \in [0 .. m + 1 -> Nat] /\ e = G(e, m + 1)
      BY <2>3, <2>4
    <2> HIDE DEF G
    <2>6. QED
      BY <2>2, <2>5
  <1>4. w \in There
    <2> HIDE DEF There
    <2>1. \A k \in 0 .. w : k \in There
      BY <1>2, <1>3, CountUp
    <2>2. QED
      BY <2>1
  <1> DEFINE left == CHOOSE f : f = G(f, w)
  <1>5. left = G(left, w)
    <2> HIDE DEF G
    <2>1. \E f : f = G(f, w)
      BY <1>4
    <2>2. QED
      BY <2>1
  <1>6. Above(n, w) = left[w]
    BY DEF Above
  <1> HIDE DEF left
  <1>7. left[0] = n /\ \A k \in 1 .. w : left[k] = left[k - 1] \div Base
    BY <1>5
  <1> DEFINE T == {k \in Nat : left[k] \in Nat /\ (n < Base /\ k > 0 => left[k] = 0)}
  <1>8. \A k \in 0 .. w : k \in T
    <2>1. 0 \in T
      BY <1>7
    <2>2. ASSUME NEW k \in 0 .. w - 1, k \in T PROVE k + 1 \in T
      <3>1. k \in Nat /\ k + 1 \in 1 .. w /\ k + 1 - 1 = k /\ left[k] \in Nat
        BY <2>2
      <3>2. left[k + 1] = left[k] \div Base
        <4> DEFINE j == k + 1
        <4>1. j \in 1 .. w /\ j - 1 = k
          BY <3>1
        <4> HIDE DEF j
        <4>2. left[j] = left[k] \div Base
          BY <1>7, <4>1
        <4>3. QED
          BY <4>2 DEF j
      <3>3. n < Base => left[k] < Base
        BY <1>1, <1>7, <2>2, <3>1
      <3>4. QED
        BY <1>1, <3>1, <3>2, <3>3
    <2> HIDE DEF T
    <2>3. QED
      BY <2>1, <2>2, CountUp
  <1>9. w = 1 => left[w] = n \div Base
    BY <1>7
  <1>10. QED
    BY <1>6, <1>7, <1>8, <1>9

\* As many bytes as there should be.
LEMMA BytesTyped ==
  ASSUME NEW n \in Nat, NEW w \in Nat
  PROVE  /\ Bytes(n, w) \in Seq(Nat) /\ Len(Bytes(n, w)) = w
         /\ w = 1 /\ Fits(n, 1) => Bytes(n, w)[1] = n
         /\ n < Base /\ w > 0 =>
              Bytes(n, w)[1] = n /\ \A k \in 2 .. w : Bytes(n, w)[k] = 0
  <1>1. Base \in Nat /\ Base > 0
    BY BytesAssumption DEF FormList
  <1>2. ASSUME NEW a \in Nat PROVE a % Base \in Nat /\ (a < Base => a % Base = a)
    BY <1>1
  <1>3. ASSUME NEW k \in 1 .. w PROVE Above(n, k - 1) \in Nat /\ Above(n, k - 1) % Base \in Nat
    <2>1. k - 1 \in Nat
      OBVIOUS
    <2>2. Above(n, k - 1) \in Nat
      BY <2>1, AboveTyped
    <2>3. QED
      BY <1>2, <2>2
  <1>4. Bytes(n, w) \in [1 .. w -> Nat]
    BY <1>3 DEF Bytes
  <1>5. w > 0 => Bytes(n, w)[1] = n % Base
    <2>1. Above(n, 0) = n
      BY AboveTyped
    <2>2. 1 - 1 = 0
      OBVIOUS
    <2>3. QED
      BY <2>1, <2>2 DEF Bytes
  <1>6. ASSUME n < Base, NEW k \in 2 .. w PROVE Bytes(n, w)[k] = 0
    <2>1. k - 1 \in Nat /\ k - 1 > 0 /\ k \in 1 .. w
      OBVIOUS
    <2>2. Above(n, k - 1) = 0
      BY <1>6, <2>1, AboveTyped
    <2>3. 0 % Base = 0
      BY <1>1
    <2>4. QED
      BY <2>1, <2>2, <2>3 DEF Bytes
  <1>7. Fits(n, 1) => n < Base
    <2>1. Above(n, 1) = n \div Base
      BY AboveTyped
    <2>2. n \div Base = 0 => n < Base
      BY <1>1
    <2>3. QED
      BY <2>1, <2>2 DEF Fits
  <1> DEFINE b == Bytes(n, w)
  <1> HIDE DEF b
  <1>8. b \in Seq(Nat) /\ Len(b) = w
    <2>1. b \in [1 .. w -> Nat]
      BY <1>4 DEF b
    <2>2. QED
      BY <2>1
  <1>9. w = 1 /\ Fits(n, 1) => b[1] = n
    BY <1>2, <1>5, <1>7 DEF b
  <1>10. n < Base /\ w > 0 => b[1] = n /\ \A k \in 2 .. w : b[k] = 0
    <2>1. n < Base => \A k \in 2 .. w : b[k] = 0
      BY <1>6 DEF b
    <2>2. QED
      BY <1>2, <1>5, <2>1 DEF b
  <1>11. QED
    BY <1>8, <1>9, <1>10 DEF b

\* The forms one by one, and their numbers.
LEMMA FormsListed ==
  /\ Forms = {"addr", "addrx", "addrx1", "addrx3", "string", "strp", "strx", "strx1", "strx3",
              "data1", "data4", "udata", "sdata", "implicit_const", "flag_present", "block1",
              "ref4", "ref_addr", "sec_offset", "rnglistx", "indirect"}
  /\ \A form \in Forms : NumberOf(form) \in DOMAIN FormList /\ FormList[NumberOf(form)] = form
  /\ DOMAIN FormList \subseteq Nat
  <1> DEFINE All == {"addr", "addrx", "addrx1", "addrx3", "string", "strp", "strx", "strx1", "strx3",
              "data1", "data4", "udata", "sdata", "implicit_const", "flag_present", "block1",
              "ref4", "ref_addr", "sec_offset", "rnglistx", "indirect"}
  <1>1. DOMAIN FormList = 1 .. 22
    BY DEF FormList
  <1>2. /\ FormList[1] = "addr" /\ FormList[2] = "addrx" /\ FormList[3] = "addrx1" /\ FormList[4] = "addrx3"
        /\ FormList[5] = "string" /\ FormList[6] = "strp" /\ FormList[7] = "strx" /\ FormList[8] = "strx1"
        /\ FormList[9] = "strx3" /\ FormList[10] = "data1" /\ FormList[11] = "data4" /\ FormList[12] = "udata"
        /\ FormList[13] = "sdata" /\ FormList[14] = "implicit_const" /\ FormList[15] = "flag_present"
        /\ FormList[16] = "block1" /\ FormList[17] = "ref4" /\ FormList[18] = "ref_addr"
        /\ FormList[19] = "sec_offset" /\ FormList[20] = "rnglistx" /\ FormList[21] = "indirect"
        /\ FormList[22] = "unknown"
    BY DEF FormList
  <1>3. \A k \in 1 .. 22 : FormList[k] \in All \cup {"unknown"}
    BY <1>2
  <1>4. \A form \in All : \E k \in 1 .. 22 : FormList[k] = form
    BY <1>2
  <1>5. "unknown" \notin All
    OBVIOUS
  <1> HIDE DEF All
  <1>6. Forms = All
    BY <1>1, <1>3, <1>4, <1>5 DEF Forms
  <1>7. \A form \in Forms : NumberOf(form) \in DOMAIN FormList /\ FormList[NumberOf(form)] = form
    BY <1>1, <1>4, <1>6 DEF NumberOf
  <1>8. QED
    BY <1>1, <1>6, <1>7 DEF All

\* The bytes of a value.
LEMMA ValueTyped ==
  ASSUME NEW item, CanBeWritten(item), item.form # "unknown"
  PROVE  /\ item.form \in Forms \ {"indirect"}
         /\ WrittenAs(item.form, item.v) \in Seq(Nat)
         /\ item.form \in DOMAIN FixedWidth =>
              /\ item.v[1] \in Nat /\ WrittenAs(item.form, item.v) = Bytes(item.v[1], FixedWidth[item.form])
              /\ FixedWidth[item.form] \in Nat \ {0}
              /\ Len(WrittenAs(item.form, item.v)) = FixedWidth[item.form]
         /\ item.form \in Nothing => WrittenAs(item.form, item.v) = <<>>
         /\ item.form \in OfVariableLength =>
              item.v[1] \in Nat /\ WrittenAs(item.form, item.v) = <<item.v[1]>>
         /\ item.form = "string" =>
              /\ WrittenAs(item.form, item.v) = Append(item.v, 0)
              /\ item.v \in Seq(Nat) /\ \A k \in 1 .. Len(item.v) : item.v[k] # 0
         /\ item.form = "block1" =>
              item.v \in Seq(Nat) /\ WrittenAs(item.form, item.v) = <<Len(item.v)>> \o item.v
         /\ \/ item.form \in Nothing \/ item.form \in DOMAIN FixedWidth \/ item.form \in OfVariableLength
            \/ item.form = "string" \/ item.form = "block1"
  <1> DEFINE f == item.form
             v == item.v
             x == WrittenAs(f, v)
  <1>1. f \in Forms \ {"indirect"}
    BY DEF CanBeWritten
  <1>2. DOMAIN FixedWidth = {"addr", "addrx1", "addrx3", "strp", "strx1", "strx3", "data1", "data4",
                             "ref4", "ref_addr", "sec_offset"}
    BY DEF FixedWidth
  <1>3. \A g \in DOMAIN FixedWidth : FixedWidth[g] \in Nat \ {0}
    BY BytesAssumption DEF FixedWidth, OffsetSize
  <1>4. /\ Nothing = {"implicit_const", "flag_present"}
        /\ OfVariableLength = {"addrx", "strx", "udata", "sdata", "rnglistx"}
    BY DEF Nothing, OfVariableLength
  <1>5. \/ f \in Nothing \/ f \in DOMAIN FixedWidth \/ f \in OfVariableLength \/ f = "string" \/ f = "block1"
    BY <1>1, <1>2, <1>4, FormsListed
  <1>6. CASE f \in Nothing
    <2>1. /\ f \notin DOMAIN FixedWidth /\ f \notin OfVariableLength /\ f # "string" /\ f # "block1"
      BY <1>2, <1>4, <1>6
    <2>2. x = <<>>
      BY <1>6 DEF WrittenAs
    <2>3. <<>> \in Seq(Nat)
      OBVIOUS
    <2> HIDE DEF x, f
    <2>4. QED
      BY <1>1, <1>6, <2>1, <2>2, <2>3 DEF x, f
  <1>7. CASE f \in DOMAIN FixedWidth
    <2>1. /\ f \notin Nothing /\ f \notin OfVariableLength /\ f # "string" /\ f # "block1"
      BY <1>2, <1>4, <1>7
    <2>2. x = Bytes(v[1], FixedWidth[f])
      BY <1>7, <2>1 DEF WrittenAs
    <2>3. v[1] \in Nat
      BY <2>1 DEF CanBeWritten, Fits
    <2>4. FixedWidth[f] \in Nat \ {0}
      BY <1>3, <1>7
    <2>5. Bytes(v[1], FixedWidth[f]) \in Seq(Nat) /\ Len(Bytes(v[1], FixedWidth[f])) = FixedWidth[f]
      BY <2>3, <2>4, BytesTyped
    <2> HIDE DEF x, f
    <2>6. QED
      BY <1>1, <1>7, <2>1, <2>2, <2>3, <2>4, <2>5 DEF x, f
  <1>8. CASE f \in OfVariableLength
    <2>1. /\ f \notin Nothing /\ f \notin DOMAIN FixedWidth /\ f # "string" /\ f # "block1"
      BY <1>2, <1>4, <1>8
    <2>2. x = v
      BY <2>1 DEF WrittenAs
    <2>3. v = <<v[1]>> /\ v[1] \in Nat
      BY <2>1 DEF CanBeWritten, Fits
    <2>4. <<v[1]>> \in Seq(Nat)
      BY <2>3
    <2> HIDE DEF x, f
    <2>5. QED
      BY <1>1, <1>8, <2>1, <2>2, <2>3, <2>4 DEF x, f
  <1>9. CASE f = "string"
    <2>1. /\ f \notin Nothing /\ f \notin DOMAIN FixedWidth /\ f \notin OfVariableLength /\ f # "block1"
      BY <1>2, <1>4, <1>9
    <2>2. x = Append(v, 0)
      BY <1>9, <2>1 DEF WrittenAs
    <2>3. v \in Seq(1 .. Base - 1)
      BY <1>9 DEF CanBeWritten
    <2>4. v \in Seq(Nat) /\ \A k \in 1 .. Len(v) : v[k] # 0
      <3>1. Base \in Nat
        BY BytesAssumption
      <3>2. QED
        BY <2>3, <3>1
    <2>5. Append(v, 0) \in Seq(Nat)
      BY <2>4
    <2> HIDE DEF x, f
    <2>6. QED
      BY <1>1, <1>9, <2>1, <2>2, <2>4, <2>5 DEF x, f
  <1>10. CASE f = "block1"
    <2>1. /\ f \notin Nothing /\ f \notin DOMAIN FixedWidth /\ f \notin OfVariableLength /\ f # "string"
      BY <1>2, <1>4, <1>10
    <2>2. x = <<Len(v)>> \o v
      BY <1>10, <2>1 DEF WrittenAs
    <2>3. v \in Seq(Nat)
      <3>1. v \in Seq(0 .. Base - 1) /\ Base \in Nat
        BY <1>10, BytesAssumption DEF CanBeWritten
      <3>2. QED
        BY <3>1
    <2>4. <<Len(v)>> \in Seq(Nat)
      BY <2>3
    <2>5. <<Len(v)>> \o v \in Seq(Nat)
      BY <2>3, <2>4, Behind
    <2> HIDE DEF x, f
    <2>6. QED
      BY <1>1, <1>10, <2>1, <2>2, <2>3, <2>5 DEF x, f
  <1>11. QED
    BY <1>5, <1>6, <1>7, <1>8, <1>9, <1>10

\* Some bytes are found at a place among others.
Stands(bytes, p, x) ==
  /\ bytes \in Seq(Nat) /\ x \in Seq(Nat) /\ p \in Nat \ {0}
  /\ p + Len(x) - 1 <= Len(bytes)
  /\ \A i \in 1 .. Len(x) : bytes[p + i - 1] = x[i]

\* They are what is read there.
LEMMA ReadBack ==
  ASSUME NEW bytes, NEW p, NEW x, Stands(bytes, p, x), NEW q, q = p + Len(x) - 1
  PROVE  SubSeq(bytes, p, q) = x
  <1> DEFINE w == Len(x)
             s == SubSeq(bytes, p, q)
  <1>1. /\ bytes \in Seq(Nat) /\ x \in Seq(Nat) /\ p \in Nat \ {0} /\ w \in Nat /\ Len(bytes) \in Nat
        /\ p + w - 1 <= Len(bytes) /\ q = p + w - 1
        /\ \A i \in 1 .. w : bytes[p + i - 1] = x[i]
    BY DEF Stands
  <1>2. p \in 1 .. Len(bytes) + 1 /\ q \in p - 1 .. Len(bytes) /\ q - p + 1 = w
    BY <1>1
  <1>3. s = [i \in 1 .. q - p + 1 |-> bytes[p + i - 1]]
    BY <1>1, <1>2
  <1> HIDE DEF s, w
  <1>4. s = [i \in 1 .. w |-> x[i]]
    BY <1>1, <1>2, <1>3
  <1>5. x = [i \in 1 .. w |-> x[i]]
    BY <1>1 DEF w
  <1>6. QED
    BY <1>4, <1>5 DEF s

\* What _dwarf_get_size_of_val() says of a value is what the value takes, unless
\* its form is one of those that it has wrong.
LEMMA SizeRight ==
  ASSUME NEW die, NEW p, NEW item, CanBeWritten(item), item.form # "unknown", item.form \notin WrongSize,
         Stands(die.bytes, p, WrittenAs(item.form, item.v))
  PROVE  SizeOfVal(die, item.form, p) = Ok(Len(WrittenAs(item.form, item.v)))
  <1> DEFINE f == item.form
             v == item.v
             x == WrittenAs(f, v)
             bytes == die.bytes
             n == Len(bytes)
  <1>1. /\ bytes \in Seq(Nat) /\ x \in Seq(Nat) /\ p \in Nat \ {0} /\ n \in Nat /\ Len(x) \in Nat
        /\ p + Len(x) - 1 <= n /\ \A i \in 1 .. Len(x) : bytes[p + i - 1] = x[i]
    BY SMTT(30) DEF Stands
  <1>2. DOMAIN FixedWidth = {"addr", "addrx1", "addrx3", "strp", "strx1", "strx3", "data1", "data4",
                             "ref4", "ref_addr", "sec_offset"}
    BY DEF FixedWidth
  <1>3. DOMAIN SizeByForm = (DOMAIN FixedWidth) \cup Nothing \cup {"none"}
    BY DEF SizeByForm, FixedWidth, Nothing
  <1>4. \A g \in DOMAIN FixedWidth : g \notin WrongSize => SizeByForm[g] = FixedWidth[g]
    BY DEF SizeByForm, FixedWidth, WrongSize
  <1>5. \A g \in Nothing : SizeByForm[g] = 0
    BY DEF SizeByForm, Nothing
  <1>6. /\ OfVariableLength \cap DOMAIN SizeByForm = {}
        /\ \A g \in {"string", "block1"} : g \notin DOMAIN SizeByForm /\ g \notin OfVariableLength
    BY DEF SizeByForm, OfVariableLength
  <1>7. CASE f \in Nothing
    <2>1. x = <<>>
      BY <1>7, ValueTyped
    <2>2. SizeOfVal(die, f, p) = Ok(0)
      BY <1>3, <1>5, <1>7 DEF SizeOfVal
    <2>3. Len(x) = 0
      <3> HIDE DEF x
      <3>1. QED
        BY <2>1
    <2>4. QED
      BY <2>2, <2>3
  <1>8. CASE f \in DOMAIN FixedWidth
    <2>1. Len(x) = FixedWidth[f]
      BY <1>8, ValueTyped
    <2>2. SizeOfVal(die, f, p) = Ok(FixedWidth[f])
      BY <1>3, <1>4, <1>8 DEF SizeOfVal
    <2>3. QED
      BY <2>1, <2>2
  <1>9. CASE f \in OfVariableLength
    <2>1. x = <<v[1]>> /\ Len(<<v[1]>>) = 1
      BY <1>9, ValueTyped
    <2> HIDE DEF x, n
    <2>2. Len(x) = 1 /\ ~ (p > n)
      BY <1>1, <2>1
    <2>3. SizeOfVal(die, f, p) = Ok(1)
      BY <1>6, <1>9, <2>2 DEF SizeOfVal, n
    <2>4. QED
      BY <2>2, <2>3 DEF x
  <1>10. CASE f = "string"
    <2> DEFINE ends == {q \in p .. n : bytes[q] = 0}
               m == Len(v)
    <2>1. x = Append(v, 0) /\ v \in Seq(Nat) /\ \A k \in 1 .. m : v[k] # 0
      BY <1>10, ValueTyped
    <2>2. /\ Len(x) = m + 1 /\ m \in Nat /\ x[m + 1] = 0 /\ \A k \in 1 .. m : x[k] # 0
      <3> HIDE DEF x
      <3>1. QED
        BY <2>1
    <2> HIDE DEF x, m, n
    <2>3. p + m \in p .. n /\ bytes[p + m] = 0
      <3>1. m + 1 \in 1 .. Len(x) /\ p + (m + 1) - 1 = p + m
        BY <1>1, <2>2
      <3>2. QED
        BY <1>1, <2>2, <3>1
    <2>4. ASSUME NEW q \in p .. n, bytes[q] = 0 PROVE p + m <= q
      <3>1. SUFFICES ASSUME q < p + m PROVE FALSE
        BY <1>1, <2>2
      <3> DEFINE i == q - p + 1
      <3>2. i \in 1 .. m /\ i \in 1 .. Len(x) /\ p + i - 1 = q
        BY <1>1, <2>2, <3>1
      <3> HIDE DEF i
      <3>3. bytes[q] = x[i] /\ x[i] # 0
        BY <1>1, <2>2, <3>2
      <3>4. QED
        BY <2>4, <3>3
    <2>5. Min(ends) = p + m /\ ends # {}
      <3>1. ends \subseteq Nat /\ p + m \in ends /\ \A q \in ends : p + m <= q
        BY <1>1, <2>3, <2>4
      <3> HIDE DEF ends
      <3>2. Min(ends) \in ends /\ \A k \in ends : Min(ends) <= k
        BY <3>1, MinIn
      <3> DEFINE e == Min(ends)
      <3>3. e <= p + m /\ p + m <= e /\ e \in Nat
        BY <3>1, <3>2
      <3> HIDE DEF e
      <3>4. e = p + m
        BY <1>1, <2>2, <3>3
      <3>5. QED
        BY <3>1, <3>4 DEF e
    <2> DEFINE s == SubSeq(bytes, p, Min(ends) - 1)
    <2>6. Len(s) = m
      <3> DEFINE e == Min(ends) - 1
      <3>1. e = p + Len(v) - 1
        BY <1>1, <2>2, <2>5 DEF m
      <3>2. p + Len(v) - 1 <= n
        BY <1>1, <2>2 DEF m
      <3>3. \A i \in 1 .. Len(v) : bytes[p + i - 1] = v[i]
        <4>1. \A i \in 1 .. Len(v) : i \in 1 .. Len(x) /\ x[i] = v[i]
          BY <2>1, <2>2 DEF x, m
        <4>2. QED
          BY <1>1, <4>1
      <3>4. Stands(bytes, p, v)
        BY <1>1, <2>1, <3>2, <3>3 DEF Stands, n
      <3> HIDE DEF e, ends
      <3>5. SubSeq(bytes, p, e) = v
        BY <3>1, <3>4, ReadBack
      <3>6. QED
        BY <3>5 DEF e, m
    <2>7. StringAt(bytes, p) = Ok(s)
      BY <2>5 DEF StringAt, n
    <2> HIDE DEF s
    <2>8. SizeOfVal(die, f, p) = Ok(Len(s) + 1)
      <3>1. SizeOfVal(die, f, p) = Then(StringAt(bytes, p), LAMBDA q : Ok(Len(q) + 1))
        BY <1>6, <1>10 DEF SizeOfVal
      <3>2. Ok(s).res = "ok" /\ Ok(s).v = s
        BY DEF Ok
      <3>3. QED
        BY <2>7, <3>1, <3>2 DEF Then
    <2>9. QED
      BY <2>2, <2>6, <2>8 DEF x
  <1>11. CASE f = "block1"
    <2> DEFINE m == Len(v)
    <2>1. v \in Seq(Nat) /\ x = <<m>> \o v
      BY <1>11, ValueTyped
    <2>2. m \in Nat /\ <<m>> \in Seq(Nat) /\ Len(<<m>>) = 1 /\ <<m>>[1] = m
      BY <2>1
    <2> HIDE DEF x, m, n
    <2>3. Len(x) = m + 1 /\ x[1] = m
      <3> DEFINE one == <<m>>
      <3> HIDE DEF one
      <3>1. one \in Seq(Nat) /\ v \in Seq(Nat) /\ Len(one) = 1 /\ one[1] = m /\ x = one \o v
        BY <2>1, <2>2 DEF one
      <3>2. /\ Len(one \o v) = Len(one) + Len(v) /\ \A i \in 1 .. Len(one) : (one \o v)[i] = one[i]
            /\ Len(v) \in Nat
        BY <3>1, Behind, ZenonT(30)
      <3>3. QED
        BY <3>1, <3>2 DEF m
    <2>4. bytes[p] = m /\ p <= n /\ m <= n - p + 1
      <3>1. 1 \in 1 .. Len(x) /\ p + 1 - 1 = p
        BY <1>1, <2>2, <2>3
      <3>2. QED
        BY <1>1, <2>2, <2>3, <3>1
    <2>5. SizeOfVal(die, f, p) = Ok(bytes[p] + 1)
      BY <1>6, <1>11, <2>4 DEF SizeOfVal, n
    <2>6. QED
      BY <2>3, <2>4, <2>5 DEF x
  <1>12. QED
    BY <1>7, <1>8, <1>9, <1>10, <1>11, ValueTyped

\* Zeros behind the first byte add nothing to a number.
LEMMA NumberLow ==
  ASSUME NEW s \in Seq(Nat), NEW n, n = Len(s), n > 0, \A k \in 2 .. n : s[k] = 0
  PROVE  Number(s) = s[1]
  <1> DEFINE Step(v, k) == s[k] + Base * v
             G(f) == [x \in SUBSET (1 .. n) |-> IF x = {} THEN 0 ELSE Step(f[x \ {Min(x)}], Min(x))]
             F == [x \in Nat \X (1 .. n) |-> Step(x[1], x[2])]
             c == CHOOSE f : f = G(f)
  <1>1. n \in Nat /\ DOMAIN s = 1 .. n /\ \A k \in 1 .. n : s[k] \in Nat
    OBVIOUS
  <1>2. Base \in Nat
    BY BytesAssumption
  <1>3. Number(s) = c[1 .. n]
    <2>1. Number(s) =
            (CHOOSE f : f = [x \in SUBSET (DOMAIN s) |->
               IF x = {} THEN 0 ELSE s[Min(x)] + Base * f[x \ {Min(x)}]])[DOMAIN s]
      BY DEF Number, FoldRight, MapThenFoldSet
    <2>2. QED
      BY <1>1, <2>1
  <1>4. \A v \in Nat, k \in 1 .. n : Step(v, k) \in Nat
    BY <1>1, <1>2
  <1>5. Step(0, 1) = s[1] /\ \A k \in 2 .. n : Step(0, k) = 0
    BY <1>1, <1>2
  <1> HIDE DEF Step
  <1>6. Steps(F, Nat, n)
    BY <1>4 DEF Steps
  <1>7. \E g : g = G(g)
    <2> HIDE DEF F
    <2>1. PICK g : FoldsRight(F, Nat, 0, n, g)
      BY <1>1, <1>6, RightFold
    <2>2. ASSUME NEW x \in SUBSET (1 .. n), x # {}
          PROVE  F[<<g[x \ {Min(x)}], Min(x)>>] = Step(g[x \ {Min(x)}], Min(x))
      <3>1. x \subseteq Nat
        OBVIOUS
      <3>2. Min(x) \in 1 .. n /\ g[x \ {Min(x)}] \in Nat
        BY <2>1, <2>2, <3>1, MinIn DEF FoldsRight
      <3>3. QED
        BY <3>2 DEF F
    <2>3. g = G(g)
      BY <2>1, <2>2 DEF FoldsRight
    <2>4. QED
      BY <2>3
  <1>8. c = G(c)
    <2> HIDE DEF G
    <2>1. QED
      BY <1>7
  <1> HIDE DEF c
  <1>9. c[{}] = 0
    BY <1>8
  <1>10. ASSUME NEW m \in 1 .. n PROVE c[m .. n] = Step(c[m + 1 .. n], m)
    <2>1. Min(m .. n) = m /\ (m .. n) \ {m} = m + 1 .. n /\ m .. n # {} /\ m .. n \in SUBSET (1 .. n)
      <3>1. (m .. n) \ {m} = m + 1 .. n /\ m .. n # {} /\ m .. n \in SUBSET (1 .. n)
        BY <1>1
      <3>2. Min(m .. n) = m
        BY <1>1, MinFrom
      <3>3. QED
        BY <3>1, <3>2
    <2>2. QED
      BY <1>8, <2>1
  <1> HIDE DEF G, F
  <1> DEFINE T == {j \in Nat : c[n - j + 1 .. n] = 0}
  <1>11. \A j \in 0 .. n - 1 : j \in T
    <2>1. 0 \in T
      <3>1. n - 0 + 1 .. n = {}
        BY <1>1
      <3>2. QED
        BY <1>9, <3>1
    <2>2. ASSUME NEW j \in 0 .. n - 1 - 1, j \in T PROVE j + 1 \in T
      <3> DEFINE m == n - j
      <3>1. m \in 2 .. n /\ m \in 1 .. n /\ n - j + 1 = m + 1 /\ n - (j + 1) + 1 = m /\ j + 1 \in Nat
        BY <1>1
      <3> HIDE DEF m
      <3>2. c[m + 1 .. n] = 0
        BY <2>2, <3>1
      <3>3. c[m .. n] = 0
        BY <1>5, <1>10, <3>1, <3>2
      <3>4. QED
        BY <3>1, <3>3
    <2>3. n - 1 \in Nat
      BY <1>1
    <2> HIDE DEF T
    <2>4. QED
      BY <2>1, <2>2, <2>3, CountUp
  <1>12. c[2 .. n] = 0
    <2>1. n - 1 \in T /\ n - (n - 1) + 1 = 2
      BY <1>1, <1>11
    <2>2. QED
      BY <2>1
  <1>13. QED
    <2>1. 1 \in 1 .. n /\ 1 + 1 = 2
      BY <1>1
    <2>2. QED
      BY <1>3, <1>5, <1>10, <1>12, <2>1

\* What is there can be read, and is the number that its only byte is.
LEMMA ReadThere ==
  ASSUME NEW bytes, NEW p, NEW x, Stands(bytes, p, x), NEW w, w = Len(x)
  PROVE  /\ Read(bytes, p, w) = Ok(Number(x))
         /\ w > 0 /\ (\A k \in 2 .. w : x[k] = 0) => Read(bytes, p, w) = Ok(x[1])
  <1> DEFINE q == p + w - 1
  <1>1. q = p + Len(x) - 1 /\ ~ (q > Len(bytes)) /\ x \in Seq(Nat)
    BY DEF Stands
  <1> HIDE DEF q
  <1>2. SubSeq(bytes, p, q) = x
    BY <1>1, ReadBack
  <1>3. Read(bytes, p, w) = Ok(Number(x))
    BY <1>1, <1>2 DEF Read, q
  <1>4. ASSUME w > 0, \A k \in 2 .. w : x[k] = 0 PROVE Number(x) = x[1]
    BY <1>1, <1>4, NumberLow
  <1>5. QED
    BY <1>3, <1>4

-----------------------------------------------------------------------------
(* The attributes of a DIE, one after the other.                           *)

\* A size is a number, whatever it is the size of.
LEMMA SizeTyped ==
  ASSUME NEW die, die.bytes \in Seq(Nat), NEW form, NEW p \in Nat \ {0}
  PROVE  LET size == SizeOfVal(die, form, p) IN size.res = "ok" => size.v \in Nat
  <1> DEFINE bytes == die.bytes
             n == Len(bytes)
             size == SizeOfVal(die, form, p)
             ends == {q \in p .. n : bytes[q] = 0}
             s == SubSeq(bytes, p, Min(ends) - 1)
  <1>1. n \in Nat /\ \A q \in 1 .. n : bytes[q] \in Nat
    OBVIOUS
  <1>2. \A g \in DOMAIN SizeByForm : SizeByForm[g] \in Nat
    BY BytesAssumption DEF SizeByForm, OffsetSize
  <1>3. ends # {} => Len(s) \in Nat
    <2>1. SUFFICES ASSUME ends # {} PROVE Len(s) \in Nat
      OBVIOUS
    <2>2. ends \subseteq Nat
      BY <1>1
    <2>3. Min(ends) \in ends
      <3> HIDE DEF ends
      <3>1. QED
        BY <2>1, <2>2, MinIn
    <2> DEFINE e == Min(ends) - 1
    <2>4. e \in p - 1 .. n /\ p \in 1 .. n + 1
      BY <1>1, <2>3
    <2> HIDE DEF e, ends
    <2>5. SubSeq(bytes, p, e) \in Seq(Nat)
      BY <2>4
    <2>6. QED
      BY <2>5 DEF e
  <1>4. size = IF form \in DOMAIN SizeByForm THEN Ok(SizeByForm[form])
               ELSE IF form \in OfVariableLength THEN IF p > n THEN Error ELSE Ok(1)
               ELSE IF form = "string"
                 THEN IF ends = {} THEN Error ELSE Ok(Len(s) + 1)
               ELSE IF form = "block1" /\ p <= n /\ bytes[p] <= n - p + 1 THEN Ok(bytes[p] + 1)
               ELSE Error
    <2>1. StringAt(bytes, p) = IF ends = {} THEN Error ELSE Ok(s)
      BY DEF StringAt
    <2> HIDE DEF s, ends
    <2>2. Then(StringAt(bytes, p), LAMBDA q : Ok(Len(q) + 1)) = IF ends = {} THEN Error ELSE Ok(Len(s) + 1)
      BY <2>1 DEF Then, Ok, Error, Fails
    <2>3. QED
      BY <2>2 DEF SizeOfVal
  <1>5. \A v : Ok(v).v = v
    BY DEF Ok
  <1>6. Error.res # "ok"
    BY DEF Error, Fails
  <1> HIDE DEF s, ends, size
  <1>7. ASSUME form \in DOMAIN SizeByForm
        PROVE  size.v \in Nat
    <2>1. size = Ok(SizeByForm[form])
      BY <1>4, <1>7
    <2>2. QED
      BY <1>2, <1>5, <1>7, <2>1
  <1>8. ASSUME form \notin DOMAIN SizeByForm, size.res = "ok"
        PROVE  size.v \in Nat
    <2>1. p <= n => bytes[p] \in Nat
      BY <1>1
    <2>2. \/ size = Error
          \/ size = Ok(1)
          \/ size = Ok(Len(s) + 1) /\ Len(s) \in Nat
          \/ size = Ok(bytes[p] + 1) /\ bytes[p] \in Nat
      <3> HIDE DEF bytes, n
      <3>1. QED
        BY <1>3, <1>4, <1>8, <2>1
    <2>3. 1 \in Nat /\ (Len(s) \in Nat => Len(s) + 1 \in Nat) /\ (bytes[p] \in Nat => bytes[p] + 1 \in Nat)
      OBVIOUS
    <2>4. QED
      <3> HIDE DEF bytes
      <3>1. CASE size = Error
        BY <1>6, <1>8, <3>1
      <3>2. CASE size = Ok(1)
        BY <1>5, <2>3, <3>2
      <3>3. CASE size = Ok(Len(s) + 1) /\ Len(s) \in Nat
        BY <1>5, <2>3, <3>3
      <3>4. CASE size = Ok(bytes[p] + 1) /\ bytes[p] \in Nat
        BY <1>5, <2>3, <3>4
      <3>5. QED
        BY <2>2, <3>1, <3>2, <3>3, <3>4
  <1>9. QED
    BY <1>7, <1>8 DEF size

\* The attributes that there can be, and what comes of the first ones.
Attributes(die) ==
  {Found(die.specs[k], form, p) : k \in DOMAIN die.specs, form \in Forms \cup {"unknown", "none"}, p \in Nat \ {0}}
ListedSoFar(die) == [res : {"ok", "error"}, p : Nat \ {0}, attrs : Seq(Attributes(die))]

\* A step along the attributes keeps the list one of places and attributes.
LEMMA ListTakes ==
  ASSUME NEW die, die.bytes \in Seq(Nat), NEW acc \in ListedSoFar(die), NEW k \in DOMAIN die.specs
  PROVE  ListUpTo(die, acc, die.specs[k]) \in ListedSoFar(die)
  <1> DEFINE spec == die.specs[k]
             n == Len(die.bytes)
  <1>1. /\ acc = [res |-> acc.res, p |-> acc.p, attrs |-> acc.attrs]
        /\ acc.res \in {"ok", "error"} /\ acc.p \in Nat \ {0} /\ acc.attrs \in Seq(Attributes(die)) /\ n \in Nat
    BY DEF ListedSoFar
  <1>2. [acc EXCEPT !.res = "error"] \in ListedSoFar(die)
    BY <1>1 DEF ListedSoFar
  <1>3. ASSUME NEW a \in Attributes(die), NEW v \in Nat, a.p \in Nat \ {0}
        PROVE  [acc EXCEPT !.p = a.p + v, !.attrs = Append(@, a)] \in ListedSoFar(die)
    <2>1. Append(acc.attrs, a) \in Seq(Attributes(die))
      BY <1>1
    <2>2. a.p + v \in Nat \ {0}
      BY <1>3
    <2> DEFINE next == a.p + v
               more == Append(acc.attrs, a)
    <2> DEFINE all == Seq(Attributes(die))
    <2>3. acc \in [res : {"ok", "error"}, p : Nat \ {0}, attrs : all]
      BY DEF ListedSoFar
    <2>4. next \in Nat \ {0} /\ more \in all
      BY <2>1, <2>2
    <2>5. [acc EXCEPT !.p = next, !.attrs = more] \in [res : {"ok", "error"}, p : Nat \ {0}, attrs : all]
      <3> HIDE DEF next, more, all
      <3>1. QED
        BY <2>3, <2>4
    <2>6. QED
      BY <2>5 DEF ListedSoFar
  <1>4. ASSUME NEW form \in Forms \cup {"unknown", "none"}, NEW p \in Nat \ {0}
        PROVE  ListValue(die, acc, Found(spec, form, p)) \in ListedSoFar(die)
    <2> DEFINE a == Found(spec, form, p)
               size == SizeOfVal(die, a.form, a.p)
    <2>1. a \in Attributes(die) /\ a.p = p /\ a.form = form
      BY DEF Attributes, Found
    <2>2. size.res = "ok" => size.v \in Nat
      BY <2>1, SizeTyped
    <2> HIDE DEF a
    <2>3. WithNext(acc, a, size) \in ListedSoFar(die)
      <3>1. CASE size.res = "ok"
        <4>1. WithNext(acc, a, size) = [acc EXCEPT !.p = a.p + size.v, !.attrs = Append(@, a)]
          BY <3>1 DEF WithNext
        <4> HIDE DEF size
        <4>2. QED
          BY <1>3, <2>1, <2>2, <3>1, <4>1, ZenonT(30)
      <3>2. CASE size.res # "ok"
        BY <1>2, <3>2 DEF WithNext
      <3>3. QED
        BY <3>1, <3>2
    <2>4. QED
      BY <1>2, <2>3 DEF ListValue, a
  <1>5. CASE acc.res # "ok" \/ spec.form \notin Forms \/ (spec.form = "indirect" /\ acc.p > SectionEnd(die))
    BY <1>2, <1>5 DEF ListUpTo
  <1>6. CASE ~ (acc.res # "ok" \/ spec.form \notin Forms \/ (spec.form = "indirect" /\ acc.p > SectionEnd(die)))
    <2>1. CASE spec.form = "indirect"
      <3> DEFINE form == FormAt(die, acc.p)
                 p == Min({acc.p, n}) + 1
      <3>1. form \in Forms \cup {"unknown", "none"}
        BY DEF FormAt, Forms
      <3>2. p \in Nat \ {0}
        <4>1. {acc.p, n} \subseteq Nat /\ {acc.p, n} # {}
          BY <1>1
        <4>2. Min({acc.p, n}) \in {acc.p, n}
          BY <4>1, MinIn
        <4>3. QED
          BY <4>1, <4>2
      <3>3. ListUpTo(die, acc, spec) = ListValue(die, acc, Found(spec, form, p))
        BY <1>6, <2>1 DEF ListUpTo
      <3> HIDE DEF form, p
      <3>4. QED
        BY <1>4, <3>1, <3>2, <3>3
    <2>2. CASE spec.form # "indirect"
      <3>1. ListUpTo(die, acc, spec) = ListValue(die, acc, Found(spec, spec.form, acc.p))
        BY <1>6, <2>2 DEF ListUpTo
      <3>2. spec.form \in Forms \cup {"unknown", "none"}
        BY <1>6
      <3>3. QED
        BY <1>1, <1>4, <3>1, <3>2
    <2>3. QED
      BY <2>1, <2>2
  <1>7. QED
    BY <1>5, <1>6

\* Where the k-th value of a DIE begins, whose values with their forms begin at
\* the places pl, and that the k-th of them is there.
ValuePlace(die, pl, k) == IF die.specs[k].form = "indirect" THEN pl[k] + 1 ELSE pl[k]
LaidAt(die, item, pl, k) ==
  /\ pl[k] \in Nat \ {0} /\ pl[k + 1] = pl[k] + Len(Written(die.specs[k], item))
  /\ Stands(die.bytes, pl[k], Written(die.specs[k], item))
  /\ die.behind \in Nat
  /\ die.specs[k].form \in Forms /\ item.form # "unknown" /\ item.form \notin WrongSize
  /\ CanBeWritten(item)
  /\ die.specs[k].form # "indirect" => item.form = die.specs[k].form
  /\ item.form = "flag_present" => pl[k + 1] <= SectionEnd(die)

\* One sequence of numbers behind another.
LEMMA BehindNumbers ==
  ASSUME NEW s \in Seq(Nat), NEW t \in Seq(Nat)
  PROVE  /\ Len(s \o t) = Len(s) + Len(t)
         /\ \A i \in 1 .. Len(s) : (s \o t)[i] = s[i]
         /\ \A i \in 1 .. Len(t) : (s \o t)[Len(s) + i] = t[i]
  OBVIOUS

\* Only two forms take no bytes.
LEMMA ValueLong ==
  ASSUME NEW item, CanBeWritten(item), item.form # "unknown", item.form \notin Nothing
  PROVE  Len(WrittenAs(item.form, item.v)) > 0
  <1> DEFINE w == WrittenAs(item.form, item.v)
  <1>1. /\ item.form \in DOMAIN FixedWidth =>
             FixedWidth[item.form] \in Nat \ {0} /\ Len(w) = FixedWidth[item.form]
        /\ item.form \in OfVariableLength => w = <<item.v[1]>>
        /\ item.form = "string" => item.v \in Seq(Nat) /\ w = Append(item.v, 0)
        /\ item.form = "block1" => item.v \in Seq(Nat) /\ w = <<Len(item.v)>> \o item.v
        /\ \/ item.form \in DOMAIN FixedWidth \/ item.form \in OfVariableLength
           \/ item.form = "string" \/ item.form = "block1"
    BY ValueTyped
  <1> HIDE DEF w
  <1>2. CASE item.form \in DOMAIN FixedWidth
    <2> DEFINE width == FixedWidth[item.form]
    <2>1. width \in Nat \ {0} /\ Len(w) = width
      BY <1>1, <1>2
    <2> HIDE DEF width
    <2>2. QED
      BY <2>1 DEF w
  <1>3. CASE item.form \in OfVariableLength
    <2>1. w = <<item.v[1]>>
      BY <1>1, <1>3
    <2>2. Len(w) = 1
      BY <2>1
    <2>3. QED
      BY <2>2 DEF w
  <1>4. CASE item.form = "string"
    <2>1. Len(w) > 0
      BY <1>1, <1>4
    <2>2. QED
      BY <2>1 DEF w
  <1>5. CASE item.form = "block1"
    <2>1. Len(w) > 0
      BY <1>1, <1>5
    <2>2. QED
      BY <2>1 DEF w
  <1>6. QED
    BY <1>1, <1>2, <1>3, <1>4, <1>5

\* The value itself stands behind the number of its form, if there is one.
LEMMA ValueStands ==
  ASSUME NEW die, NEW item, NEW pl, NEW k, LaidAt(die, item, pl, k)
  PROVE  /\ Stands(die.bytes, ValuePlace(die, pl, k), WrittenAs(item.form, item.v))
         /\ pl[k + 1] = ValuePlace(die, pl, k) + Len(WrittenAs(item.form, item.v))
         /\ ValuePlace(die, pl, k) \in Nat \ {0}
         /\ die.specs[k].form = "indirect" =>
              pl[k] <= Len(die.bytes) /\ FormAt(die, pl[k]) = item.form
         /\ item.form # "implicit_const" => ValuePlace(die, pl, k) <= SectionEnd(die)
  <1> DEFINE spec == die.specs[k]
             w == WrittenAs(item.form, item.v)
             whole == Written(spec, item)
             p == pl[k]
             bytes == die.bytes
             size == Len(w)
  <1>1. /\ CanBeWritten(item) /\ item.form # "unknown" /\ item.form \in Forms
        /\ w \in Seq(Nat) /\ size \in Nat
    <2>1. CanBeWritten(item) /\ item.form # "unknown"
      BY DEF LaidAt
    <2>2. item.form \in Forms \ {"indirect"} /\ w \in Seq(Nat)
      BY <2>1, ValueTyped
    <2>3. QED
      BY <2>1, <2>2
  <1>2. p \in Nat \ {0} /\ pl[k + 1] = p + Len(whole) /\ Stands(bytes, p, whole)
    BY DEF LaidAt
  <1>3. CASE spec.form # "indirect"
    <2>1. whole = w
      <3> HIDE DEF w
      <3>1. whole = <<>> \o w
        BY <1>3 DEF Written, w
      <3>2. QED
        BY <1>1, <3>1
    <2>2. ValuePlace(die, pl, k) = p
      BY <1>3 DEF ValuePlace
    <2>3. item.form # "implicit_const" => p <= SectionEnd(die)
      <3>1. SUFFICES ASSUME item.form # "implicit_const" PROVE p <= SectionEnd(die)
        OBVIOUS
      <3>2. Len(bytes) \in Nat /\ die.behind \in Nat /\ p + Len(w) - 1 <= Len(bytes)
        BY <1>2, <2>1 DEF LaidAt, Stands
      <3>3. CASE item.form = "flag_present"
        <4>1. p + Len(w) <= SectionEnd(die)
          BY <1>2, <2>1, <3>3 DEF LaidAt
        <4>2. QED
          BY <1>1, <1>2, <3>2, <4>1, SMTT(30) DEF SectionEnd
      <3>4. CASE item.form # "flag_present"
        <4>1. Len(w) > 0
          BY <1>1, <3>1, <3>4, ValueLong DEF Nothing, w
        <4>2. QED
          BY <1>1, <1>2, <3>2, <4>1 DEF SectionEnd
      <3>5. QED
        BY <3>3, <3>4
    <2>4. QED
      BY <1>2, <1>3, <2>1, <2>2, <2>3
  <1>4. CASE spec.form = "indirect"
    <2> DEFINE first == <<NumberOf(item.form)>>
    <2>1. NumberOf(item.form) \in DOMAIN FormList /\ FormList[NumberOf(item.form)] = item.form
          /\ NumberOf(item.form) \in Nat
      BY <1>1, FormsListed, ZenonT(30)
    <2>2. whole = first \o w
      BY <1>4 DEF Written
    <2>3. first \in Seq(Nat) /\ Len(first) = 1 /\ first[1] = NumberOf(item.form)
      BY <2>1
    <2> HIDE DEF first, w, size
    <2>4. /\ Len(whole) = 1 + size /\ whole[1] = first[1]
          /\ \A i \in 1 .. size : whole[1 + i] = w[i]
      <3>1. w \in Seq(Nat)
        BY <1>1 DEF w
      <3>2. /\ Len(first \o w) = Len(first) + Len(w)
            /\ \A i \in 1 .. Len(first) : (first \o w)[i] = first[i]
            /\ \A i \in 1 .. Len(w) : (first \o w)[Len(first) + i] = w[i]
        BY <2>3, <3>1, BehindNumbers
      <3>3. 1 \in 1 .. Len(first)
        BY <2>3
      <3> HIDE DEF whole
      <3>4. QED
        BY <2>2, <2>3, <3>2, <3>3 DEF size
    <2>5. ValuePlace(die, pl, k) = p + 1
      BY <1>4 DEF ValuePlace
    <2> HIDE DEF whole
    <2>6. /\ bytes \in Seq(Nat) /\ p + Len(whole) - 1 <= Len(bytes) /\ Len(bytes) \in Nat
          /\ \A i \in 1 .. Len(whole) : bytes[p + i - 1] = whole[i]
      BY <1>2 DEF Stands
    <2>7. Stands(bytes, p + 1, w)
      <3>1. p + 1 \in Nat \ {0} /\ (p + 1) + size - 1 <= Len(bytes)
        BY <1>1, <1>2, <2>4, <2>6, SMTT(30)
      <3>2. ASSUME NEW i \in 1 .. size PROVE bytes[(p + 1) + i - 1] = w[i]
        <4>1. 1 + i \in 1 .. Len(whole) /\ (p + 1) + i - 1 = p + (1 + i) - 1
          BY <1>1, <1>2, <2>4
        <4>2. QED
          BY <2>4, <2>6, <4>1
      <3>3. QED
        BY <1>1, <2>6, <3>1, <3>2 DEF Stands, size, w
    <2>8. p <= Len(bytes) /\ FormAt(die, p) = item.form
      <3>1. p <= Len(bytes)
        BY <1>1, <1>2, <2>4, <2>6
      <3>2. bytes[p] = NumberOf(item.form)
        <4>1. 1 \in 1 .. Len(whole) /\ p + 1 - 1 = p
          BY <1>1, <1>2, <2>4
        <4>2. QED
          BY <2>3, <2>4, <2>6, <4>1
      <3>3. ~ (p > Len(bytes))
        BY <1>2, <2>6, <3>1
      <3>4. QED
        BY <2>1, <3>1, <3>2, <3>3 DEF FormAt
    <2>9. item.form # "implicit_const" => p + 1 <= SectionEnd(die)
      <3>1. SUFFICES ASSUME item.form # "implicit_const" PROVE p + 1 <= SectionEnd(die)
        OBVIOUS
      <3>2. die.behind \in Nat /\ (p + 1) + size - 1 <= Len(bytes)
        BY <2>7 DEF LaidAt, Stands, size
      <3>3. CASE item.form = "flag_present"
        <4>1. p + (1 + size) <= SectionEnd(die)
          BY <1>2, <2>4, <3>3 DEF LaidAt, whole
        <4>2. QED
          BY <1>1, <1>2, <2>6, <3>2, <4>1, SMTT(30) DEF SectionEnd
      <3>4. CASE item.form # "flag_present"
        <4>1. size > 0
          BY <1>1, <3>1, <3>4, ValueLong DEF Nothing, w, size
        <4>2. QED
          BY <1>1, <1>2, <2>6, <3>2, <4>1, SMTT(30) DEF SectionEnd
      <3>5. QED
        BY <3>3, <3>4
    <2>10. pl[k + 1] = (p + 1) + size
      <3> DEFINE next == pl[k + 1]
      <3>1. next = p + Len(whole)
        BY <1>2 DEF whole
      <3> HIDE DEF next, p
      <3>2. next = (p + 1) + size
        BY <1>1, <1>2, <2>4, <3>1
      <3>3. QED
        BY <3>2 DEF next, p
    <2>11. QED
      BY <1>2, <1>4, <2>5, <2>7, <2>8, <2>9, <2>10 DEF w, size
  <1>5. QED
    BY <1>3, <1>4

\* All the values of a DIE, and what is listed of the first k.
Laid(die, items, n, pl) ==
  /\ n \in Nat /\ die.bytes \in Seq(Nat) /\ DOMAIN die.specs = 1 .. n
  /\ pl[1] = 1
  /\ \A k \in 1 .. n : LaidAt(die, items[k], pl, k)
ListedAs(die, items, pl, k, acc) ==
  /\ acc \in ListedSoFar(die)
  /\ acc.res = "ok" /\ acc.p = pl[k + 1] /\ Len(acc.attrs) = k
  /\ \A j \in 1 .. k : acc.attrs[j] = Found(die.specs[j], items[j].form, ValuePlace(die, pl, j))

\* Each value takes its bytes from the list, and no more.
LEMMA StepLaid ==
  ASSUME NEW die, NEW items, NEW n, NEW pl, Laid(die, items, n, pl),
         NEW k \in 1 .. n, NEW before, before = k - 1, NEW acc, ListedAs(die, items, pl, before, acc)
  PROVE  ListedAs(die, items, pl, k, ListUpTo(die, acc, die.specs[k]))
  <1> DEFINE spec == die.specs[k]
             item == items[k]
             w == WrittenAs(item.form, item.v)
             size == Len(w)
             place == ValuePlace(die, pl, k)
             a == Found(spec, item.form, place)
             r == ListUpTo(die, acc, spec)
             p == pl[k]
  <1>1. LaidAt(die, item, pl, k) /\ k \in DOMAIN die.specs /\ die.bytes \in Seq(Nat) /\ n \in Nat
    BY DEF Laid
  <1>2. /\ Stands(die.bytes, place, w)
        /\ pl[k + 1] = place + size /\ place \in Nat \ {0}
        /\ spec.form = "indirect" => p <= Len(die.bytes) /\ FormAt(die, p) = item.form
        /\ item.form # "implicit_const" => place <= SectionEnd(die)
    BY <1>1, ValueStands
  <1>3. /\ CanBeWritten(item) /\ item.form # "unknown" /\ item.form \notin WrongSize
        /\ spec.form \in Forms /\ p \in Nat \ {0}
        /\ spec.form # "indirect" => item.form = spec.form
        /\ die.behind \in Nat
    BY <1>1 DEF LaidAt
  <1>4. /\ acc \in ListedSoFar(die) /\ acc.res = "ok" /\ acc.p = p /\ Len(acc.attrs) = before
        /\ acc.attrs \in Seq(Attributes(die))
        /\ \A j \in 1 .. before : acc.attrs[j] = Found(die.specs[j], items[j].form, ValuePlace(die, pl, j))
    <2>1. before + 1 = k
      BY <1>1
    <2>2. QED
      BY <2>1 DEF ListedAs, ListedSoFar
  <1>5. SizeOfVal(die, item.form, place) = Ok(size)
    BY <1>2, <1>3, SizeRight, ZenonT(30)
  <1>6. size \in Nat /\ Len(die.bytes) \in Nat
    <2>1. w \in Seq(Nat)
      BY <1>2 DEF Stands
    <2>2. QED
      BY <1>1, <2>1
  <1>7. a.form = item.form /\ a.p = place
    BY DEF Found
  <1> HIDE DEF w, size, place, a, item
  <1>8. r = ListValue(die, acc, a)
    <2>1. CASE spec.form = "indirect"
      <3>1. p <= Len(die.bytes) /\ FormAt(die, p) = item.form
        BY <1>2, <2>1
      <3>2. ~ (p > SectionEnd(die))
        BY <1>3, <1>6, <3>1 DEF SectionEnd
      <3>3. place = p + 1
        BY <2>1 DEF place, ValuePlace
      <3>4. Min({p, Len(die.bytes)}) = p
        <4>1. {p, Len(die.bytes)} \subseteq Nat /\ {p, Len(die.bytes)} # {} /\ p \in {p, Len(die.bytes)}
          BY <1>3, <1>6
        <4>2. Min({p, Len(die.bytes)}) \in {p, Len(die.bytes)} /\ Min({p, Len(die.bytes)}) <= p
          BY <4>1, MinIn
        <4>3. QED
          BY <1>3, <1>6, <3>1, <4>2
      <3> HIDE DEF p
      <3>5. QED
        BY <1>3, <1>4, <2>1, <3>1, <3>2, <3>3, <3>4 DEF ListUpTo, a
    <2>2. CASE spec.form # "indirect"
      <3>1. place = p
        BY <2>2 DEF place, ValuePlace
      <3>2. QED
        BY <1>3, <1>4, <2>2, <3>1 DEF ListUpTo, a
    <2>3. QED
      BY <2>1, <2>2
  <1>9. r = [acc EXCEPT !.p = place + size, !.attrs = Append(@, a)]
    <2>1. ~ (a.form # "implicit_const" /\ a.p > SectionEnd(die))
      <3>1. SectionEnd(die) \in Nat
        BY <1>3, <1>6 DEF SectionEnd
      <3>2. QED
        BY <1>2, <1>7, <3>1 DEF item, place
    <2>2. SizeOfVal(die, a.form, a.p) = Ok(size)
      BY <1>5, <1>7 DEF item, place, w
    <2>3. r = WithNext(acc, a, Ok(size))
      BY <1>8, <2>1, <2>2 DEF ListValue
    <2>4. Ok(size).res = "ok" /\ Ok(size).v = size
      BY DEF Ok
    <2>5. QED
      BY <1>7, <2>3, <2>4 DEF WithNext, place
  <1>10. r \in ListedSoFar(die)
    BY <1>1, <1>4, ListTakes
  <1> DEFINE more == Append(acc.attrs, a)
             next == place + size
  <1>11. r.res = "ok" /\ r.p = next /\ r.attrs = more
    <2> DEFINE all == Seq(Attributes(die))
    <2>1. acc \in [res : {"ok", "error"}, p : Nat \ {0}, attrs : all]
      BY <1>4 DEF ListedSoFar
    <2>2. r = [acc EXCEPT !.p = next, !.attrs = more]
      BY <1>9
    <2> HIDE DEF next, more, all, r
    <2>3. QED
      BY <1>4, <2>1, <2>2
  <1>12. a \in Attributes(die)
    <2>1. r.attrs \in Seq(Attributes(die))
      BY <1>10 DEF ListedSoFar
    <2>2. item.form \in Forms
      BY <1>3, ValueTyped
    <2>3. QED
      BY <1>1, <1>2, <2>2 DEF Attributes, a, place
  <1>13. Len(more) = k /\ \A j \in 1 .. k : more[j] = IF j = k THEN a ELSE acc.attrs[j]
    <2>1. Len(acc.attrs) + 1 = k
      BY <1>1, <1>4
    <2> DEFINE attrs == acc.attrs
               all == Attributes(die)
    <2>2. attrs \in Seq(all) /\ a \in all /\ Len(attrs) + 1 = k
      BY <1>4, <1>12, <2>1
    <2> HIDE DEF attrs, all
    <2>3. Len(Append(attrs, a)) = k /\ \A j \in 1 .. k : Append(attrs, a)[j] = IF j = k THEN a ELSE attrs[j]
      BY <2>2
    <2>4. QED
      BY <2>3 DEF attrs
  <1>14. \A j \in 1 .. k : r.attrs[j] = Found(die.specs[j], items[j].form, ValuePlace(die, pl, j))
    <2>1. ASSUME NEW j \in 1 .. k
          PROVE  more[j] = Found(die.specs[j], items[j].form, ValuePlace(die, pl, j))
      <3>1. j = k \/ j \in 1 .. before
        BY <1>1
      <3>2. k \notin 1 .. before
        BY <1>1
      <3>3. QED
        BY <1>4, <1>13, <3>1, <3>2 DEF a, item, place
    <2>2. QED
      BY <1>11, <2>1
  <1>15. r.p = pl[k + 1]
    BY <1>2, <1>11 DEF place, size, w, item
  <1>16. QED
    BY <1>10, <1>11, <1>13, <1>14, <1>15 DEF ListedAs

\* dwarf_attrlist() finds each value, with its form, where it is.
LEMMA AllListed ==
  ASSUME NEW die, NEW items, NEW n, NEW pl, Laid(die, items, n, pl)
  PROVE  ListedAs(die, items, pl, n, AttrList(die))
  <1> DEFINE V == ListedSoFar(die)
             b == [res |-> "ok", p |-> 1, attrs |-> <<>>]
             Step(v, k) == ListUpTo(die, v, die.specs[k])
             G(f) == [x \in SUBSET (1 .. n) |-> IF x = {} THEN b ELSE Step(f[x \ {Max(x)}], Max(x))]
             F == [x \in V \X (1 .. n) |-> Step(x[1], x[2])]
             c == CHOOSE f : f = G(f)
  <1>1. n \in Nat /\ DOMAIN die.specs = 1 .. n /\ die.bytes \in Seq(Nat) /\ pl[1] = 1
    BY DEF Laid
  <1>2. AttrList(die) = c[1 .. n]
    <2>1. AttrList(die) =
            (CHOOSE f : f = [x \in SUBSET (DOMAIN die.specs) |->
               IF x = {} THEN b ELSE ListUpTo(die, f[x \ {Max(x)}], die.specs[Max(x)])])[DOMAIN die.specs]
      BY DEF AttrList, FoldLeft, MapThenFoldSet
    <2>2. QED
      BY <1>1, <2>1
  <1>3. b \in V
    <2>1. <<>> \in Seq(Attributes(die))
      OBVIOUS
    <2> DEFINE all == Seq(Attributes(die))
    <2>2. <<>> \in all
      BY <2>1
    <2> HIDE DEF all
    <2>3. b \in [res : {"ok", "error"}, p : Nat \ {0}, attrs : all]
      BY <2>2
    <2>4. QED
      BY <2>3 DEF ListedSoFar, all
  <1>4. \A v \in V, k \in 1 .. n : Step(v, k) \in V
    BY <1>1, ListTakes
  <1>5. ListedAs(die, items, pl, 0, b)
    <2>1. b.res = "ok" /\ b.p = 1 /\ b.attrs = <<>> /\ 0 + 1 = 1
      OBVIOUS
    <2>2. Len(b.attrs) = 0 /\ 1 .. 0 = {}
      BY <2>1
    <2> HIDE DEF b
    <2>3. QED
      BY <1>1, <1>3, <2>1, <2>2 DEF ListedAs
  <1> HIDE DEF b
  <1>6. ASSUME NEW k \in 1 .. n, NEW v, ListedAs(die, items, pl, k - 1, v)
        PROVE  ListedAs(die, items, pl, k, Step(v, k))
    <2> DEFINE before == k - 1
    <2>1. ListedAs(die, items, pl, before, v) /\ before = k - 1
      BY <1>6
    <2> HIDE DEF before
    <2>2. QED
      BY <2>1, StepLaid
  <1> HIDE DEF Step, V
  <1>7. Steps(F, V, n)
    BY <1>4 DEF Steps
  <1>8. \E g : g = G(g)
    <2> HIDE DEF F
    <2>1. PICK g : FoldsLeft(F, V, b, n, g)
      BY <1>1, <1>3, <1>7, LeftFold
    <2>2. ASSUME NEW x \in SUBSET (1 .. n), x # {}
          PROVE  F[<<g[x \ {Max(x)}], Max(x)>>] = Step(g[x \ {Max(x)}], Max(x))
      <3>1. Max(x) \in 1 .. n
        BY <1>1, <2>2, MaxIn
      <3>2. g[x \ {Max(x)}] \in V
        BY <2>1 DEF FoldsLeft
      <3>3. QED
        BY <3>1, <3>2 DEF F
    <2>3. g = G(g)
      BY <2>1, <2>2 DEF FoldsLeft
    <2>4. QED
      BY <2>3
  <1>9. c = G(c)
    <2> HIDE DEF G
    <2>1. QED
      BY <1>8
  <1> HIDE DEF c
  <1>10. c[{}] = b
    BY <1>9
  <1>11. ASSUME NEW m \in 1 .. n PROVE c[1 .. m] = Step(c[1 .. m - 1], m)
    <2>1. Max(1 .. m) = m /\ (1 .. m) \ {m} = 1 .. m - 1 /\ 1 .. m # {}
      BY <1>1, MaxUpTo
    <2>2. 1 .. m \in SUBSET (1 .. n)
      BY <1>1
    <2>3. QED
      BY <1>9, <2>1, <2>2
  <1> HIDE DEF G, F
  <1> DEFINE T == {j \in Nat : ListedAs(die, items, pl, j, c[1 .. j])}
  <1>12. \A j \in 0 .. n : j \in T
    <2>1. 0 \in T
      <3>1. 1 .. 0 = {}
        OBVIOUS
      <3>2. QED
        BY <1>5, <1>10, <3>1
    <2>2. ASSUME NEW j \in 0 .. n - 1, j \in T PROVE j + 1 \in T
      <3> DEFINE m == j + 1
      <3>1. m \in 1 .. n /\ m \in Nat /\ m - 1 = j
        BY <1>1
      <3> HIDE DEF m
      <3>2. ListedAs(die, items, pl, m - 1, c[1 .. m - 1])
        BY <2>2, <3>1
      <3>3. ListedAs(die, items, pl, m, Step(c[1 .. m - 1], m))
        BY <1>6, <3>1, <3>2
      <3>4. QED
        BY <1>11, <3>1, <3>3 DEF m
    <2> HIDE DEF T
    <2>3. QED
      BY <1>1, <2>1, <2>2, CountUp
  <1>13. QED
    BY <1>1, <1>2, <1>12

IsBase(a) == a.at \in {"addr_base", "str_offsets_base"}

\* Bases that can all be read are taken; the base of the addresses is the one
\* that is given.
LEMMA BasesTaken ==
  ASSUME NEW die, NEW env, NEW attrs, NEW n \in Nat, DOMAIN attrs = 1 .. n,
         \A k \in 1 .. n : IsBase(attrs[k]) => GlobalFormref(die, env, attrs[k]).res = "ok",
         NEW base, \A k \in 1 .. n : attrs[k].at = "addr_base" => GlobalFormref(die, env, attrs[k]).v = base
  PROVE  /\ Taken(die, env, attrs).res = "ok"
         /\ (\E k \in 1 .. n : attrs[k].at = "addr_base") => Taken(die, env, attrs).v.addr = base
  <1> DEFINE ref(k) == GlobalFormref(die, env, attrs[k])
             N == {0} \cup {ref(k).v : k \in 1 .. n}
             V == [res : {"ok"}, v : [addr : N, str : N]]
             b == Ok(NoBases)
             Step(v, k) == TakeBase(die, env, v, attrs[k])
             G(f) == [x \in SUBSET (1 .. n) |-> IF x = {} THEN b ELSE Step(f[x \ {Max(x)}], Max(x))]
             F == [x \in V \X (1 .. n) |-> Step(x[1], x[2])]
             c == CHOOSE f : f = G(f)
             P(k, v) == /\ v \in V
                        /\ (\E j \in 1 .. k : attrs[j].at = "addr_base") => v.v.addr = base
  <1>1. Taken(die, env, attrs) = c[1 .. n]
    <2>1. Taken(die, env, attrs) =
            (CHOOSE f : f = [x \in SUBSET (DOMAIN attrs) |->
               IF x = {} THEN Ok(NoBases) ELSE TakeBase(die, env, f[x \ {Max(x)}], attrs[Max(x)])])[DOMAIN attrs]
      BY DEF Taken, FoldLeft, MapThenFoldSet
    <2>2. QED
      BY <2>1
  <1>2. P(0, b)
    <2>1. b \in V
      BY DEF Ok, NoBases
    <2>2. 1 .. 0 = {}
      OBVIOUS
    <2>3. QED
      BY <2>1, <2>2
  <1>3. ASSUME NEW k \in 1 .. n, NEW v \in V
        PROVE  /\ Step(v, k) \in V
               /\ Step(v, k).v.addr = IF attrs[k].at = "addr_base" THEN base ELSE v.v.addr
    <2>1. v.res = "ok"
      OBVIOUS
    <2>2. CASE ~ IsBase(attrs[k])
      <3>1. Step(v, k) = v
        BY <2>2 DEF TakeBase, IsBase
      <3>2. attrs[k].at # "addr_base"
        BY <2>2 DEF IsBase
      <3> HIDE DEF V, Step
      <3>3. QED
        BY <3>1, <3>2
    <2>3. CASE IsBase(attrs[k])
      <3>1. ref(k).res = "ok" /\ ref(k).v \in N
        BY <2>3
      <3>2. attrs[k].at = "addr_base" => ref(k).v = base
        OBVIOUS
      <3>3. Step(v, k) = WithBase(v, attrs[k].at, ref(k))
        BY <2>1, <2>3 DEF TakeBase, IsBase
      <3> DEFINE x == ref(k).v
      <3>4. Step(v, k) = IF attrs[k].at = "addr_base" THEN [v EXCEPT !.v.addr = x] ELSE [v EXCEPT !.v.str = x]
        BY <3>1, <3>3 DEF WithBase
      <3>5. x \in N /\ v \in [res : {"ok"}, v : [addr : N, str : N]]
        BY <3>1
      <3>6. attrs[k].at = "addr_base" => x = base
        BY <3>2
      <3> HIDE DEF x, N, Step, ref
      <3>7. CASE attrs[k].at = "addr_base"
        <4>1. Step(v, k) = [v EXCEPT !.v.addr = x]
          BY <3>4, <3>7
        <4>2. Step(v, k) \in [res : {"ok"}, v : [addr : N, str : N]] /\ Step(v, k).v.addr = x
          BY <3>5, <4>1
        <4>3. QED
          BY <3>6, <3>7, <4>2
      <3>8. CASE attrs[k].at # "addr_base"
        <4>1. Step(v, k) = [v EXCEPT !.v.str = x]
          BY <3>4, <3>8
        <4>2. Step(v, k) \in [res : {"ok"}, v : [addr : N, str : N]] /\ Step(v, k).v.addr = v.v.addr
          BY <3>5, <4>1
        <4>3. QED
          BY <3>8, <4>2
      <3>9. QED
        BY <3>7, <3>8
    <2>4. QED
      BY <2>2, <2>3
  <1> HIDE DEF Step, V, b
  <1>4. ASSUME NEW k \in 1 .. n, NEW v, P(k - 1, v)
        PROVE  P(k, Step(v, k))
    <2>1. v \in V /\ ((\E j \in 1 .. k - 1 : attrs[j].at = "addr_base") => v.v.addr = base)
      BY <1>4
    <2>2. Step(v, k) \in V
      BY <1>3, <2>1
    <2>3. ASSUME NEW j \in 1 .. k, attrs[j].at = "addr_base" PROVE Step(v, k).v.addr = base
      <3>1. j = k \/ j \in 1 .. k - 1
        OBVIOUS
      <3>2. CASE attrs[k].at = "addr_base"
        BY <1>3, <2>1, <3>2
      <3>3. CASE attrs[k].at # "addr_base"
        BY <1>3, <2>1, <2>3, <3>1, <3>3
      <3>4. QED
        BY <3>2, <3>3
    <2>4. QED
      BY <2>2, <2>3
  <1>5. Steps(F, V, n)
    BY <1>3 DEF Steps
  <1>6. b \in V
    BY <1>2
  <1>7. \E g : g = G(g)
    <2> HIDE DEF F
    <2>1. PICK g : FoldsLeft(F, V, b, n, g)
      BY <1>5, <1>6, LeftFold
    <2>2. ASSUME NEW x \in SUBSET (1 .. n), x # {}
          PROVE  F[<<g[x \ {Max(x)}], Max(x)>>] = Step(g[x \ {Max(x)}], Max(x))
      <3>1. Max(x) \in 1 .. n
        BY <2>2, MaxIn
      <3>2. g[x \ {Max(x)}] \in V
        BY <2>1 DEF FoldsLeft
      <3>3. QED
        BY <3>1, <3>2 DEF F
    <2>3. g = G(g)
      BY <2>1, <2>2 DEF FoldsLeft
    <2>4. QED
      BY <2>3
  <1>8. c = G(c)
    <2> HIDE DEF G
    <2>1. QED
      BY <1>7
  <1> HIDE DEF c
  <1>9. c[{}] = b
    BY <1>8
  <1>10. ASSUME NEW m \in 1 .. n PROVE c[1 .. m] = Step(c[1 .. m - 1], m)
    <2>1. Max(1 .. m) = m /\ (1 .. m) \ {m} = 1 .. m - 1 /\ 1 .. m # {}
      BY MaxUpTo
    <2>2. 1 .. m \in SUBSET (1 .. n)
      OBVIOUS
    <2>3. QED
      BY <1>8, <2>1, <2>2
  <1> HIDE DEF G, F, P
  <1> DEFINE T == {j \in Nat : P(j, c[1 .. j])}
  <1>11. \A j \in 0 .. n : j \in T
    <2>1. 0 \in T
      <3>1. 1 .. 0 = {}
        OBVIOUS
      <3>2. QED
        BY <1>2, <1>9, <3>1
    <2>2. ASSUME NEW j \in 0 .. n - 1, j \in T PROVE j + 1 \in T
      <3> DEFINE m == j + 1
      <3>1. m \in 1 .. n /\ m \in Nat /\ m - 1 = j
        OBVIOUS
      <3> HIDE DEF m
      <3>2. P(m - 1, c[1 .. m - 1])
        BY <2>2, <3>1
      <3>3. P(m, Step(c[1 .. m - 1], m))
        BY <1>4, <3>1, <3>2
      <3>4. QED
        BY <1>10, <3>1, <3>3 DEF m
    <2> HIDE DEF T
    <2>3. QED
      BY <2>1, <2>2, CountUp
  <1>12. P(n, Taken(die, env, attrs))
    BY <1>1, <1>11
  <1>13. QED
    BY <1>12 DEF P, V

\* .debug_addr has all the addresses behind its header.
LEMMA AddressesFit ==
  ASSUME NEW refs, IsRefs(refs), NEW i \in DOMAIN refs.addrs
  PROVE  Len(AddrBytes(refs)) \in Nat /\ HeaderLength + i * AddrSize <= Len(AddrBytes(refs))
  <1> DEFINE n == Len(refs.addrs)
             seqs == [k \in 1 .. n |-> Bytes(refs.addrs[k], AddrSize)]
             header == TableHeader(AddrSize * n)
  <1>1. /\ refs.addrs \in Seq(Nat) /\ n \in Nat /\ DOMAIN refs.addrs = 1 .. n /\ i \in 1 .. n
        /\ \A k \in 1 .. n : refs.addrs[k] \in Nat
        /\ AddrSize \in Nat /\ AddrSize > 0
    <2>1. refs.addrs \in Seq(Nat)
      BY DEF IsRefs
    <2>2. AddrSize \in Nat /\ AddrSize > 0
      BY BytesAssumption
    <2>3. QED
      BY <2>1, <2>2
  <1>2. header \in Seq(Nat) /\ Len(header) = 8
    <2> DEFINE m == AddrSize * n + 4
               x == Bytes(m, 4)
               y == Bytes(5, 2)
    <2>1. m \in Nat
      <3> DEFINE len == n
      <3>1. len \in Nat /\ AddrSize \in Nat
        BY <1>1
      <3> HIDE DEF len
      <3>2. AddrSize * len + 4 \in Nat
        BY <3>1
      <3>3. QED
        BY <3>2 DEF len
    <2> HIDE DEF m
    <2>2. x \in Seq(Nat) /\ Len(x) = 4 /\ y \in Seq(Nat) /\ Len(y) = 2
      BY <2>1, BytesTyped, ZenonT(30)
    <2> HIDE DEF x, y
    <2>3. x \o y \in Seq(Nat) /\ Len(x \o y) = 6
      <3>1. Len(x \o y) = Len(x) + Len(y)
        BY <2>2, BehindNumbers
      <3>2. QED
        BY <2>2, <3>1
    <2> DEFINE z == x \o y
    <2> HIDE DEF z
    <2>4. z \o <<0, 0>> \in Seq(Nat) /\ Len(z \o <<0, 0>>) = 8
      BY <2>3 DEF z
    <2>5. header = z \o <<0, 0>>
      BY DEF TableHeader, OffsetSize, x, y, z, m
    <2>6. QED
      BY <2>4, <2>5
  <1>3. \A k \in 1 .. n : Bytes(refs.addrs[k], AddrSize) \in Seq(Nat) /\ Len(Bytes(refs.addrs[k], AddrSize)) = AddrSize
    BY <1>1, BytesTyped
  <1>4. seqs \in Seq(Seq(Nat)) /\ Len(seqs) = n /\ \A k \in 1 .. n : Len(seqs[k]) = AddrSize
    BY <1>1, <1>3
  <1> HIDE DEF seqs
  <1>5. PICK g : Flattening(Nat, seqs, g) /\ FlattenSeq(seqs) = g[Len(seqs)]
    BY <1>4, Flattens
  <1>6. /\ g[n] \in Seq(Nat) /\ g[0] = <<>>
        /\ \A k \in 0 .. n : Len(g[k]) \in Nat
    <2>1. \A k \in 0 .. n : g[k] \in Seq(Nat)
      BY <1>4, <1>5 DEF Flattening
    <2>2. QED
      <3>1. g[0] = <<>>
        BY <1>5 DEF Flattening
      <3>2. n \in 0 .. n
        BY <1>1
      <3>3. QED
        BY <2>1, <3>1, <3>2
  <1>7. ASSUME NEW k \in 0 .. n - 1
        PROVE  /\ Len(g[k + 1]) = Len(g[k]) + AddrSize
               /\ Len(g[k + 1]) <= Len(g[n])
    <2>1. k \in 0 .. Len(seqs) - 1 /\ n \in k + 1 .. Len(seqs) /\ k + 1 \in 1 .. n
      BY <1>1, <1>4
    <2>2. Lies(seqs, g, k, n)
      BY <1>5, <2>1, Flattened
    <2>3. Len(seqs[k + 1]) = AddrSize
      BY <1>4, <2>1
    <2>4. QED
      BY <2>2, <2>3 DEF Lies
  <1> DEFINE T == {k \in Nat : Len(g[k]) = k * AddrSize}
  <1>8. \A k \in 0 .. n : k \in T
    <2>1. 0 \in T
      <3>1. Len(g[0]) = 0 /\ 0 * AddrSize = 0
        BY <1>1, <1>6
      <3>2. QED
        BY <3>1
    <2>2. ASSUME NEW k \in 0 .. n - 1, k \in T PROVE k + 1 \in T
      <3>1. (k + 1) * AddrSize = k * AddrSize + AddrSize
        BY <1>1
      <3>2. QED
        BY <1>7, <2>2, <3>1
    <2> HIDE DEF T
    <2>3. QED
      BY <1>1, <2>1, <2>2, CountUp
  <1>9. Len(g[i]) = i * AddrSize /\ Len(g[i]) <= Len(g[n])
    <2> DEFINE k == i - 1
    <2>1. k \in 0 .. n - 1 /\ i = k + 1
      BY <1>1
    <2> HIDE DEF k
    <2>2. Len(g[k + 1]) <= Len(g[n])
      BY <1>7, <2>1
    <2>3. QED
      BY <1>1, <1>8, <2>1, <2>2
  <1>10. Len(AddrBytes(refs)) = 8 + Len(g[n])
    <2>1. AddrBytes(refs) = header \o g[n]
      <3>1. seqs = [k \in DOMAIN refs.addrs |-> Bytes(refs.addrs[k], AddrSize)]
        BY <1>1 DEF seqs
      <3>2. QED
        BY <1>4, <1>5, <3>1 DEF AddrBytes
    <2> DEFINE y == g[n]
    <2>2. y \in Seq(Nat)
      BY <1>6
    <2> HIDE DEF y, header
    <2>3. Len(header \o y) = 8 + Len(y)
      <3>1. Len(header \o y) = Len(header) + Len(y)
        BY <1>2, <2>2, BehindNumbers
      <3>2. QED
        BY <1>2, <3>1
    <2>4. QED
      BY <2>1, <2>3 DEF y
  <1>11. QED
    <2> DEFINE a == i * AddrSize
               e == Len(g[n])
    <2>1. a <= e /\ e \in Nat
      BY <1>1, <1>6, <1>9
    <2>2. a \in Nat
      BY <1>1
    <2>3. Len(AddrBytes(refs)) = 8 + e
      BY <1>10
    <2> HIDE DEF a, e
    <2>4. Len(AddrBytes(refs)) \in Nat /\ HeaderLength + a <= Len(AddrBytes(refs))
      BY <2>1, <2>2, <2>3 DEF HeaderLength, OffsetSize
    <2>5. QED
      BY <2>4 DEF a

\* Each can be read where its index says.
LEMMA AddressThere ==
  ASSUME NEW refs, IsRefs(refs), NEW index \in Nat, index + 1 \in DOMAIN refs.addrs
  PROVE  Read(AddrBytes(refs), HeaderLength + index * AddrSize + 1, AddrSize).res = "ok"
  <1> DEFINE i == index + 1
             len == Len(AddrBytes(refs))
             p == HeaderLength + index * AddrSize + 1
  <1>1. len \in Nat /\ HeaderLength + i * AddrSize <= len
    <2> HIDE DEF i
    <2>1. i \in DOMAIN refs.addrs
      BY DEF i
    <2>2. QED
      BY <2>1, AddressesFit
  <1>2. AddrSize \in Nat
    BY BytesAssumption
  <1>3. i * AddrSize = index * AddrSize + AddrSize /\ index * AddrSize \in Nat
    BY <1>2
  <1> HIDE DEF len
  <1>4. ~ (p + AddrSize - 1 > len)
    <2> DEFINE a == index * AddrSize
               z == i * AddrSize
    <2>1. z = a + AddrSize /\ a \in Nat /\ 8 + z <= len
      BY <1>1, <1>3 DEF HeaderLength, OffsetSize
    <2>2. p = 8 + a + 1
      BY DEF HeaderLength, OffsetSize
    <2> HIDE DEF a, z, p
    <2>3. QED
      BY <1>1, <1>2, <2>1, <2>2
  <1> HIDE DEF p
  <1>5. Read(AddrBytes(refs), p, AddrSize).res = "ok"
    BY <1>4 DEF Read, Ok, len
  <1>6. QED
    BY <1>5 DEF p

\* A single number is read as it was written.
LEMMA NumberThere ==
  ASSUME NEW die, NEW item, NEW pl, NEW k, LaidAt(die, item, pl, k),
         item.form \in {"sec_offset", "addr", "addrx", "addrx1"},
         NEW width, width = IF item.form = "addrx" THEN 1 ELSE FixedWidth[item.form]
  PROVE  /\ item.v[1] \in Nat
         /\ Read(die.bytes, ValuePlace(die, pl, k), width).res = "ok"
         /\ item.form \in {"addrx", "addrx1"} \/ (item.form = "sec_offset" /\ item.v[1] < Base) =>
              Read(die.bytes, ValuePlace(die, pl, k), width) = Ok(item.v[1])
  <1> DEFINE x == WrittenAs(item.form, item.v)
             n == item.v[1]
             place == ValuePlace(die, pl, k)
  <1>1. CanBeWritten(item) /\ item.form # "unknown" /\ Stands(die.bytes, place, x)
    BY ValueStands DEF LaidAt
  <1>2. \A y : Ok(y).res = "ok"
    BY DEF Ok
  <1>3. CASE item.form = "addrx"
    <2>1. n \in Nat /\ x = <<n>>
      BY <1>1, <1>3, ValueTyped DEF OfVariableLength
    <2>2. Len(x) = 1 /\ x[1] = n /\ width = 1 /\ 1 > 0 /\ \A i \in 2 .. 1 : x[i] = 0
      BY <1>3, <2>1
    <2> HIDE DEF x, place, n
    <2>3. Read(die.bytes, place, width) = Ok(x[1])
      <3>1. width = Len(x) /\ width > 0 /\ \A i \in 2 .. width : x[i] = 0
        BY <2>2
      <3>2. QED
        BY <1>1, <3>1, ReadThere
    <2>4. QED
      BY <1>2, <2>1, <2>2, <2>3 DEF place, n
  <1>4. CASE item.form # "addrx"
    <2>1. item.form \in DOMAIN FixedWidth /\ width = FixedWidth[item.form]
      BY <1>4 DEF FixedWidth
    <2>2. n \in Nat /\ x = Bytes(n, width) /\ width \in Nat \ {0} /\ Len(x) = width
      BY <1>1, <2>1, ValueTyped
    <2>3. item.form = "addrx1" => width = 1 /\ Fits(n, 1)
      BY <1>1, <2>1, FormsListed DEF CanBeWritten, FixedWidth
    <2> HIDE DEF x, place, n
    <2>4. Read(die.bytes, place, width) = Ok(Number(x))
      BY <1>1, <2>2, ReadThere
    <2>5. ASSUME item.form = "addrx1" \/ (item.form = "sec_offset" /\ n < Base)
          PROVE  Read(die.bytes, place, width) = Ok(n)
      <3>1. x[1] = n /\ \A i \in 2 .. width : x[i] = 0
        <4>1. CASE item.form = "addrx1"
          <5>1. width = 1 /\ Fits(n, 1)
            BY <2>3, <4>1
          <5>2. Bytes(n, width)[1] = n /\ \A i \in 2 .. width : Bytes(n, width)[i] = 0
            BY <2>2, <5>1, BytesTyped
          <5>3. QED
            BY <2>2, <5>2
        <4>2. CASE item.form = "sec_offset" /\ n < Base
          <5>1. width > 0
            BY <2>2
          <5>2. Bytes(n, width)[1] = n /\ \A i \in 2 .. width : Bytes(n, width)[i] = 0
            BY <2>2, <4>2, <5>1, BytesTyped, ZenonT(30)
          <5>3. QED
            BY <2>2, <5>2
        <4>3. QED
          BY <2>5, <4>1, <4>2
      <3>2. width > 0
        BY <2>2
      <3>3. QED
        BY <1>1, <2>2, <3>1, <3>2, ReadThere
    <2>6. QED
      BY <1>2, <1>4, <2>2, <2>4, <2>5 DEF place, n
  <1>5. QED
    BY <1>3, <1>4

\* That the bases of a unit can be had: its DIE has them as offsets, and an
\* address that is looked up is there, behind the header.
BasesIn(die, items, n, refs) ==
  /\ \A k \in 1 .. n :
       die.specs[k].at \in {"addr_base", "str_offsets_base"} => items[k].form = "sec_offset"
  /\ \A j, k \in 1 .. n :
       die.specs[j].at = "addr_base" /\ die.specs[k].at = "addr_base" => j = k
  /\ \A k \in 1 .. n :
       die.specs[k].at = "low_pc" =>
         /\ items[k].form \in Addresses
         /\ items[k].form # "addr" =>
              /\ items[k].v[1] + 1 \in DOMAIN refs.addrs
              /\ \E j \in 1 .. n : die.specs[j].at = "addr_base" /\ items[j].v[1] = HeaderLength

\* They are then found, if .debug_addr is.
LEMMA BasesReadable ==
  ASSUME NEW die, NEW items, NEW n, NEW pl, Laid(die, items, n, pl),
         NEW env, env = [start |-> env.start, size |-> env.size, version |-> env.version,
                         bases |-> env.bases, refs |-> env.refs, got |-> env.got],
         IsRefs(env.refs), BasesIn(die, items, n, env.refs)
  PROVE  LET r == BaseFields(die, env, AttrList(die))
         IN \/ r.res \in {"ok", "wants"}
            \/ env.got["addr"] \notin {"none", "ok"}
  <1> DEFINE attrs == AttrList(die).attrs
             spec(k) == die.specs[k]
             place(k) == ValuePlace(die, pl, k)
             ref(k) == GlobalFormref(die, env, attrs[k])
             taken == Taken(die, env, attrs)
             lows == {k \in 1 .. n : attrs[k].at = "low_pc"}
             r == BaseFields(die, env, AttrList(die))
  <1>1. n \in Nat /\ \A k \in 1 .. n : LaidAt(die, items[k], pl, k)
    BY DEF Laid
  <1>2. /\ AttrList(die).res = "ok" /\ DOMAIN attrs = 1 .. n
        /\ \A k \in 1 .. n : attrs[k] = Found(spec(k), items[k].form, place(k))
    <2>1. ListedAs(die, items, pl, n, AttrList(die))
      BY AllListed
    <2>2. AttrList(die).res = "ok" /\ attrs \in Seq(Attributes(die)) /\ Len(attrs) = n
      BY <2>1 DEF ListedAs, ListedSoFar
    <2>3. DOMAIN attrs = 1 .. n
      BY <2>2
    <2>4. QED
      BY <2>1, <2>2, <2>3 DEF ListedAs
  <1>3. \A k \in 1 .. n : attrs[k].at = spec(k).at /\ attrs[k].form = items[k].form /\ attrs[k].p = place(k)
    <2>1. \A x, f, p : Found(x, f, p).at = x.at /\ Found(x, f, p).form = f /\ Found(x, f, p).p = p
      BY DEF Found
    <2> HIDE DEF attrs
    <2>2. QED
      BY <1>2, <2>1
  <1> HIDE DEF attrs
  <1>4. ASSUME NEW k \in 1 .. n, IsBase(attrs[k])
        PROVE  ref(k).res = "ok" /\ (items[k].v[1] = HeaderLength => ref(k).v = HeaderLength)
    <2>1. items[k].form = "sec_offset" /\ LaidAt(die, items[k], pl, k)
      BY <1>1, <1>3, <1>4 DEF IsBase, BasesIn
    <2>2. ref(k) = Read(die.bytes, place(k), OffsetSize)
      BY <1>3, <2>1 DEF GlobalFormref
    <2>3. HeaderLength < Base
      BY BytesAssumption DEF HeaderLength, OffsetSize, FormList
    <2>4. FixedWidth["sec_offset"] = OffsetSize
      BY DEF FixedWidth
    <2>5. Read(die.bytes, place(k), OffsetSize).res = "ok"
      BY <2>1, <2>4, NumberThere
    <2>6. ASSUME items[k].v[1] = HeaderLength PROVE Read(die.bytes, place(k), OffsetSize) = Ok(HeaderLength)
      BY <2>1, <2>3, <2>4, <2>6, NumberThere
    <2>7. QED
      BY <2>2, <2>5, <2>6 DEF Ok
  <1>5. /\ taken.res = "ok"
        /\ (\E k \in 1 .. n : attrs[k].at = "addr_base" /\ items[k].v[1] = HeaderLength)
             => taken.v.addr = HeaderLength
    <2>1. CASE \E k \in 1 .. n : attrs[k].at = "addr_base"
      <3>1. PICK k \in 1 .. n : attrs[k].at = "addr_base"
        BY <2>1
      <3> DEFINE base == ref(k).v
      <3>2. \A j \in 1 .. n : attrs[j].at = "addr_base" => j = k
        BY <1>3, <3>1 DEF BasesIn
      <3>3. \A j \in 1 .. n : attrs[j].at = "addr_base" => ref(j).v = base
        BY <3>2
      <3>4. \A j \in 1 .. n : IsBase(attrs[j]) => ref(j).res = "ok"
        BY <1>4
      <3>5. items[k].v[1] = HeaderLength => base = HeaderLength
        BY <1>4, <3>1 DEF IsBase
      <3> HIDE DEF base
      <3>6. taken.res = "ok" /\ taken.v.addr = base
        <4>1. n \in Nat /\ DOMAIN attrs = 1 .. n
          BY <1>1, <1>2
        <4>2. Taken(die, env, attrs).res = "ok"
          BY <3>3, <3>4, <4>1, BasesTaken
        <4>3. (\E j \in 1 .. n : attrs[j].at = "addr_base") => Taken(die, env, attrs).v.addr = base
          BY <3>3, <3>4, <4>1, BasesTaken, SMTT(30)
        <4>4. QED
          BY <3>1, <4>2, <4>3
      <3>7. QED
        BY <3>2, <3>5, <3>6
    <2>2. CASE ~ \E k \in 1 .. n : attrs[k].at = "addr_base"
      <3> DEFINE base == 0
      <3>1. \A j \in 1 .. n : attrs[j].at = "addr_base" => ref(j).v = base
        BY <2>2
      <3>2. \A j \in 1 .. n : IsBase(attrs[j]) => ref(j).res = "ok"
        BY <1>4
      <3> HIDE DEF base
      <3>3. taken.res = "ok"
        BY <1>1, <1>2, <3>1, <3>2, BasesTaken
      <3>4. QED
        BY <2>2, <3>3
    <2>3. QED
      BY <2>1, <2>2
  <1> HIDE DEF taken
  <1>6. r = WithLowPc(die, env, attrs, taken)
    BY <1>2 DEF BaseFields, taken, attrs
  <1>7. CASE lows = {}
    <2>1. {k \in DOMAIN attrs : attrs[k].at = "low_pc"} = {}
      BY <1>2, <1>7
    <2>2. WithLowPc(die, env, attrs, taken) = taken
      BY <2>1 DEF WithLowPc
    <2>3. QED
      BY <1>5, <1>6, <2>2
  <1>8. CASE lows # {}
    <2> DEFINE m == Max(lows)
               low == attrs[m]
               index == items[m].v[1]
               with == [env EXCEPT !.bases = taken.v]
               address == FormAddr(die, with, low)
    <2>1. m \in 1 .. n /\ low.at = "low_pc"
      <3>1. lows \in SUBSET (1 .. n)
        OBVIOUS
      <3>2. m \in lows
        <4> HIDE DEF lows
        <4>1. QED
          BY <1>1, <1>8, <3>1, MaxIn
      <3>3. QED
        BY <3>2
    <2>2. lows = {k \in DOMAIN attrs : attrs[k].at = "low_pc"}
      BY <1>2
    <2>3. with.got = env.got /\ with.refs = env.refs /\ with.bases = taken.v
      <3> DEFINE v == taken.v
      <3> HIDE DEF v
      <3>1. [env EXCEPT !.bases = v] = [start |-> env.start, size |-> env.size, version |-> env.version,
                                        bases |-> v, refs |-> env.refs, got |-> env.got]
        OBVIOUS
      <3>2. QED
        BY <3>1 DEF v
    <2>4. low.form = items[m].form /\ low.p = place(m) /\ spec(m).at = "low_pc" /\ LaidAt(die, items[m], pl, m)
      BY <1>1, <1>3, <2>1
    <2> HIDE DEF m, lows, with
    <2>5. low.form \in {"addr", "addrx", "addrx1"}
      <3>1. low.form \in Addresses
        BY <2>1, <2>4 DEF BasesIn
      <3>2. low.form \notin WrongSize
        BY <2>4 DEF LaidAt
      <3>3. QED
        BY <3>1, <3>2 DEF Addresses, WrongSize
    <2>6. \/ address.res \in {"ok", "wants"}
          \/ env.got["addr"] \notin {"none", "ok"}
      <3>1. CASE low.form = "addr"
        <4>1. address = Read(die.bytes, place(m), FixedWidth["addr"])
          BY <2>4, <3>1 DEF FormAddr, Indexed, InWidth
        <4> DEFINE width == FixedWidth["addr"]
        <4>2. items[m].form = "addr" /\ width = IF items[m].form = "addrx" THEN 1 ELSE FixedWidth[items[m].form]
          BY <2>4, <3>1
        <4> HIDE DEF width
        <4>3. Read(die.bytes, place(m), width).res = "ok"
          BY <2>4, <4>2, NumberThere
        <4>4. QED
          BY <4>1, <4>3 DEF width
      <3>2. CASE low.form \in {"addrx", "addrx1"}
        <4> DEFINE width == IF low.form = "addrx" THEN 1 ELSE FixedWidth[low.form]
        <4>1. IndexItself(die, low) = Read(die.bytes, place(m), width)
          BY <2>4, <3>2 DEF IndexItself, Leb, InWidth
        <4>2. items[m].form \in {"addrx", "addrx1"}
              /\ width = IF items[m].form = "addrx" THEN 1 ELSE FixedWidth[items[m].form]
          BY <2>4, <3>2
        <4> HIDE DEF width
        <4>3. index \in Nat /\ Read(die.bytes, place(m), width) = Ok(index)
          BY <2>4, <4>2, NumberThere
        <4>4. address = ExtractAddress(with, index)
          BY <3>2, <4>1, <4>3 DEF FormAddr, Indexed, LookInLocal, Then, Ok
        <4>5. /\ index + 1 \in DOMAIN env.refs.addrs
              /\ \E j \in 1 .. n : spec(j).at = "addr_base" /\ items[j].v[1] = HeaderLength
          BY <2>1, <2>4, <4>2 DEF BasesIn
        <4>6. taken.v.addr = HeaderLength
          BY <1>3, <1>5, <4>5
        <4> HIDE DEF index
        <4>7. Read(AddrBytes(env.refs), HeaderLength + index * AddrSize + 1, AddrSize).res = "ok"
          BY <4>3, <4>5, AddressThere
        <4>8. QED
          BY <2>3, <4>4, <4>6, <4>7 DEF ExtractAddress, Wants
      <3>3. QED
        BY <2>5, <3>1, <3>2
    <2>7. ~ (Indexed(low.form) /\ \A k \in DOMAIN attrs : attrs[k].at # "addr_base")
      <3>1. SUFFICES ASSUME Indexed(low.form) PROVE \E k \in DOMAIN attrs : attrs[k].at = "addr_base"
        OBVIOUS
      <3>2. items[m].form # "addr"
        BY <2>4, <3>1 DEF Indexed
      <3>3. PICK j \in 1 .. n : spec(j).at = "addr_base"
        BY <2>1, <2>4, <3>2 DEF BasesIn
      <3>4. QED
        BY <1>2, <1>3, <3>3
    <2>8. WithLowPc(die, env, attrs, taken) = Then(address, LAMBDA found : taken)
      <3>1. taken.res = "ok" /\ lows # {}
        BY <1>5, <1>8
      <3>2. QED
        BY <2>2, <2>7, <3>1 DEF WithLowPc, m, with
    <2>9. QED
      BY <1>5, <1>6, <2>6, <2>8 DEF Then
  <1>9. QED
    BY <1>7, <1>8

\* Whatever can be written is a sequence of numbers.
LEMMA WrittenTyped ==
  ASSUME NEW spec, NEW item, CanBeWritten(item)
  PROVE  Written(spec, item) \in Seq(Nat)
  <1> DEFINE x == WrittenAs(item.form, item.v)
             first == IF spec.form = "indirect" THEN <<NumberOf(item.form)>> ELSE <<>>
  <1>1. x \in Seq(Nat)
    <2>1. CASE item.form = "unknown"
      <3>1. item.v = <<item.v[1]>> /\ item.v[1] \in Nat
        BY <2>1 DEF CanBeWritten, FixedWidth, Fits
      <3>2. x = item.v
        BY <2>1 DEF WrittenAs, FixedWidth, Nothing
      <3> DEFINE n == item.v[1]
      <3> HIDE DEF x, n
      <3>3. n \in Nat /\ x = <<n>>
        BY <3>1, <3>2 DEF n
      <3>4. QED
        BY <3>3 DEF x
    <2>2. CASE item.form # "unknown"
      BY <2>2, ValueTyped
    <2>3. QED
      BY <2>1, <2>2
  <1>2. first \in Seq(Nat)
    <2>1. item.form \in Forms \cup {"unknown"}
      BY DEF CanBeWritten
    <2>2. NumberOf(item.form) \in Nat
      <3>1. FormList[22] = "unknown" /\ 22 \in DOMAIN FormList /\ DOMAIN FormList \subseteq Nat
        BY DEF FormList
      <3>2. NumberOf("unknown") \in DOMAIN FormList
        <4> HIDE DEF x, first
        <4>1. QED
          BY <3>1 DEF NumberOf
      <3>3. QED
        BY <2>1, <3>1, <3>2, FormsListed
    <2> DEFINE n == NumberOf(item.form)
    <2> HIDE DEF n
    <2>3. n \in Nat
      BY <2>2 DEF n
    <2>4. <<n>> \in Seq(Nat) /\ <<>> \in Seq(Nat)
      BY <2>3
    <2>5. QED
      BY <2>4 DEF n
  <1> HIDE DEF x, first
  <1>3. first \o x \in Seq(Nat)
    BY <1>1, <1>2
  <1>4. QED
    BY <1>3 DEF Written, first, x

AttrSpecs == [at : Attribute, form : Forms \cup {"unknown"}, const : Nat]

\* The specs of a code are those of some abbreviations.
LEMMA SpecsTyped ==
  ASSUME NEW u, u.abbrevs \in Seq(Abbreviation), NEW code
  PROVE  SpecsOf(u, code) \in Seq(AttrSpecs)
  <1> DEFINE ab == u.abbrevs
             n == Len(ab)
             seqs == [q \in 1 .. n |-> IF ab[q].code = code THEN ab[q].attrs ELSE <<>>]
  <1>1. n \in Nat /\ DOMAIN ab = 1 .. n /\ \A q \in 1 .. n : ab[q] \in Abbreviation
    OBVIOUS
  <1>2. \A q \in 1 .. n : ab[q].attrs \in Seq(AttrSpecs)
    BY <1>1 DEF Abbreviation, AttrSpecs
  <1>3. <<>> \in Seq(AttrSpecs)
    OBVIOUS
  <1> DEFINE all == Seq(AttrSpecs)
  <1>4. seqs \in Seq(all) /\ Len(seqs) = n
    <2>1. \A q \in 1 .. n : (IF ab[q].code = code THEN ab[q].attrs ELSE <<>>) \in all
      BY <1>2, <1>3
    <2> HIDE DEF all
    <2>2. QED
      BY <1>1, <2>1
  <1> HIDE DEF seqs
  <1>5. PICK g : Flattening(AttrSpecs, seqs, g) /\ FlattenSeq(seqs) = g[Len(seqs)]
    BY <1>4, Flattens
  <1>6. g[n] \in Seq(AttrSpecs)
    BY <1>1, <1>4, <1>5 DEF Flattening
  <1>7. SpecsOf(u, code) = FlattenSeq(seqs)
    BY <1>1 DEF SpecsOf, seqs
  <1>8. QED
    BY <1>4, <1>5, <1>6, <1>7

\* The values of a DIE.
LEMMA ValuesTyped ==
  ASSUME NEW u, IsUnit(u), NEW j \in DOMAIN u.dies
  PROVE  /\ u.dies \in Seq(Nat) /\ SpecsOf(u, u.dies[j]) \in Seq(AttrSpecs)
         /\ u.values[j] \in Seq(Range(u.values[j])) /\ Len(u.values[j]) = Len(SpecsOf(u, u.dies[j]))
         /\ \A k \in 1 .. Len(SpecsOf(u, u.dies[j])) :
              /\ CanBeWritten(u.values[j][k])
              /\ SpecsOf(u, u.dies[j])[k].form # "indirect" =>
                   u.values[j][k].form = SpecsOf(u, u.dies[j])[k].form
              /\ SpecsOf(u, u.dies[j])[k].at # "other" =>
                   \A i \in 1 .. k - 1 : SpecsOf(u, u.dies[j])[i].at # SpecsOf(u, u.dies[j])[k].at
         /\ WrittenAll(SpecsOf(u, u.dies[j]), u.values[j]) \in Seq(Nat)
  <1> DEFINE specs == SpecsOf(u, u.dies[j])
             items == u.values[j]
             n == Len(specs)
  <1>1. u.dies \in Seq(Nat)
    <2> DEFINE dies == u.dies
    <2>1. dies \in Seq(0 .. Base - 1)
      BY DEF IsUnit
    <2> HIDE DEF dies
    <2>2. dies \in Seq(Nat)
      BY <2>1, BytesAssumption
    <2>3. QED
      BY <2>2 DEF dies
  <1>2. specs \in Seq(AttrSpecs)
    <2>1. u.abbrevs \in Seq(Abbreviation)
      BY DEF IsUnit
    <2>2. QED
      BY <2>1, SpecsTyped
  <1>3. n \in Nat /\ DOMAIN specs = 1 .. n
    <2> HIDE DEF specs
    <2>1. QED
      BY <1>2
  <1>4. /\ items \in Seq(Range(items)) /\ Len(items) = n
        /\ \A k \in DOMAIN specs :
             /\ CanBeWritten(items[k])
             /\ specs[k].form # "indirect" => items[k].form = specs[k].form
             /\ specs[k].at # "other" => \A i \in 1 .. k - 1 : specs[i].at # specs[k].at
    BY Zenon DEF IsUnit
  <1> HIDE DEF specs, items
  <1>5. WrittenAll(specs, items) \in Seq(Nat)
    <2> DEFINE seqs == [k \in 1 .. n |-> Written(specs[k], items[k])]
    <2>1. \A k \in 1 .. n : Written(specs[k], items[k]) \in Seq(Nat)
      BY <1>3, <1>4, WrittenTyped
    <2>2. seqs \in Seq(Seq(Nat)) /\ Len(seqs) = n
      <3> DEFINE all == Seq(Nat)
      <3>1. \A k \in 1 .. n : Written(specs[k], items[k]) \in all
        BY <2>1
      <3> HIDE DEF all
      <3>2. seqs \in Seq(all) /\ Len(seqs) = n
        BY <1>3, <3>1
      <3>3. QED
        BY <3>2 DEF all
    <2> HIDE DEF seqs
    <2>3. PICK g : Flattening(Nat, seqs, g) /\ FlattenSeq(seqs) = g[Len(seqs)]
      BY <2>2, Flattens
    <2>4. g[n] \in Seq(Nat)
      BY <1>3, <2>2, <2>3 DEF Flattening
    <2>5. WrittenAll(specs, items) = FlattenSeq(seqs)
      BY <1>3 DEF WrittenAll, seqs
    <2>6. QED
      BY <2>2, <2>3, <2>4, <2>5
  <1>6. QED
    BY <1>1, <1>2, <1>3, <1>4, <1>5 DEF specs, items

\* What is left of a sequence.
LEMMA FirstPart ==
  ASSUME NEW s \in Seq(Nat), NEW m \in Int, m <= Len(s)
  PROVE  /\ SubSeq(s, 1, m) \in Seq(Nat)
         /\ \A i \in 1 .. Len(SubSeq(s, 1, m)) : SubSeq(s, 1, m)[i] = s[i] /\ i <= Len(s)
  OBVIOUS

\* The bytes of a unit's DIE begin with its values, as far as they go.
LEMMA FirstDie ==
  ASSUME NEW u, IsUnit(u), 1 \in DOMAIN u.dies, section.slack \in Nat
  PROVE  /\ DieIn(u, 1).bytes \in Seq(Nat) /\ DieIn(u, 1).behind \in Nat
         /\ DieIn(u, 1).specs = Specs(u, 1)
         /\ \A i \in 1 .. Len(DieIn(u, 1).bytes) :
              i <= Len(WrittenAll(Specs(u, 1), u.values[1])) =>
                DieIn(u, 1).bytes[i] = WrittenAll(Specs(u, 1), u.values[1])[i]
  <1> DEFINE values(k) == WrittenAll(SpecsOf(u, u.dies[k]), u.values[k])
             n == Len(u.dies)
             seqs == [k \in 1 .. n - 1 |-> <<u.dies[1 + k]>> \o values(1 + k)]
             rest == FlattenSeq(seqs)
             first == values(1)
             bytes == first \o rest
             m == Len(bytes) - u.cut
             gap == IF EndOf(u.at) + section.slack = SectionSize THEN section.slack ELSE UnitHeaderBytes
  <1>1. n \in Nat /\ DOMAIN u.dies = 1 .. n /\ n > 0 /\ \A k \in 1 .. n : u.dies[k] \in Nat
    <2>1. u.dies \in Seq(Nat)
      BY ValuesTyped
    <2>2. QED
      BY <2>1
  <1>2. \A k \in 1 .. n : values(k) \in Seq(Nat)
    BY <1>1, ValuesTyped
  <1>3. seqs \in Seq(Seq(Nat)) /\ Len(seqs) = n - 1
    <2> DEFINE all == Seq(Nat)
    <2>1. ASSUME NEW k \in 1 .. n - 1 PROVE <<u.dies[1 + k]>> \o values(1 + k) \in all
      <3> DEFINE x == u.dies[1 + k]
                 y == values(1 + k)
      <3>1. 1 + k \in 1 .. n
        BY <1>1
      <3>2. x \in Nat /\ y \in Seq(Nat)
        BY <1>1, <1>2, <3>1
      <3> HIDE DEF x, y
      <3>3. <<x>> \o y \in Seq(Nat)
        BY <3>2
      <3>4. QED
        BY <3>3 DEF x, y
    <2> HIDE DEF all, values
    <2>2. seqs \in Seq(all) /\ Len(seqs) = n - 1
      BY <1>1, <2>1
    <2>3. QED
      BY <2>2 DEF all
  <1> HIDE DEF seqs
  <1>4. rest \in Seq(Nat)
    <2>1. PICK g : Flattening(Nat, seqs, g) /\ FlattenSeq(seqs) = g[Len(seqs)]
      BY <1>3, Flattens
    <2>2. g[n - 1] \in Seq(Nat)
      <3> DEFINE all == Seq(Nat)
                 e == n - 1
      <3>1. g \in [0 .. Len(seqs) -> all]
        BY <2>1 DEF Flattening
      <3>2. e \in 0 .. Len(seqs)
        BY <1>1, <1>3
      <3> HIDE DEF all, e
      <3>3. g[e] \in all
        BY <3>1, <3>2
      <3>4. QED
        BY <3>3 DEF all, e
    <2>3. QED
      BY <1>3, <2>1, <2>2
  <1>5. u.cut \in Nat /\ gap \in Nat
    <2>1. u.cut \in 0 .. (IF u.dies = <<>> THEN 0 ELSE Len(WrittenAll(SpecsOf(u, Last(u.dies)), Last(u.values))))
      BY Zenon DEF IsUnit
    <2>2. Last(u.dies) = u.dies[n] /\ u.dies # <<>>
      BY <1>1 DEF Last
    <2>3. Len(u.values) = n
      <3>1. u.values = [k \in 1 .. n |-> u.values[k]] \/ DOMAIN u.values = 1 .. n
        BY <1>1 DEF IsUnit
      <3>2. DOMAIN u.values = 1 .. n
        BY <1>1 DEF IsUnit
      <3>3. QED
        BY <1>1, <3>2
    <2>4. Last(u.values) = u.values[n]
      BY <2>3 DEF Last
    <2>5. values(n) \in Seq(Nat)
      BY <1>1, <1>2, SMTT(30)
    <2>6. u.cut \in 0 .. Len(values(n))
      BY <2>1, <2>2, <2>4
    <2> DEFINE x == values(n)
    <2>7. x \in Seq(Nat) /\ u.cut \in 0 .. Len(x)
      BY <2>5, <2>6
    <2> HIDE DEF x
    <2>8. u.cut \in Nat
      BY <2>7
    <2>9. QED
      BY <2>8 DEF UnitHeaderBytes
  <1>6. first \in Seq(Nat)
    BY <1>1, <1>2
  <1>7. /\ DieIn(u, 1).bytes = SubSeq(bytes, 1, m)
        /\ DieIn(u, 1).behind = u.cut + gap
        /\ DieIn(u, 1).specs = Specs(u, 1)
    BY DEF DieIn, Specs, seqs
  <1> HIDE DEF first, rest, gap
  <1>8. bytes \in Seq(Nat) /\ \A i \in 1 .. Len(bytes) : i <= Len(first) => bytes[i] = first[i]
    BY <1>4, <1>6
  <1>9. m \in Int /\ m <= Len(bytes)
    <2> HIDE DEF bytes
    <2>1. Len(bytes) \in Nat
      BY <1>8
    <2>2. QED
      BY <1>5, <2>1
  <1> HIDE DEF bytes, m
  <1>10. /\ SubSeq(bytes, 1, m) \in Seq(Nat)
         /\ \A i \in 1 .. Len(SubSeq(bytes, 1, m)) : SubSeq(bytes, 1, m)[i] = bytes[i] /\ i <= Len(bytes)
    BY <1>8, <1>9, FirstPart
  <1>11. first = WrittenAll(Specs(u, 1), u.values[1])
    BY DEF first, Specs
  <1> DEFINE x == DieIn(u, 1).bytes
  <1>12. x \in Seq(Nat) /\ \A i \in 1 .. Len(x) : i <= Len(first) => x[i] = first[i]
    <2>1. x = SubSeq(bytes, 1, m)
      BY <1>7
    <2> HIDE DEF x
    <2>2. x \in Seq(Nat) /\ \A i \in 1 .. Len(x) : x[i] = bytes[i] /\ i <= Len(bytes)
      BY <1>10, <2>1
    <2>3. \A i \in 1 .. Len(x) : i \in 1 .. Len(bytes)
      BY <1>8, <2>2
    <2>4. QED
      BY <1>8, <2>2, <2>3
  <1>13. u.cut + gap \in Nat
    BY <1>5
  <1>14. QED
    BY <1>7, <1>11, <1>12, <1>13

\* The DIE of a sound unit has its values one after the other.
LEMMA SoundLaid ==
  ASSUME NEW u, IsUnit(u), section.slack \in Nat, Sound(u, WrongSize), ~HasNoDie(u)
  PROVE  \E pl : Laid(DieIn(u, 1), u.values[1], Len(Specs(u, 1)), pl)
  <1> DEFINE die == DieIn(u, 1)
             specs == Specs(u, 1)
             items == u.values[1]
             n == Len(specs)
             seqs == [k \in 1 .. n |-> Written(specs[k], items[k])]
             whole == WrittenAll(specs, items)
  <1>1. 1 \in DOMAIN u.dies /\ specs = SpecsOf(u, u.dies[1])
    <2>1. u.dies \in Seq(0 .. Base - 1) /\ u.dies # <<>>
      BY DEF IsUnit, HasNoDie
    <2>2. 1 \in DOMAIN u.dies
      BY <2>1
    <2>3. QED
      BY <2>2 DEF Specs
  <1>2. /\ specs \in Seq(AttrSpecs) /\ items \in Seq(Range(items)) /\ Len(items) = n
        /\ \A k \in 1 .. n : CanBeWritten(items[k]) /\ (specs[k].form # "indirect" => items[k].form = specs[k].form)
        /\ whole \in Seq(Nat)
    <2> DEFINE x == SpecsOf(u, u.dies[1])
    <2>1. /\ x \in Seq(AttrSpecs) /\ u.values[1] \in Seq(Range(u.values[1])) /\ Len(u.values[1]) = Len(x)
          /\ \A k \in 1 .. Len(x) :
               CanBeWritten(u.values[1][k]) /\ (x[k].form # "indirect" => u.values[1][k].form = x[k].form)
          /\ WrittenAll(x, u.values[1]) \in Seq(Nat)
      <3>1. 1 \in DOMAIN u.dies
        BY <1>1
      <3>2. QED
        BY <3>1, ValuesTyped
    <2>2. specs = x
      BY <1>1
    <2> HIDE DEF x, specs
    <2>3. QED
      BY <2>1, <2>2
  <1>3. n \in Nat /\ DOMAIN specs = 1 .. n /\ \A k \in 1 .. n : specs[k].form \in Forms \cup {"unknown"}
    <2> HIDE DEF specs
    <2>1. n \in Nat /\ DOMAIN specs = 1 .. n /\ \A k \in 1 .. n : specs[k] \in AttrSpecs
      BY <1>2
    <2>2. QED
      BY <2>1 DEF AttrSpecs
  <1>4. /\ die.bytes \in Seq(Nat) /\ die.behind \in Nat /\ die.specs = specs
        /\ \A i \in 1 .. Len(die.bytes) : i <= Len(whole) => die.bytes[i] = whole[i]
    BY <1>1, FirstDie
  <1>5. /\ Readable(u, 1, n)
        /\ \A k \in 1 .. n : items[k].form \notin WrongSize
        /\ \A k \in 1 .. n : items[k].form = "flag_present" => Extent(u, 1, k) < Len(die.bytes) + die.behind
    BY DEF Sound
  <1>6. \A k \in 1 .. n : specs[k].form # "unknown" /\ items[k].form # "unknown"
    BY <1>5 DEF Readable
  <1>7. Extent(u, 1, n) <= Len(die.bytes)
    BY <1>5 DEF Readable
  <1> HIDE DEF specs, items, die
  <1>8. seqs \in Seq(Seq(Nat)) /\ Len(seqs) = n
    <2> DEFINE all == Seq(Nat)
    <2>1. \A k \in 1 .. n : Written(specs[k], items[k]) \in all
      BY <1>2, WrittenTyped
    <2> HIDE DEF all
    <2>2. seqs \in Seq(all) /\ Len(seqs) = n
      BY <1>3, <2>1
    <2>3. QED
      BY <2>2 DEF all
  <1>9. PICK g : Flattening(Nat, seqs, g) /\ FlattenSeq(seqs) = g[Len(seqs)]
    BY <1>8, Flattens
  <1>10. /\ whole = g[n] /\ g[0] = <<>>
         /\ \A k \in 0 .. n : g[k] \in Seq(Nat) /\ Len(g[k]) \in Nat
    <2>1. whole = FlattenSeq(seqs)
      BY <1>3 DEF WrittenAll
    <2>2. \A k \in 0 .. n : g[k] \in Seq(Nat)
      <3> DEFINE all == Seq(Nat)
      <3>1. g \in [0 .. Len(seqs) -> all]
        BY <1>9 DEF Flattening
      <3> HIDE DEF all, seqs
      <3>2. \A k \in 0 .. n : g[k] \in all
        BY <1>8, <3>1
      <3>3. QED
        BY <3>2 DEF all
    <2>3. g[0] = <<>>
      BY <1>9 DEF Flattening
    <2> HIDE DEF seqs
    <2>4. QED
      BY <1>8, <1>9, <2>1, <2>2, <2>3
  <1>11. \A k \in 1 .. n : Extent(u, 1, k) = Len(g[k])
    <2>1. ASSUME NEW k \in 1 .. n PROVE Extent(u, 1, k) = Len(g[k])
      <3>1. /\ DOMAIN SubSeq(specs, 1, k) = 1 .. k
            /\ \A i \in 1 .. k : SubSeq(specs, 1, k)[i] = specs[i]
        BY <1>2, <1>3
      <3>2. \A i \in 1 .. k : SubSeq(items, 1, k)[i] = items[i]
        BY <1>2, <1>3
      <3>3. WrittenAll(SubSeq(specs, 1, k), SubSeq(items, 1, k))
              = FlattenSeq([i \in 1 .. k |-> Written(specs[i], items[i])])
        <4>1. [i \in DOMAIN SubSeq(specs, 1, k) |-> Written(SubSeq(specs, 1, k)[i], SubSeq(items, 1, k)[i])]
                = [i \in 1 .. k |-> Written(specs[i], items[i])]
          BY <3>1, <3>2
        <4>2. QED
          BY <4>1 DEF WrittenAll
      <3>4. [i \in 1 .. k |-> Written(specs[i], items[i])] = [i \in 1 .. k |-> seqs[i]]
        BY <1>3
      <3> HIDE DEF seqs
      <3>5. k \in 0 .. Len(seqs)
        BY <1>3, <1>8
      <3>6. FlattenSeq([i \in 1 .. k |-> seqs[i]]) = g[k]
        BY <1>9, <3>5, FlattenFirst, SMTT(30)
      <3>7. Extent(u, 1, k) = Len(WrittenAll(SubSeq(specs, 1, k), SubSeq(items, 1, k)))
        BY DEF Extent, specs, items
      <3>8. QED
        BY <3>3, <3>4, <3>6, <3>7
    <2>2. QED
      BY <2>1
  <1>12. ASSUME NEW k \in 1 .. n
         PROVE  /\ Len(g[k]) = Len(g[k - 1]) + Len(Written(specs[k], items[k]))
                /\ Len(g[k]) <= Len(whole)
                /\ \A i \in 1 .. Len(Written(specs[k], items[k])) :
                     whole[Len(g[k - 1]) + i] = Written(specs[k], items[k])[i]
    <2> DEFINE j == k - 1
    <2>1. j \in 0 .. Len(seqs) - 1 /\ n \in j + 1 .. Len(seqs) /\ j + 1 = k
      <3> HIDE DEF seqs
      <3>1. QED
        BY <1>3, <1>8
    <2>2. seqs[k] = Written(specs[k], items[k])
      BY <1>3
    <2> HIDE DEF seqs, j
    <2>3. Lies(seqs, g, j, n)
      BY <1>9, <2>1, Flattened
    <2>4. /\ Len(g[k]) = Len(g[j]) + Len(seqs[k])
          /\ Len(g[k]) <= Len(g[n])
          /\ \A i \in 1 .. Len(seqs[k]) : g[n][Len(g[j]) + i] = seqs[k][i]
      BY <2>1, <2>3 DEF Lies
    <2>5. QED
      BY <1>10, <2>2, <2>4 DEF j
  <1> HIDE DEF seqs, whole
  <1> DEFINE pl == [k \in 1 .. n + 1 |-> Len(g[k - 1]) + 1]
  <1>13. ASSUME NEW k \in 1 .. n
         PROVE  LaidAt(die, items[k], pl, k)
    <2> DEFINE w == Written(specs[k], items[k])
               size == Len(w)
               p == Len(g[k - 1])
               q == Len(g[k])
    <2>1. w \in Seq(Nat) /\ CanBeWritten(items[k])
      BY <1>2, WrittenTyped
    <2>2. pl[k] = p + 1 /\ pl[k + 1] = q + 1
      <3>1. k \in 1 .. n + 1 /\ k + 1 \in 1 .. n + 1 /\ (k + 1) - 1 = k
        BY <1>3
      <3>2. QED
        BY <3>1
    <2>3. p \in Nat /\ q \in Nat
      <3>1. k - 1 \in 0 .. n /\ k \in 0 .. n
        BY <1>3
      <3>2. QED
        BY <1>10, <3>1
    <2>4. q = p + size /\ q <= Len(whole) /\ \A i \in 1 .. size : whole[p + i] = w[i]
      BY <1>12
    <2>5. Len(whole) <= Len(die.bytes) /\ Len(whole) \in Nat /\ Len(die.bytes) \in Nat
      <3>1. Len(whole) \in Nat /\ Len(die.bytes) \in Nat
        BY <1>2, <1>4
      <3>2. Len(whole) = Extent(u, 1, n)
        <4>1. n \in 1 .. n
          BY <1>3
        <4>2. QED
          BY <1>10, <1>11, <4>1
      <3>3. QED
        BY <1>7, <3>1, <3>2
    <2>6. items[k].form = "flag_present" => q < Len(die.bytes) + die.behind
      BY <1>5, <1>11
    <2> HIDE DEF p, q, pl
    <2>7. size \in Nat
      BY <2>1
    <2> HIDE DEF w, size
    <2>8. Stands(die.bytes, pl[k], w)
      <3>1. pl[k] \in Nat \ {0} /\ pl[k] + size - 1 <= Len(die.bytes)
        BY <2>2, <2>3, <2>4, <2>5, <2>7, SMTT(30)
      <3>2. ASSUME NEW i \in 1 .. size PROVE die.bytes[pl[k] + i - 1] = w[i]
        <4>1. p + i \in 1 .. Len(die.bytes) /\ p + i <= Len(whole) /\ pl[k] + i - 1 = p + i
          BY <2>2, <2>3, <2>4, <2>5, <2>7
        <4>2. die.bytes[p + i] = whole[p + i] /\ whole[p + i] = w[i]
          BY <1>4, <2>4, <4>1
        <4>3. QED
          BY <4>1, <4>2
      <3>3. QED
        BY <1>4, <2>1, <3>1, <3>2 DEF Stands, size
    <2>9. pl[k] \in Nat \ {0} /\ pl[k + 1] = pl[k] + size
      <3> DEFINE next == pl[k + 1]
                 this == pl[k]
      <3>1. next = q + 1 /\ this = p + 1
        BY <2>2
      <3> HIDE DEF next, this
      <3>2. this \in Nat \ {0} /\ next = this + size
        BY <2>3, <2>4, <2>7, <3>1
      <3>3. QED
        BY <3>2 DEF next, this
    <2>10. items[k].form = "flag_present" => pl[k + 1] <= SectionEnd(die)
      <3>1. Len(die.bytes) + die.behind \in Nat /\ SectionEnd(die) = Len(die.bytes) + die.behind
        BY <1>4, <2>5 DEF SectionEnd
      <3> DEFINE next == pl[k + 1]
                 e == Len(die.bytes) + die.behind
      <3>2. next = q + 1 /\ e \in Nat /\ SectionEnd(die) = e /\ (items[k].form = "flag_present" => q < e)
        BY <2>2, <2>6, <3>1
      <3> HIDE DEF next, e
      <3>3. items[k].form = "flag_present" => next <= SectionEnd(die)
        BY <2>3, <3>2
      <3>4. QED
        BY <3>3 DEF next
    <2>11. die.specs[k].form \in Forms /\ items[k].form # "unknown" /\ items[k].form \notin WrongSize
           /\ (die.specs[k].form # "indirect" => items[k].form = die.specs[k].form)
      BY <1>2, <1>3, <1>4, <1>5, <1>6
    <2>12. QED
      BY <1>4, <2>1, <2>8, <2>9, <2>10, <2>11 DEF LaidAt, w, size
  <1>14. pl[1] = 1
    <2>1. 1 \in 1 .. n + 1 /\ 1 - 1 = 0 /\ Len(g[0]) = 0
      BY <1>3, <1>10
    <2>2. QED
      BY <2>1
  <1>15. Laid(die, items, n, pl)
    <2> HIDE DEF pl
    <2>1. QED
      BY <1>3, <1>4, <1>13, <1>14 DEF Laid
  <1>16. QED
    BY <1>15 DEF die, items, specs

\* The bases of a sound unit can be had.
LEMMA SoundBases ==
  ASSUME NEW u, IsUnit(u), section.slack \in Nat, Sound(u, WrongSize), ~HasNoDie(u)
  PROVE  BasesIn(DieIn(u, 1), u.values[1], Len(Specs(u, 1)), section.refs)
  <1> DEFINE die == DieIn(u, 1)
             specs == Specs(u, 1)
             items == u.values[1]
             n == Len(specs)
             Meanings(k) == Meaning(specs[k], items[k], section.refs, u.at, SizeOf(u))
  <1>1. 1 \in DOMAIN u.dies /\ specs = SpecsOf(u, u.dies[1])
    <2>1. u.dies \in Seq(0 .. Base - 1) /\ u.dies # <<>>
      BY DEF IsUnit, HasNoDie
    <2>2. 1 \in DOMAIN u.dies
      BY <2>1
    <2>3. QED
      BY <2>2 DEF Specs
  <1>2. /\ specs \in Seq(AttrSpecs)
        /\ \A k \in 1 .. n : CanBeWritten(items[k])
        /\ \A k \in 1 .. n : specs[k].at # "other" => \A i \in 1 .. k - 1 : specs[i].at # specs[k].at
    <2> DEFINE x == SpecsOf(u, u.dies[1])
    <2>1. /\ x \in Seq(AttrSpecs)
          /\ \A k \in 1 .. Len(x) : CanBeWritten(u.values[1][k])
          /\ \A k \in 1 .. Len(x) : x[k].at # "other" => \A i \in 1 .. k - 1 : x[i].at # x[k].at
      <3>1. 1 \in DOMAIN u.dies
        BY <1>1
      <3>2. QED
        BY <3>1, ValuesTyped
    <2>2. specs = x
      BY <1>1
    <2> HIDE DEF x, specs
    <2>3. QED
      BY <2>1, <2>2
  <1>3. die.specs = specs
    BY <1>1, FirstDie
  <1> HIDE DEF specs, die
  <1>4. n \in Nat /\ DOMAIN specs = 1 .. n
    BY <1>2
  <1>5. \A x : PlaceOf(u, 1, x) = {k \in 1 .. n : specs[k].at = x}
    BY <1>4 DEF PlaceOf, specs
  <1>6. ASSUME NEW j \in 1 .. n, NEW k \in 1 .. n, specs[j].at = specs[k].at, specs[j].at # "other"
        PROVE  j = k
    <2>1. j < k => j \in 1 .. k - 1
      BY <1>4
    <2>2. k < j => k \in 1 .. j - 1
      BY <1>4
    <2>3. j < k \/ k < j \/ j = k
      BY <1>4
    <2>4. QED
      BY <1>2, <1>6, <2>1, <2>2, <2>3
  <1>7. \A k \in 1 .. n : items[k].form \in FormsOf(u, 1, specs[k].at)
    BY <1>5 DEF FormsOf
  <1>8. /\ FormsOf(u, 1, "addr_base") \cup FormsOf(u, 1, "str_offsets_base") \subseteq {"sec_offset"}
        /\ FormsOf(u, 1, "low_pc") \subseteq Addresses
        /\ FormsOf(u, 1, "low_pc") \cap (Addresses \ {"addr"}) # {} =>
             AddrBaseGiven(u) /\ Meant(u, 1, "low_pc") # {}
    BY Zenon DEF Sound
  <1>9. \A k \in 1 .. n : specs[k].at \in {"addr_base", "str_offsets_base"} => items[k].form = "sec_offset"
    BY <1>7, <1>8
  <1>10. ASSUME NEW k \in 1 .. n, specs[k].at = "low_pc", items[k].form # "addr"
         PROVE  /\ items[k].v[1] + 1 \in DOMAIN section.refs.addrs
                /\ \E j \in 1 .. n : specs[j].at = "addr_base" /\ items[j].v[1] = HeaderLength
    <2>1. items[k].form \in Addresses \ {"addr"}
      BY <1>7, <1>8, <1>10
    <2>2. AddrBaseGiven(u) /\ Meant(u, 1, "low_pc") # {}
      BY <1>7, <1>8, <1>10, <2>1
    <2>3. \E j \in 1 .. n : specs[j].at = "addr_base" /\ items[j].v[1] = HeaderLength
      <3>1. PICK j \in PlaceOf(u, 1, "addr_base") : items[j] = Item("sec_offset", <<HeaderLength>>)
        BY <2>2 DEF AddrBaseGiven, BaseOf
      <3>2. j \in 1 .. n /\ specs[j].at = "addr_base"
        BY <1>5, <3>1
      <3>3. Item("sec_offset", <<HeaderLength>>).v[1] = HeaderLength
        BY DEF Item
      <3>4. QED
        BY <3>1, <3>2, <3>3
    <2>4. items[k].v[1] + 1 \in DOMAIN section.refs.addrs
      <3>1. PICK j \in PlaceOf(u, 1, "low_pc") : Meanings(j) # {}
        BY <2>2 DEF Meant, specs
      <3>2. j = k
        BY <1>5, <1>6, <1>10, <3>1
      <3>3. Meanings(k) = {section.refs.addrs[q] : q \in {i \in DOMAIN section.refs.addrs : i = items[k].v[1] + 1}}
        BY <2>1 DEF Meaning, Addresses, Strings
      <3> HIDE DEF Meanings
      <3>4. QED
        BY <3>1, <3>2, <3>3
    <2>5. QED
      BY <2>3, <2>4
  <1>11. \A k \in 1 .. n : specs[k].at = "low_pc" => items[k].form \in Addresses
    BY <1>7, <1>8
  <1>12. BasesIn(die, items, n, section.refs)
    BY <1>3, <1>6, <1>9, <1>10, <1>11 DEF BasesIn
  <1>13. QED
    BY <1>12 DEF die, specs

\* The bases of a sound unit are found, if .debug_addr is.
LEMMA SoundFound ==
  ASSUME NEW c, NEW u, u = UnitAt(c.start), IsUnit(u), section.slack \in Nat, IsRefs(section.refs),
         Sound(u, WrongSize), ~HasNoDie(u)
  PROVE  LET r == BaseFields(DieIn(u, 1), EnvFor(c), AttrList(DieIn(u, 1)))
         IN r.res \in {"ok", "wants"} \/ got["addr"] \notin {"none", "ok"}
  <1> DEFINE env == EnvFor(c)
             die == DieIn(u, 1)
             items == u.values[1]
             n == Len(Specs(u, 1))
  <1>1. PICK pl : Laid(die, items, n, pl)
    BY SoundLaid
  <1>2. BasesIn(die, items, n, section.refs)
    BY SoundBases
  <1>3. /\ env = [start |-> env.start, size |-> env.size, version |-> env.version,
                  bases |-> env.bases, refs |-> env.refs, got |-> env.got]
        /\ env.refs = section.refs /\ env.got = got
    <2> DEFINE x == UnitAt(c.start).at
               y == SizeOf(UnitAt(c.start))
               z == UnitAt(c.start).version
    <2>1. env = [start |-> x, size |-> y, version |-> z, bases |-> c.bases, refs |-> section.refs, got |-> got]
      BY DEF EnvFor
    <2> HIDE DEF x, y, z, env
    <2>2. QED
      BY <2>1
  <1> HIDE DEF env, die, items, n
  <1>4. IsRefs(env.refs) /\ BasesIn(die, items, n, env.refs)
    BY <1>2, <1>3
  <1>5. LET r == BaseFields(die, env, AttrList(die))
        IN \/ r.res \in {"ok", "wants"}
           \/ env.got["addr"] \notin {"none", "ok"}
    BY <1>1, <1>3, <1>4, BasesReadable
  <1>6. QED
    BY <1>3, <1>5 DEF env, die

-----------------------------------------------------------------------------
(* The units are those of the input.                                       *)

AllUnits == UNION {Range(s.units) : s \in Sections}
SoundUnits == {u \in AllUnits : Sound(u, WrongSize)}
UnitIn(us, o) == us[CHOOSE k \in DOMAIN us : us[k].at = o]

\* What there is in a section stays.
LEMMA SoundStays ==
  ASSUME section' = section
  PROVE  SoundUnits' = SoundUnits
  <1>1. \A o : UnitAt(o)' = UnitAt(o)
    <2>1. ASSUME NEW o PROVE UnitAt(o)' = UnitAt(o)
      <3>1. UnitAt(o) = UnitIn(section.units, o)
        BY DEF UnitAt, UnitIn
      <3>2. UnitAt(o)' = UnitIn(section'.units, o)
        BY DEF UnitAt, UnitIn
      <3>3. QED
        BY <3>1, <3>2
    <2>2. QED
      BY <2>1
  <1>2. \A o : EndOf(o)' = EndOf(o)
    BY <1>1 DEF EndOf
  <1>3. SectionSize' = SectionSize /\ section'.slack = section.slack /\ section'.refs = section.refs
    BY DEF SectionSize
  <1>4. \A u, d : DieIn(u, d)' = DieIn(u, d)
    <2>1. ASSUME NEW u, NEW d PROVE DieIn(u, d)' = DieIn(u, d)
      <3>1. EndOf(u.at)' = EndOf(u.at)
        BY <1>2
      <3>2. QED
        BY <1>3, <3>1 DEF DieIn
    <2>2. QED
      BY <2>1
  <1>5. \A u, d, k : Readable(u, d, k)' <=> Readable(u, d, k)
    BY <1>4 DEF Readable
  <1>6. \A u, d, x : Meant(u, d, x)' = Meant(u, d, x)
    BY <1>3, <1>5 DEF Meant
  <1>7. \A u : Sound(u, WrongSize)' <=> Sound(u, WrongSize)
    <2>1. ASSUME NEW u PROVE Sound(u, WrongSize)' <=> Sound(u, WrongSize)
      <3>1. Meant(u, 1, "low_pc")' = Meant(u, 1, "low_pc")
        BY <1>6
      <3>2. DieIn(u, 1)' = DieIn(u, 1)
        BY <1>4
      <3>3. QED
        BY <1>5, <3>1, <3>2 DEF Sound
    <2>2. QED
      BY <2>1
  <1>8. QED
    BY <1>7 DEF SoundUnits

\* What is assumed of a unit of the section.
LEMMA UnitFacts ==
  ASSUME section \in Sections, NEW k \in DOMAIN section.units
  PROVE  LET u == section.units[k]
         IN /\ IsUnit(u) /\ u \in AllUnits /\ u.at = Start(k)
            /\ Coded(u.abbrevs) /\ Len(u.abbrevs) \in Nat /\ Len(u.abbrevs) < MaxRoom /\ MaxRoom \in Nat
            /\ Len(u.dies) \in Nat /\ DOMAIN u.dies = 1 .. Len(u.dies)
            /\ \A d \in DOMAIN u.dies : u.dies[d] \in Nat
            /\ Start(k + 1) = Start(k) + HeaderSize + Len(u.dies)
            /\ section.slack \in Nat /\ IsRefs(section.refs)
  <1> DEFINE u == section.units[k]
  <1>1. IsUnit(u) /\ u.at = Start(k) /\ section.slack \in Nat /\ IsRefs(section.refs) /\ MaxRoom \in Nat
    BY SectionsAssumption DEF Start
  <1>2. u \in AllUnits
    <2>1. section.units \in Seq(Range(section.units))
      BY SectionsAssumption
    <2>2. u \in Range(section.units)
      BY <2>1
    <2>3. QED
      BY <2>2 DEF AllUnits
  <1>3. /\ u.abbrevs \in Seq(Abbreviation) /\ Len(u.abbrevs) < MaxRoom
        /\ \A j \in DOMAIN u.abbrevs : \A i \in 1 .. j - 1 : u.abbrevs[i].code # u.abbrevs[j].code
        /\ u.dies \in Seq(0 .. Base - 1)
    BY <1>1, Zenon DEF IsUnit
  <1> HIDE DEF u
  <1>4. Coded(u.abbrevs)
    BY <1>3 DEF Coded
  <1>5. Len(u.abbrevs) \in Nat
    BY <1>3
  <1>6. Len(u.dies) \in Nat /\ DOMAIN u.dies = 1 .. Len(u.dies) /\ \A d \in DOMAIN u.dies : u.dies[d] \in Nat
    <2>1. \A x \in 0 .. Base - 1 : x \in Nat
      OBVIOUS
    <2> DEFINE ds == u.dies
               all == 0 .. Base - 1
    <2>2. ds \in Seq(all) /\ \A x \in all : x \in Nat
      BY <1>3, <2>1
    <2> HIDE DEF ds, all
    <2>3. Len(ds) \in Nat /\ DOMAIN ds = 1 .. Len(ds) /\ \A d \in DOMAIN ds : ds[d] \in Nat
      BY <2>2
    <2>4. QED
      BY <2>3 DEF ds
  <1>7. Start(k + 1) = Start(k) + HeaderSize + Len(u.dies)
    <2>1. k \in Nat /\ k + 1 # 1 /\ k + 1 - 1 = k
      BY UnitsGiven
    <2>2. Start(k + 1) = u.at + SizeOf(u)
      BY <2>1 DEF Start, StartOf, u
    <2>3. u.at \in Nat /\ HeaderSize \in Nat
      BY UnitsGiven DEF u
    <2>4. QED
      BY <1>1, <1>6, <2>2, <2>3 DEF SizeOf
  <1>8. QED
    BY <1>1, <1>2, <1>3, <1>4, <1>5, <1>6, <1>7 DEF u

\* A context of a unit with the given abbreviations.
ContextFor(c, ab) == {"table", "last"} \subseteq DOMAIN c /\ TableFor(c.table, c.last, ab)

\* An empty table is a table of any abbreviations.
LEMMA EmptyTable ==
  ASSUME NEW ab, Len(ab) \in Nat
  PROVE  TableFor(NewTable, 1, ab)
  <1>1. NewTable = [slots |-> NoSlots, total |-> 0]
    BY DEF NewTable
  <1>2. NewTable.slots = NoSlots /\ NewTable.total = 0
    BY <1>1
  <1>3. NewTable = [slots |-> NewTable.slots, total |-> NewTable.total] /\ NewTable.total \in Nat
    BY <1>1, <1>2
  <1>4. QED
    BY <1>2, <1>3 DEF TableFor

\* What a lookup does to a context and finds, and when it has not lacked memory.
LEMMA LookedUpFor ==
  ASSUME section \in Sections, NEW k \in DOMAIN section.units, NEW c, c.start = Start(k),
         ContextFor(c, section.units[k].abbrevs), NEW code \in Nat, NEW room \in 0 .. MaxRoom
  PROVE  LET r == LookedUp(c, code, room)
             u == section.units[k]
         IN /\ ContextFor(r.context, u.abbrevs)
            /\ r.result = "ok" => r.entry \in DOMAIN u.abbrevs /\ u.abbrevs[r.entry].code = code
            /\ Abbreviated(u, code) /\ ~r.lacking => r.result = "ok"
  <1> DEFINE u == section.units[k]
             ab == u.abbrevs
             table == c.table
             last == c.last
             l == Lookup(table, last, ab, code, room)
             most == Lookup(table, last, ab, code, MaxRoom)
             r == LookedUp(c, code, room)
             d == [c EXCEPT !.table = l.table, !.last = l.last]
  <1>1. UnitAt(c.start) = u
    BY UnitThere DEF u
  <1>2. Coded(ab) /\ Len(ab) \in Nat /\ Len(ab) < MaxRoom /\ MaxRoom \in Nat /\ room \in Nat
    BY UnitFacts
  <1>3. TableFor(table, last, ab) /\ {"table", "last"} \subseteq DOMAIN c
    BY DEF ContextFor
  <1>4. r = [context |-> d, result |-> l.result, entry |-> l.entry, lacking |-> l # most]
    BY <1>1 DEF LookedUp
  <1> HIDE DEF u, ab, table, last
  <1>5. LooksUp(l, ab, code, room) /\ LooksUp(most, ab, code, MaxRoom)
    BY <1>2, <1>3, LookupKeeps
  <1> HIDE DEF l, most
  <1>6. /\ TableFor(l.table, l.last, ab)
        /\ l.result = "ok" => l.entry \in DOMAIN ab /\ ab[l.entry].code = code
        /\ CanBeReached(ab, code) => most.result = "ok"
    BY <1>2, <1>5 DEF LooksUp
  <1>7. ContextFor(d, ab)
    <2>1. DOMAIN d = DOMAIN c /\ d.table = l.table /\ d.last = l.last
      BY <1>3
    <2> HIDE DEF d
    <2>2. QED
      BY <1>3, <1>6, <2>1 DEF ContextFor, table, last
  <1>8. r.context = d /\ r.result = l.result /\ r.entry = l.entry /\ (r.lacking <=> l # most)
    <2> HIDE DEF d, r
    <2>1. QED
      BY <1>4, Zenon
  <1> HIDE DEF d, r
  <1>9. Abbreviated(u, code) /\ ~r.lacking => r.result = "ok"
    BY <1>6, <1>8 DEF Abbreviated, CanBeReached, ab
  <1>10. QED
    BY <1>6, <1>7, <1>8, <1>9 DEF u, r, ab

-----------------------------------------------------------------------------
(* Where DIEs are.                                                         *)

HasDie(s, o) ==
  \E k \in DOMAIN s.units : \E d \in DOMAIN s.units[k].dies : o = s.units[k].at + HeaderSize + d - 1
DieOf(us, k, o) == \E d \in DOMAIN us[k].dies : o = StartOf(us, k) + HeaderSize + d - 1
Within(us, k, o) == StartOf(us, k) <= o /\ o < StartOf(us, k + 1)

\* A DIE lies in its unit.
LEMMA DieWithin ==
  ASSUME section \in Sections, NEW k \in DOMAIN section.units, NEW o, DieOf(section.units, k, o)
  PROVE  /\ o \in Nat /\ Within(section.units, k, o) /\ Start(k) + HeaderSize <= o
         /\ o - Start(k) - HeaderSize + 1 \in DOMAIN section.units[k].dies
  <1> DEFINE u == section.units[k]
             n == Len(u.dies)
             a == Start(k)
             b == Start(k + 1)
  <1>1. n \in Nat /\ DOMAIN u.dies = 1 .. n /\ b = a + HeaderSize + n
    BY UnitFacts
  <1>2. a \in Nat /\ HeaderSize \in Nat
    BY UnitThere, StartsRise, UnitsGiven
  <1>3. PICK d \in 1 .. n : o = a + HeaderSize + d - 1
    BY <1>1 DEF DieOf, Start
  <1> HIDE DEF n, a, b
  <1>4. o \in Nat /\ a <= o /\ o < b /\ a + HeaderSize <= o /\ o - a - HeaderSize + 1 \in 1 .. n
    BY <1>1, <1>2, <1>3
  <1>5. QED
    BY <1>1, <1>4 DEF a, b, Start, Within

\* No place is in two units.
LEMMA OneUnit ==
  ASSUME section \in Sections, NEW j \in DOMAIN section.units, NEW k \in DOMAIN section.units,
         NEW o \in Nat, Within(section.units, j, o), Within(section.units, k, o)
  PROVE  j = k
  <1>1. /\ j \in Turn /\ j + 1 \in Turn /\ k \in Turn /\ k + 1 \in Turn
        /\ j \in Nat /\ k \in Nat
    BY UnitThere, UnitsGiven
  <1>2. /\ Start(j) \in Nat /\ Start(k) \in Nat /\ Start(j + 1) \in Nat /\ Start(k + 1) \in Nat
        /\ Start(j) <= o /\ o < Start(j + 1) /\ Start(k) <= o /\ o < Start(k + 1)
    BY <1>1, StartsRise DEF Within, Start
  <1>3. ASSUME NEW i \in DOMAIN section.units, NEW l \in DOMAIN section.units, i < l,
               i \in Turn, i + 1 \in Turn, l \in Turn, i \in Nat, l \in Nat
        PROVE  Start(i + 1) <= Start(l)
    <2>1. Start(i + 1) \in Nat /\ Start(l) \in Nat
      BY <1>3, StartsRise
    <2>2. CASE i + 1 = l
      BY <2>1, <2>2
    <2>3. CASE i + 1 # l
      <3>1. i + 1 < l
        BY <1>3, <2>3
      <3>2. Start(i + 1) < Start(l)
        BY <1>3, <3>1, StartsOrdered
      <3>3. QED
        BY <2>1, <3>2
    <2>4. QED
      BY <2>2, <2>3
  <1>4. ~ (j < k)
    <2> SUFFICES ASSUME j < k PROVE FALSE
      OBVIOUS
    <2>1. Start(j + 1) <= Start(k)
      BY <1>1, <1>3
    <2>2. QED
      BY <1>2, <2>1
  <1>5. ~ (k < j)
    <2> SUFFICES ASSUME k < j PROVE FALSE
      OBVIOUS
    <2>1. Start(k + 1) <= Start(j)
      BY <1>1, <1>3
    <2>2. QED
      BY <1>2, <2>1
  <1>6. QED
    BY <1>1, <1>4, <1>5

\* The unit of a DIE.
LEMMA UnitOfDie ==
  ASSUME section \in Sections, NEW o, HasDie(section, o)
  PROVE  \E k \in DOMAIN section.units : DieOf(section.units, k, o) /\ Within(section.units, k, o) /\ o \in Nat
  <1>1. PICK k \in DOMAIN section.units :
          \E d \in DOMAIN section.units[k].dies : o = section.units[k].at + HeaderSize + d - 1
    BY DEF HasDie
  <1>2. section.units[k].at = StartOf(section.units, k)
    BY UnitsGiven DEF Start
  <1>3. DieOf(section.units, k, o)
    BY <1>1, <1>2 DEF DieOf
  <1>4. QED
    BY <1>3, DieWithin

\* A DIE of a unit is one of the section.
LEMMA DieOfUnit ==
  ASSUME section \in Sections, NEW k \in DOMAIN section.units, NEW o, DieOf(section.units, k, o)
  PROVE  HasDie(section, o)
  <1>1. section.units[k].at = StartOf(section.units, k)
    BY UnitsGiven DEF Start
  <1>2. QED
    BY <1>1 DEF HasDie, DieOf

\* The section does not end before its last unit does.
LEMMA EndBehind ==
  ASSUME section \in Sections, NEW k \in Turn
  PROVE  SectionSize \in Nat /\ Start(k) <= SectionSize
  <1> DEFINE e == Len(section.units) + 1
             last == Start(e)
  <1>1. section.slack \in Nat
    BY SectionsAssumption
  <1>2. Len(section.units) \in Nat /\ e \in Turn /\ k \in Turn
    BY UnitsGiven DEF Turn
  <1>3. last \in Nat /\ Start(k) \in Nat
    BY <1>2, StartsRise
  <1>4. SectionSize = last + section.slack
    BY DEF SectionSize, Start
  <1>5. Start(k) <= last
    <2>1. CASE k = e
      BY <1>3, <2>1
    <2>2. CASE k # e
      <3>1. k < e
        BY <1>2, <2>2 DEF Turn
      <3> HIDE DEF e
      <3>2. Start(k) < last
        BY <1>2, <3>1, StartsOrdered
      <3>3. QED
        BY <1>3, <3>2
    <2>3. QED
      BY <2>1, <2>2
  <1> HIDE DEF last
  <1>6. QED
    BY <1>1, <1>3, <1>4, <1>5

\* An offset that is asked for, within a unit, is that of a DIE of it.
LEMMA DieHere ==
  ASSUME section \in Sections, NEW k \in DOMAIN section.units, NEW o, Within(section.units, k, o),
         HasDie(section, o) \/ o = SectionSize
  PROVE  DieOf(section.units, k, o)
  <1>1. k + 1 \in Turn
    BY UnitThere
  <1>2. Start(k + 1) \in Nat /\ SectionSize \in Nat /\ Start(k + 1) <= SectionSize
    BY <1>1, StartsRise, EndBehind
  <1>3. o # SectionSize
    <2> SUFFICES ASSUME o = SectionSize PROVE FALSE
      OBVIOUS
    <2>1. o < Start(k + 1)
      BY DEF Within, Start
    <2>2. QED
      BY <1>2, <2>1
  <1>4. PICK j \in DOMAIN section.units :
          DieOf(section.units, j, o) /\ Within(section.units, j, o) /\ o \in Nat
    BY <1>3, UnitOfDie
  <1>5. j = k
    BY <1>4, OneUnit
  <1>6. QED
    BY <1>4, <1>5

-----------------------------------------------------------------------------
(* The tables of the contexts.                                             *)

\* Each context of the list has a table of its unit's abbreviations.
ListHeld == \A j \in DOMAIN list : ContextFor(list[j], section.units[j].abbrevs)

\* So has the context that is made, once its header has been read; nothing is
\* looked up for a unit without a DIE.
FreshHeld ==
  /\ upc \in Making => {"table", "last"} \subseteq DOMAIN fresh
  /\ upc = "make" => fresh.table = NewTable /\ fresh.last = 1
  /\ upc \in Making \ {"make"} => ContextFor(fresh, section.units[Len(list) + 1].abbrevs)
  /\ upc \in {"attrs", "bases"} => ~HasNoDie(section.units[Len(list) + 1])

TablesHeld == ListHeld /\ FreshHeld

\* A new context has an empty table.
LEMMA NewHeld ==
  ASSUME NEW o, upc' = "make", fresh' = ContextAt(o)
  PROVE  FreshHeld'
  <1>1. /\ DOMAIN ContextAt(o) = {"start", "table", "last", "bases"}
        /\ ContextAt(o).table = NewTable /\ ContextAt(o).last = 1
    BY DEF ContextAt, NoContext
  <1>2. QED
    BY <1>1 DEF FreshHeld

\* A lookup with a context of the list.
LEMMA LookupHeld ==
  ASSUME Chained, ListHeld, NEW j \in DOMAIN list, NEW code \in Nat, NEW room \in 0 .. MaxRoom,
         section' = section, list' = [list EXCEPT ![j] = LookedUp(list[j], code, room).context]
  PROVE  ListHeld' /\ Len(list') = Len(list) /\ DOMAIN list' = DOMAIN list
  <1> DEFINE d == LookedUp(list[j], code, room).context
  <1>1. DOMAIN list' = DOMAIN list /\ Len(list') = Len(list)
    BY ListTyped DEF Chained
  <1>2. ContextFor(d, section.units[j].abbrevs)
    <2>1. j \in DOMAIN section.units /\ list[j].start = Start(j) /\ section \in Sections
      BY ListPlaces DEF Chained
    <2>2. ContextFor(list[j], section.units[j].abbrevs)
      BY DEF ListHeld
    <2>3. QED
      BY <2>1, <2>2, LookedUpFor
  <1> HIDE DEF d
  <1>3. ASSUME NEW i \in DOMAIN list'
        PROVE  ContextFor(list'[i], section'.units[i].abbrevs)
    <2>1. CASE i = j
      <3>1. list'[i] = d
        BY <1>1, <2>1 DEF d
      <3>2. QED
        BY <1>2, <2>1, <3>1
    <2>2. CASE i # j
      <3>1. list'[i] = list[i]
        BY <1>1, <2>2
      <3>2. QED
        BY <1>1, <3>1 DEF ListHeld
    <2>3. QED
      BY <2>1, <2>2
  <1>4. ListHeld'
    BY <1>3 DEF ListHeld
  <1>5. QED
    BY <1>1, <1>4

\* A context that is complete.
LEMMA CompleteHeld ==
  ASSUME Chained, ListHeld, upc \in Making \ {"make"}, NEW d, d.start = fresh.start, Complete(d),
         ContextFor(d, section.units[Len(list) + 1].abbrevs)
  PROVE  TablesHeld'
  <1> DEFINE n == Len(list)
  <1>1. /\ IsList(list') /\ Len(list') = n + 1 /\ list'[n + 1] = d /\ n \in Nat
        /\ \A j \in DOMAIN list : list'[j] = list[j]
    BY InsertedLast
  <1>2. DOMAIN list' = 1 .. n + 1 /\ DOMAIN list = 1 .. n /\ section' = section
    BY <1>1, ListTyped DEF Chained, Complete
  <1>3. ASSUME NEW j \in DOMAIN list'
        PROVE  ContextFor(list'[j], section'.units[j].abbrevs)
    <2>1. j = n + 1 \/ j \in DOMAIN list
      <3> HIDE DEF n
      <3>1. QED
        BY <1>1, <1>2
    <2>2. CASE j = n + 1
      BY <1>1, <1>2, <2>2
    <2>3. CASE j \in DOMAIN list
      BY <1>1, <1>2, <2>3 DEF ListHeld
    <2>4. QED
      BY <2>1, <2>2, <2>3
  <1>4. ListHeld'
    BY <1>3 DEF ListHeld
  <1>5. FreshHeld'
    <2>1. CASE call.op = "next" \/ ~ (call.offset >= EndOf(d.start))
      <3>1. upc' \in {"idle", "die"}
        BY <2>1 DEF Complete, Answer
      <3>2. QED
        BY <3>1 DEF FreshHeld, Making
    <2>2. CASE call.op # "next" /\ call.offset >= EndOf(d.start)
      <3>1. upc' = "make" /\ fresh' = ContextAt(EndOf(d.start))
        BY <2>2 DEF Complete
      <3>2. QED
        BY <3>1, NewHeld
    <2>3. QED
      BY <2>1, <2>2
  <1>6. QED
    BY <1>4, <1>5 DEF TablesHeld

\* Nothing is being made.
LEMMA NoneMade ==
  ASSUME ListHeld, list' = list, section' = section, upc' \notin Making
  PROVE  TablesHeld'
  BY DEF TablesHeld, ListHeld, FreshHeld, Making

\* The unit that is being made, after its header has been read.
LEMMA NewUnit ==
  ASSUME Chained, upc \in Making \ {"make"}
  PROVE  LET k == Len(list) + 1
         IN /\ k \in DOMAIN section.units /\ new = section.units[k] /\ fresh.start = Start(k)
            /\ "start" \in DOMAIN fresh
            /\ new.at = Start(k) /\ SizeOf(new) \in Nat /\ EndOf(fresh.start) = Start(k + 1)
            /\ codeOfNew = new.dies[1]
  <1> DEFINE k == Len(list) + 1
             n == Len(list)
             m == Len(section.units)
  <1>1. section \in Sections /\ n < m /\ fresh.start = Start(k) /\ "start" \in DOMAIN fresh
    BY DEF Chained, Making
  <1>2. n \in Nat /\ m \in Nat /\ DOMAIN section.units = 1 .. m
    BY ListPlaces
  <1>3. k \in DOMAIN section.units
    <2> HIDE DEF n, m
    <2>1. QED
      BY <1>1, <1>2 DEF n
  <1>4. new = section.units[k] /\ EndOf(fresh.start) = Start(k + 1)
    BY <1>1, <1>3, UnitThere DEF new
  <1>5. new.at = Start(k) /\ SizeOf(new) \in Nat
    BY <1>1, <1>3, <1>4, UnitsGiven
  <1>6. codeOfNew = new.dies[1]
    <2>1. fresh.start \in Nat /\ HeaderSize \in Nat
      <3>1. k \in Turn
        BY <1>1, <1>3, UnitThere
      <3>2. QED
        BY <1>1, <3>1, StartsRise, UnitsGiven
    <2> DEFINE i == (fresh.start + HeaderSize) - fresh.start - HeaderSize + 1
    <2>2. i = 1
      BY <2>1
    <2>3. codeOfNew = new.dies[i]
      BY DEF codeOfNew, CodeAt, new
    <2> HIDE DEF i
    <2>4. QED
      BY <2>2, <2>3
  <1>7. QED
    BY <1>1, <1>3, <1>4, <1>5, <1>6

\* The making of a context goes on with what a lookup has left.
LEMMA ProceedHeld ==
  ASSUME Chained, TablesHeld, upc \in Making \ {"make"}, ~HasNoDie(new), NEW room \in 0 .. MaxRoom,
         NEW next \in {"attrs", "bases"}, Proceed(LookedUp(fresh, codeOfNew, room).context, next)
  PROVE  TablesHeld'
  <1> DEFINE k == Len(list) + 1
             d == LookedUp(fresh, codeOfNew, room).context
             ab == section.units[k].abbrevs
  <1>1. /\ k \in DOMAIN section.units /\ new = section.units[k] /\ fresh.start = Start(k)
        /\ codeOfNew = new.dies[1]
    BY NewUnit
  <1>2. section \in Sections
    BY DEF Chained
  <1>3. codeOfNew \in Nat
    <2>1. new.dies # <<>> /\ IsUnit(new)
      BY <1>1, <1>2, UnitFacts DEF HasNoDie
    <2>2. new.dies \in Seq(0 .. Base - 1)
      BY <2>1, Zenon DEF IsUnit
    <2>3. 1 \in DOMAIN new.dies
      BY <2>1, <2>2
    <2>4. QED
      BY <1>1, <1>2, <2>3, UnitFacts
  <1>4. ContextFor(fresh, ab)
    BY DEF TablesHeld, FreshHeld
  <1>5. ContextFor(d, ab)
    BY <1>1, <1>2, <1>3, <1>4, LookedUpFor
  <1> HIDE DEF d
  <1>6. UNCHANGED <<section, list>> /\ fresh' = d /\ upc' = next
    BY DEF Proceed, d
  <1>7. ListHeld'
    BY <1>6 DEF TablesHeld, ListHeld
  <1>8. FreshHeld'
    <2>1. {"table", "last"} \subseteq DOMAIN d
      BY <1>5 DEF ContextFor
    <2>2. ~HasNoDie(section.units[k])
      BY <1>1
    <2>3. upc' # "make" /\ ContextFor(fresh', section'.units[Len(list') + 1].abbrevs)
      BY <1>5, <1>6
    <2>4. ~HasNoDie(section'.units[Len(list') + 1])
      BY <1>6, <2>2
    <2>5. QED
      BY <1>6, <2>1, <2>3, <2>4 DEF FreshHeld, HasNoDie
  <1>9. QED
    BY <1>7, <1>8 DEF TablesHeld

-----------------------------------------------------------------------------
(* The call, and the DIE that it has come to.                              *)

\* The call is at a DIE of its unit.
AtDie(us, j, c) == c.unit = StartOf(us, j) /\ DieOf(us, j, c.offset)

FieldsNoted ==
  {"op", "offset", "unit", "query"} \subseteq DOMAIN call /\ {"result", "entry", "value"} \subseteq DOMAIN answer

\* dwarf_offdie_b() makes contexts until it comes to a DIE, or for an offset at
\* the end; the DIE is not in a unit that has been passed.
MakingNoted ==
  upc \in Making /\ call.op # "next" =>
    /\ call.op = "offdie" /\ call.unit = Start(Len(list) + 1)
    /\ call.offset \in Nat /\ Start(Len(list) + 1) <= call.offset
    /\ HasDie(section, call.offset) \/ call.offset = SectionSize

\* What is read is a DIE of a unit with a context, or what comes first in one.
DieNoted ==
  upc = "die" =>
    \E j \in DOMAIN list :
      \/ call.op = "offdie" /\ AtDie(section.units, j, call)
      \/ call.op = "unit_die" /\ call.unit = Start(j) /\ call.offset = Start(j) + HeaderSize

\* What is asked is asked of a DIE.
AskNoted ==
  /\ upc = "ask" => call.op = "ask"
  /\ upc \in {"idle", "ask"} /\ answer.entry # 0 => \E j \in DOMAIN list : AtDie(section.units, j, call)

CallNoted == FieldsNoted /\ MakingNoted /\ DieNoted /\ AskNoted

\* The context of a unit is found by where the unit starts.
LEMMA IndexThere ==
  ASSUME Chained, NEW j \in DOMAIN list
  PROVE  IndexOf(Start(j)) = j /\ j \in DOMAIN section.units
  <1> DEFINE f == CHOOSE i \in DOMAIN list : list[i].start = Start(j)
  <1>1. /\ section \in Sections /\ \A i \in DOMAIN list : list[i].start = Start(i) /\ i \in DOMAIN section.units
    BY ListPlaces DEF Chained
  <1>2. f \in DOMAIN list /\ list[f].start = Start(j)
    BY <1>1
  <1>3. f = IndexOf(Start(j))
    BY DEF IndexOf
  <1> HIDE DEF f
  <1>4. Start(f) = Start(j) /\ f \in DOMAIN section.units /\ j \in DOMAIN section.units
    BY <1>1, <1>2
  <1>5. f \in Turn /\ j \in Turn /\ Start(j) \in Nat /\ f \in Nat /\ j \in Nat
    BY <1>1, <1>4, UnitThere, StartsRise, UnitsGiven, SMTT(30)
  <1>6. ~ (f < j) /\ ~ (j < f)
    BY <1>1, <1>4, <1>5, StartsOrdered
  <1>7. QED
    BY <1>3, <1>4, <1>5, <1>6

\* The DIE that a call is at.
LEMMA DieOfCall ==
  ASSUME Chained, NEW j \in DOMAIN list, AtDie(section.units, j, call)
  PROVE  LET u == section.units[j]
             d == call.offset - u.at - HeaderSize + 1
         IN /\ j \in DOMAIN section.units /\ IndexOf(call.unit) = j
            /\ call.unit = u.at /\ UnitAt(call.unit) = u /\ d \in DOMAIN u.dies
            /\ CodeAt(call.unit, call.offset) = u.dies[d] /\ u.dies[d] \in Nat
            /\ Within(section.units, j, call.offset) /\ HasDie(section, call.offset)
            /\ ~ (call.offset >= EndOf(call.unit))
  <1> DEFINE u == section.units[j]
  <1>1. call.unit = Start(j) /\ DieOf(section.units, j, call.offset) /\ section \in Sections
    BY DEF AtDie, Start, Chained
  <1>2. IndexOf(call.unit) = j /\ j \in DOMAIN section.units
    BY <1>1, IndexThere
  <1>3. UnitAt(call.unit) = u /\ u.at = Start(j) /\ EndOf(call.unit) = Start(j + 1)
        /\ j \in Turn /\ j + 1 \in Turn
    BY <1>1, <1>2, UnitThere, UnitsGiven
  <1>4. /\ call.offset \in Nat /\ Within(section.units, j, call.offset)
        /\ call.offset - Start(j) - HeaderSize + 1 \in DOMAIN u.dies
    BY <1>1, <1>2, DieWithin
  <1>5. HasDie(section, call.offset)
    BY <1>1, <1>2, DieOfUnit
  <1>6. CodeAt(call.unit, call.offset) = u.dies[call.offset - Start(j) - HeaderSize + 1]
    BY <1>1, <1>3 DEF CodeAt
  <1>7. u.dies[call.offset - Start(j) - HeaderSize + 1] \in Nat
    BY <1>1, <1>2, <1>4, UnitFacts
  <1>8. ~ (call.offset >= EndOf(call.unit))
    <2>1. Start(j + 1) \in Nat /\ call.offset < Start(j + 1)
      BY <1>1, <1>3, <1>4, StartsRise DEF Within, Start
    <2>2. QED
      BY <1>3, <1>4, <2>1
  <1>9. u.at = Start(j) /\ call.unit = u.at
    BY <1>1, <1>3
  <1>10. QED
    BY <1>2, <1>3, <1>4, <1>5, <1>6, <1>7, <1>8, <1>9

\* A DIE that is read is one of its unit, the null entry left aside.
LEMMA DieRead ==
  ASSUME Chained, CallNoted, upc = "die", ~ (call.offset >= EndOf(call.unit))
  PROVE  \E j \in DOMAIN list : AtDie(section.units, j, call)
  <1>1. PICK j \in DOMAIN list :
          \/ call.op = "offdie" /\ AtDie(section.units, j, call)
          \/ call.op = "unit_die" /\ call.unit = Start(j) /\ call.offset = Start(j) + HeaderSize
    BY DEF CallNoted, DieNoted
  <1>2. CASE AtDie(section.units, j, call)
    BY <1>2
  <1>3. CASE call.unit = Start(j) /\ call.offset = Start(j) + HeaderSize
    <2> DEFINE us == section.units
               n == Len(us[j].dies)
               a == Start(j)
               b == Start(j + 1)
    <2>1. section \in Sections /\ j \in DOMAIN us
      BY IndexThere DEF Chained
    <2>2. /\ n \in Nat /\ DOMAIN us[j].dies = 1 .. n
          /\ Start(j + 1) = Start(j) + HeaderSize + n
      BY <2>1, UnitFacts
    <2>3. a \in Nat /\ b \in Nat /\ HeaderSize \in Nat /\ EndOf(call.unit) = b
      BY <1>3, <2>1, UnitThere, StartsRise, UnitsGiven
    <2>4. b = a + HeaderSize + n /\ ~ (a + HeaderSize >= b)
      BY <1>3, <2>2, <2>3
    <2> HIDE DEF a, b, n
    <2>5. 1 \in 1 .. n /\ a + HeaderSize = a + HeaderSize + 1 - 1
      BY <2>2, <2>3, <2>4
    <2>6. DieOf(us, j, a + HeaderSize)
      <3>1. \E d \in DOMAIN us[j].dies : a + HeaderSize = a + HeaderSize + d - 1
        BY <2>2, <2>5
      <3>2. QED
        BY <3>1 DEF DieOf, a, Start
    <2>7. QED
      BY <1>3, <2>6 DEF AtDie, a, Start
  <1>4. QED
    BY <1>1, <1>2, <1>3

\* A search for an offset finds a context whose unit holds it, unless there is
\* none, or the offset is behind all that have been read.
LEMMA FindHolds ==
  ASSUME Chained, NEW o
  PROVE  /\ Find(o) # 0 => Find(o) \in Holding(o)
         /\ Find(o) = 0 => o >= lastOffset \/ Holding(o) = {}
  <1> DEFINE ahead == {j \in Holding(o) : current # None /\ current <= list[j].start}
  <1>1. Holding(o) \subseteq Nat \ {0}
    <2>1. Len(list) \in Nat /\ DOMAIN list = 1 .. Len(list)
      BY ListPlaces
    <2>2. DOMAIN list \subseteq Nat \ {0}
      BY <2>1
    <2>3. QED
      BY <2>2 DEF Holding
  <1>2. ahead \subseteq Holding(o)
    OBVIOUS
  <1>3. Find(o) = IF o >= lastOffset \/ Holding(o) = {} THEN 0
                  ELSE IF ahead # {} THEN Min(ahead) ELSE Min(Holding(o))
    BY DEF Find
  <1> HIDE DEF ahead
  <1>4. ahead \subseteq Nat
    BY <1>1, <1>2
  <1>5. (ahead # {} => Min(ahead) \in ahead) /\ (Holding(o) # {} => Min(Holding(o)) \in Holding(o))
    BY <1>1, <1>4, MinIn
  <1>6. QED
    BY <1>1, <1>2, <1>3, <1>5

\* Offsets that are asked for.
LEMMA OffsetAsked ==
  ASSUME NEW o \in Offsets, section \in Sections
  PROVE  o \in Nat /\ (HasDie(section, o) \/ o = SectionSize)
  <1>1. o \in 0 .. SectionSize /\ (DieAt(o) \/ o = SectionSize)
    BY DEF Offsets
  <1>2. DieAt(o) => HasDie(section, o)
    BY DEF DieAt, HasDie
  <1>3. QED
    BY <1>1, <1>2

\* Where there is no context yet, none of the units that have one is asked for.
LEMMA FoundBehind ==
  ASSUME Chained, NEW o \in Offsets, Find(o) = 0
  PROVE  Start(Len(list) + 1) <= o
  <1> DEFINE n == Len(list)
             m == Len(section.units)
             end == Start(n + 1)
  <1>1. /\ section \in Sections /\ n \in Nat /\ m \in Nat /\ n <= m /\ end \in Nat
        /\ DOMAIN list = 1 .. n /\ DOMAIN section.units = 1 .. m
        /\ lastOffset \in Nat /\ end <= lastOffset
    BY ListPlaces DEF Chained
  <1>2. o \in Nat /\ (HasDie(section, o) \/ o = SectionSize)
    BY <1>1, OffsetAsked
  <1>3. n + 1 \in 1 .. m + 1
    <2> HIDE DEF n, m, end
    <2>1. QED
      BY <1>1
  <1>4. n + 1 \in Turn
    BY <1>3 DEF Turn
  <1>5. CASE o >= lastOffset
    <2> HIDE DEF end
    <2>1. QED
      BY <1>1, <1>2, <1>5 DEF end
  <1>6. CASE o = SectionSize
    BY <1>1, <1>4, <1>6, EndBehind
  <1>7. CASE Holding(o) = {} /\ HasDie(section, o)
    <2>1. PICK k \in DOMAIN section.units : DieOf(section.units, k, o) /\ Within(section.units, k, o)
      BY <1>1, <1>7, UnitOfDie
    <2>2. Start(k) <= o /\ o < Start(k + 1)
      BY <2>1 DEF Within, Start
    <2>3. k \notin DOMAIN list
      <3> SUFFICES ASSUME k \in DOMAIN list PROVE FALSE
        OBVIOUS
      <3>1. list[k].start = Start(k) /\ EndOf(list[k].start) = Start(k + 1)
        BY ListPlaces DEF Chained
      <3>2. k \in Holding(o)
        BY <2>2, <3>1 DEF Holding
      <3>3. QED
        BY <1>7, <3>2
    <2>4. k \in Turn /\ Start(k) \in Nat
      BY <1>1, UnitThere, StartsRise
    <2>5. k = n + 1 \/ n + 1 < k
      <3>1. k \in Nat /\ k \notin 1 .. n /\ k \in 1 .. m
        BY <1>1, <2>3
      <3> HIDE DEF n, m
      <3>2. QED
        BY <1>1, <3>1
    <2>6. end <= Start(k)
      <3>1. CASE k = n + 1
        BY <2>4, <3>1
      <3>2. CASE n + 1 < k
        <4>1. end < Start(k)
          BY <1>1, <1>4, <2>4, <3>2, StartsOrdered
        <4> HIDE DEF end
        <4>2. QED
          BY <1>1, <2>4, <4>1
      <3>3. QED
        BY <2>5, <3>1, <3>2
    <2> HIDE DEF end
    <2>7. QED
      BY <1>1, <1>2, <2>2, <2>4, <2>6 DEF end
  <1>8. QED
    BY <1>2, <1>5, <1>6, <1>7, FindHolds

\* The unit that holds an offset of a DIE is the one that it is a DIE of.
LEMMA FoundAt ==
  ASSUME Chained, NEW o \in Offsets, Find(o) # 0
  PROVE  /\ Find(o) \in DOMAIN list /\ list[Find(o)].start = StartOf(section.units, Find(o))
         /\ DieOf(section.units, Find(o), o)
  <1> DEFINE j == Find(o)
  <1>1. j \in DOMAIN list /\ list[j].start <= o /\ o < EndOf(list[j].start)
    BY FindHolds DEF Holding
  <1> HIDE DEF j
  <1>2. /\ section \in Sections /\ j \in DOMAIN section.units
        /\ list[j].start = StartOf(section.units, j) /\ EndOf(list[j].start) = Start(j + 1)
    BY <1>1, ListPlaces DEF Chained, Start
  <1>3. Within(section.units, j, o)
    BY <1>1, <1>2 DEF Within, Start
  <1>4. DieOf(section.units, j, o)
    BY <1>2, <1>3, DieHere, OffsetAsked
  <1>5. QED
    BY <1>1, <1>2, <1>4 DEF j

\* The call goes on as it is.
LEMMA CallSame ==
  ASSUME CallNoted, section' = section, call' = call, DOMAIN list' = DOMAIN list, Len(list') = Len(list),
         DOMAIN answer' = DOMAIN answer, answer'.entry = answer.entry,
         \/ upc' = upc \/ upc' = "crashed" \/ (upc \in Making /\ upc' \in Making)
         \/ upc = "ask" /\ upc' = "idle"
  PROVE  CallNoted'
  <1>1. FieldsNoted'
    BY DEF CallNoted, FieldsNoted
  <1>2. MakingNoted'
    BY DEF CallNoted, MakingNoted, Making, Start, SectionSize
  <1>3. DieNoted'
    BY DEF CallNoted, DieNoted, Making, Start
  <1>4. AskNoted'
    BY DEF CallNoted, AskNoted, Making
  <1>5. QED
    BY <1>1, <1>2, <1>3, <1>4 DEF CallNoted

\* The call ends without a DIE.
LEMMA CallEnds ==
  ASSUME NEW result, Answer(result, 0), {"op", "offset", "unit", "query"} \subseteq DOMAIN call'
  PROVE  CallNoted'
  <1>1. answer' = [result |-> result, entry |-> 0, value |-> <<>>] /\ upc' = "idle"
    BY DEF Answer
  <1>2. DOMAIN answer' = {"result", "entry", "value"} /\ answer'.entry = 0
    BY <1>1
  <1>3. QED
    BY <1>1, <1>2 DEF CallNoted, FieldsNoted, MakingNoted, DieNoted, AskNoted, Making

\* A call that begins has its parts.
LEMMA CallGiven ==
  ASSUME NEW op, NEW o, NEW unit, Begin(op, o, unit)
  PROVE  /\ DOMAIN call' = {"op", "offset", "unit", "query"} /\ upc = "idle"
         /\ call'.op = op /\ call'.offset = o /\ call'.unit = unit
  <1>1. call' = [op |-> op, offset |-> o, unit |-> unit, query |-> "none"] /\ upc = "idle"
    BY DEF Begin, BeginCall
  <1>2. QED
    BY <1>1

\* Calls that begin and do not end at once.
LEMMA BeginNoted ==
  ASSUME Chained, CallNoted,
         \/ NextHeaderNew \/ UnitDie
         \/ \E o \in Offsets : OffDieKnown(o) \/ OffDieNew(o)
  PROVE  CallNoted'
  <1>1. UNCHANGED <<section, list, answer>> /\ upc' \in {"make", "die"}
    BY DEF NextHeaderNew, UnitDie, OffDieKnown, OffDieNew, contextVars
  <1>2. AskNoted'
    BY <1>1 DEF AskNoted
  <1>3. FieldsNoted /\ section \in Sections
    BY DEF CallNoted, Chained
  <1>4. CASE NextHeaderNew
    <2>1. call'.op = "next" /\ DOMAIN call' = {"op", "offset", "unit", "query"} /\ upc' = "make"
      BY <1>4, CallGiven DEF NextHeaderNew
    <2>2. QED
      BY <1>1, <1>2, <1>3, <2>1 DEF CallNoted, FieldsNoted, MakingNoted, DieNoted
  <1>5. CASE UnitDie
    <2>1. /\ DOMAIN call' = {"op", "offset", "unit", "query"} /\ upc' = "die" /\ call'.op = "unit_die"
          /\ call'.offset = current + HeaderSize /\ call'.unit = current /\ current # None
      BY <1>5, CallGiven DEF UnitDie
    <2>2. seen \in DOMAIN list /\ current = Start(seen)
      <3>1. seen # 0 /\ seen \in 0 .. Len(list) /\ current = Start(seen)
        BY <2>1 DEF Chained
      <3>2. Len(list) \in Nat /\ DOMAIN list = 1 .. Len(list)
        BY ListPlaces
      <3>3. QED
        BY <3>1, <3>2
    <2>3. DieNoted'
      BY <1>1, <2>1, <2>2 DEF DieNoted, Start
    <2>4. QED
      BY <1>1, <1>2, <1>3, <2>1, <2>3 DEF CallNoted, FieldsNoted, MakingNoted, Making
  <1>6. ASSUME NEW o \in Offsets, OffDieKnown(o)
        PROVE  CallNoted'
    <2> DEFINE j == Find(o)
    <2>1. /\ DOMAIN call' = {"op", "offset", "unit", "query"} /\ upc' = "die" /\ call'.op = "offdie"
          /\ call'.offset = o /\ call'.unit = list[j].start /\ j # 0
      BY <1>6, CallGiven DEF OffDieKnown
    <2>2. j \in DOMAIN list /\ list[j].start = StartOf(section.units, j) /\ DieOf(section.units, j, o)
      BY <2>1, FoundAt
    <2> HIDE DEF j
    <2>3. j \in DOMAIN list' /\ AtDie(section'.units, j, call')
      BY <1>1, <2>1, <2>2 DEF AtDie
    <2>4. DieNoted'
      BY <2>1, <2>3 DEF DieNoted
    <2>5. QED
      BY <1>1, <1>2, <1>3, <2>1, <2>4 DEF CallNoted, FieldsNoted, MakingNoted, Making
  <1>7. ASSUME NEW o \in Offsets, OffDieNew(o)
        PROVE  CallNoted'
    <2>1. Chained'
      BY <1>7, OffDieChain
    <2>2. Find(o) = 0 /\ upc' = "make" /\ call'.unit = fresh'.start
          /\ DOMAIN call' = {"op", "offset", "unit", "query"} /\ call'.op = "offdie" /\ call'.offset = o
      <3> DEFINE start == IF list = <<>> THEN 0 ELSE EndOf(list[Len(list)].start)
      <3>1. Find(o) = 0 /\ upc' = "make" /\ Begin("offdie", o, start) /\ fresh' = ContextAt(start)
        BY <1>7 DEF OffDieNew
      <3> HIDE DEF start
      <3>2. fresh'.start = start
        BY <3>1, NewContext
      <3>3. QED
        BY <3>1, <3>2, CallGiven
    <2>3. fresh'.start = Start(Len(list) + 1)
      BY <1>1, <2>1, <2>2 DEF Chained, Making, Start
    <2>4. Start(Len(list) + 1) <= o
      BY <2>2, FoundBehind
    <2>5. o \in Nat /\ (HasDie(section, o) \/ o = SectionSize)
      BY <1>3, OffsetAsked
    <2>6. SectionSize' = SectionSize
      BY <1>1 DEF SectionSize
    <2>7. MakingNoted'
      BY <1>1, <2>2, <2>3, <2>4, <2>5, <2>6 DEF MakingNoted, Start
    <2>8. QED
      BY <1>1, <1>2, <1>3, <2>2, <2>7 DEF CallNoted, FieldsNoted, DieNoted
  <1>8. QED
    BY <1>4, <1>5, <1>6, <1>7

\* A context is complete: the call goes on with the next unit or with the DIE.
LEMMA CompleteNoted ==
  ASSUME Chained, CallNoted, upc \in Making \ {"make"}, NEW d, d.start = fresh.start, Complete(d)
  PROVE  CallNoted'
  <1> DEFINE n == Len(list)
  <1>1. /\ IsList(list') /\ Len(list') = n + 1 /\ d.start = Start(n + 1) /\ EndOf(d.start) = Start(n + 2)
        /\ n \in Nat /\ n + 1 + 1 = n + 2 /\ n + 1 \in DOMAIN section.units
        /\ Start(n + 1) \in Nat /\ Start(n + 2) \in Nat
    BY InsertedLast
  <1>2. section' = section /\ section \in Sections /\ FieldsNoted
    BY DEF Complete, Chained, CallNoted
  <1>3. CASE call.op = "next"
    <2>1. Answer("ok", 0) /\ call' = call
      BY <1>3 DEF Complete
    <2>2. QED
      BY <1>2, <2>1, CallEnds DEF FieldsNoted
  <1>4. ASSUME call.op # "next"
        PROVE  /\ call.op = "offdie" /\ call.unit = Start(n + 1) /\ call.offset \in Nat
               /\ Start(n + 1) <= call.offset
               /\ HasDie(section, call.offset) \/ call.offset = SectionSize
               /\ answer' = answer
    BY <1>4 DEF CallNoted, MakingNoted, Complete
  <1>5. CASE call.op # "next" /\ call.offset >= EndOf(d.start)
    <2>1. upc' = "make" /\ call' = [call EXCEPT !.unit = EndOf(d.start)]
      BY <1>5 DEF Complete
    <2>2. /\ DOMAIN call' = DOMAIN call /\ call'.op = call.op /\ call'.offset = call.offset
          /\ call'.unit = Start(n + 2)
      BY <1>1, <1>2, <2>1 DEF FieldsNoted
    <2>3. Start(Len(list) + 1)' = Start(n + 2) /\ SectionSize' = SectionSize
      BY <1>1, <1>2 DEF Start, SectionSize
    <2>4. Start(n + 2) <= call.offset
      BY <1>1, <1>4, <1>5
    <2>5. MakingNoted'
      BY <1>2, <1>4, <1>5, <2>2, <2>3, <2>4 DEF MakingNoted
    <2>6. QED
      BY <1>2, <1>4, <1>5, <2>1, <2>2, <2>5 DEF CallNoted, FieldsNoted, DieNoted, AskNoted
  <1>6. CASE call.op # "next" /\ ~ (call.offset >= EndOf(d.start))
    <2>1. upc' = "die" /\ call' = call
      BY <1>6 DEF Complete
    <2>2. n + 1 \in DOMAIN list'
      <3>1. DOMAIN list' = 1 .. n + 1
        BY <1>1, ListTyped
      <3> HIDE DEF n
      <3>2. QED
        BY <1>1, <3>1
    <2>3. Within(section.units, n + 1, call.offset)
      <3>1. Start(n + 1) <= call.offset /\ call.offset < Start(n + 2)
        BY <1>1, <1>4, <1>6
      <3>2. Start(n + 1 + 1) = Start(n + 2)
        BY <1>1
      <3>3. QED
        BY <3>1, <3>2 DEF Within, Start
    <2>4. DieOf(section.units, n + 1, call.offset)
      BY <1>1, <1>2, <1>4, <1>6, <2>3, DieHere
    <2>5. AtDie(section'.units, n + 1, call')
      BY <1>2, <1>4, <1>6, <2>1, <2>4 DEF AtDie, Start
    <2>6. DieNoted'
      BY <1>4, <1>6, <2>1, <2>2, <2>5 DEF DieNoted
    <2>7. QED
      BY <1>2, <1>4, <1>6, <2>1, <2>6 DEF CallNoted, FieldsNoted, MakingNoted, AskNoted, Making
  <1>7. QED
    BY <1>3, <1>5, <1>6

\* A DIE is read with its unit's context.
LEMMA ReadDieKeeps ==
  ASSUME Chained, TablesHeld, CallNoted, NEW room \in 0 .. MaxRoom, ReadDie(room)
  PROVE  TablesHeld' /\ CallNoted'
  <1> DEFINE code == CodeAt(call.unit, call.offset)
             i == IndexOf(call.unit)
  <1>1. /\ upc = "die" /\ ~NoDieThere /\ section' = section /\ call' = call /\ upc' = "idle"
        /\ list' = [list EXCEPT ![i] = LookedUp(list[i], code, room).context]
        /\ \E result, entry : Answer(result, entry)
    BY DEF ReadDie, Answer
  <1>2. PICK j \in DOMAIN list : AtDie(section.units, j, call)
    BY <1>1, DieRead DEF NoDieThere
  <1>3. i = j /\ code \in Nat
    BY <1>2, DieOfCall
  <1> HIDE DEF code, i
  <1>4. list' = [list EXCEPT ![j] = LookedUp(list[j], code, room).context]
    BY <1>1, <1>3
  <1>5. ListHeld' /\ DOMAIN list' = DOMAIN list
    BY <1>1, <1>3, <1>4, LookupHeld DEF TablesHeld
  <1>6. FreshHeld'
    BY <1>1 DEF FreshHeld, Making
  <1>7. AtDie(section'.units, j, call') /\ j \in DOMAIN list'
    BY <1>1, <1>2, <1>5
  <1>8. PICK result, entry : answer' = [result |-> result, entry |-> entry, value |-> <<>>]
    BY <1>1 DEF Answer
  <1>9. DOMAIN answer' = {"result", "entry", "value"}
    BY <1>8
  <1>10. CallNoted'
    BY <1>1, <1>7, <1>9 DEF CallNoted, FieldsNoted, MakingNoted, DieNoted, AskNoted, Making
  <1>11. QED
    BY <1>5, <1>6, <1>10 DEF TablesHeld

\* So is one that is asked for something.
LEMMA AskKeeps ==
  ASSUME Chained, TablesHeld, CallNoted, NEW query, NEW room \in 0 .. MaxRoom, Ask(query, room)
  PROVE  TablesHeld' /\ CallNoted'
  <1> DEFINE code == CodeAt(call.unit, call.offset)
             i == IndexOf(call.unit)
  <1>1. /\ upc = "idle" /\ answer.entry # 0 /\ section' = section /\ upc' \in {"idle", "ask"}
        /\ call' = [call EXCEPT !.op = "ask", !.query = query]
        /\ list' = [list EXCEPT ![i] = LookedUp(list[i], code, room).context]
        /\ answer' = answer \/ \E result, v : answer' = [answer EXCEPT !.result = result, !.value = v]
    BY DEF Ask, BeginCall, NotAnswered, AnswerWith
  <1>2. PICK j \in DOMAIN list : AtDie(section.units, j, call)
    BY <1>1 DEF CallNoted, AskNoted
  <1>3. i = j /\ code \in Nat
    BY <1>2, DieOfCall
  <1> HIDE DEF code, i
  <1>4. list' = [list EXCEPT ![j] = LookedUp(list[j], code, room).context]
    BY <1>1, <1>3
  <1>5. ListHeld' /\ DOMAIN list' = DOMAIN list
    BY <1>1, <1>3, <1>4, LookupHeld, ZenonT(30) DEF TablesHeld
  <1>6. FreshHeld'
    BY <1>1 DEF FreshHeld, Making
  <1>7. /\ {"op", "offset", "unit", "query"} \subseteq DOMAIN call'
        /\ call'.op = "ask" /\ call'.offset = call.offset /\ call'.unit = call.unit
    <2>1. {"op", "offset", "unit", "query"} \subseteq DOMAIN call
      BY DEF CallNoted, FieldsNoted
    <2>2. QED
      BY <1>1, <2>1
  <1>8. AtDie(section'.units, j, call') /\ j \in DOMAIN list'
    BY <1>1, <1>2, <1>5, <1>7 DEF AtDie
  <1>9. DOMAIN answer' = DOMAIN answer
    BY <1>1
  <1>10. CallNoted'
    BY <1>1, <1>7, <1>8, <1>9 DEF CallNoted, FieldsNoted, MakingNoted, DieNoted, AskNoted, Making
  <1>11. QED
    BY <1>5, <1>6, <1>10 DEF TablesHeld

\* A context is made.
LEMMA MakingKeeps ==
  ASSUME Chained, TablesHeld, CallNoted,
         \/ HeaderFails \/ HeaderRead \/ NoAbbreviations \/ NoCuDie \/ CuDieBases \/ NoMemory
         \/ \E room \in 0 .. MaxRoom : CuDie(room) \/ CuDieAttrs(room)
  PROVE  TablesHeld' /\ CallNoted'
  <1>1. ASSUME NEW result, GiveUp(result) PROVE TablesHeld' /\ CallNoted'
    <2>1. Answer(result, 0) /\ section' = section /\ list' = list /\ call' = call /\ upc' = "idle"
      BY <1>1 DEF GiveUp, Answer
    <2>2. TablesHeld'
      BY <2>1, NoneMade DEF TablesHeld, Making
    <2>3. CallNoted'
      BY <2>1, CallEnds DEF CallNoted, FieldsNoted
    <2>4. QED
      BY <2>2, <2>3
  <1>2. CASE HeaderFails \/ NoAbbreviations \/ NoMemory
    <2>1. \E result : GiveUp(result)
      BY <1>2 DEF HeaderFails, NoAbbreviations, NoMemory
    <2>2. QED
      BY <1>1, <2>1
  <1>3. CASE HeaderRead
    <2>1. /\ upc = "make" /\ upc' = "cu_die"
          /\ section' = section /\ list' = list /\ fresh' = fresh /\ call' = call /\ answer' = answer
      BY <1>3 DEF HeaderRead
    <2>2. Chained'
      BY <1>3, HeaderChain
    <2>3. Len(list) + 1 \in DOMAIN section.units
      <3>1. Len(list) < Len(section.units) /\ section \in Sections
        BY <2>1, <2>2 DEF Chained, Making
      <3>2. Len(list) \in Nat /\ Len(section.units) \in Nat /\ DOMAIN section.units = 1 .. Len(section.units)
        BY ListPlaces
      <3>3. QED
        BY <3>1, <3>2
    <2>4. Len(section.units[Len(list) + 1].abbrevs) \in Nat
      BY <2>3, UnitFacts DEF Chained
    <2>5. fresh.table = NewTable /\ fresh.last = 1 /\ {"table", "last"} \subseteq DOMAIN fresh /\ ListHeld
      BY <2>1 DEF TablesHeld, FreshHeld, Making
    <2>6. ContextFor(fresh, section.units[Len(list) + 1].abbrevs)
      BY <2>4, <2>5, EmptyTable DEF ContextFor
    <2>7. TablesHeld'
      BY <2>1, <2>5, <2>6 DEF TablesHeld, ListHeld, FreshHeld
    <2>8. CallNoted'
      BY <2>1, CallSame DEF Making
    <2>9. QED
      BY <2>7, <2>8
  <1>4. CASE NoCuDie
    <2>1. upc \in Making \ {"make"} /\ Complete(fresh)
      BY <1>4 DEF NoCuDie, Making
    <2>2. ContextFor(fresh, section.units[Len(list) + 1].abbrevs)
      BY <2>1 DEF TablesHeld, FreshHeld
    <2>3. QED
      BY <2>1, <2>2, CompleteHeld, CompleteNoted DEF TablesHeld
  <1>5. ASSUME NEW room \in 0 .. MaxRoom, NEW next \in {"attrs", "bases"}, upc \in {"cu_die", "attrs"},
               Proceed(LookedUp(fresh, codeOfNew, room).context, next), ~HasNoDie(new)
        PROVE  TablesHeld' /\ CallNoted'
    <2>1. section' = section /\ list' = list /\ call' = call /\ answer' = answer /\ upc' = next
      BY <1>5 DEF Proceed
    <2>2. upc \in Making \ {"make"} /\ upc' \in Making
      BY <1>5, <2>1 DEF Making
    <2>3. QED
      BY <1>5, <2>1, <2>2, ProceedHeld, CallSame
  <1>6. ASSUME NEW room \in 0 .. MaxRoom, CuDie(room) \/ CuDieAttrs(room)
        PROVE  TablesHeld' /\ CallNoted'
    <2>1. CASE CuDie(room)
      BY <1>1, <1>5, <2>1 DEF CuDie
    <2>2. CASE CuDieAttrs(room)
      <3>1. /\ upc = "attrs"
            /\ Proceed(LookedUp(fresh, codeOfNew, room).context, "bases") \/ GiveUp("error")
        BY <2>2 DEF CuDieAttrs
      <3>2. ~HasNoDie(new)
        <4>1. new = section.units[Len(list) + 1]
          BY <3>1, NewUnit DEF Making
        <4>2. QED
          BY <3>1, <4>1 DEF TablesHeld, FreshHeld
      <3>3. QED
        BY <1>1, <1>5, <3>1, <3>2
    <2>3. QED
      BY <1>6, <2>1, <2>2
  <1>7. CASE CuDieBases
    <2>1. PICK r, taken : upc = "bases" /\ BasesFound(r, taken)
      BY <1>7 DEF CuDieBases
    <2>2. "start" \in DOMAIN fresh /\ upc \in Making \ {"make"}
      BY <2>1, NewUnit DEF Making
    <2>3. ContextFor(fresh, section.units[Len(list) + 1].abbrevs)
      BY <2>2 DEF TablesHeld, FreshHeld
    <2>4. ASSUME NEW b, Complete([fresh EXCEPT !.bases = b]) PROVE TablesHeld' /\ CallNoted'
      <3> DEFINE d == [fresh EXCEPT !.bases = b]
      <3>1. d.start = fresh.start /\ d.table = fresh.table /\ d.last = fresh.last /\ DOMAIN d = DOMAIN fresh
        BY <2>2, <2>3 DEF ContextFor
      <3>2. Complete(d)
        BY <2>4
      <3> HIDE DEF d
      <3>3. ContextFor(d, section.units[Len(list) + 1].abbrevs)
        BY <2>3, <3>1 DEF ContextFor
      <3>4. QED
        BY <2>2, <3>1, <3>2, <3>3, CompleteHeld, CompleteNoted DEF TablesHeld
    <2>5. ASSUME Interrupted(r), UNCHANGED <<answer, list>> PROVE TablesHeld' /\ CallNoted'
      <3>1. /\ section' = section /\ list' = list /\ fresh' = fresh /\ call' = call /\ answer' = answer
            /\ upc' = upc \/ upc' = "crashed"
        BY <2>5 DEF Interrupted
      <3>2. TablesHeld'
        BY <3>1 DEF TablesHeld, ListHeld, FreshHeld, Making
      <3>3. QED
        BY <3>1, <3>2, CallSame
    <2>6. QED
      BY <1>1, <2>1, <2>4, <2>5 DEF BasesFound
  <1>8. QED
    BY <1>2, <1>3, <1>4, <1>6, <1>7

-----------------------------------------------------------------------------
(* The sections that the call needs.                                       *)

GotWrong == \E n \in {"addr", "str", "str_offsets"} : got[n] \in {"error", "garbage"}

\* A section that could not be loaded is noted, and only who reads values waits
\* for one.
NeedsNoted ==
  /\ DOMAIN got = {"addr", "str", "str_offsets"}
  /\ \A n \in {"addr", "str", "str_offsets"} : got[n] \in {"none", "ok", "no_entry", "error", "garbage"}
  /\ GotWrong => fault
  /\ upc \notin {"bases", "ask", "crashed"} => wants = "none"

\* A call that begins needs nothing yet.
LEMMA NeedsBegin ==
  ASSUME got' = NothingGot, wants' = "none"
  PROVE  NeedsNoted'
  <1>1. DOMAIN got' = {"addr", "str", "str_offsets"}
        /\ \A n \in {"addr", "str", "str_offsets"} : got'[n] = "none"
    BY DEF NothingGot
  <1>2. ~GotWrong'
    BY <1>1 DEF GotWrong
  <1>3. QED
    BY <1>1, <1>2 DEF NeedsNoted

\* A call goes on with what it has got.
LEMMA NeedsSame ==
  ASSUME NeedsNoted, got' = got, fault => fault', wants' = wants \/ upc' \in {"bases", "ask", "crashed"},
         upc \notin {"bases", "ask", "crashed"} \/ wants = "none" \/ upc' \in {"bases", "ask", "crashed"}
  PROVE  NeedsNoted'
  <1>1. GotWrong' <=> GotWrong
    BY DEF GotWrong
  <1>2. GotWrong' => fault'
    BY <1>1, Zenon DEF NeedsNoted
  <1> HIDE DEF GotWrong
  <1>3. /\ DOMAIN got' = {"addr", "str", "str_offsets"}
        /\ \A n \in {"addr", "str", "str_offsets"} : got'[n] \in {"none", "ok", "no_entry", "error", "garbage"}
    BY DEF NeedsNoted
  <1>4. upc' \notin {"bases", "ask", "crashed"} => wants' = "none"
    BY DEF NeedsNoted
  <1>5. QED
    BY <1>2, <1>3, <1>4, Zenon DEF NeedsNoted

\* Steps that read units.
LEMMA UnitsNeeds ==
  ASSUME Chained, NeedsNoted, UnitsNext
  PROVE  NeedsNoted'
  <1>1. ASSUME NEW op, NEW o, NEW unit, Begin(op, o, unit) PROVE NeedsNoted'
    BY <1>1, NeedsBegin DEF Begin, BeginCall
  <1>2. CASE \/ NextHeaderEnds \/ NextHeaderKnown \/ NextHeaderNew \/ UnitDie \/ NoUnitYet
             \/ \E o \in Offsets : OffDieKnown(o) \/ OffDieNew(o)
    BY <1>1, <1>2 DEF NextHeaderEnds, NextHeaderKnown, NextHeaderNew, UnitDie, NoUnitYet, OffDieKnown, OffDieNew
  <1>3. ASSUME NEW query \in Queries, NEW room \in 0 .. MaxRoom, Ask(query, room) PROVE NeedsNoted'
    BY <1>3, NeedsBegin DEF Ask, BeginCall
  <1>4. CASE HeaderFails
    <2>1. upc = "make" /\ fault' = fault /\ \E result : GiveUp(result)
      BY <1>4 DEF HeaderFails
    <2>2. got' = got /\ wants' = wants /\ (fault => fault')
      BY <2>1 DEF GiveUp, needVars
    <2>3. QED
      BY <2>1, <2>2, NeedsSame
  <1>5. CASE HeaderRead
    <2>1. upc = "make" /\ fault' = fault /\ got' = got /\ wants' = wants
      BY <1>5 DEF HeaderRead, needVars
    <2>2. QED
      BY <2>1, NeedsSame
  <1>6. CASE NoAbbreviations
    <2>1. upc = "cu_die" /\ fault' = fault /\ got' = got /\ wants' = wants
      BY <1>6 DEF NoAbbreviations, GiveUp, needVars
    <2>2. QED
      BY <2>1, NeedsSame
  <1>7. CASE NoCuDie
    <2>1. upc = "cu_die" /\ fault' = fault /\ got' = got /\ wants' = wants
      BY <1>7 DEF NoCuDie, Complete, needVars
    <2>2. QED
      BY <2>1, NeedsSame
  <1>8. ASSUME NEW room, CuDie(room) \/ CuDieAttrs(room) \/ ReadDie(room) PROVE NeedsNoted'
    <2>1. upc \in {"cu_die", "attrs", "die"} /\ got' = got /\ wants' = wants
      BY <1>8 DEF CuDie, CuDieAttrs, ReadDie, Proceed, GiveUp, needVars
    <2>2. fault => fault'
      BY <1>8, Zenon DEF CuDie, CuDieAttrs, ReadDie
    <2>3. QED
      BY <2>1, <2>2, NeedsSame
  <1>9. CASE CuDieBases
    <2>1. PICK r, taken : upc = "bases" /\ wants = "none" /\ fault' = fault /\ BasesFound(r, taken)
      BY <1>9 DEF CuDieBases
    <2>2. got' = got /\ (wants' = wants \/ upc' \in {"bases", "ask", "crashed"})
      BY <2>1 DEF BasesFound, Complete, GiveUp, Interrupted, needVars
    <2>3. QED
      BY <2>1, <2>2, NeedsSame
  <1>10. CASE NoMemory \/ NoDieAllocated
    <2>1. upc \in {"make", "cu_die", "attrs", "die"} /\ fault' = TRUE /\ got' = got /\ wants' = wants
      BY <1>10 DEF NoMemory, NoDieAllocated, GiveUp, needVars
    <2>2. QED
      BY <2>1, NeedsSame
  <1>11. CASE ReadNoDie
    <2>1. upc = "die" /\ fault' = fault /\ got' = got /\ wants' = wants
      BY <1>11 DEF ReadNoDie, needVars
    <2>2. QED
      BY <2>1, NeedsSame
  <1>12. CASE Answered
    <2>1. PICK r : upc = "ask" /\ wants = "none" /\ fault' = fault /\ AnswerFound(r)
      BY <1>12 DEF Answered
    <2>2. got' = got /\ (wants' = wants \/ upc' \in {"bases", "ask", "crashed"})
      BY <2>1 DEF AnswerFound, Interrupted, needVars
    <2>3. QED
      BY <2>1, <2>2, NeedsSame
  <1>13. CASE NoAttribute
    <2>1. upc = "ask" /\ wants = "none" /\ fault' = TRUE /\ got' = got /\ wants' = wants
      BY <1>13 DEF NoAttribute, needVars
    <2>2. QED
      BY <2>1, NeedsSame
  <1>14. QED
    BY <1>2, <1>3, <1>4, <1>5, <1>6, <1>7, <1>8, <1>9, <1>10, <1>11, <1>12, <1>13 DEF UnitsNext

\* A section is loaded for a call.
LEMMA LoadNeeds ==
  ASSUME NeedsNoted, LoadSection
  PROVE  NeedsNoted'
  <1>1. PICK n \in Names :
          /\ LoadKnown(n) \/ LoadPlain(n) \/ Unpack(n) \/ UnpackFails(n)
          /\ IF n = wants THEN SectionLoaded(Handed(n)) ELSE UNCHANGED unitVars
    BY DEF LoadSection
  <1>2. CASE UNCHANGED unitVars
    <2>1. got' = got /\ wants' = wants /\ upc' = upc /\ fault' = fault
      BY <1>2 DEF unitVars, needVars
    <2>2. QED
      BY <2>1, NeedsSame DEF NeedsNoted
  <1>3. CASE n = wants /\ SectionLoaded(Handed(n))
    <2> DEFINE result == Handed(n)
    <2>1. result \in {"ok", "no_entry", "error", "garbage"}
      <3>1. load'.result \in {"ok", "no_entry", "error"}
        BY <1>1 DEF LoadKnown, LoadPlain, Unpack, UnpackFails, Returns
      <3>2. QED
        BY <3>1 DEF Handed
    <2> HIDE DEF result
    <2>2. /\ got' = [got EXCEPT ![n] = result] /\ wants' = "none"
          /\ fault' = (fault \/ result \in {"error", "garbage"})
      BY <1>3 DEF SectionLoaded, result
    <2>3. /\ DOMAIN got' = {"addr", "str", "str_offsets"}
          /\ \A m \in {"addr", "str", "str_offsets"} : got'[m] = got[m] \/ got'[m] = result
      BY <2>2 DEF NeedsNoted
    <2>4. \A m \in {"addr", "str", "str_offsets"} : got'[m] \in {"none", "ok", "no_entry", "error", "garbage"}
      BY <2>1, <2>3 DEF NeedsNoted
    <2>5. GotWrong' => GotWrong \/ result \in {"error", "garbage"}
      BY <2>3 DEF GotWrong
    <2>6. GotWrong' => fault'
      BY <2>2, <2>5, Zenon DEF NeedsNoted
    <2>7. QED
      BY <2>2, <2>3, <2>4, <2>6, Zenon DEF NeedsNoted
  <1>4. QED
    BY <1>1, <1>2, <1>3

\* Calls that end at once, and what is read of a unit without its table.
LEMMA OtherKeeps ==
  ASSUME Chained, TablesHeld, CallNoted,
         \/ NextHeaderEnds \/ NextHeaderKnown \/ NoUnitYet \/ ReadNoDie \/ NoDieAllocated
         \/ Answered \/ NoAttribute
  PROVE  TablesHeld' /\ CallNoted'
  <1>1. CASE NextHeaderEnds \/ NextHeaderKnown \/ NoUnitYet
    <2>1. /\ section' = section /\ list' = list /\ upc' = "idle" /\ \E result : Answer(result, 0)
          /\ \E op, o, unit : Begin(op, o, unit)
      BY <1>1 DEF NextHeaderEnds, NextHeaderKnown, NoUnitYet, contextVars, Answer
    <2>2. {"op", "offset", "unit", "query"} \subseteq DOMAIN call'
      BY <2>1, CallGiven
    <2>3. QED
      BY <2>1, <2>2, CallEnds, NoneMade DEF TablesHeld, Making
  <1>2. CASE ReadNoDie \/ NoDieAllocated
    <2>1. /\ section' = section /\ list' = list /\ upc' = "idle" /\ \E result : Answer(result, 0)
          /\ call' = call
      BY <1>2 DEF ReadNoDie, NoDieAllocated, contextVars, Answer
    <2>2. {"op", "offset", "unit", "query"} \subseteq DOMAIN call'
      BY <2>1 DEF CallNoted, FieldsNoted
    <2>3. QED
      BY <2>1, <2>2, CallEnds, NoneMade DEF TablesHeld, Making
  <1>3. CASE Answered \/ NoAttribute
    <2>1. /\ section' = section /\ list' = list /\ call' = call /\ upc = "ask"
          /\ upc' \in {"ask", "crashed", "idle"}
          /\ answer' = answer \/ \E result, v : answer' = [answer EXCEPT !.result = result, !.value = v]
      <3>1. CASE Answered
        <4>1. PICK r : upc = "ask" /\ AnswerFound(r) /\ list' = list
          BY <3>1 DEF Answered
        <4>2. QED
          BY <4>1 DEF AnswerFound, Interrupted, AnswerWith
      <3>2. CASE NoAttribute
        BY <3>2 DEF NoAttribute, NotAnswered, AnswerWith, contextVars
      <3>3. QED
        BY <1>3, <3>1, <3>2
    <2>2. DOMAIN answer' = DOMAIN answer /\ answer'.entry = answer.entry
      <3>1. {"result", "entry", "value"} \subseteq DOMAIN answer
        BY DEF CallNoted, FieldsNoted
      <3>2. QED
        BY <2>1, <3>1
    <2>3. TablesHeld'
      BY <2>1, NoneMade DEF TablesHeld, Making
    <2>4. upc' = upc \/ upc' = "crashed" \/ (upc \in Making /\ upc' \in Making)
            \/ (upc = "ask" /\ upc' = "idle")
      BY <2>1
    <2>5. QED
      BY <2>1, <2>2, <2>3, <2>4, CallSame
  <1>4. QED
    BY <1>1, <1>2, <1>3

\* New contexts have empty tables.
LEMMA BeginHeld ==
  ASSUME Chained, TablesHeld,
         \/ NextHeaderNew \/ UnitDie
         \/ \E o \in Offsets : OffDieKnown(o) \/ OffDieNew(o)
  PROVE  TablesHeld'
  <1>1. section' = section /\ list' = list
    BY DEF NextHeaderNew, UnitDie, OffDieKnown, OffDieNew, contextVars
  <1>2. ListHeld'
    BY <1>1 DEF TablesHeld, ListHeld
  <1>3. CASE UnitDie \/ \E o \in Offsets : OffDieKnown(o)
    <2>1. upc' = "die"
      BY <1>3 DEF UnitDie, OffDieKnown
    <2>2. QED
      BY <1>1, <2>1, NoneMade DEF TablesHeld, Making
  <1>4. CASE NextHeaderNew \/ \E o \in Offsets : OffDieNew(o)
    <2>1. upc' = "make" /\ \E o : fresh' = ContextAt(o)
      BY <1>4 DEF NextHeaderNew, OffDieNew
    <2>2. QED
      BY <1>2, <2>1, NewHeld DEF TablesHeld
  <1>5. QED
    BY <1>3, <1>4

Noted == Chained /\ TablesHeld /\ CallNoted /\ NeedsNoted

\* Steps that read units.
LEMMA UnitsKeep ==
  ASSUME Noted, UnitsNext
  PROVE  Noted'
  <1>1. Chained /\ TablesHeld /\ CallNoted /\ NeedsNoted
    BY DEF Noted
  <1>2. Chained'
    BY <1>1, NextHeaderChain, OffDieChain, MakingChain, ReadingChain DEF UnitsNext
  <1>3. NeedsNoted'
    BY <1>1, UnitsNeeds
  <1>4. CASE \/ NextHeaderNew \/ UnitDie
             \/ \E o \in Offsets : OffDieKnown(o) \/ OffDieNew(o)
    BY <1>1, <1>2, <1>3, <1>4, BeginHeld, BeginNoted DEF Noted
  <1>5. CASE \/ HeaderFails \/ HeaderRead \/ NoAbbreviations \/ NoCuDie \/ CuDieBases \/ NoMemory
             \/ \E room \in 0 .. MaxRoom : CuDie(room) \/ CuDieAttrs(room)
    BY <1>1, <1>2, <1>3, <1>5, MakingKeeps DEF Noted
  <1>6. CASE \/ NextHeaderEnds \/ NextHeaderKnown \/ NoUnitYet \/ ReadNoDie \/ NoDieAllocated
             \/ Answered \/ NoAttribute
    BY <1>1, <1>2, <1>3, <1>6, OtherKeeps DEF Noted
  <1>7. CASE \/ \E room \in 0 .. MaxRoom : ReadDie(room)
             \/ \E query \in Queries, room \in 0 .. MaxRoom : Ask(query, room)
    BY <1>1, <1>2, <1>3, <1>7, ReadDieKeeps, AskKeeps DEF Noted
  <1>8. QED
    BY <1>4, <1>5, <1>6, <1>7 DEF UnitsNext

\* Every step keeps what is noted, whatever happens to the sections and the file.
LEMMA NotedKept ==
  ASSUME Noted, [ObjectNext]_objectVars
  PROVE  Noted'
  <1>1. Chained /\ TablesHeld /\ CallNoted /\ NeedsNoted
    BY DEF Noted
  <1>2. Chained'
    BY <1>1, ChainKept
  <1>3. ASSUME UNCHANGED <<section, list, fresh, upc, call, answer>>
        PROVE  TablesHeld' /\ CallNoted'
    <2>1. TablesHeld'
      BY <1>1, <1>3 DEF TablesHeld, ListHeld, FreshHeld
    <2>2. QED
      BY <1>1, <1>3, <2>1, CallSame
  <1>4. CASE UNCHANGED unitVars
    <2>1. UNCHANGED <<section, list, fresh, upc, call, answer, got, wants, fault>>
      BY <1>4 DEF unitVars, contextVars, needVars
    <2>2. NeedsNoted'
      BY <1>1, <2>1, NeedsSame DEF NeedsNoted
    <2>3. QED
      BY <1>2, <1>3, <2>1, <2>2 DEF Noted
  <1>5. CASE LoadSection
    <2>1. UNCHANGED unitVars \/ \E result : SectionLoaded(result)
      BY <1>5 DEF LoadSection
    <2>2. CASE \E result : SectionLoaded(result)
      <3>1. UNCHANGED <<section, list, fresh, upc, call, answer>>
        BY <2>2 DEF SectionLoaded, contextVars
      <3>2. QED
        BY <1>1, <1>2, <1>3, <1>5, <3>1, LoadNeeds DEF Noted
    <2>3. QED
      BY <1>4, <2>1, <2>2
  <1>6. CASE Close
    <2>1. /\ list' = <<>> /\ upc' = "idle" /\ call' = NoCall /\ answer' = NoAnswer
          /\ wants' = "none" /\ got' = NothingGot
      BY <1>6 DEF Close, UnitsReset
    <2>2. TablesHeld'
      BY <2>1 DEF TablesHeld, ListHeld, FreshHeld, Making
    <2>3. DOMAIN NoCall = {"op", "offset", "unit", "query"}
          /\ DOMAIN NoAnswer = {"result", "entry", "value"} /\ NoAnswer.entry = 0
      BY DEF NoCall, NoAnswer
    <2>4. CallNoted'
      BY <2>1, <2>3 DEF CallNoted, FieldsNoted, MakingNoted, DieNoted, AskNoted, Making
    <2>5. QED
      BY <1>2, <2>1, <2>2, <2>4, NeedsBegin DEF Noted
  <1>7. CASE Access \/ SetupSections \/ Ended \/ UNCHANGED objectVars
    <2>1. UNCHANGED unitVars
      BY <1>7 DEF Access, SetupSections, Ended, objectVars
    <2>2. QED
      BY <1>4, <2>1
  <1>8. CASE ReadUnits
    BY <1>8, UnitsKeep DEF ReadUnits
  <1>9. QED
    BY <1>5, <1>6, <1>7, <1>8 DEF ObjectNext

\* At first there is no table and no call.
LEMMA NotedAtFirst == ObjectInit => Noted
  <1> SUFFICES ASSUME ObjectInit PROVE Noted
    OBVIOUS
  <1>1. /\ list = <<>> /\ upc = "idle" /\ call = NoCall /\ answer = NoAnswer
        /\ wants = "none" /\ got = NothingGot
    BY DEF ObjectInit, UnitsInit
  <1>2. TablesHeld
    BY <1>1 DEF TablesHeld, ListHeld, FreshHeld, Making
  <1>3. DOMAIN NoCall = {"op", "offset", "unit", "query"}
        /\ DOMAIN NoAnswer = {"result", "entry", "value"} /\ NoAnswer.entry = 0
    BY DEF NoCall, NoAnswer
  <1>4. CallNoted
    BY <1>1, <1>3 DEF CallNoted, FieldsNoted, MakingNoted, DieNoted, AskNoted, Making
  <1>5. DOMAIN got = {"addr", "str", "str_offsets"}
        /\ \A n \in {"addr", "str", "str_offsets"} : got[n] = "none"
    BY <1>1 DEF NothingGot
  <1>6. NeedsNoted
    BY <1>1, <1>5 DEF NeedsNoted, GotWrong
  <1>7. QED
    BY <1>2, <1>4, <1>6, ChainBegins DEF Noted

-----------------------------------------------------------------------------
(* What dwarf_offdie_b() and dwarf_siblingof_b() answer.                   *)

CodeIn(us, k, o) == us[k].dies[o - us[k].at - HeaderSize + 1]

\* The call is for a DIE that can be come to: its unit and those before it are
\* sound, and its abbreviation can be read.
DueAt(us, sound, k, c) ==
  /\ DieOf(us, k, c.offset) /\ \A j \in 1 .. k : us[j] \in sound
  /\ CodeIn(us, k, c.offset) # 0 /\ Abbreviated(us[k], CodeIn(us, k, c.offset))

\* A DIE that is handed out is that of its unit, with an abbreviation of its code.
ReadAt(us, k, c, entry) ==
  /\ DieOf(us, k, c.offset) /\ c.unit = us[k].at
  /\ CodeIn(us, k, c.offset) # 0 /\ us[k].abbrevs[entry].code = CodeIn(us, k, c.offset)

DieAnswered == upc = "idle" /\ call.op \in {"offdie", "unit_die"} /\ call.unit # None
AnswerRead ==
  DieAnswered /\ answer.result = "ok" =>
    \E k \in DOMAIN section.units : ReadAt(section.units, k, call, answer.entry)
AnswerDue ==
  DieAnswered /\ NothingMissing =>
    \A k \in DOMAIN section.units : DueAt(section.units, SoundUnits, k, call) => answer.result = "ok"

\* The next unit to be made, where a DIE behind it can be come to.
LEMMA NextDue ==
  ASSUME Chained, CallNoted, upc \in Making, call.op # "next",
         NEW k \in DOMAIN section.units, DueAt(section.units, SoundUnits, k, call)
  PROVE  LET i == Len(list) + 1
         IN /\ i \in DOMAIN section.units /\ Sound(section.units[i], WrongSize)
            /\ UnitAt(fresh.start) = section.units[i]
            /\ ~NoRoom(fresh.start) /\ IsStart(fresh.start)
  <1> DEFINE n == Len(list)
             m == Len(section.units)
             i == n + 1
             o == call.offset
  <1>1. /\ section \in Sections /\ n \in Nat /\ m \in Nat /\ n <= m /\ DOMAIN section.units = 1 .. m
        /\ fresh.start = Start(i)
    BY ListPlaces DEF Chained
  <1>2. Start(i) <= o
    BY DEF CallNoted, MakingNoted
  <1>3. /\ o \in Nat /\ Start(k) + HeaderSize <= o /\ o < Start(k + 1)
    BY <1>1, DieWithin DEF DueAt, Within, Start
  <1>4. /\ k \in Turn /\ k + 1 \in Turn /\ Start(k) \in Nat /\ Start(k + 1) \in Nat
        /\ Start(k + 1) <= SectionSize /\ SectionSize \in Nat /\ HeaderSize \in Nat
    BY <1>1, UnitThere, StartsRise, EndBehind, UnitsGiven
  <1>5. i \in Turn /\ Start(i) \in Nat
    <2>1. i \in 1 .. m + 1
      <3> HIDE DEF n, m
      <3>1. QED
        BY <1>1
    <2>2. i \in Turn
      BY <2>1 DEF Turn
    <2>3. QED
      BY <1>1, <2>2, StartsRise
  <1>6. ~ (k + 1 < i) /\ k + 1 # i
    <2>1. k + 1 < i => Start(k + 1) < Start(i)
      BY <1>1, <1>4, <1>5, StartsOrdered
    <2> HIDE DEF i, o
    <2>2. QED
      BY <1>2, <1>3, <1>4, <1>5, <2>1
  <1>7. i \in 1 .. k /\ i \in DOMAIN section.units
    <2>1. k \in 1 .. m
      BY <1>1
    <2> HIDE DEF n, m
    <2>2. QED
      BY <1>1, <1>6, <2>1
  <1>8. Sound(section.units[i], WrongSize)
    BY <1>7 DEF DueAt, SoundUnits
  <1>9. UnitAt(fresh.start) = section.units[i] /\ IsStart(fresh.start)
    BY <1>1, <1>7, UnitThere
  <1>10. Start(i) <= Start(k)
    <2>1. i = k \/ i < k
      <3> HIDE DEF i
      <3>1. QED
        BY <1>1, <1>7
    <2>2. i < k => Start(i) < Start(k)
      BY <1>1, <1>4, <1>5, StartsOrdered
    <2> HIDE DEF i
    <2>3. QED
      BY <1>4, <1>5, <2>1, <2>2
  <1>11. ~NoRoom(fresh.start)
    <2> DEFINE a == Start(i)
    <2>1. ~ (a + HeaderSize >= SectionSize)
      <3> HIDE DEF a, o
      <3>1. QED
        BY <1>3, <1>4, <1>5, <1>10 DEF a
    <2>2. QED
      BY <1>1, <2>1 DEF NoRoom
  <1>12. QED
    BY <1>7, <1>8, <1>9, <1>11

\* Where the making of a context fails although the unit is sound, memory or a
\* section has been missing.
LEMMA SoundMade ==
  ASSUME Noted, upc' = "idle", call.op # "next",
         \/ HeaderFails \/ HeaderRead \/ NoAbbreviations \/ NoCuDie \/ CuDieBases \/ NoMemory
         \/ \E room \in 0 .. MaxRoom : CuDie(room) \/ CuDieAttrs(room),
         Len(list) + 1 \in DOMAIN section.units, new = section.units[Len(list) + 1],
         Sound(new, WrongSize), ~NoRoom(fresh.start), IsStart(fresh.start)
  PROVE  ~NothingMissing'
  <1> DEFINE k == Len(list) + 1
  <1>1. Chained /\ TablesHeld /\ CallNoted /\ NeedsNoted /\ section \in Sections
    BY DEF Noted, Chained
  <1>2. new.header = "good" /\ new.damage # "abbrev_offset"
    BY Zenon DEF Sound
  <1>3. ~HeaderFails /\ ~NoAbbreviations
    BY <1>2 DEF HeaderFails, NoAbbreviations
  <1>4. ~HeaderRead
    BY DEF HeaderRead
  <1>5. ASSUME NEW d, Complete(d) PROVE FALSE
    BY <1>5 DEF Complete
  <1>6. ~NoCuDie
    BY <1>5 DEF NoCuDie
  <1>7. CASE NoMemory
    BY <1>7 DEF NoMemory, NothingMissing
  <1>8. ASSUME NEW room \in 0 .. MaxRoom, CuDie(room) \/ CuDieAttrs(room)
        PROVE  ~NothingMissing'
    <2> DEFINE r == LookedUp(fresh, codeOfNew, room)
    <2>1. upc \in Making \ {"make"}
      BY <1>8 DEF CuDie, CuDieAttrs, Making
    <2>2. k \in DOMAIN section.units /\ fresh.start = Start(k) /\ codeOfNew = new.dies[1]
      BY <1>1, <2>1, NewUnit
    <2>3. ~HasNoDie(new)
      <3>1. CASE CuDie(room)
        BY <3>1 DEF CuDie
      <3>2. CASE CuDieAttrs(room)
        BY <1>1, <3>2 DEF CuDieAttrs, TablesHeld, FreshHeld
      <3>3. QED
        BY <1>8, <3>1, <3>2
    <2>4. /\ Abbreviated(new, new.dies[1])
          /\ \A q \in DOMAIN new.abbrevs : new.abbrevs[q].code = new.dies[1] => new.abbrevs[q].unit
      BY <2>3, Zenon DEF Sound
    <2>5. new.dies[1] \in Nat
      <3>1. new.dies # <<>> /\ IsUnit(new)
        BY <1>1, <2>2, <2>3, UnitFacts DEF HasNoDie
      <3>2. new.dies \in Seq(0 .. Base - 1)
        BY <3>1, Zenon DEF IsUnit
      <3>3. 1 \in DOMAIN new.dies
        BY <3>1, <3>2
      <3>4. QED
        BY <1>1, <2>2, <3>3, UnitFacts
    <2>6. ContextFor(fresh, section.units[k].abbrevs)
      BY <1>1, <2>1, SMTT(30) DEF TablesHeld, FreshHeld
    <2>7. /\ r.result = "ok" => r.entry \in DOMAIN new.abbrevs /\ new.abbrevs[r.entry].code = new.dies[1]
          /\ Abbreviated(new, new.dies[1]) /\ ~r.lacking => r.result = "ok"
      BY <1>1, <2>2, <2>5, <2>6, LookedUpFor
    <2>8. fault' = (fault \/ r.lacking)
      BY <1>8 DEF CuDie, CuDieAttrs
    <2>9. ~ (r.result = "ok" /\ new.abbrevs[r.entry].unit)
      <3>1. ASSUME r.result = "ok", new.abbrevs[r.entry].unit PROVE FALSE
        <4>1. Proceed(r.context, "attrs") \/ Proceed(r.context, "bases")
          BY <1>8, <3>1 DEF CuDie, CuDieAttrs
        <4>2. QED
          BY <4>1 DEF Proceed
      <3>2. QED
        BY <3>1
    <2> HIDE DEF r
    <2>10. r.lacking
      BY <2>4, <2>7, <2>9
    <2>11. fault'
      BY <2>8, <2>10, Zenon
    <2>12. QED
      BY <2>11 DEF NothingMissing
  <1>9. CASE CuDieBases
    <2> DEFINE die == DieIn(new, 1)
               r == BaseFields(die, EnvFor(fresh), AttrList(die))
    <2>1. PICK taken : upc = "bases" /\ fault' = fault /\ BasesFound(r, taken)
      BY <1>9 DEF CuDieBases
    <2>2. ~HasNoDie(new)
      BY <1>1, <2>1 DEF TablesHeld, FreshHeld
    <2>3. IsUnit(new) /\ section.slack \in Nat /\ IsRefs(section.refs) /\ new = UnitAt(fresh.start)
      BY <1>1, UnitFacts DEF new
    <2>4. r.res \in {"ok", "wants"} \/ got["addr"] \notin {"none", "ok"}
      BY <2>2, <2>3, SoundFound
    <2> HIDE DEF r
    <2>5. r.res \in {"error", "garbage"} /\ got' = got
      BY <1>5, <2>1 DEF BasesFound, Interrupted, GiveUp, needVars
    <2>6. got["addr"] \in {"no_entry", "error", "garbage"} /\ DOMAIN got = {"addr", "str", "str_offsets"}
      BY <1>1, <2>4, <2>5 DEF NeedsNoted
    <2>7. CASE got["addr"] = "no_entry"
      <3>1. "no_entry" \in Range(got')
        BY <2>5, <2>6, <2>7 DEF Range
      <3>2. QED
        BY <3>1 DEF NothingMissing
    <2>8. CASE got["addr"] \in {"error", "garbage"}
      <3>1. GotWrong
        BY <2>8 DEF GotWrong
      <3>2. fault'
        BY <1>1, <2>1, <3>1, Zenon DEF NeedsNoted
      <3>3. QED
        BY <3>2 DEF NothingMissing
    <2>9. QED
      BY <2>6, <2>7, <2>8
  <1>10. QED
    BY <1>3, <1>4, <1>6, <1>7, <1>8, <1>9

\* What is answered while a context is made.
LEMMA MakingAnswers ==
  ASSUME Noted, section' = section,
         \/ HeaderFails \/ HeaderRead \/ NoAbbreviations \/ NoCuDie \/ CuDieBases \/ NoMemory
         \/ \E room \in 0 .. MaxRoom : CuDie(room) \/ CuDieAttrs(room)
  PROVE  AnswerRead' /\ AnswerDue'
  <1>1. Chained /\ TablesHeld /\ CallNoted /\ NeedsNoted
    BY DEF Noted
  <1>2. upc \in Making
    BY DEF HeaderFails, HeaderRead, NoAbbreviations, NoCuDie, CuDieBases, NoMemory, CuDie, CuDieAttrs, Making
  <1>3. SUFFICES ASSUME DieAnswered' PROVE AnswerRead' /\ AnswerDue'
    BY DEF AnswerRead, AnswerDue
  <1>4. upc' = "idle" /\ call'.op # "next"
    BY <1>3 DEF DieAnswered
  <1>5. call' = call /\ answer'.result # "ok"
    <2>1. ASSUME NEW result \in {"error", "no_entry"}, GiveUp(result)
          PROVE  call' = call /\ answer'.result # "ok"
      <3>1. call' = call /\ answer' = [result |-> result, entry |-> 0, value |-> <<>>]
        BY <2>1 DEF GiveUp, Answer
      <3>2. answer'.result = result
        BY <3>1
      <3>3. QED
        BY <2>1, <3>1, <3>2
    <2>2. ASSUME NEW d, Complete(d) PROVE FALSE
      BY <1>4, <2>2 DEF Complete
    <2>3. ASSUME NEW d, NEW next \in {"attrs", "bases"}, Proceed(d, next) PROVE FALSE
      BY <1>4, <2>3 DEF Proceed
    <2>4. CASE HeaderFails
      BY <2>1, <2>4 DEF HeaderFails
    <2>5. CASE HeaderRead
      BY <1>4, <2>5 DEF HeaderRead
    <2>6. CASE NoAbbreviations \/ NoMemory
      BY <2>1, <2>6 DEF NoAbbreviations, NoMemory
    <2>7. CASE NoCuDie
      BY <2>2, <2>7 DEF NoCuDie
    <2>8. CASE \E room \in 0 .. MaxRoom : CuDie(room) \/ CuDieAttrs(room)
      BY <2>1, <2>3, <2>8 DEF CuDie, CuDieAttrs
    <2>9. CASE CuDieBases
      <3>1. PICK r, taken : upc = "bases" /\ BasesFound(r, taken)
        BY <2>9 DEF CuDieBases
      <3>2. GiveUp("error")
        BY <1>4, <2>2, <3>1 DEF BasesFound, Interrupted
      <3>3. QED
        BY <2>1, <3>2
    <2>10. QED
      BY <2>4, <2>5, <2>6, <2>7, <2>8, <2>9
  <1>6. AnswerRead'
    BY <1>5 DEF AnswerRead
  <1>7. ASSUME NothingMissing', NEW k \in DOMAIN section.units, DueAt(section.units, SoundUnits, k, call)
        PROVE  FALSE
    <2>1. LET i == Len(list) + 1
          IN /\ i \in DOMAIN section.units /\ Sound(section.units[i], WrongSize)
             /\ UnitAt(fresh.start) = section.units[i]
             /\ ~NoRoom(fresh.start) /\ IsStart(fresh.start)
      BY <1>1, <1>2, <1>4, <1>5, <1>7, NextDue
    <2>2. new = section.units[Len(list) + 1]
      BY <2>1 DEF new
    <2>3. Sound(new, WrongSize)
      BY <2>1, <2>2
    <2>4. ~NothingMissing'
      BY <1>4, <1>5, <2>1, <2>2, <2>3, SoundMade
    <2>5. QED
      BY <1>7, <2>4
  <1>8. SoundUnits' = SoundUnits
    BY SoundStays
  <1>9. AnswerDue'
    BY <1>5, <1>7, <1>8 DEF AnswerDue
  <1>10. QED
    BY <1>6, <1>9

\* Where the unit's first DIE is asked for, and it is a DIE, it is that unit's.
LEMMA FirstOfUnit ==
  ASSUME section \in Sections, NEW j \in DOMAIN section.units, NEW k \in DOMAIN section.units,
         DieOf(section.units, k, Start(j) + HeaderSize)
  PROVE  j = k
  <1> DEFINE a == Start(j)
             b == Start(k)
             e == Start(k + 1)
  <1>1. /\ j \in Turn /\ k \in Turn /\ k + 1 \in Turn /\ j \in Nat /\ k \in Nat
        /\ a \in Nat /\ b \in Nat /\ e \in Nat /\ HeaderSize \in Nat
    <2>1. j \in Turn /\ k \in Turn /\ k + 1 \in Turn
      BY UnitThere
    <2>2. Start(j) \in Nat /\ Start(k) \in Nat /\ Start(k + 1) \in Nat
      BY <2>1, StartsRise
    <2>3. j \in Nat /\ k \in Nat /\ HeaderSize \in Nat
      BY UnitsGiven
    <2>4. QED
      BY <2>1, <2>2, <2>3
  <1>2. b + HeaderSize <= a + HeaderSize /\ a + HeaderSize < e
    BY DieWithin DEF Within, Start
  <1>3. b <= a /\ a < e
    <2> HIDE DEF a, b, e
    <2>1. QED
      BY <1>1, <1>2
  <1>4. j < k => a < b
    BY <1>1, StartsOrdered
  <1>5. k + 1 < j => e < a
    BY <1>1, StartsOrdered
  <1>6. k + 1 = j => e = a
    OBVIOUS
  <1> HIDE DEF a, b, e
  <1>7. ~ (j < k) /\ ~ (k + 1 < j) /\ ~ (k + 1 = j)
    BY <1>1, <1>3, <1>4, <1>5, <1>6
  <1>8. QED
    BY <1>1, <1>7

\* A DIE is read.
LEMMA ReadDieAnswers ==
  ASSUME Noted, section' = section, NEW room \in 0 .. MaxRoom, ReadDie(room)
  PROVE  AnswerRead' /\ AnswerDue'
  <1> DEFINE code == CodeAt(call.unit, call.offset)
             i == IndexOf(call.unit)
             r == LookedUp(list[i], code, room)
             us == section.units
  <1>1. Chained /\ TablesHeld /\ CallNoted /\ section \in Sections
    BY DEF Noted, Chained
  <1>2. /\ upc = "die" /\ ~NoDieThere /\ call' = call /\ fault' = (fault \/ r.lacking)
        /\ IF r.result = "ok" /\ (call.op = "unit_die" => UnitAt(call.unit).abbrevs[r.entry].unit)
             THEN Answer("ok", r.entry)
             ELSE Answer("error", 0)
    BY DEF ReadDie
  <1>3. PICK j \in DOMAIN list : AtDie(us, j, call)
    BY <1>1, <1>2, DieRead DEF NoDieThere
  <1> DEFINE u == us[j]
  <1>4. /\ j \in DOMAIN us /\ i = j /\ call.unit = u.at /\ UnitAt(call.unit) = u
        /\ code = CodeIn(us, j, call.offset) /\ code \in Nat /\ code # 0
        /\ DieOf(us, j, call.offset) /\ Within(us, j, call.offset) /\ call.offset \in Nat
    <2>1. /\ j \in DOMAIN us /\ i = j /\ call.unit = u.at /\ UnitAt(call.unit) = u
          /\ code = CodeIn(us, j, call.offset) /\ code \in Nat
      BY <1>1, <1>3, DieOfCall DEF CodeIn
    <2>2. code # 0
      BY <1>2 DEF NoDieThere
    <2>3. DieOf(us, j, call.offset)
      BY <1>3 DEF AtDie
    <2>4. Within(us, j, call.offset) /\ call.offset \in Nat
      BY <1>1, <2>1, <2>3, DieWithin
    <2>5. QED
      BY <2>1, <2>2, <2>3, <2>4
  <1>5. /\ r.result = "ok" => u.abbrevs[r.entry].code = code /\ r.entry \in DOMAIN u.abbrevs
        /\ Abbreviated(u, code) /\ ~r.lacking => r.result = "ok"
    <2>1. list[j].start = Start(j) /\ ContextFor(list[j], u.abbrevs)
      BY <1>1 DEF Chained, TablesHeld, ListHeld
    <2>2. LET x == LookedUp(list[j], code, room)
          IN /\ x.result = "ok" => x.entry \in DOMAIN u.abbrevs /\ u.abbrevs[x.entry].code = code
             /\ Abbreviated(u, code) /\ ~x.lacking => x.result = "ok"
      <3> HIDE DEF code
      <3>1. QED
        BY <1>1, <1>4, <2>1, LookedUpFor
    <2>3. r = LookedUp(list[j], code, room)
      BY <1>4
    <2> HIDE DEF r
    <2>4. QED
      BY <2>2, <2>3
  <1> HIDE DEF r, code, i
  <1>6. \/ answer' = [result |-> "ok", entry |-> r.entry, value |-> <<>>] /\ r.result = "ok"
        \/ answer' = [result |-> "error", entry |-> 0, value |-> <<>>]
    BY <1>2 DEF Answer
  <1>7. answer'.result = "ok" => answer'.entry = r.entry /\ r.result = "ok"
    BY <1>6
  <1>8. AnswerRead'
    <2> SUFFICES ASSUME answer'.result = "ok" PROVE AnswerRead'
      BY DEF AnswerRead
    <2>1. ReadAt(us, j, call, r.entry)
      BY <1>4, <1>5, <1>7 DEF ReadAt
    <2>2. \E k \in DOMAIN section'.units : ReadAt(section'.units, k, call', answer'.entry)
      BY <1>2, <1>4, <1>7, <2>1
    <2>3. QED
      BY <2>2 DEF AnswerRead
  <1>9. ASSUME NothingMissing', NEW k \in DOMAIN us, DueAt(us, SoundUnits, k, call)
        PROVE  answer'.result = "ok"
    <2>1. k = j
      <3>1. Within(us, k, call.offset)
        BY <1>1, <1>9, DieWithin DEF DueAt
      <3>2. QED
        BY <1>1, <1>4, <3>1, OneUnit
    <2>2. Abbreviated(u, code) /\ \A l \in 1 .. j : us[l] \in SoundUnits
      BY <1>4, <1>9, <2>1 DEF DueAt
    <2>3. ~fault'
      BY <1>9, Zenon DEF NothingMissing
    <2>4. ~r.lacking
      BY <1>2, <2>3, Zenon
    <2>5. r.result = "ok"
      BY <1>5, <2>2, <2>4
    <2>6. ASSUME call.op = "unit_die" PROVE u.abbrevs[r.entry].unit
      <3>1. call.offset = call.unit + HeaderSize
        <4>1. PICK l \in DOMAIN list : call.unit = Start(l) /\ call.offset = Start(l) + HeaderSize
          BY <1>1, <1>2, <2>6 DEF CallNoted, DieNoted
        <4>2. QED
          BY <4>1
      <3>2. u.at \in Nat /\ HeaderSize \in Nat
        BY <1>1, <1>4, UnitsGiven
      <3> DEFINE at0 == u.at
                 d == call.offset - at0 - HeaderSize + 1
      <3>3. call.offset = at0 + HeaderSize /\ at0 \in Nat
        BY <1>4, <3>1, <3>2
      <3>4. d = 1
        <4> HIDE DEF at0
        <4>1. QED
          BY <3>2, <3>3
      <3>5. code = u.dies[d]
        BY <1>4 DEF CodeIn
      <3> HIDE DEF d
      <3>6. code = u.dies[1]
        BY <3>4, <3>5
      <3>7. ~HasNoDie(u)
        <4>1. 1 \in DOMAIN u.dies
          <5>1. d \in DOMAIN u.dies
            BY <1>1, <1>4, UnitsGiven, DieWithin DEF d
          <5>2. QED
            BY <3>4, <5>1
        <4>2. u.dies # <<>> /\ Head(u.dies) = u.dies[1]
          <5>1. IsUnit(u)
            BY <1>1, <1>4, UnitFacts
          <5>2. u.dies \in Seq(0 .. Base - 1)
            BY <5>1, Zenon DEF IsUnit
          <5>3. QED
            BY <4>1, <5>2
        <4>3. QED
          BY <1>4, <3>6, <4>2 DEF HasNoDie
      <3>8. Sound(u, WrongSize)
        <4>1. j \in 1 .. j
          BY <1>1, <1>4, UnitsGiven
        <4>2. QED
          BY <2>2, <4>1 DEF SoundUnits
      <3>9. \A q \in DOMAIN u.abbrevs : u.abbrevs[q].code = u.dies[1] => u.abbrevs[q].unit
        BY <3>7, <3>8, Zenon DEF Sound
      <3>10. QED
        BY <1>5, <2>5, <3>6, <3>9
    <2>7. UnitAt(call.unit) = u
      BY <1>4
    <2>8. Answer("ok", r.entry)
      <3> HIDE DEF u
      <3>1. QED
        BY <1>2, <2>5, <2>6, <2>7
    <2>9. QED
      BY <2>8 DEF Answer
  <1>10. SoundUnits' = SoundUnits
    BY SoundStays
  <1>11. AnswerDue'
    BY <1>2, <1>9, <1>10 DEF AnswerDue
  <1>12. QED
    BY <1>8, <1>11

\* Where no DIE is found, there is none to be found, or memory has run out.
LEMMA NoDieAnswers ==
  ASSUME Noted, section' = section, ReadNoDie \/ NoDieAllocated
  PROVE  AnswerRead' /\ AnswerDue'
  <1> DEFINE us == section.units
  <1>1. Chained /\ CallNoted /\ section \in Sections
    BY DEF Noted, Chained
  <1>2. call' = call /\ answer'.result # "ok"
    <2>1. call' = call /\ \E result \in {"no_entry", "error"} : Answer(result, 0)
      BY DEF ReadNoDie, NoDieAllocated
    <2>2. PICK result \in {"no_entry", "error"} : answer' = [result |-> result, entry |-> 0, value |-> <<>>]
      BY <2>1 DEF Answer
    <2>3. answer'.result = result
      BY <2>2
    <2>4. QED
      BY <2>1, <2>3
  <1>3. AnswerRead'
    BY <1>2 DEF AnswerRead
  <1>4. ASSUME NothingMissing', NEW k \in DOMAIN us, DueAt(us, SoundUnits, k, call)
        PROVE  FALSE
    <2>1. ~ fault'
      BY <1>4, Zenon DEF NothingMissing
    <2>2. upc = "die" /\ NoDieThere
      BY <2>1, Zenon DEF ReadNoDie, NoDieAllocated
    <2>3. DieOf(us, k, call.offset) /\ CodeIn(us, k, call.offset) # 0
      BY <1>4 DEF DueAt
    <2>4. Within(us, k, call.offset) /\ call.offset \in Nat
      BY <1>1, <2>3, DieWithin
    <2>5. PICK j \in DOMAIN list :
            \/ call.op = "offdie" /\ AtDie(us, j, call)
            \/ call.op = "unit_die" /\ call.unit = Start(j) /\ call.offset = Start(j) + HeaderSize
      BY <1>1, <2>2 DEF CallNoted, DieNoted
    <2>6. j \in DOMAIN us
      BY <1>1, IndexThere
    <2>7. AtDie(us, j, call)
      <3>1. CASE call.unit = Start(j) /\ call.offset = Start(j) + HeaderSize
        <4>1. DieOf(us, k, Start(j) + HeaderSize)
          BY <2>3, <3>1
        <4>2. j = k
          BY <1>1, <2>6, <4>1, FirstOfUnit
        <4>3. QED
          BY <2>3, <3>1, <4>2 DEF AtDie, Start
      <3>2. QED
        BY <2>5, <3>1
    <2>8. /\ Within(us, j, call.offset) /\ ~ (call.offset >= EndOf(call.unit))
          /\ CodeAt(call.unit, call.offset) = CodeIn(us, j, call.offset)
      BY <1>1, <2>7, DieOfCall DEF CodeIn
    <2>9. j = k
      BY <1>1, <2>4, <2>6, <2>8, OneUnit
    <2>10. QED
      BY <2>2, <2>3, <2>8, <2>9 DEF NoDieThere
  <1>5. SoundUnits' = SoundUnits
    BY SoundStays
  <1>6. AnswerDue'
    BY <1>2, <1>4, <1>5 DEF AnswerDue
  <1>7. QED
    BY <1>3, <1>6

\* Steps behind which no call for a DIE has just been answered.
LEMMA QuietAnswers ==
  ASSUME Noted,
         \/ NextHeaderEnds \/ NextHeaderKnown \/ NextHeaderNew \/ UnitDie \/ NoUnitYet
         \/ \E o \in Offsets : OffDieKnown(o) \/ OffDieNew(o)
         \/ \E query \in Queries, room \in 0 .. MaxRoom : Ask(query, room)
         \/ Answered \/ NoAttribute \/ Close
  PROVE  AnswerRead' /\ AnswerDue'
  <1>1. Chained /\ CallNoted
    BY DEF Noted
  <1>2. SUFFICES ~DieAnswered'
    BY DEF AnswerRead, AnswerDue
  <1>3. CASE NextHeaderNew \/ UnitDie \/ \E o \in Offsets : OffDieKnown(o) \/ OffDieNew(o)
    BY <1>3 DEF NextHeaderNew, UnitDie, OffDieKnown, OffDieNew, DieAnswered
  <1>4. CASE NextHeaderEnds \/ NextHeaderKnown
    <2>1. call'.op = "next"
      BY <1>4, CallGiven DEF NextHeaderEnds, NextHeaderKnown
    <2>2. QED
      BY <2>1 DEF DieAnswered
  <1>5. CASE NoUnitYet
    <2>1. call'.unit = None
      BY <1>5, CallGiven DEF NoUnitYet
    <2>2. QED
      BY <2>1 DEF DieAnswered
  <1>6. CASE \E query \in Queries, room \in 0 .. MaxRoom : Ask(query, room)
    <2>1. PICK query : call' = [call EXCEPT !.op = "ask", !.query = query]
      BY <1>6 DEF Ask, BeginCall
    <2>2. {"op", "query"} \subseteq DOMAIN call
      BY <1>1 DEF CallNoted, FieldsNoted
    <2>3. call'.op = "ask"
      BY <2>1, <2>2
    <2>4. QED
      BY <2>3 DEF DieAnswered
  <1>7. CASE Answered \/ NoAttribute
    <2>1. upc = "ask" /\ call' = call
      <3>1. CASE Answered
        <4>1. PICK r : upc = "ask" /\ AnswerFound(r)
          BY <3>1 DEF Answered
        <4>2. QED
          BY <4>1 DEF AnswerFound, Interrupted
      <3>2. CASE NoAttribute
        BY <3>2 DEF NoAttribute
      <3>3. QED
        BY <1>7, <3>1, <3>2
    <2>2. call.op = "ask"
      BY <1>1, <2>1 DEF CallNoted, AskNoted
    <2>3. QED
      BY <2>1, <2>2 DEF DieAnswered
  <1>8. CASE Close
    <2>1. call' = NoCall /\ NoCall.op = "none"
      BY <1>8 DEF Close, UnitsReset, NoCall
    <2>2. QED
      BY <2>1 DEF DieAnswered
  <1>9. QED
    BY <1>3, <1>4, <1>5, <1>6, <1>7, <1>8

\* The section is the input.
LEMMA SectionStays ==
  ASSUME [ObjectNext]_objectVars
  PROVE  section' = section
  <1>1. CASE UNCHANGED unitVars
    BY <1>1 DEF unitVars
  <1>2. CASE LoadSection
    <2>1. UNCHANGED unitVars \/ \E result : SectionLoaded(result)
      BY <1>2 DEF LoadSection
    <2>2. QED
      BY <1>1, <2>1 DEF SectionLoaded
  <1>3. CASE Close
    BY <1>3 DEF Close
  <1>4. CASE Access \/ SetupSections \/ Ended \/ UNCHANGED objectVars
    <2>1. UNCHANGED unitVars
      BY <1>4 DEF Access, SetupSections, Ended, objectVars
    <2>2. QED
      BY <1>1, <2>1
  <1>5. ASSUME UnitsNext PROVE section' = section
    <2>1. ASSUME NEW result, GiveUp(result) PROVE section' = section
      BY <2>1 DEF GiveUp
    <2>2. ASSUME NEW d, Complete(d) PROVE section' = section
      BY <2>2 DEF Complete
    <2>3. CASE \/ NextHeaderEnds \/ NextHeaderKnown \/ NextHeaderNew \/ UnitDie \/ NoUnitYet
               \/ \E o \in Offsets : OffDieKnown(o) \/ OffDieNew(o)
      BY <2>3 DEF NextHeaderEnds, NextHeaderKnown, NextHeaderNew, UnitDie, NoUnitYet, OffDieKnown, OffDieNew
    <2>4. CASE HeaderFails \/ HeaderRead \/ NoAbbreviations \/ NoCuDie \/ NoMemory
      BY <2>1, <2>2, <2>4 DEF HeaderFails, HeaderRead, NoAbbreviations, NoCuDie, NoMemory
    <2>5. CASE \E room \in 0 .. MaxRoom : CuDie(room) \/ CuDieAttrs(room) \/ ReadDie(room)
      BY <2>1, <2>5 DEF CuDie, CuDieAttrs, ReadDie, Proceed
    <2>6. CASE CuDieBases
      <3>1. PICK r, taken : BasesFound(r, taken)
        BY <2>6 DEF CuDieBases
      <3>2. QED
        BY <2>1, <2>2, <3>1 DEF BasesFound, Interrupted
    <2>7. CASE ReadNoDie \/ NoDieAllocated \/ NoAttribute
      BY <2>7 DEF ReadNoDie, NoDieAllocated, NoAttribute
    <2>8. CASE \E query \in Queries, room \in 0 .. MaxRoom : Ask(query, room)
      BY <2>8 DEF Ask
    <2>9. CASE Answered
      <3>1. PICK r : AnswerFound(r)
        BY <2>9 DEF Answered
      <3>2. QED
        BY <3>1 DEF AnswerFound, Interrupted
    <2>10. QED
      BY <1>5, <2>3, <2>4, <2>5, <2>6, <2>7, <2>8, <2>9 DEF UnitsNext
  <1>6. CASE ReadUnits
    BY <1>5, <1>6 DEF ReadUnits
  <1>7. QED
    BY <1>2, <1>3, <1>4, <1>6 DEF ObjectNext

\* Every step keeps what has been answered right, and every answer is right.
LEMMA AnswersKept ==
  ASSUME Noted, AnswerRead, AnswerDue, [ObjectNext]_objectVars
  PROVE  AnswerRead' /\ AnswerDue'
  <1>1. section' = section /\ SoundUnits' = SoundUnits
    BY SectionStays, SoundStays
  <1>2. CASE UNCHANGED unitVars
    <2>1. UNCHANGED <<section, upc, call, answer, fault, got>>
      BY <1>2 DEF unitVars, needVars
    <2>2. (DieAnswered' <=> DieAnswered) /\ (NothingMissing' <=> NothingMissing)
      BY <2>1, Zenon DEF DieAnswered, NothingMissing
    <2>3. QED
      BY <1>1, <2>1, <2>2 DEF AnswerRead, AnswerDue
  <1>3. CASE LoadSection
    <2>1. CASE \E n \in Names : n = wants /\ SectionLoaded(Handed(n))
      <3>1. wants # "none" /\ upc' = upc
        BY <2>1 DEF Names, SectionLoaded
      <3>2. upc # "idle"
        BY <3>1 DEF Noted, NeedsNoted
      <3>3. QED
        BY <3>1, <3>2 DEF AnswerRead, AnswerDue, DieAnswered
    <2>2. QED
      BY <1>2, <1>3, <2>1 DEF LoadSection
  <1>4. CASE Close
    BY <1>4, QuietAnswers
  <1>5. CASE Access \/ SetupSections \/ Ended \/ UNCHANGED objectVars
    <2>1. UNCHANGED unitVars
      BY <1>5 DEF Access, SetupSections, Ended, objectVars
    <2>2. QED
      BY <1>2, <2>1
  <1>6. CASE UnitsNext
    <2>1. CASE \/ HeaderFails \/ HeaderRead \/ NoAbbreviations \/ NoCuDie \/ CuDieBases \/ NoMemory
               \/ \E room \in 0 .. MaxRoom : CuDie(room) \/ CuDieAttrs(room)
      BY <1>1, <2>1, MakingAnswers
    <2>2. CASE \E room \in 0 .. MaxRoom : ReadDie(room)
      BY <1>1, <2>2, ReadDieAnswers
    <2>3. CASE ReadNoDie \/ NoDieAllocated
      BY <1>1, <2>3, NoDieAnswers
    <2>4. CASE \/ NextHeaderEnds \/ NextHeaderKnown \/ NextHeaderNew \/ UnitDie \/ NoUnitYet
               \/ \E o \in Offsets : OffDieKnown(o) \/ OffDieNew(o)
               \/ \E query \in Queries, room \in 0 .. MaxRoom : Ask(query, room)
               \/ Answered \/ NoAttribute
      BY <2>4, QuietAnswers, SMTT(30)
    <2>5. QED
      BY <1>6, <2>1, <2>2, <2>3, <2>4 DEF UnitsNext
  <1>7. QED
    BY <1>3, <1>4, <1>5, <1>6 DEF ObjectNext, ReadUnits

\* What is answered right is as it is written: the unit of a DIE is the one that
\* the property looks up.
LEMMA RightAnswers ==
  ASSUME Noted, AnswerRead, AnswerDue
  PROVE  DiesAsWritten
  <1> DEFINE us == section.units
             o == call.offset
             k == CHOOSE j \in DOMAIN us : us[j].at <= o /\ o < StartOf(us, j + 1)
             u == us[k]
             code == CodeAt(u.at, o)
             ok == answer.result = "ok"
  <1>1. section \in Sections
    BY DEF Noted, Chained
  <1>2. SUFFICES ASSUME DieAnswered
                 PROVE  IF ~DieAt(o) THEN ~ok
                        ELSE /\ ok => call.unit = u.at /\ code # 0 /\ u.abbrevs[answer.entry].code = code
                             /\ (/\ \A j \in 1 .. k : Sound(us[j], WrongSize)
                                 /\ code # 0 /\ Abbreviated(u, code)
                                 /\ NothingMissing) => ok
    BY DEF DiesAsWritten, DieAnswered
  <1>3. DieAt(o) <=> HasDie(section, o)
    BY DEF DieAt, HasDie
  <1>4. ASSUME ok PROVE \E l \in DOMAIN us : ReadAt(us, l, call, answer.entry)
    BY <1>2, <1>4 DEF AnswerRead
  <1>5. ASSUME NothingMissing, NEW l \in DOMAIN us, DueAt(us, SoundUnits, l, call) PROVE ok
    BY <1>2, <1>5 DEF AnswerDue
  <1>6. CASE ~HasDie(section, o)
    <2>1. ASSUME ok PROVE FALSE
      <3>1. PICK l \in DOMAIN us : DieOf(us, l, o)
        BY <1>4, <2>1 DEF ReadAt
      <3>2. QED
        BY <1>1, <1>6, <3>1, DieOfUnit
    <2>2. QED
      BY <1>3, <1>6, <2>1
  <1>7. CASE HasDie(section, o)
    <2>1. PICK l \in DOMAIN us : DieOf(us, l, o) /\ Within(us, l, o) /\ o \in Nat
      BY <1>1, <1>7, UnitOfDie
    <2>2. \A j \in DOMAIN us : us[j].at = StartOf(us, j)
      BY <1>1, UnitsGiven DEF Start
    <2>3. k \in DOMAIN us /\ us[k].at <= o /\ o < StartOf(us, k + 1)
      BY <2>1, <2>2 DEF Within
    <2> HIDE DEF k
    <2>4. k = l
      <3>1. Within(us, k, o)
        BY <2>2, <2>3 DEF Within
      <3>2. QED
        BY <1>1, <2>1, <2>3, <3>1, OneUnit
    <2>5. code = CodeIn(us, k, o)
      <3>1. UnitAt(u.at) = u
        BY <1>1, <2>3, UnitsGiven, UnitThere
      <3>2. QED
        BY <3>1 DEF CodeAt, CodeIn
    <2> HIDE DEF code
    <2>6. ASSUME ok PROVE call.unit = u.at /\ code # 0 /\ u.abbrevs[answer.entry].code = code
      <3>1. PICK m \in DOMAIN us : ReadAt(us, m, call, answer.entry)
        BY <1>4, <2>6
      <3>2. m = k
        <4>1. Within(us, m, o)
          BY <1>1, <3>1, DieWithin DEF ReadAt
        <4>2. QED
          BY <1>1, <2>1, <2>4, <4>1, OneUnit
      <3>3. QED
        BY <2>5, <3>1, <3>2 DEF ReadAt
    <2>7. ASSUME \A j \in 1 .. k : Sound(us[j], WrongSize), code # 0, Abbreviated(u, code), NothingMissing
          PROVE  ok
      <3>1. ASSUME NEW j \in 1 .. k PROVE us[j] \in SoundUnits
        <4>1. j \in DOMAIN us
          <5> DEFINE n == Len(us)
          <5>1. n \in Nat /\ DOMAIN us = 1 .. n /\ k \in 1 .. n
            BY <1>1, <2>3, UnitsGiven
          <5> HIDE DEF n
          <5>2. j \in 1 .. n
            BY <3>1, <5>1
          <5>3. QED
            BY <5>1, <5>2
        <4>2. us[j] \in AllUnits
          BY <1>1, <4>1, UnitFacts
        <4>3. QED
          BY <2>7, <4>2 DEF SoundUnits
      <3>2. DueAt(us, SoundUnits, k, call)
        BY <2>1, <2>4, <2>5, <2>7, <3>1 DEF DueAt
      <3>3. QED
        BY <1>5, <2>3, <2>7, <3>2
    <2>8. QED
      BY <1>3, <1>7, <2>6, <2>7
  <1>8. QED
    BY <1>6, <1>7

\* In whatever order calls for units and for DIEs come, and whatever fails on the
\* way, the DIE that dwarf_offdie_b() or dwarf_siblingof_b() hands out has the
\* abbreviation of its code in its unit, and where its unit and those before it
\* are sound and nothing was missing in this very call, it is handed out.
THEOREM DiesCorrect == ObjectSpec => []DiesAsWritten
  <1>1. ObjectInit => Noted /\ AnswerRead /\ AnswerDue
    <2>1. ObjectInit => call.op = "none"
      BY DEF ObjectInit, UnitsInit, NoCall
    <2>2. QED
      BY <2>1, NotedAtFirst DEF AnswerRead, AnswerDue, DieAnswered
  <1>2. Noted /\ AnswerRead /\ AnswerDue /\ [ObjectNext]_objectVars => (Noted /\ AnswerRead /\ AnswerDue)'
    BY NotedKept, AnswersKept
  <1>3. Noted /\ AnswerRead /\ AnswerDue => DiesAsWritten
    BY RightAnswers
  <1>4. QED
    BY <1>1, <1>2, <1>3, PTL DEF ObjectSpec

==============================================================================
