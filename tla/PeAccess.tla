------------------------------ MODULE PeAccess -------------------------------
(***************************************************************************)
(* dwarf_pe_init() and dwarf_pe_finish() (mgwhelp/dwarf_pe.c): an image is *)
(* opened, mapped and given to libdwarf, one resource after the other; if  *)
(* it has no usable debug information, all is given back and the file that *)
(* its .gnu_debuglink section names is tried once, next to the image or in *)
(* a .debug directory there.  Any call may fail.                           *)
(***************************************************************************)
EXTENDS Naturals, Sequences, FiniteSets

CONSTANTS
  Disks,     \* [path -> [kind, link]]: what is found at each path
  MaxFaults  \* bound: how many calls fail in one run

Paths == {"image", "beside", "debug_dir"}

(***************************************************************************)
(* kind: the path does not exist; it is no PE image; libdwarf finds debug  *)
(* information in it, finds none, or finds it damaged (a section given     *)
(* twice, say).  link: the last section is .gnu_debuglink.                 *)
(***************************************************************************)
File == [kind : {"absent", "not_pe", "dwarf", "stripped", "damaged"}, link : BOOLEAN]

\* Every image with every pair of files that its link may lead to.
AllDisks == [Paths -> File]

ASSUME DisksAssumption == Disks \subseteq [Paths -> File] /\ MaxFaults \in Nat

\* What dwarf_pe_init_link() acquires, in order, and the labels it goes to if
\* it cannot have the one after: label k gives resource k back.
Ladder == <<"pe_obj", "file", "mapping", "view", "intfc">>
Labels == <<"no_file", "no_file_mapping", "no_view_of_file", "no_intfc", "no_dbg">>

\* What dwarf_pe_finish() gives back, in order.
Finishing == <<"view", "mapping", "file", "pe_obj", "intfc", "dbg">>

VARIABLES
  disk, errorGiven,  \* the input: the files; whether error is not NULL
  pc,                \* where the code is
  path,              \* the file being tried
  attempt,           \* 1, or 2 if that file was found through the link
  linkPath,          \* link_path, or "none"
  held,              \* the resources acquired and not yet given back
  imageBase,         \* the file whose image base was stored
  faults             \* history: how many calls failed

vars == <<disk, errorGiven, pc, path, attempt, linkPath, held, imageBase, faults>>
inputs == <<disk, errorGiven>>
where == <<path, attempt>>

file == disk[path]
Fail == faults < MaxFaults /\ faults' = faults + 1

Init ==
  /\ disk \in Disks /\ errorGiven \in BOOLEAN
  /\ pc = "acquire" /\ path = "image" /\ attempt = 1 /\ linkPath = "none"
  /\ held = {} /\ imageBase = "none" /\ faults = 0

-----------------------------------------------------------------------------
(* dwarf_pe_init_link()                                                    *)

\* The resource to be acquired next.
Rung == Ladder[Cardinality(held) + 1]

\* CreateFileW() cannot open what is not there.
Available(r) == r = "file" => file.kind # "absent"

\* The image base is read from the first of two files only.
AcquireBaseOnce ==
  /\ pc = "acquire"
  /\ Available(Rung)
  /\ held' = held \cup {Rung}
  /\ pc' = CASE Rung = "view" /\ file.kind = "not_pe" -> "no_intfc"
             [] Rung = "intfc" -> "setup"
             [] OTHER -> "acquire"
  /\ imageBase' = IF Rung = "view" /\ file.kind # "not_pe" /\ attempt = 1 THEN path ELSE imageBase
  /\ UNCHANGED <<inputs, where, linkPath, faults>>

\* Once the file is mapped, its headers are checked and its image base taken.
Acquire ==
  /\ pc = "acquire"
  /\ Available(Rung)
  /\ held' = held \cup {Rung}
  /\ pc' = CASE Rung = "view" /\ file.kind = "not_pe" -> "no_intfc"
             [] Rung = "intfc" -> "setup"
             [] OTHER -> "acquire"
  /\ imageBase' = IF Rung = "view" /\ file.kind # "not_pe" THEN path ELSE imageBase
  /\ UNCHANGED <<inputs, where, linkPath, faults>>

\* A failure handled at the label above the right one.
AcquireFailsTooHigh ==
  /\ pc = "acquire"
  /\ IF Available(Rung) THEN Fail ELSE UNCHANGED faults
  /\ pc' = Labels[Cardinality(held) + 1]
  /\ UNCHANGED <<inputs, where, linkPath, held, imageBase>>

AcquireFails ==
  /\ pc = "acquire"
  /\ IF Available(Rung) THEN Fail ELSE UNCHANGED faults
  /\ pc' = IF held = {} THEN "no_internals" ELSE Labels[Cardinality(held)]
  /\ UNCHANGED <<inputs, where, linkPath, held, imageBase>>

\* dwarf_object_init_b() succeeds.
Setup ==
  /\ pc = "setup"
  /\ file.kind = "dwarf"
  /\ held' = held \cup {"dbg"}
  /\ pc' = "open"
  /\ UNCHANGED <<inputs, where, linkPath, imageBase, faults>>

\* A result taken for a failure that rules out the link.
SetupNoEntryGivesUp ==
  /\ pc = "setup"
  /\ file.kind = "stripped"
  /\ pc' = "no_dbg"
  /\ UNCHANGED <<inputs, where, linkPath, held, imageBase, faults>>

\* It finds no debug information.
SetupNoEntry ==
  /\ pc = "setup"
  /\ file.kind = "stripped"
  /\ pc' = "link"
  /\ UNCHANGED <<inputs, where, linkPath, held, imageBase, faults>>

\* It fails, and looks at *error on its way out.
SetupError ==
  /\ pc = "setup"
  /\ IF file.kind = "damaged" THEN UNCHANGED faults ELSE Fail
  /\ pc' = IF errorGiven THEN "link" ELSE "crashed"
  /\ UNCHANGED <<inputs, where, linkPath, held, imageBase>>

\* The first attempt leaves the path of the file to try instead; converting
\* its name may fail.
Linked ==
  CASE disk["beside"].kind # "absent" -> "beside"
    [] disk["beside"].kind = "absent" /\ disk["debug_dir"].kind # "absent" -> "debug_dir"
    [] OTHER -> "none"

FindLink ==
  /\ pc = "link"
  /\ \/ linkPath' = (IF attempt = 1 /\ file.link THEN Linked ELSE linkPath) /\ UNCHANGED faults
     \/ attempt = 1 /\ file.link /\ linkPath' = "none" /\ Fail
  /\ pc' = "no_dbg"
  /\ UNCHANGED <<inputs, where, held, imageBase>>

\* The labels at the end: each gives one resource back and falls through.
Unwind ==
  /\ \E k \in 1 .. Len(Labels) :
       /\ pc = Labels[k]
       /\ held' = held \ {Ladder[k]}
       /\ pc' = IF k = 1 THEN "no_internals" ELSE Labels[k - 1]
  /\ UNCHANGED <<inputs, where, linkPath, imageBase, faults>>

-----------------------------------------------------------------------------
(* dwarf_pe_init() and dwarf_pe_finish()                                   *)

\* The attempt has failed: make the second one if there is a file for it.
Redirect ==
  /\ pc = "no_internals"
  /\ IF attempt = 1 /\ linkPath # "none"
       THEN pc' = "acquire" /\ attempt' = 2 /\ path' = linkPath
       ELSE pc' = "failed" /\ UNCHANGED where
  /\ UNCHANGED <<inputs, linkPath, held, imageBase, faults>>

\* The caller has done with the debug information.
BeginFinish ==
  /\ pc = "open"
  /\ pc' = "finish"
  /\ UNCHANGED <<inputs, where, linkPath, held, imageBase, faults>>

Finish ==
  /\ pc = "finish"
  /\ \E k \in 1 .. Len(Finishing) :
       /\ Finishing[k] \in held
       /\ \A l \in 1 .. k - 1 : Finishing[l] \notin held
       /\ held' = held \ {Finishing[k]}
       /\ pc' = IF k = Len(Finishing) THEN "finished" ELSE "finish"
  /\ UNCHANGED <<inputs, where, linkPath, imageBase, faults>>

Done == pc \in {"failed", "finished", "crashed"} /\ UNCHANGED vars

Next ==
  \/ Acquire \/ AcquireFails \/ Setup \/ SetupNoEntry \/ SetupError \/ FindLink
  \/ Unwind \/ Redirect \/ BeginFinish \/ Finish
  \/ Done

Spec == Init /\ [][Next]_vars

-----------------------------------------------------------------------------

LabelSet == {Labels[k] : k \in 1 .. Len(Labels)}
Rungs(k) == {Ladder[l] : l \in 1 .. k}

\* The variables' types.
TypeOK ==
  /\ disk \in [Paths -> File] /\ errorGiven \in BOOLEAN
  /\ pc \in {"acquire", "setup", "link", "no_internals", "open", "finish",
             "failed", "finished", "crashed"} \cup LabelSet
  /\ path \in Paths /\ attempt \in {1, 2}
  /\ linkPath \in Paths \cup {"none"} /\ imageBase \in Paths \cup {"none"}
  /\ held \subseteq Rungs(5) \cup {"dbg"}
  /\ faults \in 0 .. MaxFaults

\* Whichever call fails, in whichever attempt, every label finds exactly the
\* resources that it and the labels below it give back: none is lost, and none
\* is given back that was never acquired.  There are at most two attempts.
LabelsMatchLadder ==
  /\ TypeOK
  /\ \A k \in 1 .. Len(Labels) : pc = Labels[k] => held = Rungs(k)
  /\ pc = "acquire" => \E k \in 0 .. 4 : held = Rungs(k)
  /\ pc \in {"setup", "link"} => held = Rungs(5)
  /\ pc \in {"no_internals", "failed", "finished"} => held = {}
  /\ pc = "open" => held = Rungs(5) \cup {"dbg"}

\* The image base handed to the caller, from which it derives the offset of
\* all addresses, is that of the file whose debug information it gets.
BaseOfOpenedFile == pc = "open" => imageBase = path

\* The first file to have debug information if nothing fails: the image, else
\* the one that its link leads to, but never a third.
Expected ==
  IF disk["image"].kind = "dwarf" THEN "image"
  ELSE IF /\ disk["image"].kind \in {"stripped", "damaged"}
          /\ disk["image"].link /\ Linked # "none"
          /\ disk[Linked].kind = "dwarf" THEN Linked
  ELSE "none"

\* If no call fails, the file expected is opened, and the call fails only if
\* there is none.
OpensExpected ==
  faults = 0 =>
    /\ pc = "open" => path = Expected
    /\ pc = "failed" => Expected = "none"

-----------------------------------------------------------------------------
(* A statement of libdwarf that the code does not keep.                    *)

\* Initialisation copes with an error pointer that is NULL.
NullErrorTolerated == pc # "crashed"

=============================================================================
