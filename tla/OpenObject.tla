----------------------------- MODULE OpenObject ------------------------------
(***************************************************************************)
(* An image from dwarf_pe_init() to dwarf_pe_finish(): the sections of the *)
(* file that is opened are entered (PeAccess, SectionTable); while its     *)
(* debug information is open, sections are loaded when they are needed and *)
(* its units are read (UnitChain).  Contents and contexts go with the      *)
(* Dwarf_Debug, and are not looked at any more when dwarf_pe_finish()      *)
(* begins.                                                                 *)
(***************************************************************************)
EXTENDS PeAccess, UnitChain, SectionTable

CONSTANTS
  Stored(_),  \* bound: the files there may be with the contents of .debug_info,
              \* and whether the caller takes errors
  Listed(_)   \* bound: the section headers that the files of a disk may have

ASSUME ListedAssumption == \A d \in Disks : Listed(d) \subseteq Seq(Header)

objectVars == <<vars, unitVars, sectionVars>>

ObjectInit ==
  /\ UnitsInit /\ \E m \in Stored(section) : disk = m[1] /\ errorGiven = m[2]
  /\ Init
  /\ headers = <<>> /\ NoneLoaded

\* What comes before there is a Dwarf_Debug, and after it is not used any more.
Access ==
  /\ \/ Acquire \/ AcquireFails \/ SetupNoEntry \/ SetupError \/ FindLink
     \/ Unwind \/ Redirect \/ Finish
  /\ UNCHANGED <<unitVars, sectionVars>>

\* A file with debug information is one whose section headers say so.
SetupSections ==
  /\ Setup
  /\ \E hs \in Listed(disk) :
       SetUp(hs).result = "ok" /\ headers' = hs /\ SectionsSetUp
  /\ UNCHANGED unitVars

\* _dwarf_load_debug_info() has .debug_abbrev and goes on to .debug_info.
HalfLoaded == load = [name |-> "abbrev", result |-> "ok"] /\ data["info"] = "none"

\* The first of the calls for a unit loads both; line programs and lists of
\* ranges are loaded by calls for what a DIE refers to, others by the call that
\* reads a value.
Needed(n) ==
  CASE n = "abbrev" -> data["info"] = "none" /\ ~HalfLoaded
    [] n = "info" -> HalfLoaded
    [] n \in {"line", "ranges"} -> data["info"] # "none" /\ upc = "idle"
    [] OTHER -> n = wants

\* A call that waits for a section goes on with what it is handed out.
Handed(n) == IF load'.result = "ok" /\ data'[n] = "bytes" THEN "garbage" ELSE load'.result

LoadSection ==
  /\ pc = "open" /\ upc \in {"idle", "bases", "ask"}
  /\ \E n \in Names :
       /\ Needed(n)
       /\ \/ (LoadKnown(n) \/ LoadPlain(n) \/ Unpack(n)) /\ UNCHANGED faults
          \/ /\ UnpackFails(n)
             /\ IF headers[at[n]].damaged THEN UNCHANGED faults ELSE Fail
       /\ IF n = wants THEN SectionLoaded(Handed(n)) ELSE UNCHANGED unitVars
  /\ UNCHANGED <<inputs, pc, where, linkPath, held, imageBase>>

\* Units are as they are written if the contents of both sections are there;
\* what is read from packed bytes is left open.
ReadUnits ==
  /\ pc = "open"
  /\ data["info"] = "contents" /\ data["abbrev"] = "contents"
  /\ UnitsNext
  /\ load' = NoLoad
  /\ UNCHANGED <<vars, headers, at, data, unpacked, spoilt>>

\* The caller is not in a call.
Close ==
  /\ BeginFinish
  /\ upc = "idle" /\ ~HalfLoaded
  /\ UnitsReset /\ NothingLoaded
  /\ UNCHANGED <<section, headers>>

Ended == (pc \in {"failed", "finished", "crashed"} \/ upc = "crashed") /\ UNCHANGED objectVars

ObjectNext == Access \/ SetupSections \/ LoadSection \/ ReadUnits \/ Close \/ Ended

ObjectSpec == ObjectInit /\ [][ObjectNext]_objectVars

=============================================================================
