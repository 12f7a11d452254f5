---------------------------- MODULE AddressLookup ----------------------------
(***************************************************************************)
(* How one unit answers one address after another: what dwstOfFileExt()    *)
(* (src/dwst-file.c) does with a unit that its filter lets through.  The   *)
(* line table is read once (LineReader), its rows are searched for each    *)
(* address (LineLookup), the file list is read once, and the walk over the *)
(* DIEs reports the row's location and those it is inlined to              *)
(* (InlineWalk).                                                           *)
(*                                                                         *)
(* The table is read here before the first address is asked for, as the    *)
(* reading does not look at the address.                                   *)
(***************************************************************************)
EXTENDS LineLookup, LineReader

CONSTANTS
  Units  \* [sources, trees]: line tables, and DIEs that a unit with one may have

VARIABLES
  list,  \* fileCount: Unread, 0 if there is none
  tree, wpc, stack, stop, links, attrs, live, fileno, site, ptrOrig, frames, fault  \* InlineWalk's

lookupVars == <<rows, ptr, c, onEnd, prevAdd, hit, pc>>
walkVars == <<tree, wpc, stack, stop, links, attrs, live, fileno, site, ptrOrig, frames, fault>>
allVars == <<readerVars, lookupVars, list, walkVars>>

Unread == -1

\* fileno_offs, by the version that dwarf_srclines_b() tells.
FilenoOffs == IF mode = "table" /\ src.header.v5 THEN 0 ELSE -1

\* srcfileno + fileno_offs, and whether it and lineno are of use.
RowIndex == (IF pc \in {"hit", "walk"} THEN rows[hit].file ELSE 0) + FilenoOffs
RowUsable == pc = "hit" /\ RowIndex >= 0 /\ rows[hit].line # 0

Walk == INSTANCE InlineWalk WITH
  pc <- wpc, given <- [files |-> list, offs |-> FilenoOffs, row |-> RowIndex]

ASSUME UnitsAssumption ==
  \A u \in Units : /\ \A s \in u.sources : IsSource(s)
                   /\ \A t \in u.trees : Walk!IsTree(t)

\* Before an address is asked for, the search's variables have no meaning.
NoLookup ==
  /\ ptr = 0 /\ c = 1 /\ onEnd = TRUE /\ prevAdd = 0 /\ hit = 0 /\ pc = "idle"

LookupInit ==
  /\ \E u \in Units : src \in u.sources /\ tree \in u.trees
  /\ ReaderInit
  /\ rows = <<>> /\ NoLookup
  /\ list = Unread
  /\ Walk!Init

-----------------------------------------------------------------------------

\* The lines are read, up to the one context that is kept or none.
ReadTable ==
  /\ ReaderNext
  /\ rows' = IF mode' = "table" THEN ctx.logicals ELSE <<>>
  /\ UNCHANGED <<ptr, c, onEnd, prevAdd, hit, pc, list, walkVars>>

\* The next address that the unit may have.
Ask(p) ==
  /\ mode \in {"none", "table"} /\ pc = "idle"
  /\ ptr' = p
  /\ pc' = "loop"
  /\ UNCHANGED <<rows, c, onEnd, prevAdd, hit, list, readerVars, walkVars>>

\* The loop over the rows.
SearchRows ==
  /\ Skip \/ Hit \/ Exhaust \/ ReadFails
  /\ UNCHANGED <<list, readerVars, walkVars>>

\* dwarf_srcfiles() goes through the header once more, and its list holds the
\* files named there, not those that the program defines.  If it fails, or has
\* none, no later address asks again.
ReadFileList ==
  /\ RowUsable /\ list = Unread
  /\ list' \in {0, src.files}
  /\ UNCHANGED <<readerVars, lookupVars, walkVars>>

\* No row has the address, the row is of no use, or there are no files: the
\* next unit is tried.
TurnDown ==
  /\ pc \in {"hit", "miss", "failed"}
  /\ ~RowUsable \/ list = 0
  /\ pc' = "turned_down"
  /\ UNCHANGED <<rows, ptr, c, onEnd, prevAdd, hit, list, readerVars, walkVars>>

NoSrcFile ==
  /\ RowUsable /\ list > 0
  /\ RowIndex > list
  /\ pc' = "no_src_file"
  /\ UNCHANGED <<rows, ptr, c, onEnd, prevAdd, hit, list, readerVars, walkVars>>

WalkBegins ==
  /\ RowUsable /\ list > 0
  /\ RowIndex <= list
  /\ pc' = "walk"
  /\ Walk!Begin
  /\ UNCHANGED <<rows, ptr, c, onEnd, prevAdd, hit, list, readerVars>>

WalkStep ==
  /\ pc = "walk"
  /\ Walk!Next
  /\ UNCHANGED <<readerVars, lookupVars, list>>

\* A unit that goes on from the row it has found last.
AnsweredKeepingRow ==
  /\ \/ pc \in {"turned_down", "no_src_file"} /\ UNCHANGED walkVars
     \/ pc = "walk" /\ Walk!End
  /\ UNCHANGED <<c, onEnd, prevAdd, hit>>
  /\ ptr' = 0 /\ pc' = "idle"
  /\ UNCHANGED <<rows, list, readerVars>>

\* The unit's DIE is freed; each search begins with the first row.
Answered ==
  /\ \/ pc \in {"turned_down", "no_src_file"} /\ UNCHANGED walkVars
     \/ pc = "walk" /\ Walk!End
  /\ ptr' = 0 /\ c' = 1 /\ onEnd' = TRUE /\ prevAdd' = 0 /\ hit' = 0 /\ pc' = "idle"
  /\ UNCHANGED <<rows, list, readerVars>>

\* The clean-up, which leaves a unit without lines alone.
CleanUp ==
  /\ pc = "idle"
  /\ \/ Close
     \/ mode = "none" /\ mode' = "closed" /\ UNCHANGED <<ctx, held>> /\ OutsideProgram
  /\ rows' = <<>> /\ list' = Unread
  /\ UNCHANGED <<ptr, c, onEnd, prevAdd, hit, pc, walkVars>>

Stopped == mode \in {"closed", "crashed"} /\ UNCHANGED allVars

LookupNext ==
  \/ ReadTable
  \/ \E p \in Ptrs : Ask(p)
  \/ SearchRows
  \/ ReadFileList \/ TurnDown \/ NoSrcFile
  \/ WalkBegins \/ WalkStep \/ Answered
  \/ CleanUp \/ Stopped

LookupSpec == LookupInit /\ [][LookupNext]_allVars /\ WF_allVars(LookupNext)

-----------------------------------------------------------------------------

FramesAreEnclosing == Walk!FramesAreEnclosing
LocationsChain == Walk!LocationsChain
HandlesMatchRecursion == Walk!HandlesMatchRecursion

Info == INSTANCE UnitInfo

\* From the bytes of the line table to the callback: the address gets the row
\* that the program means for it, in the file that the list names for that
\* row's number, unless a read has failed; otherwise the unit turns it down.
\* (OfFile takes a unit for the value that is computed here.)
AnswersAsMeant ==
  LET unit == [low |-> 0, high |-> 0, ranges |-> <<>>, v5 |-> src.header.v5,
               table |-> IF mode = "table" THEN "rows" ELSE "none",
               rows |-> MeantRows, fileCount |-> src.files, frames |-> <<>>]
      loc == Info!LocationOf(unit, ptr)
      index == Info!FileIndex(unit, loc.file)
  IN PlainProgram =>
       /\ pc = "walk" =>
            /\ Info!Usable(unit, loc) /\ Info!FileListed(unit, loc)
            /\ site = 0 => fileno = index
            /\ rows[hit].line = loc.line
       /\ pc = "no_src_file" => Info!Usable(unit, loc) /\ ~Info!FileListed(unit, loc)
       /\ pc = "turned_down" =>
            ~Info!Usable(unit, loc) \/ list = 0 \/ (hit = 0 /\ c <= Len(rows))

\* Reading comes to an end however the table is formed, the unit answers every
\* address it is asked for, and the clean-up finds it at rest.
AtRest ==
  \/ pc = "idle" /\ ~Reading
  \/ mode = "crashed"
EveryLookupEnds == []<>AtRest

=============================================================================
