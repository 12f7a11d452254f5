----------------------------- MODULE InlineWalk ------------------------------
(***************************************************************************)
(* The walk over a unit's DIE tree that reports one source location with   *)
(* the functions inlined around it: walkChildren(), findInlined() and      *)
(* dwarf_name_of_func_linked() (src/dwst-file.c).  The recursion is kept   *)
(* as a stack of the DIE handles it holds.                                 *)
(*                                                                         *)
(* A tree is given by its entries in .debug_info (DieStream), and by what  *)
(* they mean: DIEs 0 (the unit's own) to n in order of their offsets,      *)
(* last[d] being the last DIE in the subtree of d.  The walk sees only the *)
(* entries.  Whether a function DIE holds the address (CuRanges), is an    *)
(* attribute of it here.                                                   *)
(***************************************************************************)
EXTENDS DieStream, SequencesExt

(***************************************************************************)
(* kind: the tag, as far as it is looked at.  covers: the address is in    *)
(* the DIE's ranges.  call: the number in DW_AT_call_file, or None if that *)
(* or DW_AT_call_line is missing.  name: 0 if the DIE has a name itself, d *)
(* if DW_AT_abstract_origin or DW_AT_specification refers to DIE d, else   *)
(* None.                                                                   *)
(***************************************************************************)
DieAttrs == [kind : {"subprogram", "inlined", "other"}, covers : BOOLEAN,
             call : Nat \cup {None}, name : Nat \cup {None}]

\* A unit's tree.  References lead to DIEs before.
IsTree(t) ==
  /\ t.n \in Nat
  /\ DOMAIN t.last = 0 .. t.n /\ DOMAIN t.die = 1 .. t.n
  /\ t.last[0] = t.n
  /\ \A d \in 0 .. t.n : t.last[d] \in d .. t.n
  /\ \A d \in 0 .. t.n, e \in 0 .. t.n :
       (d < e /\ e <= t.last[d]) => t.last[e] <= t.last[d]
  /\ {d \in 0 .. t.n : t.last[d] > d} \subseteq t.flagged /\ t.flagged \subseteq 0 .. t.n
  /\ t.linked \subseteq 1 .. t.n
  /\ t.entries = Entries(t.n, t.last, t.flagged, t.linked)
  /\ \A d \in 1 .. t.n : t.die[d] \in DieAttrs /\ t.die[d].name < d

VARIABLES
  tree,    \* the input
  given,   \* from the caller: the length of the file list, fileno_offs (-1 before
           \* DWARF 5, where files count from 1), and the row's index into the list
  pc,      \* where the code is
  stack,   \* the DIE of each walkChildren() that is running
  stop,    \* stopChildren of the innermost one
  links,   \* the DIEs held by dwarf_name_of_func_linked()
  attrs,   \* the attributes held by findInlined()
  live,    \* how many handles libdwarf has given out for each DIE
  fileno, site, ptrOrig,  \* inline_info: the location to report next
  frames,  \* history: the callbacks made
  fault    \* history: a libdwarf call failed

vars == <<tree, given, pc, stack, stop, links, attrs, live, fileno, site, ptrOrig, frames, fault>>
location == <<fileno, site, ptrOrig>>

n == tree.n
die == tree.die
RowSite == 0   \* site is the inlined DIE whose call is reported, or the row

Top == stack[Len(stack)]
Here == IF stack = <<>> THEN 0 ELSE Top   \* the DIE whose children are walked

Position(d) == PositionOf(tree.last, tree.flagged, d)
Child(d) == ChildAt(tree.entries, Position(d))
Sibling(d) == SiblingAt(tree.entries, Position(d))

Acquire(d) == [live EXCEPT ![d] = @ + 1]
Swap(old, new) == [live EXCEPT ![old] = @ - 1, ![new] = @ + 1]

Init ==
  /\ pc = "idle" /\ stack = <<>> /\ stop = FALSE /\ links = <<>> /\ attrs = {}
  /\ live = [d \in 1 .. tree.n |-> 0]
  /\ fileno = 0 /\ site = RowSite /\ ptrOrig = TRUE
  /\ frames = <<>> /\ fault = FALSE

\* dwstOfFileExt() fills in inline_info and calls walkChildren().
Begin ==
  /\ pc = "idle"
  /\ fileno' = given.row
  /\ pc' = "descend"
  /\ UNCHANGED <<tree, stack, stop, links, attrs, live, site, ptrOrig, frames, fault>>

\* inline_info goes out of scope.
End ==
  /\ pc = "done"
  /\ pc' = "idle"
  /\ stop' = FALSE /\ fileno' = 0 /\ site' = RowSite /\ ptrOrig' = TRUE
  /\ frames' = <<>> /\ fault' = FALSE
  /\ UNCHANGED <<tree, stack, links, attrs, live>>

-----------------------------------------------------------------------------
(* walkChildren()                                                          *)

\* dwarf_child() finds a child: the recursion goes down.
Descend ==
  /\ pc = "descend"
  /\ Child(Here) # None
  /\ stack' = Append(stack, Child(Here))
  /\ live' = Acquire(Child(Here))
  /\ UNCHANGED <<tree, pc, stop, links, attrs, location, frames, fault>>

\* walkChildren() returns to the one that called it, or to dwstOfFileExt().
Return(s, result) ==
  /\ stack' = s
  /\ stop' = result
  /\ pc' = IF s = <<>> THEN "done" ELSE "visit"

\* There is no child, or dwarf_child() fails: the recursion returns 0.
NoChild ==
  /\ pc = "descend"
  /\ \/ Child(Here) = None /\ UNCHANGED fault
     \/ Child(Here) # None /\ fault' = TRUE
  /\ Return(stack, FALSE)
  /\ UNCHANGED <<tree, links, attrs, live, location, frames>>

\* The child or a DIE below it was what the walk is for: free it and return 1.
Stop(res) ==
  /\ stop \/ res
  /\ live' = [live EXCEPT ![Top] = @ - 1]
  /\ Return(Front(stack), TRUE)

\* A walk that returns without freeing the last sibling.
LastSiblingKept ==
  /\ Return(Front(stack), FALSE)
  /\ UNCHANGED live

\* There is no sibling, or the call fails: free the child and return 0.
LastSibling ==
  /\ Return(Front(stack), FALSE)
  /\ live' = [live EXCEPT ![Top] = @ - 1]

\* A loop that forgets to go on from the child it has just freed.
NextSiblingForgotten ==
  /\ Sibling(Top) # None
  /\ pc' = "descend"
  /\ UNCHANGED <<stop, stack, live>>

\* The sibling is asked for before the child is freed.
NextSibling ==
  /\ Sibling(Top) # None
  /\ stack' = [stack EXCEPT ![Len(stack)] = Sibling(Top)]
  /\ live' = Swap(Top, Sibling(Top))
  /\ pc' = "descend"
  /\ UNCHANGED stop

\* What follows walkFunc() returning res.
AfterVisit(res) ==
  \/ Stop(res) /\ UNCHANGED fault
  \/ ~stop /\ ~res /\ NextSibling /\ UNCHANGED fault
  \/ /\ ~stop /\ ~res /\ LastSibling
     /\ fault' = (fault \/ Sibling(Top) # None)

-----------------------------------------------------------------------------
(* findInlined()                                                           *)

Stops(d) == die[d].kind # "other" /\ die[d].covers

\* Not a function, or not one that holds the address: return 0.
VisitOther ==
  /\ pc = "visit"
  /\ ~Stops(Top)
  /\ AfterVisit(FALSE)
  /\ UNCHANGED <<tree, links, attrs, location, frames>>

VisitSubprogram ==
  /\ pc = "visit"
  /\ Stops(Top) /\ die[Top].kind = "subprogram"
  /\ pc' = "name"
  /\ links' = <<Top>>
  /\ UNCHANGED <<tree, stack, stop, attrs, live, location, frames, fault>>

\* The call's file or line is missing: there is no location to go on with.
VisitNoCall ==
  /\ pc = "visit"
  /\ Stops(Top) /\ die[Top].kind = "inlined" /\ die[Top].call = None
  /\ AfterVisit(TRUE)
  /\ UNCHANGED <<tree, links, attrs, location, frames>>

VisitInlined ==
  /\ pc = "visit"
  /\ Stops(Top) /\ die[Top].kind = "inlined" /\ die[Top].call # None
  /\ attrs' = {"call_file", "call_line"}
  /\ pc' = "call"
  /\ UNCHANGED <<tree, stack, stop, links, live, location, frames, fault>>

CallInList(d) ==
  /\ die[d].call + given.offs >= 0
  /\ die[d].call + given.offs < given.files

\* The file is none of the unit's, or dwarf_formudata() fails: nothing is
\* reported, but the walk ends here.
CallUnusable ==
  /\ pc = "call"
  /\ attrs' = {}
  /\ \/ ~CallInList(Top) /\ AfterVisit(TRUE)
     \/ CallInList(Top) /\ fault' = TRUE /\ Stop(TRUE)
  /\ UNCHANGED <<tree, links, location, frames>>

CallUsable ==
  /\ pc = "call"
  /\ CallInList(Top)
  /\ pc' = "name"
  /\ links' = <<Top>>
  /\ UNCHANGED <<tree, stack, stop, attrs, live, location, frames, fault>>

-----------------------------------------------------------------------------
(* dwarf_name_of_func_linked(): links holds the DIE asked, then the DIEs   *)
(* that it refers to; all but the first are handles of their own.          *)

\* The DIE has no name, but refers to one that may.
FollowLink ==
  /\ pc = "name"
  /\ die[Last(links)].name > 0
  /\ links' = Append(links, die[Last(links)].name)
  /\ live' = Acquire(die[Last(links)].name)
  /\ UNCHANGED <<tree, pc, stack, stop, attrs, location, frames, fault>>

\* The name is found, or there is none (which a failing call amounts to).
NameEnds ==
  /\ pc = "name"
  /\ die[Last(links)].name <= 0
  /\ pc' = "unlink"
  /\ UNCHANGED <<tree, stack, stop, links, attrs, live, location, frames, fault>>

NameFails ==
  /\ pc = "name"
  /\ pc' = "unlink"
  /\ fault' = TRUE
  /\ UNCHANGED <<tree, stack, stop, links, attrs, live, location, frames>>

\* Each recursion frees the DIE it got once the one below it has returned.
Unlink ==
  /\ pc = "unlink"
  /\ Len(links) > 1
  /\ live' = [live EXCEPT ![Last(links)] = @ - 1]
  /\ links' = Front(links)
  /\ UNCHANGED <<tree, pc, stack, stop, attrs, location, frames, fault>>

\* The callback, with the location that inline_info holds.
Emit == frames' = Append(frames, [die |-> Top, file |-> fileno, site |-> site, real |-> ptrOrig])

ReportSubprogram ==
  /\ pc = "unlink" /\ Len(links) = 1
  /\ die[Top].kind = "subprogram"
  /\ Emit
  /\ links' = <<>>
  /\ AfterVisit(TRUE)
  /\ UNCHANGED <<tree, attrs, location>>

\* An inlined function that leaves the location of its own code in place.
ReportInlinedInPlace ==
  /\ pc = "unlink" /\ Len(links) = 1
  /\ die[Top].kind = "inlined"
  /\ Emit
  /\ UNCHANGED location
  /\ links' = <<>>
  /\ attrs' = {}
  /\ AfterVisit(TRUE)
  /\ UNCHANGED tree

\* Its caller's location is that of the call; only the innermost function is
\* reported with the address itself.
ReportInlined ==
  /\ pc = "unlink" /\ Len(links) = 1
  /\ die[Top].kind = "inlined"
  /\ Emit
  /\ fileno' = die[Top].call + given.offs
  /\ site' = Top
  /\ ptrOrig' = FALSE
  /\ links' = <<>>
  /\ attrs' = {}
  /\ AfterVisit(TRUE)
  /\ UNCHANGED tree

Next ==
  \/ Descend \/ NoChild
  \/ VisitOther \/ VisitSubprogram \/ VisitNoCall \/ VisitInlined
  \/ CallUnusable \/ CallUsable
  \/ FollowLink \/ NameEnds \/ NameFails \/ Unlink
  \/ ReportSubprogram \/ ReportInlined

-----------------------------------------------------------------------------

\* d is e or holds it.
Encloses(d, e) == d <= e /\ e <= tree.last[d]

\* d is visited before e: every DIE comes after the DIEs below it.
Before(d, e) == d # e /\ (Encloses(e, d) \/ (d < e /\ ~Encloses(d, e)))

\* The DIE that ends the walk.
FirstStop(d) ==
  /\ Stops(d)
  /\ \A e \in 1 .. n : (Stops(e) /\ e # d) => Before(d, e)

\* A function that the walk reports if it visits it.
Reports(d) == Stops(d) /\ (die[d].kind = "inlined" => die[d].call # None /\ CallInList(d))

Count(s, d) == Cardinality({k \in DOMAIN s : s[k] = d})

\* The variables' types; the file index handed to the next callback is one of
\* the unit's file list, if it is not that of the row (see FileListed).
TypeOK ==
  /\ pc \in {"idle", "descend", "visit", "call", "name", "unlink", "done"}
  /\ stack \in Seq(1 .. n) /\ links \in Seq(1 .. n) /\ stop \in BOOLEAN
  /\ attrs \subseteq {"call_file", "call_line"}
  /\ live \in [1 .. n -> Nat]
  /\ site \in 0 .. n /\ ptrOrig \in BOOLEAN /\ fault \in BOOLEAN
  /\ IF site = RowSite THEN pc # "idle" => fileno = given.row
                       ELSE fileno \in 0 .. given.files - 1

\* The handles that are out are those the recursions hold, each once, and none
\* is left when the walk returns, whichever call failed.
HandlesMatchRecursion ==
  /\ \A d \in 1 .. n :
       live[d] = Count(stack, d) + (IF links = <<>> THEN 0 ELSE Count(Tail(links), d))
  /\ pc = "done" => stack = <<>> /\ links = <<>> /\ attrs = {}

\* The functions that hold the address lie inside one another, as they do when
\* siblings' ranges are disjoint.
Nested ==
  \A d \in 1 .. n, e \in 1 .. n :
    (Stops(d) /\ Stops(e)) => Encloses(d, e) \/ Encloses(e, d)

\* The functions reported are the first one visited that holds the address
\* and those around it, from the inside out, and no other; in a tree where
\* functions nest, none that holds the address and can be reported is missing.
FramesAreEnclosing ==
  /\ \A k \in 1 .. Len(frames) - 1 :
       frames[k].die # frames[k + 1].die /\ Encloses(frames[k + 1].die, frames[k].die)
  /\ (pc = "done" /\ ~fault) =>
       \A d \in 1 .. n :
         (\E k \in 1 .. Len(frames) : frames[k].die = d)
           <=> Reports(d) /\ (Nested \/ \E s \in 1 .. n : FirstStop(s) /\ Encloses(d, s))

\* Every function is reported at the place where the function reported before
\* it was called, the first one at the row found in the line table.  Where no
\* function is nested in a subprogram other than by inlining, one frame and no
\* more carries the real address, and it comes first.  The place of a call is in a
\* file of the unit's list.
LocationsChain ==
  /\ TypeOK
  /\ \A k \in 1 .. Len(frames) :
       LET inl == {j \in 1 .. k - 1 : die[frames[j].die].kind = "inlined"}
       IN IF inl = {}
            THEN frames[k].site = RowSite /\ frames[k].file = given.row
            ELSE \E j \in inl :
                   /\ \A l \in inl : l <= j
                   /\ frames[k].site = frames[j].die
                   /\ frames[k].file = die[frames[j].die].call + given.offs
  /\ (\A d \in 1 .. n, e \in 1 .. n :
        (die[d].kind = "subprogram" /\ d # e /\ Encloses(e, d)) => ~Stops(e)) =>
          \A k \in 1 .. Len(frames) : frames[k].real <=> k = 1

=============================================================================
