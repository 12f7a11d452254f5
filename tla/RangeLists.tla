------------------------------ MODULE RangeLists ------------------------------
(***************************************************************************)
(* How libdwarf comes by the range list of a unit that CuRanges is given:  *)
(* dwarf_get_ranges_b() (libdwarf/dwarf_ranges.c) for DWARF 4 and before,  *)
(* dwarf_rnglists_get_rle_head() (libdwarf/dwarf_rnglists.c) for DWARF 5,  *)
(* where an entry may name its addresses by their index in .debug_addr.    *)
(* Either makes a chain of entries, one allocation each, and then an       *)
(* array; anything may fail.  As the reading does not look at what         *)
(* dwstOfFileExt() makes of it, it is done before the scan of the unit     *)
(* begins.                                                                 *)
(***************************************************************************)
EXTENDS CuRanges

(***************************************************************************)
(* A unit as the sections have it: its DIE, still without entries, the     *)
(* list that DW_AT_ranges leads to, the unit's addresses in .debug_addr,   *)
(* and whether the section ends in the midst of an entry (cut) behind a    *)
(* DWARF 4 list.  An entry that cannot be decoded has the code "unknown".  *)
(***************************************************************************)
CONSTANT RawUnits

Bases == {"base_addressx", "base_address"}
Codes == Bases \cup {"end_of_list", "startx_endx", "startx_length", "offset_pair",
                     "start_end", "start_length", "unknown"}
RawEntry == [code : Codes \cup {"pair"}, a : Addr, b : Addr]
EndOfList == [code |-> "end_of_list", a |-> 0, b |-> 0]
Unknown == [code |-> "unknown", a |-> 0, b |-> 0]

ASSUME RawUnitsAssumption ==
  \A r \in RawUnits :
    /\ r.die \in Units /\ r.die.entries = <<>>
    /\ r.cut \in BOOLEAN /\ r.addrs \in Seq(Addr) /\ r.list \in Seq(RawEntry)
    /\ \A j \in DOMAIN r.list : r.list[j].code = "pair" <=> r.die.version = 4

VARIABLES
  raw,     \* the unit
  rpc,     \* where the reader is
  got,     \* the entries read: code and two addresses, or failed
  lbase,   \* latestbaseaddr if foundbaseaddr, else None
  noAddr,  \* no_debug_addr_available
  nodes,   \* entries that are allocated
  array,   \* whether the array is
  refused  \* history: there was no such list, or no memory for it

readerVars == <<raw, rpc, got, lbase, noAddr, nodes, array, refused>>
listVars == <<vars, readerVars>>

ListInit ==
  /\ raw \in RawUnits
  /\ rpc = CASE raw.die.version = 4 -> "old" [] raw.die.version = 5 -> "head" [] OTHER -> "done"
  /\ got = <<>> /\ lbase = None /\ noAddr = FALSE
  /\ nodes = 0 /\ array = FALSE /\ refused = FALSE
  /\ Init /\ unit = raw.die

\* The number of the entry that is read next.
nth == Len(got) + 1

\* The entries read so far are freed with an error, by free_allocated_ranges()
\* or with the head that they hang on.
GiveUp ==
  /\ rpc' = "failed" /\ nodes' = 0
  /\ UNCHANGED <<raw, got, lbase, noAddr, array>>

\* The section or, in it, a table that has the list is missing; or memory is.
Refused ==
  /\ rpc \in {"old", "head", "new", "collect"}
  /\ GiveUp /\ refused' = TRUE

Chain(e) == got' = Append(got, e) /\ nodes' = nodes + 1

-----------------------------------------------------------------------------
(* dwarf_get_ranges_b()                                                    *)

OldEnds ==
  /\ rpc = "old" /\ nth > Len(raw.list)
  /\ IF raw.cut THEN GiveUp
     ELSE rpc' = "collect" /\ UNCHANGED <<raw, got, lbase, noAddr, nodes, array>>
  /\ UNCHANGED refused

MaxAddr == W - 1
OldType(e) ==
  IF e.a = 0 /\ e.b = 0 THEN "end" ELSE IF e.a = MaxAddr THEN "select" ELSE "entry"

OldEntry ==
  /\ rpc = "old" /\ nth <= Len(raw.list)
  /\ LET e == raw.list[nth]
     IN /\ Chain([code |-> OldType(e), c1 |-> e.a, c2 |-> e.b, failed |-> FALSE])
        /\ rpc' = IF OldType(e) = "end" THEN "collect" ELSE "old"
  /\ UNCHANGED <<raw, lbase, noAddr, array, refused>>

-----------------------------------------------------------------------------
(* dwarf_rnglists_get_rle_head() and build_array_of_rle()                  *)

\* The head is made, and the unit's DW_AT_low_pc is the base to begin with.
Head5 ==
  /\ rpc = "head"
  /\ rpc' = "new" /\ lbase' = raw.die.lowpc
  /\ UNCHANGED <<raw, got, noAddr, nodes, array, refused>>

\* _dwarf_look_in_local_and_tied_by_index(): once it has failed, it is not
\* asked again.
Unavailable(index) == noAddr \/ index >= Len(raw.addrs)
AddrOf(index) == raw.addrs[index + 1]

\* Behind a list without an end the byte after the section is taken for one.
Next5 == IF nth <= Len(raw.list) THEN {raw.list[nth]} ELSE {EndOfList, Unknown}

\* An entry with its addresses, with the base that it sets, if any.
Read(e, c1, c2, base5) ==
  /\ Chain([code |-> e.code, c1 |-> c1, c2 |-> c2, failed |-> FALSE])
  /\ lbase' = base5
  /\ rpc' = IF e.code = "end_of_list" THEN "collect" ELSE "new"
  /\ UNCHANGED <<raw, noAddr, array, refused>>

\* A base that is kept although the one that replaces it is not available.
FailedKeepingBase(e) ==
  /\ Chain([code |-> e.code, c1 |-> 0, c2 |-> 0, failed |-> TRUE])
  /\ lbase' = lbase
  /\ noAddr' = (noAddr \/ e.code = "base_addressx")
  /\ UNCHANGED <<raw, rpc, array, refused>>

\* An entry whose addresses are not known, though the list goes on.
Failed(e) ==
  /\ Chain([code |-> e.code, c1 |-> 0, c2 |-> 0, failed |-> TRUE])
  /\ lbase' = None
  /\ noAddr' = (noAddr \/ e.code = "base_addressx")
  /\ UNCHANGED <<raw, rpc, array, refused>>

BaseEntry(e) ==
  \/ e.code = "base_address" /\ Read(e, e.a, 0, e.a)
  \/ /\ e.code = "base_addressx"
     /\ IF Unavailable(e.a) THEN Failed(e) ELSE Read(e, AddrOf(e.a), 0, AddrOf(e.a))

IndexedEntry(e) ==
  /\ e.code \in {"startx_endx", "startx_length"}
  /\ IF Unavailable(e.a) \/ (e.code = "startx_endx" /\ Unavailable(e.b))
       THEN GiveUp /\ UNCHANGED refused
       ELSE Read(e, AddrOf(e.a),
                 IF e.code = "startx_endx" THEN AddrOf(e.b) ELSE Add(AddrOf(e.a), e.b), lbase)

PlainEntry(e) ==
  \/ /\ e.code = "offset_pair"
     /\ IF lbase = None THEN Failed(e) ELSE Read(e, Add(e.a, lbase), Add(e.b, lbase), lbase)
  \/ e.code = "start_end" /\ Read(e, e.a, e.b, lbase)
  \/ e.code = "start_length" /\ Read(e, e.a, Add(e.a, e.b), lbase)
  \/ e.code = "end_of_list" /\ Read(e, 0, 0, lbase)

NewEntry ==
  /\ rpc = "new"
  /\ \E e \in Next5 :
       \/ BaseEntry(e) \/ IndexedEntry(e) \/ PlainEntry(e)
       \/ e.code = "unknown" /\ GiveUp /\ UNCHANGED refused

-----------------------------------------------------------------------------

\* The array: it takes the entries' place, or points to them.
Collect ==
  /\ rpc = "collect"
  /\ rpc' = "read" /\ array' = TRUE
  /\ nodes' = IF raw.die.version = 4 THEN 0 ELSE nodes
  /\ UNCHANGED <<raw, got, lbase, noAddr, refused>>

ReadList == Refused \/ OldEnds \/ OldEntry \/ Head5 \/ NewEntry \/ Collect

\* What dwstOfFileExt() sees in an entry.
AsListed(e) ==
  LET kind == IF e.code \in {"end", "select"} THEN e.code
              ELSE IF e.code = "end_of_list" THEN "stop"
              ELSE IF e.code \in Bases \/ e.failed THEN "skip" ELSE "entry"
  IN IF kind \in {"skip", "stop"} THEN [kind |-> kind, lo |-> 0, hi |-> 0]
     ELSE [kind |-> kind, lo |-> e.c1, hi |-> e.c2]

\* The scan begins.  From here on the list, if it could be read, is held as a
\* whole, and its entries are the unit's.
BeginScan ==
  /\ rpc \in {"read", "failed"}
  /\ rpc' = IF rpc = "read" THEN "done" ELSE "none"
  /\ unit' = [unit EXCEPT !.entries = [j \in DOMAIN got |-> AsListed(got[j])]]
  /\ die' = unit'
  /\ raw' = [raw EXCEPT !.list = <<>>, !.addrs = <<>>, !.cut = FALSE]
  /\ got' = <<>> /\ lbase' = None /\ noAddr' = FALSE /\ refused' = FALSE
  /\ nodes' = 0 /\ array' = FALSE
  /\ UNCHANGED <<ptr, pc, caller, held, cuInfo, base, i, fault>>

\* The call that reads the unit's list succeeds if it has been read.
Scan ==
  /\ rpc \in {"done", "none"}
  /\ Next
  /\ (caller = "scan" /\ pc = "list") => (rpc = "done" <=> "list" \in held')
  /\ UNCHANGED readerVars

ListNext == (ReadList /\ UNCHANGED vars) \/ BeginScan \/ Scan

ListSpec == ListInit /\ [][ListNext]_listVars

-----------------------------------------------------------------------------
(* What a list says, whoever reads it.                                     *)

Entries == raw.list
BasesBefore(j) == {s \in 1 .. j - 1 : Entries[s].code \in Bases}
Index(a) == IF a < Len(raw.addrs) THEN raw.addrs[a + 1] ELSE None

BaseAt(j) ==
  IF BasesBefore(j) = {} THEN raw.die.lowpc
  ELSE LET e == Entries[CHOOSE s \in BasesBefore(j) : \A t \in BasesBefore(j) : t <= s]
       IN IF e.code = "base_address" THEN e.a ELSE Index(e.a)

\* The bounds of entry j as far as they are known.
Bounds5(j) ==
  LET e == Entries[j]
      Sum(x, y) == IF x = None THEN None ELSE Add(x, y)
  IN CASE e.code = "offset_pair" -> <<Sum(BaseAt(j), e.a), Sum(BaseAt(j), e.b)>>
       [] e.code = "start_end" -> <<e.a, e.b>>
       [] e.code = "start_length" -> <<e.a, Add(e.a, e.b)>>
       [] e.code = "startx_endx" -> <<Index(e.a), Index(e.b)>>
       [] e.code = "startx_length" -> <<Index(e.a), Sum(Index(e.a), e.b)>>
       [] OTHER -> <<None, None>>

\* The list has an end, what comes before it can be decoded, and its indices
\* are those of addresses.
Whole ==
  IF raw.die.version = 4 THEN ~raw.cut
  ELSE \E n \in DOMAIN Entries :
         /\ Entries[n].code = "end_of_list"
         /\ \A j \in 1 .. n : LET e == Entries[j] IN
              /\ e.code # "unknown"
              /\ e.code \in {"base_addressx", "startx_endx", "startx_length"} => Index(e.a) # None
              /\ e.code = "startx_endx" => Index(e.b) # None

\* Whatever fails, no address is made up: a range that libdwarf hands out is
\* the one that its entry gives, by the base and the addresses that apply to
\* it.  Of a whole list all ranges are there, unless memory ran out, and a list
\* that is not handed out leaves nothing behind.
ListsAsWritten ==
  LET seen == [j \in DOMAIN got |-> AsListed(got[j])]
      known == {j \in DOMAIN got \cap DOMAIN Entries : None \notin {Bounds5(j)[1], Bounds5(j)[2]}}
  IN /\ rpc = "read" =>
          /\ \A j \in DOMAIN got : seen[j].kind \in Kinds(raw.die.version)
          /\ raw.die.version = 5 =>
               /\ seen[Len(got)].kind = "stop"
               /\ \A j \in DOMAIN got : seen[j].kind = "entry" =>
                    j \in known /\ Bounds5(j) = <<seen[j].lo, seen[j].hi>>
               /\ Whole => \A j \in known : seen[j].kind = "entry"
          /\ (raw.die.version = 4 /\ Len(got) < Len(Entries)) => seen[Len(got)].kind = "end"
          /\ nodes = IF raw.die.version = 4 THEN 0 ELSE Len(got)
     /\ rpc = "failed" => (refused \/ ~Whole) /\ nodes = 0 /\ ~array

=============================================================================
