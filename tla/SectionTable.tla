---------------------------- MODULE SectionTable -----------------------------
(***************************************************************************)
(* The sections of an object as libdwarf keeps them                        *)
(* (libdwarf/dwarf_init_finish.c): _dwarf_setup() enters the section       *)
(* headers of the file into a table, one for each standard name, and       *)
(* _dwarf_load_section() takes a section's contents when they are first    *)
(* needed, unpacking them if the name says so (.zdebug_info).  In an image *)
(* no section is part of a group, and none is relocated.                   *)
(***************************************************************************)
EXTENDS Integers, Sequences

\* Some of the standard names: without the first two, empty sections of which
\* are refused, there is nothing to read; without the first five, no DWARF.
Names == {"info", "abbrev", "line", "ranges", "addr", "str", "str_offsets"}
NotEmpty == {"info", "abbrev"}
HaveDwarf == {"info", "abbrev", "line", "ranges", "addr"}

(***************************************************************************)
(* A header's name is a standard one or another; packed: the section's own *)
(* name begins with .zdebug_; damaged: its contents cannot be unpacked.    *)
(***************************************************************************)
Header == [name : Names \cup {"other"}, packed : BOOLEAN, empty : BOOLEAN, damaged : BOOLEAN]

VARIABLES
  headers,   \* the headers of the file that is open
  at,        \* dss_index: the number of the header of each name, 0 for none
  data,      \* dss_data: nothing, the bytes of the file, or the contents
  unpacked,  \* dss_data_was_malloc: the names whose contents were allocated
  load,      \* the last call of _dwarf_load_section(): its name and result
  spoilt     \* history: the names whose section could not be unpacked once

sectionVars == <<headers, at, data, unpacked, load, spoilt>>

NoSections == [n \in Names |-> 0]
NotLoaded == [n \in Names |-> "none"]
NoLoad == [name |-> "info", result |-> "none"]

-----------------------------------------------------------------------------
(* _dwarf_setup()                                                          *)

\* A second section of a name that takes the place of the first.
EnterAgain(acc, h, k) ==
  IF acc.result = "error" \/ h.name = "other" THEN acc
  ELSE IF h.empty /\ h.name \in NotEmpty THEN [acc EXCEPT !.result = "error"]
  ELSE [used |-> acc.used \cup {h.name},
        at |-> IF h.empty THEN acc.at ELSE [acc.at EXCEPT ![h.name] = k],
        result |-> IF h.name \in HaveDwarf THEN "ok" ELSE acc.result]

\* A name may be given once, packed or not.  A section that may be empty counts
\* as one, but is not entered.
Enter(acc, h, k) ==
  IF acc.result = "error" \/ h.name = "other" THEN acc
  ELSE IF h.name \in acc.used \/ (h.empty /\ h.name \in NotEmpty)
    THEN [acc EXCEPT !.result = "error"]
  ELSE [used |-> acc.used \cup {h.name},
        at |-> IF h.empty THEN acc.at ELSE [acc.at EXCEPT ![h.name] = k],
        result |-> IF h.name \in HaveDwarf THEN "ok" ELSE acc.result]

\* The table before any header, after each of them, and after the last.
NoneEntered == [used |-> {}, at |-> NoSections, result |-> "no_entry"]

SetUp(hs) ==
  LET after[k \in 0 .. Len(hs)] == IF k = 0 THEN NoneEntered ELSE Enter(after[k - 1], hs[k], k)
  IN after[Len(hs)]

-----------------------------------------------------------------------------
(* _dwarf_load_section()                                                   *)

NoneLoaded ==
  /\ at = NoSections /\ data = NotLoaded /\ unpacked = {} /\ load = NoLoad /\ spoilt = {}

NothingLoaded ==
  /\ at' = NoSections /\ data' = NotLoaded /\ unpacked' = {} /\ load' = NoLoad /\ spoilt' = {}

SectionsSetUp == at' = SetUp(headers').at /\ UNCHANGED <<data, unpacked, load, spoilt>>

Returns(n, result) == load' = [name |-> n, result |-> result]

\* What there is already is not looked at; what was not entered has no data.
LoadKnown(n) ==
  /\ data[n] # "none" \/ at[n] = 0
  /\ Returns(n, IF at[n] = 0 THEN "no_entry" ELSE "ok")
  /\ UNCHANGED <<headers, at, data, unpacked, spoilt>>

Packed(n) == headers[at[n]].packed

\* The bytes of a section are where the file is mapped.
LoadPlain(n) ==
  /\ data[n] = "none" /\ at[n] # 0 /\ ~Packed(n)
  /\ data' = [data EXCEPT ![n] = "contents"]
  /\ Returns(n, "ok")
  /\ UNCHANGED <<headers, at, unpacked, spoilt>>

\* A packed section that is taken for a plain one.
UnpackNothing(n) ==
  /\ data[n] = "none" /\ at[n] # 0 /\ Packed(n) /\ ~headers[at[n]].damaged
  /\ data' = [data EXCEPT ![n] = "bytes"]
  /\ Returns(n, "ok")
  /\ UNCHANGED <<headers, at, unpacked, spoilt>>

Unpack(n) ==
  /\ data[n] = "none" /\ at[n] # 0 /\ Packed(n) /\ ~headers[at[n]].damaged
  /\ data' = [data EXCEPT ![n] = "contents"]
  /\ unpacked' = unpacked \cup {n}
  /\ Returns(n, "ok")
  /\ UNCHANGED <<headers, at, spoilt>>

\* do_decompress_zlib() fails: the bytes stay where the contents should be.
UnpackFails(n) ==
  /\ data[n] = "none" /\ at[n] # 0 /\ Packed(n)
  /\ data' = [data EXCEPT ![n] = "bytes"]
  /\ spoilt' = spoilt \cup {n}
  /\ Returns(n, "error")
  /\ UNCHANGED <<headers, at, unpacked>>

-----------------------------------------------------------------------------

\* The table has for each name the one section of it, and what a load hands out
\* as a section's contents is that, not the bytes that they are packed in,
\* unless an earlier load of this section has failed; what was allocated for
\* contents are contents.
SectionsAsStored ==
  /\ \A n \in Names :
       /\ at[n] # 0 => \A k \in DOMAIN headers : (headers[k].name = n) <=> (k = at[n])
       /\ data[n] # "none" => at[n] # 0
  /\ load.result = "ok" => data[load.name] = "contents" \/ load.name \in spoilt
  /\ \A n \in unpacked : data[n] = "contents"

=============================================================================
