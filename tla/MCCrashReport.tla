---------------------------- MODULE MCCrashReport ----------------------------
(* Three images, two of which want the same place: "new" is mapped where    *)
(* "old" was.  Address 3 is data of an image, 9 belongs to none.  Every     *)
(* chain of two frames, loops and dead ends included; each frame has a      *)
(* return address of its own.  A crash has an intact chain; its text is set *)
(* until the trace begins.                                                  *)
EXTENDS CrashReport

MCModules == {"exe", "old", "new"}
MCBase == [m \in MCModules |-> IF m = "exe" THEN 1 ELSE 5]
MCPages == [m \in MCModules |-> CASE m = "exe" -> 1 .. 3 [] m = "old" -> 5 .. 6 [] m = "new" -> 5 .. 7]
MCCode == [m \in MCModules |-> CASE m = "exe" -> {2} [] m = "old" -> {6} [] m = "new" -> {6, 7}]

\* The addresses that can be captured, and the arrays made of them.
MCStacks == UNION {[1 .. k -> {0, 2, 3, 5, 6, 7, 9}] : k \in 0 .. MaxFrames}

Cell(s2) ==
  {[readable |-> TRUE, next |-> n, ret |-> r] :
     n \in 0 .. 3, r \in IF s2 = 1 THEN {0, 3, 7} ELSE {0, 8, 10}}
  \cup {[readable |-> FALSE, next |-> 0, ret |-> 0]}

MCChains == {<<f, g>> : f \in {d \in Cell(1) : d.readable}, g \in Cell(2)}
MCPcs == {0, 6}

\* Modules come and go while a stack that is not damaged is converted.
Straight(ch) == ch[1].next = 2 /\ ch[2].readable /\ ch[2].next = 0

\* Calls from one image into the other and back, or within one.
CrashChains ==
  {<<[readable |-> TRUE, next |-> 2, ret |-> r], [readable |-> TRUE, next |-> 0, ret |-> 8]>> : r \in {3, 7}}

\* An input that a variant does not look at has one value.
MCInit ==
  /\ CrashInit
  /\ variant # "exception" => top = 0
  /\ variant \notin {"exception", "exception_walk"} => cip = 6
  /\ "exe" \in loaded
  /\ crash => chain \in CrashChains /\ cip = 6 /\ top = 0 /\ "old" \in loaded

MCNext ==
  /\ CrashNext
  /\ ~crash => UNCHANGED calls
  /\ ~Straight(chain) => UNCHANGED changes
  /\ crash /\ Taking => UNCHANGED <<calls, setter>>

MCSpec == MCInit /\ [][MCNext]_crashVars /\ CrashFairness

=============================================================================
