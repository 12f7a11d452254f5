----------------------------- MODULE StackReport -----------------------------
(***************************************************************************)
(* What dwstOfFile() promises, without the way it gets there: the image's  *)
(* base address is announced first if the caller gave one; then every      *)
(* address is answered in turn, either all of them with "no debug symbols" *)
(* or each on its own, by the first unit of the image that can tell where  *)
(* it comes from, and by "not found" if none can.  A call into libdwarf    *)
(* that fails may cost an answer, but never makes one up.                  *)
(***************************************************************************)
EXTENDS UnitInfo

CONSTANTS
  W,        \* addresses are numbers below W and wrap around
  Images,   \* [base, units]: preferred base address, units in file order
  Queries   \* [imageBase, addrs]: the arguments of the call

VARIABLES
  image, query,
  phase,     \* "idle", "open", "refused" or "returned"
  answered,  \* how many addresses have been answered
  faults,    \* how many calls into libdwarf have failed
  out        \* the callbacks made

vars == <<image, query, phase, answered, faults, out>>

\* The address in the image's own address space.
Target(q, img, a) ==
  (a + IF q.imageBase # 0 /\ img.base # 0 THEN img.base - q.imageBase ELSE 0) % W

CanAnswer(u, p) ==
  /\ Accepts(u.low, u.high, u.ranges, p)
  /\ Usable(u, LocationOf(u, p))
  /\ u.fileCount > 0

Init ==
  /\ image \in Images /\ query \in Queries
  /\ phase = "idle" /\ answered = 0 /\ faults = 0 /\ out = <<>>

\* No addresses, no file name or no callback: nothing happens.
Reject ==
  /\ phase = "idle"
  /\ query.addrs = <<>>
  /\ phase' = "returned"
  /\ UNCHANGED <<image, query, answered, faults, out>>

Begin ==
  /\ phase = "idle"
  /\ query.addrs # <<>>
  /\ phase' \in {"open", "refused"}
  /\ out' = IF query.imageBase = 0 THEN <<>> ELSE Special(0, query.imageBase, "base_addr")
  /\ UNCHANGED <<image, query, answered, faults>>

Fault ==
  /\ phase = "open"
  /\ faults' > faults
  /\ UNCHANGED <<image, query, phase, answered, out>>

Answers(i) ==
  LET a == query.addrs[i]
      p == Target(query, image, a)
      able == {j \in 1 .. Len(image.units) : CanAnswer(image.units[j], p)}
      first == {j \in able : \A l \in able : j <= l}
      notFound == Special(i, a, "not_found")
      by(j) == UnitCallbacks(image.units[j], LocationOf(image.units[j], p), i, a, p)
  IN IF phase = "refused" THEN {Special(i, a, "no_dbg_sym")}
     ELSE IF faults > 0 THEN {by(j) : j \in able} \cup {notFound}
     ELSE IF able = {} THEN {notFound} ELSE {by(j) : j \in first}

Answer ==
  /\ phase \in {"open", "refused"}
  /\ answered < Len(query.addrs)
  /\ answered' = answered + 1
  /\ \E r \in Answers(answered + 1) : out' = out \o r
  /\ UNCHANGED <<image, query, phase, faults>>

Return ==
  /\ phase \in {"open", "refused"}
  /\ answered = Len(query.addrs)
  /\ phase' = "returned"
  /\ UNCHANGED <<image, query, answered, faults, out>>

Next == Reject \/ Begin \/ Fault \/ Answer \/ Return

Spec == Init /\ [][Next]_vars

\* The call returns, whatever fails.
Returns == <>(phase = "returned")

LiveSpec == Spec /\ Returns

=============================================================================
