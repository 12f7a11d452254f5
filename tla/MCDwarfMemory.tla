---- MODULE MCDwarfMemory ----
EXTENDS DwarfMemory

MCBlocks == 1 .. 4
\* Two keys share a slot in each of the three sizes.
MCPrimes == <<1, 2, 3>>
MCHash == [k \in MCBlocks |-> k]
MCSizes == {1, 2, 3}

\* The allocations and the list of errors share no variable: each is explored
\* while the other is as it was in the beginning.
OneAtATime ==
    \/ Live = {} /\ stage = "open"
    \/ number = 0 /\ refused = 0 /\ ring.maxcount \in {0, DefaultSize + 1}
====
