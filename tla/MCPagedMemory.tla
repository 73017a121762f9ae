--------------------------- MODULE MCPagedMemory ---------------------------
(* PagedMemory on two pages and two snapshot slots, for Fuel operations.   *)
EXTENDS PagedMemory, TLC

CONSTANT Fuel  \* operations in one behaviour

VARIABLE fuel

MCInit == Init /\ fuel = Fuel

MCNext ==
    \/ fuel > 0 /\ fuel' = fuel - 1 /\ Next
    \/ fuel = 0 /\ UNCHANGED <<vars, fuel>>

MCSpec == MCInit /\ [][MCNext]_<<vars, fuel>>

MCStores == 1..7

MCSymmetry == Permutations(Bytes) \cup Permutations(Symbols) \cup Permutations(Snaps)
=============================================================================
