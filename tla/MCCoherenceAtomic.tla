------------------------- MODULE MCCoherenceAtomic -------------------------
(* Tasks for the small instances of CoherenceAtomic. *)
EXTENDS CoherenceAtomic, TLC

MCKinds == {[bottom |-> 0, any |-> TRUE], [bottom |-> 1, any |-> FALSE]}

MCWorkers == Permutations(Workers)
=============================================================================
