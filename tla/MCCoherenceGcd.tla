--------------------------- MODULE MCCoherenceGcd ---------------------------
(* Values of in_depStart for the small instances of CoherenceGcd. *)
EXTENDS CoherenceGcd

MCDeps == {0, -1, -2}
=============================================================================
