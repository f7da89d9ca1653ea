------------------------- MODULE MCResetPublication -------------------------
(* Instances of ResetPublication for TLC. *)
EXTENDS ResetPublication, TLC

CONSTANTS p1, p2

\* The collector tracks all players or some, never none.
MCSomeTracked == (SUBSET Players) \ {{}}
MCAllTracked == {Players}

\* An instance whose sweep misses a player goes no further than its last event.
Bounded == tracked = Players \/ events < MaxEvents

\* Players are interchangeable.
Symmetry == Permutations(Players)
=============================================================================
