---------------------------- MODULE MCJobQueue ----------------------------
(* Small instances of JobQueue for TLC. *)
EXTENDS JobQueue, TLC

CONSTANTS j1, j2, w1, w2

\* w2 still runs the previous image, which does not support j2.
MCRolling == w1 :> Jobs @@ w2 :> Jobs \ {j2}
MCUniform == [w \in Workers |-> Jobs]
=============================================================================
