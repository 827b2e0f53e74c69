--------------------------- MODULE MCReconfiguration ---------------------------
(* Two dogs, two objects of which the last holds the shared document.          *)
EXTENDS Reconfiguration, TLC

Symmetry == Permutations(Dogs)
=============================================================================
