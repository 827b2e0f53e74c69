-------------------------------- MODULE Fencing --------------------------------
(***************************************************************************)
(* Ownership fences, src/src/tb4/core/fencing.py.  A token names what a    *)
(* worker believes it owns: the operation, the channel generation and the  *)
(* state of the object.  Stable object identities are not part of the      *)
(* token here: every token compared below is about one and the same file.  *)
(***************************************************************************)
EXTENDS Integers

FenceToken(operation, generation, state) ==
  [operation |-> operation, generation |-> generation, state |-> state]

(* compare_fence: a newer generation makes the worker STALE; every other     *)
(* difference is a MISMATCH.                                                 *)
CompareFence(expected, observed) ==
  CASE observed.generation > expected.generation -> "STALE"
    [] observed = expected -> "VALID"
    [] OTHER -> "MISMATCH"

(* validate_generation_advance *)
GenerationAdvances(current, candidate) == candidate > current
================================================================================
