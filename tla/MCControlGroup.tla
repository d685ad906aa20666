--------------------------- MODULE MCControlGroup ---------------------------
(* The instance TLC checks: requests in flight are interchangeable.        *)
EXTENDS ControlGroup, TLC

RequestSymmetry == Permutations(Thread)
=============================================================================
