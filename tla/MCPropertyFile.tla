--------------------------- MODULE MCPropertyFile ---------------------------
(* PropertyFile with two or three keys; the keys and the values are        *)
(* interchangeable.                                                        *)
EXTENDS PropertyFile, TLC

Symmetry == Permutations(Keys) \cup Permutations(Values)
=============================================================================
