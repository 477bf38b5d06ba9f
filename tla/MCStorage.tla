----------------------------- MODULE MCStorage -----------------------------
(* One device with one or two properties, and two values that are          *)
(* interchangeable: no step and no property tells them apart.              *)
EXTENDS Storage

ValueSymmetry == Permutations(Value)
============================================================================
