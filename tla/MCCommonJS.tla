----------------------------- MODULE MCCommonJS ------------------------------
(* Instances of CommonJS for TLC. *)
EXTENDS CommonJS, TLC

\* The files are interchangeable; no property of the runs is a liveness property.
Symmetry == Permutations(JsFile)
=============================================================================
