--------------------------- MODULE MCMockFunction ---------------------------
(* A small instance of MockFunction.                                       *)
EXTENDS MockFunction, TLC

CONSTANTS c1, c2, c3

\* Callers are interchangeable.
MCSymmetry == Permutations(Callers)
=============================================================================
