-------------------------- MODULE MCLeaseHijacker ---------------------------
(* A small instance of LeaseHijacker: the clock of one hijacker is ahead.  *)
EXTENDS LeaseHijacker, TLC

CONSTANTS e1, e2, h1, h2

MCSkew == [p \in Procs |-> IF p = h1 THEN MaxSkew ELSE 0]

\* The electors are interchangeable: their clocks agree.
MCSymmetry == Permutations({e1, e2})
=============================================================================
