------------------------------ MODULE MCEvents ------------------------------
(* A small instance of Events: two steps per second.                       *)
EXTENDS Events

CONSTANTS r1, r2, e1, e2
=============================================================================
