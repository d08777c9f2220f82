----------------------------- MODULE MCThrottle -----------------------------
(* A small instance of Throttle for TLC: a minute of 4 units, so that a rate *)
(* of 2 spaces slots by 2 while BaseBackoff is 1.                            *)
EXTENDS Throttle

CONSTANTS c1, c2
=============================================================================
