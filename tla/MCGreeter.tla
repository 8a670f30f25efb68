------------------------------ MODULE MCGreeter ------------------------------
(* A small instance of Greeter: two calls, whose counts include one that is     *)
(* defaulted and the greatest int32 of the instance.                            *)
EXTENDS Greeter

MixedCounts == <<{0}, {1, MaxInt}>>
=============================================================================
