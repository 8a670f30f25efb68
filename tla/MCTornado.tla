------------------------------ MODULE MCTornado ------------------------------
(* A small instance of Tornado: more requests than buckets, so that a bucket    *)
(* is drawn by a second request while the first still waits.                    *)
EXTENDS Tornado

CONSTANTS r1, r2, r3, b1, b2

ThreeRequests == {r1, r2, r3}
TwoBuckets    == {b1, b2}
=============================================================================
