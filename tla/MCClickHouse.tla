----------------------------- MODULE MCClickHouse -----------------------------
(* A small instance of ClickHouse: two terminals, each of which runs the program *)
(* at the same time as the other, after it, or again after a failure.            *)
EXTENDS ClickHouse

CONSTANTS c1, c2

TwoTerminals == {c1, c2}
=============================================================================
