------------------------------ MODULE MCBfdTest ------------------------------
(* A small instance of BfdTest: two IPv6 addresses and an IPv4 address, and an  *)
(* input file with up to three routers.                                         *)
EXTENDS BfdTest

CONSTANTS r1, r2, r3

ThreeRouters == {r1, r2, r3}
=============================================================================
