------------------------------ MODULE MCNeutron ------------------------------
(* A small instance of Neutron; the bounds are in the cfg file. *)
EXTENDS Neutron
=============================================================================
