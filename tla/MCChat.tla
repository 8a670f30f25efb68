------------------------------- MODULE MCChat -------------------------------
(* Small instances of Chat for TLC; the bounds are in the cfg files. *)
EXTENDS Chat
=============================================================================
