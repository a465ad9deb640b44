------------------------------ MODULE MCProctor ------------------------------
(* The recording service on small instances. *)
EXTENDS Proctor
==============================================================================
