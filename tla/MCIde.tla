------------------------------- MODULE MCIde --------------------------------
(* The problem IDE with two languages. *)
EXTENDS Ide
=============================================================================
