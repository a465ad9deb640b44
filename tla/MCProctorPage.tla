---------------------------- MODULE MCProctorPage ----------------------------
(* The in-exam page on small instances. *)
EXTENDS ProctorPage
==============================================================================
