-------------------------------- MODULE MCApp --------------------------------
(* The empty text and another one, two passes with any effects. *)
EXTENDS App
=============================================================================
