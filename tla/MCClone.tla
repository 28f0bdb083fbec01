-------------------------------- MODULE MCClone --------------------------------
(* Originals of up to three operations in two blocks, with blocks nested in them. *)
EXTENDS Clone, TLC
=============================================================================
