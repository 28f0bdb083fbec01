------------------------------ MODULE MCDesymref ------------------------------
(* Programs of six operations on one symbol, or five on two. *)
EXTENDS Desymref, TLC

SixOrFive == <<6, 5>>
=============================================================================
