------------------------------ MODULE MCAffine ------------------------------
(* Expressions over two dimensions, a symbol and constants of both signs. *)
EXTENDS Affine

MCConsts == {-2, 0, 1, 3}
=============================================================================
