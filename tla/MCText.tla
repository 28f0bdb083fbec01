-------------------------------- MODULE MCText --------------------------------
(* Modules of up to three operations, values without a hint or with hint a. *)
EXTENDS Text

OneHint == {NoHint, <<"a">>}
=============================================================================
