------------------------------ MODULE MCDesigns ------------------------------
(* Small instances of Designs. *)
EXTENDS Designs

CONSTANTS owner

MCOwner == {owner}
OneSettings == <<"a">>
=============================================================================
