------------------------------ MODULE MCDescribe ------------------------------
(* Describe for TLC: the sizes of attributes.                              *)
EXTENDS Describe

SmallAndLarge == {1, 3}
=============================================================================
