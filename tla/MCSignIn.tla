------------------------------ MODULE MCSignIn ------------------------------
(***************************************************************************)
(* An instance of SignIn for TLC.                                          *)
(***************************************************************************)
EXTENDS SignIn, TLC

Symmetry == Permutations(Requests)
=============================================================================
