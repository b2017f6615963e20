---------------------------- MODULE MCOrganizations ----------------------------
(***************************************************************************)
(* An instance of Organizations for TLC.                                   *)
(***************************************************************************)
EXTENDS Organizations, TLC

Symmetry == Permutations(Requests) \cup Permutations(Users \ {Founder})
=============================================================================
