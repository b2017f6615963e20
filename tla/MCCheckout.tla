----------------------------- MODULE MCCheckout -----------------------------
(***************************************************************************)
(* An instance of Checkout, and the marketing offers it reads, for TLC.    *)
(***************************************************************************)
EXTENDS Checkout, TLC

Symmetry == Permutations(Requests) \cup Permutations(Buyers)
=============================================================================
