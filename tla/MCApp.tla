-------------------------------- MODULE MCApp -------------------------------
(***************************************************************************)
(* The application on one machine, for TLC.                                *)
(***************************************************************************)
EXTENDS App, TLC

\* Addresses are interchangeable.  Safety runs only.
Symmetry == Permutations(Addresses)
=============================================================================
