---------------------------- MODULE MCLoaderSystem ----------------------------
(* Symmetry for the safety run of LoaderSystem. *)
EXTENDS LoaderSystem, TLC

MCSymmetry == Permutations(Tokens)
===============================================================================
