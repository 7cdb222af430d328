----------------------------- MODULE MCServerCore -----------------------------
(***************************************************************************)
(* Small instances of ServerCore for TLC.                                   *)
(***************************************************************************)
EXTENDS ServerViews, TLC

MCSymmetry == Permutations(Conns) \union Permutations(Tasks) \union Permutations(Creds)
===============================================================================
