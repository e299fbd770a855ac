----------------------------- MODULE MCInstalls -----------------------------
(***************************************************************************)
(* TLC instance of Installs; the inodes of a model are interchangeable, as *)
(* are the users of a bundle or a target.                                  *)
(***************************************************************************)
EXTENDS Installs, TLC

Symmetry == Permutations(Inodes) \cup Permutations(Users)
=============================================================================
