----------------------------- MODULE MCFileSys -----------------------------
(***************************************************************************)
(* Instances of FileSys for TLC.                                           *)
(***************************************************************************)
EXTENDS FileSysProperties, TLC

Symmetry == Permutations(Thread)
=============================================================================
