----------------------------- MODULE MCProcess -----------------------------
(***************************************************************************)
(* Instances of Process for TLC: the initial thread and a few processes.   *)
(***************************************************************************)
EXTENDS ProcessProperties
=============================================================================
