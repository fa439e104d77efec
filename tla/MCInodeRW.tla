----------------------------- MODULE MCInodeRW -----------------------------
(***************************************************************************)
(* InodeRW on a file of one full sector and the beginning of a second.     *)
(***************************************************************************)
EXTENDS InodeRWProperties
CONSTANTS t1, t2, t3
MCThread == {t1, t2, t3}
\* The whole file and beyond, across the boundary of the sectors, a full sector,
\* behind the end, and nothing.
MCSpan == {<<0, 4>>, <<1, 2>>, <<0, 2>>, <<3, 1>>, <<0, 0>>}
=============================================================================
