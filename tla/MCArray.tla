------------------------------- MODULE MCArray -------------------------------
(***************************************************************************)
(* The two arrays of a configuration for TLC, in memory of three blocks,   *)
(* none of them larger than four elements.                                 *)
(***************************************************************************)
EXTENDS XArray

CONSTANTS arg, pool

MCArrays == {arg, pool}
=============================================================================
