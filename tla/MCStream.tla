------------------------------ MODULE MCStream ------------------------------
(***************************************************************************)
(* Stream for TLC.                                                         *)
(***************************************************************************)
EXTENDS Stream, TLC

\* The handlers of commands are interchangeable.
Symmetry == Permutations(Calls)
=============================================================================
