------------------------------ MODULE MCSearch ------------------------------
(***************************************************************************)
(* Search for TLC.                                                         *)
(***************************************************************************)
EXTENDS Search

ZeroGarbage == {0}
NoLines == {}
NoHabits == {}
=============================================================================
