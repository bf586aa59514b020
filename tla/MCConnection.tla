---------------------------- MODULE MCConnection ----------------------------
(***************************************************************************)
(* Connection and its invariant for TLC.                                   *)
(***************************************************************************)
EXTENDS InStep

\* command_list_remaining as malloc() may leave it: zero, or something else
AnyGarbage == {0, 5}
ZeroGarbage == {0}
OnlyGarbage == {5}

NoLines == {}
Stray == {"OK", "list_OK", "pair", "garbage", "huge"}
StrayListOK == {"list_OK"}

NoHabits == {}
IgnoresErrors == {"ignores errors"}
NextOverNull == {"next over NULL"}
Sloppy == Habits \ IgnoresErrors
=============================================================================
