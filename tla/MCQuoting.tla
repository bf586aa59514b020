------------------------------ MODULE MCQuoting ------------------------------
(***************************************************************************)
(* Quoting for TLC.                                                        *)
(***************************************************************************)
EXTENDS Quoting

\* all texts of up to two characters, and a longer one
Texts == UNION {[1 .. n -> Characters] : n \in 0 .. 2} \cup {<<"backslash", "quote", "backslash">>}

TwoLetters == <<"plain", "plain">>
=============================================================================
