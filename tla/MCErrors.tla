------------------------------ MODULE MCErrors -------------------------------
(***************************************************************************)
(* Errors for TLC.                                                         *)
(***************************************************************************)
EXTENDS Errors

TheNames == {<<"word">>, <<"word", "0", "[">>}
TheValues == {<<>>, <<"word">>, <<"space", "OK", ":", "space">>, <<"ACK", "[", "5", "@", "2", "]">>}
TheCommands == {<<>>, <<"word">>}
TheMessages == {<<>>, <<"word">>, <<"word", "lbrace", "word", "rbrace", "word">>, <<"[", "2", "@", "]">>, <<"rbrace">>}
=============================================================================
