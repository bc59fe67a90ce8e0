------------------------------ MODULE MCParser ------------------------------
(***************************************************************************)
(* Instances of Parser for TLC: short texts of all kinds in the places     *)
(* where the lexer may meet them, and some longer ones.                    *)
(***************************************************************************)
EXTENDS Parser

Texts(chars, n) == UNION {[1 .. i -> chars] : i \in 0 .. n}
Within(before, middle, after) == {before \o w \o after : w \in middle}

Lexical == {"a", "1", "sp", "nl", ";", "{", "}", "\"", "'", "\\", "/", "*", "+", ":"}
Any3 == Texts(Lexical, 3)

(* Around and in arguments.                                                *)
InFile == Within(<<>>, Any3, <<>>) \cup Within(<<"a">>, Any3, <<"nl">>)
InBlock == Within(<<"a", "{">>, Any3, <<"}", "nl">>)
InArgument == Within(<<"a", "sp">>, Any3, <<";", "nl">>)
InString == Within(<<"a", "\"">>, Any3, <<"\"", ";">>)
AfterString == Within(<<"a", "sp", "'", "b", "'">>, Any3, <<"\"", "b", "\"", ";", "nl">>)

(* White space at the beginning of the lines of a string.                  *)
Indented ==
  {s \o <<"a", "sp", "\"", "b", "nl">> \o i \o <<"b", "\"", ";", "nl">> :
     s \in {<<>>, <<"tab">>, <<"nl", "sp">>},
     i \in Texts({"sp", "tab"}, 4) \cup {<<"tab", "tab", "sp">>, <<"nl", "sp", "sp", "sp", "sp", "sp">>}}

(* Versions and escapes in several statements.                             *)
Sub == {<<"V", "sp", "W", ";">>, <<"V", "sp", "1", ";">>, <<"b", "sp", "\"", "\\", "a", "\"", ";">>,
        <<"a", ":", "V", "{", "V", "sp", "W", ";", "}">>, <<"b", "{">>, <<"}">>, <<"a">>,
        <<"/", "/", "}", "nl">>, <<"/", "*", "}", "*", "/">>, <<"/", "*">>, <<"cr", "nl">>, <<"cr">>}
Statements ==
  {<<"a", "sp", "b", "{">> \o s[1] \o s[2] \o s[3] \o <<"}">> \o t :
     s \in [1 .. 3 -> Sub \cup {<<>>}], t \in {<<>>, <<"nl">>, <<"}">>}}

MCScenario ==
  {NoFile} \cup InFile \cup InBlock \cup InArgument \cup InString \cup AfterString
    \cup Indented \cup Statements
=============================================================================
