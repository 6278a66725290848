-------------------------------- MODULE MCLex --------------------------------
(* Inputs for the lexer runs: tokens taken from the tables of lex_test     *)
(* (src/unnamed/part_013) and the token alphabet of the spec.              *)
EXTENDS Lex

T(kind, text) == [kind |-> kind, text |-> text, val |-> text]
TV(kind, text, val) == [kind |-> kind, text |-> text, val |-> val]

MCSamples ==
    { T("Id", <<"a">>), T("Id", <<"t", "r", "u">>), T("Id", <<"x", "_", "1">>),
      T("True", <<"t", "r", "u", "e">>), T("Null", <<"N", "U", "L", "L">>),
      T("DecNum", <<"1", "0">>), T("HexNum", <<"0">>), T("HexNum", <<"0", "x", "F">>),
      TV("StrLit", <<"\"", "a", "\\", "n", "\"">>, <<"a", "\n">>),
      TV("ChrLit", <<"'", "\\", "0", "'">>, <<"NUL">>),
      TV("CommentOne", <<"/", "/", " ", "c">>, <<" ", "c">>),
      TV("CommentMulti", <<"/", "*", "a", "\n", "*", "/">>, <<"a", "\n">>),
      TV("UseLibLit", <<"#", "u", "s", "e", " ", "<", "a", ">", "\n">>, <<"a">>),
      TV("UseStrLit", <<"#", "u", "s", "e", " ", "\"", "a", "\"", "\n">>, <<"a">>),
      T("DPlus", <<"+", "+">>), T("AssignPlus", <<"+", "=">>), T("AssignDLt", <<"<", "<", "=">>),
      T("Le", <<"<", "=">>), T("Lt", <<"<">>), T("Arrow", <<"-", ">">>), T("Minus", <<"-">>),
      T("Eq", <<"=", "=">>), T("Assign", <<"=">>), T("Exclam", <<"!">>),
      T("Brackets", <<"[", "]">>), T("LBrack", <<"[">>), T("Semicolon", <<";">>) }

\* a blank or a linefeed after each token
MCSeps == {" ", "\n"}

MCBad ==
    { <<"@">>, <<"/", "*">>, <<"\"", "a">>, <<"0", "x">>, <<"'", "a", "b", "'">>,
      <<"'", "\\", "q", "'">>, <<"#", "u", "s", "e", " ", "<", "a", ">">> }

\* identifiers that start with a special identifier
MCSpecialPrefixSamples ==
    { T("Id", <<"t", "r", "u", "e", "x">>), T("Id", <<"N", "U", "L", "L", "s">>) }
====
