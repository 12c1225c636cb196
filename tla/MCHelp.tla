------------------------------- MODULE MCHelp -------------------------------
(* Lists of one or two options of every shape help tells apart: with or   *)
(* without a short code, a long id (of 3 characters, or of 65, past the   *)
(* 64 str_size allows), a usage, and a help text that is missing, plain,  *)
(* tabbed, or broken by a newline.                                        *)
EXTENDS Help

MCNoHelp == <<"nullptr">>   \* a one-character text no help text has

MCTexts == {MCNoHelp, <<"a">>, <<"a", Tab, "b">>, <<"a", Nl, "b">>}

MCOptions == [code : BOOLEAN, id : {0, 3, 65}, usage : {0, 4}, help : MCTexts]

MCDecls == {<<o>> : o \in MCOptions} \cup {<<o, p>> : o, p \in MCOptions}

(* One option of each prefix shape, with a description of 46 letters, a   *)
(* blank and a letter: printed from column 30, its blank falls at column  *)
(* 76, the first past the margin.                                         *)
MCLongText == [i \in 1 .. 46 |-> "a"] \o <<Sp, "b">>

MCWrapDecls == {<<o>> : o \in [code : BOOLEAN, id : {0, 3}, usage : {0, 4},
                                help : {MCLongText}]}
=============================================================================
