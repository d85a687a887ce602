---------------------------- MODULE MCExecChild ----------------------------
(* ExecChild with outputs that fit, that the cap cuts between two characters *)
(* or inside one, and that hold bytes of no character.                       *)
EXTENDS ExecChild

MCTexts == {<<>>, <<"x", "x">>, <<"L", "x", "L", "x">>, <<"x", "L", "L", "x">>,
            <<"F", "L", "x">>, <<"L", "F", "x">>}
=============================================================================
