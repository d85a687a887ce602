------------------------------ MODULE MCInput ------------------------------
(* Input with a text of a key, a plain character and a surrogate pair, and one of a tab. *)
EXTENDS Input

MCTexts == {<<"x", "enter", "pair">>, <<"tab">>}
=============================================================================
