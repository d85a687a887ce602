------------------------------ MODULE MCEngine ------------------------------
(* Small instances of Engine for TLC.                                      *)
EXTENDS Engine

Blank == [kind |-> "call", mods |-> <<>>, keys |-> <<>>, repeat |-> 0,
          btn |-> "left", count |-> 0, points |-> 0]

KeyOp(mods, chords, n) ==
  [Blank EXCEPT !.kind = "key", !.mods = mods, !.keys = chords, !.repeat = n]
KeyDownOp(ks) == [Blank EXCEPT !.kind = "key_down", !.keys = [i \in DOMAIN ks |-> <<ks[i]>>]]
KeyUpOp(ks)   == [Blank EXCEPT !.kind = "key_up", !.keys = [i \in DOMAIN ks |-> <<ks[i]>>]]
ClickOp(mods, n, pt) ==
  [Blank EXCEPT !.kind = "click", !.mods = mods, !.count = n, !.points = pt]
DragOp(mods, pts) == [Blank EXCEPT !.kind = "drag", !.mods = mods, !.points = pts]

MCOps ==
  { KeyOp(<<"p">>, <<<<"v">>>>, 1), KeyOp(<<>>, <<<<"p", "v">>, <<"v">>>>, 2),
    KeyDownOp(<<"p">>), KeyDownOp(<<"p", "v">>), KeyUpOp(<<"p">>),
    KeyUpOp(<<"v", "p">>), ClickOp(<<"p">>, 2, 1), ClickOp(<<>>, 1, 0),
    DragOp(<<"p", "v">>, 2), DragOp(<<>>, 1),
    [Blank EXCEPT !.kind = "button_down", !.mods = <<"p">>, !.points = 1],
    [Blank EXCEPT !.kind = "button_down"],
    [Blank EXCEPT !.kind = "button_up"],
    [Blank EXCEPT !.kind = "paste"], [Blank EXCEPT !.kind = "focus"],
    Blank, [Blank EXCEPT !.kind = "exec"], [Blank EXCEPT !.kind = "set"] }

\* Every validated sequence of at most two of these lines.
MCPrograms == {p \in BoundedSeq(MCOps, 2) : Validated(p)}

\* Three lines that take the same key, use it and give it back.
MCHoldOps == { KeyDownOp(<<"p">>), KeyDownOp(<<"p", "v">>), KeyUpOp(<<"p">>),
               KeyOp(<<"p">>, <<<<"v">>>>, 0), [Blank EXCEPT !.kind = "button_down"] }
MCHoldPrograms == {p \in [1..3 -> MCHoldOps] : Validated(p)}

MCAllPrograms == MCPrograms \cup MCHoldPrograms

MCOptions == [keepGoing : BOOLEAN, capOnError : BOOLEAN, stream : BOOLEAN]
=============================================================================
