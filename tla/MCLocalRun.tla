----------------------------- MODULE MCLocalRun -----------------------------
(* Small instances of LocalRun for TLC: every validated sequence of at      *)
(* most two of these lines, in both output modes, with and without -k.      *)
EXTENDS MCEngine, LocalRun

LocalOps == { KeyDownOp(<<"p", "v">>), KeyUpOp(<<"p">>), KeyOp(<<"p">>, <<<<"v">>>>, 0),
              [Blank EXCEPT !.kind = "button_down"],
              [Blank EXCEPT !.kind = "exec"], Blank }
LocalPrograms == {p \in BoundedSeq(LocalOps, 2) : Validated(p)}
=============================================================================
