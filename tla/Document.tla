------------------------------ MODULE Document ------------------------------
(***************************************************************************)
(* The way of a sequence from the caller's lines to the engine that runs   *)
(* it: read, parsed, files inlined, validated, and then run here, sent as  *)
(* IR to a bridge, or rewritten and sent as lines over ssh, where the same *)
(* program reads, parses and validates them again and may itself hand them *)
(* to a bridge.                                                            *)
(***************************************************************************)
EXTENDS IR

CONSTANTS
  Documents,  \* the sequences of lines that are given
  Contents    \* what a file read for [f] may hold
ASSUME DocumentAssumption ==
  /\ \A d \in Documents : d \in Seq(Lines) \ {<<>>} /\ \A i \in DOMAIN d : IsCut(d[i])
  /\ Contents \subseteq Seq(STRING)

VARIABLES
  side,    \* "near", the caller's machine, or "far", the machine ssh leads to
  dest,    \* "check", "ir", "local", "bridge" or "ssh": what this side does with it
  via,     \* "args", or "file" for -f and standard input
  bigs,    \* [near |-> , far |-> ] what a duration past 64 bits becomes
  lines, ops,
  diags,   \* the lines complained of; 0 is the whole sequence
  at,      \* the line being parsed, or the operation being inlined
  pc,
  request, \* the IR document, or <<>>
  meant    \* the operations the near side accepted
vars == <<side, dest, via, bigs, lines, ops, diags, at, pc, request, meant>>

\* A file that cannot be read, is over 64 KiB or is not UTF-8.
Unreadable == <<"unreadable">>

Init ==
  /\ side = "near" /\ dest \in {"check", "ir", "local", "bridge", "ssh"}
  /\ via \in {"args", "file"}
  /\ bigs \in [{"near", "far"} -> {Huge, -Huge}]
  /\ lines \in Documents
  /\ ops = <<>> /\ diags = {} /\ at = 1 /\ pc = "read" /\ request = <<>> /\ meant = <<>>

-----------------------------------------------------------------------------
(* collectLines: a scanner drops the carriage return that ends a line.     *)

DropCR(s) == IF s # <<>> /\ Last(s) = "CR" THEN Front(s) ELSE s

ReadLines ==
  /\ pc = "read" /\ pc' = "parse" /\ at' = 1
  /\ lines' = [i \in DOMAIN lines |->
                 IF via = "file" THEN [lines[i] EXCEPT !.chars = DropCR(@)] ELSE lines[i]]
  /\ UNCHANGED <<side, dest, via, bigs, ops, diags, request, meant>>

\* Parse: a bad line is named and left out, and the next one is read.
ParseLine ==
  LET l == lines[at] IN
  /\ pc = "parse"
  /\ ops' = IF l.form \in {"blank", "comment"} \/ Malformed(l) THEN ops
            ELSE Append(ops, BuildOp(bigs[side], at, l))
  /\ diags' = IF Malformed(l) THEN diags \cup {at} ELSE diags
  /\ IF at = Len(lines) THEN pc' = "inline" /\ at' = 1 ELSE at' = at + 1 /\ UNCHANGED pc
  /\ UNCHANGED <<side, dest, via, bigs, lines, request, meant>>

TextKinds == {"text", "clipboard", "paste"}

InlineOp ==
  LET op == ops[at] IN
  /\ pc = "inline" /\ at <= Len(ops) /\ at' = at + 1
  /\ IF op.fromFile /\ op.kind \in TextKinds
     THEN \E data \in Contents :
            /\ ops' = IF data = Unreadable THEN ops ELSE [ops EXCEPT ![at].text = data, ![at].hasText = TRUE]
            /\ diags' = IF data = Unreadable THEN diags \cup {op.line} ELSE diags
     ELSE UNCHANGED <<ops, diags>>
  /\ UNCHANGED <<side, dest, via, bigs, lines, pc, request, meant>>

\* Validation looks at what parsed, also when something did not.
ValidateSeq ==
  /\ pc = "inline" /\ at > Len(ops)
  /\ diags' = diags \cup Validate(ops)
  /\ pc' = IF diags' = {} THEN "accepted" ELSE "refused"
  /\ meant' = IF side = "near" THEN ops ELSE meant
  /\ UNCHANGED <<side, dest, via, bigs, lines, ops, at, request>>

-----------------------------------------------------------------------------
(* What an accepted sequence is for.                                       *)

PrintsOk ==
  /\ pc = "accepted" /\ dest \in {"check", "ir"} /\ pc' = "printed"
  /\ UNCHANGED <<side, dest, via, bigs, lines, ops, diags, at, request, meant>>

RunHere ==
  /\ pc = "accepted" /\ dest = "local" /\ pc' = "run"
  /\ UNCHANGED <<side, dest, via, bigs, lines, ops, diags, at, request, meant>>

\* EncodeRequest, and decodeRequest in the bridge.
EncodeRequest ==
  /\ pc = "accepted" /\ dest = "bridge" /\ pc' = "sent"
  /\ request' = [i \in DOMAIN ops |-> OpNode(ops[i])]
  /\ UNCHANGED <<side, dest, via, bigs, lines, ops, diags, at, meant>>

DecodeRequest ==
  /\ pc = "sent" /\ pc' = "run"
  /\ ops' = [i \in DOMAIN request |-> DecodeOp(request[i])]
  /\ UNCHANGED <<side, dest, via, bigs, lines, diags, at, request, meant>>

\* Mutant: a backslash is sent as it is.
LeavesBackslash(s) ==
  LET Escaped == [LF |-> <<"bs", "n">>, TAB |-> <<"bs", "t">>, LFs |-> <<"(bs n)s">>]
  IN  FlattenSeq([i \in DOMAIN s |-> IF s[i] \in DOMAIN Escaped THEN Escaped[s[i]] ELSE <<s[i]>>])

\* LFs is more than 32 Ki line feeds: no line takes them once they are escaped.
EscapeText(s) ==
  LET Escaped == [bs |-> <<"bs", "bs">>, LF |-> <<"bs", "n">>, TAB |-> <<"bs", "t">>, LFs |-> <<"(bs n)s">>]
  IN  FlattenSeq([i \in DOMAIN s |-> IF s[i] \in DOMAIN Escaped THEN Escaped[s[i]] ELSE <<s[i]>>])

TooLong(l) == "(bs n)s" \in ToSet(l.chars)

\* modsWithoutF.
WithoutF(ts) == FlattenSeq([i \in DOMAIN ts |-> IF ts[i] = Letters(<<"f">>) THEN <<>> ELSE <<ts[i]>>])

\* A line with [f] is sent without it: the text of the file, escaped, and for qclip nothing.
RewriteLine(op) ==
  [op.src[1] EXCEPT !.mods = WithoutF(@),
                    !.words = <<>>,
                    !.chars = IF op.kind \in TextKinds THEN EscapeText(op.text) ELSE <<>>]

Rewritten(i) ==
  LET here == {j \in DOMAIN ops : ops[j].line = i /\ ops[j].fromFile}
  IN  IF here = {} THEN lines[i] ELSE RewriteLine(ops[CHOOSE j \in here : TRUE])

SendOverSsh ==
  LET long == {i \in DOMAIN lines : TooLong(Rewritten(i))} IN
  /\ pc = "accepted" /\ dest = "ssh"
  /\ IF long # {}
     THEN pc' = "refused" /\ diags' = long /\ UNCHANGED <<side, dest, via, lines, ops>>
     ELSE /\ side' = "far" /\ dest' \in {"local", "bridge"} /\ via' = "file"
          /\ lines' = [i \in DOMAIN lines |-> Rewritten(i)] /\ ops' = <<>> /\ pc' = "read" /\ UNCHANGED diags
  /\ UNCHANGED <<bigs, at, request, meant>>

Next ==
  ReadLines \/ ParseLine \/ InlineOp \/ ValidateSeq
  \/ PrintsOk \/ RunHere \/ EncodeRequest \/ DecodeRequest \/ SendOverSsh

Spec == Init /\ [][Next]_vars

-----------------------------------------------------------------------------

\* An operation without what only the near side uses: its source, the name of a local file,
\* and fields the engine reads from none of its kind.
Carried(op) ==
  [op EXCEPT !.src = <<>>, !.fromFile = FALSE, !.filePath = "", !.hasText = FALSE,
             !.hasPoint = @ /\ op.kind # "move", !.scale = IF op.scaleNative THEN 0 ELSE @]

\* The engine behind a bridge runs the operations the caller's process accepted: no field
\* that the engine reads is lost or invented on the way through the IR document.
BridgeCarriesTheOps ==
  pc = "run" /\ side = "near" =>
    /\ Len(ops) = Len(meant)
    /\ \A i \in DOMAIN ops : Carried(ops[i]) = Carried(meant[i])

\* What the scanner at the far end leaves of an operation.
AsRead(op) == IF op.kind \in TextKinds THEN [op EXCEPT !.text = DropCR(@)] ELSE op

AllSmall == \A i \in DOMAIN lines : \A t \in ToSet(lines[i].mods) \cup {KV("", w) : w \in ToSet(lines[i].words)} :
              \A v \in ToSet(t.val.parts) : v.n < Huge

\* Over ssh too, line for line: a rewritten line means what the line and its file meant, but
\* for one carriage return at the end of a text, and what the near side accepted is not
\* refused there.  Two machines that make different things of an overlong duration are
\* excepted.
SshCarriesTheOps ==
  side = "far" /\ (bigs["near"] = bigs["far"] \/ AllSmall) =>
    /\ pc # "refused"
    /\ pc = "run" =>
         /\ Len(ops) = Len(meant)
         /\ \A i \in DOMAIN ops : Carried(ops[i]) = Carried(AsRead(meant[i]))

-----------------------------------------------------------------------------
(* The LIMITS of help.txt, of what is written: the times d=, ms=, wait=,   *)
(* timeout= and sleep, and the counts of keys, chords, ticks, drag points  *)
(* and steps, frames and scale.  The form of a label is left out.          *)

Ms(v) == IF v.unit = "s" THEN 1000 * v.n ELSE v.n
Over(v, max) == IF v.n < Huge THEN Ms(v) > max ELSE bigs["near"] > 0
IsCount(v, max) == 1 <= v.n /\ v.n <= max

KeepsLimits(l) ==
  LET m == ModSet(Commands[l.cmd], l.mods)
      keeps(k, max) == Has(m, k) => ~Over(Whole(m.kvs[k]), max)
      within(k, max) == Has(m, k) => IsCount(Whole(m.kvs[k]), max) IN
  /\ keeps("d", 10000) /\ keeps("ms", 10000) /\ keeps("wait", 60000) /\ keeps("timeout", 60000)
  /\ l.cmd = "sleep" => ~Over(Whole(l.words[1]), 60000)
  /\ l.cmd = "cap" => within("n", 120) /\ (NameVal(m, "scale", "native") # "native" => within("scale", 4))
  /\ l.cmd = "drag" => within("steps", 200) /\ Len(l.words) \in 1..200
  /\ l.cmd = "scroll" /\ Len(l.words) = 2 => IsCount(Whole(l.words[2]), 50)
  /\ l.cmd = "k" => /\ Len(l.words) <= 64
                    /\ \A w \in ToSet(l.words) : Len(w.parts) + Cardinality(m.flags) <= 8

\* x is held when line i is reached.
HeldAt(i, x, downs, ups) ==
  \E j \in 1..(i - 1) : x \in downs[j] /\ \A h \in (j + 1)..(i - 1) : x \notin ups[h]

KeepsBalance ==
  LET of(i, kind) == IF meant[i].kind # kind THEN {}
                     ELSE IF kind \in {"key_down", "key_up"} THEN ToSet(meant[i].keys) ELSE {ButtonOf(meant[i])}
      downs == [i \in DOMAIN meant |-> of(i, "key_down") \cup of(i, "button_down")]
      ups == [i \in DOMAIN meant |-> of(i, "key_up") \cup of(i, "button_up")] IN
  \A i \in DOMAIN meant :
    /\ \A x \in ups[i] : HeldAt(i, x, downs, ups)
    /\ meant[i].kind \in {"click", "button_down", "drag"} => ~HeldAt(i, ButtonOf(meant[i]), downs, ups)

\* The times and counts of an accepted sequence are, as they were written, within LIMITS
\* (KeepsLimits and the total of captures), it releases only what an earlier line holds and
\* presses no button that one holds.  A duration that wraps to the least integer is accepted
\* (amd64).
AcceptedKeepsLimits ==
  side = "near" /\ pc \in {"accepted", "printed", "sent", "run"} =>
    /\ \A i \in DOMAIN lines : lines[i].form = "stmt" => KeepsLimits(lines[i])
    /\ KeepsBalance
    /\ Captures(meant) <= 121
=============================================================================
