----------------------------- MODULE MCDocument -----------------------------
(* Document with at least one line for each command, modifier and complaint, every line alone, *)
(* and in twos and threes the lines whose verdict depends on the others.                       *)
EXTENDS Document

W(s) == One(Name(s))
D(k, unit) == One(Num(k, unit))
XY(x, y, unit) == Word(",", <<Num(x, unit), Num(y, unit)>>)
S(cmd, mods, words) == Line("stmt", cmd, "closed", mods, words, <<>>)
T(cmd, mods, chars) == Line("stmt", cmd, "closed", mods, <<>>, chars)
Bare(cmd, tail) == Line("stmt", cmd, tail, <<>>, <<>>, <<>>)
F == Letters(<<"f">>)

KeyLines == {
  S("k", <<>>, <<W("a")>>), S("k", <<Letters(<<"c", "s">>), KV("n", D(3, "")), KV("ms", D(2, "s"))>>, <<W("v"), W("return")>>),
  S("k", <<KV("ms", D(11, "s"))>>, <<W("a")>>), S("k", <<>>, <<W("nokey")>>), S("k", <<>>, <<>>),
  S("k", <<Letters(<<"p", "a">>), Letters(<<"c">>)>>, <<Word("+", <<Name("cmd"), Name("shift"), Name("f5"), Num(1, ""), Name("tab")>>)>>),
  S("k", <<Letters(<<"s", "c", "a", "m", "p">>)>>, <<Word("+", <<Name("a"), Name("v"), Name("tab"), Name("esc")>>)>>),
  S("k", <<Letters(<<"c", "c">>)>>, <<W("a")>>), S("k", <<Letters(<<>>), Letters(<<"c">>)>>, <<W("a")>>),
  S("k", <<KV("n", D(2, "")), KV("n", D(2, ""))>>, <<W("a")>>), S("k", <<KV("n", D(Huge, ""))>>, <<W("a")>>),
  S("k", <<KV("b", W("left"))>>, <<W("a")>>), S("k", <<Letters(<<"r">>)>>, <<W("a")>>)}
  \cup {S("k", <<>>, [i \in 1..n |-> W("a")]) : n \in {64, 65}}

TextLines == {
  T("txt", <<KV("ms", D(30, "ms"))>>, <<"a", "bs", "n", "bs", "t", "bs", "bs", "n">>), T("txt", <<>>, <<>>),
  T("txt", <<>>, <<"a", "bs">>), T("txt", <<>>, <<"bs", "u", "h", "h", "h", "h", "a">>),
  T("txt", <<>>, <<"bs", "u", "h">>), T("clip", <<>>, <<"bs", "a">>), T("clip", <<>>, <<"a", "CR">>),
  T("paste", <<>>, <<"a">>), S("paste", <<F, KV("ms", D(5, "s")), KV("d", D(1, "s"))>>, <<W("file")>>),
  S("clip", <<F>>, <<W("file")>>), S("clip", <<F>>, <<>>), S("clip", <<F, F>>, <<W("file")>>),
  S("qclip", <<F>>, <<W("file")>>), S("qclip", <<>>, <<>>), S("rclip", <<>>, <<>>), S("rclip", <<>>, <<W("file")>>),
  S("rclip", <<Letters(Img)>>, <<W("file")>>), S("rclip", <<Letters(Txt), Letters(Txt)>>, <<W("file")>>),
  S("rclip", <<Letters(Img), Letters(Txt)>>, <<W("file")>>), S("rclip", <<Letters(Txt)>>, <<W("file")>>)}

PointerLines == {
  S("m", <<KV("ms", D(1, "s"))>>, <<XY(1, -2, "")>>), S("m", <<Letters(<<"r">>)>>, <<XY(5, 5, "%")>>),
  S("m", <<Letters(<<"r", "c">>)>>, <<XY(5, 5, "")>>), S("m", <<Letters(<<"r", "w">>)>>, <<XY(5, 5, "")>>),
  S("m", <<KV("disp", D(1, ""))>>, <<Word(",", <<Num(1, ""), Num(50, "%")>>)>>), S("m", <<KV("disp", D(-1, ""))>>, <<XY(5, 5, "")>>),
  S("m", <<KV("disp", D(1, "")), Letters(<<"w">>)>>, <<XY(5, 5, "")>>), S("m", <<>>, <<D(1, "")>>), S("m", <<>>, <<>>),
  S("c", <<KV("n", D(2, "")), KV("ms", D(70, "")), Letters(<<"w">>)>>, <<XY(50, 50, "%")>>),
  S("c", <<KV("b", W("thumb"))>>, <<>>), S("c", <<KV("ms", D(Huge, "s"))>>, <<>>), S("c", <<Letters(<<"m">>), KV("disp", D(2, ""))>>, <<XY(1, 1, "")>>),
  S("md", <<Letters(<<"s">>), KV("b", W("right"))>>, <<XY(1, 2, "")>>), S("md", <<KV("n", D(1, ""))>>, <<>>),
  S("mu", <<>>, <<W("left")>>), S("drag", <<>>, <<>>), S("drag", <<>>, <<XY(1, 1, ""), XY(2, 2, ""), W("x")>>),
  S("drag", <<Letters(<<"a">>), KV("b", W("middle")), KV("ms", D(3, "s")), KV("steps", D(200, ""))>>, <<XY(1, 1, ""), XY(9, 9, "")>>),
  S("drag", <<KV("steps", D(201, ""))>>, <<XY(1, 1, "")>>), S("drag", <<KV("ms", D(10001, ""))>>, <<XY(1, 1, "")>>),
  S("drag", <<KV("steps", D(0, ""))>>, <<XY(1, 1, "")>>),
  S("scroll", <<>>, <<W("up")>>), S("scroll", <<KV("by", W("page"))>>, <<W("down"), D(50, "")>>), S("scroll", <<Letters(<<"c">>)>>, <<W("left"), D(51, "")>>),
  S("scroll", <<>>, <<W("up"), D(0, "")>>), S("scroll", <<>>, <<W("out")>>), S("scroll", <<>>, <<W("up"), D(1, ""), D(1, "")>>),
  S("scroll", <<KV("by", W("inch"))>>, <<W("up")>>)}
  \cup {S("drag", <<>>, [i \in 1..n |-> XY(i, 1, "")]) : n \in {200, 201}}

OtherLines == {
  S("win", <<KV("wait", D(61, "s"))>>, <<W("t")>>), S("win", <<Letters(<<"r">>), KV("wait", D(0, ""))>>, <<W("t")>>),
  S("win", <<Letters(<<"r">>)>>, <<W("(")>>), S("win", <<>>, <<Word(":", <<Name("pid"), Num(7, "")>>)>>), S("win", <<>>, <<>>),
  S("qwin", <<Letters(<<"r">>)>>, <<Word(":", <<Name("id"), Name("x")>>)>>), S("qwin", <<>>, <<>>), S("qwin", <<>>, <<Word(":", <<Name("app"), Name("x")>>)>>),
  S("open", <<KV("wait", D(2, "s"))>>, <<W("app")>>), S("open", <<>>, <<W("app")>>), S("open", <<KV("wait", D(-1, ""))>>, <<W("app")>>),
  T("exec", <<KV("timeout", D(60, "s"))>>, <<"g", " ", "quote", "a", " ", "b", "quote", " ", " ", "c">>), T("exec", <<>>, <<"g", " ", "quote">>),
  T("exec", <<Letters(Shell), Letters(Noerr)>>, <<"g", " ", "quote">>), T("exec", <<KV("timeout", D(61, "s"))>>, <<"g">>), T("exec", <<>>, <<>>),
  T("exec", <<>>, <<" ", "CR">>), T("exec", <<Letters(Shell)>>, <<" ", "g", "CR">>), T("exec", <<>>, <<"g", " ", "CR">>),
  S("cap", <<KV("rect", Word(":", <<Num(1, "%"), Num(-2, ""), Num(3, ""), Num(4, "")>>)), KV("scale", W("native"))>>, <<W("file")>>),
  S("cap", <<KV("disp", D(1, "")), KV("scale", D(4, "")), KV("label", W("x")), KV("ms", D(10, "s"))>>, <<>>), S("cap", <<Letters(<<"w">>)>>, <<>>),
  S("cap", <<KV("scale", D(5, ""))>>, <<>>), S("cap", <<KV("scale", W("big"))>>, <<>>), S("cap", <<KV("label", W("a b"))>>, <<>>),
  S("cap", <<KV("n", D(0, ""))>>, <<>>), S("cap", <<KV("n", D(121, ""))>>, <<>>), S("cap", <<Letters(<<"r">>)>>, <<>>),
  S("cap", <<KV("rect", Word(":", <<Num(1, ""), Num(2, "")>>))>>, <<>>), S("sleep", <<>>, <<D(60, "s")>>), S("sleep", <<>>, <<D(61, "s")>>),
  S("sleep", <<>>, <<D(Huge, "s")>>), S("sleep", <<>>, <<>>), S("sleep", <<>>, <<W("NaN")>>),
  S("set", <<KV("delay", D(20, "s")), KV("keyms", D(0, ""))>>, <<>>), S("set", <<KV("txtms", D(Huge, ""))>>, <<>>), S("set", <<KV("txtms", W("x"))>>, <<>>),
  Bare("qinfo", "none"), Bare("qdisp", "space"), S("qmouse", <<KV("d", D(11, "s"))>>, <<>>), S("qinfo", <<>>, <<W("x")>>),
  Bare("qmouse", "open"), Bare("qmouse", "junk"), Bare("nosuch", "none"),
  Line("upper", "", "none", <<>>, <<>>, <<>>), Line("blank", "", "none", <<>>, <<>>, <<>>), Line("comment", "", "none", <<>>, <<>>, <<>>)}

\* Lines whose verdict, number or file depends on what stands before them.
Bound == {
  S("kd", <<>>, <<Word("+", <<Name("a"), Name("ctrl")>>)>>), S("ku", <<>>, <<W("a")>>), S("ku", <<>>, <<W("a"), W("a")>>),
  S("md", <<>>, <<>>), S("mu", <<>>, <<>>), S("c", <<>>, <<>>), S("drag", <<>>, <<XY(1, 1, "")>>),
  S("cap", <<KV("n", D(120, ""))>>, <<>>), S("kd", <<>>, <<W("nokey")>>), S("txt", <<F>>, <<W("file")>>)}

MCDocuments ==
  {<<l>> : l \in KeyLines \cup TextLines \cup PointerLines \cup OtherLines}
  \cup [1..2 -> Bound \cup {Line("blank", "", "none", <<>>, <<>>, <<>>), S("cap", <<KV("n", D(2, ""))>>, <<>>)}]
  \cup [1..3 -> {S("kd", <<>>, <<W("a")>>), S("ku", <<>>, <<W("a")>>), S("md", <<>>, <<>>), S("mu", <<>>, <<>>), S("c", <<>>, <<>>)}]

MCContents ==
  {Unreadable, <<>>, <<"a", "CR">>, <<"bs", "n", "LF", "TAB">>, <<"LFs">>, <<"CR", "LF">>}
=============================================================================
