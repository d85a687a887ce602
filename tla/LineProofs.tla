---------------------------- MODULE LineProofs ------------------------------
(***************************************************************************)
(* Lemmas about the operators of Syntax, IR and Document, for every line   *)
(* and every operation: what buildOp makes of a line that parses, that an  *)
(* operation comes back whole from its IR object (RoundTrip), that escaped *)
(* text is read as it was (EscapedIsRead), and that a line sent over ssh   *)
(* is taken there for the operation it was taken for here (LineArrives).   *)
(***************************************************************************)
EXTENDS Document, SequenceTheorems, FiniteSetTheorems, WellFoundedInduction, TLAPS

\* The fields of ir.Op.
OpFields ==
  {"line", "src", "kind", "delay", "selector", "wait", "hasWait", "mods", "keys", "repeat", "gap",
   "text", "interval", "hasText", "fromFile", "filePath", "path", "rclipType",
   "point", "hasPoint", "points", "duration", "button", "count",
   "scrollDir", "ticks", "scrollBy", "frame", "disp", "rect", "scale", "scaleNative",
   "label", "capCount", "capInterval", "argv", "cmd", "shell", "noerr", "timeout",
   "target", "sleep", "setDelay", "setTxtms", "setKeyms"}

\* Those of every operation, those that only the near side uses, and those of one kind.
CommonFields == {"line", "kind", "delay"}
NearFields == {"src", "fromFile", "filePath", "hasText", "hasPoint"}
FieldsOf(k) ==
  CASE k = "focus" -> {"selector", "wait", "hasWait"}
    [] k = "query_windows" -> {"selector"}
    [] k = "key" -> {"mods", "keys", "repeat", "gap"}
    [] k \in {"key_down", "key_up"} -> {"keys"}
    [] k \in {"text", "paste"} -> {"text", "interval"}
    [] k = "clipboard" -> {"text"}
    [] k = "read_clipboard" -> {"path", "rclipType"}
    [] k = "move" -> {"point", "duration"}
    [] k = "click" -> {"button", "count", "gap", "mods", "point"}
    [] k = "button_down" -> {"button", "mods", "point"}
    [] k = "button_up" -> {"button"}
    [] k = "drag" -> {"button", "mods", "duration", "count", "points"}
    [] k = "scroll" -> {"scrollDir", "ticks", "scrollBy"}
    [] k = "open" -> {"target", "wait", "hasWait"}
    [] k = "exec" -> {"shell", "noerr", "timeout", "cmd", "argv"}
    [] k = "capture" -> {"frame", "disp", "rect", "scale", "scaleNative", "label", "capCount", "capInterval"}
    [] k = "sleep" -> {"sleep"}
    [] k = "set" -> {"setDelay", "setTxtms", "setKeyms"}
    [] OTHER -> {}

\* A record with the fields of an operation, and no others.
IsOp(x) == x = [f \in OpFields |-> x[f]]

\* ir.Point and ir.Rect, by their fields; a percent flag is a truth value.
IsPoint(p) ==
  /\ p = [frame |-> p.frame, disp |-> p.disp, x |-> p.x, y |-> p.y, xPct |-> p.xPct, yPct |-> p.yPct]
  /\ p.xPct \in BOOLEAN /\ p.yPct \in BOOLEAN
  /\ p.frame # "display" => p.disp = 0
IsRect(r) ==
  /\ r = [x |-> r.x, y |-> r.y, w |-> r.w, h |-> r.h, xPct |-> r.xPct, yPct |-> r.yPct]
  /\ r.xPct \in BOOLEAN /\ r.yPct \in BOOLEAN

\* What buildOp guarantees of an operation and opNode relies on: the fields of other kinds
\* are zero, and what is sent for short means what it stands for.
Shaped(o) ==
  /\ IsOp(o)
  /\ \A f \in OpFields \ (CommonFields \cup NearFields \cup FieldsOf(o.kind)) : o[f] = ZeroOp[f]
  /\ o.hasPoint \in BOOLEAN /\ o.scaleNative \in BOOLEAN /\ o.shell \in BOOLEAN
  /\ o.hasPoint => o.kind \in {"move", "click", "button_down"}
  /\ o.hasPoint => IsPoint(o.point)
  /\ ~o.hasPoint => o.point = NoPoint
  /\ o.kind = "move" => o.hasPoint
  /\ o.kind = "drag" => /\ o.points = [i \in DOMAIN o.points |-> o.points[i]]
                        /\ \A i \in DOMAIN o.points : IsPoint(o.points[i])
  /\ o.kind = "exec" => IF o.shell THEN o.argv = <<>> ELSE o.cmd = <<>>
  /\ o.kind = "capture" => /\ o.frame # "display" => o.disp = 0
                           /\ o.rect # <<>> => o.rect = <<o.rect[1]>> /\ IsRect(o.rect[1])

-----------------------------------------------------------------------------
(* Operations as functions of their fields.                                *)

\* The fields of an operation, listed.
LEMMA ZeroDomain == DOMAIN ZeroOp = OpFields
  BY DEF ZeroOp, OpFields

\* The zero operation is one.
LEMMA ZeroIsOp == IsOp(ZeroOp)
<1>. DEFINE Z == ZeroOp
<1>1. Z = [f \in DOMAIN Z |-> Z[f]]
  BY DEF ZeroOp
<1>. QED
  BY <1>1, ZeroDomain DEF IsOp

\* What an operation holds in the fields that its builder leaves alone.
LEMMA ZeroValues ==
  /\ ZeroOp.point = NoPoint /\ ZeroOp.hasPoint = FALSE /\ ZeroOp.scaleNative = FALSE /\ ZeroOp.shell = FALSE
  /\ ZeroOp.wait = 0 /\ ZeroOp.hasWait = FALSE /\ ZeroOp.interval = 0 /\ ZeroOp.button = ""
  /\ ZeroOp.count = 0 /\ ZeroOp.gap = 0 /\ ZeroOp.repeat = 0 /\ ZeroOp.mods = <<>>
  /\ ZeroOp.cmd = <<>> /\ ZeroOp.argv = <<>>
  /\ ZeroOp.setDelay = <<>> /\ ZeroOp.setTxtms = <<>> /\ ZeroOp.setKeyms = <<>>
  BY Zenon DEF ZeroOp

\* Two operations with the same fields are the same.
LEMMA OpsEqual ==
  ASSUME NEW x, NEW y, IsOp(x), IsOp(y), \A f \in OpFields : x[f] = y[f]
  PROVE  x = y
  BY Zenon DEF IsOp

\* An operation has every field.
LEMMA IsOpDomain ==
  ASSUME NEW x, IsOp(x)
  PROVE  DOMAIN x = OpFields
  BY DEF IsOp

\* An operation with a field replaced.
LEMMA OpExcept ==
  ASSUME NEW x, IsOp(x), NEW k \in OpFields, NEW v
  PROVE  /\ IsOp([x EXCEPT ![k] = v])
         /\ [x EXCEPT ![k] = v][k] = v
         /\ \A f \in OpFields \ {k} : [x EXCEPT ![k] = v][f] = x[f]
  BY Zenon DEF IsOp

\* What Carried looks at.
LEMMA SameCarried ==
  ASSUME NEW a, NEW b, IsOp(a), IsOp(b),
         \A f \in OpFields \ (NearFields \cup {"scale"}) : a[f] = b[f],
         (a.hasPoint /\ a.kind # "move") = (b.hasPoint /\ b.kind # "move"),
         a.scaleNative \/ a.scale = b.scale
  PROVE  Carried(a) = Carried(b)
<1>0. {"src", "fromFile", "filePath", "hasText", "hasPoint", "scale", "kind", "scaleNative"} \subseteq OpFields
  BY DEF OpFields
<1>1. DOMAIN a = OpFields /\ DOMAIN b = OpFields
  BY IsOpDomain
<1>2. ASSUME NEW f \in OpFields PROVE Carried(a)[f] = Carried(b)[f]
  BY <1>0, <1>1, ZenonT(60) DEF Carried, NearFields
<1>3. ASSUME NEW x, IsOp(x) PROVE IsOp(Carried(x))
  BY <1>0, <1>3, ZenonT(60) DEF Carried, IsOp
<1>. QED
  BY <1>2, <1>3, OpsEqual

-----------------------------------------------------------------------------
(* Objects.                                                                *)

\* The fields of a merged object.
LEMMA MergeFields ==
  ASSUME NEW f, NEW g
  PROVE  /\ DOMAIN (f ++ g) = DOMAIN f \cup DOMAIN g
         /\ \A x \in DOMAIN f : (f ++ g)[x] = f[x]
         /\ \A x \in DOMAIN g \ DOMAIN f : (f ++ g)[x] = g[x]
  BY DEF ++

\* A field of a merged object, present or not.
LEMMA MergeGet ==
  ASSUME NEW f, NEW g, NEW k, NEW zero
  PROVE  Get(f ++ g, k, zero) = IF k \in DOMAIN f THEN f[k] ELSE Get(g, k, zero)
<1>1. /\ DOMAIN (f ++ g) = DOMAIN f \cup DOMAIN g
      /\ \A x \in DOMAIN f : (f ++ g)[x] = f[x]
      /\ \A x \in DOMAIN g \ DOMAIN f : (f ++ g)[x] = g[x]
  BY MergeFields, Zenon
<1>. DEFINE h == f ++ g
<1>. HIDE DEF h
<1>2. /\ DOMAIN h = DOMAIN f \cup DOMAIN g
      /\ \A x \in DOMAIN f : h[x] = f[x]
      /\ \A x \in DOMAIN g \ DOMAIN f : h[x] = g[x]
  BY <1>1 DEF h
<1>3. Get(h, k, zero) = IF k \in DOMAIN f THEN f[k] ELSE Get(g, k, zero)
  BY <1>2 DEF Get
<1>. QED
  BY <1>3 DEF h

\* Both, for what is nested in it.
LEMMA Merged ==
  ASSUME NEW f, NEW g
  PROVE  /\ DOMAIN (f ++ g) = DOMAIN f \cup DOMAIN g
         /\ \A x \in DOMAIN f : (f ++ g)[x] = f[x]
         /\ \A k, zero : Get(f ++ g, k, zero) = IF k \in DOMAIN f THEN f[k] ELSE Get(g, k, zero)
<1>1. DOMAIN (f ++ g) = DOMAIN f \cup DOMAIN g /\ \A x \in DOMAIN f : (f ++ g)[x] = f[x]
  BY MergeFields, Zenon
<1>2. ASSUME NEW k, NEW zero PROVE Get(f ++ g, k, zero) = IF k \in DOMAIN f THEN f[k] ELSE Get(g, k, zero)
  BY MergeGet
<1>. QED
  BY <1>1, <1>2, Zenon

\* An optional field: what is read of it, and that it is no other.
LEMMA OnlyFields ==
  ASSUME NEW c \in BOOLEAN, NEW obj, NEW k, DOMAIN obj = {k}, NEW zero
  PROVE  /\ DOMAIN Only(c, obj) \subseteq {k}
         /\ Get(Only(c, obj), k, zero) = IF c THEN obj[k] ELSE zero
  BY DEF Only, Get

\* x_pct and y_pct are written only when true, and read as false when absent.
LEMMA PercentFields ==
  ASSUME NEW c \in BOOLEAN
  PROVE  /\ DOMAIN Only(c, [x_pct |-> TRUE]) \subseteq {"x_pct"}
         /\ DOMAIN Only(c, [y_pct |-> TRUE]) \subseteq {"y_pct"}
         /\ Get(Only(c, [x_pct |-> TRUE]), "x_pct", FALSE) = c
         /\ Get(Only(c, [y_pct |-> TRUE]), "y_pct", FALSE) = c
<1>1. CASE c = TRUE
  <2>1. Only(c, [x_pct |-> TRUE]) = [x_pct |-> TRUE] /\ Only(c, [y_pct |-> TRUE]) = [y_pct |-> TRUE]
    BY <1>1, Zenon DEF Only
  <2>2. DOMAIN [x_pct |-> TRUE] = {"x_pct"} /\ DOMAIN [y_pct |-> TRUE] = {"y_pct"}
    OBVIOUS
  <2>3. [x_pct |-> TRUE].x_pct = TRUE /\ [y_pct |-> TRUE].y_pct = TRUE
    BY Zenon
  <2>4. "x_pct" \in DOMAIN [x_pct |-> TRUE] /\ "y_pct" \in DOMAIN [y_pct |-> TRUE]
    BY <2>2
  <2>5. /\ Get([x_pct |-> TRUE], "x_pct", FALSE) = [x_pct |-> TRUE].x_pct
        /\ Get([y_pct |-> TRUE], "y_pct", FALSE) = [y_pct |-> TRUE].y_pct
    BY <2>4, Zenon DEF Get
  <2>6. /\ Get(Only(c, [x_pct |-> TRUE]), "x_pct", FALSE) = TRUE
        /\ Get(Only(c, [y_pct |-> TRUE]), "y_pct", FALSE) = TRUE
    BY <2>1, <2>3, <2>5, Zenon
  <2>7. /\ DOMAIN Only(c, [x_pct |-> TRUE]) \subseteq {"x_pct"}
        /\ DOMAIN Only(c, [y_pct |-> TRUE]) \subseteq {"y_pct"}
    BY <2>1, <2>2
  <2>. QED
    BY <1>1, <2>6, <2>7
<1>2. CASE c = FALSE
  <2>1. Only(c, [x_pct |-> TRUE]) = <<>> /\ Only(c, [y_pct |-> TRUE]) = <<>>
    BY <1>2, Zenon DEF Only
  <2>2. Get(<<>>, "x_pct", FALSE) = FALSE /\ Get(<<>>, "y_pct", FALSE) = FALSE
    BY DEF Get
  <2>3. /\ Get(Only(c, [x_pct |-> TRUE]), "x_pct", FALSE) = FALSE
        /\ Get(Only(c, [y_pct |-> TRUE]), "y_pct", FALSE) = FALSE
    BY <2>1, <2>2, Zenon
  <2>4. /\ DOMAIN Only(c, [x_pct |-> TRUE]) \subseteq {"x_pct"}
        /\ DOMAIN Only(c, [y_pct |-> TRUE]) \subseteq {"y_pct"}
    BY <2>1
  <2>. QED
    BY <1>2, <2>3, <2>4
<1>. QED
  BY <1>1, <1>2

\* A point comes back as it was.
LEMMA PointRoundTrip ==
  ASSUME NEW p, IsPoint(p)
  PROVE  ToPoint(PointNode(p)) = p
<1>. DEFINE base == [frame |-> p.frame, x |-> p.x, y |-> p.y]
            d == Only(p.frame = "display", [display |-> p.disp])
            xp == Only(p.xPct, [x_pct |-> TRUE])
            yp == Only(p.yPct, [y_pct |-> TRUE])
            g1 == base ++ d
            g2 == g1 ++ xp
            g == g2 ++ yp
<1>1. /\ DOMAIN base = {"frame", "x", "y"}
      /\ base["frame"] = p.frame /\ base["x"] = p.x /\ base["y"] = p.y
  OBVIOUS
<1>2. /\ DOMAIN d \subseteq {"display"}
      /\ Get(d, "display", 0) = p.disp
  <2>1. CASE p.frame = "display"
    BY <2>1 DEF Only, Get
  <2>2. CASE p.frame # "display"
    BY <2>2 DEF Only, Get, IsPoint
  <2>. QED
    BY <2>1, <2>2
<1>3. /\ DOMAIN xp \subseteq {"x_pct"} /\ DOMAIN yp \subseteq {"y_pct"}
      /\ Get(xp, "x_pct", FALSE) = p.xPct /\ Get(yp, "y_pct", FALSE) = p.yPct
  BY PercentFields, Zenon DEF IsPoint
<1>4. g = PointNode(p)
  BY DEF PointNode
<1>. HIDE DEF base, d, xp, yp
<1>m1. /\ DOMAIN g1 = DOMAIN base \cup DOMAIN d
       /\ \A x \in DOMAIN base : g1[x] = base[x]
       /\ \A k, zero : Get(g1, k, zero) = IF k \in DOMAIN base THEN base[k] ELSE Get(d, k, zero)
  BY Merged
<1>. HIDE DEF g1
<1>m2. /\ DOMAIN g2 = DOMAIN g1 \cup DOMAIN xp
       /\ \A x \in DOMAIN g1 : g2[x] = g1[x]
       /\ \A k, zero : Get(g2, k, zero) = IF k \in DOMAIN g1 THEN g1[k] ELSE Get(xp, k, zero)
  BY Merged
<1>. HIDE DEF g2
<1>m3. /\ DOMAIN g = DOMAIN g2 \cup DOMAIN yp
       /\ \A x \in DOMAIN g2 : g[x] = g2[x]
       /\ \A k, zero : Get(g, k, zero) = IF k \in DOMAIN g2 THEN g2[k] ELSE Get(yp, k, zero)
  BY Merged
<1>. HIDE DEF g
<1>5. g["frame"] = p.frame /\ g["x"] = p.x /\ g["y"] = p.y
  BY <1>1, <1>m1, <1>m2, <1>m3
<1>6. Get(g, "display", 0) = p.disp
  BY <1>1, <1>2, <1>3, <1>m1, <1>m2, <1>m3 DEF Get
<1>7. Get(g, "x_pct", FALSE) = p.xPct /\ Get(g, "y_pct", FALSE) = p.yPct
  BY <1>1, <1>2, <1>3, <1>m1, <1>m2, <1>m3 DEF Get
<1>8. ToPoint(g) = [frame |-> p.frame, disp |-> p.disp, x |-> p.x, y |-> p.y, xPct |-> p.xPct, yPct |-> p.yPct]
  BY <1>5, <1>6, <1>7, Zenon DEF ToPoint
<1>. QED
  BY <1>4, <1>8 DEF IsPoint

\* A rectangle comes back as it was.
LEMMA RectRoundTrip ==
  ASSUME NEW r, IsRect(r)
  PROVE  ToRect(RectNode(r)) = r
<1>. DEFINE base == [x |-> r.x, y |-> r.y, w |-> r.w, h |-> r.h]
            xp == Only(r.xPct, [x_pct |-> TRUE])
            yp == Only(r.yPct, [y_pct |-> TRUE])
            g1 == base ++ xp
            g == g1 ++ yp
<1>1. /\ DOMAIN base = {"x", "y", "w", "h"}
      /\ base["x"] = r.x /\ base["y"] = r.y /\ base["w"] = r.w /\ base["h"] = r.h
  OBVIOUS
<1>2. /\ DOMAIN xp \subseteq {"x_pct"} /\ DOMAIN yp \subseteq {"y_pct"}
      /\ Get(xp, "x_pct", FALSE) = r.xPct /\ Get(yp, "y_pct", FALSE) = r.yPct
  BY PercentFields, Zenon DEF IsRect
<1>3. g = RectNode(r)
  BY DEF RectNode
<1>. HIDE DEF base, xp, yp
<1>m1. /\ DOMAIN g1 = DOMAIN base \cup DOMAIN xp
       /\ \A x \in DOMAIN base : g1[x] = base[x]
       /\ \A k, zero : Get(g1, k, zero) = IF k \in DOMAIN base THEN base[k] ELSE Get(xp, k, zero)
  BY Merged
<1>. HIDE DEF g1
<1>m2. /\ DOMAIN g = DOMAIN g1 \cup DOMAIN yp
       /\ \A x \in DOMAIN g1 : g[x] = g1[x]
       /\ \A k, zero : Get(g, k, zero) = IF k \in DOMAIN g1 THEN g1[k] ELSE Get(yp, k, zero)
  BY Merged
<1>. HIDE DEF g
<1>4. g["x"] = r.x /\ g["y"] = r.y /\ g["w"] = r.w /\ g["h"] = r.h
  BY <1>1, <1>m1, <1>m2
<1>5. Get(g, "x_pct", FALSE) = r.xPct /\ Get(g, "y_pct", FALSE) = r.yPct
  BY <1>1, <1>2, <1>m1, <1>m2 DEF Get
<1>6. ToRect(g) = [x |-> r.x, y |-> r.y, w |-> r.w, h |-> r.h, xPct |-> r.xPct, yPct |-> r.yPct]
  BY <1>4, <1>5, Zenon DEF ToRect
<1>. QED
  BY <1>3, <1>6 DEF IsRect

-----------------------------------------------------------------------------
(* What the IR document carries of an operation.                           *)

\* The fields that any object may have, whatever its kind.
Heads == {"line", "src", "op", "line_delay_ms"}

\* The fields of an object are those of every operation and those of its kind.
LEMMA NodeFields ==
  ASSUME NEW o, DOMAIN KindNode(o) \cap Heads = {}
  PROVE  /\ OpNode(o).line = o.line /\ OpNode(o).src = o.src /\ OpNode(o).op = o.kind
         /\ Get(OpNode(o), "line_delay_ms", <<>>) = o.delay
         /\ \A x \in DOMAIN KindNode(o) : OpNode(o)[x] = KindNode(o)[x]
         /\ DOMAIN OpNode(o) \ Heads = DOMAIN KindNode(o)
<1>. DEFINE base == [line |-> o.line, src |-> o.src, op |-> o.kind]
            d == Only(o.delay # <<>>, [line_delay_ms |-> o.delay])
            g1 == base ++ d
            g == g1 ++ KindNode(o)
<1>1. /\ DOMAIN base = {"line", "src", "op"}
      /\ base["line"] = o.line /\ base["src"] = o.src /\ base["op"] = o.kind
  OBVIOUS
<1>2. /\ DOMAIN d \subseteq {"line_delay_ms"}
      /\ Get(d, "line_delay_ms", <<>>) = o.delay
  <2>1. CASE o.delay = <<>>
    BY <2>1 DEF Only, Get
  <2>2. CASE o.delay # <<>>
    BY <2>2 DEF Only, Get
  <2>. QED
    BY <2>1, <2>2
<1>3. g = OpNode(o)
  BY DEF OpNode
<1>. HIDE DEF base, d
<1>m1. /\ DOMAIN g1 = DOMAIN base \cup DOMAIN d
       /\ \A x \in DOMAIN base : g1[x] = base[x]
       /\ \A k, zero : Get(g1, k, zero) = IF k \in DOMAIN base THEN base[k] ELSE Get(d, k, zero)
  <2>1. DOMAIN g1 = DOMAIN base \cup DOMAIN d
    BY Merged
  <2>2. \A x \in DOMAIN base : g1[x] = base[x]
    BY Merged
  <2>3. ASSUME NEW k, NEW zero PROVE Get(g1, k, zero) = IF k \in DOMAIN base THEN base[k] ELSE Get(d, k, zero)
    BY MergeGet
  <2>. QED
    BY <2>1, <2>2, <2>3
<1>. HIDE DEF g1
<1>m2. /\ DOMAIN g = DOMAIN g1 \cup DOMAIN KindNode(o)
       /\ \A x \in DOMAIN g1 : g[x] = g1[x]
       /\ \A k, zero : Get(g, k, zero) = IF k \in DOMAIN g1 THEN g1[k] ELSE Get(KindNode(o), k, zero)
  <2>1. DOMAIN g = DOMAIN g1 \cup DOMAIN KindNode(o)
    BY Merged
  <2>2. \A x \in DOMAIN g1 : g[x] = g1[x]
    BY Merged
  <2>3. ASSUME NEW k, NEW zero PROVE Get(g, k, zero) = IF k \in DOMAIN g1 THEN g1[k] ELSE Get(KindNode(o), k, zero)
    BY MergeGet
  <2>. QED
    BY <2>1, <2>2, <2>3
<1>m3. \A x \in DOMAIN KindNode(o) \ DOMAIN g1 : g[x] = KindNode(o)[x]
  BY MergeFields, Zenon
<1>. HIDE DEF g
<1>4. g["line"] = o.line /\ g["src"] = o.src /\ g["op"] = o.kind
  BY <1>1, <1>m1, <1>m2
<1>5. Get(g, "line_delay_ms", <<>>) = o.delay
  BY <1>1, <1>2, <1>m1, <1>m2 DEF Get, Heads
<1>6. DOMAIN g1 \subseteq Heads /\ {"line", "src", "op"} \subseteq DOMAIN g1
  BY <1>1, <1>2, <1>m1 DEF Heads
<1>7. \A x \in DOMAIN KindNode(o) : g[x] = KindNode(o)[x]
  BY <1>6, <1>m2, <1>m3
<1>8. DOMAIN g \ Heads = DOMAIN KindNode(o)
  BY <1>6, <1>m2
<1>. QED
  BY <1>3, <1>4, <1>5, <1>7, <1>8

\* What DecodeOp starts from.
Common(f) ==
  [ZeroOp EXCEPT !.line = f.line, !.src = f.src, !.kind = f.op, !.delay = Get(f, "line_delay_ms", <<>>)]

\* What the decoder reads of every operation, and that the rest is zero before its kind is
\* looked at.
LEMMA CommonDecoded ==
  ASSUME NEW f
  PROVE  /\ IsOp(Common(f))
         /\ Common(f).line = f.line /\ Common(f).kind = f.op
         /\ Common(f).delay = Get(f, "line_delay_ms", <<>>)
         /\ \A x \in OpFields \ (CommonFields \cup {"src"}) : Common(f)[x] = ZeroOp[x]
<1>1. {"line", "src", "kind", "delay"} \subseteq OpFields
  BY DEF OpFields
<1>2. IsOp(ZeroOp)
  BY ZeroIsOp
<1>. QED
  BY <1>1, <1>2, ZenonT(60) DEF Common, IsOp, CommonFields

\* Decoded by kind.
LEMMA DecodeKind ==
  ASSUME NEW f
  PROVE  /\ f.op = "focus" =>
              DecodeOp(f) = [Common(f) EXCEPT !.selector = f.selector, !.wait = f.wait_ms, !.hasWait = f.has_wait]
         /\ f.op = "query_windows" => DecodeOp(f) = [Common(f) EXCEPT !.selector = f.selector]
         /\ f.op = "key" =>
              DecodeOp(f) = [Common(f) EXCEPT !.mods = f.mods, !.keys = f.keys, !.repeat = f.repeat, !.gap = f.gap_ms]
         /\ f.op \in {"key_down", "key_up"} => DecodeOp(f) = [Common(f) EXCEPT !.keys = f.keys]
         /\ f.op = "open" =>
              DecodeOp(f) = [Common(f) EXCEPT !.target = f.target, !.wait = f.wait_ms, !.hasWait = f.has_wait]
         /\ f.op = "exec" => DecodeOp(f) = DecodeExec(f, Common(f))
         /\ f.op = "capture" => DecodeOp(f) = DecodeCapture(f, Common(f))
         /\ f.op = "sleep" => DecodeOp(f) = [Common(f) EXCEPT !.sleep = f.duration_ms]
         /\ f.op = "set" => DecodeOp(f) = DecodeSet(f, Common(f))
  BY DEF DecodeOp, Common

\* What is decoded of each operation with a text or a clipboard.
LEMMA DecodeTextKind ==
  ASSUME NEW f
  PROVE  /\ f.op = "text" => DecodeOp(f) = [Common(f) EXCEPT !.text = f.text, !.interval = f.interval_ms]
         /\ f.op = "clipboard" => DecodeOp(f) = [Common(f) EXCEPT !.text = f.text]
         /\ f.op = "paste" => DecodeOp(f) = [Common(f) EXCEPT !.text = f.text, !.interval = f.settle_ms]
         /\ f.op = "query_clipboard" => DecodeOp(f) = [Common(f) EXCEPT !.fromFile = f.to_file]
         /\ f.op = "read_clipboard" => DecodeOp(f) = [Common(f) EXCEPT !.path = f.path, !.rclipType = f.type]
<1>1. Common(f).kind = f.op
  BY CommonDecoded
<1>2. f.op \in {"text", "clipboard", "paste", "query_clipboard", "read_clipboard"} => DecodeOp(f) = DecodeText(f, Common(f))
  BY DEF DecodeOp, Common
<1>. QED
  BY <1>1, <1>2 DEF DecodeText

\* What is decoded of each operation of the pointer.
LEMMA DecodePointerKind ==
  ASSUME NEW f
  PROVE  /\ f.op = "move" => DecodeOp(f) = [Common(f) EXCEPT !.point = ToPoint(f.point), !.duration = f.duration_ms]
         /\ f.op = "click" =>
              DecodeOp(f) = DecodeOptPoint(f, [Common(f) EXCEPT !.button = f.button, !.count = f.count,
                                                               !.gap = f.gap_ms, !.mods = f.mods])
         /\ f.op = "button_down" =>
              DecodeOp(f) = DecodeOptPoint(f, [Common(f) EXCEPT !.button = f.button, !.mods = f.mods])
         /\ f.op = "button_up" => DecodeOp(f) = [Common(f) EXCEPT !.button = f.button]
         /\ f.op = "drag" =>
              DecodeOp(f) = [Common(f) EXCEPT !.button = f.button, !.duration = f.duration_ms, !.count = f.steps,
                                              !.mods = f.mods,
                                              !.points = [i \in DOMAIN f.points |-> ToPoint(f.points[i])]]
         /\ f.op = "scroll" =>
              DecodeOp(f) = [Common(f) EXCEPT !.scrollDir = f.dir, !.ticks = f.ticks, !.scrollBy = f.by]
<1>1. Common(f).kind = f.op
  BY CommonDecoded
<1>2. f.op \in {"move", "click", "button_down", "button_up", "drag", "scroll"} => DecodeOp(f) = DecodePointer(f, Common(f))
  BY DEF DecodeOp, Common
<1>. QED
  BY <1>1, <1>2 DEF DecodePointer

\* A query has no fields of its own.
LEMMA DecodeOther ==
  ASSUME NEW f, f.op \in {"query_info", "query_displays", "query_mouse"}
  PROVE  DecodeOp(f) = Common(f)
  BY DEF DecodeOp, Common

\* What is to be shown of a kind.
LEMMA SameOp ==
  ASSUME NEW o, Shaped(o), NEW d, IsOp(d), d.kind = o.kind, d.line = o.line, d.delay = o.delay,
         \A x \in FieldsOf(o.kind) \ {"scale"} : d[x] = o[x],
         \A x \in OpFields \ (CommonFields \cup NearFields \cup FieldsOf(o.kind)) : d[x] = ZeroOp[x],
         (d.hasPoint /\ d.kind # "move") = (o.hasPoint /\ o.kind # "move"),
         d.scaleNative \/ d.scale = o.scale
  PROVE  Carried(d) = Carried(o)
<1>1. IsOp(o) /\ \A f \in OpFields \ (CommonFields \cup NearFields \cup FieldsOf(o.kind)) : o[f] = ZeroOp[f]
  BY Zenon DEF Shaped
<1>2. ASSUME NEW x \in OpFields \ (NearFields \cup {"scale"}) PROVE d[x] = o[x]
  BY <1>1 DEF CommonFields
<1>. QED
  BY <1>1, <1>2, SameCarried

\* Nothing but the fields of its kind is read.
LEMMA PlainOp ==
  ASSUME NEW o, Shaped(o), DOMAIN KindNode(o) \cap Heads = {},
         o.kind \notin {"move", "click", "button_down", "capture"},
         NEW d, IsOp(d),
         \A x \in FieldsOf(o.kind) : d[x] = o[x],
         \A x \in OpFields \ (FieldsOf(o.kind) \cup {"fromFile"}) : d[x] = Common(OpNode(o))[x]
  PROVE  Carried(d) = Carried(o)
<1>. DEFINE c == Common(OpNode(o))
<1>1. c.line = o.line /\ c.kind = o.kind /\ c.delay = o.delay
  BY NodeFields, CommonDecoded
<1>2. \A x \in OpFields \ (CommonFields \cup {"src"}) : c[x] = ZeroOp[x]
  BY CommonDecoded
<1>. HIDE DEF c
<1>3. FieldsOf(o.kind) \cap {"line", "kind", "delay", "hasPoint", "scale", "fromFile", "scaleNative"} = {}
  BY DEF FieldsOf
<1>4. {"line", "kind", "delay", "hasPoint", "scale", "fromFile", "scaleNative"} \subseteq OpFields
  BY DEF OpFields
<1>5. \A x \in OpFields \ (FieldsOf(o.kind) \cup {"fromFile"}) : d[x] = c[x]
  BY DEF c
<1>6. d.line = o.line /\ d.kind = o.kind /\ d.delay = o.delay
  BY <1>1, <1>3, <1>4, <1>5
<1>7. d.hasPoint = FALSE /\ d.scale = ZeroOp.scale
  BY <1>2, <1>3, <1>4, <1>5, ZeroValues DEF CommonFields
<1>8. o.hasPoint = FALSE /\ o.scale = ZeroOp.scale
  BY <1>3, <1>4 DEF Shaped, CommonFields, NearFields
<1>9. \A x \in OpFields \ (CommonFields \cup NearFields \cup FieldsOf(o.kind)) : d[x] = ZeroOp[x]
  BY <1>2, <1>5 DEF NearFields
<1>10. (d.hasPoint /\ d.kind # "move") = (o.hasPoint /\ o.kind # "move")
  BY <1>7, <1>8
<1>. QED
  BY <1>6, <1>7, <1>8, <1>9, <1>10, SameOp

\* win comes back from its object as it was.
LEMMA FocusTrip ==
  ASSUME NEW o, Shaped(o), o.kind = "focus"
  PROVE  Carried(DecodeOp(OpNode(o))) = Carried(o)
<1>. DEFINE f == OpNode(o)
            d == DecodeOp(f)
            b == KindNode(o)
<1>1. b = [selector |-> o.selector, wait_ms |-> o.wait, has_wait |-> o.hasWait]
  BY DEF KindNode
<1>2. DOMAIN b = {"selector", "wait_ms", "has_wait"} /\ DOMAIN b \cap Heads = {}
  BY <1>1 DEF Heads
<1>3. b.selector = o.selector /\ b.wait_ms = o.wait /\ b.has_wait = o.hasWait
  BY <1>1
<1>. HIDE DEF b
<1>4. f.op = o.kind /\ \A x \in DOMAIN b : f[x] = b[x]
  BY <1>2, NodeFields DEF b
<1>. HIDE DEF f
<1>5. f.op = "focus" /\ f.selector = o.selector /\ f.wait_ms = o.wait /\ f.has_wait = o.hasWait
  BY <1>2, <1>3, <1>4
<1>6. d = [Common(f) EXCEPT !.selector = f.selector, !.wait = f.wait_ms, !.hasWait = f.has_wait]
  BY <1>5, DecodeKind
<1>7. /\ IsOp(d) /\ d.selector = o.selector /\ d.wait = o.wait /\ d.hasWait = o.hasWait
      /\ \A x \in OpFields \ {"selector", "wait", "hasWait"} : d[x] = Common(f)[x]
  <2>1. IsOp(Common(f)) /\ {"selector", "wait", "hasWait"} \subseteq OpFields
    BY CommonDecoded DEF OpFields
  <2>. QED
    BY <1>5, <1>6, <2>1, ZenonT(60) DEF IsOp
<1>. HIDE DEF d
<1>8. FieldsOf(o.kind) = {"selector", "wait", "hasWait"}
  BY DEF FieldsOf
<1>. QED
  BY <1>2, <1>7, <1>8, PlainOp DEF b, d, f

\* qwin comes back.
LEMMA WindowsTrip ==
  ASSUME NEW o, Shaped(o), o.kind = "query_windows"
  PROVE  Carried(DecodeOp(OpNode(o))) = Carried(o)
<1>. DEFINE f == OpNode(o)
            d == DecodeOp(f)
            b == KindNode(o)
<1>1. b = [selector |-> o.selector]
  BY DEF KindNode
<1>2. DOMAIN b = {"selector"} /\ DOMAIN b \cap Heads = {}
  BY <1>1 DEF Heads
<1>3. b.selector = o.selector
  BY <1>1
<1>. HIDE DEF b
<1>4. f.op = o.kind /\ \A x \in DOMAIN b : f[x] = b[x]
  BY <1>2, NodeFields DEF b
<1>. HIDE DEF f
<1>5. f.op = "query_windows" /\ f.selector = o.selector
  BY <1>2, <1>3, <1>4
<1>6. d = [Common(f) EXCEPT !.selector = f.selector]
  BY <1>5, DecodeKind
<1>7. /\ IsOp(d) /\ d.selector = o.selector
      /\ \A x \in OpFields \ {"selector"} : d[x] = Common(f)[x]
  <2>1. IsOp(Common(f)) /\ {"selector"} \subseteq OpFields
    BY CommonDecoded DEF OpFields
  <2>. QED
    BY <1>5, <1>6, <2>1, ZenonT(60) DEF IsOp
<1>. HIDE DEF d
<1>8. FieldsOf(o.kind) = {"selector"}
  BY DEF FieldsOf
<1>. QED
  BY <1>2, <1>7, <1>8, PlainOp DEF b, d, f

\* k comes back.
LEMMA KeyTrip ==
  ASSUME NEW o, Shaped(o), o.kind = "key"
  PROVE  Carried(DecodeOp(OpNode(o))) = Carried(o)
<1>. DEFINE f == OpNode(o)
            d == DecodeOp(f)
            b == KindNode(o)
<1>1. b = [mods |-> o.mods, keys |-> o.keys, repeat |-> o.repeat, gap_ms |-> o.gap]
  BY DEF KindNode
<1>2. DOMAIN b = {"mods", "keys", "repeat", "gap_ms"} /\ DOMAIN b \cap Heads = {}
  BY <1>1 DEF Heads
<1>3. b.mods = o.mods /\ b.keys = o.keys /\ b.repeat = o.repeat /\ b.gap_ms = o.gap
  BY <1>1
<1>. HIDE DEF b
<1>4. f.op = o.kind /\ \A x \in DOMAIN b : f[x] = b[x]
  BY <1>2, NodeFields DEF b
<1>. HIDE DEF f
<1>5. f.op = "key" /\ f.mods = o.mods /\ f.keys = o.keys /\ f.repeat = o.repeat /\ f.gap_ms = o.gap
  BY <1>2, <1>3, <1>4
<1>6. d = [Common(f) EXCEPT !.mods = f.mods, !.keys = f.keys, !.repeat = f.repeat, !.gap = f.gap_ms]
  BY <1>5, DecodeKind
<1>7. /\ IsOp(d) /\ d.mods = o.mods /\ d.keys = o.keys /\ d.repeat = o.repeat /\ d.gap = o.gap
      /\ \A x \in OpFields \ {"mods", "keys", "repeat", "gap"} : d[x] = Common(f)[x]
  <2>1. IsOp(Common(f)) /\ {"mods", "keys", "repeat", "gap"} \subseteq OpFields
    BY CommonDecoded DEF OpFields
  <2>. QED
    BY <1>5, <1>6, <2>1, ZenonT(60) DEF IsOp
<1>. HIDE DEF d
<1>8. FieldsOf(o.kind) = {"mods", "keys", "repeat", "gap"}
  BY DEF FieldsOf
<1>. QED
  BY <1>2, <1>7, <1>8, PlainOp DEF b, d, f

\* kd comes back.
LEMMA KeyDownTrip ==
  ASSUME NEW o, Shaped(o), o.kind = "key_down"
  PROVE  Carried(DecodeOp(OpNode(o))) = Carried(o)
<1>. DEFINE f == OpNode(o)
            d == DecodeOp(f)
            b == KindNode(o)
<1>1. b = [keys |-> o.keys]
  BY DEF KindNode
<1>2. DOMAIN b = {"keys"} /\ DOMAIN b \cap Heads = {}
  BY <1>1 DEF Heads
<1>3. b.keys = o.keys
  BY <1>1
<1>. HIDE DEF b
<1>4. f.op = o.kind /\ \A x \in DOMAIN b : f[x] = b[x]
  BY <1>2, NodeFields DEF b
<1>. HIDE DEF f
<1>5. f.op = "key_down" /\ f.keys = o.keys
  BY <1>2, <1>3, <1>4
<1>6. d = [Common(f) EXCEPT !.keys = f.keys]
  BY <1>5, DecodeKind
<1>7. /\ IsOp(d) /\ d.keys = o.keys
      /\ \A x \in OpFields \ {"keys"} : d[x] = Common(f)[x]
  <2>1. IsOp(Common(f)) /\ {"keys"} \subseteq OpFields
    BY CommonDecoded DEF OpFields
  <2>. QED
    BY <1>5, <1>6, <2>1, ZenonT(60) DEF IsOp
<1>. HIDE DEF d
<1>8. FieldsOf(o.kind) = {"keys"}
  BY DEF FieldsOf
<1>. QED
  BY <1>2, <1>7, <1>8, PlainOp DEF b, d, f

\* ku comes back.
LEMMA KeyUpTrip ==
  ASSUME NEW o, Shaped(o), o.kind = "key_up"
  PROVE  Carried(DecodeOp(OpNode(o))) = Carried(o)
<1>. DEFINE f == OpNode(o)
            d == DecodeOp(f)
            b == KindNode(o)
<1>1. b = [keys |-> o.keys]
  BY DEF KindNode
<1>2. DOMAIN b = {"keys"} /\ DOMAIN b \cap Heads = {}
  BY <1>1 DEF Heads
<1>3. b.keys = o.keys
  BY <1>1
<1>. HIDE DEF b
<1>4. f.op = o.kind /\ \A x \in DOMAIN b : f[x] = b[x]
  BY <1>2, NodeFields DEF b
<1>. HIDE DEF f
<1>5. f.op = "key_up" /\ f.keys = o.keys
  BY <1>2, <1>3, <1>4
<1>6. d = [Common(f) EXCEPT !.keys = f.keys]
  BY <1>5, DecodeKind
<1>7. /\ IsOp(d) /\ d.keys = o.keys
      /\ \A x \in OpFields \ {"keys"} : d[x] = Common(f)[x]
  <2>1. IsOp(Common(f)) /\ {"keys"} \subseteq OpFields
    BY CommonDecoded DEF OpFields
  <2>. QED
    BY <1>5, <1>6, <2>1, ZenonT(60) DEF IsOp
<1>. HIDE DEF d
<1>8. FieldsOf(o.kind) = {"keys"}
  BY DEF FieldsOf
<1>. QED
  BY <1>2, <1>7, <1>8, PlainOp DEF b, d, f

\* txt comes back.
LEMMA TextTrip ==
  ASSUME NEW o, Shaped(o), o.kind = "text"
  PROVE  Carried(DecodeOp(OpNode(o))) = Carried(o)
<1>. DEFINE f == OpNode(o)
            d == DecodeOp(f)
            b == KindNode(o)
<1>1. b = [text |-> o.text, interval_ms |-> o.interval]
  BY DEF KindNode
<1>2. DOMAIN b = {"text", "interval_ms"} /\ DOMAIN b \cap Heads = {}
  BY <1>1 DEF Heads
<1>3. b.text = o.text /\ b.interval_ms = o.interval
  BY <1>1
<1>. HIDE DEF b
<1>4. f.op = o.kind /\ \A x \in DOMAIN b : f[x] = b[x]
  BY <1>2, NodeFields DEF b
<1>. HIDE DEF f
<1>5. f.op = "text" /\ f.text = o.text /\ f.interval_ms = o.interval
  BY <1>2, <1>3, <1>4
<1>6. d = [Common(f) EXCEPT !.text = f.text, !.interval = f.interval_ms]
  BY <1>5, DecodeTextKind
<1>7. /\ IsOp(d) /\ d.text = o.text /\ d.interval = o.interval
      /\ \A x \in OpFields \ {"text", "interval"} : d[x] = Common(f)[x]
  <2>1. IsOp(Common(f)) /\ {"text", "interval"} \subseteq OpFields
    BY CommonDecoded DEF OpFields
  <2>. QED
    BY <1>5, <1>6, <2>1, ZenonT(60) DEF IsOp
<1>. HIDE DEF d
<1>8. FieldsOf(o.kind) = {"text", "interval"}
  BY DEF FieldsOf
<1>. QED
  BY <1>2, <1>7, <1>8, PlainOp DEF b, d, f

\* clip comes back.
LEMMA ClipboardTrip ==
  ASSUME NEW o, Shaped(o), o.kind = "clipboard"
  PROVE  Carried(DecodeOp(OpNode(o))) = Carried(o)
<1>. DEFINE f == OpNode(o)
            d == DecodeOp(f)
            b == KindNode(o)
<1>1. b = [text |-> o.text]
  BY DEF KindNode
<1>2. DOMAIN b = {"text"} /\ DOMAIN b \cap Heads = {}
  BY <1>1 DEF Heads
<1>3. b.text = o.text
  BY <1>1
<1>. HIDE DEF b
<1>4. f.op = o.kind /\ \A x \in DOMAIN b : f[x] = b[x]
  BY <1>2, NodeFields DEF b
<1>. HIDE DEF f
<1>5. f.op = "clipboard" /\ f.text = o.text
  BY <1>2, <1>3, <1>4
<1>6. d = [Common(f) EXCEPT !.text = f.text]
  BY <1>5, DecodeTextKind
<1>7. /\ IsOp(d) /\ d.text = o.text
      /\ \A x \in OpFields \ {"text"} : d[x] = Common(f)[x]
  <2>1. IsOp(Common(f)) /\ {"text"} \subseteq OpFields
    BY CommonDecoded DEF OpFields
  <2>. QED
    BY <1>5, <1>6, <2>1, ZenonT(60) DEF IsOp
<1>. HIDE DEF d
<1>8. FieldsOf(o.kind) = {"text"}
  BY DEF FieldsOf
<1>. QED
  BY <1>2, <1>7, <1>8, PlainOp DEF b, d, f

\* paste comes back.
LEMMA PasteTrip ==
  ASSUME NEW o, Shaped(o), o.kind = "paste"
  PROVE  Carried(DecodeOp(OpNode(o))) = Carried(o)
<1>. DEFINE f == OpNode(o)
            d == DecodeOp(f)
            b == KindNode(o)
<1>1. b = [text |-> o.text, settle_ms |-> o.interval]
  BY DEF KindNode
<1>2. DOMAIN b = {"text", "settle_ms"} /\ DOMAIN b \cap Heads = {}
  BY <1>1 DEF Heads
<1>3. b.text = o.text /\ b.settle_ms = o.interval
  BY <1>1
<1>. HIDE DEF b
<1>4. f.op = o.kind /\ \A x \in DOMAIN b : f[x] = b[x]
  BY <1>2, NodeFields DEF b
<1>. HIDE DEF f
<1>5. f.op = "paste" /\ f.text = o.text /\ f.settle_ms = o.interval
  BY <1>2, <1>3, <1>4
<1>6. d = [Common(f) EXCEPT !.text = f.text, !.interval = f.settle_ms]
  BY <1>5, DecodeTextKind
<1>7. /\ IsOp(d) /\ d.text = o.text /\ d.interval = o.interval
      /\ \A x \in OpFields \ {"text", "interval"} : d[x] = Common(f)[x]
  <2>1. IsOp(Common(f)) /\ {"text", "interval"} \subseteq OpFields
    BY CommonDecoded DEF OpFields
  <2>. QED
    BY <1>5, <1>6, <2>1, ZenonT(60) DEF IsOp
<1>. HIDE DEF d
<1>8. FieldsOf(o.kind) = {"text", "interval"}
  BY DEF FieldsOf
<1>. QED
  BY <1>2, <1>7, <1>8, PlainOp DEF b, d, f

\* qclip comes back.
LEMMA QueryClipboardTrip ==
  ASSUME NEW o, Shaped(o), o.kind = "query_clipboard"
  PROVE  Carried(DecodeOp(OpNode(o))) = Carried(o)
<1>. DEFINE f == OpNode(o)
            d == DecodeOp(f)
            b == KindNode(o)
<1>1. b = [to_file |-> o.fromFile]
  BY DEF KindNode
<1>2. DOMAIN b = {"to_file"} /\ DOMAIN b \cap Heads = {}
  BY <1>1 DEF Heads
<1>3. b.to_file = o.fromFile
  BY <1>1
<1>. HIDE DEF b
<1>4. f.op = o.kind /\ \A x \in DOMAIN b : f[x] = b[x]
  BY <1>2, NodeFields DEF b
<1>. HIDE DEF f
<1>5. f.op = "query_clipboard" /\ f.to_file = o.fromFile
  BY <1>2, <1>3, <1>4
<1>6. d = [Common(f) EXCEPT !.fromFile = f.to_file]
  BY <1>5, DecodeTextKind
<1>7. /\ IsOp(d) /\ d.fromFile = o.fromFile
      /\ \A x \in OpFields \ {"fromFile"} : d[x] = Common(f)[x]
  <2>1. IsOp(Common(f)) /\ {"fromFile"} \subseteq OpFields
    BY CommonDecoded DEF OpFields
  <2>. QED
    BY <1>5, <1>6, <2>1, ZenonT(60) DEF IsOp
<1>. HIDE DEF d
<1>8. FieldsOf(o.kind) = {}
  BY DEF FieldsOf
<1>. QED
  BY <1>2, <1>7, <1>8, PlainOp DEF b, d, f

\* rclip comes back.
LEMMA ReadClipboardTrip ==
  ASSUME NEW o, Shaped(o), o.kind = "read_clipboard"
  PROVE  Carried(DecodeOp(OpNode(o))) = Carried(o)
<1>. DEFINE f == OpNode(o)
            d == DecodeOp(f)
            b == KindNode(o)
<1>1. b = [path |-> o.path, type |-> o.rclipType]
  BY DEF KindNode
<1>2. DOMAIN b = {"path", "type"} /\ DOMAIN b \cap Heads = {}
  BY <1>1 DEF Heads
<1>3. b.path = o.path /\ b.type = o.rclipType
  BY <1>1
<1>. HIDE DEF b
<1>4. f.op = o.kind /\ \A x \in DOMAIN b : f[x] = b[x]
  BY <1>2, NodeFields DEF b
<1>. HIDE DEF f
<1>5. f.op = "read_clipboard" /\ f.path = o.path /\ f.type = o.rclipType
  BY <1>2, <1>3, <1>4
<1>6. d = [Common(f) EXCEPT !.path = f.path, !.rclipType = f.type]
  BY <1>5, DecodeTextKind
<1>7. /\ IsOp(d) /\ d.path = o.path /\ d.rclipType = o.rclipType
      /\ \A x \in OpFields \ {"path", "rclipType"} : d[x] = Common(f)[x]
  <2>1. IsOp(Common(f)) /\ {"path", "rclipType"} \subseteq OpFields
    BY CommonDecoded DEF OpFields
  <2>. QED
    BY <1>5, <1>6, <2>1, ZenonT(60) DEF IsOp
<1>. HIDE DEF d
<1>8. FieldsOf(o.kind) = {"path", "rclipType"}
  BY DEF FieldsOf
<1>. QED
  BY <1>2, <1>7, <1>8, PlainOp DEF b, d, f

\* mu comes back.
LEMMA ButtonUpTrip ==
  ASSUME NEW o, Shaped(o), o.kind = "button_up"
  PROVE  Carried(DecodeOp(OpNode(o))) = Carried(o)
<1>. DEFINE f == OpNode(o)
            d == DecodeOp(f)
            b == KindNode(o)
<1>1. b = [button |-> o.button]
  BY DEF KindNode
<1>2. DOMAIN b = {"button"} /\ DOMAIN b \cap Heads = {}
  BY <1>1 DEF Heads
<1>3. b.button = o.button
  BY <1>1
<1>. HIDE DEF b
<1>4. f.op = o.kind /\ \A x \in DOMAIN b : f[x] = b[x]
  BY <1>2, NodeFields DEF b
<1>. HIDE DEF f
<1>5. f.op = "button_up" /\ f.button = o.button
  BY <1>2, <1>3, <1>4
<1>6. d = [Common(f) EXCEPT !.button = f.button]
  BY <1>5, DecodePointerKind
<1>7. /\ IsOp(d) /\ d.button = o.button
      /\ \A x \in OpFields \ {"button"} : d[x] = Common(f)[x]
  <2>1. IsOp(Common(f)) /\ {"button"} \subseteq OpFields
    BY CommonDecoded DEF OpFields
  <2>. QED
    BY <1>5, <1>6, <2>1, ZenonT(60) DEF IsOp
<1>. HIDE DEF d
<1>8. FieldsOf(o.kind) = {"button"}
  BY DEF FieldsOf
<1>. QED
  BY <1>2, <1>7, <1>8, PlainOp DEF b, d, f

\* scroll comes back.
LEMMA ScrollTrip ==
  ASSUME NEW o, Shaped(o), o.kind = "scroll"
  PROVE  Carried(DecodeOp(OpNode(o))) = Carried(o)
<1>. DEFINE f == OpNode(o)
            d == DecodeOp(f)
            b == KindNode(o)
<1>1. b = [dir |-> o.scrollDir, ticks |-> o.ticks, by |-> o.scrollBy]
  BY DEF KindNode
<1>2. DOMAIN b = {"dir", "ticks", "by"} /\ DOMAIN b \cap Heads = {}
  BY <1>1 DEF Heads
<1>3. b.dir = o.scrollDir /\ b.ticks = o.ticks /\ b.by = o.scrollBy
  BY <1>1
<1>. HIDE DEF b
<1>4. f.op = o.kind /\ \A x \in DOMAIN b : f[x] = b[x]
  BY <1>2, NodeFields DEF b
<1>. HIDE DEF f
<1>5. f.op = "scroll" /\ f.dir = o.scrollDir /\ f.ticks = o.ticks /\ f.by = o.scrollBy
  BY <1>2, <1>3, <1>4
<1>6. d = [Common(f) EXCEPT !.scrollDir = f.dir, !.ticks = f.ticks, !.scrollBy = f.by]
  BY <1>5, DecodePointerKind
<1>7. /\ IsOp(d) /\ d.scrollDir = o.scrollDir /\ d.ticks = o.ticks /\ d.scrollBy = o.scrollBy
      /\ \A x \in OpFields \ {"scrollDir", "ticks", "scrollBy"} : d[x] = Common(f)[x]
  <2>1. IsOp(Common(f)) /\ {"scrollDir", "ticks", "scrollBy"} \subseteq OpFields
    BY CommonDecoded DEF OpFields
  <2>. QED
    BY <1>5, <1>6, <2>1, ZenonT(60) DEF IsOp
<1>. HIDE DEF d
<1>8. FieldsOf(o.kind) = {"scrollDir", "ticks", "scrollBy"}
  BY DEF FieldsOf
<1>. QED
  BY <1>2, <1>7, <1>8, PlainOp DEF b, d, f

\* open comes back.
LEMMA OpenTrip ==
  ASSUME NEW o, Shaped(o), o.kind = "open"
  PROVE  Carried(DecodeOp(OpNode(o))) = Carried(o)
<1>. DEFINE f == OpNode(o)
            d == DecodeOp(f)
            b == KindNode(o)
<1>1. b = [target |-> o.target, wait_ms |-> o.wait, has_wait |-> o.hasWait]
  BY DEF KindNode
<1>2. DOMAIN b = {"target", "wait_ms", "has_wait"} /\ DOMAIN b \cap Heads = {}
  BY <1>1 DEF Heads
<1>3. b.target = o.target /\ b.wait_ms = o.wait /\ b.has_wait = o.hasWait
  BY <1>1
<1>. HIDE DEF b
<1>4. f.op = o.kind /\ \A x \in DOMAIN b : f[x] = b[x]
  BY <1>2, NodeFields DEF b
<1>. HIDE DEF f
<1>5. f.op = "open" /\ f.target = o.target /\ f.wait_ms = o.wait /\ f.has_wait = o.hasWait
  BY <1>2, <1>3, <1>4
<1>6. d = [Common(f) EXCEPT !.target = f.target, !.wait = f.wait_ms, !.hasWait = f.has_wait]
  BY <1>5, DecodeKind
<1>7. /\ IsOp(d) /\ d.target = o.target /\ d.wait = o.wait /\ d.hasWait = o.hasWait
      /\ \A x \in OpFields \ {"target", "wait", "hasWait"} : d[x] = Common(f)[x]
  <2>1. IsOp(Common(f)) /\ {"target", "wait", "hasWait"} \subseteq OpFields
    BY CommonDecoded DEF OpFields
  <2>. QED
    BY <1>5, <1>6, <2>1, ZenonT(60) DEF IsOp
<1>. HIDE DEF d
<1>8. FieldsOf(o.kind) = {"target", "wait", "hasWait"}
  BY DEF FieldsOf
<1>. QED
  BY <1>2, <1>7, <1>8, PlainOp DEF b, d, f

\* sleep comes back.
LEMMA SleepTrip ==
  ASSUME NEW o, Shaped(o), o.kind = "sleep"
  PROVE  Carried(DecodeOp(OpNode(o))) = Carried(o)
<1>. DEFINE f == OpNode(o)
            d == DecodeOp(f)
            b == KindNode(o)
<1>1. b = [duration_ms |-> o.sleep]
  BY DEF KindNode
<1>2. DOMAIN b = {"duration_ms"} /\ DOMAIN b \cap Heads = {}
  BY <1>1 DEF Heads
<1>3. b.duration_ms = o.sleep
  BY <1>1
<1>. HIDE DEF b
<1>4. f.op = o.kind /\ \A x \in DOMAIN b : f[x] = b[x]
  BY <1>2, NodeFields DEF b
<1>. HIDE DEF f
<1>5. f.op = "sleep" /\ f.duration_ms = o.sleep
  BY <1>2, <1>3, <1>4
<1>6. d = [Common(f) EXCEPT !.sleep = f.duration_ms]
  BY <1>5, DecodeKind
<1>7. /\ IsOp(d) /\ d.sleep = o.sleep
      /\ \A x \in OpFields \ {"sleep"} : d[x] = Common(f)[x]
  <2>1. IsOp(Common(f)) /\ {"sleep"} \subseteq OpFields
    BY CommonDecoded DEF OpFields
  <2>. QED
    BY <1>5, <1>6, <2>1, ZenonT(60) DEF IsOp
<1>. HIDE DEF d
<1>8. FieldsOf(o.kind) = {"sleep"}
  BY DEF FieldsOf
<1>. QED
  BY <1>2, <1>7, <1>8, PlainOp DEF b, d, f

\* Optional fields of a kind.
LEMMA NodeGet ==
  ASSUME NEW o, DOMAIN KindNode(o) \cap Heads = {}, NEW x, x \notin Heads, NEW zero
  PROVE  /\ Get(OpNode(o), x, zero) = Get(KindNode(o), x, zero)
         /\ x \in DOMAIN OpNode(o) <=> x \in DOMAIN KindNode(o)
<1>. DEFINE f == OpNode(o)
            b == KindNode(o)
<1>1. DOMAIN f \ Heads = DOMAIN b /\ \A y \in DOMAIN b : f[y] = b[y]
  BY NodeFields
<1>. HIDE DEF f, b
<1>2. Get(f, x, zero) = Get(b, x, zero) /\ (x \in DOMAIN f <=> x \in DOMAIN b)
  BY <1>1 DEF Get
<1>. QED
  BY <1>2 DEF f, b

\* exec comes back, whether it has a command line or arguments.
LEMMA ExecTrip ==
  ASSUME NEW o, Shaped(o), o.kind = "exec"
  PROVE  Carried(DecodeOp(OpNode(o))) = Carried(o)
<1>. DEFINE f == OpNode(o)
            d == DecodeOp(f)
            b == KindNode(o)
            base == [shell |-> o.shell, noerr |-> o.noerr, timeout_ms |-> o.timeout]
            e == IF o.shell THEN [cmd |-> o.cmd] ELSE [argv |-> o.argv]
<1>1. b = base ++ e
  BY DEF KindNode
<1>2. /\ DOMAIN base = {"shell", "noerr", "timeout_ms"}
      /\ base.shell = o.shell /\ base.noerr = o.noerr /\ base.timeout_ms = o.timeout
  OBVIOUS
<1>3. IF o.shell THEN o.argv = <<>> ELSE o.cmd = <<>>
  BY Zenon DEF Shaped
<1>4. DOMAIN e \subseteq {"cmd", "argv"} /\ Get(e, "cmd", <<>>) = o.cmd /\ Get(e, "argv", <<>>) = o.argv
  <2>1. CASE o.shell
    BY <1>3, <2>1 DEF Get
  <2>2. CASE ~o.shell
    BY <1>3, <2>2 DEF Get
  <2>. QED
    BY <2>1, <2>2
<1>. HIDE DEF base, e, b
<1>5. DOMAIN b = DOMAIN base \cup DOMAIN e
  BY <1>1, Merged
<1>6. b.shell = o.shell /\ b.noerr = o.noerr /\ b.timeout_ms = o.timeout
  <2>1. \A x \in DOMAIN base : b[x] = base[x]
    BY <1>1, Merged
  <2>. QED
    BY <1>2, <2>1
<1>7. Get(b, "cmd", <<>>) = o.cmd /\ Get(b, "argv", <<>>) = o.argv
  BY <1>1, <1>2, <1>4, MergeGet
<1>8. DOMAIN b \cap Heads = {}
  BY <1>2, <1>4, <1>5 DEF Heads
<1>9. f.op = o.kind /\ \A x \in DOMAIN b : f[x] = b[x]
  BY <1>8, NodeFields DEF b
<1>10. Get(f, "cmd", <<>>) = o.cmd /\ Get(f, "argv", <<>>) = o.argv
  BY <1>7, <1>8, NodeGet DEF b, Heads
<1>. HIDE DEF f
<1>11. f.shell = o.shell /\ f.noerr = o.noerr /\ f.timeout_ms = o.timeout
  BY <1>2, <1>5, <1>6, <1>9
<1>12. d = DecodeExec(f, Common(f))
  BY <1>9, DecodeKind
<1>13. /\ IsOp(d) /\ d.shell = o.shell /\ d.cmd = o.cmd /\ d.argv = o.argv /\ d.noerr = o.noerr /\ d.timeout = o.timeout
       /\ \A x \in OpFields \ {"shell", "cmd", "argv", "noerr", "timeout"} : d[x] = Common(f)[x]
  <2>1. IsOp(Common(f)) /\ {"shell", "cmd", "argv", "noerr", "timeout"} \subseteq OpFields
    BY CommonDecoded DEF OpFields
  <2>. QED
    BY <1>10, <1>11, <1>12, <2>1, ZenonT(60) DEF IsOp, DecodeExec
<1>. HIDE DEF d
<1>14. FieldsOf(o.kind) = {"shell", "noerr", "timeout", "cmd", "argv"}
  BY DEF FieldsOf
<1>. QED
  BY <1>8, <1>13, <1>14, PlainOp DEF b, d, f

\* set comes back, with the settings that it leaves out.
LEMMA SetTrip ==
  ASSUME NEW o, Shaped(o), o.kind = "set"
  PROVE  Carried(DecodeOp(OpNode(o))) = Carried(o)
<1>. DEFINE f == OpNode(o)
            d == DecodeOp(f)
            b == KindNode(o)
            b1 == Only(o.setDelay # <<>>, [delay_ms |-> o.setDelay])
            b2 == Only(o.setTxtms # <<>>, [text_interval_ms |-> o.setTxtms])
            b3 == Only(o.setKeyms # <<>>, [key_gap_ms |-> o.setKeyms])
            b12 == b1 ++ b2
<1>1. b = b12 ++ b3
  BY DEF KindNode
<1>2. DOMAIN b1 \subseteq {"delay_ms"} /\ Get(b1, "delay_ms", <<>>) = o.setDelay
  BY DEF Only, Get
<1>3. DOMAIN b2 \subseteq {"text_interval_ms"} /\ Get(b2, "text_interval_ms", <<>>) = o.setTxtms
  BY DEF Only, Get
<1>4. DOMAIN b3 \subseteq {"key_gap_ms"} /\ Get(b3, "key_gap_ms", <<>>) = o.setKeyms
  BY DEF Only, Get
<1>. HIDE DEF b1, b2, b3, b
<1>5. /\ DOMAIN b12 = DOMAIN b1 \cup DOMAIN b2
      /\ Get(b12, "delay_ms", <<>>) = o.setDelay /\ Get(b12, "text_interval_ms", <<>>) = o.setTxtms
  <2>1. DOMAIN b12 = DOMAIN b1 \cup DOMAIN b2
    BY Merged
  <2>2. ASSUME NEW k, NEW zero PROVE Get(b12, k, zero) = IF k \in DOMAIN b1 THEN b1[k] ELSE Get(b2, k, zero)
    BY MergeGet
  <2>. HIDE DEF b12
  <2>. QED
    BY <1>2, <1>3, <2>1, <2>2 DEF Get
<1>. HIDE DEF b12
<1>6. /\ DOMAIN b = DOMAIN b12 \cup DOMAIN b3
      /\ Get(b, "delay_ms", <<>>) = o.setDelay /\ Get(b, "text_interval_ms", <<>>) = o.setTxtms
      /\ Get(b, "key_gap_ms", <<>>) = o.setKeyms
  <2>1. DOMAIN b = DOMAIN b12 \cup DOMAIN b3
    BY <1>1, Merged
  <2>2. ASSUME NEW k, NEW zero PROVE Get(b, k, zero) = IF k \in DOMAIN b12 THEN b12[k] ELSE Get(b3, k, zero)
    BY <1>1, MergeGet
  <2>. QED
    BY <1>2, <1>3, <1>4, <1>5, <2>1, <2>2 DEF Get
<1>7. DOMAIN b \cap Heads = {}
  BY <1>2, <1>3, <1>4, <1>5, <1>6 DEF Heads
<1>8. f.op = o.kind
  BY <1>7, NodeFields DEF b
<1>9. /\ Get(f, "delay_ms", <<>>) = o.setDelay /\ Get(f, "text_interval_ms", <<>>) = o.setTxtms
      /\ Get(f, "key_gap_ms", <<>>) = o.setKeyms
  BY <1>6, <1>7, NodeGet DEF b, Heads
<1>. HIDE DEF f
<1>10. d = DecodeSet(f, Common(f))
  BY <1>8, DecodeKind
<1>11. /\ IsOp(d) /\ d.setDelay = o.setDelay /\ d.setTxtms = o.setTxtms /\ d.setKeyms = o.setKeyms
       /\ \A x \in OpFields \ {"setDelay", "setTxtms", "setKeyms"} : d[x] = Common(f)[x]
  <2>1. IsOp(Common(f)) /\ {"setDelay", "setTxtms", "setKeyms"} \subseteq OpFields
    BY CommonDecoded DEF OpFields
  <2>. QED
    BY <1>9, <1>10, <2>1, ZenonT(60) DEF IsOp, DecodeSet
<1>. HIDE DEF d
<1>12. FieldsOf(o.kind) = {"setDelay", "setTxtms", "setKeyms"}
  BY DEF FieldsOf
<1>. QED
  BY <1>7, <1>11, <1>12, PlainOp DEF b, d, f

\* The queries have no fields.
LEMMA QueryTrip ==
  ASSUME NEW o, Shaped(o), o.kind \in {"query_info", "query_displays", "query_mouse"}
  PROVE  Carried(DecodeOp(OpNode(o))) = Carried(o)
<1>1. KindNode(o) = <<>>
  BY DEF KindNode
<1>2. DOMAIN KindNode(o) \cap Heads = {}
  BY <1>1
<1>3. OpNode(o).op = o.kind
  BY <1>2, NodeFields
<1>4. DecodeOp(OpNode(o)) = Common(OpNode(o))
  BY <1>3, DecodeOther
<1>5. IsOp(Common(OpNode(o)))
  BY CommonDecoded
<1>6. FieldsOf(o.kind) = {}
  BY DEF FieldsOf
<1>. QED
  BY <1>2, <1>4, <1>5, <1>6, PlainOp

\* drag comes back, point by point.
LEMMA DragTrip ==
  ASSUME NEW o, Shaped(o), o.kind = "drag"
  PROVE  Carried(DecodeOp(OpNode(o))) = Carried(o)
<1>. DEFINE f == OpNode(o)
            d == DecodeOp(f)
            b == KindNode(o)
<1>1. b = [button |-> o.button, mods |-> o.mods, duration_ms |-> o.duration, steps |-> o.count,
           points |-> [i \in DOMAIN o.points |-> PointNode(o.points[i])]]
  BY DEF KindNode
<1>2. DOMAIN b = {"button", "mods", "duration_ms", "steps", "points"} /\ DOMAIN b \cap Heads = {}
  BY <1>1 DEF Heads
<1>3. /\ b.button = o.button /\ b.mods = o.mods /\ b.duration_ms = o.duration /\ b.steps = o.count
      /\ b.points = [i \in DOMAIN o.points |-> PointNode(o.points[i])]
  BY <1>1
<1>. HIDE DEF b
<1>4. f.op = o.kind /\ \A x \in DOMAIN b : f[x] = b[x]
  BY <1>2, NodeFields DEF b
<1>. HIDE DEF f
<1>5. /\ f.op = "drag" /\ f.button = o.button /\ f.mods = o.mods /\ f.duration_ms = o.duration /\ f.steps = o.count
      /\ f.points = [i \in DOMAIN o.points |-> PointNode(o.points[i])]
  BY <1>2, <1>3, <1>4
<1>6. [i \in DOMAIN f.points |-> ToPoint(f.points[i])] = o.points
  <2>1. /\ o.points = [i \in DOMAIN o.points |-> o.points[i]]
        /\ \A i \in DOMAIN o.points : IsPoint(o.points[i])
    BY Zenon DEF Shaped
  <2>2. DOMAIN f.points = DOMAIN o.points /\ \A i \in DOMAIN o.points : f.points[i] = PointNode(o.points[i])
    BY <1>5
  <2>3. \A i \in DOMAIN o.points : ToPoint(f.points[i]) = o.points[i]
    BY <2>1, <2>2, PointRoundTrip
  <2>. QED
    BY <2>1, <2>2, <2>3, Zenon
<1>7. d = [Common(f) EXCEPT !.button = f.button, !.duration = f.duration_ms, !.count = f.steps,
                            !.mods = f.mods,
                            !.points = [i \in DOMAIN f.points |-> ToPoint(f.points[i])]]
  BY <1>5, DecodePointerKind
<1>8. d = [Common(f) EXCEPT !.button = o.button, !.duration = o.duration, !.count = o.count,
                            !.mods = o.mods, !.points = o.points]
  BY <1>5, <1>6, <1>7, Zenon
<1>9. /\ IsOp(d) /\ d.button = o.button /\ d.mods = o.mods /\ d.duration = o.duration /\ d.count = o.count
      /\ d.points = o.points
      /\ \A x \in OpFields \ {"button", "mods", "duration", "count", "points"} : d[x] = Common(f)[x]
  <2>1. IsOp(Common(f)) /\ {"button", "mods", "duration", "count", "points"} \subseteq OpFields
    BY CommonDecoded DEF OpFields
  <2>. QED
    BY <1>8, <2>1, ZenonT(60) DEF IsOp
<1>. HIDE DEF d
<1>10. FieldsOf(o.kind) = {"button", "mods", "duration", "count", "points"}
  BY DEF FieldsOf
<1>. QED
  BY <1>2, <1>9, <1>10, PlainOp DEF b, d, f

\* Besides the fields of its kind, an operation is read as it was.
LEMMA OddOp ==
  ASSUME NEW o, Shaped(o), DOMAIN KindNode(o) \cap Heads = {},
         NEW d, IsOp(d),
         \A x \in FieldsOf(o.kind) \ {"scale"} : d[x] = o[x],
         \A x \in OpFields \ (FieldsOf(o.kind) \cup {"hasPoint"}) : d[x] = Common(OpNode(o))[x],
         (d.hasPoint /\ o.kind # "move") = (o.hasPoint /\ o.kind # "move"),
         d.scaleNative \/ d.scale = o.scale
  PROVE  Carried(d) = Carried(o)
<1>. DEFINE c == Common(OpNode(o))
<1>1. c.line = o.line /\ c.kind = o.kind /\ c.delay = o.delay
  BY NodeFields, CommonDecoded
<1>2. \A x \in OpFields \ (CommonFields \cup {"src"}) : c[x] = ZeroOp[x]
  BY CommonDecoded
<1>. HIDE DEF c
<1>3. FieldsOf(o.kind) \cap {"line", "kind", "delay"} = {}
  BY DEF FieldsOf
<1>4. {"line", "kind", "delay"} \subseteq OpFields
  BY DEF OpFields
<1>5. \A x \in OpFields \ (FieldsOf(o.kind) \cup {"hasPoint"}) : d[x] = c[x]
  BY DEF c
<1>6. d.line = o.line /\ d.kind = o.kind /\ d.delay = o.delay
  BY <1>1, <1>3, <1>4, <1>5
<1>7. \A x \in OpFields \ (CommonFields \cup NearFields \cup FieldsOf(o.kind)) : d[x] = ZeroOp[x]
  BY <1>2, <1>5 DEF NearFields
<1>8. (d.hasPoint /\ d.kind # "move") = (o.hasPoint /\ o.kind # "move")
  BY <1>6, Zenon
<1>. QED
  BY <1>6, <1>7, <1>8, SameOp

\* m comes back.
LEMMA MoveTrip ==
  ASSUME NEW o, Shaped(o), o.kind = "move"
  PROVE  Carried(DecodeOp(OpNode(o))) = Carried(o)
<1>. DEFINE f == OpNode(o)
            d == DecodeOp(f)
            b == KindNode(o)
            p == [point |-> PointNode(o.point)]
            t == [duration_ms |-> o.duration]
<1>1. b = p ++ t
  BY DEF KindNode
<1>2. DOMAIN p = {"point"} /\ p.point = PointNode(o.point) /\ DOMAIN t = {"duration_ms"} /\ t.duration_ms = o.duration
  OBVIOUS
<1>. HIDE DEF p, t, b
<1>3. /\ DOMAIN b = {"point", "duration_ms"} /\ DOMAIN b \cap Heads = {}
      /\ b.point = PointNode(o.point) /\ b.duration_ms = o.duration
  <2>1. DOMAIN b = DOMAIN p \cup DOMAIN t
    BY <1>1, MergeFields
  <2>2. \A x \in DOMAIN p : b[x] = p[x]
    BY <1>1, MergeFields
  <2>3. ASSUME NEW x \in DOMAIN t \ DOMAIN p PROVE b[x] = t[x]
    BY <1>1, MergeFields
  <2>. QED
    BY <1>2, <2>1, <2>2, <2>3 DEF Heads
<1>4. f.op = o.kind /\ \A x \in DOMAIN b : f[x] = b[x]
  BY <1>3, NodeFields DEF b
<1>. HIDE DEF f
<1>5. f.op = "move" /\ f.point = PointNode(o.point) /\ f.duration_ms = o.duration
  BY <1>3, <1>4
<1>6. ToPoint(f.point) = o.point
  BY <1>5, PointRoundTrip, Zenon DEF Shaped
<1>7. d = [Common(f) EXCEPT !.point = ToPoint(f.point), !.duration = f.duration_ms]
  BY <1>5, DecodePointerKind
<1>8. /\ IsOp(d) /\ d.point = o.point /\ d.duration = o.duration
      /\ \A x \in OpFields \ {"point", "duration"} : d[x] = Common(f)[x]
  <2>1. IsOp(Common(f)) /\ {"point", "duration"} \subseteq OpFields
    BY CommonDecoded DEF OpFields
  <2>. QED
    BY <1>5, <1>6, <1>7, <2>1, ZenonT(60) DEF IsOp
<1>. HIDE DEF d
<1>9. FieldsOf(o.kind) = {"point", "duration"}
  BY DEF FieldsOf
<1>10. d.scale = o.scale
  <2>1. "scale" \in OpFields \ {"point", "duration"} /\ "scale" \in OpFields \ (CommonFields \cup {"src"})
    BY DEF OpFields, CommonFields
  <2>2. o.scale = ZeroOp.scale
    BY <1>9, <2>1, Zenon DEF Shaped, NearFields
  <2>. QED
    BY <1>8, <2>1, <2>2, CommonDecoded
<1>. QED
  BY <1>3, <1>8, <1>9, <1>10, OddOp DEF b, d, f

\* An object that has a point only when the operation does.
LEMMA OptPoint ==
  ASSUME NEW o, Shaped(o), NEW base, DOMAIN base \cap (Heads \cup {"point"}) = {},
         KindNode(o) = base ++ Only(o.hasPoint, [point |-> PointNode(o.point)])
  PROVE  /\ DOMAIN KindNode(o) \cap Heads = {} /\ OpNode(o).op = o.kind
         /\ \A x \in DOMAIN base : OpNode(o)[x] = base[x]
         /\ "point" \in DOMAIN OpNode(o) <=> o.hasPoint
         /\ o.hasPoint => ToPoint(OpNode(o).point) = o.point
<1>. DEFINE f == OpNode(o)
            b == KindNode(o)
            p == Only(o.hasPoint, [point |-> PointNode(o.point)])
<1>0. b = base ++ p
  OBVIOUS
<1>. HIDE DEF b, p
<1>1. /\ DOMAIN b = DOMAIN base \cup DOMAIN p
      /\ \A x \in DOMAIN base : b[x] = base[x]
      /\ \A x \in DOMAIN p \ DOMAIN base : b[x] = p[x]
  BY ONLY <1>0, Zenon DEF ++
<1>3. /\ DOMAIN p \subseteq {"point"}
      /\ "point" \in DOMAIN p <=> o.hasPoint
      /\ o.hasPoint => p.point = PointNode(o.point)
  <2>1. CASE o.hasPoint
    BY <2>1 DEF Only, p
  <2>2. CASE ~o.hasPoint
    BY <2>2 DEF Only, p
  <2>. QED
    BY <2>1, <2>2
<1>4. DOMAIN b \cap Heads = {}
  BY <1>1, <1>3 DEF Heads
<1>5. f.op = o.kind /\ (\A x \in DOMAIN b : f[x] = b[x]) /\ DOMAIN f \ Heads = DOMAIN b
  BY <1>4, NodeFields DEF b
<1>. HIDE DEF f
<1>6. "point" \in DOMAIN f <=> o.hasPoint
  BY <1>1, <1>3, <1>5 DEF Heads
<1>7. o.hasPoint => f.point = PointNode(o.point)
  BY <1>1, <1>3, <1>5
<1>8. o.hasPoint => ToPoint(f.point) = o.point
  BY <1>7, PointRoundTrip, Zenon DEF Shaped
<1>. QED
  BY <1>1, <1>4, <1>5, <1>6, <1>8 DEF f, b

\* c comes back, with a point or without.
LEMMA ClickTrip ==
  ASSUME NEW o, Shaped(o), o.kind = "click"
  PROVE  Carried(DecodeOp(OpNode(o))) = Carried(o)
<1>. DEFINE f == OpNode(o)
            d == DecodeOp(f)
            base == [button |-> o.button, count |-> o.count, gap_ms |-> o.gap, mods |-> o.mods]
            c == [Common(f) EXCEPT !.button = f.button, !.count = f.count, !.gap = f.gap_ms, !.mods = f.mods]
<1>1. KindNode(o) = base ++ Only(o.hasPoint, [point |-> PointNode(o.point)])
  BY DEF KindNode
<1>2. /\ DOMAIN base = {"button", "count", "gap_ms", "mods"} /\ DOMAIN base \cap (Heads \cup {"point"}) = {}
      /\ base.button = o.button /\ base.count = o.count /\ base.gap_ms = o.gap /\ base.mods = o.mods
  BY DEF Heads
<1>. HIDE DEF base
<1>3. /\ DOMAIN KindNode(o) \cap Heads = {} /\ f.op = o.kind
      /\ \A x \in DOMAIN base : f[x] = base[x]
      /\ "point" \in DOMAIN f <=> o.hasPoint
      /\ o.hasPoint => ToPoint(f.point) = o.point
  BY <1>1, <1>2, OptPoint
<1>. HIDE DEF f
<1>4. f.button = o.button /\ f.count = o.count /\ f.gap_ms = o.gap /\ f.mods = o.mods
  BY <1>2, <1>3
<1>5. d = DecodeOptPoint(f, c)
  BY <1>3, DecodePointerKind
<1>6. IsOp(Common(f)) /\ {"button", "count", "gap", "mods", "point", "hasPoint"} \subseteq OpFields
  BY CommonDecoded DEF OpFields
<1>7. /\ IsOp(c) /\ c.button = o.button /\ c.count = o.count /\ c.gap = o.gap /\ c.mods = o.mods
      /\ \A x \in OpFields \ {"button", "count", "gap", "mods"} : c[x] = Common(f)[x]
  BY <1>4, <1>6, ZenonT(60) DEF IsOp
<1>. HIDE DEF c
<1>8. c.hasPoint = FALSE /\ c.point = NoPoint
  <2>0. \A x \in OpFields \ (CommonFields \cup {"src"}) : Common(f)[x] = ZeroOp[x]
    BY CommonDecoded
  <2>1. Common(f).hasPoint = FALSE /\ Common(f).point = NoPoint
    BY <1>6, <2>0, ZeroValues DEF CommonFields
  <2>. QED
    BY <1>6, <1>7, <2>1
<1>9. /\ IsOp(d) /\ d.point = o.point /\ d.hasPoint = o.hasPoint
      /\ \A x \in OpFields \ {"point", "hasPoint"} : d[x] = c[x]
  <2>1. CASE o.hasPoint
    <3>1. d = [c EXCEPT !.hasPoint = TRUE, !.point = o.point]
      BY <1>3, <1>5, <2>1, Zenon DEF DecodeOptPoint
    <3>2. o.hasPoint = TRUE
      BY <2>1, Zenon DEF Shaped
    <3>. QED
      BY <1>6, <1>7, <3>1, <3>2, ZenonT(60) DEF IsOp
  <2>2. CASE ~o.hasPoint
    <3>1. d = c
      BY <1>3, <1>5, <2>2, Zenon DEF DecodeOptPoint
    <3>2. o.hasPoint = FALSE /\ o.point = NoPoint
      BY <2>2, Zenon DEF Shaped
    <3>. QED
      BY <1>7, <1>8, <3>1, <3>2, Zenon
  <2>. QED
    BY <2>1, <2>2
<1>. HIDE DEF d
<1>10. FieldsOf(o.kind) = {"button", "count", "gap", "mods", "point"}
  BY DEF FieldsOf
<1>11. \A x \in FieldsOf(o.kind) : d[x] = o[x]
  BY <1>6, <1>7, <1>9, <1>10
<1>12. \A x \in OpFields \ (FieldsOf(o.kind) \cup {"hasPoint"}) : d[x] = Common(f)[x]
  BY <1>7, <1>9, <1>10
<1>13. d.scale = o.scale
  <2>1. "scale" \in OpFields \ {"button", "count", "gap", "mods", "point", "hasPoint"} /\ "scale" \in OpFields \ (CommonFields \cup {"src"})
    BY DEF OpFields, CommonFields
  <2>2. o.scale = ZeroOp.scale
    BY <1>10, <2>1, Zenon DEF Shaped, NearFields
  <2>. QED
    BY <1>10, <1>12, <2>1, <2>2, CommonDecoded
<1>. QED
  BY <1>3, <1>9, <1>11, <1>12, <1>13, OddOp DEF d, f

\* md comes back, with a point or without.
LEMMA ButtonDownTrip ==
  ASSUME NEW o, Shaped(o), o.kind = "button_down"
  PROVE  Carried(DecodeOp(OpNode(o))) = Carried(o)
<1>. DEFINE f == OpNode(o)
            d == DecodeOp(f)
            base == [button |-> o.button, mods |-> o.mods]
            c == [Common(f) EXCEPT !.button = f.button, !.mods = f.mods]
<1>1. KindNode(o) = base ++ Only(o.hasPoint, [point |-> PointNode(o.point)])
  BY DEF KindNode
<1>2. /\ DOMAIN base = {"button", "mods"} /\ DOMAIN base \cap (Heads \cup {"point"}) = {}
      /\ base.button = o.button /\ base.mods = o.mods
  BY DEF Heads
<1>. HIDE DEF base
<1>3. /\ DOMAIN KindNode(o) \cap Heads = {} /\ f.op = o.kind
      /\ \A x \in DOMAIN base : f[x] = base[x]
      /\ "point" \in DOMAIN f <=> o.hasPoint
      /\ o.hasPoint => ToPoint(f.point) = o.point
  BY <1>1, <1>2, OptPoint
<1>. HIDE DEF f
<1>4. f.button = o.button /\ f.mods = o.mods
  BY <1>2, <1>3
<1>5. d = DecodeOptPoint(f, c)
  BY <1>3, DecodePointerKind
<1>6. IsOp(Common(f)) /\ {"button", "mods", "point", "hasPoint"} \subseteq OpFields
  BY CommonDecoded DEF OpFields
<1>7. /\ IsOp(c) /\ c.button = o.button /\ c.mods = o.mods
      /\ \A x \in OpFields \ {"button", "mods"} : c[x] = Common(f)[x]
  BY <1>4, <1>6, ZenonT(60) DEF IsOp
<1>. HIDE DEF c
<1>8. c.hasPoint = FALSE /\ c.point = NoPoint
  <2>0. \A x \in OpFields \ (CommonFields \cup {"src"}) : Common(f)[x] = ZeroOp[x]
    BY CommonDecoded
  <2>1. Common(f).hasPoint = FALSE /\ Common(f).point = NoPoint
    BY <1>6, <2>0, ZeroValues DEF CommonFields
  <2>. QED
    BY <1>6, <1>7, <2>1
<1>9. /\ IsOp(d) /\ d.point = o.point /\ d.hasPoint = o.hasPoint
      /\ \A x \in OpFields \ {"point", "hasPoint"} : d[x] = c[x]
  <2>1. CASE o.hasPoint
    <3>1. d = [c EXCEPT !.hasPoint = TRUE, !.point = o.point]
      BY <1>3, <1>5, <2>1, Zenon DEF DecodeOptPoint
    <3>2. o.hasPoint = TRUE
      BY <2>1, Zenon DEF Shaped
    <3>. QED
      BY <1>6, <1>7, <3>1, <3>2, ZenonT(60) DEF IsOp
  <2>2. CASE ~o.hasPoint
    <3>1. d = c
      BY <1>3, <1>5, <2>2, Zenon DEF DecodeOptPoint
    <3>2. o.hasPoint = FALSE /\ o.point = NoPoint
      BY <2>2, Zenon DEF Shaped
    <3>. QED
      BY <1>7, <1>8, <3>1, <3>2, Zenon
  <2>. QED
    BY <2>1, <2>2
<1>. HIDE DEF d
<1>10. FieldsOf(o.kind) = {"button", "mods", "point"}
  BY DEF FieldsOf
<1>11. \A x \in FieldsOf(o.kind) : d[x] = o[x]
  BY <1>6, <1>7, <1>9, <1>10
<1>12. \A x \in OpFields \ (FieldsOf(o.kind) \cup {"hasPoint"}) : d[x] = Common(f)[x]
  BY <1>7, <1>9, <1>10
<1>13. d.scale = o.scale
  <2>1. "scale" \in OpFields \ {"button", "mods", "point", "hasPoint"} /\ "scale" \in OpFields \ (CommonFields \cup {"src"})
    BY DEF OpFields, CommonFields
  <2>2. o.scale = ZeroOp.scale
    BY <1>10, <2>1, Zenon DEF Shaped, NearFields
  <2>. QED
    BY <1>10, <1>12, <2>1, <2>2, CommonDecoded
<1>. QED
  BY <1>3, <1>9, <1>11, <1>12, <1>13, OddOp DEF d, f

\* cap comes back, except a scale that is not used.
LEMMA CaptureTrip ==
  ASSUME NEW o, Shaped(o), o.kind = "capture"
  PROVE  Carried(DecodeOp(OpNode(o))) = Carried(o)
<1>. DEFINE f == OpNode(o)
            d == DecodeOp(f)
            b == KindNode(o)
            scale == IF o.scaleNative THEN Name("native") ELSE Num(o.scale, "")
            base == [frame |-> o.frame, count |-> o.capCount, interval_ms |-> o.capInterval, label |-> o.label,
                     scale |-> scale]
            dp == Only(o.frame = "display", [display |-> o.disp])
            rc == Only(o.rect # <<>>, [rect |-> RectNode(o.rect[1])])
            b1 == base ++ dp
<1>1. b = b1 ++ rc
  BY DEF KindNode
<1>0. b1 = base ++ dp
  OBVIOUS
<1>2. /\ DOMAIN base = {"frame", "count", "interval_ms", "label", "scale"}
      /\ base.frame = o.frame /\ base.count = o.capCount /\ base.interval_ms = o.capInterval
      /\ base.label = o.label /\ base.scale = scale
  <2>. HIDE DEF scale
  <2>. QED
    OBVIOUS
<1>3. DOMAIN dp \subseteq {"display"} /\ Get(dp, "display", 0) = o.disp
  <2>1. CASE o.frame = "display"
    BY <2>1 DEF Only, Get
  <2>2. CASE o.frame # "display"
    <3>1. o.disp = 0
      BY <2>2, Zenon DEF Shaped
    <3>. QED
      BY <2>2, <3>1 DEF Only, Get
  <2>. QED
    BY <2>1, <2>2
<1>4. /\ DOMAIN rc \subseteq {"rect"} /\ ("rect" \in DOMAIN rc <=> o.rect # <<>>)
      /\ o.rect # <<>> => rc.rect = RectNode(o.rect[1])
  <2>1. CASE o.rect = <<>>
    BY <2>1 DEF Only
  <2>2. CASE o.rect # <<>>
    BY <2>2 DEF Only
  <2>. QED
    BY <2>1, <2>2
<1>. HIDE DEF base, dp, rc, b, b1
<1>5. /\ DOMAIN b1 = DOMAIN base \cup DOMAIN dp
      /\ \A x \in DOMAIN base : b1[x] = base[x]
      /\ \A x \in DOMAIN dp \ DOMAIN base : b1[x] = dp[x]
  BY ONLY <1>0, Zenon DEF ++
<1>6. /\ DOMAIN b = DOMAIN b1 \cup DOMAIN rc
      /\ \A x \in DOMAIN b1 : b[x] = b1[x]
      /\ \A x \in DOMAIN rc \ DOMAIN b1 : b[x] = rc[x]
  BY ONLY <1>1, Zenon DEF ++
<1>7. DOMAIN b \cap Heads = {}
  BY <1>2, <1>3, <1>4, <1>5, <1>6 DEF Heads
<1>8. f.op = o.kind /\ \A x \in DOMAIN b : f[x] = b[x]
  BY <1>7, NodeFields DEF b
<1>9. Get(f, "display", 0) = Get(b, "display", 0) /\ ("rect" \in DOMAIN f <=> "rect" \in DOMAIN b)
  BY <1>7, NodeGet DEF b, Heads
<1>. HIDE DEF f, scale
<1>10. Get(b, "display", 0) = o.disp
  BY <1>2, <1>3, <1>4, <1>5, <1>6 DEF Get
<1>11. f.frame = o.frame /\ f.count = o.capCount /\ f.interval_ms = o.capInterval /\ f.label = o.label /\ f.scale = scale
  BY <1>2, <1>5, <1>6, <1>8
<1>12. (IF "rect" \in DOMAIN f THEN <<ToRect(f.rect)>> ELSE <<>>) = o.rect
  <2>1. CASE o.rect = <<>>
    BY <1>2, <1>3, <1>4, <1>5, <1>6, <1>9, <2>1
  <2>2. CASE o.rect # <<>>
    <3>1. "rect" \in DOMAIN f /\ f.rect = RectNode(o.rect[1])
      BY <1>2, <1>3, <1>4, <1>5, <1>6, <1>8, <1>9, <2>2
    <3>2. o.rect = <<o.rect[1]>> /\ IsRect(o.rect[1])
      BY <2>2, Zenon DEF Shaped
    <3>3. ToRect(f.rect) = o.rect[1]
      BY <3>1, <3>2, RectRoundTrip, Zenon
    <3>. QED
      BY <3>1, <3>2, <3>3, Zenon
  <2>. QED
    BY <2>1, <2>2
<1>13. /\ (f.scale = Name("native")) = o.scaleNative
       /\ ~o.scaleNative => f.scale.n = o.scale
  <2>1. CASE o.scaleNative = TRUE
    <3>1. f.scale = Name("native")
      BY <1>11, <2>1, Zenon DEF scale
    <3>. QED
      BY <2>1, <3>1, Zenon
  <2>2. CASE o.scaleNative = FALSE
    <3>1. f.scale = Num(o.scale, "")
      BY <1>11, <2>2, Zenon DEF scale
    <3>2. Num(o.scale, "").n = o.scale /\ Num(o.scale, "").s = "" /\ Name("native").s = "native"
      BY DEF Num, Name
    <3>3. f.scale # Name("native")
      BY <3>1, <3>2
    <3>. QED
      BY <2>2, <3>1, <3>2, <3>3, Zenon
  <2>3. o.scaleNative \in BOOLEAN
    BY Zenon DEF Shaped
  <2>. QED
    BY <2>1, <2>2, <2>3, Zenon
<1>14. d = DecodeCapture(f, Common(f))
  BY <1>8, DecodeKind
<1>. DEFINE ks == {"frame", "disp", "rect", "scaleNative", "scale", "capCount", "capInterval", "label"}
<1>15. IsOp(Common(f)) /\ ks \subseteq OpFields
  BY CommonDecoded DEF OpFields
<1>. DEFINE native == f.scale = Name("native")
            held == IF native THEN 0 ELSE f.scale.n
            r == IF "rect" \in DOMAIN f THEN <<ToRect(f.rect)>> ELSE <<>>
<1>n1. native = o.scaleNative
  BY <1>13, Zenon
<1>n2. native \/ held = o.scale
  <2>1. CASE native
    BY <2>1
  <2>2. CASE ~native
    <3>1. held = f.scale.n
      BY <2>2, Zenon
    <3>2. f.scale.n = o.scale
      BY <1>13, <2>2, Zenon
    <3>. QED
      BY <3>1, <3>2, Zenon
  <2>. QED
    BY <2>1, <2>2
<1>n3. r = o.rect
  BY <1>12
<1>16. d = [Common(f) EXCEPT !.frame = f.frame, !.disp = Get(f, "display", 0), !.rect = r,
                             !.scaleNative = native, !.scale = held,
                             !.capCount = f.count, !.capInterval = f.interval_ms, !.label = f.label]
  BY <1>14, Zenon DEF DecodeCapture
<1>. HIDE DEF native, held, r
<1>17. /\ IsOp(d) /\ d.frame = o.frame /\ d.disp = o.disp /\ d.rect = o.rect
       /\ d.scaleNative = native /\ d.scale = held
       /\ d.capCount = o.capCount /\ d.capInterval = o.capInterval /\ d.label = o.label
       /\ \A x \in OpFields \ ks : d[x] = Common(f)[x]
  BY <1>9, <1>10, <1>11, <1>n3, <1>15, <1>16, ZenonT(60) DEF IsOp
<1>. HIDE DEF d
<1>18. FieldsOf(o.kind) = ks
  BY DEF FieldsOf
<1>19. d.scaleNative \/ d.scale = o.scale
  BY <1>17, <1>n2, Zenon
<1>20. \A x \in FieldsOf(o.kind) \ {"scale"} : d[x] = o[x]
  <2>1. d.scaleNative = o.scaleNative
    BY <1>17, <1>n1, Zenon
  <2>. QED
    BY <1>17, <1>18, <2>1
<1>21. \A x \in OpFields \ (FieldsOf(o.kind) \cup {"hasPoint"}) : d[x] = Common(f)[x]
  BY <1>17, <1>18
<1>22. (d.hasPoint /\ o.kind # "move") = (o.hasPoint /\ o.kind # "move")
  <2>0. \A x \in OpFields \ (CommonFields \cup {"src"}) : Common(f)[x] = ZeroOp[x]
    BY CommonDecoded
  <2>1. "hasPoint" \in OpFields \ ks /\ "hasPoint" \in OpFields \ (CommonFields \cup {"src"})
    BY DEF OpFields, CommonFields
  <2>2. d.hasPoint = FALSE
    BY <1>17, <2>0, <2>1, ZeroValues
  <2>3. ~o.hasPoint
    BY Zenon DEF Shaped
  <2>. QED
    BY <2>2, <2>3, Zenon
<1>. QED
  BY <1>7, <1>17, <1>19, <1>20, <1>21, <1>22, OddOp DEF b, d, f

\* The kinds of operations.
Kinds ==
  {"key", "key_down", "key_up", "text", "move", "click", "button_down", "button_up", "drag", "scroll", "clipboard",
   "paste", "query_clipboard", "read_clipboard", "focus", "query_windows", "open", "exec", "capture", "sleep", "set",
   "query_info", "query_displays", "query_mouse"}

\* Encoder and decoder list the fields of each kind of operation separately; here, that the
\* decoder inverts the encoder: an operation of the shape that the parser builds is what
\* comes back from its object, in every field that the engine reads of its kind.
THEOREM RoundTrip ==
  ASSUME NEW o, Shaped(o), o.kind \in Kinds
  PROVE  Carried(DecodeOp(OpNode(o))) = Carried(o)
<1>1. CASE o.kind \in {"key", "key_down", "key_up", "text", "clipboard", "paste", "query_clipboard", "read_clipboard"}
  BY <1>1, KeyTrip, KeyDownTrip, KeyUpTrip, TextTrip, ClipboardTrip, PasteTrip, QueryClipboardTrip, ReadClipboardTrip
<1>2. CASE o.kind \in {"move", "click", "button_down", "button_up", "drag", "scroll"}
  BY <1>2, MoveTrip, ClickTrip, ButtonDownTrip, ButtonUpTrip, DragTrip, ScrollTrip
<1>3. CASE o.kind \in {"focus", "query_windows", "open", "exec", "capture", "sleep", "set",
                       "query_info", "query_displays", "query_mouse"}
  BY <1>3, FocusTrip, WindowsTrip, OpenTrip, ExecTrip, CaptureTrip, SleepTrip, SetTrip, QueryTrip
<1>. QED
  BY <1>1, <1>2, <1>3 DEF Kinds

-----------------------------------------------------------------------------
(* What buildOp makes of a line.                                           *)

\* The modifiers of a line, parsed.
MS(l) == ModSet(Commands[l.cmd], l.mods)

\* The commands.
LEMMA CommandNames == DOMAIN Commands =
  {"k", "kd", "ku", "txt", "m", "c", "md", "mu", "drag", "scroll", "clip", "paste", "qclip", "rclip",
   "win", "qwin", "open", "exec", "cap", "sleep", "set", "qinfo", "qdisp", "qmouse"}
  BY DEF Commands

\* What the command table says of the keys each command takes and how it is built.
LEMMA CommandRows ==
  /\ Commands["k"].kind = "key" /\ Commands["k"].payload = "keys" /\ Commands["k"].kv = {"n", "ms", "d"}
  /\ Commands["kd"].kind = "key_down" /\ Commands["kd"].payload = "keys" /\ Commands["kd"].kv = {"d"}
  /\ Commands["ku"].kind = "key_up" /\ Commands["ku"].payload = "keys" /\ Commands["ku"].kv = {"d"}
  /\ Commands["txt"].kind = "text" /\ Commands["txt"].payload = "text" /\ Commands["txt"].kv = {"ms", "d"}
  /\ Commands["m"].kind = "move" /\ Commands["m"].payload = "point" /\ Commands["m"].kv = {"ms", "disp", "d"}
  /\ Commands["c"].kind = "click" /\ Commands["c"].payload = "opt_point" /\ Commands["c"].kv = {"b", "n", "ms", "disp", "d"}
  /\ Commands["md"].kind = "button_down" /\ Commands["md"].payload = "opt_point" /\ Commands["md"].kv = {"b", "disp", "d"}
  /\ Commands["mu"].kind = "button_up" /\ Commands["mu"].payload = "none" /\ Commands["mu"].kv = {"b", "d"}
  /\ Commands["drag"].kind = "drag" /\ Commands["drag"].payload = "points" /\ Commands["drag"].kv = {"b", "ms", "steps", "disp", "d"}
  /\ Commands["scroll"].kind = "scroll" /\ Commands["scroll"].payload = "scroll" /\ Commands["scroll"].kv = {"by", "d"}
  /\ Commands["clip"].kind = "clipboard" /\ Commands["clip"].payload = "text" /\ Commands["clip"].kv = {"d"}
  /\ Commands["paste"].kind = "paste" /\ Commands["paste"].payload = "text" /\ Commands["paste"].kv = {"ms", "d"}
  /\ Commands["qclip"].kind = "query_clipboard" /\ Commands["qclip"].payload = "qclip" /\ Commands["qclip"].kv = {"d"}
  /\ Commands["rclip"].kind = "read_clipboard" /\ Commands["rclip"].payload = "rclip" /\ Commands["rclip"].kv = {"d"}
  /\ Commands["win"].kind = "focus" /\ Commands["win"].payload = "selector" /\ Commands["win"].kv = {"wait", "d"}
  /\ Commands["qwin"].kind = "query_windows" /\ Commands["qwin"].payload = "opt_selector" /\ Commands["qwin"].kv = {"d"}
  /\ Commands["open"].kind = "open" /\ Commands["open"].payload = "target" /\ Commands["open"].kv = {"wait", "d"}
  /\ Commands["exec"].kind = "exec" /\ Commands["exec"].payload = "exec" /\ Commands["exec"].kv = {"timeout", "d"}
  /\ Commands["cap"].kind = "capture" /\ Commands["cap"].payload = "cap" /\ Commands["cap"].kv = {"disp", "rect", "scale", "n", "ms", "label", "d"}
  /\ Commands["sleep"].kind = "sleep" /\ Commands["sleep"].payload = "sleep" /\ Commands["sleep"].kv = {"d"}
  /\ Commands["set"].kind = "set" /\ Commands["set"].payload = "none" /\ Commands["set"].kv = {"delay", "txtms", "keyms", "d"}
  /\ Commands["qinfo"].kind = "query_info" /\ Commands["qinfo"].payload = "none" /\ Commands["qinfo"].kv = {"d"}
  /\ Commands["qdisp"].kind = "query_displays" /\ Commands["qdisp"].payload = "none" /\ Commands["qdisp"].kv = {"d"}
  /\ Commands["qmouse"].kind = "query_mouse" /\ Commands["qmouse"].payload = "none" /\ Commands["qmouse"].kv = {"d"}
<1>1. /\ Commands["k"].kind = "key" /\ Commands["k"].payload = "keys" /\ Commands["k"].kv = {"n", "ms", "d"}
      /\ Commands["kd"].kind = "key_down" /\ Commands["kd"].payload = "keys" /\ Commands["kd"].kv = {"d"}
      /\ Commands["ku"].kind = "key_up" /\ Commands["ku"].payload = "keys" /\ Commands["ku"].kv = {"d"}
      /\ Commands["txt"].kind = "text" /\ Commands["txt"].payload = "text" /\ Commands["txt"].kv = {"ms", "d"}
      /\ Commands["m"].kind = "move" /\ Commands["m"].payload = "point" /\ Commands["m"].kv = {"ms", "disp", "d"}
      /\ Commands["c"].kind = "click" /\ Commands["c"].payload = "opt_point" /\ Commands["c"].kv = {"b", "n", "ms", "disp", "d"}
  BY DEF Commands, Command
<1>2. /\ Commands["md"].kind = "button_down" /\ Commands["md"].payload = "opt_point" /\ Commands["md"].kv = {"b", "disp", "d"}
      /\ Commands["mu"].kind = "button_up" /\ Commands["mu"].payload = "none" /\ Commands["mu"].kv = {"b", "d"}
      /\ Commands["drag"].kind = "drag" /\ Commands["drag"].payload = "points" /\ Commands["drag"].kv = {"b", "ms", "steps", "disp", "d"}
      /\ Commands["scroll"].kind = "scroll" /\ Commands["scroll"].payload = "scroll" /\ Commands["scroll"].kv = {"by", "d"}
      /\ Commands["clip"].kind = "clipboard" /\ Commands["clip"].payload = "text" /\ Commands["clip"].kv = {"d"}
      /\ Commands["paste"].kind = "paste" /\ Commands["paste"].payload = "text" /\ Commands["paste"].kv = {"ms", "d"}
  BY DEF Commands, Command
<1>3. /\ Commands["qclip"].kind = "query_clipboard" /\ Commands["qclip"].payload = "qclip" /\ Commands["qclip"].kv = {"d"}
      /\ Commands["rclip"].kind = "read_clipboard" /\ Commands["rclip"].payload = "rclip" /\ Commands["rclip"].kv = {"d"}
      /\ Commands["win"].kind = "focus" /\ Commands["win"].payload = "selector" /\ Commands["win"].kv = {"wait", "d"}
      /\ Commands["qwin"].kind = "query_windows" /\ Commands["qwin"].payload = "opt_selector" /\ Commands["qwin"].kv = {"d"}
      /\ Commands["open"].kind = "open" /\ Commands["open"].payload = "target" /\ Commands["open"].kv = {"wait", "d"}
      /\ Commands["exec"].kind = "exec" /\ Commands["exec"].payload = "exec" /\ Commands["exec"].kv = {"timeout", "d"}
  BY DEF Commands, Command
<1>4. /\ Commands["cap"].kind = "capture" /\ Commands["cap"].payload = "cap" /\ Commands["cap"].kv = {"disp", "rect", "scale", "n", "ms", "label", "d"}
      /\ Commands["sleep"].kind = "sleep" /\ Commands["sleep"].payload = "sleep" /\ Commands["sleep"].kv = {"d"}
      /\ Commands["set"].kind = "set" /\ Commands["set"].payload = "none" /\ Commands["set"].kv = {"delay", "txtms", "keyms", "d"}
      /\ Commands["qinfo"].kind = "query_info" /\ Commands["qinfo"].payload = "none" /\ Commands["qinfo"].kv = {"d"}
      /\ Commands["qdisp"].kind = "query_displays" /\ Commands["qdisp"].payload = "none" /\ Commands["qdisp"].kv = {"d"}
      /\ Commands["qmouse"].kind = "query_mouse" /\ Commands["qmouse"].payload = "none" /\ Commands["qmouse"].kv = {"d"}
  BY DEF Commands, Command
<1>. QED
  BY <1>1, <1>2, <1>3, <1>4

\* What BuildOp starts from.
Bare(big, i, l) ==
  [ZeroOp EXCEPT !.line = i, !.src = <<l>>, !.kind = Commands[l.cmd].kind, !.delay = OptDur(big, MS(l), "d")]

\* An operation with the line, the source, the kind and the delay of its line.
IsBare(o, big, i, l) ==
  /\ IsOp(o) /\ o.line = i /\ o.src = <<l>> /\ o.kind = Commands[l.cmd].kind /\ o.delay = OptDur(big, MS(l), "d")

\* One whose builder has set no other fields than ks.
OnlyThese(o, big, i, l, ks) ==
  /\ IsBare(o, big, i, l)
  /\ \A x \in OpFields \ (CommonFields \cup {"src"} \cup ks) : o[x] = ZeroOp[x]

\* The operation before its payload is looked at has its line, its kind and its delay.
LEMMA BareFields ==
  ASSUME NEW big, NEW i, NEW l
  PROVE  /\ IsBare(Bare(big, i, l), big, i, l)
         /\ \A x \in OpFields \ (CommonFields \cup {"src"}) : Bare(big, i, l)[x] = ZeroOp[x]
<1>1. IsOp(ZeroOp) /\ {"line", "src", "kind", "delay"} \subseteq OpFields
  BY ZeroIsOp DEF OpFields
<1>. QED
  BY <1>1, ZenonT(60) DEF Bare, IsBare, IsOp, CommonFields

\* What finishNone sets.
LEMMA NoneOnly ==
  ASSUME NEW big, NEW i, NEW l, Commands[l.cmd].payload = "none"
  PROVE  OnlyThese(BuildOp(big, i, l), big, i, l, {"button", "setDelay", "setTxtms", "setKeyms"})
<1>. DEFINE b == Bare(big, i, l)
            o == BuildOp(big, i, l)
<1>1. IsBare(b, big, i, l) /\ \A x \in OpFields \ (CommonFields \cup {"src"}) : b[x] = ZeroOp[x]
  BY BareFields
<1>2. {"button", "setDelay", "setTxtms", "setKeyms"} \subseteq OpFields \ (CommonFields \cup {"src"}) /\ CommonFields \cup {"src"} \subseteq OpFields
  BY DEF OpFields, CommonFields
<1>3. o = [b EXCEPT !.button = IF Commands[l.cmd].kind = "button_up" THEN NameVal(MS(l), "b", "left") ELSE "",
                       !.setDelay = OptDur(big, MS(l), "delay"),
                       !.setTxtms = OptDur(big, MS(l), "txtms"),
                       !.setKeyms = OptDur(big, MS(l), "keyms")]
  BY SMTT(30) DEF BuildOp, Bare, MS, IsBare, FinishNone
<1>. HIDE DEF b, o
<1>4. IsOp(o) /\ \A x \in OpFields \ {"button", "setDelay", "setTxtms", "setKeyms"} : o[x] = b[x]
  BY <1>1, <1>2, <1>3, ZenonT(60) DEF IsOp, IsBare
<1>5. IsBare(o, big, i, l)
  BY <1>1, <1>2, <1>4 DEF IsBare, CommonFields
<1>6. \A x \in OpFields \ (CommonFields \cup {"src"} \cup {"button", "setDelay", "setTxtms", "setKeyms"}) : o[x] = ZeroOp[x]
  BY <1>1, <1>4
<1>. QED
  BY <1>5, <1>6 DEF OnlyThese, o

\* What buildKeys sets.
LEMMA KeysOnly ==
  ASSUME NEW big, NEW i, NEW l, Commands[l.cmd].payload = "keys"
  PROVE  OnlyThese(BuildOp(big, i, l), big, i, l, {"keys", "mods", "repeat", "gap"})
<1>. DEFINE b == Bare(big, i, l)
            o == BuildOp(big, i, l)
<1>1. IsBare(b, big, i, l) /\ \A x \in OpFields \ (CommonFields \cup {"src"}) : b[x] = ZeroOp[x]
  BY BareFields
<1>2. {"keys", "mods", "repeat", "gap"} \subseteq OpFields \ (CommonFields \cup {"src"}) /\ CommonFields \cup {"src"} \subseteq OpFields
  BY DEF OpFields, CommonFields
<1>3. o = [b EXCEPT !.keys = Chords(Commands[l.cmd].kind, l),
                       !.mods = IF Commands[l.cmd].kind = "key" THEN OrderedMods(MS(l)) ELSE <<>>,
                       !.repeat = IF Commands[l.cmd].kind = "key" THEN IntVal(MS(l), "n", 1) ELSE 0,
                       !.gap = IF Commands[l.cmd].kind = "key" THEN DurVal(big, MS(l), "ms", 30) ELSE 0]
  BY SMTT(30) DEF BuildOp, Bare, MS, IsBare, BuildKeys
<1>. HIDE DEF b, o
<1>4. IsOp(o) /\ \A x \in OpFields \ {"keys", "mods", "repeat", "gap"} : o[x] = b[x]
  BY <1>1, <1>2, <1>3, ZenonT(60) DEF IsOp, IsBare
<1>5. IsBare(o, big, i, l)
  BY <1>1, <1>2, <1>4 DEF IsBare, CommonFields
<1>6. \A x \in OpFields \ (CommonFields \cup {"src"} \cup {"keys", "mods", "repeat", "gap"}) : o[x] = ZeroOp[x]
  BY <1>1, <1>4
<1>. QED
  BY <1>5, <1>6 DEF OnlyThese, o

\* What buildText sets.
LEMMA TextOnly ==
  ASSUME NEW big, NEW i, NEW l, Commands[l.cmd].payload = "text"
  PROVE  OnlyThese(BuildOp(big, i, l), big, i, l, {"fromFile", "hasText", "filePath", "text", "interval"})
<1>. DEFINE b == Bare(big, i, l)
            o == BuildOp(big, i, l)
<1>1. IsBare(b, big, i, l) /\ \A x \in OpFields \ (CommonFields \cup {"src"}) : b[x] = ZeroOp[x]
  BY BareFields
<1>2. {"fromFile", "hasText", "filePath", "text", "interval"} \subseteq OpFields \ (CommonFields \cup {"src"}) /\ CommonFields \cup {"src"} \subseteq OpFields
  BY DEF OpFields, CommonFields
<1>3. o = [b EXCEPT !.fromFile = "f" \in MS(l).flags,
                       !.hasText = ~("f" \in MS(l).flags),
                       !.filePath = IF "f" \in MS(l).flags THEN PathOf(l) ELSE "",
                       !.text = IF "f" \in MS(l).flags THEN <<>> ELSE ApplyEscapes(l.chars).out,
                       !.interval = IF Commands[l.cmd].kind = "clipboard" THEN 0 ELSE DurVal(big, MS(l), "ms", IF Commands[l.cmd].kind = "paste" THEN 50 ELSE 0)]
  BY SMTT(30) DEF BuildOp, Bare, MS, IsBare, BuildText
<1>. HIDE DEF b, o
<1>4. IsOp(o) /\ \A x \in OpFields \ {"fromFile", "hasText", "filePath", "text", "interval"} : o[x] = b[x]
  BY <1>1, <1>2, <1>3, ZenonT(60) DEF IsOp, IsBare
<1>5. IsBare(o, big, i, l)
  BY <1>1, <1>2, <1>4 DEF IsBare, CommonFields
<1>6. \A x \in OpFields \ (CommonFields \cup {"src"} \cup {"fromFile", "hasText", "filePath", "text", "interval"}) : o[x] = ZeroOp[x]
  BY <1>1, <1>4
<1>. QED
  BY <1>5, <1>6 DEF OnlyThese, o

\* What buildScroll sets.
LEMMA ScrollOnly ==
  ASSUME NEW big, NEW i, NEW l, Commands[l.cmd].payload = "scroll"
  PROVE  OnlyThese(BuildOp(big, i, l), big, i, l, {"scrollDir", "ticks", "scrollBy"})
<1>. DEFINE b == Bare(big, i, l)
            o == BuildOp(big, i, l)
<1>1. IsBare(b, big, i, l) /\ \A x \in OpFields \ (CommonFields \cup {"src"}) : b[x] = ZeroOp[x]
  BY BareFields
<1>2. {"scrollDir", "ticks", "scrollBy"} \subseteq OpFields \ (CommonFields \cup {"src"}) /\ CommonFields \cup {"src"} \subseteq OpFields
  BY DEF OpFields, CommonFields
<1>3. o = [b EXCEPT !.scrollDir = Whole(l.words[1]).s,
                       !.ticks = IF Len(l.words) = 2 THEN Whole(l.words[2]).n ELSE 3,
                       !.scrollBy = NameVal(MS(l), "by", "line")]
  BY SMTT(30) DEF BuildOp, Bare, MS, IsBare, BuildScroll
<1>. HIDE DEF b, o
<1>4. IsOp(o) /\ \A x \in OpFields \ {"scrollDir", "ticks", "scrollBy"} : o[x] = b[x]
  BY <1>1, <1>2, <1>3, ZenonT(60) DEF IsOp, IsBare
<1>5. IsBare(o, big, i, l)
  BY <1>1, <1>2, <1>4 DEF IsBare, CommonFields
<1>6. \A x \in OpFields \ (CommonFields \cup {"src"} \cup {"scrollDir", "ticks", "scrollBy"}) : o[x] = ZeroOp[x]
  BY <1>1, <1>4
<1>. QED
  BY <1>5, <1>6 DEF OnlyThese, o

\* What buildExec sets.
LEMMA ExecOnly ==
  ASSUME NEW big, NEW i, NEW l, Commands[l.cmd].payload = "exec"
  PROVE  OnlyThese(BuildOp(big, i, l), big, i, l, {"shell", "noerr", "cmd", "argv", "timeout"})
<1>. DEFINE b == Bare(big, i, l)
            o == BuildOp(big, i, l)
            tm == DurVal(big, MS(l), "timeout", 10000)
<1>1. IsBare(b, big, i, l) /\ \A x \in OpFields \ (CommonFields \cup {"src"}) : b[x] = ZeroOp[x]
  BY BareFields
<1>2. {"shell", "noerr", "cmd", "argv", "timeout"} \subseteq OpFields \ (CommonFields \cup {"src"}) /\ CommonFields \cup {"src"} \subseteq OpFields
  BY DEF OpFields, CommonFields
<1>3. o = [b EXCEPT !.shell = Shell \in MS(l).words,
                       !.noerr = Noerr \in MS(l).words,
                       !.cmd = IF Shell \in MS(l).words THEN Trim(l.chars) ELSE <<>>,
                       !.argv = IF Shell \in MS(l).words THEN <<>> ELSE SplitArgv(Trim(l.chars)).argv,
                       !.timeout = tm]
  BY SMTT(30) DEF BuildOp, Bare, MS, IsBare, BuildExec
<1>. HIDE DEF b, o, tm
<1>4. IsOp(o) /\ \A x \in OpFields \ {"shell", "noerr", "cmd", "argv", "timeout"} : o[x] = b[x]
  BY <1>1, <1>2, <1>3, ZenonT(60) DEF IsOp, IsBare
<1>5. IsBare(o, big, i, l)
  BY <1>1, <1>2, <1>4 DEF IsBare, CommonFields
<1>6. \A x \in OpFields \ (CommonFields \cup {"src"} \cup {"shell", "noerr", "cmd", "argv", "timeout"}) : o[x] = ZeroOp[x]
  BY <1>1, <1>4
<1>. QED
  BY <1>5, <1>6 DEF OnlyThese, o

\* What buildCap sets.
LEMMA CapOnly ==
  ASSUME NEW big, NEW i, NEW l, Commands[l.cmd].payload = "cap"
  PROVE  OnlyThese(BuildOp(big, i, l), big, i, l, {"frame", "disp", "filePath", "rect", "scaleNative", "scale", "label", "capCount", "capInterval"})
<1>. DEFINE b == Bare(big, i, l)
            o == BuildOp(big, i, l)
<1>1. IsBare(b, big, i, l) /\ \A x \in OpFields \ (CommonFields \cup {"src"}) : b[x] = ZeroOp[x]
  BY BareFields
<1>2. {"frame", "disp", "filePath", "rect", "scaleNative", "scale", "label", "capCount", "capInterval"} \subseteq OpFields \ (CommonFields \cup {"src"}) /\ CommonFields \cup {"src"} \subseteq OpFields
  BY DEF OpFields, CommonFields
<1>3. o = [b EXCEPT !.frame = Frame(MS(l)),
                       !.disp = IntVal(MS(l), "disp", 0),
                       !.filePath = PathOf(l),
                       !.rect = IF Has(MS(l), "rect") THEN <<ParseRect(MS(l).kvs["rect"])>> ELSE <<>>,
                       !.scaleNative = NameVal(MS(l), "scale", "") = "native",
                       !.scale = IF NameVal(MS(l), "scale", "") = "native" THEN 1 ELSE IntVal(MS(l), "scale", 1),
                       !.label = IF Has(MS(l), "label") THEN Whole(MS(l).kvs["label"]) ELSE Name("cap"),
                       !.capCount = IntVal(MS(l), "n", 1),
                       !.capInterval = DurVal(big, MS(l), "ms", 100)]
  BY SMTT(30) DEF BuildOp, Bare, MS, IsBare, BuildCap
<1>. HIDE DEF b, o
<1>4. IsOp(o) /\ \A x \in OpFields \ {"frame", "disp", "filePath", "rect", "scaleNative", "scale", "label", "capCount", "capInterval"} : o[x] = b[x]
  BY <1>1, <1>2, <1>3, ZenonT(60) DEF IsOp, IsBare
<1>5. IsBare(o, big, i, l)
  BY <1>1, <1>2, <1>4 DEF IsBare, CommonFields
<1>6. \A x \in OpFields \ (CommonFields \cup {"src"} \cup {"frame", "disp", "filePath", "rect", "scaleNative", "scale", "label", "capCount", "capInterval"}) : o[x] = ZeroOp[x]
  BY <1>1, <1>4
<1>. QED
  BY <1>5, <1>6 DEF OnlyThese, o

\* What is set of qclip.
LEMMA QueryClipOnly ==
  ASSUME NEW big, NEW i, NEW l, Commands[l.cmd].payload = "qclip"
  PROVE  OnlyThese(BuildOp(big, i, l), big, i, l, {"fromFile", "filePath"})
<1>. DEFINE b == Bare(big, i, l)
            o == BuildOp(big, i, l)
<1>1. IsBare(b, big, i, l) /\ \A x \in OpFields \ (CommonFields \cup {"src"}) : b[x] = ZeroOp[x]
  BY BareFields
<1>2. {"fromFile", "filePath"} \subseteq OpFields \ (CommonFields \cup {"src"}) /\ CommonFields \cup {"src"} \subseteq OpFields
  BY DEF OpFields, CommonFields
<1>3. o = [b EXCEPT !.fromFile = "f" \in MS(l).flags,
                       !.filePath = IF "f" \in MS(l).flags THEN PathOf(l) ELSE ""]
  BY SMTT(30) DEF BuildOp, Bare, MS
<1>. HIDE DEF b, o
<1>4. IsOp(o) /\ \A x \in OpFields \ {"fromFile", "filePath"} : o[x] = b[x]
  BY <1>1, <1>2, <1>3, ZenonT(60) DEF IsOp, IsBare
<1>5. IsBare(o, big, i, l)
  BY <1>1, <1>2, <1>4 DEF IsBare, CommonFields
<1>6. \A x \in OpFields \ (CommonFields \cup {"src"} \cup {"fromFile", "filePath"}) : o[x] = ZeroOp[x]
  BY <1>1, <1>4
<1>. QED
  BY <1>5, <1>6 DEF OnlyThese, o

\* What is set of rclip.
LEMMA ReadClipOnly ==
  ASSUME NEW big, NEW i, NEW l, Commands[l.cmd].payload = "rclip"
  PROVE  OnlyThese(BuildOp(big, i, l), big, i, l, {"path", "rclipType"})
<1>. DEFINE b == Bare(big, i, l)
            o == BuildOp(big, i, l)
<1>1. IsBare(b, big, i, l) /\ \A x \in OpFields \ (CommonFields \cup {"src"}) : b[x] = ZeroOp[x]
  BY BareFields
<1>2. {"path", "rclipType"} \subseteq OpFields \ (CommonFields \cup {"src"}) /\ CommonFields \cup {"src"} \subseteq OpFields
  BY DEF OpFields, CommonFields
<1>3. o = [b EXCEPT !.path = PathOf(l),
                       !.rclipType = IF Img \in MS(l).words THEN "image" ELSE IF Txt \in MS(l).words THEN "text" ELSE "auto"]
  BY SMTT(30) DEF BuildOp, Bare, MS
<1>. HIDE DEF b, o
<1>4. IsOp(o) /\ \A x \in OpFields \ {"path", "rclipType"} : o[x] = b[x]
  BY <1>1, <1>2, <1>3, ZenonT(60) DEF IsOp, IsBare
<1>5. IsBare(o, big, i, l)
  BY <1>1, <1>2, <1>4 DEF IsBare, CommonFields
<1>6. \A x \in OpFields \ (CommonFields \cup {"src"} \cup {"path", "rclipType"}) : o[x] = ZeroOp[x]
  BY <1>1, <1>4
<1>. QED
  BY <1>5, <1>6 DEF OnlyThese, o

\* What is set of m.
LEMMA PointOnly ==
  ASSUME NEW big, NEW i, NEW l, Commands[l.cmd].payload = "point"
  PROVE  OnlyThese(BuildOp(big, i, l), big, i, l, {"point", "hasPoint", "duration"})
<1>. DEFINE b == Bare(big, i, l)
            o == BuildOp(big, i, l)
<1>1. IsBare(b, big, i, l) /\ \A x \in OpFields \ (CommonFields \cup {"src"}) : b[x] = ZeroOp[x]
  BY BareFields
<1>2. {"point", "hasPoint", "duration"} \subseteq OpFields \ (CommonFields \cup {"src"}) /\ CommonFields \cup {"src"} \subseteq OpFields
  BY DEF OpFields, CommonFields
<1>3. o = [b EXCEPT !.point = ParsePoint(Payload(l), MS(l)),
                       !.hasPoint = TRUE,
                       !.duration = DurVal(big, MS(l), "ms", 0)]
  BY SMTT(30) DEF BuildOp, Bare, MS
<1>. HIDE DEF b, o
<1>4. IsOp(o) /\ \A x \in OpFields \ {"point", "hasPoint", "duration"} : o[x] = b[x]
  BY <1>1, <1>2, <1>3, ZenonT(60) DEF IsOp, IsBare
<1>5. IsBare(o, big, i, l)
  BY <1>1, <1>2, <1>4 DEF IsBare, CommonFields
<1>6. \A x \in OpFields \ (CommonFields \cup {"src"} \cup {"point", "hasPoint", "duration"}) : o[x] = ZeroOp[x]
  BY <1>1, <1>4
<1>. QED
  BY <1>5, <1>6 DEF OnlyThese, o

\* What is set of c and md.
LEMMA OptPointOnly ==
  ASSUME NEW big, NEW i, NEW l, Commands[l.cmd].payload = "opt_point"
  PROVE  OnlyThese(BuildOp(big, i, l), big, i, l, {"point", "hasPoint", "button", "mods", "count", "gap"})
<1>. DEFINE b == Bare(big, i, l)
            o == BuildOp(big, i, l)
<1>1. IsBare(b, big, i, l) /\ \A x \in OpFields \ (CommonFields \cup {"src"}) : b[x] = ZeroOp[x]
  BY BareFields
<1>2. {"point", "hasPoint", "button", "mods", "count", "gap"} \subseteq OpFields \ (CommonFields \cup {"src"}) /\ CommonFields \cup {"src"} \subseteq OpFields
  BY DEF OpFields, CommonFields
<1>3. o = [b EXCEPT !.point = IF l.words = <<>> THEN NoPoint ELSE ParsePoint(Payload(l), MS(l)),
                       !.hasPoint = ~(l.words = <<>>),
                       !.button = NameVal(MS(l), "b", "left"),
                       !.mods = OrderedMods(MS(l)),
                       !.count = IF Commands[l.cmd].kind = "click" THEN IntVal(MS(l), "n", 1) ELSE 0,
                       !.gap = IF Commands[l.cmd].kind = "click" THEN DurVal(big, MS(l), "ms", 60) ELSE 0]
  BY SMTT(30) DEF BuildOp, Bare, MS
<1>. HIDE DEF b, o
<1>4. IsOp(o) /\ \A x \in OpFields \ {"point", "hasPoint", "button", "mods", "count", "gap"} : o[x] = b[x]
  BY <1>1, <1>2, <1>3, ZenonT(60) DEF IsOp, IsBare
<1>5. IsBare(o, big, i, l)
  BY <1>1, <1>2, <1>4 DEF IsBare, CommonFields
<1>6. \A x \in OpFields \ (CommonFields \cup {"src"} \cup {"point", "hasPoint", "button", "mods", "count", "gap"}) : o[x] = ZeroOp[x]
  BY <1>1, <1>4
<1>. QED
  BY <1>5, <1>6 DEF OnlyThese, o

\* What is set of drag.
LEMMA PointsOnly ==
  ASSUME NEW big, NEW i, NEW l, Commands[l.cmd].payload = "points"
  PROVE  OnlyThese(BuildOp(big, i, l), big, i, l, {"points", "button", "mods", "duration", "count"})
<1>. DEFINE b == Bare(big, i, l)
            o == BuildOp(big, i, l)
<1>1. IsBare(b, big, i, l) /\ \A x \in OpFields \ (CommonFields \cup {"src"}) : b[x] = ZeroOp[x]
  BY BareFields
<1>2. {"points", "button", "mods", "duration", "count"} \subseteq OpFields \ (CommonFields \cup {"src"}) /\ CommonFields \cup {"src"} \subseteq OpFields
  BY DEF OpFields, CommonFields
<1>3. o = [b EXCEPT !.points = [j \in DOMAIN l.words |-> ParsePoint(l.words[j], MS(l))],
                       !.button = NameVal(MS(l), "b", "left"),
                       !.mods = OrderedMods(MS(l)),
                       !.duration = DurVal(big, MS(l), "ms", 500),
                       !.count = IntVal(MS(l), "steps", 20)]
  BY SMTT(30) DEF BuildOp, Bare, MS
<1>. HIDE DEF b, o
<1>4. IsOp(o) /\ \A x \in OpFields \ {"points", "button", "mods", "duration", "count"} : o[x] = b[x]
  BY <1>1, <1>2, <1>3, ZenonT(60) DEF IsOp, IsBare
<1>5. IsBare(o, big, i, l)
  BY <1>1, <1>2, <1>4 DEF IsBare, CommonFields
<1>6. \A x \in OpFields \ (CommonFields \cup {"src"} \cup {"points", "button", "mods", "duration", "count"}) : o[x] = ZeroOp[x]
  BY <1>1, <1>4
<1>. QED
  BY <1>5, <1>6 DEF OnlyThese, o

\* What is set of win and qwin.
LEMMA SelectorOnly ==
  ASSUME NEW big, NEW i, NEW l, Commands[l.cmd].payload \in {"selector", "opt_selector"}
  PROVE  OnlyThese(BuildOp(big, i, l), big, i, l, {"selector", "wait", "hasWait"})
<1>. DEFINE b == Bare(big, i, l)
            o == BuildOp(big, i, l)
<1>1. IsBare(b, big, i, l) /\ \A x \in OpFields \ (CommonFields \cup {"src"}) : b[x] = ZeroOp[x]
  BY BareFields
<1>2. {"selector", "wait", "hasWait"} \subseteq OpFields \ (CommonFields \cup {"src"}) /\ CommonFields \cup {"src"} \subseteq OpFields
  BY DEF OpFields, CommonFields
<1>3. o = [b EXCEPT !.selector = IF l.words = <<>> THEN [kind |-> "title", value |-> Name(""), regex |-> "r" \in MS(l).flags] ELSE ParseSelector(Payload(l), "r" \in MS(l).flags),
                       !.wait = DurVal(big, MS(l), "wait", 0),
                       !.hasWait = Has(MS(l), "wait")]
  BY SMTT(30) DEF BuildOp, Bare, MS
<1>. HIDE DEF b, o
<1>4. IsOp(o) /\ \A x \in OpFields \ {"selector", "wait", "hasWait"} : o[x] = b[x]
  BY <1>1, <1>2, <1>3, ZenonT(60) DEF IsOp, IsBare
<1>5. IsBare(o, big, i, l)
  BY <1>1, <1>2, <1>4 DEF IsBare, CommonFields
<1>6. \A x \in OpFields \ (CommonFields \cup {"src"} \cup {"selector", "wait", "hasWait"}) : o[x] = ZeroOp[x]
  BY <1>1, <1>4
<1>. QED
  BY <1>5, <1>6 DEF OnlyThese, o

\* What is set of open.
LEMMA TargetOnly ==
  ASSUME NEW big, NEW i, NEW l, Commands[l.cmd].payload = "target"
  PROVE  OnlyThese(BuildOp(big, i, l), big, i, l, {"target", "wait", "hasWait"})
<1>. DEFINE b == Bare(big, i, l)
            o == BuildOp(big, i, l)
<1>1. IsBare(b, big, i, l) /\ \A x \in OpFields \ (CommonFields \cup {"src"}) : b[x] = ZeroOp[x]
  BY BareFields
<1>2. {"target", "wait", "hasWait"} \subseteq OpFields \ (CommonFields \cup {"src"}) /\ CommonFields \cup {"src"} \subseteq OpFields
  BY DEF OpFields, CommonFields
<1>3. o = [b EXCEPT !.target = PathOf(l),
                       !.wait = DurVal(big, MS(l), "wait", 0),
                       !.hasWait = Has(MS(l), "wait")]
  BY SMTT(30) DEF BuildOp, Bare, MS
<1>. HIDE DEF b, o
<1>4. IsOp(o) /\ \A x \in OpFields \ {"target", "wait", "hasWait"} : o[x] = b[x]
  BY <1>1, <1>2, <1>3, ZenonT(60) DEF IsOp, IsBare
<1>5. IsBare(o, big, i, l)
  BY <1>1, <1>2, <1>4 DEF IsBare, CommonFields
<1>6. \A x \in OpFields \ (CommonFields \cup {"src"} \cup {"target", "wait", "hasWait"}) : o[x] = ZeroOp[x]
  BY <1>1, <1>4
<1>. QED
  BY <1>5, <1>6 DEF OnlyThese, o

\* What is set of sleep.
LEMMA SleepOnly ==
  ASSUME NEW big, NEW i, NEW l, Commands[l.cmd].payload = "sleep"
  PROVE  OnlyThese(BuildOp(big, i, l), big, i, l, {"sleep"})
<1>. DEFINE b == Bare(big, i, l)
            o == BuildOp(big, i, l)
<1>1. IsBare(b, big, i, l) /\ \A x \in OpFields \ (CommonFields \cup {"src"}) : b[x] = ZeroOp[x]
  BY BareFields
<1>2. {"sleep"} \subseteq OpFields \ (CommonFields \cup {"src"}) /\ CommonFields \cup {"src"} \subseteq OpFields
  BY DEF OpFields, CommonFields
<1>3. o = [b EXCEPT !.sleep = Duration(big, Whole(Payload(l)))]
  BY SMTT(30) DEF BuildOp, Bare, MS
<1>. HIDE DEF b, o
<1>4. IsOp(o) /\ \A x \in OpFields \ {"sleep"} : o[x] = b[x]
  BY <1>1, <1>2, <1>3, ZenonT(60) DEF IsOp, IsBare
<1>5. IsBare(o, big, i, l)
  BY <1>1, <1>2, <1>4 DEF IsBare, CommonFields
<1>6. \A x \in OpFields \ (CommonFields \cup {"src"} \cup {"sleep"}) : o[x] = ZeroOp[x]
  BY <1>1, <1>4
<1>. QED
  BY <1>5, <1>6 DEF OnlyThese, o

-----------------------------------------------------------------------------
(* A line that Parse takes.                                                *)

\* parseModifiers lets through only what the command's row lists.
LEMMA KnownTokens ==
  ASSUME NEW spec, NEW ts, \A i \in DOMAIN ts : ~BadToken(spec, ts, i)
  PROVE  /\ DOMAIN ModSet(spec, ts).kvs \subseteq spec.kv
         /\ ModSet(spec, ts).flags \subseteq spec.single
<1>. DEFINE kvs == {t \in ToSet(ts) : t.eq}
<1>1. DOMAIN ModSet(spec, ts).kvs = {t.key : t \in kvs}
  BY Zenon DEF ModSet
<1>2. ASSUME NEW t \in kvs PROVE t.key \in spec.kv
  <2>1. PICK i \in DOMAIN ts : ts[i] = t
    BY DEF ToSet
  <2>. QED
    BY <1>2, <2>1, Zenon DEF BadToken
<1>3. ModSet(spec, ts).flags = UNION {ToSet(t.letters) : t \in Flags(spec, ts)}
  BY DEF ModSet
<1>4. ASSUME NEW t \in Flags(spec, ts) PROVE ToSet(t.letters) \subseteq spec.single
  <2>1. t \in ToSet(ts) /\ ~t.eq /\ t.letters \notin spec.word
    BY <1>4 DEF Flags
  <2>2. PICK i \in DOMAIN ts : ts[i] = t
    BY <2>1 DEF ToSet
  <2>3. ~BadToken(spec, ts, i)
    OBVIOUS
  <2>. QED
    BY <2>1, <2>2, <2>3 DEF BadToken
<1>. QED
  BY <1>1, <1>2, <1>3, <1>4

\* What is known of a line that is not complained of.
LEMMA Parsed ==
  ASSUME NEW l, l.form = "stmt", ~Malformed(l)
  PROVE  /\ l.cmd \in DOMAIN Commands
         /\ \A i \in DOMAIN l.mods : ~BadToken(Commands[l.cmd], l.mods, i)
         /\ ~DurFails(MS(l), "d") /\ ~DurFails(MS(l), "ms")
         /\ Commands[l.cmd].frame => ~FrameFails(MS(l))
         /\ ~PayloadFails(Commands[l.cmd], l, MS(l))
         /\ DOMAIN MS(l).kvs \subseteq Commands[l.cmd].kv
         /\ MS(l).flags \subseteq Commands[l.cmd].single
<1>1. /\ l.cmd \in DOMAIN Commands
      /\ \A i \in DOMAIN l.mods : ~BadToken(Commands[l.cmd], l.mods, i)
      /\ ~DurFails(MS(l), "d") /\ ~DurFails(MS(l), "ms")
      /\ Commands[l.cmd].frame => ~FrameFails(MS(l))
      /\ ~PayloadFails(Commands[l.cmd], l, MS(l))
  BY Zenon DEF Malformed, MS
<1>. QED
  BY <1>1, KnownTokens DEF MS

\* parsePoint returns a point.
LEMMA PointShape ==
  ASSUME NEW w, NEW m
  PROVE  IsPoint(ParsePoint(w, m))
<1>. DEFINE p == ParsePoint(w, m)
            x == Cut(w, ",")[1]
            y == Cut(w, ",")[2]
            fr == Frame(m)
            disp == IntVal(m, "disp", 0)
            xp == x.unit = "%"
            yp == y.unit = "%"
<1>1. fr # "display" => disp = 0
  <2>1. Has(m, "disp") => Frame(m) = "display"
    BY DEF Frame
  <2>. QED
    BY <2>1, Zenon DEF IntVal
<1>2. p = [frame |-> fr, disp |-> disp, x |-> x.n, y |-> y.n, xPct |-> xp, yPct |-> yp]
  BY DEF ParsePoint
<1>3. xp \in BOOLEAN /\ yp \in BOOLEAN
  OBVIOUS
<1>. HIDE DEF p, x, y, fr, disp, xp, yp
<1>4. p.frame = fr /\ p.disp = disp /\ p.x = x.n /\ p.y = y.n /\ p.xPct = xp /\ p.yPct = yp
  BY <1>2, Zenon
<1>5. IsPoint(p)
  BY <1>1, <1>2, <1>3, <1>4, Zenon DEF IsPoint
<1>. QED
  BY <1>5 DEF p

\* parseRect returns a rectangle.
LEMMA RectShape ==
  ASSUME NEW w
  PROVE  IsRect(ParseRect(w))
<1>. DEFINE p == ParseRect(w)
            c == Cut(w, ":")
            xp == c[1].unit = "%"
            yp == c[2].unit = "%"
<1>2. p = [x |-> c[1].n, y |-> c[2].n, w |-> c[3].n, h |-> c[4].n, xPct |-> xp, yPct |-> yp]
  BY DEF ParseRect
<1>3. xp \in BOOLEAN /\ yp \in BOOLEAN
  OBVIOUS
<1>. HIDE DEF p, c, xp, yp
<1>4. p.x = c[1].n /\ p.y = c[2].n /\ p.w = c[3].n /\ p.h = c[4].n /\ p.xPct = xp /\ p.yPct = yp
  BY <1>2, Zenon
<1>5. IsRect(p)
  BY <1>2, <1>3, <1>4, Zenon DEF IsRect
<1>. QED
  BY <1>5 DEF p

-----------------------------------------------------------------------------

\* An operation without points, frames or a command line is shaped if its builder set its
\* own fields only.
LEMMA PlainShape ==
  ASSUME NEW o, IsOp(o), o.kind \in Kinds \ {"move", "click", "button_down", "drag", "exec", "capture"},
         \A f \in OpFields \ (CommonFields \cup NearFields \cup FieldsOf(o.kind)) : o[f] = ZeroOp[f],
         o.hasPoint = FALSE
  PROVE  Shaped(o)
<1>1. {"point", "scaleNative", "shell"} \subseteq OpFields \ (CommonFields \cup NearFields)
  BY DEF OpFields, CommonFields, NearFields
<1>2. FieldsOf(o.kind) \cap {"point", "scaleNative", "shell"} = {}
  BY DEF FieldsOf, Kinds
<1>3. o.point = NoPoint /\ o.scaleNative = FALSE /\ o.shell = FALSE
  BY <1>1, <1>2, ZeroValues
<1>. QED
  BY <1>3, ZenonT(30) DEF Shaped, Kinds

\* What buildOp makes has the fields of its kind only.
BuildsShape(big, i, l) ==
  /\ Shaped(BuildOp(big, i, l)) /\ BuildOp(big, i, l).kind \in Kinds
  /\ IsBare(BuildOp(big, i, l), big, i, l)

\* The operation of k, and the values its limits are about.
LEMMA KShape ==
  ASSUME NEW big, NEW i, NEW l, l.cmd = "k", DOMAIN MS(l).kvs \subseteq Commands[l.cmd].kv
  PROVE  /\ BuildsShape(big, i, l)
         /\ BuildOp(big, i, l).keys = Chords("key", l)
         /\ BuildOp(big, i, l).mods = OrderedMods(MS(l))
         /\ BuildOp(big, i, l).gap = DurVal(big, MS(l), "ms", 30)
<1>. DEFINE o == BuildOp(big, i, l)
            b == Bare(big, i, l)
<1>1. Commands[l.cmd].kind = "key" /\ Commands[l.cmd].payload = "keys" /\ Commands[l.cmd].kv = {"n", "ms", "d"}
  BY CommandRows
<1>2. OnlyThese(o, big, i, l, {"keys", "mods", "repeat", "gap"})
  BY <1>1, KeysOnly
<1>3. o = [b EXCEPT !.keys = Chords(Commands[l.cmd].kind, l),
                    !.mods = IF Commands[l.cmd].kind = "key" THEN OrderedMods(MS(l)) ELSE <<>>,
                    !.repeat = IF Commands[l.cmd].kind = "key" THEN IntVal(MS(l), "n", 1) ELSE 0,
                    !.gap = IF Commands[l.cmd].kind = "key" THEN DurVal(big, MS(l), "ms", 30) ELSE 0]
  BY <1>1, SMTT(30) DEF BuildOp, Bare, MS, IsBare, BuildKeys
<1>. HIDE DEF o, b
<1>4. IsOp(b) /\ {"keys", "mods", "repeat", "gap"} \subseteq OpFields
  BY BareFields DEF IsBare, OpFields, b
<1>5. /\ o.keys = Chords("key", l)
      /\ o.mods = OrderedMods(MS(l))
      /\ o.repeat = IntVal(MS(l), "n", 1)
      /\ o.gap = DurVal(big, MS(l), "ms", 30)
  BY <1>1, <1>3, <1>4, ZenonT(60) DEF IsOp
<1>6. IsOp(o) /\ o.kind = "key" /\ IsBare(o, big, i, l)
  BY <1>1, <1>2 DEF OnlyThese, IsBare
<1>7. FieldsOf("key") = {"mods", "keys", "repeat", "gap"}
  BY DEF FieldsOf
<1>8. \A f \in OpFields \ (CommonFields \cup NearFields \cup FieldsOf(o.kind)) : o[f] = ZeroOp[f]
  BY <1>2, <1>5, <1>6, <1>7, ZeroValues DEF OnlyThese, NearFields
<1>9. o.hasPoint = FALSE
  BY <1>2, ZeroValues DEF OnlyThese, OpFields, CommonFields
<1>10. o.kind \in Kinds \ {"move", "click", "button_down", "drag", "exec", "capture"}
  BY <1>6 DEF Kinds
<1>11. Shaped(o)
  BY <1>6, <1>8, <1>9, <1>10, PlainShape
<1>. QED
  BY <1>5, <1>6, <1>10, <1>11 DEF BuildsShape, o

\* The operation of kd.
LEMMA KdShape ==
  ASSUME NEW big, NEW i, NEW l, l.cmd = "kd", DOMAIN MS(l).kvs \subseteq Commands[l.cmd].kv
  PROVE  /\ BuildsShape(big, i, l)
         /\ BuildOp(big, i, l).keys = Chords("key_down", l)
<1>. DEFINE o == BuildOp(big, i, l)
            b == Bare(big, i, l)
<1>1. Commands[l.cmd].kind = "key_down" /\ Commands[l.cmd].payload = "keys" /\ Commands[l.cmd].kv = {"d"}
  BY CommandRows
<1>2. OnlyThese(o, big, i, l, {"keys", "mods", "repeat", "gap"})
  BY <1>1, KeysOnly
<1>3. o = [b EXCEPT !.keys = Chords(Commands[l.cmd].kind, l),
                    !.mods = IF Commands[l.cmd].kind = "key" THEN OrderedMods(MS(l)) ELSE <<>>,
                    !.repeat = IF Commands[l.cmd].kind = "key" THEN IntVal(MS(l), "n", 1) ELSE 0,
                    !.gap = IF Commands[l.cmd].kind = "key" THEN DurVal(big, MS(l), "ms", 30) ELSE 0]
  BY <1>1, SMTT(30) DEF BuildOp, Bare, MS, IsBare, BuildKeys
<1>. HIDE DEF o, b
<1>4. IsOp(b) /\ {"keys", "mods", "repeat", "gap"} \subseteq OpFields
  BY BareFields DEF IsBare, OpFields, b
<1>5. /\ o.keys = Chords("key_down", l)
      /\ o.mods = <<>>
      /\ o.repeat = 0
      /\ o.gap = 0
  BY <1>1, <1>3, <1>4, ZenonT(60) DEF IsOp
<1>6. IsOp(o) /\ o.kind = "key_down" /\ IsBare(o, big, i, l)
  BY <1>1, <1>2 DEF OnlyThese, IsBare
<1>7. FieldsOf("key_down") = {"keys"}
  BY DEF FieldsOf
<1>8. \A f \in OpFields \ (CommonFields \cup NearFields \cup FieldsOf(o.kind)) : o[f] = ZeroOp[f]
  BY <1>2, <1>5, <1>6, <1>7, ZeroValues DEF OnlyThese, NearFields
<1>9. o.hasPoint = FALSE
  BY <1>2, ZeroValues DEF OnlyThese, OpFields, CommonFields
<1>10. o.kind \in Kinds \ {"move", "click", "button_down", "drag", "exec", "capture"}
  BY <1>6 DEF Kinds
<1>11. Shaped(o)
  BY <1>6, <1>8, <1>9, <1>10, PlainShape
<1>. QED
  BY <1>5, <1>6, <1>10, <1>11 DEF BuildsShape, o

\* The operation of ku.
LEMMA KuShape ==
  ASSUME NEW big, NEW i, NEW l, l.cmd = "ku", DOMAIN MS(l).kvs \subseteq Commands[l.cmd].kv
  PROVE  /\ BuildsShape(big, i, l)
         /\ BuildOp(big, i, l).keys = Chords("key_up", l)
<1>. DEFINE o == BuildOp(big, i, l)
            b == Bare(big, i, l)
<1>1. Commands[l.cmd].kind = "key_up" /\ Commands[l.cmd].payload = "keys" /\ Commands[l.cmd].kv = {"d"}
  BY CommandRows
<1>2. OnlyThese(o, big, i, l, {"keys", "mods", "repeat", "gap"})
  BY <1>1, KeysOnly
<1>3. o = [b EXCEPT !.keys = Chords(Commands[l.cmd].kind, l),
                    !.mods = IF Commands[l.cmd].kind = "key" THEN OrderedMods(MS(l)) ELSE <<>>,
                    !.repeat = IF Commands[l.cmd].kind = "key" THEN IntVal(MS(l), "n", 1) ELSE 0,
                    !.gap = IF Commands[l.cmd].kind = "key" THEN DurVal(big, MS(l), "ms", 30) ELSE 0]
  BY <1>1, SMTT(30) DEF BuildOp, Bare, MS, IsBare, BuildKeys
<1>. HIDE DEF o, b
<1>4. IsOp(b) /\ {"keys", "mods", "repeat", "gap"} \subseteq OpFields
  BY BareFields DEF IsBare, OpFields, b
<1>5. /\ o.keys = Chords("key_up", l)
      /\ o.mods = <<>>
      /\ o.repeat = 0
      /\ o.gap = 0
  BY <1>1, <1>3, <1>4, ZenonT(60) DEF IsOp
<1>6. IsOp(o) /\ o.kind = "key_up" /\ IsBare(o, big, i, l)
  BY <1>1, <1>2 DEF OnlyThese, IsBare
<1>7. FieldsOf("key_up") = {"keys"}
  BY DEF FieldsOf
<1>8. \A f \in OpFields \ (CommonFields \cup NearFields \cup FieldsOf(o.kind)) : o[f] = ZeroOp[f]
  BY <1>2, <1>5, <1>6, <1>7, ZeroValues DEF OnlyThese, NearFields
<1>9. o.hasPoint = FALSE
  BY <1>2, ZeroValues DEF OnlyThese, OpFields, CommonFields
<1>10. o.kind \in Kinds \ {"move", "click", "button_down", "drag", "exec", "capture"}
  BY <1>6 DEF Kinds
<1>11. Shaped(o)
  BY <1>6, <1>8, <1>9, <1>10, PlainShape
<1>. QED
  BY <1>5, <1>6, <1>10, <1>11 DEF BuildsShape, o

\* The operation of txt.
LEMMA TxtShape ==
  ASSUME NEW big, NEW i, NEW l, l.cmd = "txt", DOMAIN MS(l).kvs \subseteq Commands[l.cmd].kv
  PROVE  /\ BuildsShape(big, i, l)
         /\ BuildOp(big, i, l).interval = DurVal(big, MS(l), "ms", 0)
         /\ BuildOp(big, i, l).fromFile <=> "f" \in MS(l).flags
<1>. DEFINE o == BuildOp(big, i, l)
            b == Bare(big, i, l)
<1>1. Commands[l.cmd].kind = "text" /\ Commands[l.cmd].payload = "text" /\ Commands[l.cmd].kv = {"ms", "d"}
  BY CommandRows
<1>2. OnlyThese(o, big, i, l, {"fromFile", "hasText", "filePath", "text", "interval"})
  BY <1>1, TextOnly
<1>3. o = [b EXCEPT !.fromFile = "f" \in MS(l).flags,
                    !.hasText = ~("f" \in MS(l).flags),
                    !.filePath = IF "f" \in MS(l).flags THEN PathOf(l) ELSE "",
                    !.text = IF "f" \in MS(l).flags THEN <<>> ELSE ApplyEscapes(l.chars).out,
                    !.interval = IF Commands[l.cmd].kind = "clipboard" THEN 0 ELSE DurVal(big, MS(l), "ms", IF Commands[l.cmd].kind = "paste" THEN 50 ELSE 0)]
  BY <1>1, SMTT(30) DEF BuildOp, Bare, MS, IsBare, BuildText
<1>. HIDE DEF o, b
<1>4. IsOp(b) /\ {"fromFile", "hasText", "filePath", "text", "interval"} \subseteq OpFields
  BY BareFields DEF IsBare, OpFields, b
<1>5. /\ o.interval = DurVal(big, MS(l), "ms", 0)
      /\ (o.fromFile <=> "f" \in MS(l).flags)
  BY <1>1, <1>3, <1>4, ZenonT(60) DEF IsOp
<1>6. IsOp(o) /\ o.kind = "text" /\ IsBare(o, big, i, l)
  BY <1>1, <1>2 DEF OnlyThese, IsBare
<1>7. FieldsOf("text") = {"text", "interval"}
  BY DEF FieldsOf
<1>8. \A f \in OpFields \ (CommonFields \cup NearFields \cup FieldsOf(o.kind)) : o[f] = ZeroOp[f]
  BY <1>2, <1>5, <1>6, <1>7, ZeroValues DEF OnlyThese, NearFields
<1>9. o.hasPoint = FALSE
  BY <1>2, ZeroValues DEF OnlyThese, OpFields, CommonFields
<1>10. o.kind \in Kinds \ {"move", "click", "button_down", "drag", "exec", "capture"}
  BY <1>6 DEF Kinds
<1>11. Shaped(o)
  BY <1>6, <1>8, <1>9, <1>10, PlainShape
<1>. QED
  BY <1>5, <1>6, <1>10, <1>11 DEF BuildsShape, o

\* The operation of m.
LEMMA MShape ==
  ASSUME NEW big, NEW i, NEW l, l.cmd = "m", DOMAIN MS(l).kvs \subseteq Commands[l.cmd].kv
  PROVE  /\ BuildsShape(big, i, l)
         /\ BuildOp(big, i, l).duration = DurVal(big, MS(l), "ms", 0)
<1>. DEFINE o == BuildOp(big, i, l)
            b == Bare(big, i, l)
<1>1. Commands[l.cmd].kind = "move" /\ Commands[l.cmd].payload = "point" /\ Commands[l.cmd].kv = {"ms", "disp", "d"}
  BY CommandRows
<1>2. OnlyThese(o, big, i, l, {"point", "hasPoint", "duration"})
  BY <1>1, PointOnly
<1>3. o = [b EXCEPT !.point = ParsePoint(Payload(l), MS(l)),
                    !.hasPoint = TRUE,
                    !.duration = DurVal(big, MS(l), "ms", 0)]
  BY <1>1, SMTT(30) DEF BuildOp, Bare, MS, IsBare
<1>. HIDE DEF o, b
<1>4. IsOp(b) /\ {"point", "hasPoint", "duration"} \subseteq OpFields
  BY BareFields DEF IsBare, OpFields, b
<1>5. /\ o.point = ParsePoint(Payload(l), MS(l))
      /\ o.hasPoint = TRUE
      /\ o.duration = DurVal(big, MS(l), "ms", 0)
  BY <1>1, <1>3, <1>4, ZenonT(60) DEF IsOp
<1>6. IsOp(o) /\ o.kind = "move" /\ IsBare(o, big, i, l)
  BY <1>1, <1>2 DEF OnlyThese, IsBare
<1>7. FieldsOf("move") = {"point", "duration"}
  BY DEF FieldsOf
<1>8. \A f \in OpFields \ (CommonFields \cup NearFields \cup FieldsOf(o.kind)) : o[f] = ZeroOp[f]
  BY <1>2, <1>5, <1>6, <1>7, ZeroValues DEF OnlyThese, NearFields
<1>9. o.scaleNative = FALSE /\ o.shell = FALSE
  BY <1>2, ZeroValues DEF OnlyThese, OpFields, CommonFields
<1>10. IsPoint(o.point)
  BY <1>5, PointShape
<1>12. Shaped(o)
  BY <1>5, <1>6, <1>8, <1>9, <1>10, ZenonT(60) DEF Shaped
<1>13. o.kind \in Kinds
  BY <1>6 DEF Kinds
<1>. QED
  BY <1>5, <1>6, <1>12, <1>13 DEF BuildsShape, o

\* The operation of c.
LEMMA CShape ==
  ASSUME NEW big, NEW i, NEW l, l.cmd = "c", DOMAIN MS(l).kvs \subseteq Commands[l.cmd].kv
  PROVE  /\ BuildsShape(big, i, l)
         /\ BuildOp(big, i, l).gap = DurVal(big, MS(l), "ms", 60)
<1>. DEFINE o == BuildOp(big, i, l)
            b == Bare(big, i, l)
<1>1. Commands[l.cmd].kind = "click" /\ Commands[l.cmd].payload = "opt_point" /\ Commands[l.cmd].kv = {"b", "n", "ms", "disp", "d"}
  BY CommandRows
<1>2. OnlyThese(o, big, i, l, {"point", "hasPoint", "button", "mods", "count", "gap"})
  BY <1>1, OptPointOnly
<1>3. o = [b EXCEPT !.point = IF l.words = <<>> THEN NoPoint ELSE ParsePoint(Payload(l), MS(l)),
                    !.hasPoint = ~(l.words = <<>>),
                    !.button = NameVal(MS(l), "b", "left"),
                    !.mods = OrderedMods(MS(l)),
                    !.count = IF Commands[l.cmd].kind = "click" THEN IntVal(MS(l), "n", 1) ELSE 0,
                    !.gap = IF Commands[l.cmd].kind = "click" THEN DurVal(big, MS(l), "ms", 60) ELSE 0]
  BY <1>1, SMTT(30) DEF BuildOp, Bare, MS, IsBare
<1>. HIDE DEF o, b
<1>4. IsOp(b) /\ {"point", "hasPoint", "button", "mods", "count", "gap"} \subseteq OpFields
  BY BareFields DEF IsBare, OpFields, b
<1>5. /\ o.button = NameVal(MS(l), "b", "left")
      /\ o.mods = OrderedMods(MS(l))
      /\ o.count = IntVal(MS(l), "n", 1)
      /\ o.gap = DurVal(big, MS(l), "ms", 60)
      /\ o.hasPoint \in BOOLEAN
      /\ (o.hasPoint => o.point = ParsePoint(Payload(l), MS(l)))
      /\ (~o.hasPoint => o.point = NoPoint)
  BY <1>1, <1>3, <1>4, ZenonT(60) DEF IsOp
<1>6. IsOp(o) /\ o.kind = "click" /\ IsBare(o, big, i, l)
  BY <1>1, <1>2 DEF OnlyThese, IsBare
<1>7. FieldsOf("click") = {"button", "count", "gap", "mods", "point"}
  BY DEF FieldsOf
<1>8. \A f \in OpFields \ (CommonFields \cup NearFields \cup FieldsOf(o.kind)) : o[f] = ZeroOp[f]
  BY <1>2, <1>5, <1>6, <1>7, ZeroValues DEF OnlyThese, NearFields
<1>9. o.scaleNative = FALSE /\ o.shell = FALSE
  BY <1>2, ZeroValues DEF OnlyThese, OpFields, CommonFields
<1>10. IsPoint(ParsePoint(Payload(l), MS(l)))
  BY PointShape
<1>12. Shaped(o)
  BY <1>5, <1>6, <1>8, <1>9, <1>10, ZenonT(60) DEF Shaped
<1>13. o.kind \in Kinds
  BY <1>6 DEF Kinds
<1>. QED
  BY <1>5, <1>6, <1>12, <1>13 DEF BuildsShape, o

\* The operation of md.
LEMMA MdShape ==
  ASSUME NEW big, NEW i, NEW l, l.cmd = "md", DOMAIN MS(l).kvs \subseteq Commands[l.cmd].kv
  PROVE  /\ BuildsShape(big, i, l)
<1>. DEFINE o == BuildOp(big, i, l)
            b == Bare(big, i, l)
<1>1. Commands[l.cmd].kind = "button_down" /\ Commands[l.cmd].payload = "opt_point" /\ Commands[l.cmd].kv = {"b", "disp", "d"}
  BY CommandRows
<1>2. OnlyThese(o, big, i, l, {"point", "hasPoint", "button", "mods", "count", "gap"})
  BY <1>1, OptPointOnly
<1>3. o = [b EXCEPT !.point = IF l.words = <<>> THEN NoPoint ELSE ParsePoint(Payload(l), MS(l)),
                    !.hasPoint = ~(l.words = <<>>),
                    !.button = NameVal(MS(l), "b", "left"),
                    !.mods = OrderedMods(MS(l)),
                    !.count = IF Commands[l.cmd].kind = "click" THEN IntVal(MS(l), "n", 1) ELSE 0,
                    !.gap = IF Commands[l.cmd].kind = "click" THEN DurVal(big, MS(l), "ms", 60) ELSE 0]
  BY <1>1, SMTT(30) DEF BuildOp, Bare, MS, IsBare
<1>. HIDE DEF o, b
<1>4. IsOp(b) /\ {"point", "hasPoint", "button", "mods", "count", "gap"} \subseteq OpFields
  BY BareFields DEF IsBare, OpFields, b
<1>5. /\ o.button = NameVal(MS(l), "b", "left")
      /\ o.mods = OrderedMods(MS(l))
      /\ o.count = 0
      /\ o.gap = 0
      /\ o.hasPoint \in BOOLEAN
      /\ (o.hasPoint => o.point = ParsePoint(Payload(l), MS(l)))
      /\ (~o.hasPoint => o.point = NoPoint)
  BY <1>1, <1>3, <1>4, ZenonT(60) DEF IsOp
<1>6. IsOp(o) /\ o.kind = "button_down" /\ IsBare(o, big, i, l)
  BY <1>1, <1>2 DEF OnlyThese, IsBare
<1>7. FieldsOf("button_down") = {"button", "mods", "point"}
  BY DEF FieldsOf
<1>8. \A f \in OpFields \ (CommonFields \cup NearFields \cup FieldsOf(o.kind)) : o[f] = ZeroOp[f]
  BY <1>2, <1>5, <1>6, <1>7, ZeroValues DEF OnlyThese, NearFields
<1>9. o.scaleNative = FALSE /\ o.shell = FALSE
  BY <1>2, ZeroValues DEF OnlyThese, OpFields, CommonFields
<1>10. IsPoint(ParsePoint(Payload(l), MS(l)))
  BY PointShape
<1>12. Shaped(o)
  BY <1>5, <1>6, <1>8, <1>9, <1>10, ZenonT(60) DEF Shaped
<1>13. o.kind \in Kinds
  BY <1>6 DEF Kinds
<1>. QED
  BY <1>5, <1>6, <1>12, <1>13 DEF BuildsShape, o

\* The operation of mu.
LEMMA MuShape ==
  ASSUME NEW big, NEW i, NEW l, l.cmd = "mu", DOMAIN MS(l).kvs \subseteq Commands[l.cmd].kv
  PROVE  /\ BuildsShape(big, i, l)
<1>. DEFINE o == BuildOp(big, i, l)
            b == Bare(big, i, l)
<1>1. Commands[l.cmd].kind = "button_up" /\ Commands[l.cmd].payload = "none" /\ Commands[l.cmd].kv = {"b", "d"}
  BY CommandRows
<1>2. OnlyThese(o, big, i, l, {"button", "setDelay", "setTxtms", "setKeyms"})
  BY <1>1, NoneOnly
<1>h. ~Has(MS(l), "delay") /\ ~Has(MS(l), "txtms") /\ ~Has(MS(l), "keyms")
  BY <1>1 DEF Has
<1>3. o = [b EXCEPT !.button = IF Commands[l.cmd].kind = "button_up" THEN NameVal(MS(l), "b", "left") ELSE "",
                    !.setDelay = OptDur(big, MS(l), "delay"),
                    !.setTxtms = OptDur(big, MS(l), "txtms"),
                    !.setKeyms = OptDur(big, MS(l), "keyms")]
  BY <1>1, SMTT(30) DEF BuildOp, Bare, MS, IsBare, FinishNone
<1>. HIDE DEF o, b
<1>4. IsOp(b) /\ {"button", "setDelay", "setTxtms", "setKeyms"} \subseteq OpFields
  BY BareFields DEF IsBare, OpFields, b
<1>5. /\ o.button = NameVal(MS(l), "b", "left")
      /\ o.setDelay = <<>>
      /\ o.setTxtms = <<>>
      /\ o.setKeyms = <<>>
  BY <1>1, <1>h, <1>3, <1>4, ZenonT(60) DEF IsOp, OptDur, DurVal
<1>6. IsOp(o) /\ o.kind = "button_up" /\ IsBare(o, big, i, l)
  BY <1>1, <1>2 DEF OnlyThese, IsBare
<1>7. FieldsOf("button_up") = {"button"}
  BY DEF FieldsOf
<1>8. \A f \in OpFields \ (CommonFields \cup NearFields \cup FieldsOf(o.kind)) : o[f] = ZeroOp[f]
  BY <1>2, <1>5, <1>6, <1>7, ZeroValues DEF OnlyThese, NearFields
<1>9. o.hasPoint = FALSE
  BY <1>2, ZeroValues DEF OnlyThese, OpFields, CommonFields
<1>10. o.kind \in Kinds \ {"move", "click", "button_down", "drag", "exec", "capture"}
  BY <1>6 DEF Kinds
<1>11. Shaped(o)
  BY <1>6, <1>8, <1>9, <1>10, PlainShape
<1>. QED
  BY <1>5, <1>6, <1>10, <1>11 DEF BuildsShape, o

\* The operation of drag.
LEMMA DragShape ==
  ASSUME NEW big, NEW i, NEW l, l.cmd = "drag", DOMAIN MS(l).kvs \subseteq Commands[l.cmd].kv
  PROVE  /\ BuildsShape(big, i, l)
         /\ BuildOp(big, i, l).duration = DurVal(big, MS(l), "ms", 500)
         /\ BuildOp(big, i, l).count = IntVal(MS(l), "steps", 20)
<1>. DEFINE o == BuildOp(big, i, l)
            b == Bare(big, i, l)
<1>1. Commands[l.cmd].kind = "drag" /\ Commands[l.cmd].payload = "points" /\ Commands[l.cmd].kv = {"b", "ms", "steps", "disp", "d"}
  BY CommandRows
<1>2. OnlyThese(o, big, i, l, {"points", "button", "mods", "duration", "count"})
  BY <1>1, PointsOnly
<1>3. o = [b EXCEPT !.points = [j \in DOMAIN l.words |-> ParsePoint(l.words[j], MS(l))],
                    !.button = NameVal(MS(l), "b", "left"),
                    !.mods = OrderedMods(MS(l)),
                    !.duration = DurVal(big, MS(l), "ms", 500),
                    !.count = IntVal(MS(l), "steps", 20)]
  BY <1>1, SMTT(30) DEF BuildOp, Bare, MS, IsBare
<1>. HIDE DEF o, b
<1>4. IsOp(b) /\ {"points", "button", "mods", "duration", "count"} \subseteq OpFields
  BY BareFields DEF IsBare, OpFields, b
<1>5. /\ o.points = [j \in DOMAIN l.words |-> ParsePoint(l.words[j], MS(l))]
      /\ o.button = NameVal(MS(l), "b", "left")
      /\ o.mods = OrderedMods(MS(l))
      /\ o.duration = DurVal(big, MS(l), "ms", 500)
      /\ o.count = IntVal(MS(l), "steps", 20)
  BY <1>1, <1>3, <1>4, ZenonT(60) DEF IsOp
<1>6. IsOp(o) /\ o.kind = "drag" /\ IsBare(o, big, i, l)
  BY <1>1, <1>2 DEF OnlyThese, IsBare
<1>7. FieldsOf("drag") = {"button", "mods", "duration", "count", "points"}
  BY DEF FieldsOf
<1>8. \A f \in OpFields \ (CommonFields \cup NearFields \cup FieldsOf(o.kind)) : o[f] = ZeroOp[f]
  BY <1>2, <1>5, <1>6, <1>7, ZeroValues DEF OnlyThese, NearFields
<1>9. o.hasPoint = FALSE /\ o.point = NoPoint /\ o.scaleNative = FALSE /\ o.shell = FALSE
  BY <1>2, ZeroValues DEF OnlyThese, OpFields, CommonFields
<1>10. o.points = [j \in DOMAIN o.points |-> o.points[j]] /\ \A j \in DOMAIN o.points : IsPoint(o.points[j])
  BY <1>5, PointShape
<1>12. Shaped(o)
  BY <1>5, <1>6, <1>8, <1>9, <1>10, ZenonT(60) DEF Shaped
<1>13. o.kind \in Kinds
  BY <1>6 DEF Kinds
<1>. QED
  BY <1>5, <1>6, <1>12, <1>13 DEF BuildsShape, o

\* The points of drag.
LEMMA DragPoints ==
  ASSUME NEW big, NEW i, NEW l, l.cmd = "drag"
  PROVE  BuildOp(big, i, l).points = [j \in DOMAIN l.words |-> ParsePoint(l.words[j], MS(l))]
<1>. DEFINE o == BuildOp(big, i, l)
            b == Bare(big, i, l)
<1>1. Commands[l.cmd].kind = "drag" /\ Commands[l.cmd].payload = "points"
  BY CommandRows
<1>2. o = [b EXCEPT !.points = [j \in DOMAIN l.words |-> ParsePoint(l.words[j], MS(l))],
                    !.button = NameVal(MS(l), "b", "left"),
                    !.mods = OrderedMods(MS(l)),
                    !.duration = DurVal(big, MS(l), "ms", 500),
                    !.count = IntVal(MS(l), "steps", 20)]
  BY <1>1, SMTT(30) DEF BuildOp, Bare, MS, IsBare
<1>. HIDE DEF o, b
<1>3. IsOp(b) /\ {"points", "button", "mods", "duration", "count"} \subseteq OpFields
  BY BareFields DEF IsBare, OpFields, b
<1>4. o.points = [j \in DOMAIN l.words |-> ParsePoint(l.words[j], MS(l))]
  BY <1>1, <1>2, <1>3, ZenonT(60) DEF IsOp
<1>. QED
  BY <1>4 DEF o

\* The operation of scroll.
LEMMA ScrollShape ==
  ASSUME NEW big, NEW i, NEW l, l.cmd = "scroll", DOMAIN MS(l).kvs \subseteq Commands[l.cmd].kv
  PROVE  /\ BuildsShape(big, i, l)
         /\ Len(l.words) = 2 => BuildOp(big, i, l).ticks = Whole(l.words[2]).n
<1>. DEFINE o == BuildOp(big, i, l)
            b == Bare(big, i, l)
<1>1. Commands[l.cmd].kind = "scroll" /\ Commands[l.cmd].payload = "scroll" /\ Commands[l.cmd].kv = {"by", "d"}
  BY CommandRows
<1>2. OnlyThese(o, big, i, l, {"scrollDir", "ticks", "scrollBy"})
  BY <1>1, ScrollOnly
<1>3. o = [b EXCEPT !.scrollDir = Whole(l.words[1]).s,
                    !.ticks = IF Len(l.words) = 2 THEN Whole(l.words[2]).n ELSE 3,
                    !.scrollBy = NameVal(MS(l), "by", "line")]
  BY <1>1, SMTT(30) DEF BuildOp, Bare, MS, IsBare, BuildScroll
<1>. HIDE DEF o, b
<1>4. IsOp(b) /\ {"scrollDir", "ticks", "scrollBy"} \subseteq OpFields
  BY BareFields DEF IsBare, OpFields, b
<1>5. /\ (Len(l.words) = 2 => o.ticks = Whole(l.words[2]).n)
  BY <1>1, <1>3, <1>4, ZenonT(60) DEF IsOp
<1>6. IsOp(o) /\ o.kind = "scroll" /\ IsBare(o, big, i, l)
  BY <1>1, <1>2 DEF OnlyThese, IsBare
<1>7. FieldsOf("scroll") = {"scrollDir", "ticks", "scrollBy"}
  BY DEF FieldsOf
<1>8. \A f \in OpFields \ (CommonFields \cup NearFields \cup FieldsOf(o.kind)) : o[f] = ZeroOp[f]
  BY <1>2, <1>5, <1>6, <1>7, ZeroValues DEF OnlyThese, NearFields
<1>9. o.hasPoint = FALSE
  BY <1>2, ZeroValues DEF OnlyThese, OpFields, CommonFields
<1>10. o.kind \in Kinds \ {"move", "click", "button_down", "drag", "exec", "capture"}
  BY <1>6 DEF Kinds
<1>11. Shaped(o)
  BY <1>6, <1>8, <1>9, <1>10, PlainShape
<1>. QED
  BY <1>5, <1>6, <1>10, <1>11 DEF BuildsShape, o

\* The operation of clip.
LEMMA ClipShape ==
  ASSUME NEW big, NEW i, NEW l, l.cmd = "clip", DOMAIN MS(l).kvs \subseteq Commands[l.cmd].kv
  PROVE  /\ BuildsShape(big, i, l)
         /\ BuildOp(big, i, l).fromFile <=> "f" \in MS(l).flags
<1>. DEFINE o == BuildOp(big, i, l)
            b == Bare(big, i, l)
<1>1. Commands[l.cmd].kind = "clipboard" /\ Commands[l.cmd].payload = "text" /\ Commands[l.cmd].kv = {"d"}
  BY CommandRows
<1>2. OnlyThese(o, big, i, l, {"fromFile", "hasText", "filePath", "text", "interval"})
  BY <1>1, TextOnly
<1>3. o = [b EXCEPT !.fromFile = "f" \in MS(l).flags,
                    !.hasText = ~("f" \in MS(l).flags),
                    !.filePath = IF "f" \in MS(l).flags THEN PathOf(l) ELSE "",
                    !.text = IF "f" \in MS(l).flags THEN <<>> ELSE ApplyEscapes(l.chars).out,
                    !.interval = IF Commands[l.cmd].kind = "clipboard" THEN 0 ELSE DurVal(big, MS(l), "ms", IF Commands[l.cmd].kind = "paste" THEN 50 ELSE 0)]
  BY <1>1, SMTT(30) DEF BuildOp, Bare, MS, IsBare, BuildText
<1>. HIDE DEF o, b
<1>4. IsOp(b) /\ {"fromFile", "hasText", "filePath", "text", "interval"} \subseteq OpFields
  BY BareFields DEF IsBare, OpFields, b
<1>5. /\ o.interval = 0
      /\ (o.fromFile <=> "f" \in MS(l).flags)
  BY <1>1, <1>3, <1>4, ZenonT(60) DEF IsOp
<1>6. IsOp(o) /\ o.kind = "clipboard" /\ IsBare(o, big, i, l)
  BY <1>1, <1>2 DEF OnlyThese, IsBare
<1>7. FieldsOf("clipboard") = {"text"}
  BY DEF FieldsOf
<1>8. \A f \in OpFields \ (CommonFields \cup NearFields \cup FieldsOf(o.kind)) : o[f] = ZeroOp[f]
  BY <1>2, <1>5, <1>6, <1>7, ZeroValues DEF OnlyThese, NearFields
<1>9. o.hasPoint = FALSE
  BY <1>2, ZeroValues DEF OnlyThese, OpFields, CommonFields
<1>10. o.kind \in Kinds \ {"move", "click", "button_down", "drag", "exec", "capture"}
  BY <1>6 DEF Kinds
<1>11. Shaped(o)
  BY <1>6, <1>8, <1>9, <1>10, PlainShape
<1>. QED
  BY <1>5, <1>6, <1>10, <1>11 DEF BuildsShape, o

\* The operation of paste.
LEMMA PasteShape ==
  ASSUME NEW big, NEW i, NEW l, l.cmd = "paste", DOMAIN MS(l).kvs \subseteq Commands[l.cmd].kv
  PROVE  /\ BuildsShape(big, i, l)
         /\ BuildOp(big, i, l).interval = DurVal(big, MS(l), "ms", 50)
         /\ BuildOp(big, i, l).fromFile <=> "f" \in MS(l).flags
<1>. DEFINE o == BuildOp(big, i, l)
            b == Bare(big, i, l)
<1>1. Commands[l.cmd].kind = "paste" /\ Commands[l.cmd].payload = "text" /\ Commands[l.cmd].kv = {"ms", "d"}
  BY CommandRows
<1>2. OnlyThese(o, big, i, l, {"fromFile", "hasText", "filePath", "text", "interval"})
  BY <1>1, TextOnly
<1>3. o = [b EXCEPT !.fromFile = "f" \in MS(l).flags,
                    !.hasText = ~("f" \in MS(l).flags),
                    !.filePath = IF "f" \in MS(l).flags THEN PathOf(l) ELSE "",
                    !.text = IF "f" \in MS(l).flags THEN <<>> ELSE ApplyEscapes(l.chars).out,
                    !.interval = IF Commands[l.cmd].kind = "clipboard" THEN 0 ELSE DurVal(big, MS(l), "ms", IF Commands[l.cmd].kind = "paste" THEN 50 ELSE 0)]
  BY <1>1, SMTT(30) DEF BuildOp, Bare, MS, IsBare, BuildText
<1>. HIDE DEF o, b
<1>4. IsOp(b) /\ {"fromFile", "hasText", "filePath", "text", "interval"} \subseteq OpFields
  BY BareFields DEF IsBare, OpFields, b
<1>5. /\ o.interval = DurVal(big, MS(l), "ms", 50)
      /\ (o.fromFile <=> "f" \in MS(l).flags)
  BY <1>1, <1>3, <1>4, ZenonT(60) DEF IsOp
<1>6. IsOp(o) /\ o.kind = "paste" /\ IsBare(o, big, i, l)
  BY <1>1, <1>2 DEF OnlyThese, IsBare
<1>7. FieldsOf("paste") = {"text", "interval"}
  BY DEF FieldsOf
<1>8. \A f \in OpFields \ (CommonFields \cup NearFields \cup FieldsOf(o.kind)) : o[f] = ZeroOp[f]
  BY <1>2, <1>5, <1>6, <1>7, ZeroValues DEF OnlyThese, NearFields
<1>9. o.hasPoint = FALSE
  BY <1>2, ZeroValues DEF OnlyThese, OpFields, CommonFields
<1>10. o.kind \in Kinds \ {"move", "click", "button_down", "drag", "exec", "capture"}
  BY <1>6 DEF Kinds
<1>11. Shaped(o)
  BY <1>6, <1>8, <1>9, <1>10, PlainShape
<1>. QED
  BY <1>5, <1>6, <1>10, <1>11 DEF BuildsShape, o

\* The operation of qclip.
LEMMA QclipShape ==
  ASSUME NEW big, NEW i, NEW l, l.cmd = "qclip", DOMAIN MS(l).kvs \subseteq Commands[l.cmd].kv
  PROVE  /\ BuildsShape(big, i, l)
         /\ BuildOp(big, i, l).fromFile <=> "f" \in MS(l).flags
<1>. DEFINE o == BuildOp(big, i, l)
            b == Bare(big, i, l)
<1>1. Commands[l.cmd].kind = "query_clipboard" /\ Commands[l.cmd].payload = "qclip" /\ Commands[l.cmd].kv = {"d"}
  BY CommandRows
<1>2. OnlyThese(o, big, i, l, {"fromFile", "filePath"})
  BY <1>1, QueryClipOnly
<1>3. o = [b EXCEPT !.fromFile = "f" \in MS(l).flags,
                    !.filePath = IF "f" \in MS(l).flags THEN PathOf(l) ELSE ""]
  BY <1>1, SMTT(30) DEF BuildOp, Bare, MS, IsBare
<1>. HIDE DEF o, b
<1>4. IsOp(b) /\ {"fromFile", "filePath"} \subseteq OpFields
  BY BareFields DEF IsBare, OpFields, b
<1>5. /\ (o.fromFile <=> "f" \in MS(l).flags)
  BY <1>1, <1>3, <1>4, ZenonT(60) DEF IsOp
<1>6. IsOp(o) /\ o.kind = "query_clipboard" /\ IsBare(o, big, i, l)
  BY <1>1, <1>2 DEF OnlyThese, IsBare
<1>7. FieldsOf("query_clipboard") = {}
  BY DEF FieldsOf
<1>8. \A f \in OpFields \ (CommonFields \cup NearFields \cup FieldsOf(o.kind)) : o[f] = ZeroOp[f]
  BY <1>2, <1>5, <1>6, <1>7, ZeroValues DEF OnlyThese, NearFields
<1>9. o.hasPoint = FALSE
  BY <1>2, ZeroValues DEF OnlyThese, OpFields, CommonFields
<1>10. o.kind \in Kinds \ {"move", "click", "button_down", "drag", "exec", "capture"}
  BY <1>6 DEF Kinds
<1>11. Shaped(o)
  BY <1>6, <1>8, <1>9, <1>10, PlainShape
<1>. QED
  BY <1>5, <1>6, <1>10, <1>11 DEF BuildsShape, o

\* The operation of rclip.
LEMMA RclipShape ==
  ASSUME NEW big, NEW i, NEW l, l.cmd = "rclip", DOMAIN MS(l).kvs \subseteq Commands[l.cmd].kv
  PROVE  /\ BuildsShape(big, i, l)
<1>. DEFINE o == BuildOp(big, i, l)
            b == Bare(big, i, l)
<1>1. Commands[l.cmd].kind = "read_clipboard" /\ Commands[l.cmd].payload = "rclip" /\ Commands[l.cmd].kv = {"d"}
  BY CommandRows
<1>2. OnlyThese(o, big, i, l, {"path", "rclipType"})
  BY <1>1, ReadClipOnly
<1>3. o = [b EXCEPT !.path = PathOf(l),
                    !.rclipType = IF Img \in MS(l).words THEN "image" ELSE IF Txt \in MS(l).words THEN "text" ELSE "auto"]
  BY <1>1, SMTT(30) DEF BuildOp, Bare, MS, IsBare
<1>. HIDE DEF o, b
<1>4. IsOp(b) /\ {"path", "rclipType"} \subseteq OpFields
  BY BareFields DEF IsBare, OpFields, b
<1>6. IsOp(o) /\ o.kind = "read_clipboard" /\ IsBare(o, big, i, l)
  BY <1>1, <1>2 DEF OnlyThese, IsBare
<1>7. FieldsOf("read_clipboard") = {"path", "rclipType"}
  BY DEF FieldsOf
<1>8. \A f \in OpFields \ (CommonFields \cup NearFields \cup FieldsOf(o.kind)) : o[f] = ZeroOp[f]
  BY <1>2, <1>6, <1>7, ZeroValues DEF OnlyThese, NearFields
<1>9. o.hasPoint = FALSE
  BY <1>2, ZeroValues DEF OnlyThese, OpFields, CommonFields
<1>10. o.kind \in Kinds \ {"move", "click", "button_down", "drag", "exec", "capture"}
  BY <1>6 DEF Kinds
<1>11. Shaped(o)
  BY <1>6, <1>8, <1>9, <1>10, PlainShape
<1>. QED
  BY <1>6, <1>10, <1>11 DEF BuildsShape, o

\* The operation of win.
LEMMA WinShape ==
  ASSUME NEW big, NEW i, NEW l, l.cmd = "win", DOMAIN MS(l).kvs \subseteq Commands[l.cmd].kv
  PROVE  /\ BuildsShape(big, i, l)
         /\ BuildOp(big, i, l).wait = DurVal(big, MS(l), "wait", 0)
<1>. DEFINE o == BuildOp(big, i, l)
            b == Bare(big, i, l)
<1>1. Commands[l.cmd].kind = "focus" /\ Commands[l.cmd].payload = "selector" /\ Commands[l.cmd].kv = {"wait", "d"}
  BY CommandRows
<1>2. OnlyThese(o, big, i, l, {"selector", "wait", "hasWait"})
  BY <1>1, SelectorOnly
<1>3. o = [b EXCEPT !.selector = IF l.words = <<>> THEN [kind |-> "title", value |-> Name(""), regex |-> "r" \in MS(l).flags] ELSE ParseSelector(Payload(l), "r" \in MS(l).flags),
                    !.wait = DurVal(big, MS(l), "wait", 0),
                    !.hasWait = Has(MS(l), "wait")]
  BY <1>1, SMTT(30) DEF BuildOp, Bare, MS, IsBare
<1>. HIDE DEF o, b
<1>4. IsOp(b) /\ {"selector", "wait", "hasWait"} \subseteq OpFields
  BY BareFields DEF IsBare, OpFields, b
<1>5. /\ o.wait = DurVal(big, MS(l), "wait", 0)
  BY <1>1, <1>3, <1>4, ZenonT(60) DEF IsOp
<1>6. IsOp(o) /\ o.kind = "focus" /\ IsBare(o, big, i, l)
  BY <1>1, <1>2 DEF OnlyThese, IsBare
<1>7. FieldsOf("focus") = {"selector", "wait", "hasWait"}
  BY DEF FieldsOf
<1>8. \A f \in OpFields \ (CommonFields \cup NearFields \cup FieldsOf(o.kind)) : o[f] = ZeroOp[f]
  BY <1>2, <1>5, <1>6, <1>7, ZeroValues DEF OnlyThese, NearFields
<1>9. o.hasPoint = FALSE
  BY <1>2, ZeroValues DEF OnlyThese, OpFields, CommonFields
<1>10. o.kind \in Kinds \ {"move", "click", "button_down", "drag", "exec", "capture"}
  BY <1>6 DEF Kinds
<1>11. Shaped(o)
  BY <1>6, <1>8, <1>9, <1>10, PlainShape
<1>. QED
  BY <1>5, <1>6, <1>10, <1>11 DEF BuildsShape, o

\* The operation of qwin.
LEMMA QwinShape ==
  ASSUME NEW big, NEW i, NEW l, l.cmd = "qwin", DOMAIN MS(l).kvs \subseteq Commands[l.cmd].kv
  PROVE  /\ BuildsShape(big, i, l)
<1>. DEFINE o == BuildOp(big, i, l)
            b == Bare(big, i, l)
<1>1. Commands[l.cmd].kind = "query_windows" /\ Commands[l.cmd].payload = "opt_selector" /\ Commands[l.cmd].kv = {"d"}
  BY CommandRows
<1>2. OnlyThese(o, big, i, l, {"selector", "wait", "hasWait"})
  BY <1>1, SelectorOnly
<1>h. ~Has(MS(l), "wait")
  BY <1>1 DEF Has
<1>3. o = [b EXCEPT !.selector = IF l.words = <<>> THEN [kind |-> "title", value |-> Name(""), regex |-> "r" \in MS(l).flags] ELSE ParseSelector(Payload(l), "r" \in MS(l).flags),
                    !.wait = DurVal(big, MS(l), "wait", 0),
                    !.hasWait = Has(MS(l), "wait")]
  BY <1>1, SMTT(30) DEF BuildOp, Bare, MS, IsBare
<1>. HIDE DEF o, b
<1>4. IsOp(b) /\ {"selector", "wait", "hasWait"} \subseteq OpFields
  BY BareFields DEF IsBare, OpFields, b
<1>5. o.wait = 0 /\ o.hasWait = FALSE
  <2>1. o.hasWait = Has(MS(l), "wait")
    BY <1>3, <1>4, ZenonT(60) DEF IsOp
  <2>2. o.wait = DurVal(big, MS(l), "wait", 0)
    BY <1>3, <1>4, ZenonT(60) DEF IsOp
  <2>3. DurVal(big, MS(l), "wait", 0) = 0
    BY <1>h, Zenon DEF DurVal
  <2>4. Has(MS(l), "wait") = FALSE
    BY <1>h DEF Has
  <2>. QED
    BY <2>1, <2>2, <2>3, <2>4, Zenon
<1>6. IsOp(o) /\ o.kind = "query_windows" /\ IsBare(o, big, i, l)
  BY <1>1, <1>2 DEF OnlyThese, IsBare
<1>7. FieldsOf("query_windows") = {"selector"}
  BY DEF FieldsOf
<1>8. \A f \in OpFields \ (CommonFields \cup NearFields \cup FieldsOf(o.kind)) : o[f] = ZeroOp[f]
  BY <1>2, <1>5, <1>6, <1>7, ZeroValues DEF OnlyThese, NearFields
<1>9. o.hasPoint = FALSE
  BY <1>2, ZeroValues DEF OnlyThese, OpFields, CommonFields
<1>10. o.kind \in Kinds \ {"move", "click", "button_down", "drag", "exec", "capture"}
  BY <1>6 DEF Kinds
<1>11. Shaped(o)
  BY <1>6, <1>8, <1>9, <1>10, PlainShape
<1>. QED
  BY <1>5, <1>6, <1>10, <1>11 DEF BuildsShape, o

\* The operation of open.
LEMMA OpenShape ==
  ASSUME NEW big, NEW i, NEW l, l.cmd = "open", DOMAIN MS(l).kvs \subseteq Commands[l.cmd].kv
  PROVE  /\ BuildsShape(big, i, l)
         /\ BuildOp(big, i, l).wait = DurVal(big, MS(l), "wait", 0)
<1>. DEFINE o == BuildOp(big, i, l)
            b == Bare(big, i, l)
<1>1. Commands[l.cmd].kind = "open" /\ Commands[l.cmd].payload = "target" /\ Commands[l.cmd].kv = {"wait", "d"}
  BY CommandRows
<1>2. OnlyThese(o, big, i, l, {"target", "wait", "hasWait"})
  BY <1>1, TargetOnly
<1>3. o = [b EXCEPT !.target = PathOf(l),
                    !.wait = DurVal(big, MS(l), "wait", 0),
                    !.hasWait = Has(MS(l), "wait")]
  BY <1>1, SMTT(30) DEF BuildOp, Bare, MS, IsBare
<1>. HIDE DEF o, b
<1>4. IsOp(b) /\ {"target", "wait", "hasWait"} \subseteq OpFields
  BY BareFields DEF IsBare, OpFields, b
<1>5. /\ o.wait = DurVal(big, MS(l), "wait", 0)
  BY <1>1, <1>3, <1>4, ZenonT(60) DEF IsOp
<1>6. IsOp(o) /\ o.kind = "open" /\ IsBare(o, big, i, l)
  BY <1>1, <1>2 DEF OnlyThese, IsBare
<1>7. FieldsOf("open") = {"target", "wait", "hasWait"}
  BY DEF FieldsOf
<1>8. \A f \in OpFields \ (CommonFields \cup NearFields \cup FieldsOf(o.kind)) : o[f] = ZeroOp[f]
  BY <1>2, <1>5, <1>6, <1>7, ZeroValues DEF OnlyThese, NearFields
<1>9. o.hasPoint = FALSE
  BY <1>2, ZeroValues DEF OnlyThese, OpFields, CommonFields
<1>10. o.kind \in Kinds \ {"move", "click", "button_down", "drag", "exec", "capture"}
  BY <1>6 DEF Kinds
<1>11. Shaped(o)
  BY <1>6, <1>8, <1>9, <1>10, PlainShape
<1>. QED
  BY <1>5, <1>6, <1>10, <1>11 DEF BuildsShape, o

\* The operation of exec.
LEMMA ExecShape ==
  ASSUME NEW big, NEW i, NEW l, l.cmd = "exec", DOMAIN MS(l).kvs \subseteq Commands[l.cmd].kv
  PROVE  /\ BuildsShape(big, i, l)
         /\ BuildOp(big, i, l).timeout = DurVal(big, MS(l), "timeout", 10000)
<1>. DEFINE o == BuildOp(big, i, l)
            b == Bare(big, i, l)
            tm == DurVal(big, MS(l), "timeout", 10000)
<1>1. Commands[l.cmd].kind = "exec" /\ Commands[l.cmd].payload = "exec" /\ Commands[l.cmd].kv = {"timeout", "d"}
  BY CommandRows
<1>2. OnlyThese(o, big, i, l, {"shell", "noerr", "cmd", "argv", "timeout"})
  BY <1>1, ExecOnly
<1>3. o = [b EXCEPT !.shell = Shell \in MS(l).words,
                    !.noerr = Noerr \in MS(l).words,
                    !.cmd = IF Shell \in MS(l).words THEN Trim(l.chars) ELSE <<>>,
                    !.argv = IF Shell \in MS(l).words THEN <<>> ELSE SplitArgv(Trim(l.chars)).argv,
                    !.timeout = tm]
  BY <1>1, SMTT(30) DEF BuildOp, Bare, MS, IsBare, BuildExec
<1>. HIDE DEF o, b, tm
<1>4. IsOp(b) /\ {"shell", "noerr", "cmd", "argv", "timeout"} \subseteq OpFields
  BY BareFields DEF IsBare, OpFields, b
<1>5. /\ o.timeout = tm /\ o.shell \in BOOLEAN
      /\ o.shell => o.argv = <<>>
      /\ ~o.shell => o.cmd = <<>>
  <2>1. o.timeout = tm
    BY <1>3, <1>4, ZenonT(60) DEF IsOp
  <2>2. o.shell \in BOOLEAN
    <3>. DEFINE sh == Shell \in MS(l).words
    <3>1. o.shell = sh
      BY <1>3, <1>4, ZenonT(60) DEF IsOp
    <3>2. sh \in BOOLEAN
      OBVIOUS
    <3>. HIDE DEF sh
    <3>. QED
      BY <3>1, <3>2
  <2>5. o.shell <=> Shell \in MS(l).words
    BY <1>3, <1>4, ZenonT(60) DEF IsOp
  <2>3. o.argv = IF Shell \in MS(l).words THEN <<>> ELSE SplitArgv(Trim(l.chars)).argv
    BY <1>3, <1>4, ZenonT(60) DEF IsOp
  <2>4. o.cmd = IF Shell \in MS(l).words THEN Trim(l.chars) ELSE <<>>
    BY <1>3, <1>4, ZenonT(60) DEF IsOp
  <2>6. CASE Shell \in MS(l).words
    BY <2>1, <2>2, <2>3, <2>5, <2>6
  <2>7. CASE Shell \notin MS(l).words
    BY <2>1, <2>2, <2>4, <2>5, <2>7
  <2>. QED
    BY <2>6, <2>7
<1>6. IsOp(o) /\ o.kind = "exec" /\ IsBare(o, big, i, l)
  BY <1>1, <1>2 DEF OnlyThese, IsBare
<1>7. FieldsOf("exec") = {"shell", "noerr", "timeout", "cmd", "argv"}
  BY DEF FieldsOf
<1>8. \A f \in OpFields \ (CommonFields \cup NearFields \cup FieldsOf(o.kind)) : o[f] = ZeroOp[f]
  BY <1>2, <1>5, <1>6, <1>7, ZeroValues DEF OnlyThese, NearFields
<1>9. o.hasPoint = FALSE /\ o.point = NoPoint /\ o.scaleNative = FALSE
  BY <1>2, ZeroValues DEF OnlyThese, OpFields, CommonFields
<1>12. Shaped(o)
  BY <1>5, <1>6, <1>8, <1>9, ZenonT(60) DEF Shaped
<1>13. o.kind \in Kinds
  BY <1>6 DEF Kinds
<1>. QED
  BY <1>5, <1>6, <1>12, <1>13 DEF BuildsShape, o, tm

\* The operation of cap.
LEMMA CapShape ==
  ASSUME NEW big, NEW i, NEW l, l.cmd = "cap", DOMAIN MS(l).kvs \subseteq Commands[l.cmd].kv
  PROVE  /\ BuildsShape(big, i, l)
         /\ BuildOp(big, i, l).capCount = IntVal(MS(l), "n", 1)
         /\ BuildOp(big, i, l).capInterval = DurVal(big, MS(l), "ms", 100)
         /\ NameVal(MS(l), "scale", "") # "native" => ~BuildOp(big, i, l).scaleNative /\ BuildOp(big, i, l).scale = IntVal(MS(l), "scale", 1)
<1>. DEFINE o == BuildOp(big, i, l)
            b == Bare(big, i, l)
<1>1. Commands[l.cmd].kind = "capture" /\ Commands[l.cmd].payload = "cap" /\ Commands[l.cmd].kv = {"disp", "rect", "scale", "n", "ms", "label", "d"}
  BY CommandRows
<1>2. OnlyThese(o, big, i, l, {"frame", "disp", "filePath", "rect", "scaleNative", "scale", "label", "capCount", "capInterval"})
  BY <1>1, CapOnly
<1>3. o = [b EXCEPT !.frame = Frame(MS(l)),
                    !.disp = IntVal(MS(l), "disp", 0),
                    !.filePath = PathOf(l),
                    !.rect = IF Has(MS(l), "rect") THEN <<ParseRect(MS(l).kvs["rect"])>> ELSE <<>>,
                    !.scaleNative = NameVal(MS(l), "scale", "") = "native",
                    !.scale = IF NameVal(MS(l), "scale", "") = "native" THEN 1 ELSE IntVal(MS(l), "scale", 1),
                    !.label = IF Has(MS(l), "label") THEN Whole(MS(l).kvs["label"]) ELSE Name("cap"),
                    !.capCount = IntVal(MS(l), "n", 1),
                    !.capInterval = DurVal(big, MS(l), "ms", 100)]
  BY <1>1, SMTT(30) DEF BuildOp, Bare, MS, IsBare, BuildCap
<1>. HIDE DEF o, b
<1>4. IsOp(b) /\ {"frame", "disp", "filePath", "rect", "scaleNative", "scale", "label", "capCount", "capInterval"} \subseteq OpFields
  BY BareFields DEF IsBare, OpFields, b
<1>5. /\ o.frame = Frame(MS(l))
      /\ o.disp = IntVal(MS(l), "disp", 0)
      /\ o.capCount = IntVal(MS(l), "n", 1)
      /\ o.capInterval = DurVal(big, MS(l), "ms", 100)
      /\ (NameVal(MS(l), "scale", "") # "native" => ~o.scaleNative /\ o.scale = IntVal(MS(l), "scale", 1))
      /\ o.scaleNative \in BOOLEAN
      /\ (o.rect # <<>> => o.rect = <<ParseRect(MS(l).kvs["rect"])>>)
  BY <1>1, <1>3, <1>4, ZenonT(60) DEF IsOp
<1>6. IsOp(o) /\ o.kind = "capture" /\ IsBare(o, big, i, l)
  BY <1>1, <1>2 DEF OnlyThese, IsBare
<1>7. FieldsOf("capture") = {"frame", "disp", "rect", "scale", "scaleNative", "label", "capCount", "capInterval"}
  BY DEF FieldsOf
<1>8. \A f \in OpFields \ (CommonFields \cup NearFields \cup FieldsOf(o.kind)) : o[f] = ZeroOp[f]
  BY <1>2, <1>5, <1>6, <1>7, ZeroValues DEF OnlyThese, NearFields
<1>9. o.hasPoint = FALSE /\ o.point = NoPoint /\ o.shell = FALSE
  BY <1>2, ZeroValues DEF OnlyThese, OpFields, CommonFields
<1>10. o.frame # "display" => o.disp = 0
  <2>1. Has(MS(l), "disp") => Frame(MS(l)) = "display"
    BY DEF Frame
  <2>2. ~Has(MS(l), "disp") => IntVal(MS(l), "disp", 0) = 0
    BY DEF IntVal
  <2>. QED
    BY <1>5, <2>1, <2>2
<1>11. o.rect # <<>> => o.rect = <<o.rect[1]>> /\ IsRect(o.rect[1])
  <2>1. o.rect # <<>> => o.rect[1] = ParseRect(MS(l).kvs["rect"])
    <3>1. ASSUME o.rect # <<>> PROVE o.rect = <<ParseRect(MS(l).kvs["rect"])>>
      BY <1>5, <3>1, Zenon
    <3>. QED
      BY <3>1
  <2>. QED
    BY <1>5, <2>1, RectShape, Zenon
<1>12. Shaped(o)
  BY <1>5, <1>6, <1>8, <1>9, <1>10, <1>11, ZenonT(60) DEF Shaped
<1>13. o.kind \in Kinds
  BY <1>6 DEF Kinds
<1>. QED
  BY <1>5, <1>6, <1>12, <1>13 DEF BuildsShape, o

\* The operation of sleep.
LEMMA SleepShape ==
  ASSUME NEW big, NEW i, NEW l, l.cmd = "sleep", DOMAIN MS(l).kvs \subseteq Commands[l.cmd].kv
  PROVE  /\ BuildsShape(big, i, l)
         /\ BuildOp(big, i, l).sleep = Duration(big, Whole(Payload(l)))
<1>. DEFINE o == BuildOp(big, i, l)
            b == Bare(big, i, l)
<1>1. Commands[l.cmd].kind = "sleep" /\ Commands[l.cmd].payload = "sleep" /\ Commands[l.cmd].kv = {"d"}
  BY CommandRows
<1>2. OnlyThese(o, big, i, l, {"sleep"})
  BY <1>1, SleepOnly
<1>3. o = [b EXCEPT !.sleep = Duration(big, Whole(Payload(l)))]
  BY <1>1, SMTT(30) DEF BuildOp, Bare, MS, IsBare
<1>. HIDE DEF o, b
<1>4. IsOp(b) /\ {"sleep"} \subseteq OpFields
  BY BareFields DEF IsBare, OpFields, b
<1>5. /\ o.sleep = Duration(big, Whole(Payload(l)))
  BY <1>1, <1>3, <1>4, ZenonT(60) DEF IsOp
<1>6. IsOp(o) /\ o.kind = "sleep" /\ IsBare(o, big, i, l)
  BY <1>1, <1>2 DEF OnlyThese, IsBare
<1>7. FieldsOf("sleep") = {"sleep"}
  BY DEF FieldsOf
<1>8. \A f \in OpFields \ (CommonFields \cup NearFields \cup FieldsOf(o.kind)) : o[f] = ZeroOp[f]
  BY <1>2, <1>5, <1>6, <1>7, ZeroValues DEF OnlyThese, NearFields
<1>9. o.hasPoint = FALSE
  BY <1>2, ZeroValues DEF OnlyThese, OpFields, CommonFields
<1>10. o.kind \in Kinds \ {"move", "click", "button_down", "drag", "exec", "capture"}
  BY <1>6 DEF Kinds
<1>11. Shaped(o)
  BY <1>6, <1>8, <1>9, <1>10, PlainShape
<1>. QED
  BY <1>5, <1>6, <1>10, <1>11 DEF BuildsShape, o

\* The operation of set.
LEMMA SetShape ==
  ASSUME NEW big, NEW i, NEW l, l.cmd = "set", DOMAIN MS(l).kvs \subseteq Commands[l.cmd].kv
  PROVE  /\ BuildsShape(big, i, l)
<1>. DEFINE o == BuildOp(big, i, l)
            b == Bare(big, i, l)
<1>1. Commands[l.cmd].kind = "set" /\ Commands[l.cmd].payload = "none" /\ Commands[l.cmd].kv = {"delay", "txtms", "keyms", "d"}
  BY CommandRows
<1>2. OnlyThese(o, big, i, l, {"button", "setDelay", "setTxtms", "setKeyms"})
  BY <1>1, NoneOnly
<1>3. o = [b EXCEPT !.button = IF Commands[l.cmd].kind = "button_up" THEN NameVal(MS(l), "b", "left") ELSE "",
                    !.setDelay = OptDur(big, MS(l), "delay"),
                    !.setTxtms = OptDur(big, MS(l), "txtms"),
                    !.setKeyms = OptDur(big, MS(l), "keyms")]
  BY <1>1, SMTT(30) DEF BuildOp, Bare, MS, IsBare, FinishNone
<1>. HIDE DEF o, b
<1>4. IsOp(b) /\ {"button", "setDelay", "setTxtms", "setKeyms"} \subseteq OpFields
  BY BareFields DEF IsBare, OpFields, b
<1>5. /\ o.button = ""
      /\ o.setDelay = OptDur(big, MS(l), "delay")
      /\ o.setTxtms = OptDur(big, MS(l), "txtms")
      /\ o.setKeyms = OptDur(big, MS(l), "keyms")
  BY <1>1, <1>3, <1>4, ZenonT(60) DEF IsOp
<1>6. IsOp(o) /\ o.kind = "set" /\ IsBare(o, big, i, l)
  BY <1>1, <1>2 DEF OnlyThese, IsBare
<1>7. FieldsOf("set") = {"setDelay", "setTxtms", "setKeyms"}
  BY DEF FieldsOf
<1>8. \A f \in OpFields \ (CommonFields \cup NearFields \cup FieldsOf(o.kind)) : o[f] = ZeroOp[f]
  BY <1>2, <1>5, <1>6, <1>7, ZeroValues DEF OnlyThese, NearFields
<1>9. o.hasPoint = FALSE
  BY <1>2, ZeroValues DEF OnlyThese, OpFields, CommonFields
<1>10. o.kind \in Kinds \ {"move", "click", "button_down", "drag", "exec", "capture"}
  BY <1>6 DEF Kinds
<1>11. Shaped(o)
  BY <1>6, <1>8, <1>9, <1>10, PlainShape
<1>. QED
  BY <1>5, <1>6, <1>10, <1>11 DEF BuildsShape, o

\* The operation of qinfo.
LEMMA QinfoShape ==
  ASSUME NEW big, NEW i, NEW l, l.cmd = "qinfo", DOMAIN MS(l).kvs \subseteq Commands[l.cmd].kv
  PROVE  /\ BuildsShape(big, i, l)
<1>. DEFINE o == BuildOp(big, i, l)
            b == Bare(big, i, l)
<1>1. Commands[l.cmd].kind = "query_info" /\ Commands[l.cmd].payload = "none" /\ Commands[l.cmd].kv = {"d"}
  BY CommandRows
<1>2. OnlyThese(o, big, i, l, {"button", "setDelay", "setTxtms", "setKeyms"})
  BY <1>1, NoneOnly
<1>h. ~Has(MS(l), "delay") /\ ~Has(MS(l), "txtms") /\ ~Has(MS(l), "keyms")
  BY <1>1 DEF Has
<1>3. o = [b EXCEPT !.button = IF Commands[l.cmd].kind = "button_up" THEN NameVal(MS(l), "b", "left") ELSE "",
                    !.setDelay = OptDur(big, MS(l), "delay"),
                    !.setTxtms = OptDur(big, MS(l), "txtms"),
                    !.setKeyms = OptDur(big, MS(l), "keyms")]
  BY <1>1, SMTT(30) DEF BuildOp, Bare, MS, IsBare, FinishNone
<1>. HIDE DEF o, b
<1>4. IsOp(b) /\ {"button", "setDelay", "setTxtms", "setKeyms"} \subseteq OpFields
  BY BareFields DEF IsBare, OpFields, b
<1>5. /\ o.button = ""
      /\ o.setDelay = <<>>
      /\ o.setTxtms = <<>>
      /\ o.setKeyms = <<>>
  BY <1>1, <1>h, <1>3, <1>4, ZenonT(60) DEF IsOp, OptDur, DurVal
<1>6. IsOp(o) /\ o.kind = "query_info" /\ IsBare(o, big, i, l)
  BY <1>1, <1>2 DEF OnlyThese, IsBare
<1>7. FieldsOf("query_info") = {}
  BY DEF FieldsOf
<1>8. \A f \in OpFields \ (CommonFields \cup NearFields \cup FieldsOf(o.kind)) : o[f] = ZeroOp[f]
  BY <1>2, <1>5, <1>6, <1>7, ZeroValues DEF OnlyThese, NearFields
<1>9. o.hasPoint = FALSE
  BY <1>2, ZeroValues DEF OnlyThese, OpFields, CommonFields
<1>10. o.kind \in Kinds \ {"move", "click", "button_down", "drag", "exec", "capture"}
  BY <1>6 DEF Kinds
<1>11. Shaped(o)
  BY <1>6, <1>8, <1>9, <1>10, PlainShape
<1>. QED
  BY <1>5, <1>6, <1>10, <1>11 DEF BuildsShape, o

\* The operation of qdisp.
LEMMA QdispShape ==
  ASSUME NEW big, NEW i, NEW l, l.cmd = "qdisp", DOMAIN MS(l).kvs \subseteq Commands[l.cmd].kv
  PROVE  /\ BuildsShape(big, i, l)
<1>. DEFINE o == BuildOp(big, i, l)
            b == Bare(big, i, l)
<1>1. Commands[l.cmd].kind = "query_displays" /\ Commands[l.cmd].payload = "none" /\ Commands[l.cmd].kv = {"d"}
  BY CommandRows
<1>2. OnlyThese(o, big, i, l, {"button", "setDelay", "setTxtms", "setKeyms"})
  BY <1>1, NoneOnly
<1>h. ~Has(MS(l), "delay") /\ ~Has(MS(l), "txtms") /\ ~Has(MS(l), "keyms")
  BY <1>1 DEF Has
<1>3. o = [b EXCEPT !.button = IF Commands[l.cmd].kind = "button_up" THEN NameVal(MS(l), "b", "left") ELSE "",
                    !.setDelay = OptDur(big, MS(l), "delay"),
                    !.setTxtms = OptDur(big, MS(l), "txtms"),
                    !.setKeyms = OptDur(big, MS(l), "keyms")]
  BY <1>1, SMTT(30) DEF BuildOp, Bare, MS, IsBare, FinishNone
<1>. HIDE DEF o, b
<1>4. IsOp(b) /\ {"button", "setDelay", "setTxtms", "setKeyms"} \subseteq OpFields
  BY BareFields DEF IsBare, OpFields, b
<1>5. /\ o.button = ""
      /\ o.setDelay = <<>>
      /\ o.setTxtms = <<>>
      /\ o.setKeyms = <<>>
  BY <1>1, <1>h, <1>3, <1>4, ZenonT(60) DEF IsOp, OptDur, DurVal
<1>6. IsOp(o) /\ o.kind = "query_displays" /\ IsBare(o, big, i, l)
  BY <1>1, <1>2 DEF OnlyThese, IsBare
<1>7. FieldsOf("query_displays") = {}
  BY DEF FieldsOf
<1>8. \A f \in OpFields \ (CommonFields \cup NearFields \cup FieldsOf(o.kind)) : o[f] = ZeroOp[f]
  BY <1>2, <1>5, <1>6, <1>7, ZeroValues DEF OnlyThese, NearFields
<1>9. o.hasPoint = FALSE
  BY <1>2, ZeroValues DEF OnlyThese, OpFields, CommonFields
<1>10. o.kind \in Kinds \ {"move", "click", "button_down", "drag", "exec", "capture"}
  BY <1>6 DEF Kinds
<1>11. Shaped(o)
  BY <1>6, <1>8, <1>9, <1>10, PlainShape
<1>. QED
  BY <1>5, <1>6, <1>10, <1>11 DEF BuildsShape, o

\* The operation of qmouse.
LEMMA QmouseShape ==
  ASSUME NEW big, NEW i, NEW l, l.cmd = "qmouse", DOMAIN MS(l).kvs \subseteq Commands[l.cmd].kv
  PROVE  /\ BuildsShape(big, i, l)
<1>. DEFINE o == BuildOp(big, i, l)
            b == Bare(big, i, l)
<1>1. Commands[l.cmd].kind = "query_mouse" /\ Commands[l.cmd].payload = "none" /\ Commands[l.cmd].kv = {"d"}
  BY CommandRows
<1>2. OnlyThese(o, big, i, l, {"button", "setDelay", "setTxtms", "setKeyms"})
  BY <1>1, NoneOnly
<1>h. ~Has(MS(l), "delay") /\ ~Has(MS(l), "txtms") /\ ~Has(MS(l), "keyms")
  BY <1>1 DEF Has
<1>3. o = [b EXCEPT !.button = IF Commands[l.cmd].kind = "button_up" THEN NameVal(MS(l), "b", "left") ELSE "",
                    !.setDelay = OptDur(big, MS(l), "delay"),
                    !.setTxtms = OptDur(big, MS(l), "txtms"),
                    !.setKeyms = OptDur(big, MS(l), "keyms")]
  BY <1>1, SMTT(30) DEF BuildOp, Bare, MS, IsBare, FinishNone
<1>. HIDE DEF o, b
<1>4. IsOp(b) /\ {"button", "setDelay", "setTxtms", "setKeyms"} \subseteq OpFields
  BY BareFields DEF IsBare, OpFields, b
<1>5. /\ o.button = ""
      /\ o.setDelay = <<>>
      /\ o.setTxtms = <<>>
      /\ o.setKeyms = <<>>
  BY <1>1, <1>h, <1>3, <1>4, ZenonT(60) DEF IsOp, OptDur, DurVal
<1>6. IsOp(o) /\ o.kind = "query_mouse" /\ IsBare(o, big, i, l)
  BY <1>1, <1>2 DEF OnlyThese, IsBare
<1>7. FieldsOf("query_mouse") = {}
  BY DEF FieldsOf
<1>8. \A f \in OpFields \ (CommonFields \cup NearFields \cup FieldsOf(o.kind)) : o[f] = ZeroOp[f]
  BY <1>2, <1>5, <1>6, <1>7, ZeroValues DEF OnlyThese, NearFields
<1>9. o.hasPoint = FALSE
  BY <1>2, ZeroValues DEF OnlyThese, OpFields, CommonFields
<1>10. o.kind \in Kinds \ {"move", "click", "button_down", "drag", "exec", "capture"}
  BY <1>6 DEF Kinds
<1>11. Shaped(o)
  BY <1>6, <1>8, <1>9, <1>10, PlainShape
<1>. QED
  BY <1>5, <1>6, <1>10, <1>11 DEF BuildsShape, o

\* Every operation that a line is taken for.
LEMMA BuiltShape ==
  ASSUME NEW big, NEW i, NEW l, l.form = "stmt", ~Malformed(l)
  PROVE  BuildsShape(big, i, l)
<1>1. DOMAIN MS(l).kvs \subseteq Commands[l.cmd].kv /\ l.cmd \in DOMAIN Commands
  BY Parsed
<1>2. CASE l.cmd = "k"
  BY <1>1, <1>2, KShape
<1>3. CASE l.cmd = "kd"
  BY <1>1, <1>3, KdShape
<1>4. CASE l.cmd = "ku"
  BY <1>1, <1>4, KuShape
<1>5. CASE l.cmd = "txt"
  BY <1>1, <1>5, TxtShape
<1>6. CASE l.cmd = "m"
  BY <1>1, <1>6, MShape
<1>7. CASE l.cmd = "c"
  BY <1>1, <1>7, CShape
<1>8. CASE l.cmd = "md"
  BY <1>1, <1>8, MdShape
<1>9. CASE l.cmd = "mu"
  BY <1>1, <1>9, MuShape
<1>10. CASE l.cmd = "drag"
  BY <1>1, <1>10, DragShape
<1>11. CASE l.cmd = "scroll"
  BY <1>1, <1>11, ScrollShape
<1>12. CASE l.cmd = "clip"
  BY <1>1, <1>12, ClipShape
<1>13. CASE l.cmd = "paste"
  BY <1>1, <1>13, PasteShape
<1>14. CASE l.cmd = "qclip"
  BY <1>1, <1>14, QclipShape
<1>15. CASE l.cmd = "rclip"
  BY <1>1, <1>15, RclipShape
<1>16. CASE l.cmd = "win"
  BY <1>1, <1>16, WinShape
<1>17. CASE l.cmd = "qwin"
  BY <1>1, <1>17, QwinShape
<1>18. CASE l.cmd = "open"
  BY <1>1, <1>18, OpenShape
<1>19. CASE l.cmd = "exec"
  BY <1>1, <1>19, ExecShape
<1>20. CASE l.cmd = "cap"
  BY <1>1, <1>20, CapShape
<1>21. CASE l.cmd = "sleep"
  BY <1>1, <1>21, SleepShape
<1>22. CASE l.cmd = "set"
  BY <1>1, <1>22, SetShape
<1>23. CASE l.cmd = "qinfo"
  BY <1>1, <1>23, QinfoShape
<1>24. CASE l.cmd = "qdisp"
  BY <1>1, <1>24, QdispShape
<1>25. CASE l.cmd = "qmouse"
  BY <1>1, <1>25, QmouseShape
<1>. QED
  BY <1>1, <1>2, <1>3, <1>4, <1>5, <1>6, <1>7, <1>8, <1>9, <1>10, <1>11, <1>12, <1>13, <1>14, <1>15, <1>16, <1>17, <1>18, <1>19, <1>20, <1>21, <1>22, <1>23, <1>24, <1>25, CommandNames

-----------------------------------------------------------------------------
(* The sequence of operations.                                             *)

\* A sequence, over whatever it holds.
IsSeq(s) == s \in Seq(ToSet(s))

\* A member of Seq(S) is a sequence.
LEMMA SeqIsSeq ==
  ASSUME NEW S, NEW s \in Seq(S)
  PROVE  IsSeq(s) /\ DOMAIN s = 1..Len(s) /\ Len(s) \in Nat
<1>1. DOMAIN s = 1..Len(s) /\ Len(s) \in Nat /\ s = [i \in 1..Len(s) |-> s[i]]
  OBVIOUS
<1>2. \A i \in 1..Len(s) : s[i] \in ToSet(s)
  BY <1>1 DEF ToSet
<1>3. s \in [1..Len(s) -> ToSet(s)]
  BY <1>1, <1>2
<1>. DEFINE T == ToSet(s)
<1>. HIDE DEF T
<1>4. s \in [1..Len(s) -> T]
  BY <1>3 DEF T
<1>5. s \in UNION {[1..z -> T] : z \in Nat}
  BY <1>1, <1>4
<1>6. s \in Seq(T)
  BY <1>5, SeqDef, Zenon
<1>7. IsSeq(s)
  BY <1>6, Zenon DEF T, IsSeq
<1>. QED
  BY ONLY <1>1, <1>7

\* The places of a sequence are 1 to its length.
LEMMA SeqDomain ==
  ASSUME NEW s, IsSeq(s)
  PROVE  DOMAIN s = 1..Len(s) /\ Len(s) \in Nat
  BY DEF IsSeq

\* A sequence with one element more.
LEMMA AppendSeq ==
  ASSUME NEW s, IsSeq(s), NEW e
  PROVE  /\ IsSeq(Append(s, e)) /\ Len(Append(s, e)) = Len(s) + 1
         /\ DOMAIN Append(s, e) = 1..(Len(s) + 1)
         /\ \A i \in DOMAIN s : Append(s, e)[i] = s[i]
         /\ Append(s, e)[Len(s) + 1] = e
<1>. DEFINE S == ToSet(s) \cup {e}
<1>1. s \in Seq(S) /\ e \in S
  BY DEF IsSeq
<1>. HIDE DEF S
<1>2. /\ Append(s, e) \in Seq(S) /\ Len(Append(s, e)) = Len(s) + 1
      /\ \A i \in 1..Len(s) : Append(s, e)[i] = s[i]
      /\ Append(s, e)[Len(s) + 1] = e
  BY <1>1, AppendProperties
<1>. DEFINE t == Append(s, e)
<1>3. t \in Seq(S)
  BY <1>2
<1>. HIDE DEF t
<1>4. IsSeq(t)
  BY ONLY <1>3, SeqIsSeq, Zenon
<1>5. DOMAIN t = 1..Len(t) /\ DOMAIN s = 1..Len(s) /\ Len(s) \in Nat
  BY <1>4, SeqDomain
<1>. QED
  BY <1>2, <1>4, <1>5 DEF t

\* A sequence with one element replaced.
LEMMA ReplacedSeq ==
  ASSUME NEW s, IsSeq(s), NEW i \in DOMAIN s, NEW e
  PROVE  /\ IsSeq([s EXCEPT ![i] = e]) /\ Len([s EXCEPT ![i] = e]) = Len(s)
         /\ DOMAIN [s EXCEPT ![i] = e] = DOMAIN s
         /\ [s EXCEPT ![i] = e][i] = e
         /\ \A j \in DOMAIN s \ {i} : [s EXCEPT ![i] = e][j] = s[j]
<1>. DEFINE S == ToSet(s) \cup {e}
            t == [s EXCEPT ![i] = e]
<1>1. s \in Seq(S) /\ e \in S
  BY DEF IsSeq
<1>2. t \in Seq(S) /\ Len(t) = Len(s) /\ DOMAIN t = DOMAIN s
  BY <1>1
<1>3. t[i] = e /\ \A j \in DOMAIN s \ {i} : t[j] = s[j]
  OBVIOUS
<1>. HIDE DEF t
<1>4. IsSeq(t)
  BY ONLY <1>2, SeqIsSeq, Zenon
<1>. QED
  BY <1>2, <1>3, <1>4 DEF t

\* A line that is not complained of, and not empty, is a statement.
LEMMA NotMalformed ==
  ASSUME NEW l, IsCut(l), l.form \notin {"blank", "comment"}, ~Malformed(l)
  PROVE  l.form = "stmt"
  BY DEF IsCut, Lines, Malformed

\* A text without its carriage return is a text.
LEMMA DropCRSeq ==
  ASSUME NEW s \in Seq(STRING)
  PROVE  DropCR(s) \in Seq(STRING) /\ (DropCR(s) # <<>> => s # <<>>)
<1>1. CASE s # <<>> /\ Last(s) = "CR"
  BY <1>1 DEF DropCR, Front
<1>2. CASE ~(s # <<>> /\ Last(s) = "CR")
  BY <1>2 DEF DropCR
<1>. QED
  BY <1>1, <1>2

\* A line as the scanner reads it.
LEMMA ReadCut ==
  ASSUME NEW l, IsCut(l)
  PROVE  IsCut([l EXCEPT !.chars = DropCR(@)])
<1>1. l \in Lines
  BY DEF IsCut
<1>2. DropCR(l.chars) \in Seq(STRING) /\ (DropCR(l.chars) # <<>> => l.chars # <<>>)
  BY <1>1, DropCRSeq DEF Lines
<1>. QED
  BY <1>1, <1>2, Zenon DEF IsCut, Lines

-----------------------------------------------------------------------------
(* Lines and the operations they were taken for.                           *)

\* How many statements there are up to line z, which is where the operation of line z is.
Rank(d, z) == Cardinality({h \in 1..z : d[h].form = "stmt"})

\* o was built of line i, and its file has or has not yet been read.
Built(o, big, i, l) ==
  /\ IsOp(o)
  /\ \A x \in OpFields \ {"text", "hasText"} : o[x] = BuildOp(big, i, l)[x]
  /\ IF o.fromFile THEN o.text \in Seq(STRING) ELSE o.text = BuildOp(big, i, l).text

\* s is what the first z lines of d were taken for.
Match(d, s, z, big) ==
  /\ IsSeq(s) /\ Len(s) = Rank(d, z)
  /\ \A i \in 1..z : /\ d[i].form \in {"stmt", "blank", "comment"}
                     /\ d[i].form = "stmt" => /\ ~Malformed(d[i])
                                              /\ Rank(d, i) \in 1..Len(s)
                                              /\ Built(s[Rank(d, i)], big, i, d[i])
  /\ \A j \in 1..Len(s) : \E i \in 1..z : d[i].form = "stmt" /\ j = Rank(d, i)

\* Rank, line by line.
LEMMA RankStep ==
  ASSUME NEW d, NEW z \in Nat
  PROVE  /\ Rank(d, 0) = 0 /\ Rank(d, z) \in Nat
         /\ d[z + 1].form = "stmt" => Rank(d, z + 1) = Rank(d, z) + 1
         /\ d[z + 1].form # "stmt" => Rank(d, z + 1) = Rank(d, z)
<1>. DEFINE S(k) == {h \in 1..k : d[h].form = "stmt"}
<1>1. S(0) = {}
  OBVIOUS
<1>2. IsFiniteSet(S(z))
  <2>1. IsFiniteSet(1..z) /\ S(z) \subseteq 1..z
    BY FS_Interval
  <2>. QED
    BY <2>1, FS_Subset
<1>3. Cardinality(S(z)) \in Nat
  BY <1>2, FS_CardinalityType
<1>4. d[z + 1].form = "stmt" => S(z + 1) = S(z) \cup {z + 1} /\ z + 1 \notin S(z)
  OBVIOUS
<1>5. d[z + 1].form # "stmt" => S(z + 1) = S(z)
  <2>1. \A h \in 1..(z + 1) : h \in 1..z \/ h = z + 1
    OBVIOUS
  <2>. QED
    BY <2>1
<1>6. \A k : Rank(d, k) = Cardinality(S(k))
  BY DEF Rank
<1>7. Cardinality(S(0)) = 0
  BY <1>1, FS_EmptySet
<1>. HIDE DEF S
<1>8. d[z + 1].form = "stmt" => Cardinality(S(z + 1)) = Cardinality(S(z)) + 1
  BY <1>2, <1>4, FS_AddElement
<1>. QED
  BY <1>3, <1>5, <1>6, <1>7, <1>8

\* The statements among the first lines are numbered from 1, in order.
LEMMA RankOrder ==
  ASSUME NEW d, NEW z \in Nat, NEW i \in 1..z
  PROVE  /\ Rank(d, i) \in Nat /\ Rank(d, z) \in Nat /\ Rank(d, i) <= Rank(d, z)
         /\ d[i].form = "stmt" => Rank(d, i) \in 1..Rank(d, z)
<1>. DEFINE S(k) == {h \in 1..k : d[h].form = "stmt"}
<1>1. IsFiniteSet(S(z)) /\ S(i) \subseteq S(z)
  <2>1. IsFiniteSet(1..z) /\ S(z) \subseteq 1..z /\ S(i) \subseteq S(z)
    BY FS_Interval
  <2>. QED
    BY <2>1, FS_Subset
<1>2. Cardinality(S(i)) <= Cardinality(S(z))
  BY <1>1, FS_Subset
<1>3. Rank(d, i) = Cardinality(S(i)) /\ Rank(d, z) = Cardinality(S(z))
  BY DEF Rank
<1>. HIDE DEF S
<1>4. Rank(d, i) \in Nat /\ Rank(d, z) \in Nat
  BY RankStep
<1>5. d[i].form = "stmt" => Rank(d, i) >= 1
  <2>1. PICK k \in Nat : i = k + 1
    OBVIOUS
  <2>2. Rank(d, k) \in Nat /\ (d[k + 1].form = "stmt" => Rank(d, k + 1) = Rank(d, k) + 1)
    BY RankStep
  <2>. QED
    BY <2>1, <2>2
<1>. QED
  BY <1>2, <1>3, <1>4, <1>5

\* Before the first line there is no operation.
LEMMA MatchEmpty ==
  ASSUME NEW d, NEW big
  PROVE  Match(d, <<>>, 0, big)
<1>1. IsSeq(<<>>) /\ Len(<<>>) = 0
  BY DEF IsSeq, ToSet
<1>2. Rank(d, 0) = 0
  BY RankStep
<1>. QED
  BY <1>1, <1>2 DEF Match

\* A line without a statement adds none.
LEMMA MatchSkip ==
  ASSUME NEW d, NEW s, NEW z \in Nat, NEW big, Match(d, s, z, big), d[z + 1].form \in {"blank", "comment"}
  PROVE  Match(d, s, z + 1, big)
<1>1. Rank(d, z + 1) = Rank(d, z)
  BY RankStep
<1>2. \A i \in 1..(z + 1) : i \in 1..z \/ i = z + 1
  OBVIOUS
<1>3. \A i \in 1..z : i \in 1..(z + 1)
  OBVIOUS
<1>. QED
  BY <1>1, <1>2, <1>3, Zenon DEF Match

\* An operation that is to read a file has no text yet.
LEMMA FileText ==
  ASSUME NEW big, NEW i, NEW l, l.form = "stmt", ~Malformed(l), BuildOp(big, i, l).fromFile
  PROVE  BuildOp(big, i, l).text = <<>>
<1>. DEFINE o == BuildOp(big, i, l)
<1>1. Shaped(o)
  BY BuiltShape DEF BuildsShape
<1>2. o.kind = Commands[l.cmd].kind /\ l.cmd \in DOMAIN Commands
  BY BuiltShape, Parsed DEF BuildsShape, IsBare
<1>3. CASE l.cmd \in {"txt", "clip", "paste"}
  <2>. DEFINE m == MS(l)
              b == Bare(big, i, l)
  <2>1. Commands[l.cmd].payload = "text"
    BY <1>3, CommandRows
  <2>2. o = BuildText(big, b, l, m)
    BY <2>1 DEF BuildOp, MS, Bare
  <2>3. IsOp(b) /\ {"text", "fromFile", "hasText", "filePath", "interval"} \subseteq OpFields
    BY BareFields DEF OpFields, IsBare
  <2>4. o.fromFile = ("f" \in m.flags)
    BY <2>2, <2>3, ZenonT(30) DEF BuildText, IsOp
  <2>5. o.text = IF "f" \in m.flags THEN <<>> ELSE ApplyEscapes(l.chars).out
    BY <2>2, <2>3, ZenonT(30) DEF BuildText, IsOp
  <2>. QED
    BY <2>4, <2>5
<1>4. CASE l.cmd \notin {"txt", "clip", "paste"}
  <2>1. "text" \in OpFields \ (CommonFields \cup NearFields \cup FieldsOf(o.kind))
    BY <1>2, <1>4, CommandNames, CommandRows DEF OpFields, CommonFields, NearFields, FieldsOf
  <2>2. o.text = ZeroOp.text
    BY <1>1, <2>1, Zenon DEF Shaped
  <2>. QED
    BY <2>2 DEF ZeroOp
<1>. QED
  BY <1>3, <1>4

\* buildOp's result is built of its line.
LEMMA BuiltOfLine ==
  ASSUME NEW big, NEW i, NEW l, l.form = "stmt", ~Malformed(l)
  PROVE  Built(BuildOp(big, i, l), big, i, l)
<1>. DEFINE o == BuildOp(big, i, l)
<1>0. BuildsShape(big, i, l)
  BY BuiltShape
<1>1. IsOp(o) /\ (o.fromFile => o.text = <<>>)
  BY <1>0, FileText, Zenon DEF BuildsShape, Shaped
<1>2. <<>> \in Seq(STRING)
  OBVIOUS
<1>. HIDE DEF o
<1>3. o.fromFile => o.text \in Seq(STRING)
  BY <1>1, <1>2
<1>. QED
  BY <1>1, <1>3, Zenon DEF o, Built

\* A statement adds its operation.
LEMMA MatchNext ==
  ASSUME NEW d, NEW s, NEW z \in Nat, NEW big, Match(d, s, z, big),
         d[z + 1].form = "stmt", ~Malformed(d[z + 1])
  PROVE  Match(d, Append(s, BuildOp(big, z + 1, d[z + 1])), z + 1, big)
<1>. DEFINE o == BuildOp(big, z + 1, d[z + 1])
            t == Append(s, o)
<1>1. Rank(d, z + 1) = Rank(d, z) + 1 /\ Rank(d, z) = Len(s) /\ Len(s) \in Nat /\ IsSeq(s)
  BY RankStep DEF Match
<1>2. IsSeq(t) /\ Len(t) = Len(s) + 1 /\ t[Len(s) + 1] = o /\ DOMAIN s = 1..Len(s) /\ \A j \in DOMAIN s : t[j] = s[j]
  BY <1>1, AppendSeq, SeqDomain
<1>3. Built(o, big, z + 1, d[z + 1])
  BY BuiltOfLine
<1>. HIDE DEF o, t
<1>4. ASSUME NEW i \in 1..(z + 1)
      PROVE  /\ d[i].form \in {"stmt", "blank", "comment"}
             /\ d[i].form = "stmt" => /\ ~Malformed(d[i])
                                      /\ Rank(d, i) \in 1..Len(t)
                                      /\ Built(t[Rank(d, i)], big, i, d[i])
  <2>1. CASE i = z + 1
    BY <1>1, <1>2, <1>3, <2>1
  <2>2. CASE i # z + 1
    <3>1. i \in 1..z
      BY <2>2
    <3>2. d[i].form \in {"stmt", "blank", "comment"}
      BY <3>1 DEF Match
    <3>3. ASSUME d[i].form = "stmt"
          PROVE  ~Malformed(d[i]) /\ Rank(d, i) \in 1..Len(t) /\ Built(t[Rank(d, i)], big, i, d[i])
      <4>1. ~Malformed(d[i]) /\ Rank(d, i) \in 1..Len(s) /\ Built(s[Rank(d, i)], big, i, d[i])
        BY <3>1, <3>3 DEF Match
      <4>2. t[Rank(d, i)] = s[Rank(d, i)]
        BY <1>2, <4>1
      <4>. QED
        BY <1>1, <1>2, <4>1, <4>2
    <3>. QED
      BY <3>2, <3>3
  <2>. QED
    BY <2>1, <2>2
<1>5. ASSUME NEW j \in 1..Len(t)
      PROVE  \E i \in 1..(z + 1) : d[i].form = "stmt" /\ j = Rank(d, i)
  <2>1. CASE j = Len(s) + 1
    <3>1. z + 1 \in 1..(z + 1)
      OBVIOUS
    <3>. QED
      BY <1>1, <2>1, <3>1
  <2>2. CASE j # Len(s) + 1
    <3>1. j \in 1..Len(s)
      BY <1>1, <1>2, <2>2
    <3>2. PICK i \in 1..z : d[i].form = "stmt" /\ j = Rank(d, i)
      BY <3>1 DEF Match
    <3>3. i \in 1..(z + 1)
      OBVIOUS
    <3>. QED
      BY <3>2, <3>3
  <2>. QED
    BY <2>1, <2>2
<1>6. Match(d, t, z + 1, big)
  BY <1>1, <1>2, <1>4, <1>5, Zenon DEF Match
<1>. QED
  BY <1>6 DEF t, o

\* An operation that has read its file is still built of its line.
LEMMA InlineBuilt ==
  ASSUME NEW o, NEW big, NEW i, NEW l, Built(o, big, i, l), o.fromFile, NEW data \in Seq(STRING)
  PROVE  Built([o EXCEPT !.text = data, !.hasText = TRUE], big, i, l)
<1>. DEFINE u == [o EXCEPT !.text = data, !.hasText = TRUE]
<1>1. {"text", "hasText", "fromFile"} \subseteq OpFields /\ IsOp(o)
  BY DEF OpFields, Built
<1>2. IsOp(u) /\ \A x \in OpFields \ {"text", "hasText"} : u[x] = o[x]
  BY <1>1, ZenonT(30) DEF IsOp
<1>3. u.text = data
  BY <1>1, ZenonT(30) DEF IsOp
<1>. HIDE DEF u
<1>4. u.fromFile = o.fromFile
  BY <1>1, <1>2, Zenon
<1>5. Built(u, big, i, l)
  BY <1>2, <1>3, <1>4, Zenon DEF Built
<1>. QED
  BY <1>5 DEF u

\* Inlining keeps the operations matched with the lines.
LEMMA MatchInline ==
  ASSUME NEW d, NEW s, NEW z \in Nat, NEW big, Match(d, s, z, big),
         NEW j \in DOMAIN s, s[j].fromFile, NEW data \in Seq(STRING)
  PROVE  Match(d, [s EXCEPT ![j].text = data, ![j].hasText = TRUE], z, big)
<1>. DEFINE u == [s[j] EXCEPT !.text = data, !.hasText = TRUE]
            t == [s EXCEPT ![j] = u]
<1>0. IsSeq(s) /\ DOMAIN s = 1..Len(s)
  BY SeqDomain DEF Match
<1>1. [s EXCEPT ![j].text = data, ![j].hasText = TRUE] = t
  BY <1>0, Zenon DEF IsSeq
<1>2. IsSeq(t) /\ Len(t) = Len(s) /\ t[j] = u /\ \A h \in 1..Len(s) : h # j => t[h] = s[h]
  <2>. HIDE DEF u
  <2>1. IsSeq(t) /\ Len(t) = Len(s) /\ t[j] = u /\ \A h \in DOMAIN s \ {j} : t[h] = s[h]
    BY <1>0, ReplacedSeq
  <2>. HIDE DEF t
  <2>. QED
    BY <1>0, <2>1
<1>3. \A i \in 1..z : Built(s[j], big, i, d[i]) => Built(u, big, i, d[i])
  BY InlineBuilt
<1>. HIDE DEF u, t
<1>4. \A i \in 1..z : d[i].form = "stmt" => Built(t[Rank(d, i)], big, i, d[i])
  BY <1>2, <1>3 DEF Match
<1>5. Match(d, t, z, big)
  BY <1>2, <1>4, Zenon DEF Match
<1>. QED
  BY <1>1, <1>5

-----------------------------------------------------------------------------
(* The values of one line.                                                  *)

\* A number as written is an integer.
LEMMA WholeInt ==
  ASSUME NEW w \in Words
  PROVE  Whole(w).n \in Int
<1>1. CASE w.sep = ""
  <2>1. w.parts \in Seq(Values) /\ w.parts # <<>>
    BY DEF Words
  <2>2. w.parts[1] \in Values
    BY <2>1
  <2>. QED
    BY <1>1, <2>2 DEF Whole, Values
<1>2. CASE w.sep # ""
  <2>1. Garbled.n = 0
    BY Zenon DEF Garbled, Name
  <2>2. Whole(w) = Garbled
    BY <1>2, Zenon DEF Whole
  <2>. QED
    BY <2>1, <2>2
<1>. QED
  BY <1>1, <1>2

\* What is written after a key is a word of the line.
LEMMA KvWord ==
  ASSUME NEW l, IsCut(l), NEW k, Has(MS(l), k)
  PROVE  MS(l).kvs[k] \in Words
<1>. DEFINE kvs == {t \in ToSet(l.mods) : t.eq}
<1>1. \A t \in kvs : t.val \in Words
  <2>1. l.mods \in Seq(Tokens)
    BY DEF IsCut, Lines
  <2>2. \A t \in ToSet(l.mods) : t \in Tokens
    BY <2>1 DEF ToSet
  <2>3. \A t \in Tokens : t.val \in Words
    BY Zenon DEF Tokens
  <2>. QED
    BY <2>2, <2>3
<1>2. /\ DOMAIN MS(l).kvs = {t.key : t \in kvs}
      /\ \A x \in DOMAIN MS(l).kvs : MS(l).kvs[x] = (CHOOSE t \in kvs : t.key = x).val
  BY Zenon DEF MS, ModSet
<1>. HIDE DEF kvs
<1>3. \E t \in kvs : t.key = k
  BY <1>2 DEF Has
<1>4. (CHOOSE t \in kvs : t.key = k) \in kvs
  BY <1>3
<1>. QED
  BY <1>1, <1>2, <1>4 DEF Has

-----------------------------------------------------------------------------
(* What FlattenSeq computes.  The induction theorems of the library take a  *)
(* predicate; WFMin takes a set, and a set of numbers is all it takes here. *)

\* Induction over a set of numbers.
LEMMA Induction ==
  ASSUME NEW S \in SUBSET Nat, 0 \in S, \A z \in S : z + 1 \in S
  PROVE  S = Nat
<1>. DEFINE Less == {p \in Nat \X Nat : p[1] < p[2]}
<1>1. IsWellFoundedOn(Less, Nat)
  <2>1. IsWellFoundedOn(OpToRel(<, Nat), Nat)
    BY NatLessThanWellFounded
  <2>2. OpToRel(<, Nat) = Less
    BY DEF OpToRel
  <2>. QED
    BY <2>1, <2>2
<1>. SUFFICES ASSUME Nat \ S # {} PROVE FALSE
  OBVIOUS
<1>2. PICK x \in Nat \ S : \A y \in Nat \ S : ~(<<y, x>> \in Less)
  BY <1>1, WFMin
<1>3. x # 0 /\ x - 1 \in Nat /\ <<x - 1, x>> \in Less
  OBVIOUS
<1>4. x - 1 \in S
  BY <1>2, <1>3
<1>. QED
  BY <1>2, <1>3, <1>4

\* f holds the first k partial concatenations of seqs.
Flattens(f, seqs, k) ==
  /\ DOMAIN f = 1..k
  /\ f = [i \in 1..k |-> IF i = 1 THEN seqs[i] ELSE f[i - 1] \o seqs[i]]

\* The function by which FlattenSeq is defined exists.
LEMMA FlattensExists ==
  ASSUME NEW seqs, NEW z \in Nat
  PROVE  \E f : Flattens(f, seqs, z)
<1>. DEFINE S == {k \in Nat : \E f : Flattens(f, seqs, k)}
<1>1. 0 \in S
  <2>1. Flattens([i \in 1..0 |-> 0], seqs, 0)
    BY DEF Flattens
  <2>. QED
    BY <2>1
<1>2. ASSUME NEW k \in S PROVE k + 1 \in S
  <2>1. PICK f : Flattens(f, seqs, k)
    OBVIOUS
  <2>. DEFINE g == [i \in 1..k + 1 |-> IF i = k + 1
                                       THEN IF i = 1 THEN seqs[i] ELSE f[i - 1] \o seqs[i]
                                       ELSE f[i]]
  <2>2. k \in Nat
    OBVIOUS
  <2>3. \A i \in 1..k : g[i] = f[i]
    BY <2>2
  <2>4. ASSUME NEW i \in 1..k + 1
        PROVE  g[i] = IF i = 1 THEN seqs[i] ELSE g[i - 1] \o seqs[i]
    <3>1. CASE i = k + 1
      <4>1. i # 1 => i - 1 \in 1..k
        BY <2>2
      <4>2. i # 1 => g[i - 1] = f[i - 1]
        BY <2>3, <4>1
      <4>. QED
        BY <3>1, <4>2
    <3>2. CASE i # k + 1
      <4>1. i \in 1..k /\ (i # 1 => i - 1 \in 1..k)
        BY <2>2, <3>2
      <4>2. f[i] = IF i = 1 THEN seqs[i] ELSE f[i - 1] \o seqs[i]
        BY <2>1, <4>1 DEF Flattens
      <4>3. g[i] = f[i] /\ (i # 1 => g[i - 1] = f[i - 1])
        BY <2>3, <4>1
      <4>. QED
        BY <4>2, <4>3
    <3>. QED
      BY <3>1, <3>2
  <2>5. DOMAIN g = 1..k + 1
    OBVIOUS
  <2>6. g = [i \in 1..k + 1 |-> g[i]]
    OBVIOUS
  <2>. HIDE DEF g
  <2>7. g = [i \in 1..k + 1 |-> IF i = 1 THEN seqs[i] ELSE g[i - 1] \o seqs[i]]
    BY <2>4, <2>6
  <2>8. Flattens(g, seqs, k + 1)
    BY <2>5, <2>7 DEF Flattens
  <2>. QED
    BY <2>2, <2>8
<1>. HIDE DEF S
<1>3. S = Nat
  <2>1. S \in SUBSET Nat
    BY DEF S
  <2>. QED
    BY <1>1, <1>2, <2>1, Induction
<1>. QED
  BY <1>3 DEF S

\* Two sequences that begin alike.
SameUpTo(s, t, z) == \A i \in 1..z : s[i] = t[i]

\* Two of them agree where both are defined, also if the sequences only share a beginning.
LEMMA FlattensAgree ==
  ASSUME NEW s, NEW t, NEW f, NEW g, NEW m \in Nat, NEW z \in Nat,
         Flattens(f, s, m), Flattens(g, t, z),
         NEW l \in Nat, l <= m, l <= z, SameUpTo(s, t, l)
  PROVE  SameUpTo(f, g, l)
<1>. DEFINE S == {k \in Nat : k \in 1..l => f[k] = g[k]}
<1>1. 0 \in S
  OBVIOUS
<1>2. ASSUME NEW k \in S PROVE k + 1 \in S
  <2>1. k \in Nat
    OBVIOUS
  <2>. SUFFICES ASSUME k + 1 \in 1..l PROVE f[k + 1] = g[k + 1]
    BY <2>1
  <2>2. k + 1 \in 1..m /\ k + 1 \in 1..z /\ s[k + 1] = t[k + 1]
    BY <2>1 DEF SameUpTo
  <2>. DEFINE i == k + 1
  <2>. HIDE DEF i
  <2>a. i \in 1..m /\ i \in 1..z
    BY <2>2 DEF i
  <2>b. f[i] = IF i = 1 THEN s[i] ELSE f[i - 1] \o s[i]
    BY <2>a DEF Flattens
  <2>c. g[i] = IF i = 1 THEN t[i] ELSE g[i - 1] \o t[i]
    BY <2>a DEF Flattens
  <2>3. /\ f[k + 1] = IF k + 1 = 1 THEN s[k + 1] ELSE f[k + 1 - 1] \o s[k + 1]
        /\ g[k + 1] = IF k + 1 = 1 THEN t[k + 1] ELSE g[k + 1 - 1] \o t[k + 1]
    BY <2>b, <2>c DEF i
  <2>4. CASE k = 0
    BY <2>2, <2>3, <2>4
  <2>5. CASE k # 0
    <3>1. k \in 1..l /\ k + 1 - 1 = k /\ k + 1 # 1
      BY <2>1, <2>5
    <3>2. f[k] = g[k]
      BY <3>1
    <3>. QED
      BY <2>2, <2>3, <3>1, <3>2
  <2>. QED
    BY <2>4, <2>5
<1>. HIDE DEF S
<1>3. S = Nat
  <2>1. S \in SUBSET Nat
    BY DEF S
  <2>. QED
    BY <1>1, <1>2, <2>1, Induction
<1>. QED
  BY <1>3 DEF S, SameUpTo

\* FlattenSeq takes the last of them.
LEMMA FlattenSeqIs ==
  ASSUME NEW seqs, Len(seqs) \in Nat \ {0}, NEW f, Flattens(f, seqs, Len(seqs))
  PROVE  FlattenSeq(seqs) = f[Len(seqs)]
<1>. DEFINE z == Len(seqs)
            c == CHOOSE h : h = [i \in 1..z |-> IF i = 1 THEN seqs[i] ELSE h[i - 1] \o seqs[i]]
<1>1. FlattenSeq(seqs) = c[z]
  BY DEF FlattenSeq
<1>2. f = [i \in 1..z |-> IF i = 1 THEN seqs[i] ELSE f[i - 1] \o seqs[i]]
  BY DEF Flattens
<1>3. c = [i \in 1..z |-> IF i = 1 THEN seqs[i] ELSE c[i - 1] \o seqs[i]]
  BY <1>2
<1>. HIDE DEF c
<1>4. DOMAIN c = 1..z
  BY <1>3
<1>5. Flattens(c, seqs, z)
  BY <1>3, <1>4 DEF Flattens
<1>6. \A i \in 1..z : c[i] = f[i]
  <2>1. z \in Nat /\ z <= z /\ Flattens(f, seqs, z) /\ SameUpTo(seqs, seqs, z)
    BY DEF SameUpTo
  <2>. HIDE DEF z
  <2>2. SameUpTo(c, f, z)
    BY <1>5, <2>1, FlattensAgree
  <2>. QED
    BY <2>2 DEF SameUpTo
<1>. QED
  BY <1>1, <1>6

\* One sequence more is one concatenation more.
LEMMA FlattenAppend ==
  ASSUME NEW S, NEW seqs \in Seq(Seq(S)), NEW x \in Seq(S)
  PROVE  FlattenSeq(Append(seqs, x)) = FlattenSeq(seqs) \o x
<1>. DEFINE z == Len(seqs)
            more == Append(seqs, x)
<1>1. z \in Nat /\ Len(more) = z + 1 /\ more[z + 1] = x /\ \A i \in 1..z : more[i] = seqs[i]
  OBVIOUS
<1>. HIDE DEF z, more
<1>2. PICK f : Flattens(f, more, z + 1)
  <2>1. z + 1 \in Nat
    BY <1>1
  <2>. QED
    BY <2>1, FlattensExists, Zenon
<1>3. FlattenSeq(more) = f[z + 1]
  <2>1. Len(more) \in Nat \ {0} /\ Flattens(f, more, Len(more))
    BY <1>1, <1>2
  <2>2. FlattenSeq(more) = f[Len(more)]
    BY <2>1, FlattenSeqIs, Zenon
  <2>. QED
    BY <1>1, <2>2
<1>4. f[z + 1] = IF z = 0 THEN x ELSE f[z] \o x
  <2>1. PICK i \in Nat : i = z + 1 /\ i \in 1..i /\ i - 1 = z /\ (i = 1 <=> z = 0)
    BY <1>1
  <2>2. Flattens(f, more, i)
    BY <1>2, <2>1
  <2>3. f[i] = IF i = 1 THEN more[i] ELSE f[i - 1] \o more[i]
    BY <2>1, <2>2 DEF Flattens
  <2>4. more[i] = x
    BY <1>1, <2>1
  <2>5. f[i] = IF z = 0 THEN x ELSE f[z] \o x
    BY <2>1, <2>3, <2>4
  <2>. QED
    BY <2>1, <2>5
<1>5. CASE z = 0
  <2>1. FlattenSeq(more) = x
    BY <1>1, <1>3, <1>4, <1>5
  <2>2. FlattenSeq(seqs) = seqs /\ seqs = <<>>
    BY <1>5 DEF FlattenSeq, z
  <2>3. <<>> \o x = x
    OBVIOUS
  <2>. QED
    BY <2>1, <2>2, <2>3 DEF more
<1>6. CASE z # 0
  <2>1. PICK g : Flattens(g, seqs, z)
    BY <1>1, FlattensExists
  <2>2. FlattenSeq(seqs) = g[z]
    <3>1. Len(seqs) \in Nat \ {0} /\ Flattens(g, seqs, Len(seqs))
      BY <1>1, <1>6, <2>1 DEF z
    <3>. QED
      BY <3>1, FlattenSeqIs, Zenon DEF z
  <2>3. \A i \in 1..z : f[i] = g[i]
    <3>1. z \in Nat /\ z + 1 \in Nat /\ z <= z + 1 /\ z <= z
      BY <1>1
    <3>2. SameUpTo(more, seqs, z)
      BY <1>1 DEF SameUpTo
    <3>3. SameUpTo(f, g, z)
      BY <1>2, <2>1, <3>1, <3>2, FlattensAgree
    <3>. QED
      BY <3>3 DEF SameUpTo
  <2>4. f[z] = g[z]
    BY <1>1, <1>6, <2>3
  <2>5. FlattenSeq(more) = FlattenSeq(seqs) \o x
    BY <1>3, <1>4, <1>6, <2>2, <2>4
  <2>. QED
    BY <2>5 DEF more
<1>. QED
  BY <1>5, <1>6

-----------------------------------------------------------------------------
(* Where the parts of a flattened sequence are.                            *)

\* e[i] is where the part i of seqs ends in F, their concatenation.
PartEnds(e, seqs, F) ==
  /\ e \in [0..Len(seqs) -> Nat] /\ e[0] = 0 /\ e[Len(seqs)] = Len(F)
  /\ \A i \in 1..Len(seqs) : e[i] = e[i - 1] + Len(seqs[i]) /\ e[i] <= Len(F)
  /\ \A i \in 1..Len(seqs) : \A h \in 1..Len(seqs[i]) : F[e[i - 1] + h] = seqs[i][h]
  /\ \A p \in 1..Len(F) : \E i \in 1..Len(seqs) : \E h \in 1..Len(seqs[i]) : p = e[i - 1] + h

\* One part more, and where it ends.
LEMMA EndsAppend ==
  ASSUME NEW S, NEW seqs \in Seq(Seq(S)), NEW F \in Seq(S), NEW x \in Seq(S), NEW e, PartEnds(e, seqs, F)
  PROVE  \E d : PartEnds(d, Append(seqs, x), F \o x)
<1>. DEFINE z == Len(seqs)
            t == Append(seqs, x)
            G == F \o x
            d == [i \in 0..z + 1 |-> IF i = z + 1 THEN e[z] + Len(x) ELSE e[i]]
<1>1. /\ z \in Nat /\ Len(t) = z + 1 /\ t[z + 1] = x /\ \A i \in 1..z : t[i] = seqs[i]
      /\ Len(F) \in Nat /\ Len(x) \in Nat
  OBVIOUS
<1>2. /\ Len(G) = Len(F) + Len(x) /\ \A p \in 1..Len(F) : G[p] = F[p]
      /\ \A h \in 1..Len(x) : G[Len(F) + h] = x[h]
  OBVIOUS
<1>3. e \in [0..z -> Nat] /\ e[0] = 0 /\ e[z] = Len(F)
  BY DEF PartEnds
<1>4. d \in [0..z + 1 -> Nat] /\ d[z + 1] = Len(F) + Len(x) /\ \A i \in 0..z : d[i] = e[i]
  BY <1>1, <1>3
<1>. HIDE DEF z, t, G, d
<1>5. d[0] = 0
  BY <1>1, <1>3, <1>4
<1>6. ASSUME NEW i \in 1..z
      PROVE  /\ d[i] = d[i - 1] + Len(t[i]) /\ d[i] <= Len(G)
             /\ \A h \in 1..Len(t[i]) : G[d[i - 1] + h] = t[i][h]
  <2>1. e[i] = e[i - 1] + Len(seqs[i]) /\ e[i] <= Len(F) /\ \A h \in 1..Len(seqs[i]) : F[e[i - 1] + h] = seqs[i][h]
    BY DEF PartEnds, z
  <2>2. i \in 0..z /\ i - 1 \in 0..z
    BY <1>1
  <2>3. d[i] = e[i] /\ d[i - 1] = e[i - 1] /\ t[i] = seqs[i]
    BY <1>1, <1>4, <2>2
  <2>4. e[i] \in Nat /\ e[i - 1] \in Nat /\ Len(seqs[i]) \in Nat
    <3>1. seqs[i] \in Seq(S)
      BY DEF z
    <3>2. Len(seqs[i]) \in Nat
      BY <3>1, Zenon, LenProperties
    <3>3. \A j \in 0..z : e[j] \in Nat
      BY <1>3, Zenon
    <3>. QED
      BY <2>2, <3>2, <3>3, Zenon
  <2>5. PICK a \in Nat, b \in Nat, c \in Nat : a = e[i - 1] /\ b = e[i] /\ c = Len(seqs[i])
    BY <2>4
  <2>6. b = a + c /\ b <= Len(F)
    BY <2>1, <2>5
  <2>7. ASSUME NEW h \in 1..c PROVE G[a + h] = seqs[i][h]
    <3>1. a + h \in 1..Len(F)
      BY <1>1, <2>6
    <3>. QED
      BY <1>2, <2>1, <2>5, <3>1
  <2>8. b <= Len(G)
    BY <1>1, <1>2, <2>6
  <2>. QED
    BY <2>3, <2>5, <2>6, <2>7, <2>8
<1>7. ASSUME NEW i, i = z + 1
      PROVE  /\ d[i] = d[i - 1] + Len(t[i]) /\ d[i] <= Len(G)
             /\ \A h \in 1..Len(t[i]) : G[d[i - 1] + h] = t[i][h]
  <2>1. i - 1 = z /\ z \in 0..z
    BY <1>1, <1>7
  <2>2. d[i - 1] = Len(F) /\ d[i] = Len(F) + Len(x) /\ t[i] = x
    BY <1>1, <1>3, <1>4, <1>7, <2>1
  <2>3. d[i] <= Len(G)
    BY <1>1, <1>2, <2>2
  <2>. QED
    BY <1>2, <2>2, <2>3
<1>8. ASSUME NEW p \in 1..Len(G)
      PROVE  \E i \in 1..z + 1 : \E h \in 1..Len(t[i]) : p = d[i - 1] + h
  <2>1. CASE p <= Len(F)
    <3>1. PICK i \in 1..z : \E h \in 1..Len(seqs[i]) : p = e[i - 1] + h
      BY <1>2, <2>1 DEF PartEnds, z
    <3>2. i \in 1..z + 1 /\ t[i] = seqs[i] /\ i - 1 \in 0..z
      BY <1>1
    <3>3. d[i - 1] = e[i - 1]
      BY <1>4, <3>2
    <3>. QED
      BY <3>1, <3>2, <3>3
  <2>2. CASE ~(p <= Len(F))
    <3>1. PICK h \in 1..Len(x) : p = Len(F) + h
      <4>1. p - Len(F) \in 1..Len(x) /\ p = Len(F) + (p - Len(F))
        BY <1>1, <1>2, <2>2
      <4>. QED
        BY <4>1
    <3>2. z + 1 \in 1..z + 1 /\ z + 1 - 1 = z /\ z \in 0..z /\ t[z + 1] = x
      BY <1>1
    <3>3. d[z] = Len(F)
      BY <1>3, <1>4, <3>2
    <3>4. PICK j \in 1..z + 1 : j = z + 1 /\ j - 1 = z
      BY <3>2
    <3>5. t[j] = x /\ d[j - 1] = Len(F)
      BY <3>2, <3>3, <3>4
    <3>. QED
      BY <3>1, <3>5
  <2>. QED
    BY <2>1, <2>2
<1>9. \A i \in 1..z + 1 : i \in 1..z \/ i = z + 1
  BY <1>1
<1>10. ASSUME NEW i \in 1..z + 1
       PROVE  /\ d[i] = d[i - 1] + Len(t[i]) /\ d[i] <= Len(G)
              /\ \A h \in 1..Len(t[i]) : G[d[i - 1] + h] = t[i][h]
  <2>1. CASE i \in 1..z
    BY <1>6, <2>1, Zenon
  <2>2. CASE i = z + 1
    BY <1>7, <2>2, Zenon
  <2>. QED
    BY <1>9, <2>1, <2>2
<1>11. d[Len(t)] = Len(G) /\ d \in [0..Len(t) -> Nat]
  BY <1>1, <1>2, <1>4
<1>12. /\ \A i \in 1..Len(t) : d[i] = d[i - 1] + Len(t[i]) /\ d[i] <= Len(G)
       /\ \A i \in 1..Len(t) : \A h \in 1..Len(t[i]) : G[d[i - 1] + h] = t[i][h]
  BY <1>1, <1>10, Zenon
<1>13. \A p \in 1..Len(G) : \E i \in 1..Len(t) : \E h \in 1..Len(t[i]) : p = d[i - 1] + h
  BY <1>1, <1>8, Zenon
<1>14. PartEnds(d, t, G)
  BY <1>5, <1>11, <1>12, <1>13, Zenon DEF PartEnds
<1>. QED
  BY <1>14 DEF t, G

\* FlattenSeq puts its parts one after the other.
LEMMA FlattenEnds ==
  ASSUME NEW S, NEW seqs \in Seq(Seq(S))
  PROVE  FlattenSeq(seqs) \in Seq(S) /\ \E e : PartEnds(e, seqs, FlattenSeq(seqs))
<1>. DEFINE Good(s) == FlattenSeq(s) \in Seq(S) /\ \E e : PartEnds(e, s, FlattenSeq(s))
            K == {k \in Nat : \A s \in Seq(Seq(S)) : Len(s) = k => Good(s)}
<1>1. 0 \in K
  <2>. SUFFICES ASSUME NEW s \in Seq(Seq(S)), Len(s) = 0 PROVE Good(s)
    OBVIOUS
  <2>1. s = <<>> /\ FlattenSeq(s) = <<>>
    BY DEF FlattenSeq
  <2>. DEFINE e == [i \in 0..0 |-> 0]
  <2>2. e \in [0..0 -> Nat] /\ e[0] = 0 /\ 1..0 = {}
    OBVIOUS
  <2>. HIDE DEF e
  <2>3. Len(<<>>) = 0
    OBVIOUS
  <2>4. PartEnds(e, <<>>, <<>>)
    BY <2>2, <2>3, Zenon DEF PartEnds
  <2>5. <<>> \in Seq(S)
    OBVIOUS
  <2>. QED
    BY <2>1, <2>4, <2>5
<1>2. ASSUME NEW k \in K PROVE k + 1 \in K
  <2>0. k \in Nat
    OBVIOUS
  <2>. SUFFICES ASSUME NEW s \in Seq(Seq(S)), Len(s) = k + 1 PROVE Good(s)
    BY <2>0
  <2>. DEFINE t == SubSeq(s, 1, k)
              x == s[k + 1]
  <2>1. t \in Seq(Seq(S)) /\ Len(t) = k /\ x \in Seq(S) /\ s = Append(t, x)
    BY <2>0
  <2>. HIDE DEF t, x
  <2>2. FlattenSeq(t) \in Seq(S) /\ \E e : PartEnds(e, t, FlattenSeq(t))
    BY <2>1
  <2>3. FlattenSeq(s) = FlattenSeq(t) \o x
    BY <2>1, FlattenAppend
  <2>4. FlattenSeq(s) \in Seq(S)
    BY <2>1, <2>2, <2>3
  <2>5. PICK e : PartEnds(e, t, FlattenSeq(t))
    BY <2>2
  <2>6. \E d : PartEnds(d, Append(t, x), FlattenSeq(t) \o x)
    BY <2>1, <2>2, <2>5, EndsAppend, Zenon
  <2>. QED
    BY <2>1, <2>3, <2>4, <2>6
<1>. HIDE DEF K
<1>3. K = Nat
  <2>1. K \in SUBSET Nat
    BY DEF K
  <2>. QED
    BY <1>1, <1>2, <2>1, Induction
<1>4. Len(seqs) \in Nat
  OBVIOUS
<1>. QED
  BY <1>3, <1>4 DEF K

-----------------------------------------------------------------------------
(* What ApplyEscapes computes.                                             *)

\* Induction from the end of a text to its beginning.
LEMMA Downward ==
  ASSUME NEW P, NEW z \in Nat, \A i \in Nat \ {0} : i > z => i \in P,
         \A i \in 1..z : (\A j \in Nat \ {0} : j > i => j \in P) => i \in P
  PROVE  \A i \in Nat \ {0} : i \in P
<1>. DEFINE K == {k \in Nat : \A i \in Nat \ {0} : i + k > z => i \in P}
<1>1. 0 \in K
  OBVIOUS
<1>2. ASSUME NEW k \in K PROVE k + 1 \in K
  <2>. SUFFICES ASSUME NEW i \in Nat \ {0}, i + (k + 1) > z PROVE i \in P
    OBVIOUS
  <2>1. k \in Nat /\ \A j \in Nat \ {0} : j + k > z => j \in P
    OBVIOUS
  <2>2. \A j \in Nat \ {0} : j > i => j \in P
    BY <2>1
  <2>3. CASE i \in 1..z
    BY <2>2, <2>3
  <2>4. CASE i \notin 1..z
    BY <2>4
  <2>. QED
    BY <2>3, <2>4
<1>. HIDE DEF K
<1>3. K = Nat
  <2>1. K \in SUBSET Nat
    BY DEF K
  <2>. QED
    BY <1>1, <1>2, <2>1, Induction
<1>4. \A i \in Nat \ {0} : i + z > z
  OBVIOUS
<1>. QED
  BY <1>3, <1>4 DEF K

\* The pieces of what applyEscapes reads: a rune and the rest, a bad escape, and the end.
Put(c, rest) == [ok |-> rest.ok, out |-> <<c>> \o rest.out]
Plain == [n |-> "LF", t |-> "TAB", bs |-> "bs"]
Bad == [ok |-> FALSE, out |-> <<>>]
Done == [ok |-> TRUE, out |-> <<>>]

\* What is read from i on, when f is what is read from each later place.
ReadAt(f, s, i) ==
  IF i > Len(s) THEN Done
  ELSE IF s[i] # "bs" THEN Put(s[i], f[i + 1])
  ELSE IF i = Len(s) THEN Bad
  ELSE IF s[i + 1] \in DOMAIN Plain THEN Put(Plain[s[i + 1]], f[i + 2])
  ELSE IF s[i + 1] = "u" /\ i + 5 <= Len(s) /\ \A j \in (i + 2)..(i + 5) : s[j] = "h"
       THEN Put("rune", f[i + 6])
  ELSE Bad

\* The function that ApplyEscapes defines in its LET.
Unescapes(f, s) == f = [i \in Nat |-> ReadAt(f, s, i)]

\* What is read from a place depends on the next places only: one rune, an escape or
\* \u{hhhh}.
LEMMA ReadSame ==
  ASSUME NEW f, NEW g, NEW s, NEW i, f[i + 1] = g[i + 1], f[i + 2] = g[i + 2], f[i + 6] = g[i + 6]
  PROVE  ReadAt(f, s, i) = ReadAt(g, s, i)
  BY Zenon DEF ReadAt

\* The function by which applyEscapes is defined exists.
LEMMA UnescapesExists ==
  ASSUME NEW s, Len(s) \in Nat
  PROVE  \E f : Unescapes(f, s)
<1>. DEFINE z == Len(s)
            Partly(f, k) == DOMAIN f = Nat /\ f = [i \in Nat |-> f[i]]
                            /\ \A i \in Nat : i + k > z => f[i] = ReadAt(f, s, i)
            K == {k \in Nat : \E f : Partly(f, k)}
<1>0. z \in Nat
  OBVIOUS
<1>1. 0 \in K
  <2>. DEFINE g == [i \in Nat |-> Done]
  <2>1. DOMAIN g = Nat /\ g = [i \in Nat |-> g[i]] /\ \A i \in Nat : g[i] = Done
    OBVIOUS
  <2>. HIDE DEF g
  <2>2. ASSUME NEW i \in Nat, i + 0 > z PROVE g[i] = ReadAt(g, s, i)
    <3>1. i > Len(s)
      BY <2>2
    <3>2. ReadAt(g, s, i) = Done
      BY <3>1, Zenon DEF ReadAt
    <3>. QED
      BY <2>1, <3>2
  <2>3. Partly(g, 0)
    BY <2>1, <2>2
  <2>. QED
    BY <2>3
<1>2. ASSUME NEW k \in K PROVE k + 1 \in K
  <2>0. k \in Nat
    OBVIOUS
  <2>1. PICK f : Partly(f, k)
    OBVIOUS
  <2>2. CASE z - k < 0
    <3>1. \A i \in Nat : i + k > z
      BY <1>0, <2>0, <2>2
    <3>2. \A i \in Nat : f[i] = ReadAt(f, s, i)
      BY <2>1, <3>1
    <3>3. Partly(f, k + 1)
      BY <2>1, <3>2
    <3>4. k + 1 \in Nat
      BY <2>0
    <3>. HIDE DEF Partly
    <3>. QED
      BY <3>3, <3>4
  <2>3. CASE ~(z - k < 0)
    <3>1. PICK m \in Nat : m = z - k
      BY <1>0, <2>0, <2>3
    <3>. DEFINE g == [i \in Nat |-> IF i = m THEN ReadAt(f, s, m) ELSE f[i]]
    <3>2. /\ DOMAIN g = Nat /\ g = [i \in Nat |-> g[i]] /\ g[m] = ReadAt(f, s, m)
          /\ \A i \in Nat : i # m => g[i] = f[i]
      OBVIOUS
    <3>. HIDE DEF g
    <3>3. ASSUME NEW i \in Nat, i >= m PROVE ReadAt(g, s, i) = ReadAt(f, s, i)
      <4>1. i + 1 \in Nat /\ i + 2 \in Nat /\ i + 6 \in Nat /\ i + 1 # m /\ i + 2 # m /\ i + 6 # m
        BY <3>3
      <4>2. g[i + 1] = f[i + 1] /\ g[i + 2] = f[i + 2] /\ g[i + 6] = f[i + 6]
        BY <3>2, <4>1
      <4>. QED
        BY <4>2, Zenon DEF ReadAt
    <3>4. ASSUME NEW i \in Nat, i + (k + 1) > z PROVE g[i] = ReadAt(g, s, i)
      <4>1. i >= m
        BY <1>0, <2>0, <3>1, <3>4
      <4>2. CASE i = m
        BY <3>2, <3>3, <4>1, <4>2
      <4>3. CASE i # m
        <5>1. i + k > z
          BY <1>0, <2>0, <3>1, <4>1, <4>3
        <5>2. f[i] = ReadAt(f, s, i)
          BY <2>1, <5>1
        <5>. QED
          BY <3>2, <3>3, <4>1, <4>3, <5>2
      <4>. QED
        BY <4>2, <4>3
    <3>5. Partly(g, k + 1)
      BY <3>2, <3>4
    <3>. QED
      BY <2>0, <3>5
  <2>. QED
    BY <2>2, <2>3
<1>. HIDE DEF K
<1>3. K = Nat
  <2>1. K \in SUBSET Nat
    BY DEF K
  <2>. QED
    BY <1>1, <1>2, <2>1, Induction
<1>4. PICK f : Partly(f, z + 1)
  <2>1. z + 1 \in K
    BY <1>0, <1>3
  <2>. QED
    BY <2>1 DEF K
<1>5. \A i \in Nat : f[i] = ReadAt(f, s, i)
  <2>1. \A i \in Nat : i + (z + 1) > z
    BY <1>0
  <2>. QED
    BY <1>4, <2>1
<1>6. f = [i \in Nat |-> ReadAt(f, s, i)]
  BY <1>4, <1>5
<1>. QED
  BY <1>6 DEF Unescapes

\* applyEscapes is its value at the first place.
LEMMA ApplyEscapesIs ==
  ASSUME NEW s, Len(s) \in Nat
  PROVE  \E f : Unescapes(f, s) /\ ApplyEscapes(s) = f[1]
<1>. DEFINE c == CHOOSE f : f = [i \in Nat |-> ReadAt(f, s, i)]
<1>1. ApplyEscapes(s) = c[1]
  BY DEF ApplyEscapes, ReadAt, Put, Plain, Bad, Done
<1>2. PICK f : f = [i \in Nat |-> ReadAt(f, s, i)]
  BY UnescapesExists DEF Unescapes
<1>3. c = [i \in Nat |-> ReadAt(c, s, i)]
  BY <1>2
<1>. HIDE DEF c
<1>. QED
  BY <1>1, <1>3 DEF Unescapes

\* The escapes of one letter.
LEMMA PlainNames ==
  /\ DOMAIN Plain = {"n", "t", "bs"} /\ Plain["n"] = "LF" /\ Plain["t"] = "TAB" /\ Plain["bs"] = "bs"
  BY DEF Plain

\* A rune in front of what follows it.
LEMMA PutFields ==
  ASSUME NEW c, NEW r
  PROVE  Put(c, r).ok = r.ok /\ Put(c, r).out = <<c>> \o r.out
  BY Zenon DEF Put

\* How one character, or one escape, is read.
LEMMA ReadForward ==
  ASSUME NEW s, Len(s) \in Nat, NEW f, Unescapes(f, s), NEW i \in Nat \ {0}
  PROVE  /\ i > Len(s) => f[i] = Done
         /\ i <= Len(s) /\ s[i] # "bs" => f[i] = Put(s[i], f[i + 1])
         /\ i < Len(s) /\ s[i] = "bs" /\ s[i + 1] \in {"n", "t", "bs"} => f[i] = Put(Plain[s[i + 1]], f[i + 2])
         /\ i + 5 <= Len(s) /\ s[i] = "bs" /\ s[i + 1] = "u" /\ (\A j \in (i + 2)..(i + 5) : s[j] = "h") =>
              f[i] = Put("rune", f[i + 6])
<1>1. f[i] = ReadAt(f, s, i)
  BY DEF Unescapes
<1>2. i <= Len(s) => ~(i > Len(s))
  OBVIOUS
<1>3. i < Len(s) => ~(i > Len(s)) /\ i # Len(s)
  OBVIOUS
<1>4. i + 5 <= Len(s) => i < Len(s)
  OBVIOUS
<1>5. "u" \notin DOMAIN Plain
  BY PlainNames
<1>6. i > Len(s) => f[i] = Done
  BY <1>1, Zenon DEF ReadAt
<1>7. i <= Len(s) /\ s[i] # "bs" => f[i] = Put(s[i], f[i + 1])
  BY <1>1, <1>2, Zenon DEF ReadAt
<1>8. i < Len(s) /\ s[i] = "bs" /\ s[i + 1] \in DOMAIN Plain => f[i] = Put(Plain[s[i + 1]], f[i + 2])
  BY <1>1, <1>3, Zenon DEF ReadAt
<1>9. ASSUME i + 5 <= Len(s), s[i] = "bs", s[i + 1] = "u", \A j \in (i + 2)..(i + 5) : s[j] = "h"
      PROVE  f[i] = Put("rune", f[i + 6])
  BY <1>1, <1>3, <1>4, <1>5, <1>9, Zenon DEF ReadAt
<1>. QED
  BY <1>6, <1>7, <1>8, <1>9, PlainNames

\* And nothing else is read.
LEMMA ReadCases ==
  ASSUME NEW s, Len(s) \in Nat, NEW f, Unescapes(f, s), NEW i \in 1..Len(s)
  PROVE  \/ s[i] # "bs" /\ f[i] = Put(s[i], f[i + 1])
         \/ /\ i < Len(s) /\ s[i] = "bs" /\ s[i + 1] \in {"n", "t", "bs"}
            /\ f[i] = Put(Plain[s[i + 1]], f[i + 2])
         \/ /\ i + 5 <= Len(s) /\ s[i] = "bs" /\ s[i + 1] = "u" /\ \A j \in (i + 2)..(i + 5) : s[j] = "h"
            /\ f[i] = Put("rune", f[i + 6])
         \/ f[i] = Bad
<1>1. f[i] = ReadAt(f, s, i)
  BY DEF Unescapes
<1>2. ~(i > Len(s)) /\ (i # Len(s) => i < Len(s))
  OBVIOUS
<1>3. CASE s[i] # "bs"
  BY <1>1, <1>2, <1>3, Zenon DEF ReadAt
<1>4. CASE s[i] = "bs" /\ i = Len(s)
  BY <1>1, <1>2, <1>4, Zenon DEF ReadAt
<1>5. CASE s[i] = "bs" /\ i # Len(s) /\ s[i + 1] \in DOMAIN Plain
  BY <1>1, <1>2, <1>5, PlainNames, Zenon DEF ReadAt
<1>6. CASE /\ s[i] = "bs" /\ i # Len(s) /\ s[i + 1] \notin DOMAIN Plain
           /\ s[i + 1] = "u" /\ i + 5 <= Len(s) /\ \A j \in (i + 2)..(i + 5) : s[j] = "h"
  BY <1>1, <1>2, <1>6, Zenon DEF ReadAt
<1>7. CASE /\ s[i] = "bs" /\ i # Len(s) /\ s[i + 1] \notin DOMAIN Plain
           /\ ~(s[i + 1] = "u" /\ i + 5 <= Len(s) /\ \A j \in (i + 2)..(i + 5) : s[j] = "h")
  BY <1>1, <1>2, <1>7, Zenon DEF ReadAt
<1>. QED
  BY <1>3, <1>4, <1>5, <1>6, <1>7

\* What may be read: what was written, and the runes that escapes stand for.
Runes(S) == S \cup {"LF", "TAB", "bs", "rune"}

\* What is read is text over the runes written and those that escapes stand for.
LEMMA ReadTyped ==
  ASSUME NEW S, NEW s \in Seq(S), NEW f, Unescapes(f, s), NEW i \in Nat \ {0}
  PROVE  f[i].ok \in BOOLEAN /\ f[i].out \in Seq(Runes(S))
<1>. DEFINE U == Runes(S)
            P == {k \in Nat : f[k].ok \in BOOLEAN /\ f[k].out \in Seq(U)}
<1>0. Len(s) \in Nat /\ "rune" \in U /\ \A k \in 1..Len(s) : s[k] \in U
  BY DEF Runes
<1>1. Done.ok \in BOOLEAN /\ Done.out \in Seq(U) /\ Bad.ok \in BOOLEAN /\ Bad.out \in Seq(U)
  <2>1. Done.ok = TRUE /\ Bad.ok = FALSE /\ Done.out = <<>> /\ Bad.out = <<>>
    BY Zenon DEF Done, Bad
  <2>2. <<>> \in Seq(U)
    OBVIOUS
  <2>. QED
    BY <2>1, <2>2, Zenon
<1>2. \A v \in {"n", "t", "bs"} : Plain[v] \in U
  BY PlainNames DEF Runes
<1>. HIDE DEF U
<1>3. ASSUME NEW c \in U, NEW r, r.ok \in BOOLEAN, r.out \in Seq(U)
      PROVE  Put(c, r).ok \in BOOLEAN /\ Put(c, r).out \in Seq(U)
  <2>1. <<c>> \in Seq(U)
    OBVIOUS
  <2>2. <<c>> \o r.out \in Seq(U)
    BY <1>3, <2>1
  <2>. QED
    BY <1>3, <2>2, PutFields, Zenon
<1>4. ASSUME NEW k \in Nat \ {0}, k > Len(s) PROVE k \in P
  <2>1. f[k] = Done
    BY <1>0, <1>4, ReadForward
  <2>2. f[k].ok \in BOOLEAN /\ f[k].out \in Seq(U)
    BY <1>1, <2>1, Zenon
  <2>. QED
    BY <2>2
<1>5. ASSUME NEW k \in 1..Len(s), \A j \in Nat \ {0} : j > k => j \in P PROVE k \in P
  <2>1. k + 1 \in P /\ k + 2 \in P /\ k + 6 \in P
    BY <1>5
  <2>1a. \A j \in {k + 1, k + 2, k + 6} : f[j].ok \in BOOLEAN /\ f[j].out \in Seq(U)
    BY <2>1
  <2>2. \/ f[k] = Bad
        \/ \E c \in U : \E j \in {k + 1, k + 2, k + 6} : f[k] = Put(c, f[j])
    <3>. HIDE DEF P
    <3>1. CASE s[k] # "bs" /\ f[k] = Put(s[k], f[k + 1])
      BY <1>0, <3>1
    <3>2. CASE s[k + 1] \in {"n", "t", "bs"} /\ f[k] = Put(Plain[s[k + 1]], f[k + 2])
      BY <1>2, <3>2
    <3>3. CASE f[k] = Put("rune", f[k + 6])
      BY <1>0, <3>3
    <3>. QED
      BY <1>0, <3>1, <3>2, <3>3, ReadCases
  <2>3. f[k].ok \in BOOLEAN /\ f[k].out \in Seq(U)
    <3>1. CASE f[k] = Bad
      BY <1>1, <3>1, Zenon
    <3>2. CASE \E c \in U : \E j \in {k + 1, k + 2, k + 6} : f[k] = Put(c, f[j])
      <4>1. PICK c, r : c \in U /\ f[k] = Put(c, r) /\ r.ok \in BOOLEAN /\ r.out \in Seq(U)
        BY <2>1a, <3>2, Zenon
      <4>. QED
        BY <1>3, <4>1
    <3>. QED
      BY <2>2, <3>1, <3>2
  <2>. QED
    BY <2>3
<1>. HIDE DEF P
<1>6. i \in P
  BY <1>0, <1>4, <1>5, Downward
<1>. QED
  BY <1>6 DEF P, U

\* No escape was bad.
Legal(r) == r.ok = TRUE

\* Legality of what is read, piece by piece.
LEMMA LegalIs ==
  /\ ~Legal(Bad) /\ Legal(Done) /\ Done.out = <<>>
  /\ \A c, r : (Legal(Put(c, r)) <=> Legal(r)) /\ Put(c, r).out = <<c>> \o r.out
<1>1. ~Legal(Bad) /\ Legal(Done) /\ Done.out = <<>>
  BY Zenon DEF Bad, Done, Legal
<1>2. ASSUME NEW c, NEW r PROVE (Legal(Put(c, r)) <=> Legal(r)) /\ Put(c, r).out = <<c>> \o r.out
  BY PutFields, Zenon DEF Legal
<1>. QED
  BY <1>1, <1>2

\* What is read from any place is text.
LEMMA ReadSeq ==
  ASSUME NEW S, NEW s \in Seq(S), NEW f, Unescapes(f, s), NEW i \in Nat \ {0}
  PROVE  f[i].out \in Seq(Runes(S))
  BY ReadTyped

\* A carriage return at the end is read as itself.
LEMMA ReadWithReturn ==
  ASSUME NEW S, NEW t \in Seq(S), NEW f, Unescapes(f, Append(t, "CR")), NEW g, Unescapes(g, t), Legal(f[1])
  PROVE  Legal(g[1]) /\ f[1].out = Append(g[1].out, "CR")
<1>. DEFINE s == Append(t, "CR")
            z == Len(t)
            U == Runes(S)
            P == {k \in Nat : k <= z + 1 /\ Legal(f[k]) => Legal(g[k]) /\ f[k].out = Append(g[k].out, "CR")}
<1>0. z \in Nat /\ Len(t) = z /\ Len(s) = z + 1 /\ s[z + 1] = "CR" /\ \A k \in 1..z : s[k] = t[k]
  OBVIOUS
<1>1. Unescapes(f, s)
  OBVIOUS
<1>2. \A k \in Nat \ {0} : g[k].out \in Seq(U)
  BY ReadSeq
<1>. HIDE DEF s, z
<1>3. ~Legal(Bad) /\ Legal(Done) /\ Done.out = <<>>
  BY LegalIs
<1>4. ASSUME NEW k \in Nat \ {0}, k > z PROVE k \in P
  <2>. SUFFICES ASSUME k = z + 1 PROVE k \in P
    BY <1>0, <1>4
  <2>1. g[k] = Done
    BY <1>0, <1>4, ReadForward
  <2>2. f[k] = Put(s[k], f[k + 1]) /\ f[k + 1] = Done
    <3>1. k <= Len(s) /\ s[k] # "bs" /\ k + 1 > Len(s) /\ k + 1 \in Nat \ {0} /\ Len(s) \in Nat
      BY <1>0
    <3>. QED
      BY <1>1, <3>1, ReadForward
  <2>2a. f[k] = Put("CR", Done)
    BY <1>0, <2>2
  <2>3. f[k].out = <<"CR">> \o <<>>
    BY <1>3, <2>2a, LegalIs, Zenon
  <2>4. <<"CR">> \o <<>> = Append(<<>>, "CR")
    OBVIOUS
  <2>5. Legal(g[k]) /\ g[k].out = <<>>
    BY <1>3, <2>1
  <2>6. Legal(g[k]) /\ f[k].out = Append(g[k].out, "CR")
    BY <2>3, <2>4, <2>5
  <2>. QED
    BY <2>6
<1>5. ASSUME NEW k \in 1..z, \A j \in Nat \ {0} : j > k => j \in P PROVE k \in P
  <2>. SUFFICES ASSUME Legal(f[k]) PROVE Legal(g[k]) /\ f[k].out = Append(g[k].out, "CR")
    BY <1>0
  <2>0. f[k] # Bad /\ k \in 1..Len(s) /\ Len(s) \in Nat
    BY <1>0, <1>3
  <2>1. \E c : \E j \in Nat \ {0} : j > k /\ j <= z + 1 /\ f[k] = Put(c, f[j]) /\ g[k] = Put(c, g[j])
    <3>. HIDE DEF P
    <3>1. CASE s[k] # "bs" /\ f[k] = Put(s[k], f[k + 1])
      <4>1. t[k] = s[k] /\ k <= z /\ k \in Nat \ {0}
        BY <1>0
      <4>2. g[k] = Put(s[k], g[k + 1])
        BY <1>0, <3>1, <4>1, ReadForward
      <4>3. k + 1 \in Nat \ {0} /\ k + 1 > k /\ k + 1 <= z + 1
        BY <1>0
      <4>. QED
        BY <3>1, <4>2, <4>3
    <3>2. CASE k < Len(s) /\ s[k] = "bs" /\ s[k + 1] \in {"n", "t", "bs"} /\ f[k] = Put(Plain[s[k + 1]], f[k + 2])
      <4>1. k + 1 # z + 1
        BY <1>0, <3>2
      <4>2. k + 1 \in 1..z /\ k < z /\ k \in Nat \ {0} /\ t[k + 1] = s[k + 1] /\ t[k] = s[k]
        BY <1>0, <4>1
      <4>3. g[k] = Put(Plain[s[k + 1]], g[k + 2])
        BY <1>0, <3>2, <4>2, ReadForward
      <4>4. k + 2 \in Nat \ {0} /\ k + 2 > k /\ k + 2 <= z + 1
        BY <1>0, <4>2
      <4>. QED
        BY <3>2, <4>3, <4>4
    <3>3. CASE /\ k + 5 <= Len(s) /\ s[k] = "bs" /\ s[k + 1] = "u" /\ \A j \in (k + 2)..(k + 5) : s[j] = "h"
               /\ f[k] = Put("rune", f[k + 6])
      <4>1. k + 5 \in (k + 2)..(k + 5)
        OBVIOUS
      <4>2. k + 5 # z + 1
        BY <1>0, <3>3, <4>1
      <4>3. k + 5 <= z /\ k \in Nat \ {0} /\ k + 1 \in 1..z /\ \A j \in (k + 2)..(k + 5) : j \in 1..z
        BY <1>0, <3>3, <4>2
      <4>4. t[k] = "bs" /\ t[k + 1] = "u" /\ \A j \in (k + 2)..(k + 5) : t[j] = "h"
        BY <1>0, <3>3, <4>3
      <4>5. g[k] = Put("rune", g[k + 6])
        BY <1>0, <4>3, <4>4, ReadForward
      <4>6. k + 6 \in Nat \ {0} /\ k + 6 > k /\ k + 6 <= z + 1
        BY <1>0, <4>3
      <4>. QED
        BY <3>3, <4>5, <4>6
    <3>. QED
      BY <1>1, <2>0, <3>1, <3>2, <3>3, ReadCases
  <2>2. PICK c, j : j \in Nat \ {0} /\ j > k /\ j <= z + 1 /\ f[k] = Put(c, f[j]) /\ g[k] = Put(c, g[j])
    BY <2>1
  <2>3. Legal(f[j])
    BY <2>2, LegalIs
  <2>4. Legal(g[j]) /\ f[j].out = Append(g[j].out, "CR")
    BY <1>5, <2>2, <2>3
  <2>5. g[j].out \in Seq(U)
    BY <1>2, <2>2
  <2>6. <<c>> \o Append(g[j].out, "CR") = Append(<<c>> \o g[j].out, "CR")
    BY <2>5
  <2>7. Legal(Put(c, g[j])) /\ Put(c, f[j]).out = <<c>> \o f[j].out /\ Put(c, g[j]).out = <<c>> \o g[j].out
    BY <2>4, LegalIs, Zenon
  <2>8. f[k].out = <<c>> \o f[j].out /\ g[k].out = <<c>> \o g[j].out /\ Legal(g[k])
    BY <2>2, <2>7, Zenon
  <2>. QED
    BY <2>4, <2>6, <2>8, Zenon
<1>. HIDE DEF P
<1>6. \A k \in Nat \ {0} : k \in P
  BY <1>0, <1>4, <1>5, Downward
<1>7. 1 <= z + 1
  BY <1>0
<1>. QED
  BY <1>6, <1>7 DEF P

\* And what is read ends in one only there.
LEMMA ReadWithoutReturn ==
  ASSUME NEW S, NEW s \in Seq(S), NEW f, Unescapes(f, s), Legal(f[1]), s # <<>> => s[Len(s)] # "CR"
  PROVE  f[1].out # <<>> => f[1].out[Len(f[1].out)] # "CR"
<1>. DEFINE z == Len(s)
            U == Runes(S)
            Ends0(o) == o # <<>> /\ o[Len(o)] # "CR"
            P == {k \in Nat : k <= z /\ Legal(f[k]) => Ends0(f[k].out)}
<1>0. z \in Nat /\ (z # 0 => s[z] # "CR") /\ Len(s) = z
  OBVIOUS
<1>2. \A k \in Nat \ {0} : f[k].out \in Seq(U)
  BY ReadSeq
<1>. HIDE DEF z
<1>3. ~Legal(Bad) /\ Legal(Done) /\ Done.out = <<>>
  BY LegalIs
<1>4. ASSUME NEW k \in Nat \ {0}, k > z PROVE k \in P
  BY <1>0, <1>4
<1>5. ASSUME NEW k \in 1..z, \A j \in Nat \ {0} : j > k => j \in P PROVE k \in P
  <2>. SUFFICES ASSUME Legal(f[k]) PROVE Ends0(f[k].out)
    BY <1>0
  <2>0. f[k] # Bad /\ k \in 1..Len(s) /\ Len(s) \in Nat
    BY <1>0, <1>3
  <2>1. \E c : \E j \in Nat \ {0} : j > k /\ f[k] = Put(c, f[j]) /\ (j > z => c # "CR")
    <3>. HIDE DEF P
    <3>1. CASE s[k] # "bs" /\ f[k] = Put(s[k], f[k + 1])
      <4>1. k + 1 \in Nat \ {0} /\ k + 1 > k /\ (k + 1 > z => k = z /\ z # 0)
        BY <1>0
      <4>. QED
        BY <1>0, <3>1, <4>1
    <3>2. CASE s[k + 1] \in {"n", "t", "bs"} /\ f[k] = Put(Plain[s[k + 1]], f[k + 2])
      <4>1. k + 2 \in Nat \ {0} /\ k + 2 > k
        OBVIOUS
      <4>2. Plain[s[k + 1]] # "CR"
        BY <3>2, PlainNames
      <4>. QED
        BY <3>2, <4>1, <4>2
    <3>3. CASE f[k] = Put("rune", f[k + 6])
      <4>1. k + 6 \in Nat \ {0} /\ k + 6 > k /\ "rune" # "CR"
        OBVIOUS
      <4>. QED
        BY <3>3, <4>1
    <3>. QED
      BY <2>0, <3>1, <3>2, <3>3, ReadCases
  <2>2. PICK c, j : j \in Nat \ {0} /\ j > k /\ f[k] = Put(c, f[j]) /\ (j > z => c # "CR")
    BY <2>1
  <2>3. Legal(f[j]) /\ f[k].out = <<c>> \o f[j].out /\ f[j].out \in Seq(U)
    BY <1>2, <2>2, LegalIs
  <2>4. CASE j > z
    <3>1. f[j] = Done
      BY <1>0, <2>2, <2>4, ReadForward
    <3>2a. <<c>> \o <<>> = <<c>>
      OBVIOUS
    <3>2b. f[k].out = <<c>> \o <<>>
      BY <1>3, <2>3, <3>1, Zenon
    <3>2. f[k].out = <<c>>
      BY <3>2a, <3>2b
    <3>. QED
      BY <2>2, <2>4, <3>2
  <2>5. CASE j <= z
    <3>1. Ends0(f[j].out)
      BY <1>5, <2>2, <2>3, <2>5
    <3>. QED
      BY <2>3, <3>1
  <2>. QED
    BY <1>0, <2>2, <2>4, <2>5
<1>. HIDE DEF P
<1>6. \A k \in Nat \ {0} : k \in P
  BY <1>0, <1>4, <1>5, Downward
<1>7. CASE 1 <= z
  BY <1>6, <1>7 DEF P
<1>8. CASE ~(1 <= z)
  <2>1. f[1] = Done
    BY <1>0, <1>8, ReadForward
  <2>. QED
    BY <1>3, <2>1
<1>. QED
  BY <1>7, <1>8

\* A text that ends in a carriage return, and one that does not.
LEMMA DropCRIs ==
  ASSUME NEW S, NEW s \in Seq(S)
  PROVE  /\ s # <<>> /\ s[Len(s)] = "CR" => \E t \in Seq(S) : s = Append(t, "CR") /\ DropCR(s) = t
         /\ ~(s # <<>> /\ s[Len(s)] = "CR") => DropCR(s) = s
<1>1. ASSUME s # <<>>, s[Len(s)] = "CR"
      PROVE  \E t \in Seq(S) : s = Append(t, "CR") /\ DropCR(s) = t
  <2>. DEFINE t == SubSeq(s, 1, Len(s) - 1)
  <2>1. t \in Seq(S) /\ s = Append(t, "CR")
    BY <1>1
  <2>2. DropCR(s) = t
    BY <1>1 DEF DropCR, Last, Front
  <2>. QED
    BY <2>1, <2>2
<1>2. ASSUME ~(s # <<>> /\ s[Len(s)] = "CR") PROVE DropCR(s) = s
  BY <1>2 DEF DropCR, Last
<1>. QED
  BY <1>1, <1>2

\* A payload without its last carriage return is read as what it was read as, without it.
LEMMA EscapesDropCR ==
  ASSUME NEW S, NEW s \in Seq(S), Legal(ApplyEscapes(s))
  PROVE  Legal(ApplyEscapes(DropCR(s))) /\ ApplyEscapes(DropCR(s)).out = DropCR(ApplyEscapes(s).out)
<1>0. Len(s) \in Nat
  OBVIOUS
<1>1. PICK f : Unescapes(f, s) /\ ApplyEscapes(s) = f[1]
  BY <1>0, ApplyEscapesIs
<1>2. f[1].out \in Seq(Runes(S)) /\ Legal(f[1])
  BY <1>1, ReadSeq
<1>3. CASE s # <<>> /\ s[Len(s)] = "CR"
  <2>1. PICK t \in Seq(S) : s = Append(t, "CR") /\ DropCR(s) = t
    BY <1>3, DropCRIs
  <2>2. Len(t) \in Nat
    OBVIOUS
  <2>3. PICK g : Unescapes(g, t) /\ ApplyEscapes(t) = g[1]
    BY <2>2, ApplyEscapesIs
  <2>4. Legal(g[1]) /\ f[1].out = Append(g[1].out, "CR")
    BY <1>1, <1>2, <2>1, <2>3, ReadWithReturn
  <2>5. g[1].out \in Seq(Runes(S))
    BY <2>3, ReadSeq
  <2>6. DropCR(Append(g[1].out, "CR")) = g[1].out
    <3>. DEFINE o == Append(g[1].out, "CR")
    <3>1. o # <<>> /\ o[Len(o)] = "CR" /\ SubSeq(o, 1, Len(o) - 1) = g[1].out
      BY <2>5
    <3>. HIDE DEF o
    <3>2. DropCR(o) = g[1].out
      BY <3>1 DEF DropCR, Last, Front
    <3>. QED
      BY <3>2 DEF o
  <2>. QED
    BY <1>1, <2>1, <2>3, <2>4, <2>6
<1>4. CASE ~(s # <<>> /\ s[Len(s)] = "CR")
  <2>1. DropCR(s) = s
    BY <1>4, DropCRIs
  <2>2. f[1].out # <<>> => f[1].out[Len(f[1].out)] # "CR"
    BY <1>1, <1>2, <1>4, ReadWithoutReturn
  <2>3. DropCR(f[1].out) = f[1].out
    BY <2>2 DEF DropCR, Last
  <2>. QED
    BY <1>1, <1>2, <2>1, <2>3
<1>. QED
  BY <1>3, <1>4

\* What one character is sent as.
Esc(c) == IF c = "bs" THEN <<"bs", "bs">>
          ELSE IF c = "LF" THEN <<"bs", "n">>
          ELSE IF c = "TAB" THEN <<"bs", "t">>
          ELSE IF c = "LFs" THEN <<"(bs n)s">> ELSE <<c>>

\* The escaped runes of a text, one by one.
Escs(s) == [i \in DOMAIN s |-> Esc(s[i])]

\* escapeText as a sequence of escaped runes.
LEMMA EscapeTextIs ==
  ASSUME NEW s
  PROVE  EscapeText(s) = FlattenSeq(Escs(s))
<1>. DEFINE Escaped == [bs |-> <<"bs", "bs">>, LF |-> <<"bs", "n">>, TAB |-> <<"bs", "t">>, LFs |-> <<"(bs n)s">>]
            seqs == [i \in DOMAIN s |-> IF s[i] \in DOMAIN Escaped THEN Escaped[s[i]] ELSE <<s[i]>>]
<1>1. EscapeText(s) = FlattenSeq(seqs)
  BY Zenon DEF EscapeText
<1>2. /\ DOMAIN Escaped = {"bs", "LF", "TAB", "LFs"} /\ Escaped["bs"] = <<"bs", "bs">>
      /\ Escaped["LF"] = <<"bs", "n">> /\ Escaped["TAB"] = <<"bs", "t">> /\ Escaped["LFs"] = <<"(bs n)s">>
  OBVIOUS
<1>. HIDE DEF Escaped
<1>3. ASSUME NEW c PROVE (IF c \in DOMAIN Escaped THEN Escaped[c] ELSE <<c>>) = Esc(c)
  BY <1>2 DEF Esc
<1>4. \A i \in DOMAIN s : (IF s[i] \in DOMAIN Escaped THEN Escaped[s[i]] ELSE <<s[i]>>) = Esc(s[i])
  BY <1>3, Zenon
<1>5. seqs = Escs(s)
  BY <1>4, Zenon DEF Escs
<1>. QED
  BY <1>1, <1>5

\* What may be written for them.
Coded(S) == S \cup {"bs", "n", "t", "(bs n)s"}

\* Each rune is escaped by itself.
LEMMA EscsTyped ==
  ASSUME NEW S, NEW s \in Seq(S)
  PROVE  Escs(s) \in Seq(Seq(Coded(S))) /\ Len(Escs(s)) = Len(s) /\ \A i \in 1..Len(s) : Escs(s)[i] = Esc(s[i])
<1>. DEFINE U == Coded(S)
<1>1. S \subseteq U /\ {"bs", "n", "t", "(bs n)s"} \subseteq U
  BY DEF Coded
<1>. HIDE DEF U
<1>2. ASSUME NEW c \in U PROVE <<c>> \in Seq(U)
  OBVIOUS
<1>3. ASSUME NEW c \in U, NEW d \in U PROVE <<c, d>> \in Seq(U)
  OBVIOUS
<1>4. ASSUME NEW c \in S PROVE Esc(c) \in Seq(U)
  BY <1>1, <1>2, <1>3 DEF Esc
<1>. HIDE DEF Escs
<1>5. Escs(s) = [i \in 1..Len(s) |-> Esc(s[i])] /\ Len(s) \in Nat /\ \A i \in 1..Len(s) : s[i] \in S
  BY DEF Escs
<1>. QED
  BY <1>4, <1>5 DEF U

\* The rest of a text is its first rune and the rest after that.
LEMMA SubSeqParts ==
  ASSUME NEW S, NEW t \in Seq(S), NEW k \in 1..Len(t)
  PROVE  SubSeq(t, k, Len(t)) = <<t[k]>> \o SubSeq(t, k + 1, Len(t))
  OBVIOUS

\* What escapeText makes of a text, applyEscapes reads as that text, for every text that
\* fits into a line. By PartEnds: from the end of each escaped rune the rest is read as the
\* runes that follow.
THEOREM EscapedIsRead ==
  ASSUME NEW S, NEW t \in Seq(S), "LFs" \notin ToSet(t)
  PROVE  Legal(ApplyEscapes(EscapeText(t))) /\ ApplyEscapes(EscapeText(t)).out = t
<1>. DEFINE F == EscapeText(t)
            z == Len(t)
            U == Coded(S)
<1>1. Escs(t) \in Seq(Seq(U)) /\ Len(Escs(t)) = z /\ \A i \in 1..z : Escs(t)[i] = Esc(t[i])
  BY EscsTyped
<1>2. F = FlattenSeq(Escs(t))
  BY EscapeTextIs
<1>. HIDE DEF F, U
<1>3. F \in Seq(U)
  BY <1>1, <1>2, FlattenEnds
<1>4. PICK e : PartEnds(e, Escs(t), F)
  BY <1>1, <1>2, FlattenEnds
<1>5. /\ z \in Nat /\ Len(F) \in Nat /\ \A i \in 0..z : e[i] \in Nat
      /\ e[0] = 0 /\ e[z] = Len(F)
  <2>1. z \in Nat /\ Len(F) \in Nat
    BY <1>3
  <2>2. e \in [0..z -> Nat] /\ e[0] = 0 /\ e[z] = Len(F)
    BY <1>1, <1>4, Zenon DEF PartEnds
  <2>. QED
    BY <2>1, <2>2
<1>5a. ASSUME NEW i \in 1..z
       PROVE  /\ e[i] = e[i - 1] + Len(Esc(t[i])) /\ e[i] <= Len(F)
              /\ \A h \in 1..Len(Esc(t[i])) : F[e[i - 1] + h] = Esc(t[i])[h]
  <2>1. i \in 1..Len(Escs(t)) /\ Escs(t)[i] = Esc(t[i])
    BY <1>1
  <2>2. /\ e[i] = e[i - 1] + Len(Escs(t)[i]) /\ e[i] <= Len(F)
        /\ \A h \in 1..Len(Escs(t)[i]) : F[e[i - 1] + h] = Escs(t)[i][h]
    BY <1>4, <2>1, Zenon DEF PartEnds
  <2>. QED
    BY <2>1, <2>2, Zenon
<1>6. PICK f : Unescapes(f, F) /\ ApplyEscapes(F) = f[1]
  BY <1>5, ApplyEscapesIs
<1>. HIDE DEF z
<1>. DEFINE P == {k \in Nat : k <= z + 1 => Legal(f[e[k - 1] + 1]) /\ f[e[k - 1] + 1].out = SubSeq(t, k, z)}
<1>7. ASSUME NEW k \in Nat \ {0}, k > z PROVE k \in P
  <2>. SUFFICES ASSUME k = z + 1 PROVE k \in P
    BY <1>5, <1>7
  <2>1. e[k - 1] + 1 = Len(F) + 1 /\ e[k - 1] + 1 \in Nat \ {0} /\ e[k - 1] + 1 > Len(F)
    BY <1>5
  <2>2. f[e[k - 1] + 1] = Done
    BY <1>5, <1>6, <2>1, ReadForward
  <2>3. SubSeq(t, k, z) = <<>>
    BY <1>5 DEF z
  <2>4. Legal(f[e[k - 1] + 1]) /\ f[e[k - 1] + 1].out = SubSeq(t, k, z)
    BY <2>2, <2>3, LegalIs, Zenon
  <2>. QED
    BY <2>4
<1>8. ASSUME NEW k \in 1..z, \A j \in Nat \ {0} : j > k => j \in P PROVE k \in P
  <2>0. PICK a \in Nat, b \in Nat : a = e[k - 1] /\ b = e[k]
    <3>1. k - 1 \in 0..z /\ k \in 0..z
      BY <1>5
    <3>. QED
      BY <1>5, <3>1
  <2>1. PICK p \in Nat \ {0} : p = a + 1
    OBVIOUS
  <2>2. PICK q \in Nat \ {0} : q = b + 1
    OBVIOUS
  <2>2a. PICK o : o = SubSeq(t, k + 1, z)
    OBVIOUS
  <2>3. Legal(f[q]) /\ f[q].out = o
    <3>1. PICK j \in Nat \ {0} : j = k + 1 /\ j - 1 = k /\ j > k /\ j <= z + 1
      BY <1>5
    <3>2. j \in P
      BY <1>8, <3>1
    <3>. QED
      BY <2>0, <2>2, <2>2a, <3>1, <3>2
  <2>4. /\ b = a + Len(Esc(t[k])) /\ b <= Len(F)
        /\ \A h \in 1..Len(Esc(t[k])) : F[a + h] = Esc(t[k])[h]
    BY <1>5a, <2>0, Zenon
  <2>5. f[p] = Put(t[k], f[q])
    <3>. HIDE DEF P
    <3>0. t[k] # "LFs"
      BY DEF ToSet, z
    <3>1. CASE t[k] \notin {"bs", "LF", "TAB"}
      <4>1. Esc(t[k]) = <<t[k]>>
        BY <3>0, <3>1 DEF Esc
      <4>2. Len(<<t[k]>>) = 1 /\ <<t[k]>>[1] = t[k]
        OBVIOUS
      <4>3. q = p + 1 /\ F[p] = t[k] /\ p <= Len(F)
        BY <1>5, <2>1, <2>2, <2>4, <4>1, <4>2
      <4>. QED
        BY <1>5, <1>6, <3>1, <4>3, ReadForward
    <3>2. CASE t[k] \in {"bs", "LF", "TAB"}
      <4>1. PICK x \in {"n", "t", "bs"} : Esc(t[k]) = <<"bs", x>> /\ Plain[x] = t[k]
        BY <3>2, PlainNames DEF Esc
      <4>2. Len(<<"bs", x>>) = 2 /\ <<"bs", x>>[1] = "bs" /\ <<"bs", x>>[2] = x
        OBVIOUS
      <4>3. q = p + 2 /\ F[p] = "bs" /\ F[p + 1] = x /\ p < Len(F)
        <5>1. F[a + 1] = "bs" /\ F[a + 2] = x
          BY <2>4, <4>1, <4>2
        <5>2. p + 1 = a + 2 /\ q = p + 2
          BY <1>5, <2>1, <2>2, <2>4, <4>1, <4>2
        <5>. QED
          BY <1>5, <2>1, <2>2, <2>4, <5>1, <5>2
      <4>. QED
        BY <1>5, <1>6, <4>1, <4>3, ReadForward
    <3>. QED
      BY <3>1, <3>2
  <2>6. Legal(f[p]) /\ f[p].out = <<t[k]>> \o o
    BY <2>3, <2>5, LegalIs, Zenon
  <2>7. SubSeq(t, k, z) = <<t[k]>> \o o
    BY <2>2a, SubSeqParts DEF z
  <2>8. Legal(f[e[k - 1] + 1]) /\ f[e[k - 1] + 1].out = SubSeq(t, k, z) /\ k \in Nat
    BY <2>0, <2>1, <2>6, <2>7
  <2>. QED
    BY <2>8
<1>. HIDE DEF P
<1>9. \A k \in Nat \ {0} : k \in P
  BY <1>5, <1>7, <1>8, Downward
<1>10. PICK k \in Nat : k = 1 /\ k - 1 = 0 /\ k <= z + 1 /\ k \in P
  BY <1>5, <1>9
<1>11. Legal(f[e[0] + 1]) /\ f[e[0] + 1].out = SubSeq(t, 1, z)
  BY <1>10 DEF P
<1>12. e[0] + 1 = 1 /\ SubSeq(t, 1, z) = t
  BY <1>5 DEF z
<1>. QED
  BY <1>6, <1>11, <1>12 DEF F

-----------------------------------------------------------------------------
(* Blanks at the ends of a command.                                        *)

\* A set of places that is not empty has a first and a last.
LEMMA MaxMin ==
  ASSUME NEW z \in Nat, NEW K \in SUBSET (1..z), K # {}
  PROVE  Max(K) \in K /\ Min(K) \in K
<1>. DEFINE A == {k \in Nat : \A L \in SUBSET (1..k) : L # {} => \E x \in L : \A y \in L : x >= y}
            B == {k \in Nat : \A L \in SUBSET (1..k) : L # {} => \E x \in L : \A y \in L : x <= y}
<1>1. 0 \in A /\ 0 \in B
  <2>1. \A L \in SUBSET (1..0) : L = {}
    OBVIOUS
  <2>. QED
    BY <2>1
<1>2. ASSUME NEW k \in A PROVE k + 1 \in A
  <2>. SUFFICES ASSUME NEW L \in SUBSET (1..k + 1), L # {} PROVE \E x \in L : \A y \in L : x >= y
    OBVIOUS
  <2>1. CASE k + 1 \in L
    <3>1. \A y \in L : k + 1 >= y
      OBVIOUS
    <3>. QED
      BY <2>1, <3>1
  <2>2. CASE k + 1 \notin L
    <3>1. L \in SUBSET (1..k)
      BY <2>2
    <3>. QED
      BY <3>1
  <2>. QED
    BY <2>1, <2>2
<1>3. ASSUME NEW k \in B PROVE k + 1 \in B
  <2>. SUFFICES ASSUME NEW L \in SUBSET (1..k + 1), L # {} PROVE \E x \in L : \A y \in L : x <= y
    OBVIOUS
  <2>1. k \in Nat /\ L \ {k + 1} \in SUBSET (1..k)
    OBVIOUS
  <2>2. CASE L \ {k + 1} = {}
    <3>1. k + 1 \in L /\ \A y \in L : y = k + 1
      BY <2>2
    <3>. QED
      BY <2>1, <3>1
  <2>3. CASE L \ {k + 1} # {}
    <3>1. PICK x \in L \ {k + 1} : \A y \in L \ {k + 1} : x <= y
      BY <2>1, <2>3
    <3>2. x <= k + 1
      BY <2>1
    <3>. QED
      BY <3>1, <3>2
  <2>. QED
    BY <2>2, <2>3
<1>. HIDE DEF A, B
<1>4. A = Nat /\ B = Nat
  <2>1. A \in SUBSET Nat /\ B \in SUBSET Nat
    BY DEF A, B
  <2>2. A = Nat
    BY <1>1, <1>2, <2>1, Induction
  <2>3. B = Nat
    BY <1>1, <1>3, <2>1, Induction
  <2>. QED
    BY <2>2, <2>3
<1>5. (\E x \in K : \A y \in K : x >= y) /\ (\E x \in K : \A y \in K : x <= y)
  BY <1>4 DEF A, B
<1>. QED
  BY <1>5 DEF Max, Min

\* strings.TrimSpace takes a carriage return at the end with it.
LEMMA TrimDropCR ==
  ASSUME NEW S, NEW s \in Seq(S)
  PROVE  Trim(DropCR(s)) = Trim(s)
<1>1. CASE ~(s # <<>> /\ s[Len(s)] = "CR")
  BY <1>1, DropCRIs
<1>2. CASE s # <<>> /\ s[Len(s)] = "CR"
  <2>1. PICK t \in Seq(S) : s = Append(t, "CR") /\ DropCR(s) = t
    BY <1>2, DropCRIs
  <2>. DEFINE K == {i \in DOMAIN t : t[i] \notin {" ", "TAB", "CR", "LF"}}
              L == {i \in DOMAIN s : s[i] \notin {" ", "TAB", "CR", "LF"}}
              z == Len(t)
  <2>2. z \in Nat /\ DOMAIN t = 1..z /\ DOMAIN s = 1..z + 1 /\ s[z + 1] = "CR" /\ \A i \in 1..z : s[i] = t[i]
    BY <2>1
  <2>. HIDE DEF z
  <2>3. L = K /\ K \in SUBSET (1..z)
    <3>1. \A i \in 1..z + 1 : i \in 1..z \/ i = z + 1
      BY <2>2
    <3>2. \A i \in 1..z : i \in 1..z + 1
      BY <2>2
    <3>. QED
      BY <2>2, <3>1, <3>2
  <2>. HIDE DEF K, L
  <2>4. /\ Trim(t) = IF K = {} THEN <<>> ELSE SubSeq(t, Min(K), Max(K))
        /\ Trim(s) = IF L = {} THEN <<>> ELSE SubSeq(s, Min(L), Max(L))
    BY Zenon DEF Trim, K, L
  <2>5. ASSUME K # {} PROVE SubSeq(t, Min(K), Max(K)) = SubSeq(s, Min(K), Max(K))
    <3>1. PICK a \in 1..z, b \in 1..z : a = Min(K) /\ b = Max(K)
      BY <2>2, <2>3, <2>5, MaxMin
    <3>2. SubSeq(t, a, b) = SubSeq(s, a, b)
      BY <2>1, <2>2
    <3>. QED
      BY <3>1, <3>2
  <2>. QED
    BY <2>1, <2>3, <2>4, <2>5
<1>. QED
  BY <1>1, <1>2

-----------------------------------------------------------------------------
(* The modifiers without f.                                                *)

\* The modifier f, alone in its token.
FTok == Letters(<<"f">>)

\* modsWithoutF leaves out the f and keeps all other modifiers, each as often as it was.
LEMMA WithoutFIs ==
  ASSUME NEW T, NEW ts \in Seq(T)
  PROVE  /\ WithoutF(ts) \in Seq(T)
         /\ ToSet(WithoutF(ts)) = ToSet(ts) \ {FTok}
         /\ \A p, q \in DOMAIN WithoutF(ts) : p # q =>
              \E i, j \in DOMAIN ts : i # j /\ ts[i] = WithoutF(ts)[p] /\ ts[j] = WithoutF(ts)[q]
<1>. DEFINE z == Len(ts)
            W == WithoutF(ts)
            seqs == [i \in DOMAIN ts |-> IF ts[i] = FTok THEN <<>> ELSE <<ts[i]>>]
<1>1. W = FlattenSeq(seqs)
  BY Zenon DEF WithoutF, FTok
<1>2. /\ seqs \in Seq(Seq(T)) /\ Len(seqs) = z /\ z \in Nat /\ DOMAIN ts = 1..z
      /\ \A i \in 1..z : seqs[i] = IF ts[i] = FTok THEN <<>> ELSE <<ts[i]>>
  <2>1. \A i \in 1..z : (IF ts[i] = FTok THEN <<>> ELSE <<ts[i]>>) \in Seq(T)
    OBVIOUS
  <2>2. seqs = [i \in 1..z |-> IF ts[i] = FTok THEN <<>> ELSE <<ts[i]>>] /\ z \in Nat /\ DOMAIN ts = 1..z
    OBVIOUS
  <2>. HIDE DEF seqs
  <2>. QED
    BY <2>1, <2>2
<1>. HIDE DEF seqs, W
<1>3. W \in Seq(T)
  BY <1>1, <1>2, FlattenEnds
<1>4. PICK e : PartEnds(e, seqs, W)
  BY <1>1, <1>2, FlattenEnds
<1>. HIDE DEF z
<1>5. e \in [0..z -> Nat] /\ e[z] = Len(W) /\ \A p \in 1..Len(W) : \E i \in 1..z : \E h \in 1..Len(seqs[i]) : p = e[i - 1] + h
  BY <1>2, <1>4, Zenon DEF PartEnds
<1>6. \A i \in 1..z : /\ e[i] = e[i - 1] + Len(seqs[i]) /\ e[i] <= Len(W)
                      /\ \A h \in 1..Len(seqs[i]) : W[e[i - 1] + h] = seqs[i][h]
  BY <1>2, <1>4, Zenon DEF PartEnds
<1>7. \A i \in 1..z : e[i] \in Nat /\ e[i - 1] \in Nat
  <2>1. \A i \in 1..z : i \in 0..z /\ i - 1 \in 0..z
    BY <1>2
  <2>. QED
    BY <1>5, <2>1
<1>8. Len(<<>>) = 0 /\ \A v \in T : Len(<<v>>) = 1 /\ <<v>>[1] = v
  OBVIOUS
<1>9. ASSUME NEW i \in 1..z
      PROVE  /\ ts[i] \in T
             /\ ts[i] = FTok => Len(seqs[i]) = 0
             /\ ts[i] # FTok => Len(seqs[i]) = 1 /\ seqs[i][1] = ts[i]
  <2>1. ts[i] \in T
    BY <1>2
  <2>. QED
    BY <1>2, <1>8, <2>1
<1>10. Len(W) \in Nat /\ DOMAIN W = 1..Len(W)
  BY <1>3
<1>11. ASSUME NEW p \in 1..Len(W)
       PROVE  \E i \in 1..z : p = e[i - 1] + 1 /\ ts[i] # FTok /\ W[p] = ts[i]
  <2>1. PICK i \in 1..z : \E h \in 1..Len(seqs[i]) : p = e[i - 1] + h
    BY <1>5
  <2>2. PICK h \in 1..Len(seqs[i]) : p = e[i - 1] + h
    BY <2>1
  <2>3. ts[i] # FTok
    BY <1>9
  <2>3a. Len(seqs[i]) = 1 /\ seqs[i][1] = ts[i]
    BY <1>9, <2>3, Zenon
  <2>4. h = 1 /\ seqs[i][1] = ts[i]
    BY <2>3a
  <2>5. W[p] = seqs[i][h]
    BY <1>6, <2>2
  <2>. QED
    BY <2>2, <2>3, <2>4, <2>5
<1>12. ASSUME NEW i \in 1..z, ts[i] # FTok
       PROVE  \E p \in 1..Len(W) : W[p] = ts[i]
  <2>1. Len(seqs[i]) = 1 /\ seqs[i][1] = ts[i]
    BY <1>9, <1>12
  <2>2. PICK a \in Nat : a = e[i - 1]
    BY <1>7
  <2>2a. e[i] = e[i - 1] + Len(seqs[i]) /\ e[i] <= Len(W)
    BY <1>6, Zenon
  <2>3. e[i] = a + 1 /\ e[i] <= Len(W) /\ 1 \in 1..1
    BY <2>1, <2>2, <2>2a
  <2>4. W[a + 1] = seqs[i][1]
    BY <1>6, <2>1, <2>2, <2>3
  <2>5. a + 1 \in 1..Len(W)
    BY <1>10, <2>3
  <2>. QED
    BY <2>1, <2>4, <2>5
<1>13. ToSet(W) = ToSet(ts) \ {FTok}
  <2>1. \A v : v \in ToSet(W) <=> \E p \in 1..Len(W) : v = W[p]
    BY <1>10 DEF ToSet
  <2>2. \A v : v \in ToSet(ts) <=> \E i \in 1..z : v = ts[i]
    BY <1>2 DEF ToSet
  <2>3. ASSUME NEW v \in ToSet(W) PROVE v \in ToSet(ts) /\ v # FTok
    <3>1. PICK p \in 1..Len(W) : v = W[p]
      BY <2>1
    <3>2. PICK i \in 1..z : ts[i] # FTok /\ W[p] = ts[i]
      BY <1>11
    <3>. QED
      BY <2>2, <3>1, <3>2
  <2>4. ASSUME NEW v \in ToSet(ts), v # FTok PROVE v \in ToSet(W)
    BY <1>12, <2>1, <2>2, <2>4
  <2>. HIDE DEF FTok
  <2>. QED
    BY <2>3, <2>4
<1>14. ASSUME NEW p \in DOMAIN W, NEW q \in DOMAIN W, p # q
       PROVE  \E i, j \in DOMAIN ts : i # j /\ ts[i] = W[p] /\ ts[j] = W[q]
  <2>1. PICK i \in 1..z : p = e[i - 1] + 1 /\ W[p] = ts[i]
    BY <1>10, <1>11
  <2>2. PICK j \in 1..z : q = e[j - 1] + 1 /\ W[q] = ts[j]
    BY <1>10, <1>11
  <2>3. i # j
    BY <1>14, <2>1, <2>2
  <2>. QED
    BY <1>2, <2>1, <2>2, <2>3
<1>. QED
  BY <1>3, <1>13, <1>14 DEF W

-----------------------------------------------------------------------------
(* Two machines that make the same of the durations of a line.             *)

\* Two machines make the same of a duration; of all durations among a line's modifiers; and
\* of those among its words.
SameTime(b1, b2, w) == Duration(b1, Whole(w)) = Duration(b2, Whole(w))

Calm(b1, b2, l) == \A t \in ToSet(l.mods) : SameTime(b1, b2, t.val)
CalmWords(b1, b2, l) == \A w \in ToSet(l.words) : SameTime(b1, b2, w)

\* A duration that does not pass 64 bits is the same on all machines.
LEMMA SmallTime ==
  ASSUME NEW w \in Words, \A v \in ToSet(w.parts) : v.n < Huge, NEW b1, NEW b2
  PROVE  SameTime(b1, b2, w)
<1>1. ASSUME NEW v, v.n < Huge, v.n \in Int PROVE Duration(b1, v) = Duration(b2, v)
  <2>1. ~(v.n >= Huge)
    BY <1>1, SMT DEF Huge
  <2>2. Duration(b1, v) = Ms(v)
    BY <2>1, Zenon DEF Duration, Ms
  <2>3. Duration(b2, v) = Ms(v)
    BY <2>1, Zenon DEF Duration, Ms
  <2>. QED
    BY <2>2, <2>3, Zenon
<1>2. Whole(w).n \in Int
  BY WholeInt
<1>3. Whole(w).n < Huge
  <2>1. CASE w.sep = ""
    <3>1. w.parts \in Seq(Values) \ {<<>>}
      BY DEF Words
    <3>2. w.parts[1] \in ToSet(w.parts)
      BY <3>1 DEF ToSet
    <3>3. Whole(w) = w.parts[1]
      BY <2>1 DEF Whole
    <3>. QED
      BY <3>2, <3>3
  <2>2. CASE w.sep # ""
    <3>1. Whole(w) = Garbled /\ Garbled.n = 0
      BY <2>2, Zenon DEF Whole, Garbled, Name
    <3>. QED
      BY <3>1, SMT DEF Huge
  <2>. QED
    BY <2>1, <2>2
<1>. QED
  BY <1>1, <1>2, <1>3, Zenon DEF SameTime

\* So is the value of each key of such a line.
LEMMA CalmKv ==
  ASSUME NEW b1, NEW b2, NEW l, Calm(b1, b2, l), NEW k, Has(MS(l), k)
  PROVE  SameTime(b1, b2, MS(l).kvs[k])
<1>. DEFINE kvs == {t \in ToSet(l.mods) : t.eq}
<1>1. \A t \in kvs : SameTime(b1, b2, t.val)
  BY DEF Calm
<1>2. /\ DOMAIN MS(l).kvs = {t.key : t \in kvs}
      /\ \A x \in DOMAIN MS(l).kvs : MS(l).kvs[x] = (CHOOSE t \in kvs : t.key = x).val
  BY Zenon DEF MS, ModSet
<1>. HIDE DEF kvs
<1>3. \E t \in kvs : t.key = k
  BY <1>2 DEF Has
<1>4. (CHOOSE t \in kvs : t.key = k) \in kvs
  BY <1>3
<1>. QED
  BY <1>1, <1>2, <1>4 DEF Has

\* And each duration that is built of it.
LEMMA CalmTimes ==
  ASSUME NEW b1, NEW b2, NEW l, Calm(b1, b2, l)
  PROVE  /\ \A k, default : DurVal(b1, MS(l), k, default) = DurVal(b2, MS(l), k, default)
         /\ \A k : OptDur(b1, MS(l), k) = OptDur(b2, MS(l), k)
         /\ CalmWords(b1, b2, l) /\ Len(l.words) = 1 =>
              Duration(b1, Whole(Payload(l))) = Duration(b2, Whole(Payload(l)))
<1>1. ASSUME NEW k, NEW default PROVE DurVal(b1, MS(l), k, default) = DurVal(b2, MS(l), k, default)
  <2>1. CASE Has(MS(l), k)
    <3>1. SameTime(b1, b2, MS(l).kvs[k])
      BY <2>1, CalmKv
    <3>. QED
      BY <2>1, <3>1, Zenon DEF DurVal, SameTime
  <2>2. CASE ~Has(MS(l), k)
    BY <2>2, Zenon DEF DurVal
  <2>. QED
    BY <2>1, <2>2
<1>2. \A k : OptDur(b1, MS(l), k) = OptDur(b2, MS(l), k)
  BY <1>1, Zenon DEF OptDur
<1>3. ASSUME CalmWords(b1, b2, l), Len(l.words) = 1 PROVE Duration(b1, Whole(Payload(l))) = Duration(b2, Whole(Payload(l)))
  <2>1. Payload(l) = l.words[1]
    BY <1>3 DEF Payload
  <2>. QED
    BY <1>3, <2>1 DEF CalmWords, SameTime, ToSet
<1>. QED
  BY <1>1, <1>2, <1>3

\* BuildExec with the time limit that was read.
ExecWith(o, l, m, w) ==
  LET shell == Shell \in m.words IN
  [o EXCEPT !.shell = shell, !.noerr = Noerr \in m.words,
            !.cmd = IF shell THEN Trim(l.chars) ELSE <<>>,
            !.argv = IF shell THEN <<>> ELSE SplitArgv(Trim(l.chars)).argv,
            !.timeout = w]

\* exec is built of a duration as of another equal to it.
LEMMA CalmExec ==
  ASSUME NEW b1, NEW b2, NEW o, NEW l, NEW m, \A k, default : DurVal(b1, m, k, default) = DurVal(b2, m, k, default)
  PROVE  BuildExec(b1, o, l, m) = BuildExec(b2, o, l, m)
<1>1. ASSUME NEW b PROVE BuildExec(b, o, l, m) = ExecWith(o, l, m, DurVal(b, m, "timeout", 10000))
  BY SMT DEF BuildExec, ExecWith
<1>2. DurVal(b1, m, "timeout", 10000) = DurVal(b2, m, "timeout", 10000)
  BY SMT
<1>. QED
  BY <1>1, <1>2, SMT

\* So is cap.
LEMMA CalmCap ==
  ASSUME NEW b1, NEW b2, NEW o, NEW l, NEW m, \A k, default : DurVal(b1, m, k, default) = DurVal(b2, m, k, default)
  PROVE  BuildCap(b1, o, l, m) = BuildCap(b2, o, l, m)
<1>1. DurVal(b1, m, "ms", 100) = DurVal(b2, m, "ms", 100)
  BY SMT
<1>. QED
  BY ONLY <1>1, Zenon DEF BuildCap

\* BuildOp of a click and a drag with the duration that was read.
PointWith(o, l, w) ==
  [o EXCEPT !.point = IF l.words = <<>> THEN NoPoint ELSE ParsePoint(Payload(l), MS(l)), !.hasPoint = ~(l.words = <<>>),
            !.button = NameVal(MS(l), "b", "left"), !.mods = OrderedMods(MS(l)),
            !.count = IF Commands[l.cmd].kind = "click" THEN IntVal(MS(l), "n", 1) ELSE 0,
            !.gap = IF Commands[l.cmd].kind = "click" THEN w ELSE 0]

\* What is set of drag, given its duration.
PointsWith(o, l, w) ==
  [o EXCEPT !.points = [h \in DOMAIN l.words |-> ParsePoint(l.words[h], MS(l))],
            !.button = NameVal(MS(l), "b", "left"), !.mods = OrderedMods(MS(l)),
            !.duration = w, !.count = IntVal(MS(l), "steps", 20)]

\* c and md as a function of their gap.
LEMMA OptPointBuilt ==
  ASSUME NEW b, NEW i, NEW l, Commands[l.cmd].payload = "opt_point"
  PROVE  BuildOp(b, i, l) = PointWith(Bare(b, i, l), l, DurVal(b, MS(l), "ms", 60))
  BY SMTT(60) DEF BuildOp, Bare, MS, PointWith

\* drag as a function of its duration.
LEMMA PointsBuilt ==
  ASSUME NEW b, NEW i, NEW l, Commands[l.cmd].payload = "points"
  PROVE  BuildOp(b, i, l) = PointsWith(Bare(b, i, l), l, DurVal(b, MS(l), "ms", 500))
  BY SMTT(60) DEF BuildOp, Bare, MS, PointsWith

\* They take such a line for the same operation.
LEMMA CalmBuild ==
  ASSUME NEW b1, NEW b2, NEW l, NEW i, Calm(b1, b2, l), CalmWords(b1, b2, l), l.cmd \in DOMAIN Commands,
         l.cmd = "sleep" => Len(l.words) = 1
  PROVE  BuildOp(b1, i, l) = BuildOp(b2, i, l)
<1>. DEFINE m == ModSet(Commands[l.cmd], l.mods)
<1>1. m = MS(l)
  BY DEF MS
<1>2. /\ \A k, default : DurVal(b1, m, k, default) = DurVal(b2, m, k, default)
      /\ \A k : OptDur(b1, m, k) = OptDur(b2, m, k)
      /\ Len(l.words) = 1 => Duration(b1, Whole(Payload(l))) = Duration(b2, Whole(Payload(l)))
  BY <1>1, CalmTimes
<1>2a. Bare(b1, i, l) = Bare(b2, i, l)
  BY <1>1, <1>2, Zenon DEF Bare
<1>3. CASE Commands[l.cmd].payload = "none"
  <2>1. ASSUME NEW b PROVE BuildOp(b, i, l) = FinishNone(b, Bare(b, i, l), m)
    BY <1>3, SMTT(30) DEF BuildOp, Bare, MS
  <2>0. PICK x, y, z : /\ x = OptDur(b1, m, "delay") /\ x = OptDur(b2, m, "delay")
                       /\ y = OptDur(b1, m, "txtms") /\ y = OptDur(b2, m, "txtms")
                       /\ z = OptDur(b1, m, "keyms") /\ z = OptDur(b2, m, "keyms")
    BY <1>2
  <2>2. ASSUME NEW o PROVE FinishNone(b1, o, m) = FinishNone(b2, o, m)
    BY <2>0, Zenon DEF FinishNone
  <2>. QED
    BY <1>2a, <2>1, <2>2, Zenon
<1>4. CASE Commands[l.cmd].payload = "keys"
  <2>1. ASSUME NEW b PROVE BuildOp(b, i, l) = BuildKeys(b, Bare(b, i, l), l, m)
    BY <1>4, SMTT(30) DEF BuildOp, Bare, MS
  <2>2. ASSUME NEW o PROVE BuildKeys(b1, o, l, m) = BuildKeys(b2, o, l, m)
    BY <1>2, Zenon DEF BuildKeys
  <2>. QED
    BY <1>2a, <2>1, <2>2, Zenon
<1>5. CASE Commands[l.cmd].payload = "text"
  <2>1. ASSUME NEW b PROVE BuildOp(b, i, l) = BuildText(b, Bare(b, i, l), l, m)
    BY <1>5, SMTT(30) DEF BuildOp, Bare, MS
  <2>2. ASSUME NEW o PROVE BuildText(b1, o, l, m) = BuildText(b2, o, l, m)
    BY <1>2, Zenon DEF BuildText
  <2>. QED
    BY <1>2a, <2>1, <2>2, Zenon
<1>6. CASE Commands[l.cmd].payload = "exec"
  <2>1. ASSUME NEW b PROVE BuildOp(b, i, l) = BuildExec(b, Bare(b, i, l), l, m)
    BY <1>6, SMTT(30) DEF BuildOp, Bare, MS
  <2>2. ASSUME NEW o PROVE BuildExec(b1, o, l, m) = BuildExec(b2, o, l, m)
    BY <1>2, CalmExec
  <2>. QED
    BY <1>2a, <2>1, <2>2, Zenon
<1>7. CASE Commands[l.cmd].payload = "cap"
  <2>1. ASSUME NEW b PROVE BuildOp(b, i, l) = BuildCap(b, Bare(b, i, l), l, m)
    BY <1>7, SMTT(30) DEF BuildOp, Bare, MS
  <2>2. ASSUME NEW o PROVE BuildCap(b1, o, l, m) = BuildCap(b2, o, l, m)
    BY <1>2, CalmCap
  <2>. QED
    BY <1>2a, <2>1, <2>2, Zenon
<1>8. CASE Commands[l.cmd].payload \in {"scroll", "qclip", "rclip"}
  <2>1. CASE Commands[l.cmd].payload = "scroll"
    <3>1. ASSUME NEW b PROVE BuildOp(b, i, l) = BuildScroll(Bare(b, i, l), l, m)
      BY <2>1, SMTT(30) DEF BuildOp, Bare, MS
    <3>. QED
      BY <1>2a, <3>1, Zenon
  <2>2. CASE Commands[l.cmd].payload = "qclip"
    <3>1. ASSUME NEW b
          PROVE  BuildOp(b, i, l) = [Bare(b, i, l) EXCEPT !.fromFile = "f" \in m.flags,
                                                          !.filePath = IF "f" \in m.flags THEN PathOf(l) ELSE ""]
      BY <2>2, SMTT(30) DEF BuildOp, Bare, MS
    <3>. QED
      BY <1>2a, <3>1, Zenon
  <2>3. CASE Commands[l.cmd].payload = "rclip"
    <3>1. ASSUME NEW b
          PROVE  BuildOp(b, i, l) =
                   [Bare(b, i, l) EXCEPT !.path = PathOf(l),
                      !.rclipType = IF Img \in m.words THEN "image" ELSE IF Txt \in m.words THEN "text" ELSE "auto"]
      BY <2>3, SMTT(30) DEF BuildOp, Bare, MS
    <3>. QED
      BY <1>2a, <3>1, Zenon
  <2>. QED
    BY <1>8, <2>1, <2>2, <2>3
<1>9. CASE Commands[l.cmd].payload \in {"selector", "opt_selector", "target"}
  <2>0. PICK w : w = DurVal(b1, m, "wait", 0) /\ w = DurVal(b2, m, "wait", 0)
    BY <1>2
  <2>1. CASE Commands[l.cmd].payload \in {"selector", "opt_selector"}
    <3>1. ASSUME NEW b
          PROVE  BuildOp(b, i, l) =
                   [Bare(b, i, l) EXCEPT
                      !.selector = IF l.words = <<>> THEN [kind |-> "title", value |-> Name(""), regex |-> "r" \in m.flags]
                                   ELSE ParseSelector(Payload(l), "r" \in m.flags),
                      !.wait = DurVal(b, m, "wait", 0), !.hasWait = Has(m, "wait")]
      BY <2>1, SMTT(30) DEF BuildOp, Bare, MS
    <3>. QED
      BY <1>2a, <2>0, <3>1, Zenon
  <2>2. CASE Commands[l.cmd].payload = "target"
    <3>1. ASSUME NEW b
          PROVE  BuildOp(b, i, l) = [Bare(b, i, l) EXCEPT !.target = PathOf(l), !.wait = DurVal(b, m, "wait", 0),
                                                          !.hasWait = Has(m, "wait")]
      BY <2>2, SMTT(30) DEF BuildOp, Bare, MS
    <3>. QED
      BY <1>2a, <2>0, <3>1, Zenon
  <2>. QED
    BY <1>9, <2>1, <2>2
<1>10. CASE Commands[l.cmd].payload \in {"point", "opt_point", "points"}
  <2>1. CASE Commands[l.cmd].payload = "point"
    <3>0. PICK w : w = DurVal(b1, m, "ms", 0) /\ w = DurVal(b2, m, "ms", 0)
      BY <1>2
    <3>1. ASSUME NEW b
          PROVE  BuildOp(b, i, l) = [Bare(b, i, l) EXCEPT !.point = ParsePoint(Payload(l), m), !.hasPoint = TRUE,
                                                          !.duration = DurVal(b, m, "ms", 0)]
      BY <2>1, SMTT(30) DEF BuildOp, Bare, MS
    <3>. QED
      BY <1>2a, <3>0, <3>1, Zenon
  <2>2. CASE Commands[l.cmd].payload = "opt_point"
    <3>1. PICK w : w = DurVal(b1, MS(l), "ms", 60) /\ w = DurVal(b2, MS(l), "ms", 60)
      BY <1>1, <1>2
    <3>. QED
      BY <1>2a, <2>2, <3>1, OptPointBuilt, SMT
  <2>3. CASE Commands[l.cmd].payload = "points"
    <3>1. PICK w : w = DurVal(b1, MS(l), "ms", 500) /\ w = DurVal(b2, MS(l), "ms", 500)
      BY <1>1, <1>2
    <3>. QED
      BY <1>2a, <2>3, <3>1, PointsBuilt, SMT
  <2>. QED
    BY <1>10, <2>1, <2>2, <2>3
<1>13. CASE Commands[l.cmd].payload = "sleep" /\ Len(l.words) = 1
  <2>1. ASSUME NEW b PROVE BuildOp(b, i, l) = [Bare(b, i, l) EXCEPT !.sleep = Duration(b, Whole(Payload(l)))]
    BY <1>13, SMTT(30) DEF BuildOp, Bare, MS
  <2>. QED
    BY <1>2, <1>2a, <1>13, <2>1, Zenon
<1>11. Commands[l.cmd].payload = "sleep" => l.cmd = "sleep"
  BY CommandNames, CommandRows
<1>12. Commands[l.cmd].payload \in {"none", "keys", "text", "scroll", "qclip", "rclip", "opt_selector", "selector",
                                    "target", "exec", "cap", "point", "opt_point", "points", "sleep"}
  BY CommandNames, CommandRows
<1>. QED
  BY <1>3, <1>4, <1>5, <1>6, <1>7, <1>8, <1>9, <1>10, <1>11, <1>12, <1>13

-----------------------------------------------------------------------------
(* A line on its way over ssh.                                             *)

\* The line as the scanner at the far end leaves it.
AsScanned(l) == [l EXCEPT !.chars = DropCR(@)]

\* c is what the far machine takes the line of o for.
Arrives(o, c) ==
  /\ IsOp(c) /\ ~c.fromFile
  /\ \A x \in OpFields \ {"src", "fromFile", "filePath", "hasText", "text"} : c[x] = o[x]
  /\ o.kind \in TextKinds => c.text = DropCR(o.text)
  /\ o.kind \notin TextKinds => c.text = o.text

\* A line that is not complained of has its bracket closed, and nothing in front of it.
LEMMA ParsedTail ==
  ASSUME NEW l, l.form = "stmt", ~Malformed(l)
  PROVE  l.tail \notin {"junk", "open"}
  BY Zenon DEF Malformed

\* What is enough for a line not to be complained of.
LEMMA WellFormed ==
  ASSUME NEW l, l.form = "stmt", l.cmd \in DOMAIN Commands, l.tail \notin {"junk", "open"},
         \A i \in DOMAIN l.mods : ~BadToken(Commands[l.cmd], l.mods, i),
         ~DurFails(MS(l), "d"), ~DurFails(MS(l), "ms"),
         Commands[l.cmd].frame => ~FrameFails(MS(l)),
         ~PayloadFails(Commands[l.cmd], l, MS(l))
  PROVE  ~Malformed(l)
  BY Zenon DEF Malformed, MS

\* A line has the fields of a line, and no others.
LineFields(l) ==
  l = [form |-> l.form, cmd |-> l.cmd, tail |-> l.tail, mods |-> l.mods, words |-> l.words, chars |-> l.chars]

\* A line has its fields.
LEMMA LinesHaveFields == \A l \in Lines : LineFields(l)
  BY DEF Lines, LineFields

\* The scanner at the far end changes only the payload's characters.
LEMMA Scanned ==
  ASSUME NEW l, LineFields(l)
  PROVE  LET a == AsScanned(l) IN
         /\ a.form = l.form /\ a.cmd = l.cmd /\ a.tail = l.tail /\ a.mods = l.mods /\ a.words = l.words
         /\ a.chars = DropCR(l.chars) /\ MS(a) = MS(l)
         /\ l.chars = <<>> => a = l
<1>. DEFINE a == AsScanned(l)
<1>1. l = [form |-> l.form, cmd |-> l.cmd, tail |-> l.tail, mods |-> l.mods, words |-> l.words, chars |-> l.chars]
  BY DEF LineFields
<1>2. a = [form |-> l.form, cmd |-> l.cmd, tail |-> l.tail, mods |-> l.mods, words |-> l.words, chars |-> DropCR(l.chars)]
  BY <1>1 DEF AsScanned
<1>3. l.chars = <<>> => DropCR(l.chars) = l.chars
  BY DEF DropCR
<1>. HIDE DEF a
<1>4. MS(a) = MS(l)
  BY <1>2 DEF MS
<1>5. l.chars = <<>> => a = l
  BY <1>1, <1>2, <1>3
<1>. QED
  BY <1>2, <1>4, <1>5 DEF a

-----------------------------------------------------------------------------
(* A line of text.                                                         *)

\* The interval that buildText sets.
TextInterval(big, l) ==
  IF Commands[l.cmd].kind = "clipboard" THEN 0
  ELSE DurVal(big, MS(l), "ms", IF Commands[l.cmd].kind = "paste" THEN 50 ELSE 0)

\* What buildText sets, from a file or from the line.
LEMMA TextFields ==
  ASSUME NEW big, NEW i, NEW l, Commands[l.cmd].payload = "text"
  PROVE  LET o == BuildOp(big, i, l) IN
         /\ OnlyThese(o, big, i, l, {"fromFile", "hasText", "filePath", "text", "interval"})
         /\ o.interval = TextInterval(big, l)
         /\ "f" \in MS(l).flags => o.text = <<>> /\ o.fromFile
         /\ "f" \notin MS(l).flags => o.text = ApplyEscapes(l.chars).out /\ ~o.fromFile
<1>. DEFINE b == Bare(big, i, l)
            o == BuildOp(big, i, l)
            t == IF "f" \in MS(l).flags THEN <<>> ELSE ApplyEscapes(l.chars).out
<1>1. IsOp(b)
  BY BareFields DEF IsBare
<1>2. {"fromFile", "hasText", "filePath", "text", "interval"} \subseteq OpFields
  BY DEF OpFields
<1>3. o = [b EXCEPT !.fromFile = "f" \in MS(l).flags,
                       !.hasText = ~("f" \in MS(l).flags),
                       !.filePath = IF "f" \in MS(l).flags THEN PathOf(l) ELSE "",
                       !.text = t,
                       !.interval = TextInterval(big, l)]
  BY SMTT(30) DEF BuildOp, Bare, MS, IsBare, BuildText, TextInterval
<1>4. OnlyThese(o, big, i, l, {"fromFile", "hasText", "filePath", "text", "interval"})
  BY TextOnly
<1>5. /\ "f" \in MS(l).flags => t = <<>>
      /\ "f" \notin MS(l).flags => t = ApplyEscapes(l.chars).out
  OBVIOUS
<1>. HIDE DEF b, o, t
<1>6. o.text = t /\ o.interval = TextInterval(big, l) /\ o.fromFile = ("f" \in MS(l).flags)
  BY <1>1, <1>2, <1>3, ZenonT(60) DEF IsOp
<1>. QED
  BY <1>4, <1>5, <1>6, Zenon DEF o

-----------------------------------------------------------------------------
(* A line of exec.                                                         *)

\* exec copies what it does not set.
LEMMA ExecWithFields ==
  ASSUME NEW p, NEW r, IsOp(p), IsOp(r), NEW x \in OpFields, p[x] = r[x], NEW l, NEW m, NEW w
  PROVE  ExecWith(p, l, m, w)[x] = ExecWith(r, l, m, w)[x]
<1>1. {"shell", "noerr", "cmd", "argv", "timeout"} \subseteq OpFields
  BY DEF OpFields
<1>. QED
  BY <1>1, ZenonT(60) DEF ExecWith, IsOp

\* A carriage return at the end of a command line means nothing.
LEMMA ExecScanned ==
  ASSUME NEW big, NEW i, NEW l \in Lines, Commands[l.cmd].payload = "exec"
  PROVE  /\ IsOp(BuildOp(big, i, AsScanned(l)))
         /\ \A x \in OpFields \ {"src"} : BuildOp(big, i, AsScanned(l))[x] = BuildOp(big, i, l)[x]
<1>. DEFINE a == AsScanned(l)
            tm == DurVal(big, MS(l), "timeout", 10000)
<1>1. /\ a.cmd = l.cmd /\ a.mods = l.mods /\ a.words = l.words /\ a.chars = DropCR(l.chars) /\ MS(a) = MS(l)
  BY Scanned, LinesHaveFields
<1>2. Trim(a.chars) = Trim(l.chars)
  <2>1. l.chars \in Seq(STRING)
    BY DEF Lines
  <2>. QED
    BY <1>1, <2>1, TrimDropCR
<1>. HIDE DEF a
<1>3. ASSUME NEW k, Commands[k.cmd].payload = "exec"
      PROVE  BuildOp(big, i, k) = BuildExec(big, Bare(big, i, k), k, MS(k))
  BY <1>3, SMTT(30) DEF BuildOp, Bare, MS
<1>4. ASSUME NEW k, NEW o, NEW m
      PROVE  BuildExec(big, o, k, m) = ExecWith(o, k, m, DurVal(big, m, "timeout", 10000))
  BY SMT DEF BuildExec, ExecWith
<1>5. BuildOp(big, i, a) = ExecWith(Bare(big, i, a), a, MS(l), tm) /\ BuildOp(big, i, l) = ExecWith(Bare(big, i, l), l, MS(l), tm)
  BY <1>1, <1>3, <1>4, SMT
<1>. HIDE DEF tm
<1>6. ASSUME NEW o PROVE ExecWith(o, a, MS(l), tm) = ExecWith(o, l, MS(l), tm)
  BY <1>2, Zenon DEF ExecWith
<1>7. /\ IsOp(Bare(big, i, a)) /\ IsOp(Bare(big, i, l))
      /\ \A x \in OpFields \ {"src"} : Bare(big, i, a)[x] = Bare(big, i, l)[x]
  <2>1. IsBare(Bare(big, i, a), big, i, a) /\ \A x \in OpFields \ (CommonFields \cup {"src"}) : Bare(big, i, a)[x] = ZeroOp[x]
    BY BareFields
  <2>2. IsBare(Bare(big, i, l), big, i, l) /\ \A x \in OpFields \ (CommonFields \cup {"src"}) : Bare(big, i, l)[x] = ZeroOp[x]
    BY BareFields
  <2>. QED
    BY <1>1, <2>1, <2>2 DEF IsBare, CommonFields
<1>8. \A x \in OpFields \ {"src"} : ExecWith(Bare(big, i, a), l, MS(l), tm)[x] = ExecWith(Bare(big, i, l), l, MS(l), tm)[x]
  BY <1>7, ExecWithFields
<1>9. IsOp(BuildOp(big, i, a))
  <2>1. OnlyThese(BuildOp(big, i, a), big, i, a, {"shell", "noerr", "cmd", "argv", "timeout"})
    BY <1>1, ExecOnly
  <2>. QED
    BY <2>1 DEF OnlyThese, IsBare
<1>. QED
  BY <1>5, <1>6, <1>8, <1>9, Zenon DEF a

-----------------------------------------------------------------------------
(* The tokens of a line that reads a file.                                 *)

\* What is before a place of a sequence.
LEMMA BeforeMember ==
  ASSUME NEW T, NEW s \in Seq(T), NEW i \in DOMAIN s, NEW u
  PROVE  u \in ToSet(SubSeq(s, 1, i - 1)) <=> \E h \in DOMAIN s : h < i /\ s[h] = u
<1>. DEFINE b == SubSeq(s, 1, i - 1)
<1>1. i \in 1..Len(s) /\ Len(s) \in Nat /\ DOMAIN s = 1..Len(s)
  OBVIOUS
<1>2. DOMAIN b = 1..(i - 1) /\ \A h \in 1..(i - 1) : b[h] = s[h]
  BY <1>1
<1>3. \A h : h \in 1..(i - 1) <=> h \in DOMAIN s /\ h < i
  BY <1>1
<1>. HIDE DEF b
<1>. QED
  BY <1>2, <1>3 DEF ToSet, b

\* The letters of a text command are f, alone.
LEMMA FileToken ==
  ASSUME NEW spec, spec.single = {"f"}, spec.word = {}, NEW ts \in Seq(Tokens), NEW i \in DOMAIN ts,
         ts[i] = KV(ts[i].key, ts[i].val) \/ ts[i] = Letters(ts[i].letters), ~BadToken(spec, ts, i)
  PROVE  ts[i].eq \/ ts[i] = FTok
<1>. DEFINE t == ts[i]
            L == t.letters
<1>1. t \in Tokens
  OBVIOUS
<1>2. t.eq \in BOOLEAN /\ L \in Seq(STRING)
  BY <1>1 DEF Tokens
<1>3. ASSUME ~t.eq PROVE t = FTok
  <2>1. L # <<>> /\ IsInjective(L) /\ ToSet(L) \subseteq {"f"}
    BY <1>3, Zenon DEF BadToken
  <2>. HIDE DEF t, L
  <2>2. \A j \in 1..Len(L) : L[j] = "f"
    BY <1>2, <2>1 DEF ToSet
  <2>3. \A j, k \in 1..Len(L) : L[j] = L[k] => j = k
    BY <1>2, <2>1 DEF IsInjective
  <2>4. Len(L) = 1
    <3>1. Len(L) \in Nat /\ Len(L) # 0
      BY <1>2, <2>1
    <3>2. 1 \in 1..Len(L) /\ Len(L) \in 1..Len(L)
      BY <3>1
    <3>. QED
      BY <2>2, <2>3, <3>2
  <2>5. L = <<"f">>
    BY <1>2, <2>2, <2>4
  <2>6. t # KV(t.key, t.val)
    BY <1>3 DEF KV
  <2>7. t = Letters(L)
    BY <2>6 DEF t, L
  <2>. QED
    BY <2>5, <2>7 DEF FTok
<1>. QED
  BY <1>2, <1>3

\* The values of a line's keys.
KvsOf(K) == [k \in {t.key : t \in K} |-> (CHOOSE t \in K : t.key = k).val]

\* Without its f, a line's modifiers are legal and say the same of all the rest.
LEMMA WithoutFTokens ==
  ASSUME NEW spec, spec.single = {"f"}, spec.word = {}, NEW ts \in Seq(Tokens),
         \A t \in ToSet(ts) : t = KV(t.key, t.val) \/ t = Letters(t.letters),
         \A i \in DOMAIN ts : ~BadToken(spec, ts, i)
  PROVE  /\ ModSet(spec, WithoutF(ts)).kvs = ModSet(spec, ts).kvs
         /\ ModSet(spec, WithoutF(ts)).flags = {}
         /\ \A p \in DOMAIN WithoutF(ts) : ~BadToken(spec, WithoutF(ts), p)
<1>. DEFINE W == WithoutF(ts)
<1>1. /\ W \in Seq(Tokens) /\ ToSet(W) = ToSet(ts) \ {FTok}
      /\ \A p, r \in DOMAIN W : p # r => \E i, j \in DOMAIN ts : i # j /\ ts[i] = W[p] /\ ts[j] = W[r]
  BY WithoutFIs
<1>. HIDE DEF W
<1>2. \A t \in ToSet(ts) : t.eq \/ t = FTok
  BY FileToken DEF ToSet
<1>3. FTok.eq = FALSE
  BY DEF FTok, Letters
<1>. HIDE DEF FTok
<1>4. {t \in ToSet(W) : t.eq} = {t \in ToSet(ts) : t.eq}
  BY <1>1, <1>3
<1>5. ModSet(spec, W).kvs = ModSet(spec, ts).kvs
  <2>1. ASSUME NEW s PROVE ModSet(spec, s).kvs = KvsOf({t \in ToSet(s) : t.eq})
    BY Zenon DEF ModSet, KvsOf
  <2>. QED
    BY <1>4, <2>1
<1>6. ModSet(spec, W).flags = {}
  <2>1. Flags(spec, W) = {}
    BY <1>1, <1>2 DEF Flags
  <2>2. ModSet(spec, W).flags = UNION {ToSet(t.letters) : t \in Flags(spec, W)}
    BY Zenon DEF ModSet
  <2>. QED
    BY <2>1, <2>2
<1>7. ASSUME NEW p \in DOMAIN W PROVE ~BadToken(spec, W, p)
  <2>0. W[p] \in ToSet(W)
    BY Zenon DEF ToSet
  <2>1. W[p] \in ToSet(ts) /\ W[p].eq
    BY <1>1, <1>2, <2>0, Zenon
  <2>2. PICK h \in DOMAIN ts : ts[h] = W[p]
    BY <2>1 DEF ToSet
  <2>3. W[p].key \in spec.kv
    BY <2>1, <2>2, Zenon DEF BadToken
  <2>4. ASSUME NEW u \in ToSet(SubSeq(W, 1, p - 1)), u.eq, u.key = W[p].key PROVE FALSE
    <3>1. PICK r \in DOMAIN W : r < p /\ W[r] = u
      BY <1>1, BeforeMember
    <3>2. p \in Int /\ r \in Int
      BY <1>1
    <3>3. PICK i, j \in DOMAIN ts : i # j /\ ts[i] = W[p] /\ ts[j] = u
      BY <1>1, <3>1, <3>2
    <3>4. i \in Int /\ j \in Int
      OBVIOUS
    <3>5. CASE j < i
      <4>1. u \in ToSet(SubSeq(ts, 1, i - 1))
        BY <3>3, <3>5, BeforeMember
      <4>2. ~BadToken(spec, ts, i) /\ ts[i].eq /\ u.eq /\ u.key = ts[i].key
        BY <2>1, <2>4, <3>3
      <4>. QED
        BY <4>1, <4>2, Zenon DEF BadToken
    <3>6. CASE i < j
      <4>1. W[p] \in ToSet(SubSeq(ts, 1, j - 1))
        BY <3>3, <3>6, BeforeMember
      <4>2. ~BadToken(spec, ts, j) /\ ts[j].eq /\ W[p].eq /\ W[p].key = ts[j].key
        BY <2>1, <2>4, <3>3
      <4>. QED
        BY <4>1, <4>2, Zenon DEF BadToken
    <3>. QED
      BY <3>3, <3>4, <3>5, <3>6
  <2>. QED
    BY <2>1, <2>3, <2>4, Zenon DEF BadToken
<1>. QED
  BY <1>5, <1>6, <1>7 DEF W

\* What is too long for a line is seen once it is escaped.
LEMMA LongEscaped ==
  ASSUME NEW S, NEW t \in Seq(S), "LFs" \in ToSet(t)
  PROVE  "(bs n)s" \in ToSet(EscapeText(t))
<1>. DEFINE F == EscapeText(t)
            U == Coded(S)
<1>1. Escs(t) \in Seq(Seq(U)) /\ Len(Escs(t)) = Len(t) /\ \A i \in 1..Len(t) : Escs(t)[i] = Esc(t[i])
  BY EscsTyped
<1>2. F = FlattenSeq(Escs(t))
  BY EscapeTextIs
<1>. HIDE DEF F, U
<1>3. F \in Seq(U)
  BY <1>1, <1>2, FlattenEnds
<1>4. PICK e : PartEnds(e, Escs(t), F)
  BY <1>1, <1>2, FlattenEnds
<1>5. PICK i \in 1..Len(t) : t[i] = "LFs"
  BY DEF ToSet
<1>6. Escs(t)[i] = <<"(bs n)s">> /\ i \in 1..Len(Escs(t))
  BY <1>1, <1>5 DEF Esc
<1>7. /\ e \in [0..Len(Escs(t)) -> Nat]
      /\ e[i] = e[i - 1] + Len(Escs(t)[i]) /\ e[i] <= Len(F)
      /\ \A h \in 1..Len(Escs(t)[i]) : F[e[i - 1] + h] = Escs(t)[i][h]
  BY <1>4, <1>6, Zenon DEF PartEnds
<1>8. PICK p \in Nat : p = e[i - 1]
  <2>1. PICK z \in Nat : z = Len(Escs(t)) /\ i \in 1..z
    BY <1>1
  <2>2. i - 1 \in 0..z
    BY <2>1
  <2>3. e \in [0..z -> Nat]
    BY <1>7, <2>1
  <2>4. e[i - 1] \in Nat
    BY <2>2, <2>3
  <2>. QED
    BY <2>4
<1>9. Len(<<"(bs n)s">>) = 1 /\ 1 \in 1..1 /\ <<"(bs n)s">>[1] = "(bs n)s"
  OBVIOUS
<1>10. e[i] = p + 1 /\ e[i] <= Len(F)
  <2>1. Len(Escs(t)[i]) = 1
    BY <1>6, <1>9
  <2>. QED
    BY <1>7, <1>8, <2>1
<1>10a. F[p + 1] = "(bs n)s"
  <2>1. 1 \in 1..Len(Escs(t)[i]) /\ Escs(t)[i][1] = "(bs n)s"
    BY <1>6, <1>9
  <2>. QED
    BY <1>7, <1>8, <2>1, Zenon
<1>11. p + 1 \in DOMAIN F
  BY <1>3, <1>8, <1>10
<1>. QED
  BY <1>10a, <1>11 DEF ToSet, F

\* An escaped text is a text.
LEMMA EscapedSeq ==
  ASSUME NEW S, NEW t \in Seq(S)
  PROVE  EscapeText(t) \in Seq(Coded(S))
  BY EscsTyped, EscapeTextIs, FlattenEnds

-----------------------------------------------------------------------------
(* Two readings of a line.                                                 *)

\* The fields in which an operation may differ from the one rebuilt from its rewritten
\* line.
Unsent == {"src", "fromFile", "filePath", "hasText", "text"}

\* Two operations whose builders set the same fields to the same values.
LEMMA SameBuilt ==
  ASSUME NEW c, NEW d, NEW b1, NEW b2, NEW i, NEW a, NEW l, NEW ks,
         OnlyThese(c, b2, i, a, ks), OnlyThese(d, b1, i, l, ks), a.cmd = l.cmd,
         OptDur(b2, MS(a), "d") = OptDur(b1, MS(l), "d"),
         \A x \in ks \ Unsent : c[x] = d[x]
  PROVE  IsOp(c) /\ \A x \in OpFields \ Unsent : c[x] = d[x]
<1>1. /\ IsOp(c) /\ c.line = d.line /\ c.kind = d.kind /\ c.delay = d.delay
      /\ \A x \in OpFields \ (CommonFields \cup {"src"} \cup ks) : c[x] = d[x]
  BY DEF OnlyThese, IsBare
<1>2. \A x \in CommonFields : c[x] = d[x]
  BY <1>1 DEF CommonFields
<1>3. "src" \in Unsent
  BY DEF Unsent
<1>. HIDE DEF Unsent
<1>. QED
  BY <1>1, <1>2, <1>3

\* The same modifiers are the same durations there.
LEMMA SameTimes ==
  ASSUME NEW b1, NEW b2, NEW a, NEW l, Calm(b1, b2, l), MS(a).kvs = MS(l).kvs
  PROVE  /\ \A k : DurFails(MS(a), k) <=> DurFails(MS(l), k)
         /\ \A k, default : DurVal(b2, MS(a), k, default) = DurVal(b1, MS(l), k, default)
         /\ \A k : OptDur(b2, MS(a), k) = OptDur(b1, MS(l), k)
<1>1. \A k : Has(MS(a), k) <=> Has(MS(l), k)
  BY DEF Has
<1>2. \A k : DurFails(MS(a), k) <=> DurFails(MS(l), k)
  BY <1>1 DEF DurFails
<1>3. ASSUME NEW k, NEW default PROVE DurVal(b2, MS(a), k, default) = DurVal(b1, MS(l), k, default)
  <2>1. DurVal(b2, MS(a), k, default) = DurVal(b2, MS(l), k, default)
    <3>1. CASE Has(MS(l), k)
      BY <1>1, <3>1, Zenon DEF DurVal
    <3>2. CASE ~Has(MS(l), k)
      BY <1>1, <3>2, Zenon DEF DurVal
    <3>. QED
      BY <3>1, <3>2
  <2>2. DurVal(b2, MS(l), k, default) = DurVal(b1, MS(l), k, default)
    BY CalmTimes
  <2>. QED
    BY <2>1, <2>2
<1>4. ASSUME NEW k PROVE OptDur(b2, MS(a), k) = OptDur(b1, MS(l), k)
  <2>1. CASE Has(MS(l), k)
    BY <1>1, <1>3, <2>1, Zenon DEF OptDur
  <2>2. CASE ~Has(MS(l), k)
    BY <1>1, <2>2, Zenon DEF OptDur
  <2>. QED
    BY <2>1, <2>2
<1>. QED
  BY <1>2, <1>3, <1>4

\* The interval of txt and paste is the same there.
LEMMA SameInterval ==
  ASSUME NEW b1, NEW b2, NEW a, NEW l, Calm(b1, b2, l), MS(a).kvs = MS(l).kvs, a.cmd = l.cmd
  PROVE  TextInterval(b2, a) = TextInterval(b1, l)
<1>1. PICK x, y : /\ x = DurVal(b2, MS(a), "ms", 0) /\ y = DurVal(b2, MS(a), "ms", 50)
                  /\ x = DurVal(b1, MS(l), "ms", 0) /\ y = DurVal(b1, MS(l), "ms", 50)
  BY SameTimes
<1>. QED
  BY <1>1, SMT DEF TextInterval

\* The fields that differ when a line is sent without its file.
LEMMA UnsentIs == Unsent = {"src", "fromFile", "filePath", "hasText", "text"} /\ Unsent \subseteq OpFields
  BY DEF Unsent, OpFields

\* The commands that may name a file.
LEMMA FileRows ==
  ASSUME NEW cmd \in {"txt", "clip", "paste", "qclip"}
  PROVE  /\ Commands[cmd].single = {"f"} /\ Commands[cmd].word = {} /\ Commands[cmd].frame = FALSE
         /\ cmd # "qclip" => Commands[cmd].payload = "text" /\ Commands[cmd].kind \in TextKinds
         /\ cmd = "qclip" => Commands[cmd].payload = "qclip" /\ Commands[cmd].kind \notin TextKinds
<1>1. CASE cmd = "txt"
  BY <1>1 DEF Commands, Command, TextKinds
<1>2. CASE cmd = "clip"
  BY <1>2 DEF Commands, Command, TextKinds
<1>3. CASE cmd = "paste"
  BY <1>3 DEF Commands, Command, TextKinds
<1>4. CASE cmd = "qclip"
  BY <1>4 DEF Commands, Command, TextKinds
<1>. QED
  BY <1>1, <1>2, <1>3, <1>4

\* Only these commands read a file.
LEMMA NoFile ==
  ASSUME NEW b, NEW i, NEW l, l.cmd \in DOMAIN Commands, Commands[l.cmd].payload \notin {"text", "qclip"}
  PROVE  ~BuildOp(b, i, l).fromFile
<1>. DEFINE o == BuildOp(b, i, l)
            Zero == o["fromFile"] = ZeroOp["fromFile"]
<1>0. "fromFile" \in OpFields \ (CommonFields \cup {"src"})
  BY DEF OpFields, CommonFields
<1>1. ASSUME NEW ks, OnlyThese(o, b, i, l, ks), "fromFile" \notin ks PROVE Zero
  BY <1>0, <1>1 DEF OnlyThese
<1>2. /\ Commands[l.cmd].payload = "none" => Zero
      /\ Commands[l.cmd].payload = "keys" => Zero
      /\ Commands[l.cmd].payload = "scroll" => Zero
      /\ Commands[l.cmd].payload = "exec" => Zero
      /\ Commands[l.cmd].payload = "cap" => Zero
      /\ Commands[l.cmd].payload = "rclip" => Zero
      /\ Commands[l.cmd].payload = "point" => Zero
  BY <1>1, NoneOnly, KeysOnly, ScrollOnly, ExecOnly, CapOnly, ReadClipOnly, PointOnly
<1>3. /\ Commands[l.cmd].payload = "opt_point" => Zero
      /\ Commands[l.cmd].payload = "points" => Zero
      /\ Commands[l.cmd].payload \in {"selector", "opt_selector"} => Zero
      /\ Commands[l.cmd].payload = "target" => Zero
      /\ Commands[l.cmd].payload = "sleep" => Zero
  BY <1>1, OptPointOnly, PointsOnly, SelectorOnly, TargetOnly, SleepOnly
<1>4. Commands[l.cmd].payload \in {"none", "keys", "text", "scroll", "qclip", "rclip", "opt_selector", "selector",
                                    "target", "exec", "cap", "point", "opt_point", "points", "sleep"}
  BY CommandNames, CommandRows
<1>5. Zero
  BY <1>2, <1>3, <1>4
<1>6. ZeroOp.fromFile = FALSE
  BY DEF ZeroOp
<1>. QED
  BY <1>5, <1>6

\* Which commands carry characters.
LEMMA FilePayloads ==
  ASSUME NEW cmd \in DOMAIN Commands
  PROVE  /\ Commands[cmd].payload = "text" => cmd \in {"txt", "clip", "paste"}
         /\ Commands[cmd].payload = "qclip" => cmd = "qclip"
         /\ cmd = "sleep" => Commands[cmd].payload = "sleep"
         /\ cmd = "exec" => Commands[cmd].payload = "exec"
         /\ Commands[cmd].payload = "exec" => Commands[cmd].kind \notin TextKinds
         /\ Commands[cmd].kind \in TextKinds => Commands[cmd].payload = "text"
<1>1. /\ Commands[cmd].payload = "text" => cmd \in {"txt", "clip", "paste"}
      /\ Commands[cmd].payload = "qclip" => cmd = "qclip"
  BY CommandNames, CommandRows
<1>2. /\ cmd = "sleep" => Commands[cmd].payload = "sleep"
      /\ cmd = "exec" => Commands[cmd].payload = "exec"
  BY CommandNames, CommandRows
<1>3. Commands[cmd].payload = "exec" => cmd = "exec"
  BY CommandNames, CommandRows
<1>4. Commands["exec"].kind \notin TextKinds
  BY CommandRows DEF TextKinds
<1>5. Commands[cmd].kind \in TextKinds => Commands[cmd].payload = "text"
  BY CommandNames, CommandRows DEF TextKinds
<1>. QED
  BY <1>1, <1>2, <1>3, <1>4, <1>5

-----------------------------------------------------------------------------
(* A line with [f] and what its file held.                                 *)

\* An operation that reads a file comes from one of those.
LEMMA FileLine ==
  ASSUME NEW o, NEW b, NEW i, NEW l, Built(o, b, i, l), l.form = "stmt", ~Malformed(l), o.fromFile
  PROVE  /\ l.cmd \in {"txt", "clip", "paste", "qclip"} /\ o.src = <<l>> /\ o.kind = Commands[l.cmd].kind
         /\ o.text \in Seq(STRING) /\ BuildOp(b, i, l).fromFile
<1>1. {"fromFile", "src", "kind"} \subseteq OpFields \ {"text", "hasText"}
  BY DEF OpFields
<1>2. BuildOp(b, i, l).fromFile /\ o.src = BuildOp(b, i, l).src /\ o.kind = BuildOp(b, i, l).kind
  BY <1>1 DEF Built
<1>3. l.cmd \in DOMAIN Commands
  BY Parsed
<1>4. l.cmd \in {"txt", "clip", "paste", "qclip"}
  BY <1>2, <1>3, NoFile, FilePayloads
<1>5. Commands[l.cmd].payload \in {"text", "qclip"}
  BY <1>4, FileRows
<1>6. BuildOp(b, i, l).src = <<l>> /\ BuildOp(b, i, l).kind = Commands[l.cmd].kind
  BY <1>5, TextOnly, QueryClipOnly DEF OnlyThese, IsBare
<1>. QED
  BY <1>2, <1>4, <1>6 DEF Built

\* A rewritten line keeps its command, and loses its f and its path.
LEMMA RewrittenFields ==
  ASSUME NEW o, NEW l \in Lines, o.src = <<l>>
  PROVE  LET r == RewriteLine(o) IN
         /\ r.form = l.form /\ r.cmd = l.cmd /\ r.tail = l.tail /\ r.mods = WithoutF(l.mods) /\ r.words = <<>>
         /\ r.chars = IF o.kind \in TextKinds THEN EscapeText(o.text) ELSE <<>>
         /\ LineFields(r)
<1>. DEFINE cs == IF o.kind \in TextKinds THEN EscapeText(o.text) ELSE <<>>
            r == RewriteLine(o)
<1>1. l = [form |-> l.form, cmd |-> l.cmd, tail |-> l.tail, mods |-> l.mods, words |-> l.words, chars |-> l.chars]
  BY LinesHaveFields DEF LineFields
<1>2. r = [l EXCEPT !.mods = WithoutF(@), !.words = <<>>, !.chars = cs]
  BY DEF RewriteLine
<1>. HIDE DEF cs, r
<1>3. r = [form |-> l.form, cmd |-> l.cmd, tail |-> l.tail, mods |-> WithoutF(l.mods), words |-> <<>>, chars |-> cs]
  BY <1>1, <1>2
<1>. QED
  BY <1>3 DEF cs, r, LineFields

\* Line a is what the far machine finds for line l, whose file operation o holds.
InPlaceOfFile(a, l, o) ==
  /\ a.form = "stmt" /\ a.cmd = l.cmd /\ l.cmd \in {"txt", "clip", "paste", "qclip"} /\ ~Malformed(a)
  /\ MS(a).kvs = MS(l).kvs /\ MS(a).flags = {}
  /\ o.kind = Commands[l.cmd].kind
  /\ o.kind \in TextKinds => ApplyEscapes(a.chars).out = DropCR(o.text)

\* What the far machine finds on the line of a file.
LEMMA FileLineArrives ==
  ASSUME NEW b1, NEW b2, NEW i, NEW l, IsCut(l), l.form = "stmt", ~Malformed(l), Calm(b1, b2, l),
         NEW o, Built(o, b1, i, l), o.fromFile, NEW r, r = RewriteLine(o), ~TooLong(r),
         NEW a, a = AsScanned(r)
  PROVE  InPlaceOfFile(a, l, o) /\ BuildOp(b1, i, l).fromFile
<1>1. /\ l.cmd \in {"txt", "clip", "paste", "qclip"} /\ o.src = <<l>> /\ o.kind = Commands[l.cmd].kind
      /\ o.text \in Seq(STRING) /\ BuildOp(b1, i, l).fromFile
  BY FileLine
<1>2. l \in Lines /\ l.mods \in Seq(Tokens) /\ \A t \in ToSet(l.mods) : t = KV(t.key, t.val) \/ t = Letters(t.letters)
  BY DEF IsCut, Lines
<1>. DEFINE cs == IF o.kind \in TextKinds THEN EscapeText(o.text) ELSE <<>>
<1>3. /\ r.form = l.form /\ r.cmd = l.cmd /\ r.tail = l.tail /\ r.mods = WithoutF(l.mods) /\ r.words = <<>>
      /\ r.chars = cs /\ LineFields(r)
  BY <1>1, <1>2, RewrittenFields
<1>4. /\ a.form = r.form /\ a.cmd = r.cmd /\ a.tail = r.tail /\ a.mods = r.mods /\ a.words = r.words
      /\ a.chars = DropCR(r.chars)
  BY <1>3, Scanned
<1>5. /\ l.cmd \in DOMAIN Commands
      /\ \A k \in DOMAIN l.mods : ~BadToken(Commands[l.cmd], l.mods, k)
      /\ ~DurFails(MS(l), "d") /\ ~DurFails(MS(l), "ms")
      /\ l.tail \notin {"junk", "open"}
  BY Parsed, ParsedTail
<1>6. /\ Commands[l.cmd].single = {"f"} /\ Commands[l.cmd].word = {} /\ ~Commands[l.cmd].frame
      /\ l.cmd # "qclip" => Commands[l.cmd].payload = "text" /\ Commands[l.cmd].kind \in TextKinds
      /\ l.cmd = "qclip" => Commands[l.cmd].payload = "qclip" /\ Commands[l.cmd].kind \notin TextKinds
  BY <1>1, FileRows
<1>7. /\ ModSet(Commands[l.cmd], WithoutF(l.mods)).kvs = ModSet(Commands[l.cmd], l.mods).kvs
      /\ ModSet(Commands[l.cmd], WithoutF(l.mods)).flags = {}
      /\ \A p \in DOMAIN WithoutF(l.mods) : ~BadToken(Commands[l.cmd], WithoutF(l.mods), p)
  BY <1>2, <1>5, <1>6, WithoutFTokens
<1>. HIDE DEF cs
<1>8. MS(a).kvs = MS(l).kvs /\ MS(a).flags = {} /\ \A p \in DOMAIN a.mods : ~BadToken(Commands[a.cmd], a.mods, p)
  BY <1>3, <1>4, <1>7, Zenon DEF MS
<1>9. ~DurFails(MS(a), "d") /\ ~DurFails(MS(a), "ms")
  BY <1>5, <1>8, SameTimes
<1>10. ASSUME o.kind \in TextKinds
       PROVE  Legal(ApplyEscapes(a.chars)) /\ ApplyEscapes(a.chars).out = DropCR(o.text)
  <2>1. r.chars = EscapeText(o.text) /\ a.chars = DropCR(EscapeText(o.text))
    BY <1>3, <1>4, <1>10 DEF cs
  <2>2. "LFs" \notin ToSet(o.text)
    BY <1>1, <2>1, LongEscaped DEF TooLong
  <2>3. Legal(ApplyEscapes(EscapeText(o.text))) /\ ApplyEscapes(EscapeText(o.text)).out = o.text
    BY <1>1, <2>2, EscapedIsRead
  <2>4. EscapeText(o.text) \in Seq(Coded(STRING))
    BY <1>1, EscapedSeq
  <2>5. /\ Legal(ApplyEscapes(DropCR(EscapeText(o.text))))
        /\ ApplyEscapes(DropCR(EscapeText(o.text))).out = DropCR(ApplyEscapes(EscapeText(o.text)).out)
    BY <2>3, <2>4, EscapesDropCR
  <2>. QED
    BY <2>1, <2>3, <2>5, Zenon
<1>11. ~PayloadFails(Commands[a.cmd], a, MS(a))
  <2>1. CASE l.cmd = "qclip"
    <3>1. Commands[a.cmd].payload = "qclip"
      BY <1>3, <1>4, <1>6, <2>1
    <3>. QED
      BY <3>1, Zenon DEF PayloadFails
  <2>2. CASE l.cmd # "qclip"
    <3>1. Commands[a.cmd].payload = "text" /\ o.kind \in TextKinds
      BY <1>1, <1>3, <1>4, <1>6, <2>2
    <3>2. "f" \notin MS(a).flags /\ ApplyEscapes(a.chars).ok
      BY <1>8, <1>10, <3>1, Zenon DEF Legal
    <3>. QED
      BY <3>1, <3>2, Zenon DEF PayloadFails
  <2>. QED
    BY <2>1, <2>2
<1>12. a.form = "stmt" /\ a.cmd = l.cmd /\ a.tail = l.tail
  BY <1>3, <1>4
<1>13. ~Malformed(a)
  <2>1. a.cmd \in DOMAIN Commands /\ ~Commands[a.cmd].frame /\ a.tail \notin {"junk", "open"}
    BY <1>5, <1>6, <1>12
  <2>. QED
    BY <1>8, <1>9, <1>11, <1>12, <2>1, WellFormed
<1>. QED
  BY <1>1, <1>8, <1>10, <1>12, <1>13 DEF InPlaceOfFile

\* Legality is what applyEscapes says it is.
LEMMA EscapesLegal ==
  ASSUME NEW S, NEW s \in Seq(S), ApplyEscapes(s).ok
  PROVE  Legal(ApplyEscapes(s))
<1>1. Len(s) \in Nat /\ 1 \in Nat \ {0}
  OBVIOUS
<1>2. PICK f : Unescapes(f, s) /\ ApplyEscapes(s) = f[1]
  BY <1>1, ApplyEscapesIs
<1>3. f[1].ok \in BOOLEAN
  BY <1>1, <1>2, ReadTyped
<1>. QED
  BY <1>2, <1>3, Zenon DEF Legal

\* Inlining touches no other field.
LEMMA BuiltRest ==
  ASSUME NEW o, NEW b, NEW i, NEW l, Built(o, b, i, l)
  PROVE  \A x \in OpFields \ Unsent : o[x] = BuildOp(b, i, l)[x]
  BY UnsentIs DEF Built

\* A line with [f] arrives as what its file made it.
LEMMA FileArrives ==
  ASSUME NEW b1, NEW b2, NEW i, NEW l, IsCut(l), l.form = "stmt", ~Malformed(l), Calm(b1, b2, l),
         NEW o, Built(o, b1, i, l), Shaped(o), o.fromFile, NEW r, r = RewriteLine(o), ~TooLong(r),
         NEW a, a = AsScanned(r)
  PROVE  a.form = "stmt" /\ ~Malformed(a) /\ Arrives(o, BuildOp(b2, i, a))
<1>1. /\ a.form = "stmt" /\ a.cmd = l.cmd /\ l.cmd \in {"txt", "clip", "paste", "qclip"} /\ ~Malformed(a)
      /\ MS(a).kvs = MS(l).kvs /\ MS(a).flags = {}
      /\ o.kind = Commands[l.cmd].kind /\ BuildOp(b1, i, l).fromFile
      /\ o.kind \in TextKinds => ApplyEscapes(a.chars).out = DropCR(o.text)
  <2>1. InPlaceOfFile(a, l, o) /\ BuildOp(b1, i, l).fromFile
    BY FileLineArrives
  <2>. QED
    BY <2>1 DEF InPlaceOfFile
<1>. DEFINE c == BuildOp(b2, i, a)
            d == BuildOp(b1, i, l)
<1>2. OptDur(b2, MS(a), "d") = OptDur(b1, MS(l), "d")
  BY <1>1, SameTimes
<1>3. \A x \in OpFields \ Unsent : o[x] = d[x]
  BY BuiltRest
<1>4. CASE l.cmd = "qclip"
  <2>. DEFINE ks == {"fromFile", "filePath"}
  <2>1. Commands[l.cmd].payload = "qclip" /\ o.kind \notin TextKinds /\ o.kind = "query_clipboard"
    BY <1>1, <1>4, FileRows, CommandRows
  <2>2. OnlyThese(c, b2, i, a, ks) /\ OnlyThese(d, b1, i, l, ks)
    BY <1>1, <2>1, QueryClipOnly
  <2>3. ~c.fromFile
    <3>1. DOMAIN MS(a).kvs \subseteq Commands[a.cmd].kv
      BY <1>1, Parsed
    <3>. QED
      BY <1>1, <1>4, <3>1, QclipShape
  <2>4. ks \ Unsent = {}
    BY UnsentIs
  <2>. HIDE DEF ks, c, d
  <2>5. IsOp(c) /\ \A x \in OpFields \ Unsent : c[x] = d[x]
    BY <1>1, <1>2, <2>2, <2>4, SameBuilt
  <2>6. c.text = o.text
    <3>1. "text" \in OpFields \ (CommonFields \cup {"src"} \cup ks)
      BY DEF OpFields, CommonFields, ks
    <3>2. c.text = ZeroOp.text
      BY <2>2, <3>1 DEF OnlyThese
    <3>3. "text" \in OpFields \ (CommonFields \cup NearFields \cup FieldsOf(o.kind))
      BY <2>1 DEF OpFields, CommonFields, NearFields, FieldsOf
    <3>4. o.text = ZeroOp.text
      BY <3>3 DEF Shaped
    <3>. QED
      BY <3>2, <3>4
  <2>7. \A x \in OpFields \ Unsent : c[x] = o[x]
    BY <1>3, <2>5
  <2>8. Arrives(o, c)
    BY <2>1, <2>3, <2>5, <2>6, <2>7, UnsentIs DEF Arrives
  <2>. QED
    BY <1>1, <2>8 DEF c
<1>5. CASE l.cmd # "qclip"
  <2>. DEFINE ks == {"fromFile", "hasText", "filePath", "text", "interval"}
  <2>1. Commands[l.cmd].payload = "text" /\ o.kind \in TextKinds
    BY <1>1, <1>5, FileRows
  <2>2. /\ OnlyThese(c, b2, i, a, ks) /\ OnlyThese(d, b1, i, l, ks)
        /\ c.interval = TextInterval(b2, a) /\ d.interval = TextInterval(b1, l)
        /\ c.text = ApplyEscapes(a.chars).out /\ ~c.fromFile
    BY <1>1, <2>1, TextFields
  <2>3. c.interval = d.interval
    BY <1>1, <2>2, SameInterval
  <2>4. ks \ Unsent = {"interval"}
    BY UnsentIs
  <2>. HIDE DEF ks, c, d
  <2>5. IsOp(c) /\ \A x \in OpFields \ Unsent : c[x] = d[x]
    BY <1>1, <1>2, <2>2, <2>3, <2>4, SameBuilt
  <2>7. \A x \in OpFields \ Unsent : c[x] = o[x]
    BY <1>3, <2>5
  <2>8. Arrives(o, c)
    BY <1>1, <2>1, <2>2, <2>5, <2>7, UnsentIs DEF Arrives
  <2>. QED
    BY <1>1, <2>8 DEF c
<1>. QED
  BY <1>4, <1>5

-----------------------------------------------------------------------------
(* Any other line.                                                         *)

\* A line with a text arrives without its last carriage return.
LEMMA TextLineArrives ==
  ASSUME NEW b1, NEW b2, NEW i, NEW l, IsCut(l), l.form = "stmt", ~Malformed(l), Calm(b1, b2, l),
         NEW o, Built(o, b1, i, l), ~o.fromFile, Commands[l.cmd].payload = "text",
         NEW a, a = AsScanned(l)
  PROVE  ~Malformed(a) /\ Arrives(o, BuildOp(b2, i, a))
<1>. DEFINE c == BuildOp(b2, i, a)
            d == BuildOp(b1, i, l)
            ks == {"fromFile", "hasText", "filePath", "text", "interval"}
<1>1. l \in Lines /\ l.chars \in Seq(STRING) /\ LineFields(l)
  BY LinesHaveFields DEF IsCut, Lines
<1>2. /\ a.form = l.form /\ a.cmd = l.cmd /\ a.tail = l.tail /\ a.mods = l.mods /\ a.words = l.words
      /\ a.chars = DropCR(l.chars) /\ MS(a) = MS(l)
  BY <1>1, Scanned
<1>3. /\ l.cmd \in DOMAIN Commands
      /\ \A k \in DOMAIN l.mods : ~BadToken(Commands[l.cmd], l.mods, k)
      /\ ~DurFails(MS(l), "d") /\ ~DurFails(MS(l), "ms")
      /\ Commands[l.cmd].frame => ~FrameFails(MS(l))
      /\ ~PayloadFails(Commands[l.cmd], l, MS(l))
      /\ l.tail \notin {"junk", "open"}
  BY Parsed, ParsedTail
<1>4. l.cmd \in {"txt", "clip", "paste"} /\ Commands[l.cmd].kind \in TextKinds
  BY <1>3, FilePayloads, FileRows
<1>5. /\ \A x \in OpFields \ Unsent : o[x] = d[x]
      /\ o.fromFile = d.fromFile /\ o.text = d.text /\ o.kind = d.kind
  <2>1. {"fromFile", "kind"} \subseteq OpFields \ {"text", "hasText"}
    BY DEF OpFields
  <2>. QED
    BY <2>1, BuiltRest DEF Built
<1>6. /\ OnlyThese(d, b1, i, l, ks) /\ d.interval = TextInterval(b1, l)
      /\ "f" \in MS(l).flags => d.fromFile
      /\ "f" \notin MS(l).flags => d.text = ApplyEscapes(l.chars).out
  BY TextFields
<1>7. "f" \notin MS(l).flags
  BY <1>5, <1>6
<1>8. ApplyEscapes(l.chars).ok
  BY <1>3, <1>7, Zenon DEF PayloadFails
<1>9. Legal(ApplyEscapes(a.chars)) /\ ApplyEscapes(a.chars).out = DropCR(ApplyEscapes(l.chars).out)
  BY <1>1, <1>2, <1>8, EscapesLegal, EscapesDropCR
<1>10. ~PayloadFails(Commands[a.cmd], a, MS(a))
  <2>1. ApplyEscapes(a.chars).ok
    BY <1>9, Zenon DEF Legal
  <2>2. "f" \notin MS(a).flags /\ Commands[a.cmd].payload = "text"
    BY <1>2, <1>7
  <2>. QED
    BY <2>1, <2>2, Zenon DEF PayloadFails
<1>11. ~Malformed(a)
  <2>1. /\ a.form = "stmt" /\ a.cmd \in DOMAIN Commands /\ a.tail \notin {"junk", "open"}
        /\ \A k \in DOMAIN a.mods : ~BadToken(Commands[a.cmd], a.mods, k)
        /\ ~DurFails(MS(a), "d") /\ ~DurFails(MS(a), "ms")
        /\ Commands[a.cmd].frame => ~FrameFails(MS(a))
    BY <1>2, <1>3
  <2>. QED
    BY <1>10, <2>1, WellFormed
<1>12. /\ OnlyThese(c, b2, i, a, ks) /\ c.interval = TextInterval(b2, a)
       /\ c.text = ApplyEscapes(a.chars).out /\ ~c.fromFile
  BY <1>2, <1>7, TextFields
<1>13. c.interval = d.interval
  BY <1>2, <1>6, <1>12, SameInterval
<1>14. OptDur(b2, MS(a), "d") = OptDur(b1, MS(l), "d")
  BY <1>2, SameTimes
<1>15. ks \ Unsent = {"interval"}
  BY UnsentIs
<1>16. o.kind \in TextKinds
  BY <1>4, <1>5, <1>6 DEF OnlyThese, IsBare
<1>. HIDE DEF ks, c, d
<1>17. IsOp(c) /\ \A x \in OpFields \ Unsent : c[x] = d[x]
  BY <1>2, <1>6, <1>12, <1>13, <1>14, <1>15, SameBuilt
<1>18. \A x \in OpFields \ Unsent : c[x] = o[x]
  BY <1>5, <1>17
<1>19. c.text = DropCR(o.text)
  BY <1>5, <1>6, <1>7, <1>9, <1>12
<1>20. Arrives(o, c)
  BY <1>12, <1>16, <1>17, <1>18, <1>19, UnsentIs DEF Arrives
<1>. QED
  BY <1>11, <1>20 DEF c

\* Only inlining gives an operation another text.
LEMMA BuiltText ==
  ASSUME NEW o, NEW b, NEW i, NEW l, Built(o, b, i, l), ~o.fromFile
  PROVE  o.text = BuildOp(b, i, l).text
  BY DEF Built

\* The kind of an operation, and whether it reads a file, are its line's.
LEMMA BuiltKind ==
  ASSUME NEW o, NEW b, NEW i, NEW l, l.form = "stmt", ~Malformed(l), Built(o, b, i, l)
  PROVE  o.kind = Commands[l.cmd].kind /\ o.fromFile = BuildOp(b, i, l).fromFile
<1>1. {"fromFile", "kind"} \subseteq OpFields \ {"text", "hasText"}
  BY DEF OpFields
<1>2. IsBare(BuildOp(b, i, l), b, i, l)
  BY BuiltShape DEF BuildsShape
<1>. QED
  BY <1>1, <1>2 DEF Built, IsBare

\* A line without overlong durations is the same operation on every machine.
LEMMA CalmStmt ==
  ASSUME NEW b1, NEW b2, NEW i, NEW l, l.form = "stmt", ~Malformed(l), Calm(b1, b2, l),
         CalmWords(b1, b2, l)
  PROVE  BuildOp(b1, i, l) = BuildOp(b2, i, l)
<1>1. l.cmd \in DOMAIN Commands /\ ~PayloadFails(Commands[l.cmd], l, MS(l))
  BY Parsed
<1>2. l.cmd = "sleep" => Len(l.words) = 1
  <2>. SUFFICES ASSUME l.cmd = "sleep" PROVE Len(l.words) = 1
    OBVIOUS
  <2>1. IsDuration(Whole(Payload(l)))
    <3>1. Commands[l.cmd].payload = "sleep"
      BY CommandRows
    <3>. QED
      BY <1>1, <3>1 DEF PayloadFails
  <2>2. ~IsDuration(Whole(One(Garbled)))
    BY DEF IsDuration, Whole, One, Word, Garbled, Name
  <2>. QED
    BY <2>1, <2>2 DEF Payload
<1>. QED
  BY <1>1, <1>2, CalmBuild

\* A command line arrives.
LEMMA ExecLineArrives ==
  ASSUME NEW b1, NEW b2, NEW i, NEW l, IsCut(l), l.form = "stmt", ~Malformed(l), Calm(b1, b2, l),
         CalmWords(b1, b2, l), NEW o, Built(o, b1, i, l), ~o.fromFile, Commands[l.cmd].payload = "exec",
         NEW a, a = AsScanned(l)
  PROVE  ~Malformed(a) /\ Arrives(o, BuildOp(b2, i, a))
<1>1. l \in Lines /\ l.chars \in Seq(STRING) /\ LineFields(l)
  BY LinesHaveFields DEF IsCut, Lines
<1>2. /\ a.form = l.form /\ a.cmd = l.cmd /\ a.tail = l.tail /\ a.mods = l.mods /\ a.words = l.words
      /\ a.chars = DropCR(l.chars) /\ MS(a) = MS(l)
  BY <1>1, Scanned
<1>3. /\ l.cmd \in DOMAIN Commands
      /\ \A k \in DOMAIN l.mods : ~BadToken(Commands[l.cmd], l.mods, k)
      /\ ~DurFails(MS(l), "d") /\ ~DurFails(MS(l), "ms")
      /\ Commands[l.cmd].frame => ~FrameFails(MS(l))
      /\ ~PayloadFails(Commands[l.cmd], l, MS(l))
      /\ l.tail \notin {"junk", "open"}
  BY Parsed, ParsedTail
<1>4. Trim(a.chars) = Trim(l.chars)
  BY <1>1, <1>2, TrimDropCR
<1>5. ~PayloadFails(Commands[a.cmd], a, MS(a))
  <2>1. Commands[a.cmd] = Commands[l.cmd] /\ Commands[a.cmd].payload = "exec"
    BY <1>2
  <2>. QED
    BY <1>2, <1>3, <1>4, <2>1, Zenon DEF PayloadFails
<1>6. ~Malformed(a)
  <2>1. /\ a.form = "stmt" /\ a.cmd \in DOMAIN Commands /\ a.tail \notin {"junk", "open"}
        /\ \A k \in DOMAIN a.mods : ~BadToken(Commands[a.cmd], a.mods, k)
        /\ ~DurFails(MS(a), "d") /\ ~DurFails(MS(a), "ms")
        /\ Commands[a.cmd].frame => ~FrameFails(MS(a))
    BY <1>2, <1>3
  <2>. QED
    BY <1>5, <2>1, WellFormed
<1>. DEFINE c == BuildOp(b2, i, a)
            d == BuildOp(b2, i, l)
<1>7. IsOp(c) /\ \A x \in OpFields \ {"src"} : c[x] = d[x]
  BY <1>1, ExecScanned
<1>8. BuildOp(b1, i, l) = d
  BY CalmStmt
<1>9. o.kind \notin TextKinds
  BY <1>3, BuiltKind, FilePayloads
<1>10. {"fromFile", "text"} \subseteq OpFields \ {"src"}
  BY DEF OpFields
<1>11. o.text = d.text /\ ~d.fromFile /\ \A x \in OpFields \ {"text", "hasText"} : o[x] = d[x]
  BY <1>8, BuiltText, BuiltKind DEF Built
<1>. HIDE DEF c, d
<1>12. c.fromFile = d.fromFile /\ c.text = d.text
  BY <1>7, <1>10
<1>13. Arrives(o, c)
  BY <1>7, <1>9, <1>11, <1>12 DEF Arrives
<1>. QED
  BY <1>6, <1>13 DEF c

\* Every line without [f].
LEMMA PlainLineArrives ==
  ASSUME NEW b1, NEW b2, NEW i, NEW l, IsCut(l), l.form = "stmt", ~Malformed(l), Calm(b1, b2, l),
         CalmWords(b1, b2, l), NEW o, Built(o, b1, i, l), ~o.fromFile, NEW a, a = AsScanned(l)
  PROVE  a.form = "stmt" /\ ~Malformed(a) /\ Arrives(o, BuildOp(b2, i, a))
<1>1. l \in Lines /\ LineFields(l)
  BY LinesHaveFields DEF IsCut
<1>2. a.form = "stmt" /\ (l.chars = <<>> => a = l)
  BY <1>1, Scanned
<1>3. l.cmd \in DOMAIN Commands
  BY Parsed
<1>4. CASE Commands[l.cmd].payload = "text"
  BY <1>2, <1>4, TextLineArrives
<1>5. CASE Commands[l.cmd].payload = "exec"
  BY <1>2, <1>5, ExecLineArrives
<1>6. CASE Commands[l.cmd].payload \notin {"text", "exec"}
  <2>1. l.chars = <<>>
    <3>1. l.cmd \notin {"txt", "clip", "paste", "exec"}
      BY <1>6, CommandRows
    <3>. QED
      BY <3>1 DEF IsCut
  <2>2. a = l
    BY <1>2, <2>1
  <2>. DEFINE d == BuildOp(b2, i, l)
  <2>3. BuildOp(b1, i, l) = d /\ BuildsShape(b2, i, l)
    BY CalmStmt, BuiltShape
  <2>4. IsOp(d)
    BY <2>3 DEF BuildsShape, Shaped
  <2>5. o.kind \notin TextKinds
    BY <1>3, <1>6, BuiltKind, FilePayloads
  <2>6. o.text = d.text /\ ~d.fromFile /\ \A x \in OpFields \ {"text", "hasText"} : o[x] = d[x]
    BY <2>3, BuiltText, BuiltKind DEF Built
  <2>. HIDE DEF d
  <2>7. Arrives(o, d)
    BY <2>4, <2>5, <2>6 DEF Arrives
  <2>. QED
    BY <1>2, <2>2, <2>7 DEF d
<1>. QED
  BY <1>4, <1>5, <1>6

\* What a line is sent as over ssh, given the operation it was taken for.
SentAs(l, o) == IF o.fromFile THEN RewriteLine(o) ELSE l

\* A line that is sent over ssh as it is, or rewritten because it names a file, is legal
\* there if it was accepted here, and buildOp makes the same operation of it, with the
\* file's text in it, but for a carriage return at the end.
THEOREM LineArrives ==
  ASSUME NEW b1, NEW b2, NEW i, NEW l, IsCut(l), l.form = "stmt", ~Malformed(l), Calm(b1, b2, l),
         NEW o, ~o.fromFile => CalmWords(b1, b2, l), Built(o, b1, i, l), Shaped(o), ~TooLong(SentAs(l, o)),
         NEW a, a = AsScanned(SentAs(l, o))
  PROVE  a.form = "stmt" /\ ~Malformed(a) /\ Arrives(o, BuildOp(b2, i, a))
<1>1. CASE o.fromFile
  <2>1. SentAs(l, o) = RewriteLine(o)
    BY <1>1 DEF SentAs
  <2>. QED
    BY <1>1, <2>1, FileArrives
<1>2. CASE ~o.fromFile
  <2>1. SentAs(l, o) = l
    BY <1>2 DEF SentAs
  <2>. QED
    BY <1>2, <2>1, PlainLineArrives
<1>. QED
  BY <1>1, <1>2
=============================================================================
