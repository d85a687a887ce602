--------------------------------- MODULE IR ---------------------------------
(***************************************************************************)
(* internal/ir: static validation, and the IR document a bridge receives,  *)
(* which carries for each kind of operation the fields of that kind.       *)
(***************************************************************************)
EXTENDS Syntax

-----------------------------------------------------------------------------
(* validate.go and limits.go, in milliseconds.                             *)

MaxDelay == 10000
MaxWait == 60000
MaxSleep == 60000
MaxExecTimeout == 60000
MaxKeysSeq == 64
MaxChordKeys == 8
MaxDrag == 200
MaxTicks == 50
MaxCapN == 120
MaxCapturesTotal == 121
BadLabels == {Name(""), Name("a b"), Name("_a")}
BadRegexes == {Name("(")}

SelectorFails(s) ==
  \/ s.kind \in {"id", "pid"} /\ ~IsInt(s.value)
  \/ s.kind = "title" /\ s.regex /\ s.value \in BadRegexes

\* Mutant: the time a drag takes is not looked at.
TimingBesidesDrag(op) ==
  \/ op.delay # <<>> /\ op.delay[1] > MaxDelay
  \/ op.kind \in {"key", "click"} /\ op.gap > MaxDelay
  \/ op.kind \in {"text", "paste"} /\ op.interval > MaxDelay
  \/ op.kind = "move" /\ op.duration > MaxDelay
  \/ op.kind = "capture" /\ op.capInterval > MaxDelay
  \/ op.kind \in {"focus", "open"} /\ op.wait > MaxWait
  \/ op.kind = "exec" /\ op.timeout > MaxExecTimeout
  \/ op.kind = "sleep" /\ op.sleep > MaxSleep

TimingFails(op) ==
  \/ op.delay # <<>> /\ op.delay[1] > MaxDelay
  \/ op.kind \in {"key", "click"} /\ op.gap > MaxDelay
  \/ op.kind \in {"text", "paste"} /\ op.interval > MaxDelay
  \/ op.kind \in {"move", "drag"} /\ op.duration > MaxDelay
  \/ op.kind = "capture" /\ op.capInterval > MaxDelay
  \/ op.kind \in {"focus", "open"} /\ op.wait > MaxWait
  \/ op.kind = "exec" /\ op.timeout > MaxExecTimeout
  \/ op.kind = "sleep" /\ op.sleep > MaxSleep

RangeFails(op) ==
  \/ op.kind = "key" /\ (\/ Len(op.keys) > MaxKeysSeq
                         \/ \E c \in ToSet(op.keys) : Len(op.mods) + Len(c) > MaxChordKeys)
  \/ op.kind = "drag" /\ (Len(op.points) \notin 1..MaxDrag \/ op.count \notin 1..MaxDrag)
  \/ op.kind = "scroll" /\ op.ticks \notin 1..MaxTicks
  \/ op.kind = "capture" /\ (\/ op.capCount \notin 1..MaxCapN
                             \/ ~op.scaleNative /\ ~(1 <= 10 * op.scale /\ op.scale <= 4)
                             \/ op.label \in BadLabels)
  \/ op.kind \in {"focus", "query_windows"} /\ SelectorFails(op.selector)

\* The keys and buttons that kd and md hold, line after line: what op says is taken or given
\* back, and whether it may be.  A key is <<key>>, the chord it is on its line.
ButtonOf(op) == <<"button", op.button>>

HeldAfter(held, op) ==
  CASE op.kind = "key_down" -> held \cup ToSet(op.keys)
    [] op.kind = "key_up" -> held \ ToSet(op.keys)
    [] op.kind = "button_down" -> held \cup {ButtonOf(op)}
    [] op.kind = "button_up" -> held \ {ButtonOf(op)}
    [] OTHER -> held

BalanceFails(held, op) ==
  \/ op.kind = "key_up" /\ ~(IsInjective(op.keys) /\ ToSet(op.keys) \subseteq held)
  \/ op.kind \in {"click", "button_down", "drag"} /\ ButtonOf(op) \in held
  \/ op.kind = "button_up" /\ ButtonOf(op) \notin held

Captures(ops) ==
  LET total[i \in 0..Len(ops)] ==
        IF i = 0 THEN 0 ELSE total[i - 1] + (IF ops[i].kind = "capture" THEN ops[i].capCount ELSE 0)
  IN  total[Len(ops)]

\* The lines that Validate names; 0 is the sequence as a whole.
Validate(ops) ==
  LET heldAt[i \in 0..Len(ops)] == IF i = 0 THEN {} ELSE HeldAfter(heldAt[i - 1], ops[i])
      bad == {i \in DOMAIN ops : \/ TimingFails(ops[i]) \/ RangeFails(ops[i])
                                 \/ BalanceFails(heldAt[i - 1], ops[i])} IN
  {ops[i].line : i \in bad} \cup (IF Captures(ops) > MaxCapturesTotal THEN {0} ELSE {})

-----------------------------------------------------------------------------
(* json.go: the object of one operation; an absent field is not in its     *)
(* domain.                                                                 *)

Only(cond, obj) == IF cond THEN obj ELSE <<>>

PointNode(p) ==
  [frame |-> p.frame, x |-> p.x, y |-> p.y] ++ Only(p.frame = "display", [display |-> p.disp])
  ++ Only(p.xPct, [x_pct |-> TRUE]) ++ Only(p.yPct, [y_pct |-> TRUE])

RectNode(r) ==
  [x |-> r.x, y |-> r.y, w |-> r.w, h |-> r.h]
  ++ Only(r.xPct, [x_pct |-> TRUE]) ++ Only(r.yPct, [y_pct |-> TRUE])

KindNode(o) ==
  LET point == [point |-> PointNode(o.point)] IN
  CASE o.kind = "focus" -> [selector |-> o.selector, wait_ms |-> o.wait, has_wait |-> o.hasWait]
    [] o.kind = "query_windows" -> [selector |-> o.selector]
    [] o.kind = "key" -> [mods |-> o.mods, keys |-> o.keys, repeat |-> o.repeat, gap_ms |-> o.gap]
    [] o.kind \in {"key_down", "key_up"} -> [keys |-> o.keys]
    [] o.kind = "text" -> [text |-> o.text, interval_ms |-> o.interval]
    [] o.kind = "clipboard" -> [text |-> o.text]
    [] o.kind = "paste" -> [text |-> o.text, settle_ms |-> o.interval]
    [] o.kind = "query_clipboard" -> [to_file |-> o.fromFile]
    [] o.kind = "read_clipboard" -> [path |-> o.path, type |-> o.rclipType]
    [] o.kind = "move" -> point ++ [duration_ms |-> o.duration]
    [] o.kind = "click" -> [button |-> o.button, count |-> o.count, gap_ms |-> o.gap, mods |-> o.mods]
                           ++ Only(o.hasPoint, point)
    [] o.kind = "button_down" -> [button |-> o.button, mods |-> o.mods] ++ Only(o.hasPoint, point)
    [] o.kind = "button_up" -> [button |-> o.button]
    [] o.kind = "drag" -> [button |-> o.button, mods |-> o.mods, duration_ms |-> o.duration, steps |-> o.count,
                           points |-> [i \in DOMAIN o.points |-> PointNode(o.points[i])]]
    [] o.kind = "scroll" -> [dir |-> o.scrollDir, ticks |-> o.ticks, by |-> o.scrollBy]
    [] o.kind = "open" -> [target |-> o.target, wait_ms |-> o.wait, has_wait |-> o.hasWait]
    [] o.kind = "exec" -> [shell |-> o.shell, noerr |-> o.noerr, timeout_ms |-> o.timeout]
                          ++ IF o.shell THEN [cmd |-> o.cmd] ELSE [argv |-> o.argv]
    [] o.kind = "capture" -> [frame |-> o.frame, count |-> o.capCount, interval_ms |-> o.capInterval, label |-> o.label,
                              scale |-> IF o.scaleNative THEN Name("native") ELSE Num(o.scale, "")]
                             ++ Only(o.frame = "display", [display |-> o.disp])
                             ++ Only(o.rect # <<>>, [rect |-> RectNode(o.rect[1])])
    [] o.kind = "sleep" -> [duration_ms |-> o.sleep]
    [] o.kind = "set" -> Only(o.setDelay # <<>>, [delay_ms |-> o.setDelay])
                         ++ Only(o.setTxtms # <<>>, [text_interval_ms |-> o.setTxtms])
                         ++ Only(o.setKeyms # <<>>, [key_gap_ms |-> o.setKeyms])
    [] OTHER -> <<>>

OpNode(o) ==
  [line |-> o.line, src |-> o.src, op |-> o.kind]
  ++ Only(o.delay # <<>>, [line_delay_ms |-> o.delay])
  ++ KindNode(o)

-----------------------------------------------------------------------------
(* json_decode.go: a field that is absent is its zero value.               *)

Get(obj, field, zero) == IF field \in DOMAIN obj THEN obj[field] ELSE zero

ToPoint(p) ==
  [frame |-> p.frame, disp |-> Get(p, "display", 0), x |-> p.x, y |-> p.y,
   xPct |-> Get(p, "x_pct", FALSE), yPct |-> Get(p, "y_pct", FALSE)]

ToRect(r) ==
  [x |-> r.x, y |-> r.y, w |-> r.w, h |-> r.h,
   xPct |-> Get(r, "x_pct", FALSE), yPct |-> Get(r, "y_pct", FALSE)]

\* Mutant: the fields of a click and of a button_down are read, but not their point.
ForgetsThePoint(f, op) == [op EXCEPT !.hasPoint = FALSE]

\* click and button_down may come without a point.
DecodeOptPoint(f, op) ==
  IF "point" \in DOMAIN f THEN [op EXCEPT !.hasPoint = TRUE, !.point = ToPoint(f.point)] ELSE op

DecodeText(f, o) ==
  CASE o.kind = "text" -> [o EXCEPT !.text = f.text, !.interval = f.interval_ms]
    [] o.kind = "clipboard" -> [o EXCEPT !.text = f.text]
    [] o.kind = "paste" -> [o EXCEPT !.text = f.text, !.interval = f.settle_ms]
    [] o.kind = "query_clipboard" -> [o EXCEPT !.fromFile = f.to_file]
    [] o.kind = "read_clipboard" -> [o EXCEPT !.path = f.path, !.rclipType = f.type]

DecodePointer(f, o) ==
  CASE o.kind = "move" -> [o EXCEPT !.point = ToPoint(f.point), !.duration = f.duration_ms]
    [] o.kind = "click" -> DecodeOptPoint(f, [o EXCEPT !.button = f.button, !.count = f.count, !.gap = f.gap_ms,
                                                       !.mods = f.mods])
    [] o.kind = "button_down" -> DecodeOptPoint(f, [o EXCEPT !.button = f.button, !.mods = f.mods])
    [] o.kind = "button_up" -> [o EXCEPT !.button = f.button]
    [] o.kind = "drag" -> [o EXCEPT !.button = f.button, !.duration = f.duration_ms, !.count = f.steps,
                                    !.mods = f.mods, !.points = [i \in DOMAIN f.points |-> ToPoint(f.points[i])]]
    [] o.kind = "scroll" -> [o EXCEPT !.scrollDir = f.dir, !.ticks = f.ticks, !.scrollBy = f.by]

\* The command of a shell is a string, that of a program a list.
DecodeExec(f, o) ==
  [o EXCEPT !.shell = f.shell, !.cmd = Get(f, "cmd", <<>>), !.argv = Get(f, "argv", <<>>),
            !.noerr = f.noerr, !.timeout = f.timeout_ms]

DecodeCapture(f, o) ==
  LET native == f.scale = Name("native") IN
  [o EXCEPT !.frame = f.frame, !.disp = Get(f, "display", 0),
            !.rect = IF "rect" \in DOMAIN f THEN <<ToRect(f.rect)>> ELSE <<>>,
            !.scaleNative = native, !.scale = IF native THEN 0 ELSE f.scale.n,
            !.capCount = f.count, !.capInterval = f.interval_ms, !.label = f.label]

DecodeSet(f, o) ==
  [o EXCEPT !.setDelay = Get(f, "delay_ms", <<>>), !.setTxtms = Get(f, "text_interval_ms", <<>>),
            !.setKeyms = Get(f, "key_gap_ms", <<>>)]

DecodeOp(f) ==
  LET o == [ZeroOp EXCEPT !.line = f.line, !.src = f.src, !.kind = f.op, !.delay = Get(f, "line_delay_ms", <<>>)] IN
  CASE f.op = "focus" -> [o EXCEPT !.selector = f.selector, !.wait = f.wait_ms, !.hasWait = f.has_wait]
    [] f.op = "query_windows" -> [o EXCEPT !.selector = f.selector]
    [] f.op = "key" -> [o EXCEPT !.mods = f.mods, !.keys = f.keys, !.repeat = f.repeat, !.gap = f.gap_ms]
    [] f.op \in {"key_down", "key_up"} -> [o EXCEPT !.keys = f.keys]
    [] f.op \in {"text", "clipboard", "paste", "query_clipboard", "read_clipboard"} -> DecodeText(f, o)
    [] f.op \in {"move", "click", "button_down", "button_up", "drag", "scroll"} -> DecodePointer(f, o)
    [] f.op = "open" -> [o EXCEPT !.target = f.target, !.wait = f.wait_ms, !.hasWait = f.has_wait]
    [] f.op = "exec" -> DecodeExec(f, o)
    [] f.op = "capture" -> DecodeCapture(f, o)
    [] f.op = "sleep" -> [o EXCEPT !.sleep = f.duration_ms]
    [] f.op = "set" -> DecodeSet(f, o)
    [] OTHER -> o
=============================================================================
