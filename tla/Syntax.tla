------------------------------- MODULE Syntax -------------------------------
(***************************************************************************)
(* From a source line to an IR operation: internal/syntax.                 *)
(*                                                                         *)
(* A line is kept as its grammar cuts it: the command, what follows it,    *)
(* the modifier tokens and the payload.  A payload is words, each cut at   *)
(* one separator, except where its characters matter (text and exec).      *)
(* Blanks around words and commas, upper and lower case, columns and the   *)
(* wording of messages are left out.                                       *)
(***************************************************************************)
EXTENDS Integers, SequencesExt, FiniteSets

(* The fields of f and those that g has besides.                           *)
f ++ g == [x \in DOMAIN f \cup DOMAIN g |-> IF x \in DOMAIN f THEN f[x] ELSE g[x]]

(* Values.  Huge stands for a number that no 64-bit integer holds.         *)
Huge == 1000000000
Num(n, unit) == [s |-> "", n |-> n, unit |-> unit]
Name(s) == [s |-> s, n |-> 0, unit |-> "name"]
Garbled == Name("?")

\* strconv.Atoi, parseFinite, parseCoord, parseDurMS.
IsInt(v) == v.unit = "" /\ v.n < Huge
IsNumber(v) == v.unit = ""
IsCoord(v) == v.unit \in {"", "%"}
IsDuration(v) == v.unit \in {"", "ms", "s"} /\ v.n >= 0

\* int(math.Round(f)): past 64 bits it is the least integer on amd64 and the greatest on
\* arm64, which is what big says.
Duration(big, v) == IF v.n >= Huge THEN big ELSE IF v.unit = "s" THEN 1000 * v.n ELSE v.n

(* Words and lines.                                                        *)
Word(sep, parts) == [sep |-> sep, parts |-> parts]
One(v) == Word("", <<v>>)
Cut(w, sep) == IF w.sep \in {sep, ""} THEN w.parts ELSE <<Garbled>>
Whole(w) == IF w.sep = "" THEN w.parts[1] ELSE Garbled

Values == [s : STRING, n : Int, unit : STRING]
Words == [sep : STRING, parts : Seq(Values) \ {<<>>}]

KV(k, w) == [eq |-> TRUE, key |-> k, val |-> w, letters |-> <<>>]
Letters(ls) == [eq |-> FALSE, key |-> "", val |-> One(Garbled), letters |-> ls]

\* form: blank, comment, upper (starts with neither a letter a-z nor #) or stmt;
\* tail, what follows the command: none, space, junk, open ('[' without ']') or closed.
Line(form, cmd, tail, mods, words, chars) ==
  [form |-> form, cmd |-> cmd, tail |-> tail, mods |-> mods, words |-> words, chars |-> chars]

Tokens == [eq : BOOLEAN, key : STRING, val : Words, letters : Seq(STRING)]

\* What parseLine may have cut a line into: a token is one of KV and Letters, and only text
\* and commands are kept character by character.
Lines ==
  [form : {"blank", "comment", "upper", "stmt"}, cmd : STRING, tail : STRING,
   mods : Seq(Tokens), words : Seq(Words), chars : Seq(STRING)]
IsCut(l) ==
  /\ l \in Lines
  /\ \A t \in ToSet(l.mods) : t = KV(t.key, t.val) \/ t = Letters(t.letters)
  /\ l.chars # <<>> => l.cmd \in {"txt", "clip", "paste", "exec"}

-----------------------------------------------------------------------------
(* commands.go.                                                            *)

Command(kind, payload, single, word, kv, frame) ==
  [kind |-> kind, payload |-> payload, single |-> single, word |-> word,
   kv |-> kv \cup {"d"}, frame |-> frame]

Held == {"c", "s", "a", "m", "p"}
Img == <<"i", "m", "g">>
Txt == <<"t", "x", "t">>
Shell == <<"s", "h", "e", "l", "l">>
Noerr == <<"n", "o", "e", "r", "r">>

Commands == [
  k      |-> Command("key", "keys", Held, {}, {"n", "ms"}, FALSE),
  kd     |-> Command("key_down", "keys", {}, {}, {}, FALSE),
  ku     |-> Command("key_up", "keys", {}, {}, {}, FALSE),
  txt    |-> Command("text", "text", {"f"}, {}, {"ms"}, FALSE),
  m      |-> Command("move", "point", Held \cup {"r", "w"}, {}, {"ms", "disp"}, TRUE),
  c      |-> Command("click", "opt_point", Held \cup {"r", "w"}, {}, {"b", "n", "ms", "disp"}, TRUE),
  md     |-> Command("button_down", "opt_point", Held \cup {"r", "w"}, {}, {"b", "disp"}, TRUE),
  mu     |-> Command("button_up", "none", Held, {}, {"b"}, FALSE),
  drag   |-> Command("drag", "points", Held \cup {"r", "w"}, {}, {"b", "ms", "steps", "disp"}, TRUE),
  scroll |-> Command("scroll", "scroll", Held, {}, {"by"}, FALSE),
  clip   |-> Command("clipboard", "text", {"f"}, {}, {}, FALSE),
  paste  |-> Command("paste", "text", {"f"}, {}, {"ms"}, FALSE),
  qclip  |-> Command("query_clipboard", "qclip", {"f"}, {}, {}, FALSE),
  rclip  |-> Command("read_clipboard", "rclip", {}, {Img, Txt}, {}, FALSE),
  win    |-> Command("focus", "selector", {"r"}, {}, {"wait"}, FALSE),
  qwin   |-> Command("query_windows", "opt_selector", {"r"}, {}, {}, FALSE),
  open   |-> Command("open", "target", {}, {}, {"wait"}, FALSE),
  exec   |-> Command("exec", "exec", {}, {Shell, Noerr}, {"timeout"}, FALSE),
  cap    |-> Command("capture", "cap", {"w"}, {},
                     {"disp", "rect", "scale", "n", "ms", "label"}, TRUE),
  sleep  |-> Command("sleep", "sleep", {}, {}, {}, FALSE),
  set    |-> Command("set", "none", {}, {}, {"delay", "txtms", "keyms"}, FALSE),
  qinfo  |-> Command("query_info", "none", {}, {}, {}, FALSE),
  qdisp  |-> Command("query_displays", "none", {}, {}, {}, FALSE),
  qmouse |-> Command("query_mouse", "none", {}, {}, {}, FALSE) ]

\* keys.go; a, v, 1, f5 and numpad0 stand for the letters, digits and ranges.
Aliases == [option |-> "alt", cmd |-> "meta", win |-> "meta", return |-> "enter", escape |-> "esc"]
NamedKeys ==
  {"a", "v", "1", "f5", "numpad0", "ctrl", "shift", "alt", "meta", "primary", "enter", "tab",
   "esc", "space", "backspace", "delete", "insert", "home", "end", "pageup", "pagedown", "up",
   "down", "left", "right", "period", "comma", "minus", "equal", "slash", "backslash",
   "semicolon", "quote", "grave", "lbracket", "rbracket", "decimal", "numadd", "numsub",
   "nummul", "numdiv", "numenter", "capslock", "printscreen", "scrolllock", "pause", "volup",
   "voldown", "mute"}
KeyNames == [k \in NamedKeys |-> k] ++ Aliases

KeyOf(v) == IF v.unit = "" THEN IF v.n = 1 THEN "1" ELSE "?" ELSE v.s

FlagSymbol == [c |-> "ctrl", s |-> "shift", a |-> "alt", m |-> "meta", p |-> "primary"]
FlagOrder == <<"c", "s", "a", "m", "p">>

-----------------------------------------------------------------------------
(* parseModifiers.                                                         *)

Flags(spec, ts) == {t \in ToSet(ts) : ~t.eq /\ t.letters \notin spec.word}

BadToken(spec, ts, i) ==
  LET t == ts[i]
      before == SubSeq(ts, 1, i - 1)
      seen == UNION {ToSet(u.letters) : u \in Flags(spec, before)} IN
  IF t.eq THEN t.key \notin spec.kv \/ \E u \in ToSet(before) : u.eq /\ u.key = t.key
  ELSE IF t.letters \in spec.word THEN t \in ToSet(before)
  ELSE \/ t.letters = <<>>
       \/ ~IsInjective(t.letters)
       \/ ~(ToSet(t.letters) \subseteq spec.single \ seen)

ModSet(spec, ts) ==
  LET kvs == {t \in ToSet(ts) : t.eq} IN
  [ flags |-> UNION {ToSet(t.letters) : t \in Flags(spec, ts)},
    words |-> {t.letters : t \in ToSet(ts)} \cap spec.word,
    kvs   |-> [k \in {t.key : t \in kvs} |-> (CHOOSE t \in kvs : t.key = k).val] ]

OrderedMods(m) ==
  FlattenSeq([i \in DOMAIN FlagOrder |->
                IF FlagOrder[i] \in m.flags THEN <<FlagSymbol[FlagOrder[i]]>> ELSE <<>>])

Has(m, k) == k \in DOMAIN m.kvs
DurFails(m, k) == Has(m, k) /\ ~IsDuration(Whole(m.kvs[k]))
DurVal(big, m, k, default) == IF Has(m, k) THEN Duration(big, Whole(m.kvs[k])) ELSE default
IntFails(m, k) == Has(m, k) /\ ~IsInt(Whole(m.kvs[k]))
IntVal(m, k, default) == IF Has(m, k) THEN Whole(m.kvs[k]).n ELSE default
NameVal(m, k, default) == IF Has(m, k) THEN Whole(m.kvs[k]).s ELSE default
OptDur(big, m, k) == IF Has(m, k) THEN <<DurVal(big, m, k, 0)>> ELSE <<>>

ButtonFails(m) == Has(m, "b") /\ NameVal(m, "b", "") \notin {"left", "right", "middle"}

-----------------------------------------------------------------------------
(* Payloads.                                                               *)

\* resolveFrame: at most one of r, w and disp=.
FrameFails(m) ==
  \/ Has(m, "disp") /\ (IntFails(m, "disp") \/ IntVal(m, "disp", 0) < 0)
  \/ Cardinality(m.flags \cap {"r", "w"}) + (IF Has(m, "disp") THEN 1 ELSE 0) > 1
Frame(m) ==
  IF Has(m, "disp") THEN "display"
  ELSE IF "w" \in m.flags THEN "window" ELSE IF "r" \in m.flags THEN "pointer" ELSE "desktop"

PointFails(w, m) ==
  LET xy == Cut(w, ",") IN
  \/ Len(xy) # 2
  \/ \E i \in DOMAIN xy : ~IsCoord(xy[i]) \/ (Frame(m) = "pointer" /\ xy[i].unit = "%")
ParsePoint(w, m) ==
  LET xy == Cut(w, ",") IN
  [frame |-> Frame(m), disp |-> IntVal(m, "disp", 0), x |-> xy[1].n, y |-> xy[2].n,
   xPct |-> xy[1].unit = "%", yPct |-> xy[2].unit = "%"]

RectFails(w) ==
  LET r == Cut(w, ":") IN
  \/ Len(r) # 4
  \/ ~IsCoord(r[1]) \/ ~IsCoord(r[2]) \/ ~IsNumber(r[3]) \/ ~IsNumber(r[4])
ParseRect(w) ==
  LET r == Cut(w, ":") IN
  [x |-> r[1].n, y |-> r[2].n, w |-> r[3].n, h |-> r[4].n,
   xPct |-> r[1].unit = "%", yPct |-> r[2].unit = "%"]

ParseSelector(w, regex) ==
  IF w.sep = ":" /\ w.parts[1].s \in {"id", "pid", "app"}
  THEN [kind |-> w.parts[1].s, value |-> w.parts[2], regex |-> FALSE]
  ELSE [kind |-> "title", value |-> Whole(w), regex |-> regex]

\* applyEscapes over the characters of a payload; "h" is a hexadecimal digit and "rune" what
\* four of them name.
ApplyEscapes(s) ==
  LET Bad == [ok |-> FALSE, out |-> <<>>]
      Then(c, rest) == [ok |-> rest.ok, out |-> <<c>> \o rest.out]
      Plain == [n |-> "LF", t |-> "TAB", bs |-> "bs"]
      At[i \in Nat] ==
        IF i > Len(s) THEN [ok |-> TRUE, out |-> <<>>]
        ELSE IF s[i] # "bs" THEN Then(s[i], At[i + 1])
        ELSE IF i = Len(s) THEN Bad
        ELSE IF s[i + 1] \in DOMAIN Plain THEN Then(Plain[s[i + 1]], At[i + 2])
        ELSE IF s[i + 1] = "u" /\ i + 5 <= Len(s) /\ \A j \in (i + 2)..(i + 5) : s[j] = "h"
             THEN Then("rune", At[i + 6])
        ELSE Bad
  IN  At[1]

\* strings.TrimSpace.
Trim(s) ==
  LET kept == {i \in DOMAIN s : s[i] \notin {" ", "TAB", "CR", "LF"}}
  IN  IF kept = {} THEN <<>> ELSE SubSeq(s, Min(kept), Max(kept))

\* splitArgv: blanks part the words outside quotes.
SplitArgv(s) ==
  LET Start == [argv |-> <<>>, cur |-> <<>>, quote |-> FALSE, tok |-> FALSE]
      Put(st, c) ==
        CASE c = "quote" -> [st EXCEPT !.quote = ~@, !.tok = TRUE]
          [] c = " " /\ ~st.quote ->
               IF st.tok THEN [Start EXCEPT !.argv = Append(st.argv, st.cur)] ELSE st
          [] OTHER -> [st EXCEPT !.cur = Append(@, c), !.tok = TRUE]
      end == FoldLeft(Put, Start, s)
  IN  [ok |-> ~end.quote, argv |-> IF end.tok THEN Append(end.argv, end.cur) ELSE end.argv]

Payload(l) == IF Len(l.words) = 1 THEN l.words[1] ELSE One(Garbled)

ScrollFails(l, m) ==
  \/ Len(l.words) \notin {1, 2}
  \/ Whole(l.words[1]).s \notin {"up", "down", "left", "right"}
  \/ Len(l.words) = 2 /\ ~IsInt(Whole(l.words[2]))
  \/ NameVal(m, "by", "line") \notin {"line", "page"}

PayloadFails(spec, l, m) ==
  LET p == spec.payload
      empty == l.words = <<>> /\ l.chars = <<>> IN
  \/ p = "none" /\ (~empty \/ ButtonFails(m) \/ \E k \in {"delay", "txtms", "keyms"} : DurFails(m, k))
  \/ p = "keys" /\ (\/ empty
                    \/ \E w \in ToSet(l.words) : \E v \in ToSet(Cut(w, "+")) : KeyOf(v) \notin DOMAIN KeyNames
                    \/ IntFails(m, "n"))
  \/ p = "text" /\ (IF "f" \in m.flags THEN empty ELSE ~ApplyEscapes(l.chars).ok)
  \/ p = "rclip" /\ (empty \/ {Img, Txt} \subseteq m.words)
  \/ p = "point" /\ (empty \/ PointFails(Payload(l), m))
  \/ p = "opt_point" /\ (\/ ~empty /\ PointFails(Payload(l), m)
                         \/ ButtonFails(m) \/ IntFails(m, "n"))
  \/ p = "points" /\ (\/ empty \/ ButtonFails(m) \/ IntFails(m, "steps")
                      \/ \E w \in ToSet(l.words) : PointFails(w, m))
  \/ p = "scroll" /\ ScrollFails(l, m)
  \/ p \in {"selector", "target"} /\ (empty \/ DurFails(m, "wait"))
  \/ p = "exec" /\ (\/ Trim(l.chars) = <<>> \/ DurFails(m, "timeout")
                    \/ Shell \notin m.words /\ (\/ ~SplitArgv(Trim(l.chars)).ok
                                               \/ SplitArgv(Trim(l.chars)).argv = <<>>))
  \/ p = "cap" /\ (\/ IntFails(m, "n")
                   \/ Has(m, "rect") /\ RectFails(m.kvs["rect"])
                   \/ Has(m, "scale") /\ ~IsNumber(Whole(m.kvs["scale"])) /\ NameVal(m, "scale", "") # "native")
  \/ p = "sleep" /\ (empty \/ ~IsDuration(Whole(Payload(l))))

\* A line that Parse answers with E_SYNTAX.
Malformed(l) ==
  \/ l.form = "upper"
  \/ /\ l.form = "stmt"
     /\ \/ l.cmd \notin DOMAIN Commands
        \/ l.tail \in {"junk", "open"}
        \/ LET spec == Commands[l.cmd]
               m == ModSet(spec, l.mods) IN
           \/ \E i \in DOMAIN l.mods : BadToken(spec, l.mods, i)
           \/ \E k \in {"d", "ms"} : DurFails(m, k)
           \/ spec.frame /\ FrameFails(m)
           \/ PayloadFails(spec, l, m)

-----------------------------------------------------------------------------
(* ir.Op, with its zero values, and what buildOp makes of a line.  An      *)
(* optional field is a sequence of at most one value.                      *)

NoPoint == [frame |-> "", disp |-> 0, x |-> 0, y |-> 0, xPct |-> FALSE, yPct |-> FALSE]

ZeroOp ==
  [ line |-> 0, src |-> <<>>, kind |-> "", delay |-> <<>>,
    selector |-> [kind |-> "", value |-> Name(""), regex |-> FALSE], wait |-> 0, hasWait |-> FALSE,
    mods |-> <<>>, keys |-> <<>>, repeat |-> 0, gap |-> 0,
    text |-> <<>>, interval |-> 0, hasText |-> FALSE, fromFile |-> FALSE, filePath |-> "",
    path |-> "", rclipType |-> "",
    point |-> NoPoint, hasPoint |-> FALSE, points |-> <<>>, duration |-> 0, button |-> "", count |-> 0,
    scrollDir |-> "", ticks |-> 0, scrollBy |-> "",
    frame |-> "", disp |-> 0, rect |-> <<>>, scale |-> 0, scaleNative |-> FALSE,
    label |-> Name(""), capCount |-> 0, capInterval |-> 0,
    argv |-> <<>>, cmd |-> <<>>, shell |-> FALSE, noerr |-> FALSE, timeout |-> 0,
    target |-> "", sleep |-> 0, setDelay |-> <<>>, setTxtms |-> <<>>, setKeyms |-> <<>> ]

PathOf(l) == IF l.words = <<>> THEN "" ELSE Whole(Payload(l)).s

\* k keeps the chords, kd and ku one key each.
Chords(kind, l) ==
  LET chord(w) == [i \in DOMAIN Cut(w, "+") |-> KeyNames[KeyOf(Cut(w, "+")[i])]]
      chords == [i \in DOMAIN l.words |-> chord(l.words[i])] IN
  IF kind = "key" THEN chords
  ELSE LET flat == FlattenSeq(chords) IN [i \in DOMAIN flat |-> <<flat[i]>>]

FinishNone(big, op, m) ==
  [op EXCEPT !.button = IF op.kind = "button_up" THEN NameVal(m, "b", "left") ELSE "",
             !.setDelay = OptDur(big, m, "delay"), !.setTxtms = OptDur(big, m, "txtms"),
             !.setKeyms = OptDur(big, m, "keyms")]

BuildKeys(big, op, l, m) ==
  LET isKey == op.kind = "key" IN
  [op EXCEPT !.keys = Chords(op.kind, l),
             !.mods = IF isKey THEN OrderedMods(m) ELSE <<>>,
             !.repeat = IF isKey THEN IntVal(m, "n", 1) ELSE 0,
             !.gap = IF isKey THEN DurVal(big, m, "ms", 30) ELSE 0]

BuildText(big, op, l, m) ==
  LET f == "f" \in m.flags IN
  [op EXCEPT !.fromFile = f, !.hasText = ~f,
             !.filePath = IF f THEN PathOf(l) ELSE "",
             !.text = IF f THEN <<>> ELSE ApplyEscapes(l.chars).out,
             !.interval = IF op.kind = "clipboard" THEN 0
                          ELSE DurVal(big, m, "ms", IF op.kind = "paste" THEN 50 ELSE 0)]

BuildScroll(op, l, m) ==
  [op EXCEPT !.scrollDir = Whole(l.words[1]).s,
             !.ticks = IF Len(l.words) = 2 THEN Whole(l.words[2]).n ELSE 3,
             !.scrollBy = NameVal(m, "by", "line")]

BuildExec(big, op, l, m) ==
  LET shell == Shell \in m.words IN
  [op EXCEPT !.shell = shell, !.noerr = Noerr \in m.words,
             !.cmd = IF shell THEN Trim(l.chars) ELSE <<>>,
             !.argv = IF shell THEN <<>> ELSE SplitArgv(Trim(l.chars)).argv,
             !.timeout = DurVal(big, m, "timeout", 10000)]

BuildCap(big, op, l, m) ==
  LET native == NameVal(m, "scale", "") = "native" IN
  [op EXCEPT !.frame = Frame(m), !.disp = IntVal(m, "disp", 0), !.filePath = PathOf(l),
             !.rect = IF Has(m, "rect") THEN <<ParseRect(m.kvs["rect"])>> ELSE <<>>,
             !.scaleNative = native, !.scale = IF native THEN 1 ELSE IntVal(m, "scale", 1),
             !.label = IF Has(m, "label") THEN Whole(m.kvs["label"]) ELSE Name("cap"),
             !.capCount = IntVal(m, "n", 1), !.capInterval = DurVal(big, m, "ms", 100)]

BuildOp(big, n, l) ==
  LET spec == Commands[l.cmd]
      kind == spec.kind
      m == ModSet(spec, l.mods)
      empty == l.words = <<>>
      op == [ZeroOp EXCEPT !.line = n, !.src = <<l>>, !.kind = kind, !.delay = OptDur(big, m, "d")]
  IN
  CASE spec.payload = "none"   -> FinishNone(big, op, m)
    [] spec.payload = "keys"   -> BuildKeys(big, op, l, m)
    [] spec.payload = "text"   -> BuildText(big, op, l, m)
    [] spec.payload = "scroll" -> BuildScroll(op, l, m)
    [] spec.payload = "exec"   -> BuildExec(big, op, l, m)
    [] spec.payload = "cap"    -> BuildCap(big, op, l, m)
    [] spec.payload = "qclip"  ->
         LET f == "f" \in m.flags IN [op EXCEPT !.fromFile = f, !.filePath = IF f THEN PathOf(l) ELSE ""]
    [] spec.payload = "rclip" ->
         [op EXCEPT !.path = PathOf(l),
                    !.rclipType = IF Img \in m.words THEN "image" ELSE IF Txt \in m.words THEN "text" ELSE "auto"]
    [] spec.payload = "point" ->
         [op EXCEPT !.point = ParsePoint(Payload(l), m), !.hasPoint = TRUE,
                    !.duration = DurVal(big, m, "ms", 0)]
    [] spec.payload = "opt_point" ->
         [op EXCEPT !.point = IF empty THEN NoPoint ELSE ParsePoint(Payload(l), m), !.hasPoint = ~empty,
                    !.button = NameVal(m, "b", "left"), !.mods = OrderedMods(m),
                    !.count = IF kind = "click" THEN IntVal(m, "n", 1) ELSE 0,
                    !.gap = IF kind = "click" THEN DurVal(big, m, "ms", 60) ELSE 0]
    [] spec.payload = "points" ->
         [op EXCEPT !.points = [i \in DOMAIN l.words |-> ParsePoint(l.words[i], m)],
                    !.button = NameVal(m, "b", "left"), !.mods = OrderedMods(m),
                    !.duration = DurVal(big, m, "ms", 500), !.count = IntVal(m, "steps", 20)]
    [] spec.payload \in {"selector", "opt_selector"} ->
         [op EXCEPT !.selector = IF empty THEN [kind |-> "title", value |-> Name(""), regex |-> "r" \in m.flags]
                                 ELSE ParseSelector(Payload(l), "r" \in m.flags),
                    !.wait = DurVal(big, m, "wait", 0), !.hasWait = Has(m, "wait")]
    [] spec.payload = "target" ->
         [op EXCEPT !.target = PathOf(l), !.wait = DurVal(big, m, "wait", 0), !.hasWait = Has(m, "wait")]
    [] spec.payload = "sleep" -> [op EXCEPT !.sleep = Duration(big, Whole(Payload(l)))]
=============================================================================
