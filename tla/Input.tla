------------------------------- MODULE Input -------------------------------
(***************************************************************************)
(* The input calls of the two backends, as the engine makes them: keys,    *)
(* text, pointer moves, buttons and the wheel, line after line.            *)
(*                                                                         *)
(* The Windows backend keeps nothing between calls; the macOS one keeps    *)
(* the modifier flags, one held button and a click count per button for as *)
(* long as the process lives, which for a bridge is many runs.  An event   *)
(* that cannot be created is an error of KeyDown, KeyUp and TypeText, and  *)
(* nothing at all to the caller of macOS's mouse calls.                    *)
(***************************************************************************)
EXTENDS Integers, SequencesExt, FiniteSets

CONSTANTS
  Keys, Buttons, Texts,  \* symbols, buttons, and texts TypeText is given
  Places, Steps,         \* where the pointer goes, and in how many steps
  MaxFaults, MaxClicks   \* bounds: events that cannot be created, clicks in a burst
ASSUME InputAssumption ==
  MaxFaults \in Nat /\ MaxClicks \in Nat /\ Steps \subseteq Nat \ {0} /\ Places \subseteq Int

VARIABLES
  plat,        \* "darwin" / "windows"
  secure,      \* Secure Input is on (macOS)
  heldFlags, heldButton, clickState,  \* the fields of darwin's Backend
  recent,      \* [b |-> doubleClickWindow has not passed since b's last up]
  down,        \* keycodes and buttons that posted events left down
  at,          \* where they left the pointer
  counts,      \* [b |-> the click count on b's last event]
  held,        \* buttons the engine believes it holds
  call,        \* the call in progress, or [is |-> "idle"]
  last,        \* the call that has just returned and its error, or Idle
  faults,      \* events that may still fail
  missed,      \* a mouse event was not created
  stale,       \* modifiers whose last event was not created
  several,     \* two buttons have been down together, and not all up since
  fresh        \* the buttons this line has neither pressed nor released

fields == <<heldFlags, heldButton, clickState>>
host == <<down, at, counts>>
notes == <<missed, stale, several, fresh>>
vars == <<plat, secure, fields, recent, host, held, call, last, faults, notes>>

Idle == [is |-> "idle"]
NoButton == ""

Init ==
  /\ plat \in {"darwin", "windows"} /\ secure = FALSE
  /\ heldFlags = {} /\ heldButton = NoButton /\ clickState = [b \in Buttons |-> 0]
  /\ recent = [b \in Buttons |-> FALSE]
  /\ down = {} /\ at = 0 /\ counts = [b \in Buttons |-> 0]
  /\ held = {} /\ call = Idle /\ last = Idle
  /\ faults = MaxFaults
  /\ missed = FALSE /\ stale = {} /\ several = FALSE /\ fresh = Buttons

-----------------------------------------------------------------------------
(* The host.                                                               *)

SecureInputChanges ==
  /\ plat = "darwin" /\ secure' = ~secure /\ last' = Idle
  /\ UNCHANGED <<plat, fields, recent, host, held, call, faults, notes>>

WindowPasses(b) ==
  /\ recent[b] /\ recent' = [recent EXCEPT ![b] = FALSE] /\ last' = Idle
  /\ UNCHANGED <<plat, secure, fields, host, held, call, faults, notes>>

NextLine ==
  /\ call = Idle /\ fresh # Buttons /\ fresh' = Buttons /\ last' = Idle
  /\ UNCHANGED <<plat, secure, fields, recent, host, held, call, faults, missed, stale, several>>

\* An event is created and posted (SendInput inserts it), or not.
Created(ok) == ok \/ faults > 0
Spent(ok) == faults' = IF ok THEN faults ELSE faults - 1

Begins(c) == call = Idle /\ call' = c /\ last' = Idle
Returns(c, err) == call' = Idle /\ last' = [call |-> c, err |-> err]

-----------------------------------------------------------------------------
(* Keys.                                                                   *)

\* keycodeFor.  primary shares Command's keycode on macOS, where the volume keys have none,
\* and Control's scan code on Windows.
DarwinKeycode(k) == CASE k = "primary" -> "meta" [] k = "volup" -> "none" [] OTHER -> k
WindowsKeycode(k) == IF k = "primary" THEN "ctrl" ELSE k
Keycode(k) == IF plat = "darwin" THEN DarwinKeycode(k) ELSE WindowsKeycode(k)

Modifiers == {"ctrl", "shift", "alt", "meta"}

\* Keys, buttons and runes are values of different types in the code.
ASSUME NamesAssumption ==
  /\ Buttons \cap (Keys \cup Modifiers \cup {NoButton, "none", "high", "low"}) = {}
  /\ Texts \subseteq Seq(STRING \ (Modifiers \cup Buttons))
  /\ IsFiniteSet(Buttons)

\* Mutant: primary is taken for Control.
PrimaryIsControl(k) ==
  IF k = "primary" THEN {"ctrl"} ELSE IF k \in Modifiers THEN {k} ELSE {}

ModifierFlagBit(k) ==
  IF k = "primary" THEN {"meta"} ELSE IF k \in Modifiers THEN {k} ELSE {}

\* Mutant: KeyDown returns nil when the event could not be created.
SwallowsTheFailure(ok) == FALSE

KeyFails(ok) == ~ok

KeyEvent(k, isDown, ok) ==
  LET bit == IF plat = "darwin" THEN ModifierFlagBit(k) ELSE {} IN
  /\ Created(ok) /\ Spent(ok)
  /\ heldFlags' = IF isDown THEN heldFlags \cup bit ELSE heldFlags \ bit
  /\ stale' = IF ok THEN stale \ bit ELSE stale \cup bit
  /\ down' = IF ~ok THEN down
             ELSE IF isDown THEN down \cup {Keycode(k)} ELSE down \ {Keycode(k)}
  /\ UNCHANGED <<heldButton, clickState>>

\* The call is refused before any event: Secure Input (KeyDown only), or no such key.
KeyRefused(k, isDown) ==
  \/ plat = "darwin" /\ secure /\ isDown
  \/ Keycode(k) = "none"

Key(k, isDown) ==
  LET c == [is |-> "key", key |-> k, isDown |-> isDown] IN
  /\ call = Idle
  /\ \/ /\ KeyRefused(k, isDown) /\ Returns(c, TRUE)
        /\ UNCHANGED <<fields, down, faults, stale>>
     \/ /\ ~KeyRefused(k, isDown)
        /\ \E ok \in BOOLEAN : KeyEvent(k, isDown, ok) /\ Returns(c, KeyFails(ok))
  /\ UNCHANGED <<plat, secure, recent, at, counts, held, missed, several, fresh>>

KeyDown(k) == Key(k, TRUE)
KeyUp(k) == Key(k, FALSE)

-----------------------------------------------------------------------------
(* Text, rune by rune; a rune of two UTF-16 units is "pair".               *)

TypeText(s) ==
  LET c == [is |-> "text", text |-> s, n |-> 0, out |-> <<>>] IN
  /\ \/ plat = "darwin" /\ secure /\ call = Idle /\ Returns(c, TRUE)
     \/ ~(plat = "darwin" /\ secure) /\ Begins(c)
  /\ UNCHANGED <<plat, secure, fields, recent, host, held, faults, notes>>

Units(r) == IF r = "pair" /\ plat = "windows" THEN <<"high", "low">> ELSE <<r>>

\* \n and \t are keys, pressed as KeyDown and KeyUp press them.
RuneRefused(r) == r \in {"enter", "tab"} /\ KeyRefused(r, TRUE)

\* The units of a rune go out one down and up after the other.  An event that cannot be
\* created ends the text, with the units before it out, and the unit's own key down if it
\* was the up that failed.
TypeRune ==
  LET r == call.text[call.n + 1] IN
  /\ call.is = "text" /\ call.n < Len(call.text)
  /\ \/ /\ ~RuneRefused(r)
        /\ call' = [call EXCEPT !.n = @ + 1, !.out = @ \o Units(r)] /\ last' = Idle
        /\ down' = down \ ToSet(Units(r)) /\ UNCHANGED faults
     \/ RuneRefused(r) /\ Returns(call, TRUE) /\ UNCHANGED <<faults, down>>
     \/ /\ ~RuneRefused(r) /\ Created(FALSE) /\ Spent(FALSE)
        /\ \E n \in DOMAIN Units(r) :
             /\ down' \in {down, down \cup {Units(r)[n]}}
             /\ Returns([call EXCEPT !.out = @ \o SubSeq(Units(r), 1, n - 1)], TRUE)
  /\ UNCHANGED <<plat, secure, fields, recent, at, counts, held, notes>>

TextEnds ==
  /\ call.is = "text" /\ call.n = Len(call.text) /\ Returns(call, FALSE)
  /\ UNCHANGED <<plat, secure, fields, recent, host, held, faults, notes>>

-----------------------------------------------------------------------------
(* The pointer.                                                            *)

\* macOS's mouse calls return nil for an event that was not created; SendInput's fail.
MouseFails(ok) == plat = "windows" /\ ~ok

MouseMove(p, steps) ==
  /\ Begins([is |-> "move", to |-> p, from |-> at, steps |-> steps, n |-> 0])
  /\ UNCHANGED <<plat, secure, fields, recent, host, held, faults, notes>>

\* Mutant: the last step is left out, as when the sleep after it is cancelled.
OneStepShort == call.n = call.steps - 1

Arrived == call.n = call.steps

\* macOS posts Dragged for the button it holds, and Moved when it holds none.
Dragging == heldButton

MoveStep ==
  LET i == call.n + 1 IN
  /\ call.is = "move" /\ ~Arrived
  /\ \E ok \in BOOLEAN :
       /\ Created(ok) /\ Spent(ok)
       /\ at' = IF ok THEN call.from + ((call.to - call.from) * i) \div call.steps ELSE at
       /\ missed' = (missed \/ ~ok)
       /\ IF MouseFails(ok) THEN Returns(call, TRUE)
                            ELSE call' = [call EXCEPT !.n = i] /\ last' = Idle
  /\ UNCHANGED <<plat, secure, fields, recent, down, counts, held, stale, several, fresh>>

MoveEnds ==
  /\ call.is = "move" /\ Arrived /\ Returns(call, FALSE)
  /\ UNCHANGED <<plat, secure, fields, recent, host, held, faults, notes>>

NextClickState(b) == IF recent[b] THEN clickState[b] + 1 ELSE 1

\* Validation and the engine press only a button that is not held.
ButtonDown(b) ==
  LET count == NextClickState(b)
      c == [is |-> "button", button |-> b, isDown |-> TRUE] IN
  /\ call = Idle /\ b \notin held /\ count <= MaxClicks
  /\ \E ok \in BOOLEAN :
       /\ Created(ok) /\ Spent(ok) /\ missed' = (missed \/ ~ok)
       /\ clickState' = IF plat = "darwin" THEN [clickState EXCEPT ![b] = count] ELSE clickState
       /\ heldButton' = IF plat = "darwin" /\ ok THEN b ELSE heldButton
       /\ down' = IF ok THEN down \cup {b} ELSE down
       /\ counts' = IF ok THEN [counts EXCEPT ![b] = count] ELSE counts
       /\ held' = IF MouseFails(ok) THEN held ELSE held \cup {b}
       /\ Returns(c, MouseFails(ok))
  /\ several' = (several \/ Cardinality(held') > 1)
  /\ fresh' = fresh \ {b}
  /\ UNCHANGED <<plat, secure, heldFlags, recent, at, stale>>

\* Mutant: ButtonUp leaves heldButton as it is.
KeepsHeldButton == heldButton

Cleared == NoButton

ButtonUp(b) ==
  LET count == IF clickState[b] = 0 THEN 1 ELSE clickState[b]
      c == [is |-> "button", button |-> b, isDown |-> FALSE] IN
  /\ call = Idle /\ b \in held
  /\ \E ok \in BOOLEAN :
       /\ Created(ok) /\ Spent(ok) /\ missed' = (missed \/ ~ok)
       /\ heldButton' = IF plat = "darwin" /\ ok THEN Cleared ELSE heldButton
       /\ recent' = IF plat = "darwin" /\ ok THEN [recent EXCEPT ![b] = TRUE] ELSE recent
       /\ down' = IF ok THEN down \ {b} ELSE down
       /\ counts' = IF ok THEN [counts EXCEPT ![b] = count] ELSE counts
       /\ held' = IF MouseFails(ok) THEN held ELSE held \ {b}
       /\ Returns(c, MouseFails(ok))
  /\ several' = (several /\ held' # {})
  /\ fresh' = fresh \ {b}
  /\ UNCHANGED <<plat, secure, heldFlags, clickState, at, stale>>

\* The wheel moves nothing that is modelled.
Scroll ==
  /\ call = Idle
  /\ \E ok \in BOOLEAN :
       /\ Created(ok) /\ Spent(ok) /\ missed' = (missed \/ ~ok)
       /\ Returns([is |-> "wheel"], MouseFails(ok))
  /\ UNCHANGED <<plat, secure, fields, recent, down, at, counts, held, stale, several, fresh>>

Next ==
  \/ SecureInputChanges \/ NextLine
  \/ \E b \in Buttons : WindowPasses(b) \/ ButtonDown(b) \/ ButtonUp(b)
  \/ \E k \in Keys : KeyDown(k) \/ KeyUp(k)
  \/ \E s \in Texts : TypeText(s)
  \/ TypeRune \/ TextEnds
  \/ \E p \in Places, n \in Steps : MouseMove(p, n)
  \/ MoveStep \/ MoveEnds \/ Scroll

Spec == Init /\ [][Next]_vars

-----------------------------------------------------------------------------

\* What the runes of a text come to.
Spelled(s) == FlattenSeq([i \in DOMAIN s |-> Units(s[i])])

\* A call that returns nil has done what it says: the engine's account of what is down
\* rests on it.  It is so of every call on Windows and of every key and text on macOS; a
\* mouse call on macOS may have done nothing (mouse.go:107).
NilMeansDone ==
  last # Idle /\ ~last.err /\ call = Idle =>
    LET c == last.call IN
    /\ c.is = "key" => (Keycode(c.key) \in down) = c.isDown
    /\ c.is = "text" => c.out = Spelled(c.text)
    /\ c.is = "move" => at = c.to \/ (missed /\ plat = "darwin")
    /\ c.is = "button" => (c.button \in down) = c.isDown \/ (missed /\ plat = "darwin")

\* The flags an event carries are those of the modifiers that are down, whatever lines and
\* runs came before, except for a modifier whose own last event could not be created.
FlagsTellTheModifiers ==
  plat = "darwin" =>
    \A m \in Modifiers : m \in stale \/ (m \in heldFlags <=> m \in down)

\* While every mouse event could be created: a drag event names a button that is down and
\* a plain move means that none is, unless a second button came and went meanwhile; and a
\* button's up carries the count of its down, which is one more than the click before it
\* within doubleClickWindow.
PointerEventsTellTheButtons ==
  [][ plat = "darwin" /\ ~missed' =>
       /\ Dragging' \in down' \/ (Dragging' = NoButton /\ (down' \cap Buttons = {} \/ several'))
       /\ \A b \in Buttons :
            /\ b \in down' \ down => counts'[b] = IF recent[b] THEN counts[b] + 1 ELSE 1
            /\ b \in down \ down' => counts'[b] = counts[b] ]_vars
=============================================================================
