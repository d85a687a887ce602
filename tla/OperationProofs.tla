-------------------------- MODULE OperationProofs ---------------------------
(***************************************************************************)
(* Proofs about one operation under the engine: Input, a call of the backend,*)
(* and Schedule, a line that waits.  Of Input, that what macOS's backend keeps*)
(* between calls agrees with what is down, and what a call that returns nil*)
(* has done, for every set of keys, buttons and texts and after any number of*)
(* events that could not be created.  Of Schedule, that waits are neither too*)
(* short nor too long, and that the frames of a burst are taken in time, for*)
(* any interval, wait, number of frames, lateness of sleeps and duration of*)
(* calls.                                                                  *)
(***************************************************************************)
EXTENDS Input, Schedule, FiniteSetTheorems, SequenceTheorems, WellFoundedInduction, TLAPS

\* The shape of the calls that take several steps.
CallOK ==
  /\ plat \in {"darwin", "windows"}
  /\ call.is \in {"text", "move"} => call = [f \in DOMAIN call |-> call[f]]
  /\ call.is = "text" => /\ DOMAIN call = {"is", "text", "n", "out"}
                         /\ call.text \in Texts /\ call.n \in Nat
  /\ call.is = "move" => DOMAIN call = {"is", "to", "from", "steps", "n"}

-----------------------------------------------------------------------------
(* Names.                                                                  *)

\* What a key is for CGEventSetFlags is what it is among the keycodes.
LEMMA FlagIsKeycode ==
  ASSUME NEW k \in Keys, plat = "darwin", Keycode(k) # "none"
  PROVE  ModifierFlagBit(k) = {Keycode(k)} \cap Modifiers
BY DEF Keycode, DarwinKeycode, ModifierFlagBit, Modifiers

\* A rune's units are neither modifiers nor buttons.
LEMMA UnitsAreNoInputs ==
  ASSUME NEW r \in STRING \ (Modifiers \cup Buttons)
  PROVE  \A n \in DOMAIN Units(r) : Units(r)[n] \notin Modifiers \cup Buttons
<1>1. CASE r = "pair" /\ plat = "windows"
  <2>1. Units(r) = <<"high", "low">>
    BY <1>1 DEF Units
  <2>. QED
    BY <2>1, NamesAssumption DEF Modifiers
<1>2. CASE ~(r = "pair" /\ plat = "windows")
  <2>1. Units(r) = <<r>>
    BY <1>2 DEF Units
  <2>2. DOMAIN Units(r) = {1} /\ Units(r)[1] = r
    BY <2>1
  <2>. QED
    BY <2>2
<1>. QED
  BY <1>1, <1>2

\* The rune that is typed next is one of the text's.
LEMMA NextRune ==
  ASSUME CallOK, call.is = "text", call.n < Len(call.text)
  PROVE  call.text[call.n + 1] \in STRING \ (Modifiers \cup Buttons)
<1>1. call.text \in Seq(STRING \ (Modifiers \cup Buttons)) /\ call.n \in Nat
  BY NamesAssumption DEF CallOK
<1>. QED
  BY <1>1

-----------------------------------------------------------------------------
(* FlagsTellTheModifiers.                                                  *)

\* A text or move in progress keeps its shape.
LEMMA CallStep ==
  ASSUME CallOK, [Next]_vars
  PROVE  CallOK'
<1>. USE DEF CallOK, Idle, Returns, Begins
<1>1. ASSUME NEW s \in Texts, TypeText(s)
      PROVE  CallOK'
  BY <1>1 DEF TypeText
<1>2. CASE TypeRune
  <2>1. plat' = plat
    BY <1>2 DEF TypeRune
  <2>2. CASE call' = Idle
    BY <2>1, <2>2
  <2>3. ASSUME NEW out, call' = [call EXCEPT !.n = @ + 1, !.out = out]
        PROVE  CallOK'
    <3>1. /\ call = [f \in DOMAIN call |-> call[f]]
          /\ DOMAIN call = {"is", "text", "n", "out"}
          /\ call.is = "text" /\ call.text \in Texts /\ call.n \in Nat
      BY <1>2 DEF TypeRune
    <3>2. /\ call' = [f \in DOMAIN call' |-> call'[f]]
          /\ DOMAIN call' = {"is", "text", "n", "out"}
      BY <2>3, <3>1
    <3>3. call'.is = "text" /\ call'.text = call.text /\ call'.n = call.n + 1
      BY <2>3, <3>1
    <3>. QED
      BY <2>1, <3>1, <3>2, <3>3
  <2>. QED
    BY <1>2, <2>2, <2>3 DEF TypeRune
<1>3. CASE TextEnds
  BY <1>3 DEF TextEnds
<1>4. ASSUME NEW p \in Places, NEW n \in Steps, MouseMove(p, n)
      PROVE  CallOK'
  BY <1>4 DEF MouseMove
<1>5. CASE MoveStep
  BY <1>5 DEF MoveStep
<1>6. CASE MoveEnds
  BY <1>6 DEF MoveEnds
<1>7. ASSUME NEW k \in Keys, KeyDown(k) \/ KeyUp(k)
      PROVE  CallOK'
  BY <1>7 DEF KeyDown, KeyUp, Key
<1>8. ASSUME NEW b \in Buttons, ButtonDown(b) \/ ButtonUp(b) \/ WindowPasses(b)
      PROVE  CallOK'
  BY <1>8 DEF ButtonDown, ButtonUp, WindowPasses
<1>9. CASE SecureInputChanges \/ NextLine \/ Scroll \/ UNCHANGED vars
  BY <1>9 DEF SecureInputChanges, NextLine, Scroll, vars
<1>. QED
  BY <1>1, <1>2, <1>3, <1>4, <1>5, <1>6, <1>7, <1>8, <1>9 DEF Next

\* A posted key event changes flag and keycode together, one that is not created leaves the
\* modifier stale.
LEMMA KeyKeepsFlags ==
  ASSUME NEW k \in Keys, NEW isDown \in BOOLEAN, NEW ok \in BOOLEAN,
         FlagsTellTheModifiers, Keycode(k) # "none", KeyEvent(k, isDown, ok), plat' = plat
  PROVE  FlagsTellTheModifiers'
<1>. SUFFICES ASSUME plat = "darwin", NEW m \in Modifiers
              PROVE  m \in stale' \/ (m \in heldFlags' <=> m \in down')
  BY DEF FlagsTellTheModifiers
<1>1. ModifierFlagBit(k) = {Keycode(k)} \cap Modifiers
  BY FlagIsKeycode
<1>2. m \in stale \/ (m \in heldFlags <=> m \in down)
  BY DEF FlagsTellTheModifiers
<1>3. CASE m = Keycode(k)
  BY <1>1, <1>2, <1>3 DEF KeyEvent
<1>4. CASE m # Keycode(k)
  BY <1>1, <1>2, <1>4 DEF KeyEvent
<1>. QED
  BY <1>3, <1>4

\* Keys change flags and keycodes together, and nothing else changes either.
LEMMA FlagsStep ==
  ASSUME CallOK, FlagsTellTheModifiers, [Next]_vars
  PROVE  FlagsTellTheModifiers'
<1>1. ASSUME NEW k \in Keys, NEW isDown \in BOOLEAN, Key(k, isDown)
      PROVE  FlagsTellTheModifiers'
  <2>1. CASE KeyRefused(k, isDown)
    BY <1>1, <2>1 DEF Key, FlagsTellTheModifiers, fields
  <2>2. CASE ~KeyRefused(k, isDown)
    BY <1>1, <2>2, KeyKeepsFlags DEF Key, KeyRefused
  <2>. QED
    BY <2>1, <2>2
<1>2. CASE TypeRune
  <2>. DEFINE r == call.text[call.n + 1]
  <2>1. \A n \in DOMAIN Units(r) : Units(r)[n] \notin Modifiers
    BY <1>2, NextRune, UnitsAreNoInputs DEF TypeRune
  <2>2. \A m \in Modifiers : m \in down' <=> m \in down
    BY <1>2, <2>1 DEF TypeRune, ToSet
  <2>. QED
    BY <1>2, <2>2 DEF TypeRune, FlagsTellTheModifiers, fields, notes
<1>3. ASSUME NEW b \in Buttons, ButtonDown(b) \/ ButtonUp(b)
      PROVE  FlagsTellTheModifiers'
  <2>1. \A m \in Modifiers : m \in down' <=> m \in down
    BY <1>3, NamesAssumption DEF ButtonDown, ButtonUp
  <2>. QED
    BY <1>3, <2>1 DEF ButtonDown, ButtonUp, FlagsTellTheModifiers
<1>4. ASSUME \/ SecureInputChanges \/ NextLine \/ TextEnds \/ MoveStep \/ MoveEnds \/ Scroll
             \/ \E b \in Buttons : WindowPasses(b)
             \/ \E s \in Texts : TypeText(s)
             \/ \E p \in Places, n \in Steps : MouseMove(p, n)
             \/ UNCHANGED vars
      PROVE  FlagsTellTheModifiers'
  <2>1. UNCHANGED <<plat, heldFlags, down, stale>>
    BY <1>4 DEF SecureInputChanges, NextLine, TextEnds, MoveStep, MoveEnds, Scroll, WindowPasses, TypeText,
                MouseMove, vars, fields, host, notes
  <2>. QED
    BY <2>1 DEF FlagsTellTheModifiers
<1>. QED
  BY <1>1, <1>2, <1>3, <1>4 DEF Next, KeyDown, KeyUp

\* The flags macOS's backend puts on its events are the modifiers that are down, after any
\* calls in any order, for as long as the process lives (keyboard.go:67).
THEOREM FlagsAlwaysTellTheModifiers == Spec => []FlagsTellTheModifiers
<1>1. Init => CallOK /\ FlagsTellTheModifiers
  BY DEF Init, CallOK, Idle, FlagsTellTheModifiers
<1>2. CallOK /\ FlagsTellTheModifiers /\ [Next]_vars => (CallOK /\ FlagsTellTheModifiers)'
  BY CallStep, FlagsStep
<1>. QED
  BY <1>1, <1>2, PTL DEF Spec

-----------------------------------------------------------------------------
(* PointerEventsTellTheButtons.                                            *)

\* While every mouse event was created, the engine's held buttons are those that are down,
\* macOS's field names one of them, and its counts are those of the events.
PointerOK ==
  /\ clickState \in [Buttons -> Nat] /\ counts \in [Buttons -> Nat]
  /\ held \subseteq Buttons
  /\ ~several => \A b, c \in held : b = c
  /\ plat = "darwin" /\ ~missed =>
       /\ down \cap Buttons = held
       /\ heldButton \in held \/ (heldButton = NoButton /\ (held = {} \/ several))
       /\ clickState = counts
       /\ \A b \in held : counts[b] > 0

\* What PointerEventsTellTheButtons says of a step.
PointerEvent ==
  plat = "darwin" /\ ~missed' =>
    /\ Dragging' \in down' \/ (Dragging' = NoButton /\ (down' \cap Buttons = {} \/ several'))
    /\ \A b \in Buttons :
         /\ b \in down' \ down => counts'[b] = IF recent[b] THEN counts[b] + 1 ELSE 1
         /\ b \in down \ down' => counts'[b] = counts[b]

\* A set of at most one button has no two.
LEMMA AtMostOne ==
  ASSUME NEW S \in SUBSET Buttons, ~(Cardinality(S) > 1), NEW b \in S, NEW c \in S
  PROVE  b = c
<1>1. IsFiniteSet(S)
  BY NamesAssumption, FS_Subset
<1>2. Cardinality(S) = 0 \/ Cardinality(S) = 1
  BY <1>1, FS_CardinalityType
<1>3. CASE Cardinality(S) = 0
  BY <1>1, <1>3, FS_EmptySet
<1>4. CASE Cardinality(S) = 1
  BY <1>1, <1>4, FS_Singleton
<1>. QED
  BY <1>2, <1>3, <1>4

\* A step that moves no button and no count.
LEMMA NoButtonMoves ==
  ASSUME PointerOK, UNCHANGED <<plat, heldButton, clickState, counts, held, several>>,
         missed => missed', down' \cap Buttons = down \cap Buttons
  PROVE  PointerOK' /\ PointerEvent
<1>1. PointerOK'
  BY DEF PointerOK
<1>2. ASSUME plat = "darwin", ~missed'
      PROVE  \/ Dragging' \in down'
             \/ Dragging' = NoButton /\ (down' \cap Buttons = {} \/ several')
  BY <1>1, <1>2 DEF PointerOK, Dragging
<1>. QED
  BY <1>1, <1>2 DEF PointerEvent

\* A press makes the button the one that drags, with the next count.
LEMMA ButtonDownStep ==
  ASSUME PointerOK, NEW b \in Buttons, ButtonDown(b)
  PROVE  PointerOK' /\ PointerEvent
<1>. DEFINE count == NextClickState(b)
<1>1. count \in Nat \ {0} /\ (plat = "darwin" /\ ~missed => count = IF recent[b] THEN counts[b] + 1 ELSE 1)
  BY DEF NextClickState, PointerOK
<1>2. PICK ok \in BOOLEAN :
        /\ missed' = (missed \/ ~ok)
        /\ clickState' = IF plat = "darwin" THEN [clickState EXCEPT ![b] = count] ELSE clickState
        /\ heldButton' = IF plat = "darwin" /\ ok THEN b ELSE heldButton
        /\ down' = IF ok THEN down \cup {b} ELSE down
        /\ counts' = IF ok THEN [counts EXCEPT ![b] = count] ELSE counts
        /\ held' = IF MouseFails(ok) THEN held ELSE held \cup {b}
  BY DEF ButtonDown
<1>3. plat' = plat /\ several' = (several \/ Cardinality(held') > 1)
  BY DEF ButtonDown
<1>4. /\ clickState' \in [Buttons -> Nat] /\ counts' \in [Buttons -> Nat]
      /\ held' \subseteq Buttons
  BY <1>1, <1>2 DEF PointerOK
<1>5. ~several' => \A x, y \in held' : x = y
  BY <1>3, <1>4, AtMostOne
<1>6. ASSUME plat = "darwin", ~missed'
      PROVE  /\ ~missed /\ held' = held \cup {b} /\ down' = down \cup {b} /\ heldButton' = b
             /\ clickState' = [clickState EXCEPT ![b] = count] /\ counts' = [counts EXCEPT ![b] = count]
  BY <1>2, <1>6 DEF MouseFails
<1>7. PointerOK'
  BY <1>1, <1>3, <1>4, <1>5, <1>6 DEF PointerOK
<1>8. PointerEvent
  BY <1>1, <1>4, <1>6 DEF PointerEvent, PointerOK, Dragging
<1>. QED
  BY <1>7, <1>8

\* A release leaves no button that drags: either none is down or several have been.
LEMMA ButtonUpStep ==
  ASSUME PointerOK, NEW b \in Buttons, ButtonUp(b)
  PROVE  PointerOK' /\ PointerEvent
<1>. DEFINE count == IF clickState[b] = 0 THEN 1 ELSE clickState[b]
<1>1. b \in held /\ count \in Nat \ {0} /\ (plat = "darwin" /\ ~missed => count = counts[b])
  BY DEF ButtonUp, PointerOK
<1>2. PICK ok \in BOOLEAN :
        /\ missed' = (missed \/ ~ok)
        /\ heldButton' = IF plat = "darwin" /\ ok THEN Cleared ELSE heldButton
        /\ down' = IF ok THEN down \ {b} ELSE down
        /\ counts' = IF ok THEN [counts EXCEPT ![b] = count] ELSE counts
        /\ held' = IF MouseFails(ok) THEN held ELSE held \ {b}
  BY DEF ButtonUp
<1>3. plat' = plat /\ several' = (several /\ held' # {}) /\ clickState' = clickState
  BY DEF ButtonUp
<1>4. counts' \in [Buttons -> Nat] /\ held' \subseteq Buttons
  BY <1>1, <1>2 DEF PointerOK
<1>5. ~several' => \A x, y \in held' : x = y
  BY <1>2, <1>3 DEF PointerOK
<1>6. ASSUME plat = "darwin", ~missed'
      PROVE  /\ ~missed /\ held' = held \ {b} /\ down' = down \ {b} /\ heldButton' = NoButton
             /\ counts' = counts
  BY <1>1, <1>2, <1>6 DEF MouseFails, Cleared, PointerOK
<1>7. ASSUME plat = "darwin", ~missed'
      PROVE  held' = {} \/ several'
  BY <1>1, <1>3, <1>6, <1>7 DEF PointerOK
<1>8. PointerOK'
  BY <1>3, <1>4, <1>5, <1>6, <1>7 DEF PointerOK
<1>9. PointerEvent
  BY <1>6, <1>7 DEF PointerEvent, PointerOK, Dragging
<1>. QED
  BY <1>8, <1>9

\* Only presses and releases move buttons.
LEMMA PointerStep ==
  ASSUME CallOK, PointerOK, [Next]_vars
  PROVE  PointerOK' /\ PointerEvent
<1>1. ASSUME NEW k \in Keys, NEW isDown \in BOOLEAN, Key(k, isDown)
      PROVE  PointerOK' /\ PointerEvent
  <2>1. Keycode(k) \notin Buttons
    BY NamesAssumption DEF Keycode, DarwinKeycode, WindowsKeycode, Modifiers
  <2>2. UNCHANGED <<plat, heldButton, clickState, counts, held, several, missed>>
    BY <1>1 DEF Key, KeyEvent, fields
  <2>3. down' \cap Buttons = down \cap Buttons
    BY <1>1, <2>1 DEF Key, KeyEvent, fields
  <2>. QED
    BY <2>2, <2>3, NoButtonMoves
<1>2. CASE TypeRune
  <2>. DEFINE r == call.text[call.n + 1]
  <2>1. \A n \in DOMAIN Units(r) : Units(r)[n] \notin Buttons
    BY <1>2, NextRune, UnitsAreNoInputs DEF TypeRune
  <2>2. down' \cap Buttons = down \cap Buttons
    BY <1>2, <2>1 DEF TypeRune, ToSet
  <2>. QED
    BY <1>2, <2>2, NoButtonMoves DEF TypeRune, fields, notes
<1>3. ASSUME NEW b \in Buttons, ButtonDown(b) \/ ButtonUp(b)
      PROVE  PointerOK' /\ PointerEvent
  BY <1>3, ButtonDownStep, ButtonUpStep
<1>4. ASSUME \/ SecureInputChanges \/ NextLine \/ TextEnds \/ MoveStep \/ MoveEnds \/ Scroll
             \/ \E b \in Buttons : WindowPasses(b)
             \/ \E s \in Texts : TypeText(s)
             \/ \E p \in Places, n \in Steps : MouseMove(p, n)
             \/ UNCHANGED vars
      PROVE  PointerOK' /\ PointerEvent
  <2>1. UNCHANGED <<plat, heldButton, clickState, counts, held, several, down>>
    BY <1>4 DEF SecureInputChanges, NextLine, TextEnds, MoveStep, MoveEnds, Scroll, WindowPasses, TypeText,
                MouseMove, vars, fields, host, notes
  <2>2. missed => missed'
    <3>1. CASE MoveStep \/ Scroll
      BY <3>1 DEF MoveStep, Scroll
    <3>2. CASE ~(MoveStep \/ Scroll)
      BY <1>4, <3>2 DEF SecureInputChanges, NextLine, TextEnds, MoveEnds, WindowPasses, TypeText, MouseMove,
                        vars, notes
    <3>. QED
      BY <3>1, <3>2
  <2>. QED
    BY <2>1, <2>2, NoButtonMoves
<1>. QED
  BY <1>1, <1>2, <1>3, <1>4 DEF Next, KeyDown, KeyUp

\* Over lines and runs: a drag on macOS names a button that is down, and an up carries the
\* count of its down (mouse.go:167).
THEOREM PointerEventsAlwaysTellTheButtons == Spec => PointerEventsTellTheButtons
<1>1. Init => CallOK /\ PointerOK
  BY NamesAssumption DEF Init, CallOK, Idle, PointerOK
<1>2. CallOK /\ PointerOK /\ [Next]_vars => (CallOK /\ PointerOK)'
  BY CallStep, PointerStep
<1>3. CallOK /\ PointerOK /\ [Next]_vars => [PointerEvent]_vars
  BY PointerStep
<1>4. [PointerEvent]_vars <=> [plat = "darwin" /\ ~missed' =>
       /\ Dragging' \in down' \/ (Dragging' = NoButton /\ (down' \cap Buttons = {} \/ several'))
       /\ \A b \in Buttons :
            /\ b \in down' \ down => counts'[b] = IF recent[b] THEN counts[b] + 1 ELSE 1
            /\ b \in down \ down' => counts'[b] = counts[b]]_vars
  BY DEF PointerEvent
<1>. QED
  BY <1>1, <1>2, <1>3, <1>4, PTL DEF Spec, PointerEventsTellTheButtons


-----------------------------------------------------------------------------
(* What FlattenSeq computes.  The induction theorems of the library take a  *)
(* predicate; WFMin takes a set, and a set of numbers is all it takes here. *)

LEMMA Induction ==
  ASSUME NEW S \in SUBSET Nat, 0 \in S, \A n \in S : n + 1 \in S
  PROVE  S = Nat
<1>. DEFINE Less == {p \in Nat \X Nat : p[1] < p[2]}
<1>1. IsWellFoundedOn(Less, Nat)
  <2>1. IsWellFoundedOn(OpToRel(<, Nat), Nat)
    BY NatLessThanWellFounded
  <2>2. OpToRel(<, Nat) = Less
    BY DEF OpToRel
  <2>. QED
    BY <2>1, <2>2
<1>. SUFFICES ASSUME Nat \ S # {} PROVE FALSE
  OBVIOUS
<1>2. PICK x \in Nat \ S : \A y \in Nat \ S : ~(<<y, x>> \in Less)
  BY <1>1, WFMin
<1>3. x # 0 /\ x - 1 \in Nat /\ <<x - 1, x>> \in Less
  OBVIOUS
<1>4. x - 1 \in S
  BY <1>2, <1>3
<1>. QED
  BY <1>2, <1>3, <1>4

\* f holds the first k partial concatenations of seqs.
Flattens(f, seqs, k) ==
  /\ DOMAIN f = 1..k
  /\ f = [i \in 1..k |-> IF i = 1 THEN seqs[i] ELSE f[i - 1] \o seqs[i]]

LEMMA FlattensExists ==
  ASSUME NEW seqs, NEW n \in Nat
  PROVE  \E f : Flattens(f, seqs, n)
<1>. DEFINE S == {k \in Nat : \E f : Flattens(f, seqs, k)}
<1>1. 0 \in S
  <2>1. Flattens([i \in 1..0 |-> 0], seqs, 0)
    BY DEF Flattens
  <2>. QED
    BY <2>1
<1>2. ASSUME NEW k \in S PROVE k + 1 \in S
  <2>1. PICK f : Flattens(f, seqs, k)
    OBVIOUS
  <2>. DEFINE g == [i \in 1..k + 1 |-> IF i = k + 1
                                       THEN IF i = 1 THEN seqs[i] ELSE f[i - 1] \o seqs[i]
                                       ELSE f[i]]
  <2>2. k \in Nat
    OBVIOUS
  <2>3. \A i \in 1..k : g[i] = f[i]
    BY <2>2
  <2>4. ASSUME NEW i \in 1..k + 1
        PROVE  g[i] = IF i = 1 THEN seqs[i] ELSE g[i - 1] \o seqs[i]
    <3>1. CASE i = k + 1
      <4>1. i # 1 => i - 1 \in 1..k
        BY <2>2
      <4>2. i # 1 => g[i - 1] = f[i - 1]
        BY <2>3, <4>1
      <4>. QED
        BY <3>1, <4>2
    <3>2. CASE i # k + 1
      <4>1. i \in 1..k /\ (i # 1 => i - 1 \in 1..k)
        BY <2>2, <3>2
      <4>2. f[i] = IF i = 1 THEN seqs[i] ELSE f[i - 1] \o seqs[i]
        BY <2>1, <4>1 DEF Flattens
      <4>3. g[i] = f[i] /\ (i # 1 => g[i - 1] = f[i - 1])
        BY <2>3, <4>1
      <4>. QED
        BY <4>2, <4>3
    <3>. QED
      BY <3>1, <3>2
  <2>5. DOMAIN g = 1..k + 1
    OBVIOUS
  <2>6. g = [i \in 1..k + 1 |-> g[i]]
    OBVIOUS
  <2>. HIDE DEF g
  <2>7. g = [i \in 1..k + 1 |-> IF i = 1 THEN seqs[i] ELSE g[i - 1] \o seqs[i]]
    BY <2>4, <2>6
  <2>8. Flattens(g, seqs, k + 1)
    BY <2>5, <2>7 DEF Flattens
  <2>. QED
    BY <2>2, <2>8
<1>. HIDE DEF S
<1>3. S = Nat
  <2>1. S \in SUBSET Nat
    BY DEF S
  <2>. QED
    BY <1>1, <1>2, <2>1, Induction
<1>. QED
  BY <1>3 DEF S

SameUpTo(s, t, n) == \A i \in 1..n : s[i] = t[i]

\* Two of them agree where both are defined, also if the sequences only share a beginning.
LEMMA FlattensAgree ==
  ASSUME NEW s, NEW t, NEW f, NEW g, NEW m \in Nat, NEW n \in Nat,
         Flattens(f, s, m), Flattens(g, t, n),
         NEW l \in Nat, l <= m, l <= n, SameUpTo(s, t, l)
  PROVE  SameUpTo(f, g, l)
<1>. DEFINE S == {k \in Nat : k \in 1..l => f[k] = g[k]}
<1>1. 0 \in S
  OBVIOUS
<1>2. ASSUME NEW k \in S PROVE k + 1 \in S
  <2>1. k \in Nat
    OBVIOUS
  <2>. SUFFICES ASSUME k + 1 \in 1..l PROVE f[k + 1] = g[k + 1]
    BY <2>1
  <2>2. k + 1 \in 1..m /\ k + 1 \in 1..n /\ s[k + 1] = t[k + 1]
    BY <2>1 DEF SameUpTo
  <2>. DEFINE i == k + 1
  <2>. HIDE DEF i
  <2>a. i \in 1..m /\ i \in 1..n
    BY <2>2 DEF i
  <2>b. f[i] = IF i = 1 THEN s[i] ELSE f[i - 1] \o s[i]
    BY <2>a DEF Flattens
  <2>c. g[i] = IF i = 1 THEN t[i] ELSE g[i - 1] \o t[i]
    BY <2>a DEF Flattens
  <2>3. /\ f[k + 1] = IF k + 1 = 1 THEN s[k + 1] ELSE f[k + 1 - 1] \o s[k + 1]
        /\ g[k + 1] = IF k + 1 = 1 THEN t[k + 1] ELSE g[k + 1 - 1] \o t[k + 1]
    BY <2>b, <2>c DEF i
  <2>4. CASE k = 0
    BY <2>2, <2>3, <2>4
  <2>5. CASE k # 0
    <3>1. k \in 1..l /\ k + 1 - 1 = k /\ k + 1 # 1
      BY <2>1, <2>5
    <3>2. f[k] = g[k]
      BY <3>1
    <3>. QED
      BY <2>2, <2>3, <3>1, <3>2
  <2>. QED
    BY <2>4, <2>5
<1>. HIDE DEF S
<1>3. S = Nat
  <2>1. S \in SUBSET Nat
    BY DEF S
  <2>. QED
    BY <1>1, <1>2, <2>1, Induction
<1>. QED
  BY <1>3 DEF S, SameUpTo

\* FlattenSeq takes the last of them.
LEMMA FlattenSeqIs ==
  ASSUME NEW seqs, Len(seqs) \in Nat \ {0}, NEW f, Flattens(f, seqs, Len(seqs))
  PROVE  FlattenSeq(seqs) = f[Len(seqs)]
<1>. DEFINE n == Len(seqs)
            c == CHOOSE h : h = [i \in 1..n |-> IF i = 1 THEN seqs[i] ELSE h[i - 1] \o seqs[i]]
<1>1. FlattenSeq(seqs) = c[n]
  BY DEF FlattenSeq
<1>2. f = [i \in 1..n |-> IF i = 1 THEN seqs[i] ELSE f[i - 1] \o seqs[i]]
  BY DEF Flattens
<1>3. c = [i \in 1..n |-> IF i = 1 THEN seqs[i] ELSE c[i - 1] \o seqs[i]]
  BY <1>2
<1>. HIDE DEF c
<1>4. DOMAIN c = 1..n
  BY <1>3
<1>5. Flattens(c, seqs, n)
  BY <1>3, <1>4 DEF Flattens
<1>6. \A i \in 1..n : c[i] = f[i]
  <2>1. n \in Nat /\ n <= n /\ Flattens(f, seqs, n) /\ SameUpTo(seqs, seqs, n)
    BY DEF SameUpTo
  <2>. HIDE DEF n
  <2>2. SameUpTo(c, f, n)
    BY <1>5, <2>1, FlattensAgree
  <2>. QED
    BY <2>2 DEF SameUpTo
<1>. QED
  BY <1>1, <1>6

\* One sequence more is one concatenation more.
LEMMA FlattenAppend ==
  ASSUME NEW S, NEW seqs \in Seq(Seq(S)), NEW x \in Seq(S)
  PROVE  FlattenSeq(Append(seqs, x)) = FlattenSeq(seqs) \o x
<1>. DEFINE n == Len(seqs)
            more == Append(seqs, x)
<1>1. n \in Nat /\ Len(more) = n + 1 /\ more[n + 1] = x /\ \A i \in 1..n : more[i] = seqs[i]
  OBVIOUS
<1>. HIDE DEF n, more
<1>2. PICK f : Flattens(f, more, n + 1)
  <2>1. n + 1 \in Nat
    BY <1>1
  <2>. QED
    BY <2>1, FlattensExists, Zenon
<1>3. FlattenSeq(more) = f[n + 1]
  <2>1. Len(more) \in Nat \ {0} /\ Flattens(f, more, Len(more))
    BY <1>1, <1>2
  <2>2. FlattenSeq(more) = f[Len(more)]
    BY <2>1, FlattenSeqIs, Zenon
  <2>. QED
    BY <1>1, <2>2
<1>4. f[n + 1] = IF n = 0 THEN x ELSE f[n] \o x
  <2>1. PICK i \in Nat : i = n + 1 /\ i \in 1..i /\ i - 1 = n /\ (i = 1 <=> n = 0)
    BY <1>1
  <2>2. Flattens(f, more, i)
    BY <1>2, <2>1
  <2>3. f[i] = IF i = 1 THEN more[i] ELSE f[i - 1] \o more[i]
    BY <2>1, <2>2 DEF Flattens
  <2>4. more[i] = x
    BY <1>1, <2>1
  <2>5. f[i] = IF n = 0 THEN x ELSE f[n] \o x
    BY <2>1, <2>3, <2>4
  <2>. QED
    BY <2>1, <2>5
<1>5. CASE n = 0
  <2>1. FlattenSeq(more) = x
    BY <1>1, <1>3, <1>4, <1>5
  <2>2. FlattenSeq(seqs) = seqs /\ seqs = <<>>
    BY <1>5 DEF FlattenSeq, n
  <2>3. <<>> \o x = x
    OBVIOUS
  <2>. QED
    BY <2>1, <2>2, <2>3 DEF more
<1>6. CASE n # 0
  <2>1. PICK g : Flattens(g, seqs, n)
    BY <1>1, FlattensExists
  <2>2. FlattenSeq(seqs) = g[n]
    <3>1. Len(seqs) \in Nat \ {0} /\ Flattens(g, seqs, Len(seqs))
      BY <1>1, <1>6, <2>1 DEF n
    <3>. QED
      BY <3>1, FlattenSeqIs, Zenon DEF n
  <2>3. \A i \in 1..n : f[i] = g[i]
    <3>1. n \in Nat /\ n + 1 \in Nat /\ n <= n + 1 /\ n <= n
      BY <1>1
    <3>2. SameUpTo(more, seqs, n)
      BY <1>1 DEF SameUpTo
    <3>3. SameUpTo(f, g, n)
      BY <1>2, <2>1, <3>1, <3>2, FlattensAgree
    <3>. QED
      BY <3>3 DEF SameUpTo
  <2>4. f[n] = g[n]
    BY <1>1, <1>6, <2>3
  <2>5. FlattenSeq(more) = FlattenSeq(seqs) \o x
    BY <1>3, <1>4, <1>6, <2>2, <2>4
  <2>. QED
    BY <2>5 DEF more
<1>. QED
  BY <1>5, <1>6

-----------------------------------------------------------------------------
(* NilMeansDone.                                                           *)

\* Units, Spelled, Keycode and NilMeansDone with the variables they read as parameters.
UnitsOn(p, r) == IF r = "pair" /\ p = "windows" THEN <<"high", "low">> ELSE <<r>>
SpelledOn(p, s) == FlattenSeq([i \in DOMAIN s |-> UnitsOn(p, s[i])])
KeycodeOn(p, k) == IF p = "darwin" THEN DarwinKeycode(k) ELSE WindowsKeycode(k)

CallDone(c, p, inputs, place, mute) ==
  /\ c.is = "key" => (KeycodeOn(p, c.key) \in inputs) = c.isDown
  /\ c.is = "text" => c.out = SpelledOn(p, c.text)
  /\ c.is = "move" => place = c.to \/ (mute /\ p = "darwin")
  /\ c.is = "button" => (c.button \in inputs) = c.isDown \/ (mute /\ p = "darwin")

LEMMA NilMeansDoneIs ==
  /\ NilMeansDone <=>
       (last # Idle /\ ~last.err /\ call = Idle => CallDone(last.call, plat, down, at, missed))
  /\ NilMeansDone' <=>
       (last' # Idle /\ ~last'.err /\ call' = Idle
          => CallDone(last'.call, plat', down', at', missed'))
BY DEF NilMeansDone, CallDone, Keycode, KeycodeOn, Spelled, SpelledOn, Units, UnitsOn, Idle

\* Where a text or a move in progress stands.
ProgressOK ==
  /\ at \in Int /\ missed \in BOOLEAN
  /\ call.is = "text" => /\ call.n <= Len(call.text)
                         /\ call.out = SpelledOn(plat, SubSeq(call.text, 1, call.n))
  /\ call.is = "move" =>
       /\ call.to \in Int /\ call.from \in Int /\ call.steps \in Nat \ {0}
       /\ call.n \in 0..call.steps
       /\ at = call.from + ((call.to - call.from) * call.n) \div call.steps
          \/ (missed /\ plat = "darwin")

Runes == STRING \cup {"high", "low"}

\* The texts have runes.
LEMMA TextsAreRunes ==
  ASSUME NEW t \in Texts
  PROVE  t \in Seq(STRING)
BY NamesAssumption

\* The text grows by the units of the rune that is typed.
LEMMA SpelledNext ==
  ASSUME NEW p \in {"darwin", "windows"}, NEW t \in Seq(STRING), NEW n \in Nat, n < Len(t)
  PROVE  SpelledOn(p, SubSeq(t, 1, n + 1)) = SpelledOn(p, SubSeq(t, 1, n)) \o UnitsOn(p, t[n + 1])
<1>. DEFINE s == SubSeq(t, 1, n)
            u == SubSeq(t, 1, n + 1)
            each == [i \in DOMAIN s |-> UnitsOn(p, s[i])]
            more == [i \in DOMAIN u |-> UnitsOn(p, u[i])]
            x == UnitsOn(p, t[n + 1])
<1>1. /\ s \in Seq(STRING) /\ Len(s) = n /\ \A i \in 1..n : s[i] = t[i]
      /\ u \in Seq(STRING) /\ Len(u) = n + 1 /\ \A i \in 1..n + 1 : u[i] = t[i]
  OBVIOUS
<1>2. ASSUME NEW r \in STRING PROVE UnitsOn(p, r) \in Seq(Runes)
  <2>1. r \in Runes /\ "high" \in Runes /\ "low" \in Runes
    BY DEF Runes
  <2>2. \A a, b \in Runes : <<a>> \in Seq(Runes) /\ <<a, b>> \in Seq(Runes)
    OBVIOUS
  <2>. QED
    BY <2>1, <2>2 DEF UnitsOn
<1>3. x \in Seq(Runes)
  <2>1. t[n + 1] \in STRING
    OBVIOUS
  <2>. QED
    BY <1>2, <2>1
<1>. HIDE DEF s, u, x
<1>4. DOMAIN s = 1..n /\ DOMAIN u = 1..n + 1
  BY <1>1
<1>5. each \in Seq(Seq(Runes)) /\ Len(each) = n
  <2>1. ASSUME NEW i \in 1..n PROVE UnitsOn(p, s[i]) \in Seq(Runes)
    BY <1>1, <1>2, ElementOfSeq
  <2>. QED
    BY <1>4, <2>1
<1>6. more = Append(each, x)
  <2>1. DOMAIN Append(each, x) = 1..n + 1 /\ Append(each, x)[n + 1] = x
        /\ \A i \in 1..n : Append(each, x)[i] = each[i]
    BY <1>3, <1>5
  <2>2. ASSUME NEW i \in 1..n PROVE more[i] = each[i]
    <3>1. i \in 1..n + 1
      OBVIOUS
    <3>. QED
      BY <1>1, <1>4, <3>1
  <2>3. more[n + 1] = x
    BY <1>1, <1>4 DEF x
  <2>4. ASSUME NEW i \in 1..n + 1 PROVE more[i] = Append(each, x)[i]
    <3>1. CASE i = n + 1
      BY <2>1, <2>3, <3>1
    <3>2. CASE i # n + 1
      <4>1. i \in 1..n
        BY <3>2
      <4>. QED
        BY <2>1, <2>2, <4>1
    <3>. QED
      BY <3>1, <3>2
  <2>5. DOMAIN more = 1..n + 1
    BY <1>4
  <2>6. Append(each, x) = [i \in 1..n + 1 |-> Append(each, x)[i]]
    BY <1>3, <1>5
  <2>7. more = [i \in 1..n + 1 |-> more[i]]
    BY <2>5
  <2>. HIDE DEF more, each
  <2>. QED
    BY <2>4, <2>6, <2>7
<1>7. FlattenSeq(Append(each, x)) = FlattenSeq(each) \o x
  BY <1>3, <1>5, FlattenAppend
<1>. QED
  BY <1>6, <1>7 DEF SpelledOn, s, u, x

\* A text of which nothing has been typed yet.
LEMMA SpelledNothing ==
  ASSUME NEW p, NEW t \in Seq(STRING)
  PROVE  SpelledOn(p, SubSeq(t, 1, 0)) = <<>>
<1>1. SubSeq(t, 1, 0) = <<>>
  OBVIOUS
<1>2. [i \in DOMAIN <<>> |-> UnitsOn(p, <<>>[i])] = <<>>
  OBVIOUS
<1>3. FlattenSeq(<<>>) = <<>>
  BY DEF FlattenSeq
<1>. QED
  BY <1>1, <1>2, <1>3 DEF SpelledOn

\* All steps of a move are the whole way.
LEMMA WholeWay ==
  ASSUME NEW d \in Int, NEW n \in Nat \ {0}
  PROVE  (d * n) \div n = d
OBVIOUS

LEMMA NoStep ==
  ASSUME NEW d \in Int, NEW n \in Nat \ {0}
  PROVE  (d * 0) \div n = 0
OBVIOUS

\* A text that is begun has spelled nothing, one more rune spells its units.
LEMMA ProgressStep ==
  ASSUME CallOK, ProgressOK, [Next]_vars
  PROVE  ProgressOK'
<1>. USE DEF ProgressOK, Idle, Returns, Begins
<1>1. ASSUME NEW s \in Texts, TypeText(s)
      PROVE  ProgressOK'
  <2>1. UNCHANGED <<plat, at, missed>>
    BY <1>1 DEF TypeText, host, notes
  <2>2. CASE call' = Idle
    BY <2>1, <2>2
  <2>3. CASE call' = [is |-> "text", text |-> s, n |-> 0, out |-> <<>>]
    <3>1. s \in Seq(STRING)
      BY TextsAreRunes
    <3>2. 0 <= Len(s) /\ SpelledOn(plat, SubSeq(s, 1, 0)) = <<>>
      BY <3>1, SpelledNothing
    <3>. QED
      BY <2>1, <2>3, <3>2
  <2>. QED
    BY <1>1, <2>2, <2>3 DEF TypeText
<1>2. CASE TypeRune
  <2>. DEFINE r == call.text[call.n + 1]
  <2>1. /\ UNCHANGED <<plat, at, missed>>
        /\ call.is = "text" /\ call.n < Len(call.text)
    BY <1>2 DEF TypeRune, notes
  <2>2. CASE call' = Idle
    BY <2>1, <2>2
  <2>3. CASE call' = [call EXCEPT !.n = @ + 1, !.out = @ \o Units(r)]
    <3>1. /\ call = [f \in DOMAIN call |-> call[f]]
          /\ DOMAIN call = {"is", "text", "n", "out"}
          /\ call.text \in Texts /\ call.n \in Nat
      BY <2>1 DEF CallOK
    <3>2. /\ call'.is = "text" /\ call'.text = call.text /\ call'.n = call.n + 1
          /\ call'.out = call.out \o UnitsOn(plat, r)
      BY <2>1, <2>3, <3>1 DEF Units, UnitsOn
    <3>3. call.text \in Seq(STRING)
      BY <3>1, TextsAreRunes
    <3>4. SpelledOn(plat, SubSeq(call.text, 1, call.n + 1))
            = SpelledOn(plat, SubSeq(call.text, 1, call.n)) \o UnitsOn(plat, r)
      <4>1. PICK t \in Seq(STRING), n \in Nat : t = call.text /\ n = call.n /\ n < Len(t)
        BY <2>1, <3>1, <3>3
      <4>2. plat \in {"darwin", "windows"}
        BY DEF CallOK
      <4>3. SpelledOn(plat, SubSeq(t, 1, n + 1))
              = SpelledOn(plat, SubSeq(t, 1, n)) \o UnitsOn(plat, t[n + 1])
        BY <4>1, <4>2, SpelledNext
      <4>. QED
        BY <4>1, <4>3
    <3>5. call'.out = SpelledOn(plat', SubSeq(call'.text, 1, call'.n))
      BY <2>1, <3>2, <3>4
    <3>6. call'.n <= Len(call'.text)
      BY <2>1, <3>1, <3>2, <3>3
    <3>. QED
      BY <2>1, <3>2, <3>5, <3>6
  <2>. QED
    BY <1>2, <2>2, <2>3 DEF TypeRune
<1>3. CASE TextEnds \/ MoveEnds \/ Scroll
  <2>1. UNCHANGED <<plat, at>> /\ call' = Idle /\ missed' \in BOOLEAN
    BY <1>3 DEF TextEnds, MoveEnds, Scroll, host, notes
  <2>. QED
    BY <2>1
<1>4. ASSUME NEW p \in Places, NEW n \in Steps, MouseMove(p, n)
      PROVE  ProgressOK'
  <2>1. /\ call' = [is |-> "move", to |-> p, from |-> at, steps |-> n, n |-> 0]
        /\ UNCHANGED <<plat, at, missed>>
    BY <1>4 DEF MouseMove, host, notes
  <2>2. p \in Int /\ n \in Nat \ {0} /\ at \in Int
    BY InputAssumption
  <2>3. at = at + ((p - at) * 0) \div n
    <3>1. p - at \in Int
      BY <2>2
    <3>2. ((p - at) * 0) \div n = 0
      BY <2>2, <3>1, NoStep
    <3>. QED
      BY <2>2, <3>2
  <2>. QED
    BY <2>1, <2>2, <2>3
<1>5. CASE MoveStep
  <2>1. PICK ok \in BOOLEAN :
          /\ at' = IF ok THEN call.from + ((call.to - call.from) * (call.n + 1)) \div call.steps
                         ELSE at
          /\ missed' = (missed \/ ~ok)
          /\ IF MouseFails(ok) THEN call' = Idle ELSE call' = [call EXCEPT !.n = call.n + 1]
    BY <1>5 DEF MoveStep
  <2>2. /\ call.is = "move" /\ call.n # call.steps /\ plat' = plat
        /\ call.to \in Int /\ call.from \in Int /\ call.steps \in Nat \ {0}
        /\ call.n \in 0..call.steps
    BY <1>5 DEF MoveStep, Arrived
  <2>3. at' \in Int /\ missed' \in BOOLEAN
    BY <2>1, <2>2
  <2>4. CASE call' = Idle
    BY <2>3, <2>4
  <2>5. CASE call' = [call EXCEPT !.n = call.n + 1] /\ ~MouseFails(ok)
    <3>1. call = [f \in DOMAIN call |-> call[f]] /\ DOMAIN call = {"is", "to", "from", "steps", "n"}
      BY <2>2 DEF CallOK
    <3>2. /\ call'.is = "move" /\ call'.to = call.to /\ call'.from = call.from
          /\ call'.steps = call.steps /\ call'.n = call.n + 1
      BY <2>2, <2>5, <3>1
    <3>3. call'.n \in 0..call'.steps
      <4>1. PICK k \in Nat, m \in Nat : k = call.n /\ m = call.steps /\ k <= m /\ k # m
        BY <2>2
      <4>2. k + 1 \in 0..m
        BY <4>1
      <4>. QED
        BY <3>2, <4>1, <4>2
    <3>4. \/ at' = call'.from + ((call'.to - call'.from) * call'.n) \div call'.steps
          \/ missed' /\ plat' = "darwin"
      <4>1. CASE ok
        BY <2>1, <3>2, <4>1
      <4>2. CASE ~ok
        BY <2>1, <2>2, <2>5, <4>2 DEF MouseFails, CallOK
      <4>. QED
        BY <4>1, <4>2
    <3>. QED
      BY <2>2, <2>3, <3>2, <3>3, <3>4
  <2>. QED
    BY <2>1, <2>4, <2>5
<1>6. ASSUME NEW k \in Keys, KeyDown(k) \/ KeyUp(k)
      PROVE  ProgressOK'
  <2>1. UNCHANGED <<plat, at, missed>> /\ call' = Idle
    BY <1>6 DEF KeyDown, KeyUp, Key
  <2>. QED
    BY <2>1
<1>7. ASSUME NEW b \in Buttons, ButtonDown(b) \/ ButtonUp(b)
      PROVE  ProgressOK'
  <2>1. UNCHANGED <<plat, at>> /\ call' = Idle /\ missed' \in BOOLEAN
    BY <1>7 DEF ButtonDown, ButtonUp
  <2>. QED
    BY <2>1
<1>8. ASSUME \/ SecureInputChanges \/ NextLine \/ UNCHANGED vars
             \/ \E b \in Buttons : WindowPasses(b)
      PROVE  ProgressOK'
  <2>1. UNCHANGED <<plat, at, missed, call>>
    BY <1>8 DEF SecureInputChanges, NextLine, WindowPasses, vars, host, notes
  <2>. QED
    BY <2>1
<1>. QED
  BY <1>1, <1>2, <1>3, <1>4, <1>5, <1>6, <1>7, <1>8 DEF Next

\* A call that returns leaves `last` with what it did, every other step clears it.
ButtonCall(b, isDown) == IF isDown THEN ButtonDown(b) ELSE ButtonUp(b)

LEMMA NilStep ==
  ASSUME CallOK, ProgressOK, NilMeansDone, [Next]_vars
  PROVE  NilMeansDone'
<1>. USE DEF CallDone
<1>1. CASE last' = Idle
  BY <1>1, NilMeansDoneIs
<1>2. ASSUME NEW k \in Keys, NEW isDown \in BOOLEAN, Key(k, isDown)
      PROVE  NilMeansDone'
  <2>. DEFINE c == [is |-> "key", key |-> k, isDown |-> isDown]
  <2>1. plat' = plat
    BY <1>2 DEF Key
  <2>2. CASE last' = [call |-> c, err |-> TRUE]
    BY <2>2, NilMeansDoneIs
  <2>3. CASE KeyEvent(k, isDown, TRUE) /\ last' = [call |-> c, err |-> FALSE]
    <3>1. down' = IF isDown THEN down \cup {Keycode(k)} ELSE down \ {Keycode(k)}
      BY <2>3 DEF KeyEvent
    <3>2. (KeycodeOn(plat, k) \in down') = isDown
      BY <3>1 DEF Keycode, KeycodeOn
    <3>. QED
      BY <2>1, <2>3, <3>2, NilMeansDoneIs
  <2>4. \/ last' = [call |-> c, err |-> TRUE]
        \/ KeyEvent(k, isDown, TRUE) /\ last' = [call |-> c, err |-> FALSE]
    BY <1>2 DEF Key, Returns, KeyFails
  <2>. QED
    BY <2>2, <2>3, <2>4
<1>3. CASE TextEnds
  <2>1. /\ call.is = "text" /\ call.n = Len(call.text) /\ plat' = plat
        /\ last' = [call |-> call, err |-> FALSE]
    BY <1>3 DEF TextEnds, Returns
  <2>2. call.text \in Seq(STRING)
    BY <2>1, TextsAreRunes DEF CallOK
  <2>3. SubSeq(call.text, 1, Len(call.text)) = call.text
    BY <2>2
  <2>4. call.out = SpelledOn(plat, call.text)
    BY <2>1, <2>3 DEF ProgressOK
  <2>. QED
    BY <2>1, <2>4, NilMeansDoneIs
<1>4. CASE MoveEnds
  <2>1. /\ call.is = "move" /\ call.n = call.steps /\ UNCHANGED <<plat, at, missed>>
        /\ last' = [call |-> call, err |-> FALSE]
    BY <1>4 DEF MoveEnds, Returns, Arrived, host, notes
  <2>2. /\ call.to \in Int /\ call.from \in Int /\ call.steps \in Nat \ {0} /\ at \in Int
        /\ \/ at = call.from + ((call.to - call.from) * call.steps) \div call.steps
           \/ missed /\ plat = "darwin"
    BY <2>1 DEF ProgressOK
  <2>3. ((call.to - call.from) * call.steps) \div call.steps = call.to - call.from
    <3>1. call.to - call.from \in Int
      BY <2>2
    <3>. QED
      BY <2>2, <3>1, WholeWay
  <2>4. at = call.to \/ (missed /\ plat = "darwin")
    BY <2>2, <2>3
  <2>. QED
    BY <2>1, <2>4, NilMeansDoneIs
<1>5. ASSUME NEW b \in Buttons, NEW isDown \in BOOLEAN,
             ButtonCall(b, isDown)
      PROVE  NilMeansDone'
  <2>. DEFINE c == [is |-> "button", button |-> b, isDown |-> isDown]
  <2>1. PICK ok \in BOOLEAN :
          /\ missed' = (missed \/ ~ok)
          /\ down' = IF ok THEN IF isDown THEN down \cup {b} ELSE down \ {b} ELSE down
          /\ last' = [call |-> c, err |-> MouseFails(ok)] /\ plat' = plat
    BY <1>5 DEF ButtonCall, ButtonDown, ButtonUp, Returns
  <2>2. CASE ok
    <3>1. (b \in down') = isDown
      BY <2>1, <2>2
    <3>. QED
      BY <2>1, <3>1, NilMeansDoneIs
  <2>3. CASE ~ok
    BY <2>1, <2>3, NilMeansDoneIs DEF MouseFails, CallOK
  <2>. QED
    BY <2>2, <2>3
<1>6. CASE Scroll
  <2>1. PICK err : last' = [call |-> [is |-> "wheel"], err |-> err]
    BY <1>6 DEF Scroll, Returns
  <2>. QED
    BY <2>1, NilMeansDoneIs
<1>7. CASE TypeRune
  <2>1. last' = Idle \/ \E q : last' = [call |-> q, err |-> TRUE]
    BY <1>7 DEF TypeRune, Returns
  <2>. QED
    BY <1>1, <2>1, NilMeansDoneIs
<1>8. CASE MoveStep
  <2>1. last' = Idle \/ last' = [call |-> call, err |-> TRUE]
    BY <1>8 DEF MoveStep, Returns
  <2>. QED
    BY <1>1, <2>1, NilMeansDoneIs
<1>9. ASSUME NEW s \in Texts, TypeText(s)
      PROVE  NilMeansDone'
  <2>1. last' = Idle \/ \E q : last' = [call |-> q, err |-> TRUE]
    BY <1>9 DEF TypeText, Returns, Begins
  <2>. QED
    BY <1>1, <2>1, NilMeansDoneIs
<1>10. ASSUME \/ SecureInputChanges \/ NextLine
              \/ \E b \in Buttons : WindowPasses(b)
              \/ \E p \in Places, n \in Steps : MouseMove(p, n)
       PROVE  NilMeansDone'
  <2>1. last' = Idle
    BY <1>10 DEF SecureInputChanges, NextLine, WindowPasses, MouseMove, Begins
  <2>. QED
    BY <1>1, <2>1
<1>11. CASE UNCHANGED vars
  <2>1. UNCHANGED <<plat, last, call, down, at, missed>>
    BY <1>11 DEF vars, host, notes
  <2>. QED
    BY <2>1, NilMeansDoneIs
<1>12. ASSUME NEW b \in Buttons, ButtonDown(b) \/ ButtonUp(b)
       PROVE  NilMeansDone'
  <2>1. ButtonCall(b, TRUE) \/ ButtonCall(b, FALSE)
    BY <1>12 DEF ButtonCall
  <2>. QED
    BY <1>5, <2>1
<1>13. ASSUME NEW k \in Keys, KeyDown(k) \/ KeyUp(k)
       PROVE  NilMeansDone'
  BY <1>2, <1>13 DEF KeyDown, KeyUp
<1>. QED
  BY <1>3, <1>4, <1>6, <1>7, <1>8, <1>9, <1>10, <1>11, <1>12, <1>13 DEF Next

\* A key, text, move or button call that returned nil has done what it says, but for what
\* macOS's mouse calls do not report (keyboard.go:67, mouse.go:107).
THEOREM NilAlwaysMeansDone == Spec => []NilMeansDone
<1>. DEFINE Inv == CallOK /\ ProgressOK /\ NilMeansDone
<1>1. Init => Inv
  <2>1. Init => CallOK /\ ProgressOK
    <3>. SUFFICES ASSUME Init PROVE CallOK /\ ProgressOK
      OBVIOUS
    <3>1. /\ call.is # "text" /\ call.is # "move" /\ plat \in {"darwin", "windows"}
          /\ at \in Int /\ missed \in BOOLEAN
      <4>1. call.is = "idle" /\ plat \in {"darwin", "windows"} /\ at = 0
        BY DEF Init, Idle
      <4>2. missed \in BOOLEAN
        BY DEF Init
      <4>3. call.is # "text" /\ call.is # "move"
        BY <4>1
      <4>4. at \in Int
        BY <4>1
      <4>. QED
        BY <4>1, <4>2, <4>3, <4>4, Zenon
    <3>2. CallOK
      BY <3>1 DEF CallOK
    <3>3. ProgressOK
      BY <3>1 DEF ProgressOK
    <3>. QED
      BY <3>2, <3>3
  <2>2. Init => NilMeansDone
    BY NilMeansDoneIs DEF Init
  <2>. QED
    BY <2>1, <2>2
<1>2. Inv /\ [Next]_vars => Inv'
  BY CallStep, ProgressStep, NilStep
<1>3. Inv => NilMeansDone
  OBVIOUS
<1>. QED
  BY <1>1, <1>2, <1>3, PTL DEF Spec

-----------------------------------------------------------------------------
(* Schedule.                                                               *)

\* The constants, one by one.
LEMMA Constants ==
  /\ PollInterval \in Nat /\ Interval \in Nat /\ Frames \in Nat
  /\ PollInterval # 0 /\ Interval # 0 /\ Frames # 0
  /\ MaxQuery \in Nat /\ MaxShoot \in Nat /\ Slack \in Nat
  /\ \A w \in Waits : w \in Nat
BY ScheduleAssumption

\* A line that polls the window list, not a burst.
Polls == op.kind # "cap"

\* The clock has not passed the end of the call in progress.
ClockOK ==
  /\ op \in Ops
  /\ IF Polls
     THEN /\ {now, due, deadline} \subseteq Nat /\ {queries, absentAt} \subseteq Int
          /\ there \in 0..2
          /\ pc \in {"begin", "query", "poll_sleep", "focus", "done"}
          /\ pc # "done" => now <= due
          /\ pc = "begin" => now = 0 /\ due = 0 /\ deadline = 0
     ELSE pc \in {"begin", "frame_sleep", "shoot", "done"}

\* Each call of a poll begins in time and is bounded.
InTime ==
  Polls =>
    /\ pc = "query" => /\ queries <= now /\ queries <= deadline + Slack
                       /\ due <= queries + MaxQuery
    /\ pc = "poll_sleep" => due <= deadline + Slack
    /\ pc = "focus" => due <= deadline + Slack + 2 * MaxQuery
    /\ pc = "done" => now <= deadline + Slack + 2 * MaxQuery

\* What a query may answer has been so since it began.
Witnessed ==
  Polls =>
    /\ pc # "done" /\ there = 0 => absentAt = now
    /\ pc = "query" /\ 0 \in seen => absentAt >= queries
    /\ res = "no match" => pc = "done" /\ absentAt >= deadline - MaxQuery

\* Only a win line that has focused a window sets it.
WindowOK ==
  Polls =>
    /\ pc = "focus" => op.kind = "win"
    /\ pc # "done" => window = FALSE /\ res = "none"
    /\ window = (res \in {"ok", "warn"} /\ op.kind = "win")

PollInv == ClockOK /\ InTime /\ Witnessed /\ WindowOK

\* Where the clock stands in each call of a poll.
LEMMA InProgress ==
  ASSUME ClockOK, InTime, Polls
  PROVE  /\ pc = "query" => /\ now <= queries + MaxQuery
                            /\ now <= deadline + Slack + MaxQuery
                            /\ now <= deadline + Slack + 2 * MaxQuery
                            /\ queries <= now + 1
         /\ pc = "poll_sleep" => now <= deadline + Slack /\ now >= now
         /\ pc = "focus" => now <= deadline + Slack + 2 * MaxQuery
BY Constants DEF ClockOK, InTime

\* A sleep between two queries is positive and ends by the deadline.
LEMMA RemainingFits ==
  ASSUME ClockOK, Polls, ~TimedOut
  PROVE  Remaining \in Nat /\ now + Remaining <= deadline
BY Constants DEF ClockOK, TimedOut, Remaining

\* A query that finds none after the deadline saw none after it began.
LEMMA NoneAtTheEnd ==
  ASSUME ClockOK, InTime, Witnessed, Polls, pc = "query", 0 \in seen, TimedOut
  PROVE  absentAt >= deadline - MaxQuery
<1>1. {now, deadline} \subseteq Nat /\ {queries, absentAt} \subseteq Int
  BY DEF ClockOK
<1>2. now <= queries + MaxQuery
  BY InProgress
<1>3. absentAt >= queries
  BY DEF Witnessed
<1>4. now >= deadline
  BY DEF TimedOut
<1>. QED
  BY Constants, <1>1, <1>2, <1>3, <1>4

-----------------------------------------------------------------------------
\* The clock, the call in progress and the kind of the line.
LEMMA ClockStep ==
  ASSUME ClockOK, [ScheduleNext]_scheduleVars
  PROVE  ClockOK'
<1>. USE Constants DEF ClockOK, Polls, Ends, Calls, desk, poll, burst
<1>1. CASE Tick
  BY <1>1 DEF Tick
<1>2. CASE WindowsChange
  BY <1>2 DEF WindowsChange
<1>3. CASE Cancel
  BY <1>3 DEF Cancel
<1>4. CASE Begin
  BY <1>4 DEF Begin, Ops
<1>5. CASE QueryFails
  BY <1>5 DEF QueryFails
<1>6. CASE QueryAnswers
  <2>1. /\ pc = "query" /\ Polls /\ UNCHANGED <<op, now, there, absentAt, seen, deadline, queries, window>>
    BY <1>6 DEF QueryAnswers
  <2>2. CASE Calls("focus", MaxQuery) /\ op.kind = "win" /\ UNCHANGED wake
    BY <2>1, <2>2
  <2>3. CASE Ends("ok") /\ op.kind = "open" /\ UNCHANGED wake
    BY <2>1, <2>3
  <2>4. CASE 0 \in seen /\ TimedOut /\ Ends("no match") /\ UNCHANGED wake
    BY <2>1, <2>4 DEF TimedOut
  <2>5. CASE ~TimedOut /\ wake' = now + Remaining /\ Calls("poll_sleep", Remaining + Slack)
    BY <2>1, <2>5, RemainingFits
  <2>. QED
    BY <1>6, <2>1, <2>2, <2>3, <2>4, <2>5 DEF QueryAnswers, Ops
<1>7. CASE PollAgain
  BY <1>7 DEF PollAgain
<1>8. CASE Focus
  BY <1>8 DEF Focus
<1>9. CASE BurstBegins
  BY <1>9 DEF BurstBegins
<1>10. CASE Shoot
  <2>1. pc = "shoot" /\ ~Polls /\ UNCHANGED <<op, now, there, absentAt, deadline, queries>>
    BY <1>10 DEF Shoot
  <2>2. pc' \in {"frame_sleep", "shoot", "done"}
    BY <1>10 DEF Shoot
  <2>. QED
    BY <2>1, <2>2
<1>11. CASE ShootFails
  BY <1>11 DEF ShootFails
<1>12. CASE FrameDue
  BY <1>12 DEF FrameDue
<1>13. CASE UNCHANGED scheduleVars
  BY <1>13 DEF scheduleVars
<1>. QED
  BY <1>1, <1>2, <1>3, <1>4, <1>5, <1>6, <1>7, <1>8, <1>9, <1>10, <1>11, <1>12, <1>13 DEF ScheduleNext

\* A sleep ends by the deadline, give or take its lateness, and a query follows.
LEMMA InTimeStep ==
  ASSUME ClockOK, InTime, [ScheduleNext]_scheduleVars
  PROVE  InTime'
<1>. USE Constants DEF ClockOK, InTime, Polls, Ends, Calls, desk, poll, burst
<1>1. CASE Tick
  BY <1>1 DEF Tick
<1>2. CASE WindowsChange
  BY <1>2 DEF WindowsChange
<1>3. CASE Cancel
  BY <1>3 DEF Cancel
<1>4. CASE Begin
  BY <1>4 DEF Begin, Ops
<1>5. CASE QueryFails
  BY <1>5, InProgress DEF QueryFails
<1>6. CASE QueryAnswers
  <2>1. /\ pc = "query" /\ Polls /\ UNCHANGED <<op, now, there, absentAt, seen, deadline, queries, window>>
    BY <1>6 DEF QueryAnswers
  <2>2. CASE Calls("focus", MaxQuery) /\ op.kind = "win" /\ UNCHANGED wake
    BY <2>1, <2>2, InProgress
  <2>3. CASE Ends("ok") /\ op.kind = "open" /\ UNCHANGED wake
    BY <2>1, <2>3, InProgress
  <2>4. CASE 0 \in seen /\ TimedOut /\ Ends("no match") /\ UNCHANGED wake
    BY <2>1, <2>4, InProgress
  <2>5. CASE ~TimedOut /\ wake' = now + Remaining /\ Calls("poll_sleep", Remaining + Slack)
    BY <2>1, <2>5, RemainingFits, InProgress
  <2>. QED
    BY <1>6, <2>1, <2>2, <2>3, <2>4, <2>5 DEF QueryAnswers, Ops
<1>7. CASE PollAgain
  BY <1>7 DEF PollAgain
<1>8. CASE Focus
  BY <1>8, InProgress DEF Focus
<1>9. CASE BurstBegins
  BY <1>9 DEF BurstBegins
<1>10. CASE Shoot
  BY <1>10 DEF Shoot
<1>11. CASE ShootFails
  BY <1>11 DEF ShootFails
<1>12. CASE FrameDue
  BY <1>12 DEF FrameDue
<1>13. CASE UNCHANGED scheduleVars
  BY <1>13 DEF scheduleVars
<1>. QED
  BY <1>1, <1>2, <1>3, <1>4, <1>5, <1>6, <1>7, <1>8, <1>9, <1>10, <1>11, <1>12, <1>13 DEF ScheduleNext

\* A query that finds nothing began when or before nothing was there.
LEMMA WitnessedStep ==
  ASSUME ClockOK, InTime, Witnessed, WindowOK, [ScheduleNext]_scheduleVars
  PROVE  Witnessed'
<1>. USE Constants DEF ClockOK, InTime, Witnessed, WindowOK, Polls, Ends, Calls, desk, poll, burst
<1>1. CASE Tick
  <2>1. pc # "done" /\ now' = now + 1 /\ UNCHANGED <<op, there, seen, pc, deadline, queries, res>>
    BY <1>1 DEF Tick
  <2>2. Polls => absentAt' = IF there = 0 THEN now' ELSE absentAt
    BY <1>1 DEF Tick
  <2>3. Polls /\ pc = "query" => queries <= now + 1
    BY InProgress
  <2>. QED
    BY <2>1, <2>2, <2>3
<1>2. CASE WindowsChange
  BY <1>2 DEF WindowsChange
<1>3. CASE Cancel
  BY <1>3 DEF Cancel
<1>4. CASE Begin
  BY <1>4 DEF Begin, Ops
<1>5. CASE QueryFails
  BY <1>5 DEF QueryFails
<1>6. CASE QueryAnswers
  <2>1. /\ pc = "query" /\ Polls /\ UNCHANGED <<op, now, there, absentAt, seen, deadline, queries, window>>
    BY <1>6 DEF QueryAnswers
  <2>2. CASE Calls("focus", MaxQuery) /\ op.kind = "win" /\ UNCHANGED wake
    BY <2>1, <2>2, InProgress
  <2>3. CASE Ends("ok") /\ op.kind = "open" /\ UNCHANGED wake
    BY <2>1, <2>3, InProgress
  <2>4. CASE 0 \in seen /\ TimedOut /\ Ends("no match") /\ UNCHANGED wake
    BY <2>1, <2>4, NoneAtTheEnd
  <2>5. CASE ~TimedOut /\ wake' = now + Remaining /\ Calls("poll_sleep", Remaining + Slack)
    BY <2>1, <2>5
  <2>. QED
    BY <1>6, <2>1, <2>2, <2>3, <2>4, <2>5 DEF QueryAnswers, Ops
<1>7. CASE PollAgain
  <2>1. /\ pc = "poll_sleep" /\ pc' = "query" /\ queries' = now /\ seen' = {there}
        /\ UNCHANGED <<op, now, there, absentAt, deadline, res>>
    BY <1>7 DEF PollAgain
  <2>2. Polls /\ res # "no match"
    <3>1. Polls
      BY <2>1
    <3>. QED
      BY <2>1, <3>1
  <2>3. there = 0 => absentAt = now
    BY <2>1, <2>2
  <2>4. 0 \in seen' => absentAt' >= queries'
    BY <2>1, <2>2, <2>3, InProgress
  <2>. QED
    BY <2>1, <2>2, <2>3, <2>4
<1>8. CASE Focus
  BY <1>8 DEF Focus
<1>9. CASE BurstBegins
  BY <1>9 DEF BurstBegins
<1>10. CASE Shoot
  BY <1>10 DEF Shoot
<1>11. CASE ShootFails
  BY <1>11 DEF ShootFails
<1>12. CASE FrameDue
  BY <1>12 DEF FrameDue
<1>13. CASE UNCHANGED scheduleVars
  BY <1>13 DEF scheduleVars
<1>. QED
  BY <1>1, <1>2, <1>3, <1>4, <1>5, <1>6, <1>7, <1>8, <1>9, <1>10, <1>11, <1>12, <1>13 DEF ScheduleNext

\* The window is set where the line ends.
LEMMA WindowStep ==
  ASSUME ClockOK, WindowOK, [ScheduleNext]_scheduleVars
  PROVE  WindowOK'
<1>. USE Constants DEF ClockOK, WindowOK, Polls, Ends, Calls, desk, poll, burst
<1>1. CASE Tick
  BY <1>1 DEF Tick
<1>2. CASE WindowsChange
  BY <1>2 DEF WindowsChange
<1>3. CASE Cancel
  BY <1>3 DEF Cancel
<1>4. CASE Begin
  BY <1>4 DEF Begin, Ops
<1>5. CASE QueryFails
  BY <1>5 DEF QueryFails
<1>6. CASE QueryAnswers
  BY <1>6 DEF QueryAnswers, Ops
<1>7. CASE PollAgain
  BY <1>7 DEF PollAgain
<1>8. CASE Focus
  BY <1>8 DEF Focus
<1>9. CASE BurstBegins
  BY <1>9 DEF BurstBegins
<1>10. CASE Shoot
  BY <1>10 DEF Shoot
<1>11. CASE ShootFails
  BY <1>11 DEF ShootFails
<1>12. CASE FrameDue
  BY <1>12 DEF FrameDue
<1>13. CASE UNCHANGED scheduleVars
  BY <1>13 DEF scheduleVars
<1>. QED
  BY <1>1, <1>2, <1>3, <1>4, <1>5, <1>6, <1>7, <1>8, <1>9, <1>10, <1>11, <1>12, <1>13 DEF ScheduleNext

\* wait= is kept from both sides, cancelled or not (pollForWindow).
THEOREM AlwaysPatientAndPunctual == ScheduleSpec => []PatientAndPunctual
<1>1. ScheduleInit => PollInv
  <2>. SUFFICES ASSUME ScheduleInit PROVE PollInv
    OBVIOUS
  <2>1. ClockOK
    BY DEF ScheduleInit, ClockOK, Polls
  <2>. QED
    BY <2>1 DEF ScheduleInit, PollInv, InTime, Witnessed, WindowOK
<1>2. PollInv /\ [ScheduleNext]_scheduleVars => PollInv'
  BY ClockStep, InTimeStep, WitnessedStep, WindowStep DEF PollInv
<1>3. PollInv => PatientAndPunctual
  <2>. SUFFICES ASSUME PollInv, Polls PROVE PatientAndPunctual
    BY DEF PatientAndPunctual, Polls
  <2>1. res = "no match" => absentAt >= deadline - MaxQuery
    BY DEF PollInv, Witnessed
  <2>2. pc \in {"query", "poll_sleep"} => now <= deadline + Slack + MaxQuery
    BY Constants, InProgress DEF PollInv, ClockOK
  <2>3. pc = "done" => now <= deadline + Slack + 2 * MaxQuery
    BY DEF PollInv, InTime
  <2>4. window <=> res \in {"ok", "warn"} /\ op.kind = "win"
    BY DEF PollInv, WindowOK
  <2>. QED
    BY <2>1, <2>2, <2>3, <2>4 DEF PatientAndPunctual
<1>. QED
  BY <1>1, <1>2, <1>3, PTL DEF ScheduleSpec

-----------------------------------------------------------------------------
(* A burst of frames.                                                      *)

\* A frame's call is in progress exactly in "shoot"; it sleeps until the next frame is due.
BurstControl ==
  ~Polls =>
    /\ {now, due, wake} \subseteq Nat
    /\ results \in Seq([scheduled : Nat, actual : Nat, slip : Int])
    /\ shots \in Seq([began : Nat, ended : Int])
    /\ Len(results) <= Len(shots)
    /\ pc # "done" => now <= due /\ res = "none"
    /\ pc = "begin" => now = 0 /\ due = 0 /\ results = <<>> /\ shots = <<>>
    /\ pc = "shoot" => Len(shots) = Len(results) + 1 /\ Len(results) < Frames
    /\ pc = "frame_sleep" => /\ Len(shots) = Len(results) /\ Len(results) < Frames
                             /\ wake = Scheduled(Len(results)) /\ due = wake + Slack
    /\ res = "ok" => Len(results) = Frames

\* Frame i was begun when it was due, or as soon after as one late sleep and the frame
\* before it allow.
InTurn(frames, gone, i) ==
  /\ frames[i].began >= Scheduled(i - 1) \/ gone
  /\ i > 1 => frames[i].began <= LaterOf(Scheduled(i - 1) + Slack, frames[i - 1].ended)

\* Result i tells when frame i was begun.
Told(told, frames, i) == /\ told[i].actual = frames[i].began
                         /\ told[i].slip = frames[i].began - told[i].scheduled

FramesInTurn == ~Polls => \A i \in 1..Len(shots) : InTurn(shots, cancelled, i)
FramesTold == ~Polls => \A i \in 1..Len(results) : Told(results, shots, i)

\* The frames on disk are those with a result.
FramesOnDisk ==
  ~Polls => files = IF op.inline THEN {} ELSE 0..Len(results) - 1

BurstInv == ClockOK /\ BurstControl /\ FramesInTurn /\ FramesTold /\ FramesOnDisk

\* A multiple of the interval is a time.
LEMMA ScheduledIsATime ==
  ASSUME NEW i \in Nat
  PROVE  Scheduled(i) \in Nat
BY Constants DEF Scheduled

\* A frame that is begun now, behind the others, and those before it.
LEMMA Begun ==
  ASSUME NEW before \in Seq([began : Nat, ended : Int]), now \in Nat
  PROVE  /\ Append(before, Shot) \in Seq([began : Nat, ended : Int])
         /\ Len(Append(before, Shot)) = Len(before) + 1
         /\ Append(before, Shot)[Len(before) + 1].began = now
<1>1. Shot \in [began : Nat, ended : Int] /\ Shot.began = now
  BY DEF Shot
<1>. QED
  BY <1>1

LEMMA BegunBefore ==
  ASSUME NEW before \in Seq([began : Nat, ended : Int]), now \in Nat,
         NEW i \in 1..Len(before)
  PROVE  Append(before, Shot)[i] = before[i]
<1>1. Shot \in [began : Nat, ended : Int]
  BY DEF Shot
<1>. QED
  BY <1>1

\* What Shoot does to the frame that it ends, and what may follow.
LEMMA ShootEnds ==
  ASSUME ClockOK, BurstControl, Shoot
  PROVE  /\ ~Polls /\ pc = "shoot" /\ now \in Nat
         /\ results \in Seq([scheduled : Nat, actual : Nat, slip : Int])
         /\ shots \in Seq([began : Nat, ended : Int])
         /\ Len(results) \in Nat /\ Len(shots) = Len(results) + 1
         /\ \E r \in [scheduled : Nat, actual : Nat, slip : Int] :
              /\ results' = Append(results, r)
              /\ r.actual = shots[Len(shots)].began
              /\ r.slip = shots[Len(shots)].began - r.scheduled
         /\ \E taken \in Seq([began : Nat, ended : Int]) :
              /\ Len(taken) = Len(shots) /\ taken[Len(shots)].ended = now
              /\ \A i \in 1..Len(shots) : taken[i].began = shots[i].began
              /\ \A i \in 1..Len(shots) - 1 : taken[i] = shots[i]
              /\ \/ Len(results) + 1 >= Frames /\ Ends("ok") /\ shots' = taken /\ UNCHANGED wake
                 \/ /\ Len(results) + 1 < Frames /\ Scheduled(Len(results) + 1) > now
                    /\ wake' = Scheduled(Len(results) + 1)
                    /\ Calls("frame_sleep", wake' - now + Slack) /\ shots' = taken
                 \/ /\ Len(results) + 1 < Frames /\ Scheduled(Len(results) + 1) <= now
                    /\ Calls("shoot", MaxShoot) /\ shots' = Append(taken, Shot)
                    /\ UNCHANGED wake
<1>1. ~Polls /\ pc = "shoot"
  BY DEF Shoot, ClockOK, Polls
<1>2. /\ results \in Seq([scheduled : Nat, actual : Nat, slip : Int])
      /\ shots \in Seq([began : Nat, ended : Int]) /\ Len(shots) = Len(results) + 1
      /\ now \in Nat
  BY <1>1 DEF BurstControl
<1>3. PICK n \in Nat : n = Len(results) /\ n + 1 = Len(shots)
  BY <1>2
<1>4. PICK m \in Nat \ {0} : m = n + 1 /\ m = Len(shots)
  BY <1>3
<1>5. shots[m] \in [began : Nat, ended : Int]
  <2>1. m \in 1..Len(shots)
    BY <1>4
  <2>. QED
    BY <1>2, <2>1, ElementOfSeq
<1>. DEFINE r == [scheduled |-> Scheduled(n), actual |-> shots[m].began,
                  slip |-> shots[m].began - Scheduled(n)]
            f == [began |-> shots[m].began, ended |-> now]
            taken == [shots EXCEPT ![m] = f]
<1>6. /\ r \in [scheduled : Nat, actual : Nat, slip : Int]
      /\ r.actual = shots[m].began /\ r.slip = shots[m].began - r.scheduled
  BY <1>5, ScheduledIsATime
<1>7. results' = Append(results, r)
  BY <1>3, <1>4 DEF Shoot, Scheduled
<1>8. f \in [began : Nat, ended : Int] /\ f.began = shots[m].began /\ f.ended = now
  BY <1>2, <1>5
<1>9. \/ n + 1 >= Frames /\ Ends("ok") /\ shots' = taken /\ UNCHANGED wake
      \/ /\ n + 1 < Frames /\ Scheduled(n + 1) > now
         /\ wake' = Scheduled(n + 1)
         /\ Calls("frame_sleep", wake' - now + Slack) /\ shots' = taken
      \/ /\ n + 1 < Frames /\ Scheduled(n + 1) <= now
         /\ Calls("shoot", MaxShoot) /\ shots' = Append(taken, Shot) /\ UNCHANGED wake
  BY <1>3, <1>4 DEF Shoot
<1>. HIDE DEF r, f
<1>10. taken \in Seq([began : Nat, ended : Int]) /\ Len(taken) = m /\ taken[m] = f
  BY <1>2, <1>4, <1>8
<1>11. \A i \in 1..m - 1 : taken[i] = shots[i]
  BY <1>2, <1>4
<1>. HIDE DEF taken
<1>12. \A i \in 1..m : taken[i].began = shots[i].began
  BY <1>8, <1>10, <1>11
<1>13. taken[m].ended = now
  BY <1>8, <1>10
<1>14. \E q \in [scheduled : Nat, actual : Nat, slip : Int] :
              /\ results' = Append(results, q)
              /\ q.actual = shots[Len(shots)].began
              /\ q.slip = shots[Len(shots)].began - q.scheduled
  BY <1>4, <1>6, <1>7
<1>. QED
  BY <1>1, <1>2, <1>3, <1>4, <1>9, <1>10, <1>11, <1>12, <1>13, <1>14

\* A step that takes no frame and begins none.
LEMMA BurstRests ==
  ASSUME ClockOK, BurstControl, UNCHANGED <<op, burst>>
  PROVE  /\ FramesTold => FramesTold'
         /\ FramesOnDisk => FramesOnDisk'
         /\ FramesInTurn /\ (cancelled => cancelled') => FramesInTurn'
BY DEF burst, FramesTold, FramesOnDisk, FramesInTurn, Polls, Told, InTurn, LaterOf

\* A poll stays one.
LEMMA PollsStay ==
  ASSUME ClockOK, QueryFails \/ QueryAnswers \/ PollAgain \/ Focus
  PROVE  Polls /\ op' = op
<1>1. pc \in {"query", "poll_sleep", "focus"} /\ op' = op
  BY DEF QueryFails, QueryAnswers, PollAgain, Focus
<1>. QED
  BY <1>1 DEF ClockOK

\* Control.
LEMMA TickKeepsControl ==
  ASSUME BurstControl, Tick
  PROVE  BurstControl'
<1>1. /\ pc # "done" /\ now < due /\ now' = now + 1
      /\ UNCHANGED <<op, due, pc, wake, results, shots, res>>
  BY DEF Tick, burst
<1>2. ~Polls => now \in Nat /\ due \in Nat
  BY DEF BurstControl
<1>3. ~Polls => now' \in Nat /\ now' <= due'
  BY <1>1, <1>2
<1>. QED
  BY <1>1, <1>3 DEF BurstControl, Polls

LEMMA BurstControlStep ==
  ASSUME ClockOK, BurstControl, [ScheduleNext]_scheduleVars
  PROVE  BurstControl'
<1>. USE DEF BurstControl, Polls, Ends, Calls, desk, poll, burst
<1>1. CASE Tick
  BY <1>1, TickKeepsControl
<1>2. CASE WindowsChange
  BY <1>2 DEF WindowsChange
<1>3. CASE Cancel
  BY <1>3 DEF Cancel
<1>4. CASE Begin
  BY <1>4 DEF Begin
<1>5. CASE QueryFails
  BY <1>5, PollsStay DEF QueryFails
<1>6. CASE QueryAnswers
  BY <1>6, PollsStay DEF QueryAnswers
<1>7. CASE PollAgain
  BY <1>7, PollsStay DEF PollAgain
<1>8. CASE Focus
  BY <1>8, PollsStay DEF Focus
<1>9. CASE BurstBegins
  <2>1. /\ pc = "begin" /\ ~Polls /\ now = 0 /\ results = <<>> /\ shots' = Append(<<>>, Shot)
        /\ pc' = "shoot" /\ due' = now + MaxShoot
        /\ UNCHANGED <<op, now, wake, results, res>>
    BY <1>9 DEF BurstBegins
  <2>2. shots' \in Seq([began : Nat, ended : Int]) /\ Len(shots') = 1
    <3>1. Shot \in [began : Nat, ended : Int]
      BY <2>1 DEF Shot
    <3>. QED
      BY <2>1, <3>1
  <2>. QED
    BY <2>1, <2>2, Constants
<1>10. CASE Shoot
  <2>. DEFINE n == Len(results)
  <2>1. /\ ~Polls /\ pc = "shoot" /\ now \in Nat /\ n \in Nat
        /\ n < Frames /\ due \in Nat /\ wake \in Nat /\ res = "none"
    BY <1>10, ShootEnds
  <2>2. /\ results' \in Seq([scheduled : Nat, actual : Nat, slip : Int])
        /\ Len(results') = n + 1
    <3>1. PICK r \in [scheduled : Nat, actual : Nat, slip : Int] : results' = Append(results, r)
      BY <1>10, ShootEnds
    <3>2. results \in Seq([scheduled : Nat, actual : Nat, slip : Int])
      BY <1>10, ShootEnds
    <3>. QED
      BY <3>1, <3>2
  <2>3. PICK taken \in Seq([began : Nat, ended : Int]) :
          /\ Len(taken) = n + 1
          /\ \/ n + 1 >= Frames /\ Ends("ok") /\ shots' = taken /\ UNCHANGED wake
             \/ /\ n + 1 < Frames /\ Scheduled(n + 1) > now
                /\ wake' = Scheduled(n + 1)
                /\ Calls("frame_sleep", wake' - now + Slack) /\ shots' = taken
             \/ /\ n + 1 < Frames
                /\ Calls("shoot", MaxShoot) /\ shots' = Append(taken, Shot) /\ UNCHANGED wake
    BY <1>10, ShootEnds
  <2>4. UNCHANGED <<op, now>>
    BY <1>10 DEF Shoot
  <2>5. CASE n + 1 >= Frames /\ Ends("ok") /\ shots' = taken /\ UNCHANGED wake
    BY <2>1, <2>2, <2>3, <2>4, <2>5, Constants
  <2>6. CASE /\ n + 1 < Frames /\ Scheduled(n + 1) > now
             /\ wake' = Scheduled(n + 1) /\ Calls("frame_sleep", wake' - now + Slack)
             /\ shots' = taken
    <3>1. wake' \in Nat /\ now <= wake'
      BY <2>1, <2>6, ScheduledIsATime
    <3>2. due' = wake' + Slack /\ due' \in Nat /\ now <= due'
      <4>1. PICK w \in Nat, t \in Nat : w = wake' /\ t = now /\ t <= w
        BY <2>1, <3>1
      <4>2. PICK k \in Nat : k = Slack
        BY Constants
      <4>3. due' = t + (w - t + k)
        BY <2>6, <4>1, <4>2
      <4>4. due' = w + k
        BY <4>3
      <4>5. w + k \in Nat
        OBVIOUS
      <4>6. t <= w + k
        <5>1. t <= w
          BY <4>1
        <5>. QED
          BY <5>1
      <4>. QED
        BY <4>1, <4>2, <4>4, <4>5, <4>6
    <3>3. wake' = Scheduled(Len(results'))
      BY <2>2, <2>6
    <3>. QED
      BY <2>1, <2>2, <2>3, <2>4, <2>6, <3>1, <3>2, <3>3
  <2>7. CASE /\ n + 1 < Frames
             /\ Calls("shoot", MaxShoot) /\ shots' = Append(taken, Shot) /\ UNCHANGED wake
    <3>1. shots' \in Seq([began : Nat, ended : Int]) /\ Len(shots') = Len(taken) + 1
      BY <2>1, <2>7, Begun
    <3>2. Len(shots') = n + 2
      BY <2>1, <2>3, <3>1
    <3>. QED
      BY <2>1, <2>2, <2>4, <2>7, <3>1, <3>2, Constants
  <2>. QED
    BY <2>3, <2>5, <2>6, <2>7
<1>11. CASE ShootFails
  BY <1>11 DEF ShootFails
<1>12. CASE FrameDue
  <2>1. /\ pc = "frame_sleep" /\ ~Polls /\ now \in Nat /\ shots' = Append(shots, Shot)
        /\ pc' = "shoot" /\ due' = now + MaxShoot
        /\ UNCHANGED <<op, now, wake, results, res>>
    BY <1>12 DEF FrameDue, ClockOK
  <2>2. shots' \in Seq([began : Nat, ended : Int]) /\ Len(shots') = Len(shots) + 1
    BY <2>1, Begun
  <2>. QED
    BY <2>1, <2>2, Constants
<1>13. CASE UNCHANGED scheduleVars
  BY <1>13 DEF scheduleVars
<1>. QED
  BY <1>1, <1>2, <1>3, <1>4, <1>5, <1>6, <1>7, <1>8, <1>9, <1>10, <1>11, <1>12, <1>13 DEF ScheduleNext

\* A frame that is begun now, after those in `before`, is in its turn.
LEMMA NewFrameInTurn ==
  ASSUME NEW before \in Seq([began : Nat, ended : Int]), now \in Nat, NEW gone,
         NEW n \in Nat, n = Len(before),
         Scheduled(n) <= now \/ gone,
         n > 0 => now <= LaterOf(Scheduled(n) + Slack, before[n].ended)
  PROVE  InTurn(Append(before, Shot), gone, n + 1)
<1>. DEFINE after == Append(before, Shot)
<1>1. n + 1 - 1 = n
  OBVIOUS
<1>2. after[n + 1].began = now
  BY Begun
<1>3. n > 0 => after[n] = before[n]
  BY BegunBefore
<1>4. after[n + 1].began >= Scheduled(n) \/ gone
  BY <1>2, ScheduledIsATime
<1>5. n + 1 > 1 => after[n + 1].began <= LaterOf(Scheduled(n) + Slack, after[n].ended)
  BY <1>2, <1>3
<1>. HIDE DEF after
<1>6. InTurn(after, gone, n + 1)
  BY <1>1, <1>4, <1>5 DEF InTurn
<1>. QED
  BY <1>6 DEF after

\* The frames begun.
LEMMA InTurnStep ==
  ASSUME ClockOK, BurstControl, FramesInTurn, [ScheduleNext]_scheduleVars
  PROVE  FramesInTurn'
<1>. USE DEF desk, poll, burst
<1>1. CASE BurstBegins
  <2>1. /\ pc = "begin" /\ ~Polls /\ shots' = <<Shot>> /\ now = 0
    BY <1>1 DEF BurstBegins, BurstControl, Polls
  <2>2. Len(shots') = 1 /\ shots'[1].began = 0
    BY <2>1 DEF Shot
  <2>3. Scheduled(1 - 1) = 0
    BY Constants DEF Scheduled
  <2>4. InTurn(shots', cancelled', 1)
    BY <2>2, <2>3 DEF InTurn
  <2>. QED
    BY <2>2, <2>4 DEF FramesInTurn
<1>2. CASE FrameDue
  <2>1. /\ pc = "frame_sleep" /\ ~Polls /\ Rested /\ shots' = Append(shots, Shot)
        /\ UNCHANGED <<op, cancelled>>
    BY <1>2 DEF FrameDue, ClockOK, Polls
  <2>2. PICK n \in Nat : n = Len(shots)
    BY <2>1 DEF BurstControl
  <2>3. /\ shots \in Seq([began : Nat, ended : Int]) /\ now \in Nat
        /\ now <= Scheduled(n) + Slack
        /\ Scheduled(n) <= now \/ cancelled'
    BY <2>1, <2>2, Constants, ScheduledIsATime DEF BurstControl, Rested
  <2>4. n > 0 => now <= LaterOf(Scheduled(n) + Slack, shots[n].ended)
    <3>1. ASSUME n > 0 PROVE shots[n] \in [began : Nat, ended : Int]
      <4>1. n \in 1..Len(shots)
        BY <2>2, <3>1
      <4>. QED
        BY <2>3, <4>1, ElementOfSeq
    <3>2. Scheduled(n) \in Nat /\ Slack \in Nat
      BY Constants, ScheduledIsATime
    <3>. QED
      BY <2>3, <3>1, <3>2 DEF LaterOf
  <2>5. InTurn(shots', cancelled', n + 1)
    BY <2>1, <2>2, <2>3, <2>4, NewFrameInTurn
  <2>6. Len(shots') = n + 1 /\ \A i \in 1..n : shots'[i] = shots[i]
    BY <2>1, <2>2, <2>3, Begun, BegunBefore
  <2>7. ASSUME NEW i \in 1..n PROVE InTurn(shots', cancelled', i)
    <3>1. InTurn(shots, cancelled, i)
      BY <2>1, <2>2 DEF FramesInTurn
    <3>2. shots'[i] = shots[i] /\ (i > 1 => shots'[i - 1] = shots[i - 1])
      BY <2>6
    <3>. QED
      BY <2>1, <3>1, <3>2 DEF InTurn
  <2>8. \A i \in 1..Len(shots') : i \in 1..n \/ i = n + 1
    BY <2>6
  <2>. QED
    BY <2>5, <2>7, <2>8 DEF FramesInTurn
<1>3. CASE Shoot
  <2>1. ~Polls /\ shots \in Seq([began : Nat, ended : Int]) /\ now \in Nat /\ Len(shots) \in Nat \ {0}
    BY <1>3, ShootEnds
  <2>2. PICK n \in Nat \ {0} : n = Len(shots)
    BY <2>1
  <2>3. PICK taken \in Seq([began : Nat, ended : Int]) :
          /\ Len(taken) = n /\ taken[n].ended = now
          /\ \A i \in 1..n : taken[i].began = shots[i].began
          /\ \A i \in 1..n - 1 : taken[i] = shots[i]
          /\ \/ shots' = taken
             \/ shots' = Append(taken, Shot) /\ Scheduled(n) <= now
    BY <1>3, <2>2, ShootEnds
  <2>4. UNCHANGED <<op, cancelled>>
    BY <1>3 DEF Shoot
  <2>5. ASSUME NEW i \in 1..n PROVE shots'[i] = taken[i]
    <3>1. Append(taken, Shot)[i] = taken[i]
      BY <2>1, <2>3, BegunBefore
    <3>. QED
      BY <2>3, <3>1
  <2>6. ASSUME NEW i \in 1..n PROVE InTurn(shots', cancelled', i)
    <3>1. InTurn(shots, cancelled, i)
      BY <2>1, <2>2 DEF FramesInTurn
    <3>2. shots'[i].began = shots[i].began
      BY <2>3, <2>5
    <3>3. i > 1 => shots'[i - 1] = shots[i - 1]
      BY <2>3, <2>5
    <3>. QED
      BY <2>4, <3>1, <3>2, <3>3 DEF InTurn
  <2>7. CASE shots' = taken
    BY <2>3, <2>6, <2>7 DEF FramesInTurn
  <2>8. CASE shots' = Append(taken, Shot) /\ Scheduled(n) <= now
    <3>1. now <= LaterOf(Scheduled(n) + Slack, taken[n].ended)
      BY <2>1, <2>3, Constants, ScheduledIsATime DEF LaterOf
    <3>2. InTurn(shots', cancelled', n + 1)
      BY <2>1, <2>3, <2>8, <3>1, NewFrameInTurn
    <3>3. Len(shots') = n + 1
      BY <2>1, <2>3, <2>8, Begun
    <3>4. \A i \in 1..Len(shots') : i \in 1..n \/ i = n + 1
      BY <3>3
    <3>. QED
      BY <2>6, <3>2, <3>4 DEF FramesInTurn
  <2>. QED
    BY <2>3, <2>7, <2>8
<1>4. CASE UNCHANGED <<op, burst>> /\ (cancelled => cancelled')
  BY <1>4, BurstRests
<1>5. CASE Tick
  BY <1>4, <1>5 DEF Tick
<1>6. CASE WindowsChange
  BY <1>4, <1>6 DEF WindowsChange
<1>7. CASE Cancel
  BY <1>4, <1>7 DEF Cancel
<1>8. CASE Begin
  BY <1>4, <1>8 DEF Begin
<1>9. CASE QueryFails
  BY <1>4, <1>9 DEF QueryFails
<1>10. CASE QueryAnswers
  BY <1>4, <1>10 DEF QueryAnswers
<1>11. CASE PollAgain
  BY <1>4, <1>11 DEF PollAgain
<1>12. CASE Focus
  BY <1>4, <1>12 DEF Focus
<1>13. CASE ShootFails
  BY <1>4, <1>13 DEF ShootFails
<1>14. CASE UNCHANGED scheduleVars
  BY <1>4, <1>14 DEF scheduleVars
<1>. QED
  BY <1>1, <1>2, <1>3, <1>5, <1>6, <1>7, <1>8, <1>9, <1>10, <1>11, <1>12, <1>13, <1>14 DEF ScheduleNext

\* The results and the files.
LEMMA ToldStep ==
  ASSUME ClockOK, BurstControl, FramesTold, FramesOnDisk, [ScheduleNext]_scheduleVars
  PROVE  FramesTold' /\ FramesOnDisk'
<1>. USE DEF desk, poll, burst
<1>1. CASE BurstBegins
  <2>1. /\ ~Polls /\ results = <<>> /\ UNCHANGED <<op, results, files>>
    BY <1>1 DEF BurstBegins, BurstControl, Polls
  <2>. QED
    BY <2>1 DEF FramesTold, FramesOnDisk, Polls
<1>2. CASE FrameDue
  <2>1. /\ ~Polls /\ shots' = Append(shots, Shot) /\ UNCHANGED <<op, results, files>>
    BY <1>2 DEF FrameDue, ClockOK, Polls
  <2>2. /\ shots \in Seq([began : Nat, ended : Int]) /\ Len(results) \in Nat
        /\ Len(results) <= Len(shots) /\ now \in Nat
    BY <2>1 DEF BurstControl
  <2>3. \A i \in 1..Len(shots) : shots'[i] = shots[i]
    BY <2>1, <2>2, BegunBefore
  <2>4. ASSUME NEW i \in 1..Len(results) PROVE shots'[i] = shots[i]
    <3>1. i \in 1..Len(shots)
      BY <2>2
    <3>. QED
      BY <2>3, <3>1
  <2>. QED
    BY <2>1, <2>4 DEF FramesTold, FramesOnDisk, Told, Polls
<1>3. CASE Shoot
  <2>1. /\ ~Polls /\ now \in Nat
        /\ results \in Seq([scheduled : Nat, actual : Nat, slip : Int])
        /\ shots \in Seq([began : Nat, ended : Int])
    BY <1>3, ShootEnds
  <2>2. PICK n \in Nat : n = Len(results) /\ n + 1 = Len(shots)
    BY <1>3, ShootEnds
  <2>3. PICK r \in [scheduled : Nat, actual : Nat, slip : Int] :
          /\ results' = Append(results, r)
          /\ r.actual = shots[n + 1].began
          /\ r.slip = shots[n + 1].began - r.scheduled
    BY <1>3, <2>2, ShootEnds
  <2>4. PICK taken \in Seq([began : Nat, ended : Int]) :
          /\ Len(taken) = n + 1
          /\ \A i \in 1..n + 1 : taken[i].began = shots[i].began
          /\ shots' = taken \/ shots' = Append(taken, Shot)
    BY <1>3, <2>2, ShootEnds
  <2>5. ASSUME NEW i \in 1..n + 1 PROVE shots'[i] = taken[i]
    <3>1. Append(taken, Shot)[i] = taken[i]
      BY <2>1, <2>4, BegunBefore
    <3>. QED
      BY <2>4, <3>1
  <2>6. \A i \in 1..n + 1 : shots'[i].began = shots[i].began
    BY <2>4, <2>5
  <2>7. /\ Len(results') = n + 1 /\ results'[n + 1] = r
        /\ \A i \in 1..n : results'[i] = results[i]
    BY <2>1, <2>2, <2>3
  <2>8. ASSUME NEW i \in 1..n PROVE Told(results', shots', i)
    <3>1. Told(results, shots, i)
      BY <2>1, <2>2 DEF FramesTold
    <3>2. shots'[i].began = shots[i].began
      BY <2>6
    <3>. QED
      BY <2>7, <3>1, <3>2 DEF Told
  <2>9. Told(results', shots', n + 1)
    BY <2>3, <2>6, <2>7 DEF Told
  <2>10. FramesTold'
    <3>1. \A i \in 1..Len(results') : i \in 1..n \/ i = n + 1
      BY <2>7
    <3>. QED
      BY <2>8, <2>9, <3>1 DEF FramesTold
  <2>11. files' = (IF op.inline THEN files ELSE files \cup {n}) /\ UNCHANGED op
    BY <1>3, <2>2 DEF Shoot
  <2>12. 0..(n + 1) - 1 = (0..n - 1) \cup {n}
    OBVIOUS
  <2>13. FramesOnDisk'
    BY <2>1, <2>2, <2>7, <2>11, <2>12 DEF FramesOnDisk, Polls
  <2>. QED
    BY <2>10, <2>13
<1>4. CASE UNCHANGED <<op, burst>>
  BY <1>4, BurstRests
<1>5. CASE Tick
  BY <1>4, <1>5 DEF Tick
<1>6. CASE WindowsChange
  BY <1>4, <1>6 DEF WindowsChange
<1>7. CASE Cancel
  BY <1>4, <1>7 DEF Cancel
<1>8. CASE Begin
  BY <1>4, <1>8 DEF Begin
<1>9. CASE QueryFails
  BY <1>4, <1>9 DEF QueryFails
<1>10. CASE QueryAnswers
  BY <1>4, <1>10 DEF QueryAnswers
<1>11. CASE PollAgain
  BY <1>4, <1>11 DEF PollAgain
<1>12. CASE Focus
  BY <1>4, <1>12 DEF Focus
<1>13. CASE ShootFails
  BY <1>4, <1>13 DEF ShootFails
<1>14. CASE UNCHANGED scheduleVars
  BY <1>4, <1>14 DEF scheduleVars
<1>. QED
  BY <1>1, <1>2, <1>3, <1>5, <1>6, <1>7, <1>8, <1>9, <1>10, <1>11, <1>12, <1>13, <1>14 DEF ScheduleNext

\* Lateness does not add up over a burst, its results say when the frames were taken, and
\* an ok line has them all on disk (runFrameSeries).
THEOREM BurstsKeepTime == ScheduleSpec => []BurstKeepsTime
<1>1. ScheduleInit => BurstInv
  <2>. SUFFICES ASSUME ScheduleInit PROVE BurstInv
    OBVIOUS
  <2>1. ClockOK
    BY DEF ScheduleInit, ClockOK, Polls
  <2>2. BurstControl
    BY Constants DEF ScheduleInit, BurstControl
  <2>3. FramesInTurn /\ FramesTold /\ FramesOnDisk
    BY DEF ScheduleInit, FramesInTurn, FramesTold, FramesOnDisk
  <2>. QED
    BY <2>1, <2>2, <2>3 DEF BurstInv
<1>2. BurstInv /\ [ScheduleNext]_scheduleVars => BurstInv'
  BY ClockStep, BurstControlStep, InTurnStep, ToldStep DEF BurstInv
<1>3. BurstInv => BurstKeepsTime
  <2>. SUFFICES ASSUME BurstInv, ~Polls PROVE BurstKeepsTime
    BY DEF BurstKeepsTime, Polls
  <2>1. DOMAIN shots = 1..Len(shots) /\ DOMAIN results = 1..Len(results)
    BY DEF BurstInv, BurstControl
  <2>2. \A i \in DOMAIN shots : InTurn(shots, cancelled, i)
    BY <2>1 DEF BurstInv, FramesInTurn
  <2>3. \A i \in DOMAIN results : Told(results, shots, i)
    BY <2>1 DEF BurstInv, FramesTold
  <2>5. res = "ok" => /\ Len(results) = Frames
                      /\ files = IF op.inline THEN {} ELSE 0..Frames - 1
    BY DEF BurstInv, BurstControl, FramesOnDisk
  <2>. QED
    BY <2>1, <2>2, <2>3, <2>5 DEF BurstKeepsTime, InTurn, Told, Scheduled
<1>. QED
  BY <1>1, <1>2, <1>3, PTL DEF ScheduleSpec
=============================================================================
