------------------------------ MODULE Program ------------------------------
(***************************************************************************)
(* The program a run executes: the operations of ir.Sequence, reduced to   *)
(* the fields that decide which inputs go down and come up, and the part   *)
(* of ir.Validate that decides which sequences may run (held balance).     *)
(* Texts, coordinates, delays, selectors and capture geometry are left     *)
(* out: no property of this project tells their values apart.              *)
(***************************************************************************)
EXTENDS Naturals, Sequences

CONSTANTS
  Keys,      \* canonical key symbols, modifiers included
  Buttons    \* mouse buttons

ASSUME InputsDisjoint == Keys \cap Buttons = {}

Inputs == Keys \cup Buttons

\* "call" stands for the kinds that make backend calls without taking a key
\* or a button (txt, m, scroll, clip, qclip, rclip, qwin, cap, qinfo, qdisp,
\* qmouse), "exec" for the two of them that wait for another program (exec,
\* open), and "set" for the two that make no call (set, sleep).
Kinds == {"key", "key_down", "key_up", "click", "button_down", "button_up",
          "drag", "paste", "focus", "call", "exec", "set"}

Chords == Seq(Seq(Keys) \ {<<>>})

\* keys is a list of chords; for key_down and key_up each chord is one key.
\* points is the number of coordinates: 0 or 1 for click and button_down.
Op == [kind : Kinds, mods : Seq(Keys), keys : Chords, repeat : Nat,
       btn : Buttons, count : Nat, points : Nat]

FlatKeys(op) == {op.keys[i][1] : i \in DOMAIN op.keys}

(***************************************************************************)
(* Held balance.  ir.Validate walks the lines with a set of held keys and  *)
(* a set of held buttons; the walk is stated here by what it finds: x is   *)
(* held before line i when some earlier line takes it and no line between  *)
(* them gives it back.                                                     *)
(***************************************************************************)
Takes(op, x) == \/ op.kind = "key_down" /\ x \in FlatKeys(op)
                \/ op.kind = "button_down" /\ x = op.btn

Returns(op, x) == \/ op.kind = "key_up" /\ x \in FlatKeys(op)
                  \/ op.kind = "button_up" /\ x = op.btn

HeldBefore(prog, i, x) ==
  \E j \in 1..(i - 1) :
    /\ Takes(prog[j], x)
    /\ \A m \in (j + 1)..(i - 1) : ~Returns(prog[m], x)

\* A key named twice by one ku is held no more the second time.
NoRepeatedKey(op) ==
  \A i, j \in DOMAIN op.keys : op.keys[i][1] = op.keys[j][1] => i = j

Validated(prog) ==
  \A i \in DOMAIN prog : LET op == prog[i] IN
    /\ op.kind = "key_up" =>
         /\ NoRepeatedKey(op)
         /\ \A k \in FlatKeys(op) : HeldBefore(prog, i, k)
    /\ op.kind = "button_up" => HeldBefore(prog, i, op.btn)
    /\ op.kind \in {"click", "button_down", "drag"} =>
         ~HeldBefore(prog, i, op.btn)
    /\ op.kind = "drag" => op.points > 0
=============================================================================
