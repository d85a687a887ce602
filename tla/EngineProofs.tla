---------------------------- MODULE EngineProofs ----------------------------
(***************************************************************************)
(* Proofs about Engine, and about LocalRun, the process around it.         *)
(*                                                                         *)
(* Engine: its type invariant, that every input that is down has an owner  *)
(* that will lift it, that the report keeps pace with the line loop, that  *)
(* what is held was taken by lines that succeed, and what follows from     *)
(* them between the lines and at the end of a run.                         *)
(*                                                                         *)
(* LocalRun (the second half), for every program, option, platform and     *)
(* reader: the inductive invariant LocalInv, the two invariants the local  *)
(* run checks, and that the run keeps RunContract.                         *)
(***************************************************************************)
EXTENDS LocalRun, SequenceTheorems, FiniteSetTheorems, TLAPS

-----------------------------------------------------------------------------
(* Lemmas about the sequences that own inputs.                             *)

\* Appending adds exactly the appended element, whatever the element is.
LEMMA AppendedSet ==
  ASSUME NEW S, NEW s \in Seq(S), NEW x \in S
  PROVE  /\ Append(s, x) \in Seq(S)
         /\ ToSet(Append(s, x)) = ToSet(s) \cup {x}
<1>1. Len(s) \in Nat /\ DOMAIN s = 1..Len(s)
  BY LenProperties
<1>2. /\ Append(s, x) \in Seq(S)
      /\ Len(Append(s, x)) = Len(s) + 1
      /\ \A i \in 1..Len(s) : Append(s, x)[i] = s[i]
      /\ Append(s, x)[Len(s) + 1] = x
  BY AppendProperties
<1>3. DOMAIN Append(s, x) = 1..(Len(s) + 1)
  BY <1>2, LenProperties
<1>. QED
  BY <1>1, <1>2, <1>3 DEF ToSet

\* Front and Last split a non-empty sequence: no element is lost.
LEMMA FrontLastSet ==
  ASSUME NEW S, NEW s \in Seq(S), s # <<>>
  PROVE  /\ Front(s) \in Seq(S)
         /\ Last(s) \in S
         /\ ToSet(s) \subseteq ToSet(Front(s)) \cup {Last(s)}
<1>1. Len(s) \in Nat \ {0} /\ DOMAIN s = 1..Len(s)
  BY EmptySeq, LenProperties
<1>2. \A i \in 1..(Len(s) - 1) : s[i] \in S
  BY <1>1, ElementOfSeq
<1>3. /\ Front(s) \in Seq(S)
      /\ Len(Front(s)) = Len(s) - 1
      /\ \A i \in 1..(Len(s) - 1) : Front(s)[i] = s[i]
  BY <1>1, <1>2, SubSeqProperties DEF Front
<1>4. DOMAIN Front(s) = 1..(Len(s) - 1)
  BY <1>3, LenProperties
<1>5. Last(s) \in S
  BY <1>1, ElementOfSeq DEF Last
<1>. QED
  BY <1>1, <1>3, <1>4, <1>5 DEF ToSet, Last

\* The held inputs are the inputs of the entries.
LEMMA InputsOfEntries ==
  ASSUME NEW s
  PROVE  InputsOf(s) = {e.input : e \in ToSet(s)}
BY DEF InputsOf, ToSet

\* Front and Last, for the inputs of held entries.
LEMMA FrontLastInputs ==
  ASSUME NEW S, NEW s \in Seq(S), s # <<>>
  PROVE  InputsOf(s) \subseteq InputsOf(Front(s)) \cup {Last(s).input}
BY FrontLastSet, InputsOfEntries

\* Holding an input adds it to what is held.
LEMMA HeldInputsGrow ==
  ASSUME NEW S, NEW s \in Seq([input : S, line : Nat]), NEW x \in S, line \in Nat
  PROVE  /\ Hold(s, x) \in Seq([input : S, line : Nat])
         /\ InputsOf(Hold(s, x)) = InputsOf(s) \cup {x}
<1> DEFINE R == [input : S, line : Nat]
           e == [input |-> x, line |-> line]
<1>1. e \in R /\ e.input = x
  OBVIOUS
<1>2. Hold(s, x) = Append(s, e)
  BY DEF Hold
<1> HIDE DEF R, e
<1>3. s \in Seq(R)
  BY DEF R
<1>4. /\ Append(s, e) \in Seq(R)
      /\ ToSet(Append(s, e)) = ToSet(s) \cup {e}
  BY <1>1, <1>3, AppendedSet
<1>5. InputsOf(Hold(s, x)) = InputsOf(s) \cup {x}
  BY <1>1, <1>2, <1>4, InputsOfEntries
<1>. QED
  BY <1>2, <1>4, <1>5 DEF R

\* What follows position c of a sequence.
LEMMA SuffixElements ==
  ASSUME NEW S, NEW s \in Seq(S), NEW c \in 1..Len(s)
  PROVE  /\ SubSeq(s, c + 1, Len(s)) \in Seq(S)
         /\ Len(SubSeq(s, c + 1, Len(s))) = Len(s) - c
         /\ \A i \in 1..(Len(s) - c) : SubSeq(s, c + 1, Len(s))[i] = s[c + i]
<1>1. PICK n \in Nat : n = Len(s)
  BY LenProperties
<1>2. c \in Nat /\ 1 <= c /\ c <= n
  BY <1>1
<1>3. PICK d \in Nat : d = c + 1
  BY <1>2
<1>4. \A i \in d..n : s[i] \in S
  BY <1>1, <1>2, <1>3, ElementOfSeq
<1>5. d \in Int /\ n \in Int
  OBVIOUS
<1>6. /\ SubSeq(s, d, n) \in Seq(S)
      /\ Len(SubSeq(s, d, n)) = IF d <= n THEN n - d + 1 ELSE 0
      /\ \A i \in 1..(n - d + 1) : SubSeq(s, d, n)[i] = s[d + i - 1]
  BY <1>4, <1>5, SubSeqProperties
<1>7. Len(SubSeq(s, d, n)) = n - c
  BY <1>2, <1>3, <1>6
<1>8. \A i \in 1..(n - c) : SubSeq(s, d, n)[i] = s[c + i]
  <2>1. \A i \in 1..(n - c) : i \in 1..(n - d + 1) /\ d + i - 1 = c + i
    BY <1>2, <1>3
  <2>. QED BY <1>6, <2>1
<1>. QED
  BY <1>1, <1>3, <1>6, <1>7, <1>8

\* releaseKey and releaseButton forget at most the input they are given.
LEMMA UnheldInputs ==
  ASSUME NEW S, NEW s \in Seq([input : S, line : Nat]), NEW x
  PROVE  /\ Unhold(s, x) \in Seq([input : S, line : Nat])
         /\ InputsOf(s) \subseteq InputsOf(Unhold(s, x)) \cup {x}
<1> DEFINE R == [input : S, line : Nat]
<1>1. CASE ~ \E i \in DOMAIN s : LastAt(s, x, i)
  BY <1>1 DEF Unhold
<1>2. CASE \E i \in DOMAIN s : LastAt(s, x, i)
  <2>1. Len(s) \in Nat /\ DOMAIN s = 1..Len(s)
    BY LenProperties
  <2>2. PICK C \in 1..Len(s) : s[C].input = x /\ Unhold(s, x) = RemoveAt(s, C)
    BY <1>2, <2>1 DEF LastAt, Unhold
  <2> DEFINE a == SubSeq(s, 1, C - 1)
             b == SubSeq(s, C + 1, Len(s))
  <2>4. \A i \in 1..Len(s) : s[i] \in R
    BY ElementOfSeq
  <2> HIDE DEF R
  <2>5. /\ a \in Seq(R) /\ Len(a) = C - 1
        /\ \A i \in 1..(C - 1) : a[i] = s[i]
    BY <2>1, <2>2, <2>4, SubSeqProperties
  <2>6. /\ b \in Seq(R) /\ Len(b) = Len(s) - C
        /\ \A i \in 1..(Len(s) - C) : b[i] = s[C + i]
    BY <2>1, <2>2, <2>4, SuffixElements DEF R
  <2> HIDE DEF a, b
  <2>7. /\ a \o b \in Seq(R) /\ Len(a \o b) = Len(s) - 1
        /\ \A i \in 1..(Len(s) - 1) :
             (a \o b)[i] = IF i < C THEN s[i] ELSE s[i + 1]
    <3>1. /\ a \o b \in Seq(R)
          /\ Len(a \o b) = Len(a) + Len(b)
          /\ \A i \in 1..(Len(a) + Len(b)) :
               (a \o b)[i] = IF i <= Len(a) THEN a[i] ELSE b[i - Len(a)]
      BY <2>5, <2>6, ConcatProperties
    <3>. QED BY <2>1, <2>2, <2>5, <2>6, <3>1
  <2>8. DOMAIN (a \o b) = 1..(Len(s) - 1)
    BY <2>7, LenProperties
  <2>9. ASSUME NEW i \in 1..Len(s), i # C
        PROVE  \E j \in DOMAIN (a \o b) : (a \o b)[j] = s[i]
    <3>1. CASE i < C
      <4>1. i \in 1..(Len(s) - 1)
        BY <2>1, <2>2, <3>1
      <4>. QED BY <4>1, <3>1, <2>7, <2>8
    <3>2. CASE i > C
      <4>1. i - 1 \in 1..(Len(s) - 1) /\ ~(i - 1 < C) /\ (i - 1) + 1 = i
        BY <2>1, <2>2, <3>2
      <4>. QED BY <4>1, <2>7, <2>8
    <3>. QED BY <2>1, <2>2, <2>9, <3>1, <3>2
  <2>10. Unhold(s, x) = a \o b
    BY <2>2 DEF RemoveAt, a, b
  <2>11. Unhold(s, x) \in Seq([input : S, line : Nat])
    BY <2>7, <2>10 DEF R
  <2>12. ASSUME NEW i \in 1..Len(s)
         PROVE  s[i].input \in InputsOf(a \o b) \cup {x}
    <3>1. CASE i = C
      BY <2>2, <3>1
    <3>2. CASE i # C
      BY <2>9, <3>2 DEF InputsOf
    <3>. QED BY <3>1, <3>2
  <2>. QED
    BY <2>1, <2>10, <2>11, <2>12 DEF InputsOf
<1>. QED BY <1>1, <1>2

-----------------------------------------------------------------------------
(* Type correctness.                                                       *)

\* A line of the program that is not past its end.
LEMMA ProgramLines ==
  ASSUME TypeOK, line <= Len(prog)
  PROVE  line \in DOMAIN prog
<1>1. prog \in Seq(Op)
  BY ProgramsAssumption DEF TypeOK
<1>. QED BY <1>1, LenProperties DEF TypeOK

\* The running op is one of the kinds of Program, with typed fields.
LEMMA OpTyped ==
  ASSUME TypeOK, line \in DOMAIN prog
  PROVE  /\ op.kind \in Kinds /\ op.mods \in Seq(Keys) /\ op.keys \in Chords
         /\ op.repeat \in Nat /\ op.btn \in Buttons
         /\ op.count \in Nat /\ op.points \in Nat
<1>1. op \in Op
  BY ProgramsAssumption, ElementOfSeq, LenProperties DEF TypeOK, op
<1>. QED BY <1>1 DEF Op

\* A backend call on an input changes only inputs.
LEMMA OsTyped ==
  ASSUME TypeOK, NEW x \in Inputs, Presses(x) \/ Lifts(x) \/ BestEffortLift(x)
  PROVE  down' \in SUBSET Inputs /\ lost' \in SUBSET Inputs
BY DEF TypeOK, Presses, Lifts, LiftFails, BestEffortLift

\* The keys a kd or ku line has still to handle.
LEMMA NextKeyTyped ==
  ASSUME TypeOK, rest # <<>>
  PROVE  Tail(rest) \in Chords /\ Head(rest)[1] \in Keys
<1>1. rest \in Seq(Seq(Keys) \ {<<>>})
  BY DEF TypeOK, Chords
<1>2. Head(rest) \in Seq(Keys) \ {<<>>} /\ Tail(rest) \in Seq(Seq(Keys) \ {<<>>})
  BY <1>1, HeadTailProperties
<1>3. Len(Head(rest)) \in Nat \ {0}
  BY <1>2, EmptySeq
<1>. QED BY <1>2, <1>3, ElementOfSeq DEF Chords

\* Recording a result keeps the types of the report.
LEMMA RecordTyped ==
  ASSUME TypeOK, NEW r \in Result, Record(r)
  PROVE  /\ results' \in Seq(Result) /\ streamed' \in Seq(Result)
         /\ totals' \in [ok : Nat, err : Nat, skip : Nat] /\ cancelled' \in BOOLEAN
<1>1. results' \in Seq(Result) /\ streamed' \in Seq(Result)
  BY AppendProperties DEF TypeOK, Record
<1>2. totals' \in [ok : Nat, err : Nat, skip : Nat]
  <2>1. totals \in [ok : Nat, err : Nat, skip : Nat] /\ totals' = Tally(r.status)
    BY DEF TypeOK, Record
  <2>2. CASE r.status = "err"
    BY <2>1, <2>2 DEF Tally
  <2>3. CASE r.status = "skip"
    BY <2>1, <2>3 DEF Tally
  <2>4. CASE r.status \notin {"err", "skip"}
    BY <2>1, <2>4 DEF Tally
  <2>. QED BY <2>2, <2>3, <2>4
<1>3. cancelled' \in BOOLEAN
  BY DEF TypeOK, Record
<1>. QED BY <1>1, <1>2, <1>3

\* One warn per released entry.
LEMMA WarnsTyped ==
  ASSUME TypeOK
  PROVE  Warns \in Seq(Result)
<1>1. PICK n \in Nat : n = Len(released) /\ DOMAIN released = 1..n
  BY LenProperties DEF TypeOK
<1>2. \A i \in 1..n : released[i].line \in Nat
  <2>1. released \in Seq(HeldKey)
    BY DEF TypeOK
  <2>2. \A i \in 1..n : released[i] \in HeldKey
    BY <1>1, <2>1, ElementOfSeq
  <2>. QED BY <2>2 DEF HeldKey
<1>3. Warns \in [1..n -> Result]
  BY <1>1, <1>2 DEF Warns, Result
<1>. QED BY <1>3, SeqDef

\* Holding and releasing a key keeps the type of what is held.
LEMMA HeldKeysTyped ==
  ASSUME TypeOK, NEW k \in Keys
  PROVE  /\ Hold(keys, k) \in Seq([input : Keys, line : Nat])
         /\ Unhold(keys, k) \in Seq([input : Keys, line : Nat])
<1>1. keys \in Seq([input : Keys, line : Nat]) /\ line \in Nat
  BY DEF TypeOK
<1>2. Hold(keys, k) \in Seq([input : Keys, line : Nat])
  BY <1>1, HeldInputsGrow
<1>3. Unhold(keys, k) \in Seq([input : Keys, line : Nat])
  BY <1>1, UnheldInputs
<1>. QED BY <1>2, <1>3

\* Holding a key adds it to what is held; releasing it removes no other.
LEMMA HeldKeysChange ==
  ASSUME TypeOK, NEW k \in Keys
  PROVE  /\ InputsOf(Hold(keys, k)) = InputsOf(keys) \cup {k}
         /\ InputsOf(keys) \subseteq InputsOf(Unhold(keys, k)) \cup {k}
<1>1. keys \in Seq([input : Keys, line : Nat]) /\ line \in Nat
  BY DEF TypeOK
<1>2. Hold(keys, k) \in Seq([input : Keys, line : Nat])
  BY <1>1, HeldInputsGrow
<1>3. InputsOf(Hold(keys, k)) = InputsOf(keys) \cup {k}
  BY <1>1, <1>2, HeldInputsGrow
<1>4. InputsOf(keys) \subseteq InputsOf(Unhold(keys, k)) \cup {k}
  BY <1>1, UnheldInputs
<1>. QED BY <1>3, <1>4

\* Holding and releasing a button keeps the type of what is held.
LEMMA HeldButtonsTyped ==
  ASSUME TypeOK, NEW b \in Buttons
  PROVE  /\ Hold(buttons, b) \in Seq([input : Buttons, line : Nat])
         /\ Unhold(buttons, b) \in Seq([input : Buttons, line : Nat])
<1>1. buttons \in Seq([input : Buttons, line : Nat]) /\ line \in Nat
  BY DEF TypeOK
<1>2. Hold(buttons, b) \in Seq([input : Buttons, line : Nat])
  BY <1>1, HeldInputsGrow
<1>3. Unhold(buttons, b) \in Seq([input : Buttons, line : Nat])
  BY <1>1, UnheldInputs
<1>. QED BY <1>2, <1>3

\* Holding a button adds it to what is held; releasing it removes no other.
LEMMA HeldButtonsChange ==
  ASSUME TypeOK, NEW b \in Buttons
  PROVE  /\ InputsOf(Hold(buttons, b)) = InputsOf(buttons) \cup {b}
         /\ InputsOf(buttons) \subseteq InputsOf(Unhold(buttons, b)) \cup {b}
<1>1. buttons \in Seq([input : Buttons, line : Nat]) /\ line \in Nat
  BY DEF TypeOK
<1>2. Hold(buttons, b) \in Seq([input : Buttons, line : Nat])
  BY <1>1, HeldInputsGrow
<1>3. InputsOf(Hold(buttons, b)) = InputsOf(buttons) \cup {b}
  BY <1>1, <1>2, HeldInputsGrow
<1>4. InputsOf(buttons) \subseteq InputsOf(Unhold(buttons, b)) \cup {b}
  BY <1>1, UnheldInputs
<1>. QED BY <1>3, <1>4

\* The loop bounds of an op are natural numbers.
LEMMA RoundsTyped ==
  ASSUME TypeOK, line \in DOMAIN prog
  PROVE  Rounds \in Nat
<1>1. op.repeat \in Nat /\ op.count \in Nat /\ op.points \in Nat
  BY OpTyped
<1>2. CASE op.kind = "key"
  BY <1>1, <1>2 DEF Rounds
<1>3. CASE op.kind = "click"
  BY <1>1, <1>3 DEF Rounds
<1>4. CASE op.kind = "drag" /\ op.points > 0
  BY <1>1, <1>4 DEF Rounds
<1>5. CASE op.kind \notin {"key", "click"} /\ ~(op.kind = "drag" /\ op.points > 0)
  BY <1>5 DEF Rounds
<1>. QED BY <1>2, <1>3, <1>4, <1>5

\* Every initial state is well typed.
LEMMA InitType == Init => TypeOK
<1>. SUFFICES ASSUME Init PROVE TypeOK
  OBVIOUS
<1>1. rest \in Chords
  BY EmptySeq DEF Init, Chords
<1>2. queue \in Seq(Keys) /\ flags \in Seq(Keys) /\ chord \in Seq(Keys)
  BY EmptySeq DEF Init
<1>3. keys \in Seq([input : Keys, line : Nat])
  BY EmptySeq DEF Init
<1>4. buttons \in Seq([input : Buttons, line : Nat])
  BY EmptySeq DEF Init
<1>5. results \in Seq(Result) /\ streamed \in Seq(Result)
  BY EmptySeq DEF Init
<1>6. released \in Seq(HeldKey)
  BY EmptySeq DEF Init
<1>7. totals \in [ok : Nat, err : Nat, skip : Nat]
  BY DEF Init
<1>8. /\ prog \in Programs /\ opt \in Options
      /\ phase \in Phases /\ line \in Nat \ {0} /\ status \in {"ok", "warn", "err"}
      /\ left \in Nat /\ exit \in {"none", "ok", "failure"}
  BY DEF Init, Phases
<1>9. /\ down \in SUBSET Inputs /\ lost \in SUBSET Inputs
      /\ failed \in BOOLEAN /\ cancelled \in BOOLEAN
  BY DEF Init
<1>. QED BY <1>1, <1>2, <1>3, <1>4, <1>5, <1>6, <1>7, <1>8, <1>9 DEF TypeOK

\* Every step keeps the state well typed.
LEMMA TypeStep == IInv /\ [Next]_vars => TypeOK'
<1>. SUFFICES ASSUME IInv, [Next]_vars
              PROVE  TypeOK'
  OBVIOUS
<1>. USE DEF TypeOK
<1>0. TypeOK /\ ControlInPlace
  BY DEF IInv
<1>1. CASE Preflight
  BY <1>0, <1>1 DEF Preflight, Phases, Goto, Fails, args, loops, trans, held, os, report, ending
<1>2. CASE SkipLine
  <2>1. Record([line |-> line, status |-> "skip", src |-> "op"])
    BY <1>2 DEF SkipLine
  <2>2. [line |-> line, status |-> "skip", src |-> "op"] \in Result
    BY <1>0 DEF Result
  <2>3. /\ results' \in Seq(Result) /\ streamed' \in Seq(Result)
        /\ totals' \in [ok : Nat, err : Nat, skip : Nat] /\ cancelled' \in BOOLEAN
    BY <1>0, <2>1, <2>2, RecordTyped
  <2>. QED
    BY <1>0, <1>2, <2>1, <2>2, <2>3 DEF SkipLine, Phases, Goto, Fails, args, loops, trans, held, os, report, ending
<1>3. CASE RunLine
  <2>1. line \in DOMAIN prog
    BY <1>0, <1>3, ProgramLines DEF RunLine
  <2>2. Rounds \in Nat
    BY <1>0, <2>1, RoundsTyped
  <2>3. /\ op.kind \in Kinds /\ op.mods \in Seq(Keys) /\ op.keys \in Chords
    BY <1>0, <2>1, OpTyped
  <2>4. phase' \in Phases
    BY <1>3, <2>3 DEF RunLine, Kinds, Entry, Phases
  <2>5. rest' \in Chords /\ queue' \in Seq(Keys) /\ left' \in Nat
    BY <1>3, <2>2, <2>3 DEF RunLine, Chords
  <2>. QED
    BY <1>0, <1>3, <2>1, <2>2, <2>3, <2>4, <2>5 DEF RunLine, Phases, Goto, Fails, args, loops, trans, held, os, report, ending
<1>4. CASE ReportLine
  <2>1. Record([line |-> line, status |-> status, src |-> "op"])
    BY <1>4 DEF ReportLine
  <2>2. [line |-> line, status |-> status, src |-> "op"] \in Result
    BY <1>0 DEF Result
  <2>3. /\ results' \in Seq(Result) /\ streamed' \in Seq(Result)
        /\ totals' \in [ok : Nat, err : Nat, skip : Nat] /\ cancelled' \in BOOLEAN
    BY <1>0, <2>1, <2>2, RecordTyped
  <2>4. failed' \in BOOLEAN
    BY <1>4 DEF ReportLine
  <2>5. phase' \in Phases /\ line' \in Nat \ {0}
    BY <1>0, <1>4 DEF ReportLine, Phases
  <2>. QED
    BY <1>0, <1>4, <2>1, <2>2, <2>3, <2>4, <2>5 DEF ReportLine, Phases, Goto, Fails, args, loops, trans, held, os, report, ending
<1>5. CASE CaptureOnError
  <2>1. PICK s \in {"ok", "err"} : Record([line |-> line, status |-> s, src |-> "cap"])
    BY <1>5 DEF CaptureOnError
  <2>2. [line |-> line, status |-> s, src |-> "cap"] \in Result
    BY <1>0 DEF Result
  <2>3. /\ results' \in Seq(Result) /\ streamed' \in Seq(Result)
        /\ totals' \in [ok : Nat, err : Nat, skip : Nat] /\ cancelled' \in BOOLEAN
    BY <1>0, <2>1, <2>2, RecordTyped
  <2>. QED
    BY <1>0, <1>5, <2>1, <2>2, <2>3 DEF CaptureOnError, Phases, Goto, Fails, args, loops, trans, held, os, report, ending
<1>6. CASE EndLoop
  BY <1>0, <1>6 DEF EndLoop, Phases, Goto, Fails, args, loops, trans, held, os, report, ending
<1>7. CASE PressFlag
  <2>1. Head(queue) \in Keys /\ Head(queue) \in Inputs /\ Tail(queue) \in Seq(Keys)
    BY <1>0, <1>7, HeadTailProperties DEF PressFlag, Inputs
  <2>2. Append(flags, Head(queue)) \in Seq(Keys)
    BY <1>0, <2>1, AppendProperties
  <2>3. down' \in SUBSET Inputs /\ lost' \in SUBSET Inputs
    BY <1>0, <1>7, <2>1, OsTyped DEF PressFlag, os
  <2>. QED
    BY <1>0, <1>7, <2>1, <2>2, <2>3 DEF PressFlag, Phases, Goto, Fails, args, loops, trans, held, os, report, ending
<1>8. CASE FlagsPressed
  BY <1>0, <1>8 DEF FlagsPressed, Phases, Goto, Fails, args, loops, trans, held, os, report, ending
<1>9. CASE LiftFlag
  <2>1. flags # <<>> => Last(flags) \in Keys /\ Last(flags) \in Inputs /\ Front(flags) \in Seq(Keys)
    BY <1>0, FrontLastSet DEF Inputs
  <2>2. down' \in SUBSET Inputs /\ lost' \in SUBSET Inputs
    BY <1>0, <1>9, <2>1, OsTyped DEF LiftFlag, os
  <2>. QED
    BY <1>0, <1>9, <2>1, <2>2 DEF LiftFlag, Phases, Goto, Fails, args, loops, trans, held, os, report, ending
<1>10. CASE NextChord
  <2>1. line \in DOMAIN prog /\ op.keys \in Chords
    BY <1>0, <1>10, OpTyped DEF NextChord, ControlInPlace
  <2>2. rest # <<>> => Head(rest) \in Seq(Keys) /\ Tail(rest) \in Chords
    BY <1>0, HeadTailProperties DEF Chords
  <2>3. rest \in Chords /\ queue \in Seq(Keys) /\ left \in Nat
    BY <1>0
  <2>4. rest' \in Chords
    BY <1>10, <2>1, <2>2, <2>3 DEF NextChord, loops
  <2>5. queue' \in Seq(Keys)
    BY <1>10, <2>2, <2>3 DEF NextChord, loops
  <2>6. left' \in Nat
    BY <1>10, <2>3 DEF NextChord, loops
  <2>. QED
    BY <1>0, <1>10, <2>1, <2>2, <2>3, <2>4, <2>5, <2>6 DEF NextChord, Phases, Goto, Fails, args, loops, trans, held, os, report, ending
<1>11. CASE SetClipboard
  <2>1. <<Primary, V>> \in Seq(Keys)
    BY ProgramsAssumption
  <2>. QED
    BY <1>0, <1>11, <2>1 DEF SetClipboard, Phases, Goto, Fails, args, loops, trans, held, os, report, ending
<1>12. CASE PressChordKey
  <2>1. Head(queue) \in Keys /\ Head(queue) \in Inputs /\ Tail(queue) \in Seq(Keys)
    BY <1>0, <1>12, HeadTailProperties DEF PressChordKey, Inputs
  <2>2. Append(chord, Head(queue)) \in Seq(Keys)
    BY <1>0, <2>1, AppendProperties
  <2>3. down' \in SUBSET Inputs /\ lost' \in SUBSET Inputs
    BY <1>0, <1>12, <2>1, OsTyped DEF PressChordKey, os
  <2>. QED
    BY <1>0, <1>12, <2>1, <2>2, <2>3 DEF PressChordKey, Phases, Goto, Fails, args, loops, trans, held, os, report, ending
<1>13. CASE ChordPressed
  BY <1>0, <1>13 DEF ChordPressed, Phases, Goto, Fails, args, loops, trans, held, os, report, ending
<1>14. CASE UnwindChord
  <2>1. chord # <<>> => Last(chord) \in Keys /\ Last(chord) \in Inputs /\ Front(chord) \in Seq(Keys)
    BY <1>0, FrontLastSet DEF Inputs
  <2>2. down' \in SUBSET Inputs /\ lost' \in SUBSET Inputs
    BY <1>0, <1>14, <2>1, OsTyped DEF UnwindChord, os
  <2>. QED
    BY <1>0, <1>14, <2>1, <2>2 DEF UnwindChord, Phases, Goto, Fails, args, loops, trans, held, os, report, ending
<1>15. CASE LiftChordKey
  <2>1. chord # <<>> => Last(chord) \in Keys /\ Last(chord) \in Inputs /\ Front(chord) \in Seq(Keys)
    BY <1>0, FrontLastSet DEF Inputs
  <2>2. down' \in SUBSET Inputs /\ lost' \in SUBSET Inputs
    BY <1>0, <1>15, <2>1, OsTyped DEF LiftChordKey, os, BestEffortLift
  <2>3. <<>> \in Seq(Keys)
    BY EmptySeq
  <2>. QED
    BY <1>0, <1>15, <2>1, <2>2, <2>3 DEF LiftChordKey, Phases, Goto, Fails, args, loops, trans, held, os, report, ending
<1>16. CASE MovePointer
  BY <1>0, <1>16 DEF MovePointer, Phases, Goto, Fails, args, loops, trans, held, os, report, ending
<1>17. CASE ClickDown
  <2>1. op.btn \in Inputs
    BY <1>0, <1>17, OpTyped DEF ClickDown, ControlInPlace, Inputs
  <2>2. down' \in SUBSET Inputs /\ lost' \in SUBSET Inputs
    BY <1>0, <1>17, <2>1, OsTyped DEF ClickDown, os
  <2>. QED
    BY <1>0, <1>17, <2>1, <2>2 DEF ClickDown, Phases, Goto, Fails, args, loops, trans, held, os, report, ending
<1>18. CASE ClickUp
  <2>1. op.btn \in Inputs /\ left > 0
    BY <1>0, <1>18, OpTyped DEF ClickUp, ControlInPlace, Inputs
  <2>2. down' \in SUBSET Inputs /\ lost' \in SUBSET Inputs
    BY <1>0, <1>18, <2>1, OsTyped DEF ClickUp, BestEffortLift
  <2>. QED
    BY <1>0, <1>18, <2>1, <2>2 DEF ClickUp, Phases, Goto, Fails, args, loops, trans, held, os, report, ending
<1>19. CASE DragDown
  <2>1. op.btn \in Inputs
    BY <1>0, <1>19, OpTyped DEF DragDown, ControlInPlace, Inputs
  <2>2. down' \in SUBSET Inputs /\ lost' \in SUBSET Inputs
    BY <1>0, <1>19, <2>1, OsTyped DEF DragDown, os
  <2>. QED
    BY <1>0, <1>19, <2>1, <2>2 DEF DragDown, Phases, Goto, Fails, args, loops, trans, held, os, report, ending
<1>20. CASE DragPath
  BY <1>0, <1>20 DEF DragPath, Phases, Goto, Fails, args, loops, trans, held, os, report, ending
<1>21. CASE DragUp
  <2>1. op.btn \in Inputs
    BY <1>0, <1>21, OpTyped DEF DragUp, ControlInPlace, Inputs
  <2>2. down' \in SUBSET Inputs /\ lost' \in SUBSET Inputs
    BY <1>0, <1>21, <2>1, OsTyped DEF DragUp, BestEffortLift
  <2>. QED
    BY <1>0, <1>21, <2>1, <2>2 DEF DragUp, Phases, Goto, Fails, args, loops, trans, held, os, report, ending
<1>22. CASE HoldButton
  <2>1. op.btn \in Buttons /\ op.btn \in Inputs
    BY <1>0, <1>22, OpTyped DEF HoldButton, ControlInPlace, Inputs
  <2>2. down' \in SUBSET Inputs /\ lost' \in SUBSET Inputs
    BY <1>0, <1>22, <2>1, OsTyped DEF HoldButton, os
  <2>3. buttons' \in Seq([input : Buttons, line : Nat])
    BY <1>0, <1>22, <2>1, HeldButtonsTyped DEF HoldButton
  <2>. QED
    BY <1>0, <1>22, <2>1, <2>2, <2>3 DEF HoldButton, Phases, Goto, Fails, args, loops, trans, held, os, report, ending
<1>23. CASE ReleaseButton
  <2>1. op.btn \in Buttons /\ op.btn \in Inputs
    BY <1>0, <1>23, OpTyped DEF ReleaseButton, ControlInPlace, Inputs
  <2>2. down' \in SUBSET Inputs /\ lost' \in SUBSET Inputs
    BY <1>0, <1>23, <2>1, OsTyped DEF ReleaseButton, BestEffortLift
  <2>3. buttons' \in Seq([input : Buttons, line : Nat])
    BY <1>0, <1>23, <2>1, HeldButtonsTyped DEF ReleaseButton
  <2>. QED
    BY <1>0, <1>23, <2>1, <2>2, <2>3 DEF ReleaseButton, Phases, Goto, Fails, args, loops, trans, held, os, report, ending
<1>24. CASE HoldKeys
  <2>1. rest # <<>> => Tail(rest) \in Chords /\ Head(rest)[1] \in Keys /\ Head(rest)[1] \in Inputs
    BY <1>0, NextKeyTyped DEF Inputs
  <2>2. down' \in SUBSET Inputs /\ lost' \in SUBSET Inputs
    BY <1>0, <1>24, <2>1, OsTyped DEF HoldKeys, os
  <2>3. keys' \in Seq([input : Keys, line : Nat])
    BY <1>0, <1>24, <2>1, HeldKeysTyped DEF HoldKeys
  <2>4. rest # <<>> => Append(chord, Head(rest)[1]) \in Seq(Keys)
    BY <1>0, <2>1, AppendProperties
  <2>5. <<>> \in Seq(Keys)
    BY EmptySeq
  <2>. QED
    BY <1>0, <1>24, <2>1, <2>2, <2>3, <2>4, <2>5 DEF HoldKeys, Phases, Goto, Fails, args, loops, trans, held, os, report, ending
<1>25. CASE RollbackKeys
  <2>1. chord # <<>> => Last(chord) \in Keys /\ Last(chord) \in Inputs /\ Front(chord) \in Seq(Keys)
    BY <1>0, FrontLastSet DEF Inputs
  <2>2. down' \in SUBSET Inputs /\ lost' \in SUBSET Inputs
    BY <1>0, <1>25, <2>1, OsTyped DEF RollbackKeys, os
  <2>3. keys' \in Seq([input : Keys, line : Nat])
    BY <1>0, <1>25, <2>1, HeldKeysTyped DEF RollbackKeys
  <2>. QED
    BY <1>0, <1>25, <2>1, <2>2, <2>3 DEF RollbackKeys, Phases, Goto, Fails, args, loops, trans, held, os, report, ending
<1>26. CASE ReleaseKeys
  <2>1. rest # <<>> => Tail(rest) \in Chords /\ Head(rest)[1] \in Keys /\ Head(rest)[1] \in Inputs
    BY <1>0, NextKeyTyped DEF Inputs
  <2>2. down' \in SUBSET Inputs /\ lost' \in SUBSET Inputs
    BY <1>0, <1>26, <2>1, OsTyped DEF ReleaseKeys, os, BestEffortLift
  <2>3. keys' \in Seq([input : Keys, line : Nat])
    BY <1>0, <1>26, <2>1, HeldKeysTyped DEF ReleaseKeys
  <2>. QED
    BY <1>0, <1>26, <2>1, <2>2, <2>3 DEF ReleaseKeys, Phases, Goto, Fails, args, loops, trans, held, os, report, ending
<1>27. CASE CallBackend
  <2>1. line \in DOMAIN prog /\ op.kind \in Kinds
    BY <1>0, <1>27, OpTyped DEF CallBackend, ControlInPlace
  <2>2. op.kind \in DOMAIN Outcomes
    BY <1>0, <1>27 DEF CallBackend, ControlInPlace
  <2>3. status' \in {"ok", "warn", "err"}
    BY <1>27, <2>2 DEF CallBackend, Outcomes
  <2>. QED
    BY <1>0, <1>27, <2>1, <2>2, <2>3 DEF CallBackend, Phases, Goto, Fails, args, loops, trans, held, os, report, ending
<1>28. CASE ReleaseHeldKey
  <2>1. Last(keys) \in [input : Keys, line : Nat] /\ Front(keys) \in Seq([input : Keys, line : Nat])
    BY <1>0, <1>28, FrontLastSet DEF ReleaseHeldKey
  <2>2. Last(keys) \in HeldKey /\ Last(keys).input \in Inputs
    BY <2>1 DEF HeldKey, Inputs
  <2>3. down' \in SUBSET Inputs /\ lost' \in SUBSET Inputs
    BY <1>0, <1>28, <2>2, OsTyped DEF ReleaseHeldKey
  <2>4. released' \in Seq(HeldKey)
    BY <1>0, <1>28, <2>2, AppendProperties DEF ReleaseHeldKey
  <2>. QED
    BY <1>0, <1>28, <2>1, <2>2, <2>3, <2>4 DEF ReleaseHeldKey, Phases, Goto, Fails, args, loops, trans, held, os, report, ending
<1>29. CASE ReleaseHeldButton
  <2>1. Last(buttons) \in [input : Buttons, line : Nat] /\ Front(buttons) \in Seq([input : Buttons, line : Nat])
    BY <1>0, <1>29, FrontLastSet DEF ReleaseHeldButton
  <2>2. Last(buttons) \in HeldKey /\ Last(buttons).input \in Inputs
    BY <2>1 DEF HeldKey, Inputs
  <2>3. down' \in SUBSET Inputs /\ lost' \in SUBSET Inputs
    BY <1>0, <1>29, <2>2, OsTyped DEF ReleaseHeldButton
  <2>4. released' \in Seq(HeldKey)
    BY <1>0, <1>29, <2>2, AppendProperties DEF ReleaseHeldButton
  <2>. QED
    BY <1>0, <1>29, <2>1, <2>2, <2>3, <2>4 DEF ReleaseHeldButton, Phases, Goto, Fails, args, loops, trans, held, os, report, ending
<1>30. CASE Finish
  <2>1. Warns \in Seq(Result)
    BY <1>0, WarnsTyped
  <2>2. results' \in Seq(Result) /\ streamed' \in Seq(Result)
    BY <1>0, <1>30, <2>1, ConcatProperties DEF Finish
  <2>. QED
    BY <1>0, <1>30, <2>1, <2>2 DEF Finish, Phases, Goto, Fails, args, loops, trans, held, os, report, ending
<1>31. CASE UNCHANGED vars
  BY <1>0, <1>31 DEF vars, args, loops, trans, held, os, report, ending
<1>. QED
  BY <1>1, <1>2, <1>3, <1>4, <1>5, <1>6, <1>7, <1>8, <1>9, <1>10, <1>11, <1>12, <1>13, <1>14, <1>15, <1>16, <1>17, <1>18, <1>19, <1>20, <1>21, <1>22, <1>23, <1>24, <1>25, <1>26, <1>27, <1>28, <1>29, <1>30, <1>31 DEF Next, RunStep, Returned

-----------------------------------------------------------------------------
(* The control part of the invariant.                                      *)

\* Every step keeps the owners where the control says they may be.
LEMMA ControlStep == IInv /\ [Next]_vars => ControlInPlace'
<1>. SUFFICES ASSUME IInv, [Next]_vars
              PROVE  ControlInPlace'
  OBVIOUS
<1>0. TypeOK /\ ControlInPlace
  BY DEF IInv
<1>. USE DEF ControlInPlace, BetweenOps
<1>1. CASE Preflight
  BY <1>0, <1>1 DEF Preflight, Goto, Fails, args, loops, trans, held, os, report, ending, op
<1>2. CASE SkipLine
  BY <1>0, <1>2 DEF SkipLine, Goto, Fails, args, loops, trans, held, os, report, ending, op
<1>3. CASE RunLine
  <2>1. line \in DOMAIN prog /\ line' = line /\ prog' = prog
    BY <1>0, <1>3, ProgramLines DEF RunLine, args
  <2>2. op.kind \in Kinds /\ op' = op
    BY <1>0, <2>1, OpTyped DEF op
  <2>3. /\ phase' \in {"mods", "kd", "ku", "mu", "clip", "call", "move", "md"}
        /\ phase' = "call" => op.kind \in DOMAIN Outcomes
    BY <1>3, <2>2 DEF RunLine, Kinds, Entry, Outcomes
  <2>4. chord' = <<>>
    BY <1>0, <1>3 DEF RunLine, trans
  <2>. QED
    BY <2>1, <2>2, <2>3, <2>4 DEF ToSet
<1>4. CASE ReportLine
  BY <1>0, <1>4 DEF ReportLine, Goto, Fails, args, loops, trans, held, os, report, ending, op
<1>5. CASE CaptureOnError
  BY <1>0, <1>5 DEF CaptureOnError, Goto, Fails, args, loops, trans, held, os, report, ending, op
<1>6. CASE EndLoop
  BY <1>0, <1>6 DEF EndLoop, Goto, Fails, args, loops, trans, held, os, report, ending, op
<1>7. CASE PressFlag
  BY <1>0, <1>7 DEF PressFlag, Goto, Fails, args, loops, trans, held, os, report, ending, op
<1>8. CASE FlagsPressed
  BY <1>0, <1>8 DEF FlagsPressed, Goto, Fails, args, loops, trans, held, os, report, ending, op
<1>9. CASE LiftFlag
  BY <1>0, <1>9 DEF LiftFlag, Goto, Fails, args, loops, trans, held, os, report, ending, op
<1>10. CASE NextChord
  BY <1>0, <1>10 DEF NextChord, Goto, Fails, args, loops, trans, held, os, report, ending, op
<1>11. CASE SetClipboard
  BY <1>0, <1>11 DEF SetClipboard, Goto, Fails, args, loops, trans, held, os, report, ending, op
<1>12. CASE PressChordKey
  BY <1>0, <1>12 DEF PressChordKey, Goto, Fails, args, loops, trans, held, os, report, ending, op
<1>13. CASE ChordPressed
  BY <1>0, <1>13 DEF ChordPressed, Goto, Fails, args, loops, trans, held, os, report, ending, op
<1>14. CASE UnwindChord
  BY <1>0, <1>14 DEF UnwindChord, Goto, Fails, args, loops, trans, held, os, report, ending, op
<1>15. CASE LiftChordKey
  BY <1>0, <1>15 DEF LiftChordKey, Goto, Fails, args, loops, trans, held, os, report, ending, op
<1>16. CASE MovePointer
  BY <1>0, <1>16 DEF MovePointer, Goto, Fails, args, loops, trans, held, os, report, ending, op
<1>17. CASE ClickDown
  <2>1. left' = left /\ phase' \in {"lift", "clickUp"} /\ (phase' = "clickUp" => left # 0)
    BY <1>17 DEF ClickDown, Goto, Fails, loops
  <2>2. left \in Nat
    BY <1>0 DEF TypeOK
  <2>. QED
    BY <1>0, <1>17, <2>1, <2>2 DEF ClickDown, args, trans
<1>18. CASE ClickUp
  BY <1>0, <1>18 DEF ClickUp, Goto, Fails, args, loops, trans, held, os, report, ending, op
<1>19. CASE DragDown
  BY <1>0, <1>19 DEF DragDown, Goto, Fails, args, loops, trans, held, os, report, ending, op
<1>20. CASE DragPath
  BY <1>0, <1>20 DEF DragPath, Goto, Fails, args, loops, trans, held, os, report, ending, op
<1>21. CASE DragUp
  BY <1>0, <1>21 DEF DragUp, Goto, Fails, args, loops, trans, held, os, report, ending, op
<1>22. CASE HoldButton
  BY <1>0, <1>22 DEF HoldButton, Goto, Fails, args, loops, trans, held, os, report, ending, op
<1>23. CASE ReleaseButton
  BY <1>0, <1>23 DEF ReleaseButton, Goto, Fails, args, loops, trans, held, os, report, ending, op
<1>24. CASE HoldKeys
  <2>1. CASE rest = <<>>
    BY <1>0, <1>24, <2>1 DEF HoldKeys, Goto, args, op
  <2>2. CASE rest # <<>> /\ phase' = "rollback"
    BY <1>0, <1>24, <2>2 DEF HoldKeys, Goto, args, op
  <2>3. CASE rest # <<>> /\ phase' # "rollback"
    <3>1. PICK k \in Keys : keys' = Hold(keys, k) /\ chord' = Append(chord, k)
      BY <1>0, <1>24, <2>3, NextKeyTyped DEF HoldKeys
    <3>2. ToSet(chord') = ToSet(chord) \cup {k}
      BY <1>0, <3>1, AppendedSet DEF TypeOK
    <3>3. InputsOf(keys') = InputsOf(keys) \cup {k}
      BY <1>0, <3>1, HeldKeysChange
    <3>4. phase = "kd" /\ phase' = "kd" /\ UNCHANGED <<args, line, flags>>
      BY <1>24, <2>3 DEF HoldKeys, Goto
    <3>. QED
      BY <1>0, <3>2, <3>3, <3>4 DEF args
  <2>. QED BY <2>1, <2>2, <2>3
<1>25. CASE RollbackKeys
  BY <1>0, <1>25 DEF RollbackKeys, Goto, Fails, args, loops, trans, held, os, report, ending, op
<1>26. CASE ReleaseKeys
  BY <1>0, <1>26 DEF ReleaseKeys, Goto, Fails, args, loops, trans, held, os, report, ending, op
<1>27. CASE CallBackend
  BY <1>0, <1>27 DEF CallBackend, Goto, Fails, args, loops, trans, held, os, report, ending, op
<1>28. CASE ReleaseHeldKey
  BY <1>0, <1>28 DEF ReleaseHeldKey, Goto, Fails, args, loops, trans, held, os, report, ending, op
<1>29. CASE ReleaseHeldButton
  BY <1>0, <1>29 DEF ReleaseHeldButton, Goto, Fails, args, loops, trans, held, os, report, ending, op
<1>30. CASE Finish
  BY <1>0, <1>30 DEF Finish, Goto, Fails, args, loops, trans, held, os, report, ending, op
<1>31. CASE UNCHANGED vars
  BY <1>0, <1>31 DEF vars, Goto, Fails, args, loops, trans, held, os, report, ending, op
<1>. QED
  BY <1>1, <1>2, <1>3, <1>4, <1>5, <1>6, <1>7, <1>8, <1>9, <1>10, <1>11, <1>12, <1>13, <1>14, <1>15, <1>16, <1>17, <1>18, <1>19, <1>20, <1>21, <1>22, <1>23, <1>24, <1>25, <1>26, <1>27, <1>28, <1>29, <1>30, <1>31 DEF Next, RunStep, Returned

-----------------------------------------------------------------------------
(* A stopped run runs no further op.                                       *)

\* A step stops a run only between ops, and none leaves that for an op.
LEMMA StoppedStep == IInv /\ [Next]_vars => StoppedForGood'
<1>. SUFFICES ASSUME IInv, [Next]_vars
              PROVE  StoppedForGood'
  OBVIOUS
<1>0. TypeOK /\ StoppedForGood
  BY DEF IInv
<1>. USE DEF StoppedForGood, Stopped
<1>1. CASE Preflight
  BY <1>0, <1>1 DEF Preflight, Record, Goto, Fails, args, loops, trans, held, os, report, ending, op
<1>2. CASE SkipLine
  BY <1>0, <1>2 DEF SkipLine, Record, Goto, Fails, args, loops, trans, held, os, report, ending, op
<1>3. CASE RunLine
  BY <1>0, <1>3 DEF RunLine, Record, Goto, Fails, args, loops, trans, held, os, report, ending, op
<1>4. CASE ReportLine
  BY <1>0, <1>4 DEF ReportLine, Record, Goto, Fails, args, loops, trans, held, os, report, ending, op
<1>5. CASE CaptureOnError
  BY <1>0, <1>5 DEF CaptureOnError, Record, Goto, Fails, args, loops, trans, held, os, report, ending, op
<1>6. CASE EndLoop
  BY <1>0, <1>6 DEF EndLoop, Record, Goto, Fails, args, loops, trans, held, os, report, ending, op
<1>7. CASE PressFlag
  BY <1>0, <1>7 DEF PressFlag, Record, Goto, Fails, args, loops, trans, held, os, report, ending, op
<1>8. CASE FlagsPressed
  BY <1>0, <1>8 DEF FlagsPressed, Record, Goto, Fails, args, loops, trans, held, os, report, ending, op
<1>9. CASE LiftFlag
  BY <1>0, <1>9 DEF LiftFlag, Record, Goto, Fails, args, loops, trans, held, os, report, ending, op
<1>10. CASE NextChord
  BY <1>0, <1>10 DEF NextChord, Record, Goto, Fails, args, loops, trans, held, os, report, ending, op
<1>11. CASE SetClipboard
  BY <1>0, <1>11 DEF SetClipboard, Record, Goto, Fails, args, loops, trans, held, os, report, ending, op
<1>12. CASE PressChordKey
  BY <1>0, <1>12 DEF PressChordKey, Record, Goto, Fails, args, loops, trans, held, os, report, ending, op
<1>13. CASE ChordPressed
  BY <1>0, <1>13 DEF ChordPressed, Record, Goto, Fails, args, loops, trans, held, os, report, ending, op
<1>14. CASE UnwindChord
  BY <1>0, <1>14 DEF UnwindChord, Record, Goto, Fails, args, loops, trans, held, os, report, ending, op
<1>15. CASE LiftChordKey
  BY <1>0, <1>15 DEF LiftChordKey, Record, Goto, Fails, args, loops, trans, held, os, report, ending, op
<1>16. CASE MovePointer
  BY <1>0, <1>16 DEF MovePointer, Record, Goto, Fails, args, loops, trans, held, os, report, ending, op
<1>17. CASE ClickDown
  BY <1>0, <1>17 DEF ClickDown, Record, Goto, Fails, args, loops, trans, held, os, report, ending, op
<1>18. CASE ClickUp
  BY <1>0, <1>18 DEF ClickUp, Record, Goto, Fails, args, loops, trans, held, os, report, ending, op
<1>19. CASE DragDown
  BY <1>0, <1>19 DEF DragDown, Record, Goto, Fails, args, loops, trans, held, os, report, ending, op
<1>20. CASE DragPath
  BY <1>0, <1>20 DEF DragPath, Record, Goto, Fails, args, loops, trans, held, os, report, ending, op
<1>21. CASE DragUp
  BY <1>0, <1>21 DEF DragUp, Record, Goto, Fails, args, loops, trans, held, os, report, ending, op
<1>22. CASE HoldButton
  BY <1>0, <1>22 DEF HoldButton, Record, Goto, Fails, args, loops, trans, held, os, report, ending, op
<1>23. CASE ReleaseButton
  BY <1>0, <1>23 DEF ReleaseButton, Record, Goto, Fails, args, loops, trans, held, os, report, ending, op
<1>24. CASE HoldKeys
  BY <1>0, <1>24 DEF HoldKeys, Record, Goto, Fails, args, loops, trans, held, os, report, ending, op
<1>25. CASE RollbackKeys
  BY <1>0, <1>25 DEF RollbackKeys, Record, Goto, Fails, args, loops, trans, held, os, report, ending, op
<1>26. CASE ReleaseKeys
  BY <1>0, <1>26 DEF ReleaseKeys, Record, Goto, Fails, args, loops, trans, held, os, report, ending, op
<1>27. CASE CallBackend
  BY <1>0, <1>27 DEF CallBackend, Record, Goto, Fails, args, loops, trans, held, os, report, ending, op
<1>28. CASE ReleaseHeldKey
  BY <1>0, <1>28 DEF ReleaseHeldKey, Record, Goto, Fails, args, loops, trans, held, os, report, ending, op
<1>29. CASE ReleaseHeldButton
  BY <1>0, <1>29 DEF ReleaseHeldButton, Record, Goto, Fails, args, loops, trans, held, os, report, ending, op
<1>30. CASE Finish
  BY <1>0, <1>30 DEF Finish, Record, Goto, Fails, args, loops, trans, held, os, report, ending, op
<1>31. CASE UNCHANGED vars
  BY <1>0, <1>31 DEF vars, Goto, Fails, args, loops, trans, held, os, report, ending, op
<1>. QED
  BY <1>1, <1>2, <1>3, <1>4, <1>5, <1>6, <1>7, <1>8, <1>9, <1>10, <1>11, <1>12, <1>13, <1>14, <1>15, <1>16, <1>17, <1>18, <1>19, <1>20, <1>21, <1>22, <1>23, <1>24, <1>25, <1>26, <1>27, <1>28, <1>29, <1>30, <1>31 DEF Next, RunStep, Returned

-----------------------------------------------------------------------------
(* No action leaves an input down without an owner.                        *)

\* Every input a step leaves down, with no failed release, has an owner.
LEMMA OwnedStep == IInv /\ [Next]_vars => EveryInputOwned'
<1>. SUFFICES ASSUME IInv, [Next]_vars
              PROVE  EveryInputOwned'
  OBVIOUS
<1>0. TypeOK /\ ControlInPlace /\ EveryInputOwned
  BY DEF IInv
<1>. USE DEF EveryInputOwned, HeldInputs, OwnButton
<1>1. CASE Preflight
  BY <1>0, <1>1 DEF Preflight, Goto, Fails, args, loops, trans, held, os, report, ending, op, Presses, Lifts, LiftFails, BestEffortLift
<1>2. CASE SkipLine
  BY <1>0, <1>2 DEF SkipLine, Goto, Fails, args, loops, trans, held, os, report, ending, op, Presses, Lifts, LiftFails, BestEffortLift
<1>3. CASE RunLine
  BY <1>0, <1>3 DEF RunLine, Goto, Fails, args, loops, trans, held, os, report, ending, op, Presses, Lifts, LiftFails, BestEffortLift
<1>4. CASE ReportLine
  BY <1>0, <1>4 DEF ReportLine, Goto, Fails, args, loops, trans, held, os, report, ending, op, Presses, Lifts, LiftFails, BestEffortLift
<1>5. CASE CaptureOnError
  BY <1>0, <1>5 DEF CaptureOnError, Goto, Fails, args, loops, trans, held, os, report, ending, op, Presses, Lifts, LiftFails, BestEffortLift
<1>6. CASE EndLoop
  BY <1>0, <1>6 DEF EndLoop, Goto, Fails, args, loops, trans, held, os, report, ending, op, Presses, Lifts, LiftFails, BestEffortLift
<1>7. CASE PressFlag
  <2>1. CASE UNCHANGED <<flags, os>>
    BY <1>0, <1>7, <2>1 DEF PressFlag, Goto, Fails, args, held, os, op
  <2>2. CASE ~UNCHANGED <<flags, os>>
    <3>1. Presses(Head(queue)) /\ flags' = Append(flags, Head(queue))
      BY <1>7, <2>2 DEF PressFlag
    <3>2. Head(queue) \in Keys
      BY <1>0, <1>7, HeadTailProperties DEF PressFlag, TypeOK
    <3>3. ToSet(flags') = ToSet(flags) \cup {Head(queue)}
      BY <1>0, <3>1, <3>2, AppendedSet DEF TypeOK
    <3>4. /\ UNCHANGED <<held, chord>>
          /\ phase = "mods"
      BY <1>7 DEF PressFlag
    <3>. QED
      BY <1>0, <3>1, <3>3, <3>4 DEF Presses, held
  <2>. QED BY <2>1, <2>2
<1>8. CASE FlagsPressed
  BY <1>0, <1>8 DEF FlagsPressed, Goto, Fails, args, loops, trans, held, os, report, ending, op, Presses, Lifts, LiftFails, BestEffortLift
<1>9. CASE LiftFlag
  <2>1. CASE flags = <<>>
    BY <1>0, <1>9, <2>1 DEF LiftFlag, Goto, args, held, trans, os, op
  <2>2. CASE flags # <<>>
    <3>1. ToSet(flags) \subseteq ToSet(flags') \cup {Last(flags)}
      BY <1>0, <1>9, <2>2, FrontLastSet DEF LiftFlag, TypeOK
    <3>2. /\ Lifts(Last(flags)) \/ LiftFails(Last(flags))
          /\ UNCHANGED <<held, chord>>
          /\ phase' = "lift" /\ phase = "lift"
      BY <1>9, <2>2 DEF LiftFlag, BestEffortLift, Goto
    <3>. QED
      BY <1>0, <3>1, <3>2 DEF Lifts, LiftFails, held
  <2>. QED BY <2>1, <2>2
<1>10. CASE NextChord
  BY <1>0, <1>10 DEF NextChord, Goto, Fails, args, loops, trans, held, os, report, ending, op, Presses, Lifts, LiftFails, BestEffortLift
<1>11. CASE SetClipboard
  BY <1>0, <1>11 DEF SetClipboard, Goto, Fails, args, loops, trans, held, os, report, ending, op, Presses, Lifts, LiftFails, BestEffortLift
<1>12. CASE PressChordKey
  <2>1. CASE UNCHANGED <<chord, os>>
    BY <1>0, <1>12, <2>1 DEF PressChordKey, Goto, Fails, args, held, os, op
  <2>2. CASE ~UNCHANGED <<chord, os>>
    <3>1. Presses(Head(queue)) /\ chord' = Append(chord, Head(queue))
      BY <1>12, <2>2 DEF PressChordKey
    <3>2. Head(queue) \in Keys
      BY <1>0, <1>12, HeadTailProperties DEF PressChordKey, TypeOK
    <3>3. ToSet(chord') = ToSet(chord) \cup {Head(queue)}
      BY <1>0, <3>1, <3>2, AppendedSet DEF TypeOK
    <3>4. /\ UNCHANGED <<held, flags>>
          /\ phase = "press"
      BY <1>12 DEF PressChordKey
    <3>. QED
      BY <1>0, <3>1, <3>3, <3>4 DEF Presses, held
  <2>. QED BY <2>1, <2>2
<1>13. CASE ChordPressed
  BY <1>0, <1>13 DEF ChordPressed, Goto, Fails, args, loops, trans, held, os, report, ending, op, Presses, Lifts, LiftFails, BestEffortLift
<1>14. CASE UnwindChord
  <2>1. CASE chord = <<>>
    BY <1>0, <1>14, <2>1 DEF UnwindChord, Goto, args, held, trans, os, op
  <2>2. CASE chord # <<>>
    <3>1. ToSet(chord) \subseteq ToSet(chord') \cup {Last(chord)}
      BY <1>0, <1>14, <2>2, FrontLastSet DEF UnwindChord, TypeOK
    <3>2. /\ Lifts(Last(chord)) \/ LiftFails(Last(chord))
          /\ UNCHANGED <<held, flags>>
          /\ phase' = "unwind" /\ phase = "unwind"
      BY <1>14, <2>2 DEF UnwindChord, BestEffortLift, Goto
    <3>. QED
      BY <1>0, <3>1, <3>2 DEF Lifts, LiftFails, held
  <2>. QED BY <2>1, <2>2
<1>15. CASE LiftChordKey
  <2>1. CASE chord = <<>>
    BY <1>0, <1>15, <2>1 DEF LiftChordKey, Goto, args, held, trans, os, op
  <2>2. CASE chord # <<>> /\ Lifts(Last(chord)) /\ chord' = Front(chord)
    <3>1. ToSet(chord) \subseteq ToSet(chord') \cup {Last(chord)}
      BY <1>0, <2>2, FrontLastSet DEF TypeOK
    <3>2. UNCHANGED <<held, flags>> /\ phase = "unpress"
      BY <1>15 DEF LiftChordKey
    <3>. QED
      BY <1>0, <2>2, <3>1, <3>2 DEF Lifts, held
  <2>3. CASE \E x : LiftFails(x)
    BY <2>3 DEF LiftFails
  <2>. QED BY <1>15, <2>1, <2>2, <2>3 DEF LiftChordKey
<1>16. CASE MovePointer
  BY <1>0, <1>16 DEF MovePointer, Goto, Fails, args, loops, trans, held, os, report, ending, op, Presses, Lifts, LiftFails, BestEffortLift
<1>17. CASE ClickDown
  BY <1>0, <1>17 DEF ClickDown, Goto, Fails, args, loops, trans, held, os, report, ending, op, Presses, Lifts, LiftFails, BestEffortLift
<1>18. CASE ClickUp
  BY <1>0, <1>18 DEF ClickUp, Goto, Fails, args, loops, trans, held, os, report, ending, op, Presses, Lifts, LiftFails, BestEffortLift
<1>19. CASE DragDown
  BY <1>0, <1>19 DEF DragDown, Goto, Fails, args, loops, trans, held, os, report, ending, op, Presses, Lifts, LiftFails, BestEffortLift
<1>20. CASE DragPath
  BY <1>0, <1>20 DEF DragPath, Goto, Fails, args, loops, trans, held, os, report, ending, op, Presses, Lifts, LiftFails, BestEffortLift
<1>21. CASE DragUp
  BY <1>0, <1>21 DEF DragUp, Goto, Fails, args, loops, trans, held, os, report, ending, op, Presses, Lifts, LiftFails, BestEffortLift
<1>22. CASE HoldButton
  <2>1. CASE UNCHANGED <<buttons, os>>
    BY <1>0, <1>22, <2>1 DEF HoldButton, Goto, Fails, args, trans, os, op
  <2>2. CASE ~UNCHANGED <<buttons, os>>
    <3>1. Presses(op.btn) /\ buttons' = Hold(buttons, op.btn)
      BY <1>22, <2>2 DEF HoldButton
    <3>2. op.btn \in Buttons
      BY <1>0, <1>22, OpTyped DEF HoldButton, ControlInPlace
    <3>3. InputsOf(buttons') = InputsOf(buttons) \cup {op.btn}
      BY <1>0, <3>1, <3>2, HeldButtonsChange
    <3>4. UNCHANGED <<keys, trans>> /\ phase = "md"
      BY <1>22 DEF HoldButton
    <3>. QED
      BY <1>0, <3>1, <3>3, <3>4 DEF Presses, trans
  <2>. QED BY <2>1, <2>2
<1>23. CASE ReleaseButton
  <2>1. CASE LiftFails(op.btn)
    BY <2>1 DEF LiftFails
  <2>2. CASE Lifts(op.btn) /\ buttons' = Unhold(buttons, op.btn)
    <3>1. op.btn \in Buttons
      BY <1>0, <1>23, OpTyped DEF ReleaseButton, ControlInPlace
    <3>2. InputsOf(buttons) \subseteq InputsOf(buttons') \cup {op.btn}
      BY <1>0, <2>2, <3>1, HeldButtonsChange
    <3>3. UNCHANGED <<keys, trans>> /\ phase = "mu"
      BY <1>23 DEF ReleaseButton
    <3>. QED
      BY <1>0, <2>2, <3>2, <3>3 DEF Lifts, trans
  <2>. QED BY <1>23, <2>1, <2>2 DEF ReleaseButton
<1>24. CASE HoldKeys
  <2>1. CASE rest = <<>>
    BY <1>0, <1>24, <2>1 DEF HoldKeys, ControlInPlace, Goto, os
  <2>2. CASE rest # <<>> /\ UNCHANGED <<keys, chord, os>>
    BY <1>0, <1>24, <2>2 DEF HoldKeys, Goto, os
  <2>3. CASE rest # <<>> /\ ~UNCHANGED <<keys, chord, os>>
    <3>1. PICK k \in Keys : /\ Presses(k) /\ keys' = Hold(keys, k)
                            /\ chord' = Append(chord, k)
      BY <1>0, <1>24, <2>3, NextKeyTyped DEF HoldKeys
    <3>2. ToSet(chord') = ToSet(chord) \cup {k}
      BY <1>0, <3>1, AppendedSet DEF TypeOK
    <3>3. InputsOf(keys') = InputsOf(keys) \cup {k}
      BY <1>0, <3>1, HeldKeysChange
    <3>4. UNCHANGED <<buttons, flags>> /\ phase = "kd"
      BY <1>24 DEF HoldKeys
    <3>. QED
      BY <1>0, <3>1, <3>2, <3>3, <3>4 DEF Presses
  <2>. QED BY <2>1, <2>2, <2>3
<1>25. CASE RollbackKeys
  <2>1. CASE chord = <<>>
    BY <1>0, <1>25, <2>1 DEF RollbackKeys, Goto, os
  <2>2. CASE LiftFails(Last(chord))
    BY <2>2 DEF LiftFails
  <2>3. CASE chord # <<>> /\ Lifts(Last(chord))
    <3>1. /\ Last(chord) \in Keys
          /\ ToSet(chord) \subseteq ToSet(chord') \cup {Last(chord)}
      BY <1>0, <1>25, <2>3, FrontLastSet DEF RollbackKeys, TypeOK
    <3>2. InputsOf(keys) \subseteq InputsOf(keys') \cup {Last(chord)}
      BY <1>0, <1>25, <2>3, <3>1, HeldKeysChange DEF RollbackKeys
    <3>3. UNCHANGED <<buttons, flags>> /\ phase = "rollback"
      BY <1>25 DEF RollbackKeys
    <3>. QED
      BY <1>0, <2>3, <3>1, <3>2, <3>3 DEF Lifts
  <2>. QED BY <1>25, <2>1, <2>2, <2>3 DEF RollbackKeys, BestEffortLift
<1>26. CASE ReleaseKeys
  <2>1. CASE rest = <<>>
    BY <1>0, <1>26, <2>1 DEF ReleaseKeys, Goto, trans, os
  <2>2. CASE \E x : LiftFails(x)
    BY <2>2 DEF LiftFails
  <2>3. CASE rest # <<>> /\ ~ \E x : LiftFails(x)
    <3>1. PICK k \in Keys : Lifts(k) /\ keys' = Unhold(keys, k)
      BY <1>0, <1>26, <2>3, NextKeyTyped DEF ReleaseKeys
    <3>2. InputsOf(keys) \subseteq InputsOf(keys') \cup {k}
      BY <1>0, <3>1, HeldKeysChange
    <3>3. UNCHANGED <<buttons, trans>> /\ phase = "ku"
      BY <1>26 DEF ReleaseKeys
    <3>. QED
      BY <1>0, <3>1, <3>2, <3>3 DEF Lifts, trans
  <2>. QED BY <2>1, <2>2, <2>3
<1>27. CASE CallBackend
  BY <1>0, <1>27 DEF CallBackend, Goto, Fails, args, loops, trans, held, os, report, ending, op, Presses, Lifts, LiftFails, BestEffortLift
<1>28. CASE ReleaseHeldKey
  <2>1. CASE LiftFails(Last(keys).input)
    BY <2>1 DEF LiftFails
  <2>2. CASE Lifts(Last(keys).input)
    <3>1. InputsOf(keys) \subseteq InputsOf(keys') \cup {Last(keys).input}
      BY <1>0, <1>28, FrontLastInputs DEF ReleaseHeldKey, TypeOK
    <3>2. UNCHANGED <<buttons, trans>> /\ phase = "release"
      BY <1>28 DEF ReleaseHeldKey
    <3>. QED
      BY <1>0, <2>2, <3>1, <3>2 DEF Lifts, trans
  <2>. QED BY <1>28, <2>1, <2>2 DEF ReleaseHeldKey, BestEffortLift
<1>29. CASE ReleaseHeldButton
  <2>1. CASE LiftFails(Last(buttons).input)
    BY <2>1 DEF LiftFails
  <2>2. CASE Lifts(Last(buttons).input)
    <3>1. InputsOf(buttons) \subseteq InputsOf(buttons') \cup {Last(buttons).input}
      BY <1>0, <1>29, FrontLastInputs DEF ReleaseHeldButton, TypeOK
    <3>2. UNCHANGED <<keys, trans>> /\ phase = "release"
      BY <1>29 DEF ReleaseHeldButton
    <3>. QED
      BY <1>0, <2>2, <3>1, <3>2 DEF Lifts, trans
  <2>. QED BY <1>29, <2>1, <2>2 DEF ReleaseHeldButton, BestEffortLift
<1>30. CASE Finish
  BY <1>0, <1>30 DEF Finish, Goto, Fails, args, loops, trans, held, os, report, ending, op, Presses, Lifts, LiftFails, BestEffortLift
<1>31. CASE UNCHANGED vars
  BY <1>0, <1>31 DEF vars, Goto, Fails, args, loops, trans, held, os, report, ending, op
<1>. QED
  BY <1>1, <1>2, <1>3, <1>4, <1>5, <1>6, <1>7, <1>8, <1>9, <1>10, <1>11, <1>12, <1>13, <1>14, <1>15, <1>16, <1>17, <1>18, <1>19, <1>20, <1>21, <1>22, <1>23, <1>24, <1>25, <1>26, <1>27, <1>28, <1>29, <1>30, <1>31 DEF Next, RunStep, Returned

-----------------------------------------------------------------------------
(* Steps by what they do to the report.                                    *)

\* The steps that report a line.
Reports == SkipLine \/ ReportLine \/ CaptureOnError

\* A step that neither reports nor finishes: where the run stands between its
\* lines changes only from preflight to the loop, in the loop, and out of it.
Quiet ==
  /\ UNCHANGED <<args, line, report, exit>>
  /\ phase' = "errcap" <=> phase = "errcap"
  /\ phase' = "done" <=> phase = "done"
  /\ phase' = "release" => phase = "release" \/ (phase = "loop" /\ line > Len(prog))
  /\ phase' \in {"preflight", "aborted"} => phase \in {"preflight", "aborted"}
  /\ phase # "release" => UNCHANGED released

LEMMA StepQuiet ==
  ASSUME IInv, [Next]_vars
  PROVE  Reports \/ Finish \/ Quiet
<1>0. TypeOK /\ ControlInPlace
  BY DEF IInv
<1>1. CASE Preflight
  BY <1>1 DEF Quiet, Preflight, Goto, Fails, args, report, ending
<1>2. CASE RunLine
  <2>1. op.kind \in Kinds
    BY <1>0, <1>2, OpTyped, ProgramLines DEF RunLine
  <2>2. phase' \in {"mods", "kd", "ku", "mu", "clip", "call", "move", "md"}
    BY <1>2, <2>1 DEF RunLine, Kinds, Entry
  <2>. QED
    BY <1>2, <2>2 DEF Quiet, RunLine, ending
<1>3. CASE EndLoop
  BY <1>3 DEF Quiet, EndLoop, Goto, Fails, args, report, ending
<1>4. CASE PressFlag
  BY <1>4 DEF Quiet, PressFlag, Goto, Fails, args, report, ending
<1>5. CASE FlagsPressed
  BY <1>5 DEF Quiet, FlagsPressed, Goto, Fails, args, report, ending
<1>6. CASE LiftFlag
  BY <1>6 DEF Quiet, LiftFlag, Goto, Fails, args, report, ending
<1>7. CASE NextChord
  BY <1>7 DEF Quiet, NextChord, Goto, Fails, args, report, ending
<1>8. CASE SetClipboard
  BY <1>8 DEF Quiet, SetClipboard, Goto, Fails, args, report, ending
<1>9. CASE PressChordKey
  BY <1>9 DEF Quiet, PressChordKey, Goto, Fails, args, report, ending
<1>10. CASE ChordPressed
  BY <1>10 DEF Quiet, ChordPressed, Goto, Fails, args, report, ending
<1>11. CASE UnwindChord
  BY <1>11 DEF Quiet, UnwindChord, Goto, Fails, args, report, ending
<1>12. CASE LiftChordKey
  BY <1>12 DEF Quiet, LiftChordKey, Goto, Fails, args, report, ending
<1>13. CASE MovePointer
  BY <1>13 DEF Quiet, MovePointer, Goto, Fails, args, report, ending
<1>14. CASE ClickDown
  BY <1>14 DEF Quiet, ClickDown, Goto, Fails, args, report, ending
<1>15. CASE ClickUp
  BY <1>15 DEF Quiet, ClickUp, Goto, Fails, args, report, ending
<1>16. CASE DragDown
  BY <1>16 DEF Quiet, DragDown, Goto, Fails, args, report, ending
<1>17. CASE DragPath
  BY <1>17 DEF Quiet, DragPath, Goto, Fails, args, report, ending
<1>18. CASE DragUp
  BY <1>18 DEF Quiet, DragUp, Goto, Fails, args, report, ending
<1>19. CASE HoldButton
  BY <1>19 DEF Quiet, HoldButton, Goto, Fails, args, report, ending
<1>20. CASE ReleaseButton
  BY <1>20 DEF Quiet, ReleaseButton, Goto, Fails, args, report, ending
<1>21. CASE HoldKeys
  BY <1>21 DEF Quiet, HoldKeys, Goto, Fails, args, report, ending
<1>22. CASE RollbackKeys
  BY <1>22 DEF Quiet, RollbackKeys, Goto, Fails, args, report, ending
<1>23. CASE ReleaseKeys
  BY <1>23 DEF Quiet, ReleaseKeys, Goto, Fails, args, report, ending
<1>24. CASE CallBackend
  BY <1>24 DEF Quiet, CallBackend, Goto, Fails, args, report, ending
<1>25. CASE ReleaseHeldKey
  BY <1>25 DEF Quiet, ReleaseHeldKey, Goto, Fails, args, report, ending
<1>26. CASE ReleaseHeldButton
  BY <1>26 DEF Quiet, ReleaseHeldButton, Goto, Fails, args, report, ending
<1>27. CASE UNCHANGED vars
  BY <1>27 DEF Quiet, vars, args, report, ending
<1>. QED
  BY <1>1, <1>2, <1>3, <1>4, <1>5, <1>6, <1>7, <1>8, <1>9, <1>10, <1>11, <1>12, <1>13, <1>14, <1>15, <1>16, <1>17, <1>18, <1>19, <1>20, <1>21, <1>22, <1>23, <1>24, <1>25, <1>26, <1>27 DEF Next, RunStep, Returned, Reports

-----------------------------------------------------------------------------
(* What recording a result does to the report.                             *)

\* The counts of the report are natural numbers.
LEMMA CountNat ==
  ASSUME TypeOK, NEW S, NEW srcs
  PROVE  Count(S, srcs) \in Nat
<1>. DEFINE T == {i \in DOMAIN results : results[i].status \in S /\ results[i].src \in srcs}
<1>1. DOMAIN results = 1..Len(results) /\ Len(results) \in Nat
  BY LenProperties DEF TypeOK
<1>2. IsFiniteSet(1..Len(results))
  BY <1>1, FS_Interval
<1>3. T \in SUBSET (1..Len(results))
  BY <1>1
<1>4. Cardinality(T) \in Nat
  BY <1>2, <1>3, FS_Subset, FS_CardinalityType
<1>. QED
  BY <1>4 DEF Count

\* The result is the last one, and the others stay where they are.
LEMMA Recorded ==
  ASSUME TypeOK, NEW r \in Result, Record(r)
  PROVE  /\ DOMAIN results = 1..Len(results) /\ Len(results) \in Nat
         /\ DOMAIN results' = 1..(Len(results) + 1)
         /\ \A i \in 1..Len(results) : results'[i] = results[i]
         /\ results'[Len(results) + 1] = r
<1>1. results \in Seq(Result) /\ results' = Append(results, r)
  BY DEF TypeOK, Record
<1>2. DOMAIN results = 1..Len(results) /\ Len(results) \in Nat
  BY <1>1, LenProperties
<1>3. /\ results' \in Seq(Result) /\ Len(results') = Len(results) + 1
      /\ \A i \in 1..Len(results) : results'[i] = results[i]
      /\ results'[Len(results) + 1] = r
  BY <1>1, AppendProperties
<1>. QED
  BY <1>2, <1>3, LenProperties

\* It is counted where its status and source say.
LEMMA RecordedCount ==
  ASSUME TypeOK, NEW r \in Result, Record(r), NEW S, NEW srcs
  PROVE  Count(S, srcs)' = IF r.status \in S /\ r.src \in srcs
                           THEN Count(S, srcs) + 1 ELSE Count(S, srcs)
<1>. DEFINE T == {i \in DOMAIN results : results[i].status \in S /\ results[i].src \in srcs}
            U == {i \in DOMAIN results' : results'[i].status \in S /\ results'[i].src \in srcs}
            k == Len(results) + 1
<1>1. PICK m \in Nat : m = Len(results)
  BY Recorded
<1>2. /\ DOMAIN results = 1..m /\ DOMAIN results' = 1..(m + 1)
      /\ \A i \in 1..m : results'[i] = results[i]
      /\ results'[m + 1] = r
  BY <1>1, Recorded
<1>3. T \in SUBSET (1..m) /\ IsFiniteSet(T) /\ m + 1 \notin T
  <2>1. IsFiniteSet(1..m)
    BY FS_Interval
  <2>2. T \in SUBSET (1..m)
    BY <1>2
  <2>. QED
    BY <2>1, <2>2, FS_Subset
<1>4. Count(S, srcs) = Cardinality(T) /\ Count(S, srcs)' = Cardinality(U)
  BY DEF Count
<1>5. U = IF r.status \in S /\ r.src \in srcs THEN T \cup {m + 1} ELSE T
  BY <1>2
<1>. HIDE DEF T, U
<1>. QED
  BY <1>3, <1>4, <1>5, FS_AddElement

\* A result of a line, counted as Record counts it, keeps the totals true.
LEMMA RecordedTotals ==
  ASSUME TypeOK, NEW r \in Result, Record(r), r.src # "release",
         r.status = "skip" => r.src = "op",
         totals.ok = Count({"ok", "warn"}, {"op", "cap"}),
         totals.err = Count({"err"}, {"op", "cap"}),
         totals.skip = Count({"skip"}, {"op"}),
         \A i \in DOMAIN results : results[i].src # "release"
  PROVE  /\ totals'.ok = Count({"ok", "warn"}, {"op", "cap"})'
         /\ totals'.err = Count({"err"}, {"op", "cap"})'
         /\ totals'.skip = Count({"skip"}, {"op"})'
         /\ totals'.err > 0 <=> totals.err > 0 \/ r.status = "err"
         /\ \A i \in DOMAIN results' : results'[i].src # "release"
<1>1. r.status \in {"ok", "warn", "err", "skip"} /\ r.src \in {"op", "cap"}
  BY DEF Result
<1>2. /\ totals \in [ok : Nat, err : Nat, skip : Nat]
      /\ totals' = Tally(r.status)
  BY DEF TypeOK, Record
<1>3. /\ totals'.ok = IF r.status \in {"ok", "warn"} THEN totals.ok + 1 ELSE totals.ok
      /\ totals'.err = IF r.status = "err" THEN totals.err + 1 ELSE totals.err
      /\ totals'.skip = IF r.status = "skip" THEN totals.skip + 1 ELSE totals.skip
  <2>1. CASE r.status = "err"
    BY <1>2, <2>1 DEF Tally
  <2>2. CASE r.status = "skip"
    BY <1>2, <2>2 DEF Tally
  <2>3. CASE r.status \in {"ok", "warn"}
    BY <1>2, <2>3 DEF Tally
  <2>. QED
    BY <1>1, <2>1, <2>2, <2>3
<1>4. totals'.ok = Count({"ok", "warn"}, {"op", "cap"})'
  BY <1>1, <1>3, RecordedCount
<1>5. totals'.err = Count({"err"}, {"op", "cap"})'
  BY <1>1, <1>3, RecordedCount
<1>6. totals'.skip = Count({"skip"}, {"op"})'
  BY <1>1, <1>3, RecordedCount
<1>7. totals'.err > 0 <=> totals.err > 0 \/ r.status = "err"
  BY <1>2, <1>3
<1>8. \A i \in DOMAIN results' : results'[i].src # "release"
  BY Recorded
<1>. QED
  BY <1>4, <1>5, <1>6, <1>7, <1>8

\* The warns follow the results, one per released input.
LEMMA Warned ==
  ASSUME TypeOK, Finish
  PROVE  /\ Len(results) \in Nat /\ DOMAIN results = 1..Len(results)
         /\ Len(released) \in Nat /\ DOMAIN released = 1..Len(released)
         /\ DOMAIN results' = 1..(Len(results) + Len(released))
         /\ \A i \in 1..Len(results) : results'[i] = results[i]
         /\ \A i \in 1..Len(released) : results'[Len(results) + i] =
              [line |-> released[i].line, status |-> "warn", src |-> "release"]
<1>1. results \in Seq(Result) /\ Warns \in Seq(Result) /\ released \in Seq(HeldKey)
  BY WarnsTyped DEF TypeOK
<1>2. PICK m \in Nat : m = Len(results) /\ DOMAIN results = 1..m
  BY <1>1, LenProperties
<1>3. PICK w \in Nat : w = Len(released) /\ DOMAIN released = 1..w
  BY <1>1, LenProperties
<1>4. Len(Warns) = w
  <2>1. DOMAIN Warns = 1..w
    BY <1>3 DEF Warns
  <2>. QED
    BY <1>1, <2>1, LenProperties
<1>5. results' = results \o Warns
  BY DEF Finish
<1>6. /\ results' \in Seq(Result) /\ Len(results') = m + w
      /\ \A i \in 1..(m + w) : results'[i] = IF i <= m THEN results[i] ELSE Warns[i - m]
  BY <1>1, <1>2, <1>4, <1>5, ConcatProperties
<1>7. \A i \in 1..m : results'[i] = results[i]
  BY <1>6
<1>8. ASSUME NEW i \in 1..w
      PROVE  results'[m + i] = [line |-> released[i].line, status |-> "warn", src |-> "release"]
  <2>1. m + i \in 1..(m + w) /\ ~(m + i <= m) /\ (m + i) - m = i
    OBVIOUS
  <2>2. results'[m + i] = Warns[i]
    BY <1>6, <2>1
  <2>. QED
    BY <1>3, <2>2 DEF Warns
<1>9. DOMAIN results' = 1..(m + w)
  BY <1>6, LenProperties
<1>. QED
  BY <1>2, <1>3, <1>7, <1>8, <1>9

\* They change no count but their own.
LEMMA WarnedCount ==
  ASSUME TypeOK, Finish, \A i \in DOMAIN results : results[i].src # "release"
  PROVE  /\ \A S, srcs : "release" \notin srcs => Count(S, srcs)' = Count(S, srcs)
         /\ Count({"warn"}, {"release"})' = Len(released)
<1>1. PICK m \in Nat : m = Len(results) /\ DOMAIN results = 1..m
  BY Warned
<1>2. PICK w \in Nat : w = Len(released)
  BY Warned
<1>6. /\ DOMAIN results' = 1..(m + w)
      /\ \A i \in 1..m : results'[i] = results[i]
      /\ \A i \in 1..w : results'[m + i] =
           [line |-> released[i].line, status |-> "warn", src |-> "release"]
  BY <1>1, <1>2, Warned
<1>7. ASSUME NEW i \in (m + 1)..(m + w)
      PROVE  results'[i].src = "release" /\ results'[i].status = "warn"
  <2>1. PICK j \in 1..w : i = m + j
    <3>1. i - m \in 1..w /\ i = m + (i - m)
      OBVIOUS
    <3>. QED
      BY <3>1
  <2>2. results'[m + j] = [line |-> released[j].line, status |-> "warn", src |-> "release"]
    BY <1>6
  <2>3. results'[m + j].src = "release" /\ results'[m + j].status = "warn"
    BY <2>2
  <2>. QED
    BY <2>1, <2>3
<1>3. ASSUME NEW S, NEW srcs, "release" \notin srcs
      PROVE  Count(S, srcs)' = Count(S, srcs)
  <2>1. ASSUME NEW i \in 1..(m + w)
        PROVE  results'[i].src \in srcs => i \in 1..m
    BY <1>7, <1>3
  <2>2. 1..m \subseteq 1..(m + w)
    OBVIOUS
  <2>3. {i \in 1..(m + w) : results'[i].status \in S /\ results'[i].src \in srcs}
        = {i \in 1..m : results'[i].status \in S /\ results'[i].src \in srcs}
    BY <2>1, <2>2
  <2>4. {i \in 1..m : results'[i].status \in S /\ results'[i].src \in srcs}
        = {i \in 1..m : results[i].status \in S /\ results[i].src \in srcs}
    BY <1>6
  <2>. QED
    BY <1>1, <1>6, <2>3, <2>4 DEF Count
<1>4. {i \in DOMAIN results' : results'[i].status \in {"warn"} /\ results'[i].src \in {"release"}}
      = (m + 1)..(m + w)
  <2>1. \A i \in 1..m : results'[i].src # "release"
    BY <1>1, <1>6
  <2>2. \A i \in 1..(m + w) : results'[i].src = "release" => i \in (m + 1)..(m + w)
    BY <2>1
  <2>3. (m + 1)..(m + w) \subseteq 1..(m + w)
    OBVIOUS
  <2>. QED
    BY <1>6, <1>7, <2>2, <2>3
<1>5. Cardinality((m + 1)..(m + w)) = w
  BY FS_Interval
<1>. QED
  BY <1>2, <1>3, <1>4, <1>5 DEF Count

\* A report extends the lines reported by at most the one it is about.
LEMMA ReportedNext ==
  ASSUME IInv, Reports
  PROVE  \E r \in Result :
           /\ Record(r) /\ r.src # "release" /\ (r.status = "skip" => r.src = "op")
           /\ IF r.src = "op" THEN r.line = Reported + 1 /\ Reported' = Reported + 1
                              ELSE Reported' = Reported
           /\ failed' = (failed \/ (r.src = "op" /\ r.status = "err"))
           /\ phase \in {"loop", "report", "errcap"} /\ phase' \in {"loop", "errcap"}
           /\ phase = "errcap" <=> r.src = "cap"
           /\ phase' = "errcap" => r.status = "err"
           /\ line' <= Len(prog) + 1
           /\ UNCHANGED <<args, released, exit>>
<1>. DEFINE Goal(r) ==
           /\ Record(r) /\ r.src # "release" /\ (r.status = "skip" => r.src = "op")
           /\ IF r.src = "op" THEN r.line = Reported + 1 /\ Reported' = Reported + 1
                              ELSE Reported' = Reported
           /\ failed' = (failed \/ (r.src = "op" /\ r.status = "err"))
           /\ phase \in {"loop", "report", "errcap"} /\ phase' \in {"loop", "errcap"}
           /\ phase = "errcap" <=> r.src = "cap"
           /\ phase' = "errcap" => r.status = "err"
           /\ line' <= Len(prog) + 1
           /\ UNCHANGED <<args, released, exit>>
<1>. SUFFICES \E r \in Result : Goal(r)
  OBVIOUS
<1>0. /\ TypeOK /\ ControlInPlace /\ line \in Nat \ {0} /\ Len(prog) \in Nat
      /\ failed \in BOOLEAN
  <2>1. prog \in Seq(Op)
    BY ProgramsAssumption DEF IInv, TypeOK
  <2>. QED
    BY <2>1, LenProperties DEF IInv, TypeOK
<1>1. CASE SkipLine
  <2>. DEFINE r == [line |-> line, status |-> "skip", src |-> "op"]
  <2>1. r \in Result
    BY <1>0 DEF Result
  <2>2. Reported = line - 1 /\ Reported' = line
    BY <1>0, <1>1 DEF SkipLine, Reported
  <2>3. Goal(r)
    BY <1>0, <1>1, <2>2 DEF SkipLine, ending
  <2>. QED
    BY <2>1, <2>3
<1>2. CASE ReportLine
  <2>. DEFINE r == [line |-> line, status |-> status, src |-> "op"]
  <2>1. r \in Result
    BY <1>0 DEF Result, TypeOK
  <2>2. Reported = line - 1 /\ Reported' = line
    BY <1>0, <1>2 DEF ReportLine, Reported
  <2>3. line <= Len(prog) /\ line' \in {line, line + 1}
    <3>1. line \in DOMAIN prog
      BY <1>0, <1>2 DEF ControlInPlace, ReportLine
    <3>2. prog \in Seq(Op)
      BY <1>0, ProgramsAssumption DEF TypeOK
    <3>. QED
      BY <1>2, <3>1, <3>2, LenProperties DEF ReportLine
  <2>4. status \in {"ok", "warn", "err"}
    BY <1>0 DEF TypeOK
  <2>5. Goal(r)
    <3>1. line' <= Len(prog) + 1
      BY <1>0, <2>3
    <3>2. failed' = (failed \/ (r.src = "op" /\ r.status = "err"))
      BY <1>2 DEF ReportLine
    <3>. QED
      BY <1>0, <1>2, <2>2, <2>4, <3>1, <3>2 DEF ReportLine, ending
  <2>. QED
    BY <2>1, <2>5
<1>3. CASE CaptureOnError
  <2>1. PICK s \in {"ok", "err"} : Record([line |-> line, status |-> s, src |-> "cap"])
    BY <1>3 DEF CaptureOnError
  <2>. DEFINE r == [line |-> line, status |-> s, src |-> "cap"]
  <2>2. r \in Result
    BY <1>0 DEF Result
  <2>3. Reported = line /\ Reported' = line
    BY <1>0, <1>3 DEF CaptureOnError, Reported
  <2>4. line <= Len(prog)
    <3>1. line \in DOMAIN prog
      BY <1>0, <1>3 DEF ControlInPlace, CaptureOnError
    <3>2. prog \in Seq(Op)
      BY <1>0, ProgramsAssumption DEF TypeOK
    <3>. QED
      BY <3>1, <3>2, LenProperties
  <2>5. Goal(r)
    <3>1. failed' = (failed \/ (r.src = "op" /\ r.status = "err"))
      BY <1>0, <1>3 DEF CaptureOnError
    <3>2. /\ phase = "errcap" /\ phase' = "loop" /\ line' <= Len(prog) + 1
          /\ UNCHANGED <<args, released, exit>>
      BY <1>0, <1>3, <2>4 DEF CaptureOnError, ending
    <3>. QED
      BY <2>1, <2>3, <3>1, <3>2
  <2>. QED
    BY <2>2, <2>5
<1>. QED
  BY <1>1, <1>2, <1>3 DEF Reports

\* The report keeps pace with the line loop.
LEMMA ResultsStep ==
  ASSUME IInv, [Next]_vars
  PROVE  ResultsInPlace'
<1>0. TypeOK /\ ResultsInPlace
  BY DEF IInv
<1>1. CASE Quiet
  <2>1. Reported' = Reported
    BY <1>1 DEF Quiet, Reported
  <2>2. UNCHANGED <<prog, opt, line, results, streamed>>
    BY <1>1 DEF Quiet, args, report
  <2>3. /\ phase' \in {"release", "done"} => line = Len(prog) + 1
        /\ phase' \in {"preflight", "aborted"} => results = <<>> /\ line = 1
    <3>1. line \in Nat /\ Len(prog) \in Nat
      <4>1. prog \in Seq(Op)
        BY <1>0, ProgramsAssumption DEF TypeOK
      <4>. QED
        BY <1>0, <4>1, LenProperties DEF TypeOK
    <3>. QED
      BY <1>0, <1>1, <3>1 DEF Quiet, ResultsInPlace
  <2>. QED
    BY <1>0, <2>1, <2>2, <2>3 DEF ResultsInPlace
<1>2. CASE Finish
  <2>1. /\ UNCHANGED <<prog, opt, line>> /\ phase = "release" /\ phase' = "done"
        /\ streamed' = IF opt.stream THEN streamed \o Warns ELSE streamed
        /\ results' = results \o Warns
    BY <1>2 DEF Finish, args
  <2>2. opt'.stream => streamed' = results'
    BY <1>0, <2>1 DEF ResultsInPlace
  <2>3. Reported' = Reported
    BY <2>1 DEF Reported
  <2>4. PICK m \in Nat, w \in Nat : m = Len(results) /\ w = Len(released)
    BY <1>0, <1>2, Warned
  <2>5. /\ DOMAIN results = 1..m /\ DOMAIN results' = 1..(m + w)
        /\ \A i \in 1..m : results'[i] = results[i]
        /\ \A i \in 1..w : results'[m + i] =
             [line |-> released[i].line, status |-> "warn", src |-> "release"]
    BY <1>0, <1>2, <2>4, Warned
  <2>6. \A i \in 1..(m + w) : results'[i].src = "op" => i \in 1..m
    <3>. SUFFICES ASSUME NEW i \in 1..(m + w), i \notin 1..m
                  PROVE  results'[i].src # "op"
      OBVIOUS
    <3>1. PICK j \in 1..w : i = m + j
      <4>1. i - m \in 1..w /\ i = m + (i - m)
        OBVIOUS
      <4>. QED
        BY <4>1
    <3>2. results'[m + j] = [line |-> released[j].line, status |-> "warn", src |-> "release"]
      BY <2>5
    <3>3. results'[m + j].src = "release"
      BY <3>2
    <3>. QED
      BY <3>1, <3>3
  <2>7. 1..m \subseteq 1..(m + w)
    OBVIOUS
  <2>8. \A i \in DOMAIN results' : results'[i].src = "op" =>
          i \in DOMAIN results /\ results'[i] = results[i]
    BY <2>5, <2>6
  <2>9. \A i \in DOMAIN results : i \in DOMAIN results' /\ results'[i] = results[i]
    BY <2>5, <2>7
  <2>10. \A i \in DOMAIN results' : results'[i].src = "op" => results'[i].line \in 1..Reported'
    BY <1>0, <2>3, <2>8 DEF ResultsInPlace
  <2>11. \A l \in 1..Reported' : \E i \in DOMAIN results' :
           results'[i].src = "op" /\ results'[i].line = l
    BY <1>0, <2>3, <2>9 DEF ResultsInPlace
  <2>12. \A i, j \in DOMAIN results' :
           results'[i].src = "op" /\ results'[j].src = "op" /\ i < j
             => results'[i].line < results'[j].line
    BY <1>0, <2>8 DEF ResultsInPlace
  <2>. QED
    BY <1>0, <2>1, <2>2, <2>10, <2>11, <2>12 DEF ResultsInPlace
<1>3. CASE Reports
  <2>1. PICK r \in Result :
          /\ Record(r)
          /\ IF r.src = "op" THEN r.line = Reported + 1 /\ Reported' = Reported + 1
                             ELSE Reported' = Reported
          /\ phase' \in {"loop", "errcap"}
          /\ line' <= Len(prog) + 1
          /\ UNCHANGED args
    BY <1>3, ReportedNext
  <2>2. PICK m \in Nat : m = Len(results)
    BY <1>0, <2>1, Recorded
  <2>3. /\ DOMAIN results = 1..m /\ DOMAIN results' = 1..(m + 1)
        /\ \A i \in 1..m : results'[i] = results[i]
        /\ results'[m + 1] = r
    BY <1>0, <2>1, <2>2, Recorded
  <2>4. PICK k \in Nat : k = Reported
    BY <1>0 DEF Reported, TypeOK
  <2>5. /\ \A i \in 1..m : results[i].src = "op" => results[i].line \in 1..k
        /\ \A l \in 1..k : \E i \in 1..m : results[i].src = "op" /\ results[i].line = l
        /\ \A i, j \in 1..m :
             results[i].src = "op" /\ results[j].src = "op" /\ i < j
               => results[i].line < results[j].line
    BY <1>0, <2>3, <2>4 DEF ResultsInPlace
  <2>6. PICK k1 \in Nat : k1 = Reported' /\ k1 = IF r.src = "op" THEN k + 1 ELSE k
    BY <2>1, <2>4
  <2>7. r.src = "op" => r.line = k + 1
    BY <2>1, <2>4
  <2>8. \A i \in 1..(m + 1) : results'[i].src = "op" => results'[i].line \in 1..k1
    BY <2>3, <2>5, <2>6, <2>7
  <2>9. ASSUME NEW l \in 1..k1
        PROVE  \E i \in 1..(m + 1) : results'[i].src = "op" /\ results'[i].line = l
    <3>1. CASE l \in 1..k
      <4>1. PICK i \in 1..m : results[i].src = "op" /\ results[i].line = l
        BY <2>5, <3>1
      <4>2. i \in 1..(m + 1) /\ results'[i] = results[i]
        BY <2>3
      <4>. QED
        BY <4>1, <4>2
    <3>2. CASE l \notin 1..k
      <4>1. r.src = "op" /\ l = k + 1
        BY <2>6, <3>2
      <4>. QED
        BY <2>3, <2>7, <4>1
    <3>. QED
      BY <3>1, <3>2
  <2>10. ASSUME NEW i \in 1..(m + 1), NEW j \in 1..(m + 1),
                results'[i].src = "op", results'[j].src = "op", i < j
         PROVE  results'[i].line < results'[j].line
    <3>1. i \in 1..m /\ results'[i] = results[i]
      BY <2>3, <2>10
    <3>2. CASE j \in 1..m
      BY <2>3, <2>5, <2>10, <3>1, <3>2
    <3>3. CASE j = m + 1
      <4>1. results'[j].line = k + 1
        BY <2>3, <2>7, <2>10, <3>3
      <4>2. results[i].line \in 1..k
        BY <2>5, <2>10, <3>1
      <4>. QED
        BY <3>1, <4>1, <4>2
    <3>. QED
      BY <3>2, <3>3
  <2>11. opt'.stream => streamed' = results'
    BY <1>0, <2>1 DEF ResultsInPlace, Record, args
  <2>12. prog' = prog
    BY <2>1 DEF args
  <2>. QED
    BY <2>1, <2>3, <2>6, <2>8, <2>9, <2>10, <2>11, <2>12 DEF ResultsInPlace
<1>. QED
  BY <1>1, <1>2, <1>3, StepQuiet

\* The counters keep pace with the report.
LEMMA TotalsStep ==
  ASSUME IInv, [Next]_vars
  PROVE  TotalsInPlace'
<1>0. TypeOK /\ TotalsInPlace
  BY DEF IInv
<1>1. CASE Quiet
  <2>1. \A S, srcs : Count(S, srcs)' = Count(S, srcs)
    BY <1>1 DEF Quiet, report, Count
  <2>2. UNCHANGED <<results, totals, failed, exit>>
    BY <1>1 DEF Quiet, report
  <2>3. /\ phase' = "errcap" <=> phase = "errcap"
        /\ phase' = "done" <=> phase = "done"
        /\ phase = "done" => released' = released
    BY <1>1 DEF Quiet
  <2>. QED
    BY <1>0, <2>1, <2>2, <2>3 DEF TotalsInPlace
<1>2. CASE Finish
  <2>1. /\ phase = "release" /\ phase' = "done" /\ UNCHANGED <<totals, failed, released>>
        /\ exit' = IF failed THEN "failure" ELSE "ok"
    BY <1>2 DEF Finish
  <2>2. \A i \in DOMAIN results : results[i].src # "release"
    BY <1>0, <2>1 DEF TotalsInPlace
  <2>3. /\ \A S, srcs : "release" \notin srcs => Count(S, srcs)' = Count(S, srcs)
        /\ Count({"warn"}, {"release"})' = Len(released)
    BY <1>0, <1>2, <2>2, WarnedCount
  <2>4. /\ totals'.ok = Count({"ok", "warn"}, {"op", "cap"})'
        /\ totals'.err = Count({"err"}, {"op", "cap"})'
        /\ totals'.skip = Count({"skip"}, {"op"})'
    BY <1>0, <2>1, <2>3 DEF TotalsInPlace
  <2>5. exit' = "failure" <=> failed'
    BY <2>1, Zenon
  <2>. QED
    BY <1>0, <2>1, <2>3, <2>4, <2>5 DEF TotalsInPlace
<1>3. CASE Reports
  <2>1. PICK r \in Result :
           /\ Record(r) /\ r.src # "release" /\ (r.status = "skip" => r.src = "op")
           /\ failed' = (failed \/ (r.src = "op" /\ r.status = "err"))
           /\ phase \in {"loop", "report", "errcap"} /\ phase' \in {"loop", "errcap"}
           /\ phase = "errcap" <=> r.src = "cap"
           /\ phase' = "errcap" => r.status = "err"
    BY <1>3, ReportedNext
  <2>2. \A i \in DOMAIN results : results[i].src # "release"
    BY <1>0, <2>1 DEF TotalsInPlace
  <2>3. /\ totals'.ok = Count({"ok", "warn"}, {"op", "cap"})'
        /\ totals'.err = Count({"err"}, {"op", "cap"})'
        /\ totals'.skip = Count({"skip"}, {"op"})'
        /\ totals'.err > 0 <=> totals.err > 0 \/ r.status = "err"
        /\ \A i \in DOMAIN results' : results'[i].src # "release"
    BY <1>0, <2>1, <2>2, RecordedTotals DEF TotalsInPlace
  <2>4. r.src \in {"op", "cap"}
    BY <2>1 DEF Result
  <2>5. failed' <=> totals'.err > 0
    BY <1>0, <2>1, <2>3, <2>4 DEF TotalsInPlace
  <2>6. phase' = "errcap" => failed'
    BY <2>1, <2>3, <2>5
  <2>. QED
    BY <2>1, <2>3, <2>5, <2>6 DEF TotalsInPlace
<1>. QED
  BY <1>1, <1>2, <1>3, StepQuiet

-----------------------------------------------------------------------------
(* What is held names lines that succeed.                                  *)

\* A line that was reported ok stays so.
LEMMA OkLineStays ==
  ASSUME IInv, [Next]_vars, NEW l, OkLine(l)
  PROVE  OkLine(l)'
<1>0. TypeOK
  BY DEF IInv
<1>1. CASE Quiet
  BY <1>1 DEF Quiet, report, OkLine
<1>2. CASE Finish
  <2>1. \A i \in DOMAIN results : i \in DOMAIN results' /\ results'[i] = results[i]
    BY <1>0, <1>2, Warned
  <2>. QED
    BY <2>1 DEF OkLine, ToSet
<1>3. CASE Reports
  <2>1. PICK r \in Result : Record(r)
    BY <1>3, ReportedNext
  <2>2. \A i \in DOMAIN results : i \in DOMAIN results' /\ results'[i] = results[i]
    BY <1>0, <2>1, Recorded
  <2>. QED
    BY <2>2 DEF OkLine, ToSet
<1>. QED
  BY <1>1, <1>2, <1>3, StepQuiet

\* The line numbers never go back.
LEMMA LineGrows ==
  ASSUME IInv, [Next]_vars
  PROVE  line' \in {line, line + 1}
<1>1. CASE Quiet
  BY <1>1 DEF Quiet
<1>2. CASE Finish \/ Reports
  BY <1>2 DEF Finish, Reports, SkipLine, ReportLine, CaptureOnError
<1>. QED
  BY <1>1, <1>2, StepQuiet

\* What an earlier line took stays accounted for.
LEMMA SoFarStays ==
  ASSUME IInv, [Next]_vars, NEW e, e.line \in Nat, TakenSoFar(e)
  PROVE  TakenSoFar(e)'
<1>1. OkLine(e.line)'
  BY OkLineStays DEF TakenSoFar
<1>2. e.line < line'
  BY LineGrows DEF TakenSoFar, IInv, TypeOK
<1>. QED
  BY <1>1, <1>2 DEF TakenSoFar

\* The action of a phase that owns one.
LEMMA ActionOfPhase ==
  ASSUME Next
  PROVE  /\ phase = "kd" => HoldKeys
         /\ phase = "rollback" => RollbackKeys
         /\ phase = "lift" => LiftFlag
         /\ phase = "report" => ReportLine
         /\ phase = "md" => HoldButton
BY DEF Next, RunStep, Returned, Preflight, SkipLine, RunLine, ReportLine,
     CaptureOnError, EndLoop, PressFlag, FlagsPressed, LiftFlag, NextChord,
     SetClipboard, PressChordKey, ChordPressed, UnwindChord, LiftChordKey,
     MovePointer, ClickDown, ClickUp, DragDown, DragPath, DragUp, HoldButton,
     ReleaseButton, HoldKeys, RollbackKeys, ReleaseKeys, CallBackend,
     ReleaseHeldKey, ReleaseHeldButton, Finish

\* The running line's own entries stay its own until it is reported ok.
LEMMA HereStays ==
  ASSUME IInv, Next, NEW e, e.line \in Nat, TakenHere(e),
         phase \in {"kd", "rollback", "lift", "report"},
         phase = "rollback" => chord # <<>>
  PROVE  \/ TakenSoFar(e)'
         \/ TakenHere(e)' /\ phase' \in {"lift", "report"}
         \/ /\ TakenHere(e)' /\ phase' \in {"kd", "rollback"}
            /\ phase \notin {"lift", "report"}
<1>1. CASE phase = "kd"
  <2>1. HoldKeys
    BY <1>1, ActionOfPhase
  <2>2. line' = line /\ phase' \in {"kd", "rollback", "lift"}
    BY <2>1 DEF HoldKeys, Goto
  <2>3. status' = status \/ phase' = "rollback"
    BY <2>1 DEF HoldKeys, Goto
  <2>. QED
    BY <1>1, <2>2, <2>3 DEF TakenHere
<1>2. CASE phase = "rollback"
  <2>1. RollbackKeys
    BY <1>2, ActionOfPhase
  <2>2. line' = line /\ phase' = "rollback"
    BY <1>2, <2>1 DEF RollbackKeys, Goto
  <2>. QED
    BY <1>2, <2>2 DEF TakenHere
<1>3. CASE phase = "lift"
  <2>1. LiftFlag
    BY <1>3, ActionOfPhase
  <2>2. line' = line /\ phase' \in {"lift", "report"} /\ status' = status
    BY <2>1 DEF LiftFlag, Goto
  <2>. QED
    BY <1>3, <2>2 DEF TakenHere
<1>4. CASE phase = "report"
  <2>1. ReportLine /\ status = "ok" /\ e.line = line
    BY <1>4, ActionOfPhase DEF TakenHere
  <2>2. line' = line + 1
    BY <2>1 DEF ReportLine
  <2>. DEFINE r == [line |-> line, status |-> status, src |-> "op"]
  <2>3. TypeOK /\ r \in Result /\ Record(r)
    BY <2>1 DEF IInv, TypeOK, Result, ReportLine
  <2>4. PICK m \in Nat : m + 1 \in DOMAIN results' /\ results'[m + 1] = r
    BY <2>3, Recorded
  <2>5. r = [line |-> e.line, status |-> "ok", src |-> "op"]
    BY <2>1
  <2>6. OkLine(e.line)'
    BY <2>4, <2>5 DEF OkLine, ToSet
  <2>7. e.line < line'
    BY <2>1, <2>2
  <2>. QED
    BY <2>6, <2>7 DEF TakenSoFar
<1>. QED
  BY <1>1, <1>2, <1>3, <1>4

-----------------------------------------------------------------------------
(* How what is held changes.                                               *)

\* Releasing an input adds nothing to what is held.
LEMMA UnheldSubset ==
  ASSUME NEW S, NEW s \in Seq(S), NEW x
  PROVE  ToSet(Unhold(s, x)) \subseteq ToSet(s)
<1>1. CASE ~ \E i \in DOMAIN s : LastAt(s, x, i)
  BY <1>1 DEF Unhold
<1>2. CASE \E i \in DOMAIN s : LastAt(s, x, i)
  <2>1. PICK n \in Nat : n = Len(s) /\ DOMAIN s = 1..n
    BY LenProperties
  <2>2. PICK c \in 1..n : Unhold(s, x) = RemoveAt(s, c)
    BY <1>2, <2>1 DEF LastAt, Unhold
  <2>. DEFINE a == SubSeq(s, 1, c - 1)
              b == SubSeq(s, c + 1, Len(s))
  <2>3. \A i \in 1..n : s[i] \in S
    BY <2>1, ElementOfSeq
  <2>4. /\ a \in Seq(S) /\ Len(a) = c - 1
        /\ \A i \in 1..(c - 1) : a[i] = s[i]
    BY <2>1, <2>3, SubSeqProperties
  <2>5. /\ b \in Seq(S) /\ Len(b) = n - c
        /\ \A i \in 1..(n - c) : b[i] = s[c + i]
    BY <2>1, SuffixElements
  <2>. HIDE DEF a, b
  <2>6. /\ a \o b \in Seq(S) /\ Len(a \o b) = n - 1
        /\ \A i \in 1..(n - 1) : (a \o b)[i] = IF i < c THEN s[i] ELSE s[i + 1]
    <3>1. /\ a \o b \in Seq(S)
          /\ Len(a \o b) = Len(a) + Len(b)
          /\ \A i \in 1..(Len(a) + Len(b)) :
               (a \o b)[i] = IF i <= Len(a) THEN a[i] ELSE b[i - Len(a)]
      BY <2>4, <2>5, ConcatProperties
    <3>2. Len(a) = c - 1 /\ Len(a) + Len(b) = n - 1
      BY <2>1, <2>2, <2>4, <2>5
    <3>3. ASSUME NEW i \in 1..(n - 1), i < c
          PROVE  (a \o b)[i] = s[i]
      <4>1. i \in 1..(c - 1) /\ i <= Len(a)
        BY <2>2, <3>2, <3>3
      <4>. QED
        BY <2>4, <3>1, <3>2, <4>1
    <3>4. ASSUME NEW i \in 1..(n - 1), ~(i < c)
          PROVE  (a \o b)[i] = s[i + 1]
      <4>1. /\ ~(i <= Len(a)) /\ i - Len(a) = i - (c - 1)
            /\ i - (c - 1) \in 1..(n - c) /\ c + (i - (c - 1)) = i + 1
        BY <2>2, <3>2, <3>4
      <4>2. (a \o b)[i] = b[i - (c - 1)]
        BY <3>1, <3>2, <4>1
      <4>3. b[i - (c - 1)] = s[c + (i - (c - 1))]
        BY <2>5, <4>1
      <4>. QED
        BY <4>1, <4>2, <4>3
    <3>. QED
      BY <3>1, <3>2, <3>3, <3>4
  <2>7. DOMAIN (a \o b) = 1..(n - 1)
    BY <2>6, LenProperties
  <2>8. ASSUME NEW i \in 1..(n - 1)
        PROVE  \E j \in 1..n : (a \o b)[i] = s[j]
    <3>1. i \in 1..n /\ i + 1 \in 1..n
      OBVIOUS
    <3>. QED
      BY <2>6, <3>1
  <2>9. Unhold(s, x) = a \o b
    BY <2>2 DEF RemoveAt, a, b
  <2>10. ToSet(a \o b) = {(a \o b)[i] : i \in 1..(n - 1)}
    BY <2>7 DEF ToSet
  <2>11. ToSet(s) = {s[i] : i \in 1..n}
    BY <2>1 DEF ToSet
  <2>12. {(a \o b)[i] : i \in 1..(n - 1)} \subseteq {s[i] : i \in 1..n}
    BY <2>8
  <2>. QED
    BY <2>9, <2>10, <2>11, <2>12
<1>. QED
  BY <1>1, <1>2

\* Neither does taking the last one off.
LEMMA FrontSubset ==
  ASSUME NEW S, NEW s \in Seq(S), s # <<>>
  PROVE  /\ ToSet(Front(s)) \subseteq ToSet(s) /\ Last(s) \in ToSet(s)
         /\ Len(Front(s)) = Len(s) - 1
         /\ \A i \in 1..(Len(s) - 1) : Front(s)[i] = s[i]
<1>1. Len(s) \in Nat \ {0} /\ DOMAIN s = 1..Len(s)
  BY EmptySeq, LenProperties
<1>2. \A i \in 1..(Len(s) - 1) : s[i] \in S
  BY <1>1, ElementOfSeq
<1>3. /\ Front(s) \in Seq(S)
      /\ Len(Front(s)) = Len(s) - 1
      /\ \A i \in 1..(Len(s) - 1) : Front(s)[i] = s[i]
  BY <1>1, <1>2, SubSeqProperties DEF Front
<1>4. DOMAIN Front(s) = 1..(Len(s) - 1)
  BY <1>3, LenProperties
<1>. QED
  BY <1>1, <1>3, <1>4 DEF ToSet, Last

\* Releasing the newest entry's input takes exactly that entry off.
LEMMA UnheldLast ==
  ASSUME NEW S, NEW s \in Seq(S), s # <<>>, NEW x, s[Len(s)].input = x
  PROVE  Unhold(s, x) = Front(s)
<1>1. PICK n \in Nat \ {0} : n = Len(s) /\ DOMAIN s = 1..n
  BY EmptySeq, LenProperties
<1>2. \A i \in DOMAIN s : LastAt(s, x, i) <=> i = n
  BY <1>1 DEF LastAt
<1>3. (CHOOSE i \in DOMAIN s : LastAt(s, x, i)) = n
  BY <1>1, <1>2
<1>4. Unhold(s, x) = RemoveAt(s, n)
  BY <1>1, <1>2, <1>3 DEF Unhold
<1>5. SubSeq(s, n + 1, n) = <<>>
  BY SubSeqEmpty
<1>6. \A i \in 1..(n - 1) : s[i] \in S
  BY <1>1, ElementOfSeq
<1>7. SubSeq(s, 1, n - 1) \in Seq(S)
  BY <1>1, <1>6, SubSeqProperties
<1>8. SubSeq(s, 1, n - 1) \o <<>> = SubSeq(s, 1, n - 1)
  BY <1>7, ConcatEmptySeq
<1>. QED
  BY <1>1, <1>4, <1>5, <1>8 DEF RemoveAt, Front

\* What Hold records of x.
EntryHere(x) == [input |-> x, line |-> line]

\* The steps that change the keys held: only HoldKeys adds one.
LEMMA KeysChange ==
  ASSUME IInv, [Next]_vars
  PROVE  \/ ToSet(keys') \subseteq ToSet(keys)
         \/ /\ phase = "kd" /\ phase' = "kd" /\ status' = status /\ line' = line
            /\ \E k \in Keys : ToSet(keys') = ToSet(keys) \cup {EntryHere(k)}
<1>0. TypeOK
  BY DEF IInv
<1>1. CASE UNCHANGED keys
  BY <1>1
<1>2. CASE HoldKeys /\ ~UNCHANGED keys
  <2>1. rest # <<>> /\ phase = "kd" /\ line' = line
    BY <1>2 DEF HoldKeys
  <2>2. PICK k \in Keys : keys' = Hold(keys, k) /\ Goto("kd")
    BY <1>0, <1>2, <2>1, NextKeyTyped DEF HoldKeys
  <2>3. EntryHere(k) \in [input : Keys, line : Nat] /\ keys' = Append(keys, EntryHere(k))
    BY <1>0, <2>2 DEF Hold, EntryHere, TypeOK
  <2>4. ToSet(keys') = ToSet(keys) \cup {EntryHere(k)}
    <3>. DEFINE R == [input : Keys, line : Nat]
    <3>1. keys \in Seq(R) /\ EntryHere(k) \in R
      BY <1>0, <2>3 DEF TypeOK
    <3>. HIDE DEF R
    <3>2. ToSet(Append(keys, EntryHere(k))) = ToSet(keys) \cup {EntryHere(k)}
      BY <3>1, AppendedSet
    <3>. QED
      BY <2>3, <3>2
  <2>. QED
    BY <2>1, <2>2, <2>4 DEF Goto
<1>3. CASE (RollbackKeys \/ ReleaseKeys) /\ ~UNCHANGED keys
  <2>1. PICK x : keys' = Unhold(keys, x)
    <3>1. CASE RollbackKeys
      <4>1. keys' = Unhold(keys, Last(chord))
        BY <1>3, <3>1 DEF RollbackKeys
      <4>. QED
        BY <4>1
    <3>2. CASE ReleaseKeys
      <4>1. keys' = Unhold(keys, Head(rest)[1])
        BY <1>3, <3>2 DEF ReleaseKeys
      <4>. QED
        BY <4>1
    <3>. QED
      BY <1>3, <3>1, <3>2
  <2>2. keys \in Seq([input : Keys, line : Nat])
    BY <1>0 DEF TypeOK
  <2>3. ToSet(Unhold(keys, x)) \subseteq ToSet(keys)
    BY <2>2, UnheldSubset
  <2>. QED
    BY <2>1, <2>3
<1>4. CASE ReleaseHeldKey
  BY <1>0, <1>4, FrontSubset DEF ReleaseHeldKey, TypeOK
<1>. QED
  BY <1>1, <1>2, <1>3, <1>4 DEF Next, RunStep, Returned, Preflight, SkipLine, RunLine, ReportLine,
     CaptureOnError, EndLoop, PressFlag, FlagsPressed, LiftFlag, NextChord,
     SetClipboard, PressChordKey, ChordPressed, UnwindChord, LiftChordKey,
     MovePointer, ClickDown, ClickUp, DragDown, DragPath, DragUp, HoldButton,
     ReleaseButton, CallBackend, ReleaseHeldButton, Finish, held, vars

\* And the buttons: only HoldButton adds one.
LEMMA ButtonsChange ==
  ASSUME IInv, [Next]_vars
  PROVE  \/ ToSet(buttons') \subseteq ToSet(buttons)
         \/ /\ phase = "md" /\ phase' = "lift" /\ status' = status /\ line' = line
            /\ \E b \in Buttons : ToSet(buttons') = ToSet(buttons) \cup {EntryHere(b)}
<1>0. TypeOK
  BY DEF IInv
<1>1. CASE UNCHANGED buttons
  BY <1>1
<1>2. CASE HoldButton /\ ~UNCHANGED buttons
  <2>1. phase = "md" /\ line' = line /\ buttons' = Hold(buttons, op.btn) /\ Goto("lift")
    BY <1>2 DEF HoldButton
  <2>2. op.btn \in Buttons
    BY <1>0, <2>1, OpTyped DEF IInv, ControlInPlace
  <2>3. /\ EntryHere(op.btn) \in [input : Buttons, line : Nat]
        /\ buttons' = Append(buttons, EntryHere(op.btn))
    BY <1>0, <2>1, <2>2 DEF Hold, EntryHere, TypeOK
  <2>4. ToSet(buttons') = ToSet(buttons) \cup {EntryHere(op.btn)}
    <3>. DEFINE R == [input : Buttons, line : Nat]
    <3>1. buttons \in Seq(R) /\ EntryHere(op.btn) \in R
      BY <1>0, <2>3 DEF TypeOK
    <3>. HIDE DEF R
    <3>2. ToSet(Append(buttons, EntryHere(op.btn))) = ToSet(buttons) \cup {EntryHere(op.btn)}
      BY <3>1, AppendedSet
    <3>. QED
      BY <2>3, <3>2
  <2>. QED
    BY <2>1, <2>2, <2>4 DEF Goto
<1>3. CASE ReleaseButton /\ ~UNCHANGED buttons
  <2>1. buttons' = Unhold(buttons, op.btn)
    BY <1>3 DEF ReleaseButton
  <2>2. buttons \in Seq([input : Buttons, line : Nat])
    BY <1>0 DEF TypeOK
  <2>3. ToSet(Unhold(buttons, op.btn)) \subseteq ToSet(buttons)
    BY <2>2, UnheldSubset
  <2>. QED
    BY <2>1, <2>3
<1>4. CASE ReleaseHeldButton
  BY <1>0, <1>4, FrontSubset DEF ReleaseHeldButton, TypeOK
<1>. QED
  BY <1>1, <1>2, <1>3, <1>4 DEF Next, RunStep, Returned, Preflight, SkipLine, RunLine, ReportLine,
     CaptureOnError, EndLoop, PressFlag, FlagsPressed, LiftFlag, NextChord,
     SetClipboard, PressChordKey, ChordPressed, UnwindChord, LiftChordKey,
     MovePointer, ClickDown, ClickUp, DragDown, DragPath, DragUp, HoldKeys,
     RollbackKeys, ReleaseKeys, CallBackend, ReleaseHeldKey, Finish, held, vars

\* What is released was held.
LEMMA ReleasedChange ==
  ASSUME IInv, [Next]_vars
  PROVE  \/ released' = released
         \/ /\ phase = "release"
            /\ \E e \in ToSet(keys) \cup ToSet(buttons) :
                 ToSet(released') = ToSet(released) \cup {e}
<1>0. TypeOK
  BY DEF IInv
<1>1. CASE ReleaseHeldKey
  <2>1. keys \in Seq([input : Keys, line : Nat]) /\ keys # <<>>
        /\ released' = Append(released, Last(keys)) /\ phase = "release"
    BY <1>0, <1>1 DEF ReleaseHeldKey, TypeOK
  <2>2. Last(keys) \in [input : Keys, line : Nat] /\ Last(keys) \in ToSet(keys)
    BY <2>1, FrontSubset, FrontLastSet
  <2>3. Last(keys) \in HeldKey
    BY <2>2 DEF HeldKey, Inputs
  <2>4. ToSet(released') = ToSet(released) \cup {Last(keys)}
    BY <1>0, <2>1, <2>3, AppendedSet DEF TypeOK
  <2>. QED
    BY <2>1, <2>2, <2>4
<1>2. CASE ReleaseHeldButton
  <2>1. buttons \in Seq([input : Buttons, line : Nat]) /\ buttons # <<>>
        /\ released' = Append(released, Last(buttons)) /\ phase = "release"
    BY <1>0, <1>2 DEF ReleaseHeldButton, TypeOK
  <2>2. Last(buttons) \in [input : Buttons, line : Nat] /\ Last(buttons) \in ToSet(buttons)
    BY <2>1, FrontSubset, FrontLastSet
  <2>3. Last(buttons) \in HeldKey
    BY <2>2 DEF HeldKey, Inputs
  <2>4. ToSet(released') = ToSet(released) \cup {Last(buttons)}
    BY <1>0, <2>1, <2>3, AppendedSet DEF TypeOK
  <2>. QED
    BY <2>1, <2>2, <2>4
<1>3. CASE UNCHANGED released
  BY <1>3
<1>. QED
  BY <1>1, <1>2, <1>3 DEF Next, RunStep, Returned, Preflight, SkipLine, RunLine, ReportLine,
     CaptureOnError, EndLoop, PressFlag, FlagsPressed, LiftFlag, NextChord,
     SetClipboard, PressChordKey, ChordPressed, UnwindChord, LiftChordKey,
     MovePointer, ClickDown, ClickUp, DragDown, DragPath, DragUp, HoldButton,
     ReleaseButton, HoldKeys, RollbackKeys, ReleaseKeys, CallBackend, Finish, ending, vars

\* A line that goes on to press has not failed.
LEMMA StatusStep ==
  ASSUME IInv, [Next]_vars
  PROVE  phase' \in {"mods", "move", "md", "kd"} => status' = "ok"
<1>0. phase \in {"mods", "move", "md", "kd"} => status = "ok"
  BY DEF IInv, HeldInPlace
<1>1. CASE RunLine
  BY <1>1 DEF RunLine
<1>2. CASE PressFlag \/ MovePointer \/ HoldKeys
  BY <1>0, <1>2 DEF PressFlag, MovePointer, HoldKeys, Goto, Fails
<1>3. CASE FlagsPressed
  BY <1>0, <1>3 DEF FlagsPressed, Goto
<1>. QED
  BY <1>0, <1>1, <1>2, <1>3 DEF Next, RunStep, Returned, Preflight, SkipLine, ReportLine,
     CaptureOnError, EndLoop, LiftFlag, NextChord, SetClipboard, PressChordKey,
     ChordPressed, UnwindChord, LiftChordKey, ClickDown, ClickUp, DragDown, DragPath,
     DragUp, HoldButton, ReleaseButton, RollbackKeys, ReleaseKeys, CallBackend,
     ReleaseHeldKey, ReleaseHeldButton, Finish, Goto, Fails, vars

\* A rollback that has lifted all its keys leaves only those of earlier lines.
LEMMA RolledBack ==
  ASSUME IInv, phase = "rollback", chord = <<>>, NEW e \in ToSet(keys)
  PROVE  e.line < line
<1>1. PICK n \in Nat : n = Len(keys) /\ DOMAIN keys = 1..n
  BY LenProperties DEF IInv, TypeOK
<1>2. PICK i \in 1..n : e = keys[i]
  BY <1>1 DEF ToSet
<1>3. i <= Len(keys) - Len(chord)
  BY <1>1
<1>. QED
  BY <1>1, <1>2, <1>3 DEF IInv, OwnKeysLast

\* The entries of what is held are typed.
LEMMA EntriesTyped ==
  ASSUME TypeOK
  PROVE  \A e \in ToSet(keys) \cup ToSet(buttons) : e.line \in Nat
<1>1. ASSUME NEW S, NEW s \in Seq([input : S, line : Nat]), NEW e \in ToSet(s)
      PROVE  e.line \in Nat
  <2>1. DOMAIN s = 1..Len(s)
    BY LenProperties
  <2>2. PICK i \in 1..Len(s) : e = s[i]
    BY <2>1 DEF ToSet
  <2>3. s[i] \in [input : S, line : Nat]
    BY ElementOfSeq
  <2>. QED
    BY <2>2, <2>3
<1>2. keys \in Seq([input : Keys, line : Nat]) /\ buttons \in Seq([input : Buttons, line : Nat])
  BY DEF TypeOK
<1>. QED
  BY <1>1, <1>2

\* What is held was taken by lines that succeed.
LEMMA HeldStep ==
  ASSUME IInv, [Next]_vars
  PROVE  HeldInPlace'
<1>0. TypeOK /\ HeldInPlace /\ line \in Nat
  BY DEF IInv, TypeOK
<1>1. ASSUME NEW e \in ToSet(keys)
      PROVE  \/ TakenSoFar(e)'
             \/ TakenHere(e)' /\ phase' \in {"kd", "rollback", "lift", "report"}
  <2>1. e.line \in Nat
    BY <1>0, EntriesTyped
  <2>2. CASE UNCHANGED vars
    <3>1. UNCHANGED <<line, status, phase, results>>
      BY <2>2 DEF vars, report
    <3>. QED
      BY <1>0, <3>1 DEF HeldInPlace, TakenSoFar, TakenHere, OkLine
  <2>3. CASE TakenSoFar(e)
    BY <2>1, <2>3, SoFarStays
  <2>4. CASE ~TakenSoFar(e) /\ Next
    <3>1. TakenHere(e) /\ phase \in {"kd", "rollback", "lift", "report"}
      BY <1>0, <2>4 DEF HeldInPlace
    <3>2. phase = "rollback" => chord # <<>>
      BY <1>0, <2>1, <3>1, RolledBack DEF TakenHere
    <3>. QED
      BY <2>1, <2>4, <3>1, <3>2, HereStays
  <2>. QED
    BY <2>2, <2>3, <2>4
<1>2. ASSUME NEW e \in ToSet(keys')
      PROVE  \/ TakenSoFar(e)'
             \/ TakenHere(e)' /\ phase' \in {"kd", "rollback", "lift", "report"}
  <2>1. CASE e \in ToSet(keys)
    BY <1>1, <2>1
  <2>2. CASE e \notin ToSet(keys)
    <3>1. /\ phase = "kd" /\ phase' = "kd" /\ status' = status /\ line' = line
          /\ \E k \in Keys : e = EntryHere(k)
      BY <2>2, KeysChange
    <3>2. e.line = line' /\ status' = "ok"
      BY <1>0, <3>1 DEF EntryHere, HeldInPlace
    <3>. QED
      BY <3>1, <3>2 DEF TakenHere
  <2>. QED
    BY <2>1, <2>2
<1>3. ASSUME NEW e \in ToSet(buttons)
      PROVE  TakenSoFar(e)' \/ (TakenHere(e)' /\ phase' \in {"lift", "report"})
  <2>1. e.line \in Nat
    BY <1>0, EntriesTyped
  <2>2. CASE UNCHANGED vars
    <3>1. UNCHANGED <<line, status, phase, results>>
      BY <2>2 DEF vars, report
    <3>. QED
      BY <1>0, <3>1 DEF HeldInPlace, TakenSoFar, TakenHere, OkLine
  <2>3. CASE TakenSoFar(e)
    BY <2>1, <2>3, SoFarStays
  <2>4. CASE ~TakenSoFar(e) /\ Next
    <3>1. TakenHere(e) /\ phase \in {"lift", "report"}
      BY <1>0, <2>4 DEF HeldInPlace
    <3>. QED
      BY <2>1, <2>4, <3>1, HereStays
  <2>. QED
    BY <2>2, <2>3, <2>4
<1>4. ASSUME NEW e \in ToSet(buttons')
      PROVE  TakenSoFar(e)' \/ (TakenHere(e)' /\ phase' \in {"lift", "report"})
  <2>1. CASE e \in ToSet(buttons)
    BY <1>3, <2>1
  <2>2. CASE e \notin ToSet(buttons)
    <3>1. /\ phase = "md" /\ phase' = "lift" /\ status' = status /\ line' = line
          /\ \E b \in Buttons : e = EntryHere(b)
      BY <2>2, ButtonsChange
    <3>2. e.line = line' /\ status' = "ok"
      BY <1>0, <3>1 DEF EntryHere, HeldInPlace
    <3>. QED
      BY <3>1, <3>2 DEF TakenHere
  <2>. QED
    BY <2>1, <2>2
<1>5. ASSUME NEW e \in ToSet(released')
      PROVE  OkLine(e.line)'
  <2>1. CASE e \in ToSet(released)
    <3>1. OkLine(e.line)
      BY <1>0, <2>1 DEF HeldInPlace
    <3>. QED
      BY <3>1, OkLineStays
  <2>2. CASE e \notin ToSet(released)
    <3>1. phase = "release" /\ e \in ToSet(keys) \cup ToSet(buttons)
      BY <2>2, ReleasedChange
    <3>2. OkLine(e.line)
      BY <1>0, <3>1 DEF HeldInPlace, TakenSoFar
    <3>. QED
      BY <3>2, OkLineStays
  <2>. QED
    BY <2>1, <2>2
<1>6. phase' \in {"mods", "move", "md", "kd"} => status' = "ok"
  BY StatusStep
<1>7. ReleasesNameLinesThatSucceeded'
  <2>1. CASE Quiet
    <3>1. results' = results
      BY <2>1 DEF Quiet, report
    <3>. QED
      BY <1>0, <3>1 DEF HeldInPlace, ReleasesNameLinesThatSucceeded
  <2>2. CASE Reports
    <3>1. PICK r \in Result : Record(r) /\ r.src # "release"
      BY <2>2, ReportedNext
    <3>2. PICK m \in Nat :
            /\ DOMAIN results = 1..m /\ DOMAIN results' = 1..(m + 1)
            /\ \A i \in 1..m : results'[i] = results[i]
            /\ results'[m + 1] = r
      BY <1>0, <3>1, Recorded
    <3>3. ASSUME NEW i \in 1..m, results[i].src = "release"
          PROVE  \E j \in 1..m : /\ results[j].src = "op" /\ results[j].line = results[i].line
                                 /\ results[j].status = "ok"
      BY <1>0, <3>2, <3>3 DEF HeldInPlace, ReleasesNameLinesThatSucceeded
    <3>4. \A i \in 1..(m + 1) : results'[i].src = "release" =>
            i \in 1..m /\ results'[i] = results[i]
      BY <3>1, <3>2
    <3>5. \A j \in 1..m : j \in 1..(m + 1) /\ results'[j] = results[j]
      BY <3>2
    <3>. QED
      BY <3>2, <3>3, <3>4, <3>5 DEF ReleasesNameLinesThatSucceeded
  <2>3. CASE Finish
    <3>1. PICK m \in Nat : m = Len(results) /\ DOMAIN results = 1..m
      BY <1>0, <2>3, Warned
    <3>2. PICK w \in Nat : w = Len(released) /\ DOMAIN released = 1..w
      BY <1>0, <2>3, Warned
    <3>3. /\ DOMAIN results' = 1..(m + w)
          /\ \A i \in 1..m : results'[i] = results[i]
          /\ \A i \in 1..w : results'[m + i] =
               [line |-> released[i].line, status |-> "warn", src |-> "release"]
      BY <1>0, <2>3, <3>1, <3>2, Warned
    <3>4. ASSUME NEW i \in 1..(m + w), results'[i].src = "release"
          PROVE  \E j \in 1..(m + w) :
                   /\ results'[j].src = "op" /\ results'[j].line = results'[i].line
                   /\ results'[j].status = "ok"
      <4>1. i \notin 1..m
        <5>1. phase # "done"
          BY <2>3 DEF Finish
        <5>. QED
          BY <3>1, <3>3, <3>4, <5>1 DEF IInv, TotalsInPlace
      <4>2. PICK a \in 1..w : i = m + a
        <5>1. i - m \in 1..w /\ i = m + (i - m)
          BY <4>1
        <5>. QED
          BY <5>1
      <4>3. results'[m + a] =
              [line |-> released[a].line, status |-> "warn", src |-> "release"]
        BY <3>3
      <4>4. results'[m + a].line = released[a].line
        BY <4>3
      <4>5. OkLine(released[a].line)
        BY <1>0, <3>2 DEF HeldInPlace, ToSet
      <4>6. PICK j \in 1..m :
              results[j] = [line |-> released[a].line, status |-> "ok", src |-> "op"]
        BY <3>1, <4>5 DEF OkLine, ToSet
      <4>7. j \in 1..(m + w) /\ results'[j] = results[j]
        BY <3>3
      <4>. QED
        BY <4>2, <4>4, <4>6, <4>7
    <3>. QED
      BY <3>3, <3>4 DEF ReleasesNameLinesThatSucceeded
  <2>. QED
    BY <2>1, <2>2, <2>3, StepQuiet
<1>. QED
  BY <1>2, <1>4, <1>5, <1>6, <1>7 DEF HeldInPlace

\* The steps that a kd line takes, from the step that starts it.
LEMMA IntoKeys ==
  ASSUME IInv, [Next]_vars, phase' \in {"kd", "rollback"}
  PROVE  \/ phase = "loop" /\ UNCHANGED <<keys, chord, line>>
         \/ phase \in {"kd", "rollback"} /\ UNCHANGED <<keys, chord, line>>
         \/ HoldKeys /\ rest # <<>>
         \/ RollbackKeys /\ chord # <<>>
<1>1. CASE RunLine
  BY <1>1 DEF RunLine, held, trans
<1>2. CASE HoldKeys \/ RollbackKeys
  BY <1>2 DEF HoldKeys, RollbackKeys, Goto
<1>3. CASE UNCHANGED vars
  BY <1>3 DEF vars, held, trans
<1>4. CASE FlagsPressed \/ MovePointer
  BY <1>4 DEF FlagsPressed, MovePointer, Goto, Fails
<1>. QED
  BY <1>1, <1>2, <1>3, <1>4 DEF Next, RunStep, Returned, Preflight, SkipLine, ReportLine,
     CaptureOnError, EndLoop, PressFlag, LiftFlag, NextChord, SetClipboard, PressChordKey,
     ChordPressed, UnwindChord, LiftChordKey, ClickDown, ClickUp, DragDown, DragPath,
     DragUp, HoldButton, ReleaseButton, ReleaseKeys, CallBackend, ReleaseHeldKey,
     ReleaseHeldButton, Finish, Goto, Fails

\* The running kd line's keys are the last ones held.
LEMMA OwnKeysStep ==
  ASSUME IInv, [Next]_vars
  PROVE  OwnKeysLast'
<1>. SUFFICES ASSUME phase' \in {"kd", "rollback"}
              PROVE  /\ Len(chord') <= Len(keys')
                     /\ \A i \in DOMAIN keys' :
                          IF i <= Len(keys') - Len(chord')
                          THEN keys'[i].line < line'
                          ELSE keys'[i].input = chord'[i - (Len(keys') - Len(chord'))]
  BY DEF OwnKeysLast
<1>0. TypeOK /\ ControlInPlace /\ HeldInPlace /\ OwnKeysLast
  BY DEF IInv
<1>a. /\ keys \in Seq([input : Keys, line : Nat]) /\ chord \in Seq(Keys)
  BY <1>0 DEF TypeOK
<1>b. PICK n \in Nat : n = Len(keys) /\ DOMAIN keys = 1..n
  BY <1>a, LenProperties
<1>c. PICK c \in Nat : c = Len(chord) /\ DOMAIN chord = 1..c
  BY <1>a, LenProperties
<1>1. CASE phase = "loop" /\ UNCHANGED <<keys, chord, line>>
  <2>1. c = 0
    BY <1>0, <1>1, <1>c DEF ControlInPlace
  <2>2. \A i \in 1..n : keys[i].line < line
    BY <1>0, <1>1, <1>b DEF HeldInPlace, TakenSoFar, ToSet
  <2>. QED
    BY <1>1, <1>b, <1>c, <2>1, <2>2
<1>2. CASE phase \in {"kd", "rollback"} /\ UNCHANGED <<keys, chord, line>>
  BY <1>0, <1>2 DEF OwnKeysLast
<1>3. CASE phase \in {"kd", "rollback"} /\ HoldKeys /\ rest # <<>> /\ ~UNCHANGED <<keys, chord, line>>
  <2>1. PICK k \in Keys : keys' = Hold(keys, k) /\ chord' = Append(chord, k) /\ line' = line
    BY <1>0, <1>3, NextKeyTyped DEF HoldKeys
  <2>2. keys' = Append(keys, EntryHere(k)) /\ EntryHere(k) \in [input : Keys, line : Nat]
    BY <1>0, <2>1 DEF Hold, EntryHere, TypeOK
  <2>3. /\ Len(keys') = n + 1 /\ \A i \in 1..n : keys'[i] = keys[i]
        /\ keys'[n + 1] = EntryHere(k) /\ keys' \in Seq([input : Keys, line : Nat])
    BY <1>a, <1>b, <2>2, AppendProperties
  <2>4. /\ Len(chord') = c + 1 /\ \A i \in 1..c : chord'[i] = chord[i]
        /\ chord'[c + 1] = k
    BY <1>a, <1>c, <2>1, AppendProperties
  <2>5. DOMAIN keys' = 1..(n + 1)
    BY <2>3, LenProperties
  <2>6. c <= n /\ \A i \in 1..n : IF i <= n - c THEN keys[i].line < line
                                               ELSE keys[i].input = chord[i - (n - c)]
    BY <1>0, <1>3, <1>b, <1>c DEF OwnKeysLast
  <2>7. ASSUME NEW i \in 1..(n + 1)
        PROVE  IF i <= n - c THEN keys'[i].line < line ELSE keys'[i].input = chord'[i - (n - c)]
    <3>1. CASE i = n + 1
      <4>1. ~(i <= n - c) /\ i - (n - c) = c + 1
        BY <2>6, <3>1
      <4>. QED
        BY <2>3, <2>4, <3>1, <4>1 DEF EntryHere
    <3>2. CASE i \in 1..n /\ i <= n - c
      BY <2>3, <2>6, <3>2
    <3>3. CASE i \in 1..n /\ ~(i <= n - c)
      <4>1. i - (n - c) \in 1..c
        BY <2>6, <3>3
      <4>2. chord'[i - (n - c)] = chord[i - (n - c)]
        BY <2>4, <4>1
      <4>3. keys[i].input = chord[i - (n - c)] /\ keys'[i] = keys[i]
        BY <2>3, <2>6, <3>3
      <4>. QED
        BY <3>3, <4>2, <4>3
    <3>. QED
      BY <3>1, <3>2, <3>3
  <2>8. Len(keys') - Len(chord') = n - c /\ Len(chord') <= Len(keys')
    <3>1. Len(keys') = n + 1 /\ Len(chord') = c + 1 /\ c <= n
      BY <2>3, <2>4, <2>6
    <3>. QED
      BY <3>1
  <2>9. \A i \in DOMAIN keys' :
          IF i <= Len(keys') - Len(chord')
          THEN keys'[i].line < line'
          ELSE keys'[i].input = chord'[i - (Len(keys') - Len(chord'))]
    BY <2>1, <2>5, <2>7, <2>8
  <2>. QED
    BY <2>8, <2>9
<1>4. CASE phase = "rollback" /\ RollbackKeys /\ chord # <<>>
  <2>1. keys' = Unhold(keys, Last(chord)) /\ chord' = Front(chord) /\ line' = line
    BY <1>4 DEF RollbackKeys
  <2>2. c <= n /\ \A i \in 1..n : IF i <= n - c THEN keys[i].line < line
                                               ELSE keys[i].input = chord[i - (n - c)]
    BY <1>0, <1>4, <1>b, <1>c DEF OwnKeysLast
  <2>3. c > 0
    BY <1>4, <1>a, <1>c, EmptySeq
  <2>4. keys[n].input = chord[c]
    <3>1. n \in 1..n /\ ~(n <= n - c) /\ n - (n - c) = c
      BY <2>2, <2>3
    <3>. QED
      BY <2>2, <3>1
  <2>5. keys' = Front(keys)
    <3>1. keys # <<>>
      BY <1>b, <2>2, <2>3
    <3>2. keys[Len(keys)].input = Last(chord)
      BY <1>b, <1>c, <2>4 DEF Last
    <3>. QED
      BY <1>a, <2>1, <3>1, <3>2, UnheldLast
  <2>6. /\ Len(keys') = n - 1 /\ DOMAIN keys' = 1..(n - 1)
        /\ \A i \in 1..(n - 1) : keys'[i] = keys[i]
    <3>1. keys # <<>>
      BY <1>b, <2>2, <2>3
    <3>2. Front(keys) \in Seq([input : Keys, line : Nat])
      BY <1>a, <3>1, FrontLastSet
    <3>. QED
      BY <1>a, <1>b, <2>5, <3>1, <3>2, FrontSubset, LenProperties
  <2>7. Len(chord') = c - 1 /\ \A i \in 1..(c - 1) : chord'[i] = chord[i]
    BY <1>4, <1>a, <1>c, <2>1, FrontSubset
  <2>8. Len(keys') - Len(chord') = n - c /\ Len(chord') <= Len(keys')
    <3>1. Len(keys') = n - 1 /\ Len(chord') = c - 1 /\ c <= n
      BY <2>2, <2>6, <2>7
    <3>. QED
      BY <3>1
  <2>9. ASSUME NEW i \in 1..(n - 1)
        PROVE  IF i <= n - c THEN keys'[i].line < line ELSE keys'[i].input = chord'[i - (n - c)]
    <3>1. i \in 1..n /\ (~(i <= n - c) => i - (n - c) \in 1..(c - 1))
      BY <2>2
    <3>. QED
      BY <2>2, <2>6, <2>7, <3>1
  <2>. QED
    BY <2>1, <2>6, <2>8, <2>9
<1>. QED
  BY <1>1, <1>2, <1>3, <1>4, IntoKeys DEF HoldKeys, RollbackKeys

-----------------------------------------------------------------------------
(* The report, once the run has ended.                                     *)

\* What the invariant says in the initial states.
LEMMA InitReport == Init => ResultsInPlace /\ TotalsInPlace /\ HeldInPlace /\ OwnKeysLast
<1>. SUFFICES ASSUME Init
              PROVE  ResultsInPlace /\ TotalsInPlace /\ HeldInPlace /\ OwnKeysLast
  OBVIOUS
<1>1. /\ results = <<>> /\ streamed = <<>> /\ keys = <<>> /\ buttons = <<>> /\ released = <<>>
      /\ phase = "preflight" /\ line = 1 /\ status = "ok" /\ failed = FALSE
      /\ totals = [ok |-> 0, err |-> 0, skip |-> 0]
  BY DEF Init
<1>2. Len(prog) \in Nat
  <2>1. prog \in Seq(Op)
    BY ProgramsAssumption DEF Init
  <2>. QED
    BY <2>1, LenProperties
<1>3. ResultsInPlace
  <2>1. Reported = 0
    BY <1>1 DEF Reported
  <2>. QED
    BY <1>1, <1>2, <2>1 DEF ResultsInPlace
<1>4. TotalsInPlace
  <2>1. \A S, srcs : Count(S, srcs) = 0
    BY <1>1, FS_EmptySet DEF Count
  <2>. QED
    BY <1>1, <2>1 DEF TotalsInPlace
<1>5. HeldInPlace
  BY <1>1 DEF HeldInPlace, ToSet, ReleasesNameLinesThatSucceeded
<1>6. OwnKeysLast
  BY <1>1 DEF OwnKeysLast
<1>. QED
  BY <1>3, <1>4, <1>5, <1>6

-----------------------------------------------------------------------------
(* The theorems.                                                           *)

\* Every initial state satisfies the invariant.
LEMMA InitInv == Init => IInv
<1>. SUFFICES ASSUME Init PROVE IInv
  OBVIOUS
<1>1. TypeOK
  BY InitType
<1>2. EveryInputOwned
  BY DEF Init, EveryInputOwned
<1>3. ControlInPlace
  <2>1. phase = "preflight" /\ flags = <<>> /\ chord = <<>> /\ keys = <<>> /\ buttons = <<>>
    BY DEF Init
  <2>. QED BY <2>1 DEF ControlInPlace
<1>4. StoppedForGood
  BY DEF Init, StoppedForGood, Stopped
<1>. QED BY <1>1, <1>2, <1>3, <1>4, InitReport DEF IInv

\* The inductive invariant holds in every state of every run, for every
\* program, option and set of keys and buttons.
THEOREM Invariance == Spec => []IInv
<1>1. IInv /\ [Next]_vars => IInv'
  BY TypeStep, OwnedStep, ControlStep, StoppedStep, ResultsStep, TotalsStep, HeldStep,
     OwnKeysStep DEF IInv
<1>. QED BY InitInv, <1>1, PTL DEF Spec

\* The run's state is always well typed.
THEOREM TypeCorrect == Spec => []TypeOK
<1>1. IInv => TypeOK
  BY DEF IInv
<1>. QED BY <1>1, Invariance, PTL

\* A run that has ended without a failed release has left nothing down: the
\* last owners, heldState's, are empty in "done", and no op has run in
\* "aborted".
THEOREM EndsWithNothingDown == Spec => []NothingLeftDown
<1>1. IInv => NothingLeftDown
  <2>. SUFFICES ASSUME IInv, Ended, lost = {}
                PROVE  down = {}
    BY DEF NothingLeftDown
  <2>1. /\ flags = <<>> /\ chord = <<>> /\ keys = <<>> /\ buttons = <<>>
        /\ OwnButton = {}
    BY DEF IInv, ControlInPlace, BetweenOps, Ended, OwnButton
  <2>. QED
    BY <2>1 DEF IInv, EveryInputOwned, HeldInputs, InputsOf, ToSet
<1>. QED BY <1>1, Invariance, PTL

\* Between two lines only heldState's inputs are down: no line, ok or failed,
\* carries a flag, a chord key or its own button into the next one.
THEOREM OnlyHeldBetweenLines == Spec => []LinesLeaveOnlyHeld
<1>1. IInv => LinesLeaveOnlyHeld
  <2>. SUFFICES ASSUME IInv, phase = "loop", lost = {}
                PROVE  down \subseteq HeldInputs
    BY DEF LinesLeaveOnlyHeld
  <2>1. flags = <<>> /\ chord = <<>> /\ OwnButton = {}
    BY DEF IInv, ControlInPlace, BetweenOps, OwnButton
  <2>. QED
    BY <2>1 DEF IInv, EveryInputOwned, ToSet
<1>. QED BY <1>1, Invariance, PTL

\* Once a line has failed without -k, or the caller is gone, no step presses.
THEOREM NoPressAfterStop == Spec => StopsPressing
<1>1. IInv /\ [Next]_vars =>
        [cancelled \/ (failed /\ ~opt.keepGoing) => down' \subseteq down]_vars
  <2>. SUFFICES ASSUME IInv, Next, Stopped
                PROVE  down' \subseteq down
    BY DEF Stopped, vars, os
  <2>1. phase \in {"loop", "errcap", "release", "done"}
    BY DEF IInv, StoppedForGood
  <2>2. \/ UNCHANGED down
        \/ ReleaseHeldKey
        \/ ReleaseHeldButton
    BY <2>1 DEF Next, RunStep, Returned, Preflight, SkipLine, RunLine, ReportLine,
         CaptureOnError, EndLoop, PressFlag, FlagsPressed, LiftFlag, NextChord,
         SetClipboard, PressChordKey, ChordPressed, UnwindChord, LiftChordKey,
         MovePointer, ClickDown, ClickUp, DragDown, DragPath, DragUp, HoldButton,
         ReleaseButton, HoldKeys, RollbackKeys, ReleaseKeys, CallBackend, Finish,
         os, vars
  <2>. QED
    BY <2>2 DEF ReleaseHeldKey, ReleaseHeldButton, BestEffortLift, Lifts, LiftFails
<1>. QED BY <1>1, Invariance, PTL DEF Spec, StopsPressing

\* Every line is reported exactly once and in order, a streaming caller is given
\* every result, and the totals and the exit code are those of the results: for
\* sequences of any length and every interleaving of failures and cancellation.
THEOREM ReportIsComplete == Spec => []ResultsComplete
<1>1. IInv => ResultsComplete
  <2>. SUFFICES ASSUME IInv PROVE ResultsComplete
    OBVIOUS
  <2>0. TypeOK /\ ResultsInPlace /\ TotalsInPlace
    BY DEF IInv
  <2>1. opt.stream => streamed = results
    BY <2>0 DEF ResultsInPlace
  <2>2. ASSUME phase = "done"
        PROVE  LET ops == {i \in DOMAIN results : results[i].src = "op"} IN
               /\ {results[i].line : i \in ops} = DOMAIN prog
               /\ \A i, j \in ops : i < j => results[i].line < results[j].line
               /\ totals.ok = Count({"ok", "warn"}, {"op", "cap"})
               /\ totals.err = Count({"err"}, {"op", "cap"})
               /\ totals.skip = Count({"skip"}, {"op"})
               /\ Len(released) = Count({"warn"}, {"release"})
               /\ exit = "failure" <=> totals.err > 0
    <3>. DEFINE ops == {i \in DOMAIN results : results[i].src = "op"}
    <3>1. PICK n \in Nat : n = Len(prog) /\ DOMAIN prog = 1..n
      <4>1. prog \in Seq(Op)
        BY <2>0, ProgramsAssumption DEF TypeOK
      <4>. QED
        BY <4>1, LenProperties
    <3>2. Reported = n
      BY <2>0, <2>2, <3>1 DEF ResultsInPlace, Reported
    <3>3. /\ \A i \in ops : results[i].line \in 1..n
          /\ \A l \in 1..n : \E i \in ops : results[i].line = l
          /\ \A i, j \in ops : i < j => results[i].line < results[j].line
      BY <2>0, <3>2 DEF ResultsInPlace
    <3>4. {results[i].line : i \in ops} = DOMAIN prog
      BY <3>1, <3>3
    <3>5. /\ totals.ok = Count({"ok", "warn"}, {"op", "cap"})
          /\ totals.err = Count({"err"}, {"op", "cap"})
          /\ totals.skip = Count({"skip"}, {"op"})
          /\ Len(released) = Count({"warn"}, {"release"})
      BY <2>0, <2>2 DEF TotalsInPlace
    <3>6. exit = "failure" <=> totals.err > 0
      BY <2>0, <2>2 DEF TotalsInPlace
    <3>. QED
      BY <3>3, <3>4, <3>5, <3>6
  <2>. QED
    BY <2>1, <2>2 DEF ResultsComplete
<1>. QED BY <1>1, Invariance, PTL

\* An auto-release warn names a line that was reported ok: what a failed line
\* took was given back by the line itself, whichever releases failed.
THEOREM WarnsNameLinesThatSucceeded == Spec => []ReleasesNameLinesThatSucceeded
<1>1. IInv => ReleasesNameLinesThatSucceeded
  BY DEF IInv, HeldInPlace
<1>. QED BY <1>1, Invariance, PTL

-----------------------------------------------------------------------------
(***************************************************************************)
(* LocalRun.  The argument: `Written` is all a run has to print up to its  *)
(* done line.  A step of the engine appends to it what the contract lets   *)
(* follow, so that the contract holds of every prefix of it                *)
(* (WrittenFollows); a streamed run's output is Written itself, and a      *)
(* plain run's is a prefix.                                                *)
(***************************************************************************)

\* What the process can have printed.
EventSet ==
  {StartEv}
    \cup [ev : {"result"}, line : Nat, status : {"ok", "warn", "err", "skip"},
          src : {"op", "cap", "release"}]
    \cup [ev : {"done"}, ok : Nat, err : Nat, skip : Nat]
    \cup [ev : {"abort"}, code : AbortCodes]

-----------------------------------------------------------------------------
(* The invariant, part by part.                                            *)

\* The types.
LocalTyped ==
  /\ platform \in {"darwin", "windows", "other"} /\ reader \in BOOLEAN
  /\ proc \in {"start", "backend", "run", "print", "ended", "exited", "killed"}
  /\ out \in Seq(EventSet) /\ seen \in Nat

\* Where the process stands tells where the run does; a run that has not got
\* past preflight has touched nothing.
ProcInPlace ==
  /\ proc \in {"start", "backend"} => phase = "preflight"
  /\ proc = "print" => phase = "done" /\ ~opt.stream
  /\ proc \in {"ended", "exited"} => phase \in {"preflight", "aborted", "done"}
  /\ phase \in {"preflight", "aborted"} => down = {} /\ lost = {}
  /\ proc = "exited" =>
       /\ phase = "preflight" => code = 2
       /\ phase = "aborted" => code = 4
       /\ phase = "done" => code = IF exit = "failure" THEN 1 ELSE 0

\* What nobody has read: at most one line that ran, and the run knows.
Executed(e) == IsLine(e) /\ e.status # "skip"
Unread == (seen + 1)..Len(out)
UnreadInPlace ==
  opt.stream =>
    /\ seen <= Len(out) /\ (reader => seen = Len(out))
    /\ \A i, j \in Unread : Executed(out[i]) /\ Executed(out[j]) => i = j
    /\ \A i \in Unread : IsResult(out[i]) => cancelled

\* What a run has to print, up to its done line.
Written == <<StartEv>> \o Events(results)

\* A skipped line is a line of a run that must stop, a failed one has made it
\* fail, and an extra capture comes right after the line that failed.
ResultsTell ==
  /\ \A i \in DOMAIN results : results[i].status = "skip" => Stopped
  /\ \A i \in DOMAIN results :
       results[i].src = "op" /\ results[i].status = "err" => failed
  /\ phase = "errcap" =>
       results # <<>> /\ Last(results) = [line |-> line, status |-> "err", src |-> "op"]

\* A line takes no more inputs than it may name, and gives each up once.
LineStarts == phase \in {"preflight", "loop", "mods", "move", "md", "release", "done", "aborted"}
Taken      == Len(keys) + Len(buttons) + Len(released)
HeldInBounds ==
  Taken + (IF phase = "kd" THEN Len(rest) ELSE 0)
    <= (IF LineStarts THEN line - 1 ELSE line) * KeysPerLine

\* The line the run ends with.
LastLine == CASE phase = "preflight" -> AbortEv("E_VALIDATE")
              [] phase = "aborted"   -> AbortEv("E_SESSION")
              [] phase = "done"      -> DoneLine

\* The lines and the totals the contract counts there are the run's.
WrittenCounts ==
  /\ Contract!LinesDone(Written) = Reported
  /\ Contract!TrueDone(Written) = DoneLine
  /\ phase # "done" => Contract!LateWarns(Written) = 0

\* Event by event, the contract lets the run print what it has to.
Keeps(s) == \A i \in DOMAIN s : Contract!Follows(SubSeq(s, 1, i - 1), s[i])
WrittenFollows == Keeps(Written)

\* What has been printed of it.
OutInPlace ==
  /\ proc = "start" => out = <<>>
  /\ proc = "backend" => out = IF opt.stream THEN <<StartEv>> ELSE <<>>
  /\ proc = "run" => out = IF opt.stream THEN Written ELSE <<>>
  /\ proc = "print" => /\ Len(out) <= Len(Written)
                       /\ \A i \in 1..Len(out) : out[i] = Written[i]
  /\ proc \in {"ended", "exited"} => out # <<>> /\ out[Len(out)] = LastLine

LocalInv == /\ IInv /\ LocalTyped /\ ProcInPlace /\ UnreadInPlace
            /\ ResultsTell /\ HeldInBounds /\ WrittenCounts /\ WrittenFollows
            /\ OutInPlace

-----------------------------------------------------------------------------
(* What the engine's steps hand to OnResult.                               *)

LEMMA EventsMade ==
  /\ StartEv \in EventSet /\ \A c \in AbortCodes : AbortEv(c) \in EventSet
  /\ \A r \in Result : /\ ResultEv(r.line, r.status, r.src) \in EventSet
                       /\ IsResult(ResultEv(r.line, r.status, r.src))
<1>1. StartEv \in EventSet
  BY DEF EventSet
<1>2. \A c \in AbortCodes : AbortEv(c) \in EventSet
  BY DEF EventSet, AbortEv
<1>3. ASSUME NEW r \in Result
      PROVE  /\ ResultEv(r.line, r.status, r.src) \in EventSet
             /\ IsResult(ResultEv(r.line, r.status, r.src))
  <2>1. r.line \in Nat /\ r.status \in {"ok", "warn", "err", "skip"}
        /\ r.src \in {"op", "cap", "release"}
    BY DEF Result
  <2>. QED
    BY <2>1 DEF EventSet, ResultEv, IsResult
<1>. QED
  BY <1>1, <1>2, <1>3

\* One event per result.
LEMMA EventsOf ==
  ASSUME NEW rs \in Seq(Result)
  PROVE  /\ Events(rs) \in Seq(EventSet) /\ Len(Events(rs)) = Len(rs)
         /\ \A i \in 1..Len(rs) : Events(rs)[i] = ResultEv(rs[i].line, rs[i].status, rs[i].src)
<1>1. PICK n \in Nat : n = Len(rs) /\ DOMAIN rs = 1..n
  BY LenProperties
<1>2. \A i \in 1..n : rs[i] \in Result
  BY <1>1, ElementOfSeq
<1>3. \A i \in 1..n : ResultEv(rs[i].line, rs[i].status, rs[i].src) \in EventSet
  BY <1>2, EventsMade
<1>4. Events(rs) = [i \in 1..n |-> ResultEv(rs[i].line, rs[i].status, rs[i].src)]
  BY <1>1 DEF Events
<1>5. Events(rs) \in [1..n -> EventSet]
  BY <1>3, <1>4
<1>6. Events(rs) \in Seq(EventSet)
  BY <1>5, SeqDef
<1>7. Len(Events(rs)) = n
  <2>1. DOMAIN Events(rs) = 1..n
    BY <1>5
  <2>. QED
    BY <1>6, <2>1, LenProperties
<1>. QED
  BY <1>1, <1>4, <1>6, <1>7

\* What comes after s in s \o w is w.
LEMMA SuffixOfConcat ==
  ASSUME NEW S, NEW s \in Seq(S), NEW w \in Seq(S)
  PROVE  SubSeq(s \o w, Len(s) + 1, Len(s \o w)) = w
<1>1. PICK m \in Nat : m = Len(s)
  BY LenProperties
<1>2. PICK k \in Nat : k = Len(w) /\ DOMAIN w = 1..k
  BY LenProperties
<1>3. PICK z \in Seq(S) : z = s \o w
  BY ConcatProperties
<1>4. /\ Len(z) = m + k
      /\ \A i \in 1..(m + k) : z[i] = IF i <= m THEN s[i] ELSE w[i - m]
  BY <1>1, <1>2, <1>3, ConcatProperties
<1>5. PICK d \in Int, e \in Int : d = m + 1 /\ e = m + k
  OBVIOUS
<1>6. \A i \in d..e : z[i] \in S
  <2>1. d..e \subseteq 1..Len(z)
    BY <1>4, <1>5
  <2>2. \A i \in 1..Len(z) : z[i] \in S
    BY ElementOfSeq
  <2>. QED
    BY <2>1, <2>2
<1>7. /\ SubSeq(z, d, e) \in Seq(S)
      /\ Len(SubSeq(z, d, e)) = IF d <= e THEN e - d + 1 ELSE 0
      /\ \A i \in 1..(e - d + 1) : SubSeq(z, d, e)[i] = z[d + i - 1]
  BY <1>6, SubSeqProperties
<1>8. Len(SubSeq(z, d, e)) = k
  BY <1>5, <1>7
<1>9. ASSUME NEW i \in 1..k
      PROVE  SubSeq(z, d, e)[i] = w[i]
  <2>1. i \in 1..(e - d + 1) /\ d + i - 1 = m + i
    BY <1>5
  <2>2. m + i \in 1..(m + k) /\ ~(m + i <= m) /\ (m + i) - m = i
    OBVIOUS
  <2>3. SubSeq(z, d, e)[i] = z[m + i]
    BY <1>7, <2>1
  <2>. QED
    BY <1>4, <2>2, <2>3
<1>10. SubSeq(z, d, e) = w
  BY <1>2, <1>7, <1>8, <1>9, SeqEqual
<1>. QED
  BY <1>1, <1>3, <1>4, <1>5, <1>10

\* What a step adds to the stream is what it hands over.
LEMMA StreamedTail ==
  ASSUME streamed \in Seq(Result), NEW w \in Seq(Result), streamed' = streamed \o w
  PROVE  Streamed = Events(w)
BY SuffixOfConcat DEF Streamed

\* What there is to print.
LEMMA EventsJoin ==
  ASSUME NEW rs \in Seq(Result), NEW w \in Seq(Result)
  PROVE  Events(rs \o w) = Events(rs) \o Events(w)
<1>1. PICK m \in Nat : m = Len(rs)
  BY LenProperties
<1>2. PICK k \in Nat : k = Len(w)
  BY LenProperties
<1>3. PICK z \in Seq(Result) : z = rs \o w
  BY ConcatProperties
<1>4. /\ Len(z) = m + k
      /\ \A i \in 1..(m + k) : z[i] = IF i <= m THEN rs[i] ELSE w[i - m]
  BY <1>1, <1>2, <1>3, ConcatProperties
<1>5. PICK ez \in Seq(EventSet) : ez = Events(z)
  BY EventsOf
<1>6. PICK er \in Seq(EventSet) : er = Events(rs)
  BY EventsOf
<1>7. PICK ew \in Seq(EventSet) : ew = Events(w)
  BY EventsOf
<1>8. /\ Len(ez) = m + k
      /\ \A i \in 1..(m + k) : ez[i] = ResultEv(z[i].line, z[i].status, z[i].src)
  BY <1>4, <1>5, EventsOf
<1>9. /\ Len(er) = m
      /\ \A i \in 1..m : er[i] = ResultEv(rs[i].line, rs[i].status, rs[i].src)
  BY <1>1, <1>6, EventsOf
<1>10. /\ Len(ew) = k
       /\ \A i \in 1..k : ew[i] = ResultEv(w[i].line, w[i].status, w[i].src)
  BY <1>2, <1>7, EventsOf
<1>11. PICK j \in Seq(EventSet) : j = er \o ew
  BY ConcatProperties
<1>12. /\ Len(j) = m + k
       /\ \A i \in 1..(m + k) : j[i] = IF i <= m THEN er[i] ELSE ew[i - m]
  <2>1. Len(er) = m /\ Len(ew) = k
    BY <1>9, <1>10
  <2>2. /\ Len(j) = Len(er) + Len(ew)
        /\ \A i \in 1..(Len(er) + Len(ew)) : j[i] = IF i <= Len(er) THEN er[i] ELSE ew[i - Len(er)]
    BY <1>11, ConcatProperties
  <2>. QED
    BY <2>1, <2>2
<1>13. ASSUME NEW i \in 1..(m + k)
       PROVE  ez[i] = j[i]
  <2>1. CASE i <= m
    <3>1. i \in 1..m
      BY <2>1
    <3>2. z[i] = rs[i] /\ j[i] = er[i]
      BY <1>4, <1>12, <2>1
    <3>. QED
      BY <1>8, <1>9, <3>1, <3>2
  <2>2. CASE ~(i <= m)
    <3>1. PICK d \in 1..k : d = i - m
      BY <2>2
    <3>2. z[i] = w[d] /\ j[i] = ew[d]
      BY <1>4, <1>12, <2>2, <3>1
    <3>. QED
      BY <1>8, <1>10, <3>1, <3>2
  <2>. QED
    BY <2>1, <2>2
<1>14. ez = j
  BY <1>8, <1>12, <1>13, SeqEqual
<1>. QED
  BY <1>3, <1>5, <1>6, <1>7, <1>11, <1>14

LEMMA DoneMade ==
  ASSUME TypeOK
  PROVE  DoneLine \in EventSet
<1>1. totals.ok \in Nat /\ totals.err \in Nat /\ totals.skip \in Nat
  BY DEF TypeOK
<1>. QED
  BY <1>1 DEF EventSet, DoneLine, DoneEv

\* The page, its lines, and the line that ends it.
LEMMA PageLines ==
  ASSUME TypeOK
  PROVE  /\ Written \in Seq(EventSet) /\ Len(Written) = Len(results) + 1
         /\ DOMAIN Written = 1..(Len(results) + 1) /\ Len(results) \in Nat
         /\ Written[1] = StartEv
         /\ \A i \in 1..Len(results) : Written[i + 1] = ResultEv(results[i].line, results[i].status, results[i].src)
         /\ Page = Append(Written, DoneLine)
<1>. DEFINE E == Events(results)
<1>1. results \in Seq(Result)
  BY DEF TypeOK
<1>2. PICK m \in Nat : m = Len(results)
  BY <1>1, LenProperties
<1>3. /\ E \in Seq(EventSet) /\ Len(E) = m
      /\ \A i \in 1..m : E[i] = ResultEv(results[i].line, results[i].status, results[i].src)
  BY <1>1, <1>2, EventsOf
<1>4. <<StartEv>> \in Seq(EventSet) /\ Len(<<StartEv>>) = 1 /\ <<StartEv>>[1] = StartEv
  BY EventsMade
<1>. HIDE DEF E
<1>5. PICK z \in Seq(EventSet) : z = <<StartEv>> \o E
  BY <1>3, <1>4, ConcatProperties
<1>6. /\ Len(z) = 1 + m
      /\ \A i \in 1..(1 + m) : z[i] = IF i <= 1 THEN <<StartEv>>[i] ELSE E[i - 1]
  BY <1>3, <1>4, <1>5, ConcatProperties
<1>7. DOMAIN z = 1..(m + 1) /\ Len(z) = m + 1
  BY <1>6, LenProperties
<1>8. z[1] = StartEv
  BY <1>4, <1>6
<1>9. ASSUME NEW i \in 1..m PROVE z[i + 1] = E[i]
  <2>1. i + 1 \in 1..(1 + m) /\ ~(i + 1 <= 1) /\ (i + 1) - 1 = i
    OBVIOUS
  <2>. QED
    BY <1>6, <2>1
<1>10. z = Written
  BY <1>5 DEF Written, E
<1>11. Append(z, DoneLine) = z \o <<DoneLine>>
  BY DoneMade, AppendIsConcat
<1>12. Page = z \o <<DoneLine>>
  BY <1>5 DEF Page, E
<1>. QED
  BY <1>2, <1>3, <1>7, <1>8, <1>9, <1>10, <1>11, <1>12

LEMMA WrittenGrows ==
  ASSUME TypeOK, TypeOK', NEW w \in Seq(Result), results' = results \o w
  PROVE  Written' = Written \o Events(w)
<1>1. results \in Seq(Result)
  BY DEF TypeOK
<1>4. PICK er \in Seq(EventSet) : er = Events(results)
  BY <1>1, EventsOf
<1>5. PICK ew \in Seq(EventSet) : ew = Events(w)
  BY EventsOf
<1>2. <<StartEv>> \in Seq(EventSet)
  BY EventsMade
<1>6. PICK s \in Seq(EventSet) : s = <<StartEv>>
  BY <1>2
<1>7. (s \o er) \o ew = s \o (er \o ew)
  BY ConcatAssociative
<1>8. Written = s \o er
  BY <1>4, <1>6 DEF Written
<1>9. Written' = s \o (er \o ew)
  <2>1. Written' = <<StartEv>> \o Events(results \o w)
    BY DEF Written, Events
  <2>2. Events(results \o w) = er \o ew
    BY <1>1, <1>4, <1>5, EventsJoin
  <2>. QED
    BY <1>6, <2>1, <2>2
<1>. QED
  BY <1>5, <1>7, <1>8, <1>9

LEMMA OneEvent ==
  ASSUME NEW r \in Result
  PROVE  <<r>> \in Seq(Result) /\ Events(<<r>>) = <<ResultEv(r.line, r.status, r.src)>>
<1>1. <<r>> \in Seq(Result) /\ Len(<<r>>) = 1 /\ <<r>>[1] = r /\ 1 \in 1..Len(<<r>>)
  OBVIOUS
<1>2. /\ Events(<<r>>) \in Seq(EventSet) /\ Len(Events(<<r>>)) = 1
      /\ Events(<<r>>)[1] = ResultEv(r.line, r.status, r.src)
  BY <1>1, EventsOf
<1>. QED
  BY <1>1, <1>2

LEMMA WrittenAppends ==
  ASSUME TypeOK, TypeOK', NEW r \in Result, Record(r)
  PROVE  Written' = Append(Written, ResultEv(r.line, r.status, r.src))
<1>1. results \in Seq(Result) /\ results' = Append(results, r)
  BY DEF TypeOK, Record
<1>2. results' = results \o <<r>>
  BY <1>1, AppendIsConcat
<1>3. Written' = Written \o <<ResultEv(r.line, r.status, r.src)>>
  BY <1>2, OneEvent, WrittenGrows
<1>. QED
  BY <1>3, PageLines, EventsMade, AppendIsConcat

-----------------------------------------------------------------------------
(* What the engine's steps do to the report, and to the output.            *)

\* The report of one line, or of the extra capture.
Told(r) ==
  /\ Record(r) /\ r.src \in {"op", "cap"} /\ UNCHANGED args
  /\ r.src = "op" => /\ r.line = Reported + 1 /\ Reported' = Reported + 1
                     /\ r.line <= Len(prog) /\ (r.status = "skip" <=> Stopped)
  /\ r.src = "cap" => /\ phase = "errcap" /\ r.line = line /\ Reported' = Reported
                      /\ r.status \in {"ok", "err"}
  /\ failed' = (failed \/ (r.src = "op" /\ r.status = "err"))
  /\ phase' \in {"loop", "errcap"}
  /\ phase' = "errcap" => r = [line |-> line', status |-> "err", src |-> "op"]

LEMMA Tells ==
  ASSUME IInv, Reports
  PROVE  \E r \in Result : Told(r)
<1>0. /\ TypeOK /\ ControlInPlace /\ StoppedForGood /\ line \in Nat \ {0} /\ failed \in BOOLEAN
      /\ status \in {"ok", "warn", "err"}
  BY DEF IInv, TypeOK
<1>1. CASE SkipLine
  <2>. DEFINE r == [line |-> line, status |-> "skip", src |-> "op"]
  <2>1. r \in Result
    BY <1>0 DEF Result
  <2>2. Reported = line - 1 /\ Reported' = line
    BY <1>0, <1>1 DEF SkipLine, Reported
  <2>3. Told(r)
    BY <1>0, <1>1, <2>2 DEF SkipLine, Told
  <2>. QED
    BY <2>1, <2>3
<1>2. CASE ReportLine
  <2>. DEFINE r == [line |-> line, status |-> status, src |-> "op"]
  <2>1. r \in Result
    BY <1>0 DEF Result
  <2>2. Reported = line - 1 /\ Reported' = line
    BY <1>0, <1>2 DEF ReportLine, Reported
  <2>3. line <= Len(prog)
    <3>1. line \in DOMAIN prog
      BY <1>0, <1>2 DEF ControlInPlace, ReportLine
    <3>2. prog \in Seq(Op)
      BY <1>0, ProgramsAssumption DEF TypeOK
    <3>. QED
      BY <3>1, <3>2, LenProperties
  <2>4. ~Stopped
    BY <1>0, <1>2 DEF StoppedForGood, ReportLine
  <2>5. /\ Record(r) /\ UNCHANGED args
        /\ failed' = (failed \/ status = "err")
        /\ phase' \in {"loop", "errcap"}
        /\ phase' = "errcap" => status = "err" /\ line' = line
    BY <1>2 DEF ReportLine
  <2>6. Told(r)
    BY <1>0, <2>2, <2>3, <2>4, <2>5 DEF Told
  <2>. QED
    BY <2>1, <2>6
<1>3. CASE CaptureOnError
  <2>1. PICK s \in {"ok", "err"} : Record([line |-> line, status |-> s, src |-> "cap"])
    BY <1>3 DEF CaptureOnError
  <2>. DEFINE r == [line |-> line, status |-> s, src |-> "cap"]
  <2>2. r \in Result
    BY <1>0 DEF Result
  <2>3. Reported = line /\ Reported' = line
    BY <1>0, <1>3 DEF CaptureOnError, Reported
  <2>4. /\ UNCHANGED args /\ failed' = failed /\ phase = "errcap" /\ phase' = "loop"
    BY <1>3 DEF CaptureOnError
  <2>5. Told(r)
    BY <1>0, <2>1, <2>3, <2>4 DEF Told
  <2>. QED
    BY <2>2, <2>5
<1>. QED
  BY <1>1, <1>2, <1>3 DEF Reports

LEMMA EngineCases ==
  ASSUME IInv, EngineStep
  PROVE  \/ Quiet /\ UNCHANGED io
         \/ \E r \in Result :
              /\ Told(r)
              /\ IF opt.stream
                 THEN /\ Writes(<<ResultEv(r.line, r.status, r.src)>>, "run")
                      /\ cancelled' = (cancelled \/ ~reader)
                 ELSE UNCHANGED io
         \/ /\ Finish
            /\ IF opt.stream /\ Events(Warns) # <<>>
               THEN Writes(Events(Warns), "run") /\ cancelled' = (cancelled \/ ~reader)
               ELSE UNCHANGED io
<1>0. TypeOK /\ streamed \in Seq(Result)
  BY DEF IInv, TypeOK
<1>1. ASSUME UNCHANGED streamed
      PROVE  UNCHANGED io
  <2>1. streamed' = streamed \o <<>> /\ <<>> \in Seq(Result)
    BY <1>0, <1>1, ConcatEmptySeq, EmptySeq
  <2>2. Streamed = Events(<<>>)
    BY <1>0, <2>1, StreamedTail
  <2>3. Events(<<>>) = <<>>
    <3>1. Events(<<>>) \in Seq(EventSet) /\ Len(Events(<<>>)) = 0
      BY <2>1, EventsOf
    <3>. QED
      BY <3>1, EmptySeq
  <2>. QED
    BY <2>2, <2>3 DEF EngineStep
<1>2. CASE Quiet
  BY <1>1, <1>2 DEF Quiet, report
<1>3. CASE Reports
  <2>1. PICK r \in Result : Told(r)
    BY <1>3, Tells
  <2>2. CASE opt.stream
    <3>1. streamed' = Append(streamed, r)
      BY <2>1, <2>2 DEF Told, Record
    <3>2. <<r>> \in Seq(Result) /\ streamed' = streamed \o <<r>>
      BY <1>0, <3>1, AppendIsConcat
    <3>3. Streamed = Events(<<r>>)
      BY <1>0, <3>2, StreamedTail
    <3>4. Streamed = <<ResultEv(r.line, r.status, r.src)>> /\ Streamed # <<>>
      BY <3>3, OneEvent
    <3>5. Writes(Streamed, "run") /\ cancelled' = (cancelled \/ ~reader)
      BY <3>4, Zenon DEF EngineStep
    <3>6. Writes(<<ResultEv(r.line, r.status, r.src)>>, "run")
      BY <3>4, <3>5
    <3>. QED
      BY <2>1, <2>2, <3>5, <3>6
  <2>3. CASE ~opt.stream
    <3>1. UNCHANGED streamed
      BY <2>1, <2>3 DEF Told, Record
    <3>. QED
      BY <1>1, <2>1, <2>3, <3>1
  <2>. QED
    BY <2>2, <2>3
<1>4. CASE Finish
  <2>1. CASE opt.stream
    <3>1. streamed' = streamed \o Warns
      BY <1>4, <2>1 DEF Finish
    <3>2. Streamed = Events(Warns)
      BY <1>0, <3>1, WarnsTyped, StreamedTail
    <3>3. IF Streamed = <<>> THEN UNCHANGED io
          ELSE Writes(Streamed, "run") /\ cancelled' = (cancelled \/ ~reader)
      BY Zenon DEF EngineStep
    <3>4. CASE Events(Warns) = <<>>
      BY <1>4, <3>2, <3>3, <3>4
    <3>5. CASE Events(Warns) # <<>>
      <4>1. Writes(Streamed, "run") /\ cancelled' = (cancelled \/ ~reader)
        BY <3>2, <3>3, <3>5
      <4>2. Writes(Events(Warns), "run")
        BY <3>2, <4>1
      <4>. QED
        BY <1>4, <2>1, <3>5, <4>1, <4>2
    <3>. QED
      BY <3>4, <3>5
  <2>2. CASE ~opt.stream
    <3>1. UNCHANGED streamed
      BY <1>4, <2>2 DEF Finish
    <3>. QED
      BY <1>1, <1>4, <2>2, <3>1
  <2>. QED
    BY <2>1, <2>2
<1>5. Reports \/ Finish \/ Quiet
  BY StepQuiet DEF EngineStep, Next
<1>. QED
  BY <1>2, <1>3, <1>4, <1>5

\* A write reaches the output, or kills the process.
LEMMA WriteCases ==
  ASSUME NEW evs, NEW next, Writes(evs, next)
  PROVE  \/ /\ out' = out \o evs /\ proc' = next
            /\ seen' = IF reader THEN Len(out') ELSE seen
         \/ UNCHANGED <<out, seen>> /\ proc' = "killed"
BY Zenon DEF Writes

\* The steps of the process, and what they leave to the engine.
LEMMA StepCases ==
  ASSUME [LocalNext]_localVars
  PROVE  /\ [Next]_vars /\ platform' = platform
         /\ UNCHANGED vars \/ EngineStep
         /\ \/ Begin \/ OpenBackend \/ EngineStep \/ EndRun \/ PrintLine \/ Exit
            \/ ReaderLeaves \/ Interrupt \/ UNCHANGED localVars
BY DEF LocalNext, ProcessStep, Gone, Next, localVars, Begin, OpenBackend, EngineStep, EndRun,
       PrintLine, Exit, ReaderLeaves, Interrupt

\* The steps by what becomes of the output.
Says(evs, next) ==
  /\ out' = out \o evs /\ proc' = next /\ seen' \in {seen, Len(out')}
  /\ opt.stream => seen' = IF reader THEN Len(out') ELSE seen

Silently(next) == UNCHANGED <<out, seen>> /\ proc' = next

Greets   == Begin /\ IF opt.stream THEN Says(<<StartEv>>, "backend") ELSE Silently("backend")
Opens    == OpenBackend /\ Silently("run")
Refuses  == OpenBackend /\ Says(<<AbortEv("E_VALIDATE")>>, "ended")
Works    == EngineStep /\ Quiet /\ UNCHANGED io
Tell(r)  == /\ EngineStep /\ Told(r)
            /\ IF opt.stream
               THEN /\ Says(<<ResultEv(r.line, r.status, r.src)>>, "run")
                    /\ cancelled' = (cancelled \/ ~reader)
               ELSE UNCHANGED io
Finishes == /\ EngineStep /\ Finish
            /\ IF opt.stream /\ Events(Warns) # <<>>
               THEN Says(Events(Warns), "run") /\ cancelled' = (cancelled \/ ~reader)
               ELSE UNCHANGED io
GivesUp  == EndRun /\ phase = "aborted" /\ Says(<<AbortEv("E_SESSION")>>, "ended")
Closes   == /\ EndRun /\ phase = "done"
            /\ IF opt.stream THEN Says(<<DoneLine>>, "ended") ELSE Silently("print")
Copies   == /\ PrintLine
            /\ Says(<<Page[Len(out) + 1]>>,
                    IF Len(out) + 1 = Len(Page) THEN "ended" ELSE "print")
Dies     == /\ Alive /\ proc' = "killed" /\ UNCHANGED <<out, seen, platform, reader, code>>
            /\ UNCHANGED vars \/ (proc = "run" /\ RunStep)

LEMMA LocalCases ==
  ASSUME IInv, LocalTyped, [LocalNext]_localVars
  PROVE  \/ Greets \/ Opens \/ Refuses \/ Works \/ (\E r \in Result : Tell(r)) \/ Finishes
         \/ GivesUp \/ Closes \/ Copies \/ Exit \/ Dies
         \/ ReaderLeaves \/ UNCHANGED localVars
<1>. USE DEF Silently
<1>1. ASSUME NEW evs, NEW next, Writes(evs, next)
      PROVE  Says(evs, next) \/ (UNCHANGED <<out, seen>> /\ proc' = "killed")
  <2>1. CASE /\ out' = out \o evs /\ proc' = next
             /\ seen' = IF reader THEN Len(out') ELSE seen
    <3>1. seen' \in {seen, Len(out')}
      BY <2>1
    <3>. QED
      BY <2>1, <3>1 DEF Says
  <2>. QED
    BY <1>1, <2>1, WriteCases
<1>2. ASSUME NEW c \in AbortCodes, WritesAbort(c)
      PROVE  Says(<<AbortEv(c)>>, "ended") \/ (UNCHANGED <<out, seen>> /\ proc' = "killed")
  <2>1. CASE opt.stream
    BY <1>1, <1>2, <2>1, Zenon DEF WritesAbort
  <2>2. CASE ~opt.stream
    <3>1. out' = Append(out, AbortEv(c)) /\ proc' = "ended" /\ seen' = seen
      BY <1>2, <2>2, Zenon DEF WritesAbort
    <3>2. Append(out, AbortEv(c)) = out \o <<AbortEv(c)>>
      BY EventsMade, AppendIsConcat DEF LocalTyped
    <3>. QED
      BY <2>2, <3>1, <3>2 DEF Says
  <2>. QED
    BY <2>1, <2>2
<1>3. CASE Begin
  <2>1. Alive /\ UNCHANGED <<vars, platform, reader, code>>
    BY <1>3 DEF Begin, Alive
  <2>2. IF opt.stream THEN Writes(<<StartEv>>, "backend") ELSE Silently("backend")
    BY <1>3, Zenon DEF Begin
  <2>3. CASE opt.stream
    <3>1. Writes(<<StartEv>>, "backend")
      BY <2>2, <2>3
    <3>. QED
      BY <1>1, <1>3, <2>1, <2>3, <3>1 DEF Greets, Dies
  <2>4. CASE ~opt.stream
    BY <1>3, <2>2, <2>4 DEF Greets
  <2>. QED
    BY <2>3, <2>4
<1>4. CASE OpenBackend
  <2>1. Alive /\ UNCHANGED <<vars, platform, reader, code>>
    BY <1>4 DEF OpenBackend, Alive
  <2>2. Silently("run") \/ WritesAbort("E_VALIDATE")
    BY <1>4, Zenon DEF OpenBackend
  <2>3. "E_VALIDATE" \in AbortCodes
    BY DEF AbortCodes
  <2>. QED
    BY <1>2, <1>4, <2>1, <2>2, <2>3 DEF Opens, Refuses, Dies
<1>5. CASE EngineStep
  <2>1. Alive /\ UNCHANGED <<platform, reader, code>> /\ proc = "run" /\ RunStep
    BY <1>5 DEF EngineStep, Alive
  <2>2. ASSUME NEW r \in Result, Told(r),
               IF opt.stream
               THEN /\ Writes(<<ResultEv(r.line, r.status, r.src)>>, "run")
                    /\ cancelled' = (cancelled \/ ~reader)
               ELSE UNCHANGED io
        PROVE  Tell(r) \/ Dies
    <3>1. CASE opt.stream
      <4>1. Writes(<<ResultEv(r.line, r.status, r.src)>>, "run") /\ cancelled' = (cancelled \/ ~reader)
        BY <2>2, <3>1, Zenon
      <4>2. CASE Says(<<ResultEv(r.line, r.status, r.src)>>, "run")
        BY <1>5, <2>2, <3>1, <4>1, <4>2, Zenon DEF Tell
      <4>. QED
        BY <1>1, <2>1, <4>1, <4>2 DEF Dies
    <3>2. CASE ~opt.stream
      BY <1>5, <2>2, <3>2, Zenon DEF Tell
    <3>. QED
      BY <3>1, <3>2
  <2>3. ASSUME Finish,
               IF opt.stream /\ Events(Warns) # <<>>
               THEN Writes(Events(Warns), "run") /\ cancelled' = (cancelled \/ ~reader)
               ELSE UNCHANGED io
        PROVE  Finishes \/ Dies
    <3>1. CASE opt.stream /\ Events(Warns) # <<>>
      <4>1. Writes(Events(Warns), "run") /\ cancelled' = (cancelled \/ ~reader)
        BY <2>3, <3>1, Zenon
      <4>2. CASE Says(Events(Warns), "run")
        BY <1>5, <2>3, <3>1, <4>1, <4>2, Zenon DEF Finishes
      <4>. QED
        BY <1>1, <2>1, <4>1, <4>2 DEF Dies
    <3>2. CASE ~(opt.stream /\ Events(Warns) # <<>>)
      BY <1>5, <2>3, <3>2, Zenon DEF Finishes
    <3>. QED
      BY <3>1, <3>2
  <2>. QED
    BY <1>5, <2>2, <2>3, EngineCases, Zenon DEF Works
<1>6. CASE EndRun
  <2>1. Alive /\ UNCHANGED <<vars, platform, reader, code>> /\ phase \in {"aborted", "done"}
    BY <1>6 DEF EndRun, Alive
  <2>2. "E_SESSION" \in AbortCodes
    BY DEF AbortCodes
  <2>3. CASE phase = "aborted"
    <3>1. WritesAbort("E_SESSION")
      BY <1>6, <2>3, Zenon DEF EndRun
    <3>. QED
      BY <1>2, <1>6, <2>1, <2>2, <2>3, <3>1 DEF GivesUp, Dies
  <2>4. CASE phase = "done"
    <3>1. IF opt.stream THEN Writes(<<DoneLine>>, "ended") ELSE Silently("print")
      <4>1. phase # "aborted"
        BY <2>4
      <4>. QED
        BY <1>6, <4>1, Zenon DEF EndRun
    <3>2. CASE opt.stream
      <4>1. Writes(<<DoneLine>>, "ended")
        BY <3>1, <3>2
      <4>. QED
        BY <1>1, <1>6, <2>1, <2>4, <3>2, <4>1 DEF Closes, Dies
    <3>3. CASE ~opt.stream
      BY <1>6, <2>4, <3>1, <3>3 DEF Closes
    <3>. QED
      BY <3>2, <3>3
  <2>. QED
    BY <2>1, <2>3, <2>4
<1>7. CASE PrintLine
  <2>1. Alive /\ UNCHANGED <<vars, platform, reader, code>>
    BY <1>7 DEF PrintLine, Alive
  <2>2. Writes(<<Page[Len(out) + 1]>>, IF Len(out) + 1 = Len(Page) THEN "ended" ELSE "print")
    BY <1>7 DEF PrintLine
  <2>. QED
    BY <1>1, <1>7, <2>1, <2>2 DEF Copies, Dies
<1>8. CASE Interrupt
  BY <1>8 DEF Interrupt, Dies
<1>. QED
  BY <1>3, <1>4, <1>5, <1>6, <1>7, <1>8, StepCases

-----------------------------------------------------------------------------
(* The steps keep the invariant, part by part.                             *)

LEMMA SaysTyped ==
  ASSUME LocalTyped, NEW evs \in Seq(EventSet), NEW next, Says(evs, next)
  PROVE  /\ out' \in Seq(EventSet) /\ seen' \in Nat /\ proc' = next
         /\ Len(out) \in Nat /\ Len(evs) \in Nat /\ Len(out') = Len(out) + Len(evs)
         /\ \A i \in 1..Len(out) : out'[i] = out[i]
         /\ \A i \in 1..Len(evs) : out'[Len(out) + i] = evs[i]
<1>1. out \in Seq(EventSet)
  BY DEF LocalTyped
<1>2. PICK m \in Nat : m = Len(out)
  BY <1>1, LenProperties
<1>3. PICK k \in Nat : k = Len(evs)
  BY LenProperties
<1>4. PICK z \in Seq(EventSet) : z = out \o evs
  BY <1>1, ConcatProperties
<1>5. /\ Len(z) = m + k
      /\ \A i \in 1..(m + k) : z[i] = IF i <= m THEN out[i] ELSE evs[i - m]
  BY <1>1, <1>2, <1>3, <1>4, ConcatProperties
<1>6. \A i \in 1..m : z[i] = out[i]
  BY <1>5
<1>7. ASSUME NEW i \in 1..k PROVE z[m + i] = evs[i]
  <2>1. m + i \in 1..(m + k) /\ ~(m + i <= m) /\ (m + i) - m = i
    OBVIOUS
  <2>. QED
    BY <1>5, <2>1
<1>8. out' = z /\ proc' = next /\ seen' \in {seen, Len(z)}
  BY <1>4 DEF Says
<1>9. seen' \in Nat
  BY <1>5, <1>8 DEF LocalTyped
<1>. QED
  BY <1>2, <1>3, <1>5, <1>6, <1>7, <1>8, <1>9

\* What a step may add is typed.
LEMMA AddedTyped ==
  ASSUME TypeOK
  PROVE  /\ <<StartEv>> \in Seq(EventSet) /\ <<DoneLine>> \in Seq(EventSet)
         /\ \A c \in AbortCodes : <<AbortEv(c)>> \in Seq(EventSet)
         /\ \A r \in Result : <<ResultEv(r.line, r.status, r.src)>> \in Seq(EventSet)
         /\ Events(Warns) \in Seq(EventSet)
<1>1. /\ \A e \in EventSet : <<e>> \in Seq(EventSet)
  OBVIOUS
<1>. QED
  BY <1>1, EventsMade, DoneMade, WarnsTyped, EventsOf

\* What Copies prints.
LEMMA CopiedTyped ==
  ASSUME IInv, LocalTyped, OutInPlace, Copies
  PROVE  /\ <<Page[Len(out) + 1]>> \in Seq(EventSet)
         /\ Page[Len(out) + 1] \in EventSet
         /\ Len(Page) = Len(Written) + 1
         /\ \/ /\ Len(out) < Len(Written) /\ Page[Len(out) + 1] = Written[Len(out) + 1]
               /\ Len(out) + 1 # Len(Page)
            \/ /\ Len(out) = Len(Written) /\ Page[Len(out) + 1] = DoneLine
               /\ Len(out) + 1 = Len(Page)
<1>0. TypeOK
  BY DEF IInv
<1>1. Written \in Seq(EventSet) /\ Page = Append(Written, DoneLine)
  BY <1>0, PageLines
<1>2. PICK k \in Nat : k = Len(Written)
  BY <1>1, LenProperties
<1>3. /\ Page \in Seq(EventSet) /\ Len(Page) = k + 1 /\ Page[k + 1] = DoneLine
      /\ \A i \in 1..k : Page[i] = Written[i]
  BY <1>0, <1>1, <1>2, DoneMade, AppendProperties
<1>4. PICK m \in Nat : m = Len(out)
  BY LenProperties DEF LocalTyped
<1>5. m <= k
  BY <1>2, <1>4 DEF OutInPlace, Copies, PrintLine
<1>6. Page[m + 1] \in EventSet
  BY <1>3, <1>5, ElementOfSeq
<1>7. <<Page[m + 1]>> \in Seq(EventSet)
  BY <1>6
<1>8. CASE m < k
  <2>1. m + 1 \in 1..k /\ m + 1 # k + 1
    BY <1>8
  <2>. QED
    BY <1>2, <1>3, <1>4, <1>6, <1>7, <1>8, <2>1
<1>9. CASE m = k
  BY <1>2, <1>3, <1>4, <1>6, <1>7, <1>9
<1>. QED
  BY <1>5, <1>8, <1>9

LEMMA KeepTyped ==
  ASSUME LocalInv, [LocalNext]_localVars
  PROVE  LocalTyped'
<1>0. IInv /\ LocalTyped /\ OutInPlace /\ TypeOK
  BY DEF LocalInv, IInv
<1>1. platform' = platform
  BY StepCases
<1>. SUFFICES /\ out' \in Seq(EventSet) /\ seen' \in Nat /\ reader' \in BOOLEAN
              /\ proc' \in {"start", "backend", "run", "print", "ended", "exited", "killed"}
  BY <1>0, <1>1 DEF LocalTyped
<1>. USE DEF Silently, io, LocalTyped
<1>2. CASE Greets
  <2>1. reader' = reader
    BY <1>2 DEF Greets, Begin
  <2>2. CASE Says(<<StartEv>>, "backend")
    BY <1>0, <2>1, <2>2, AddedTyped, SaysTyped
  <2>. QED
    BY <1>0, <1>2, <2>1, <2>2 DEF Greets
<1>3. CASE Opens
  BY <1>0, <1>3 DEF Opens, OpenBackend
<1>4. CASE Refuses
  <2>1. reader' = reader
    BY <1>4 DEF Refuses, OpenBackend
  <2>2. <<AbortEv("E_VALIDATE")>> \in Seq(EventSet)
    BY <1>0, AddedTyped DEF AbortCodes
  <2>3. Says(<<AbortEv("E_VALIDATE")>>, "ended")
    BY <1>4 DEF Refuses
  <2>. QED
    BY <1>0, <2>1, <2>2, <2>3, SaysTyped
<1>5. CASE Works
  BY <1>0, <1>5 DEF Works, EngineStep
<1>6. ASSUME NEW r \in Result, Tell(r)
      PROVE  /\ out' \in Seq(EventSet) /\ seen' \in Nat /\ reader' \in BOOLEAN
             /\ proc' \in {"start", "backend", "run", "print", "ended", "exited", "killed"}
  <2>1. reader' = reader /\ proc = "run"
    BY <1>6 DEF Tell, EngineStep
  <2>2. CASE Says(<<ResultEv(r.line, r.status, r.src)>>, "run")
    BY <1>0, <2>1, <2>2, AddedTyped, SaysTyped
  <2>. QED
    BY <1>0, <1>6, <2>1, <2>2 DEF Tell
<1>7. CASE Finishes
  <2>1. reader' = reader /\ proc = "run"
    BY <1>7 DEF Finishes, EngineStep
  <2>2. CASE Says(Events(Warns), "run")
    BY <1>0, <2>1, <2>2, AddedTyped, SaysTyped
  <2>. QED
    BY <1>0, <1>7, <2>1, <2>2 DEF Finishes
<1>8. CASE GivesUp
  <2>1. reader' = reader
    BY <1>8 DEF GivesUp, EndRun
  <2>2. <<AbortEv("E_SESSION")>> \in Seq(EventSet)
    BY <1>0, AddedTyped DEF AbortCodes
  <2>3. Says(<<AbortEv("E_SESSION")>>, "ended")
    BY <1>8 DEF GivesUp
  <2>. QED
    BY <1>0, <2>1, <2>2, <2>3, SaysTyped
<1>9. CASE Closes
  <2>1. reader' = reader
    BY <1>9 DEF Closes, EndRun
  <2>2. CASE Says(<<DoneLine>>, "ended")
    BY <1>0, <2>1, <2>2, AddedTyped, SaysTyped
  <2>. QED
    BY <1>0, <1>9, <2>1, <2>2 DEF Closes
<1>10. CASE Copies
  <2>1. reader' = reader
    BY <1>10 DEF Copies, PrintLine
  <2>2. PICK next \in {"ended", "print"} : Says(<<Page[Len(out) + 1]>>, next)
    BY <1>10 DEF Copies
  <2>. QED
    BY <1>0, <1>10, <2>1, <2>2, CopiedTyped, SaysTyped
<1>11. CASE Exit
  BY <1>0, <1>11 DEF Exit
<1>12. CASE Dies
  BY <1>0, <1>12 DEF Dies
<1>13. CASE ReaderLeaves
  BY <1>0, <1>13 DEF ReaderLeaves
<1>14. CASE UNCHANGED localVars
  BY <1>0, <1>14 DEF localVars
<1>. QED
  BY <1>0, <1>2, <1>3, <1>4, <1>5, <1>6, <1>7, <1>8, <1>9, <1>10, <1>11, <1>12, <1>13, <1>14, LocalCases

\* Before the engine is past preflight it is in preflight.
LEMMA PreflightFirst ==
  ASSUME RunStep, phase \in {"preflight", "aborted"}
  PROVE  Preflight
BY DEF RunStep, Preflight, SkipLine, RunLine, ReportLine,
     CaptureOnError, EndLoop, PressFlag, FlagsPressed, LiftFlag, NextChord,
     SetClipboard, PressChordKey, ChordPressed, UnwindChord, LiftChordKey,
     MovePointer, ClickDown, ClickUp, DragDown, DragPath, DragUp, HoldButton,
     ReleaseButton, HoldKeys, RollbackKeys, ReleaseKeys, CallBackend,
     ReleaseHeldKey, ReleaseHeldButton, Finish

LEMMA KeepProcInPlace ==
  ASSUME LocalInv, [LocalNext]_localVars
  PROVE  ProcInPlace'
<1>0. IInv /\ LocalTyped /\ ProcInPlace
  BY DEF LocalInv
<1>1. ASSUME RunStep, phase' \in {"preflight", "aborted"}
      PROVE  down' = {} /\ lost' = {}
  <2>1. CASE Quiet
    <3>1. phase \in {"preflight", "aborted"}
      BY <1>1, <2>1 DEF Quiet
    <3>2. Preflight
      BY <1>1, <3>1, PreflightFirst
    <3>. QED
      BY <1>0, <3>1, <3>2 DEF Preflight, os, ProcInPlace
  <2>2. CASE Reports
    BY <1>0, <1>1, <2>2, Tells DEF Told
  <2>3. CASE Finish
    BY <1>1, <2>3 DEF Finish
  <2>. QED
    BY <1>0, <1>1, <2>1, <2>2, <2>3, StepQuiet DEF Next
<1>. USE DEF Silently, io, ProcInPlace
<1>2. CASE Greets
  <2>1. UNCHANGED vars /\ proc = "start" /\ proc' = "backend"
    BY <1>2 DEF Greets, Begin, Says
  <2>. QED
    BY <1>0, <2>1 DEF vars, os
<1>3. CASE Opens
  BY <1>0, <1>3 DEF Opens, OpenBackend, vars, os
<1>4. CASE Refuses
  BY <1>0, <1>4 DEF Refuses, OpenBackend, Says, vars, os
<1>5. ASSUME EngineStep, proc' = "run"
      PROVE  ProcInPlace'
  BY <1>1, <1>5 DEF EngineStep
<1>6. CASE Works
  BY <1>5, <1>6 DEF Works, EngineStep
<1>7. ASSUME NEW r \in Result, Tell(r) PROVE ProcInPlace'
  <2>1. EngineStep /\ proc' = "run"
    BY <1>7 DEF Tell, EngineStep, Says
  <2>. QED
    BY <1>5, <2>1
<1>8. CASE Finishes
  <2>1. EngineStep /\ proc' = "run"
    BY <1>8 DEF Finishes, EngineStep, Says
  <2>. QED
    BY <1>5, <2>1
<1>9. CASE GivesUp
  BY <1>0, <1>9 DEF GivesUp, EndRun, Says, vars, os
<1>10. CASE Closes
  <2>1. UNCHANGED vars /\ phase = "done"
        /\ (proc' = "ended" \/ (proc' = "print" /\ ~opt.stream))
    BY <1>10 DEF Closes, EndRun, Says
  <2>. QED
    BY <1>0, <2>1 DEF vars, os, args
<1>11. CASE Copies
  <2>1. UNCHANGED vars /\ proc = "print" /\ proc' \in {"ended", "print"}
    BY <1>11 DEF Copies, PrintLine, Says
  <2>. QED
    BY <1>0, <2>1 DEF vars, os, args
<1>12. CASE Exit
  <2>1. /\ UNCHANGED <<phase, down, lost, exit>> /\ proc = "ended" /\ proc' = "exited"
        /\ phase \in {"preflight", "aborted", "done"}
    BY <1>0, <1>12 DEF Exit, vars, os, ending
  <2>2. code' = CASE phase = "preflight" -> 2
                  [] phase = "aborted"   -> 4
                  [] phase = "done"      -> IF exit = "failure" THEN 1 ELSE 0
    BY <1>12 DEF Exit, AbortExit
  <2>. QED
    BY <1>0, <2>1, <2>2
<1>13. CASE Dies
  <2>1. CASE UNCHANGED vars
    BY <1>0, <1>13, <2>1 DEF Dies, vars, os
  <2>2. CASE RunStep
    BY <1>1, <1>13, <2>2 DEF Dies
  <2>. QED
    BY <1>13, <2>1, <2>2 DEF Dies
<1>14. CASE ReaderLeaves
  <2>1. UNCHANGED <<phase, down, lost, exit, opt, proc, code>>
    BY <1>14 DEF ReaderLeaves, vars, os, args, ending
  <2>. QED
    BY <1>0, <2>1
<1>15. CASE UNCHANGED localVars
  <2>1. UNCHANGED <<phase, down, lost, exit, opt, proc, code>>
    BY <1>15 DEF localVars, vars, os, args, ending
  <2>. QED
    BY <1>0, <2>1
<1>. QED
  BY <1>0, <1>2, <1>3, <1>4, <1>6, <1>7, <1>8, <1>9, <1>10, <1>11, <1>12, <1>13, <1>14, <1>15, LocalCases

\* A stream that grows by evs: nothing is unread with a reader, and without
\* one the run is cancelled, so that evs runs no further line.
LEMMA StillUnread ==
  ASSUME LocalTyped, UnreadInPlace, opt.stream, opt' = opt, reader' = reader,
         cancelled => cancelled',
         NEW evs \in Seq(EventSet), NEW next, Says(evs, next),
         \A k \in 1..Len(evs) : IsResult(evs[k]) => reader \/ cancelled',
         \/ \A k \in 1..Len(evs) : ~Executed(evs[k])
         \/ Len(evs) = 1 /\ ~cancelled
  PROVE  UnreadInPlace'
<1>1. PICK m \in Nat, k \in Nat : m = Len(out) /\ k = Len(evs)
  BY SaysTyped
<1>2. /\ Len(out') = m + k /\ \A i \in 1..m : out'[i] = out[i]
      /\ \A i \in 1..k : out'[m + i] = evs[i]
  BY <1>1, SaysTyped
<1>3. /\ seen \in Nat /\ seen <= m /\ (reader => seen = m) /\ reader \in BOOLEAN
      /\ \A i, j \in (seen + 1)..m : Executed(out[i]) /\ Executed(out[j]) => i = j
      /\ \A i \in (seen + 1)..m : IsResult(out[i]) => cancelled
  BY <1>1 DEF LocalTyped, UnreadInPlace, Unread
<1>4. seen' = IF reader THEN m + k ELSE seen
  BY <1>2 DEF Says
<1>5. CASE reader
  BY <1>2, <1>4, <1>5 DEF UnreadInPlace, Unread
<1>6. CASE ~reader
  <2>1. seen' = seen
    BY <1>4, <1>6
  <2>2. ASSUME NEW i \in (seen + 1)..(m + k)
        PROVE  \/ i \in (seen + 1)..m /\ out'[i] = out[i]
               \/ \E l \in 1..k : i = m + l /\ out'[i] = evs[l]
    <3>1. CASE i <= m
      <4>1. i \in (seen + 1)..m /\ i \in 1..m
        BY <1>3, <3>1
      <4>. QED
        BY <1>2, <4>1
    <3>2. CASE ~(i <= m)
      <4>1. PICK l \in 1..k : i = m + l
        <5>1. i - m \in 1..k /\ i = m + (i - m)
          BY <1>3, <3>2
        <5>. QED
          BY <5>1
      <4>. QED
        BY <1>2, <4>1
    <3>. QED
      BY <3>1, <3>2
  <2>3. \A i \in (seen + 1)..(m + k) : IsResult(out'[i]) => cancelled'
    BY <1>1, <1>3, <1>6, <2>2
  <2>4. ASSUME NEW i \in (seen + 1)..(m + k), NEW j \in (seen + 1)..(m + k),
               Executed(out'[i]), Executed(out'[j])
        PROVE  i = j
    <3>1. CASE \A l \in 1..Len(evs) : ~Executed(evs[l])
      <4>1. i \in (seen + 1)..m /\ out'[i] = out[i]
        BY <1>1, <2>2, <2>4, <3>1
      <4>2. j \in (seen + 1)..m /\ out'[j] = out[j]
        BY <1>1, <2>2, <2>4, <3>1
      <4>. QED
        BY <1>3, <2>4, <4>1, <4>2
    <3>2. CASE Len(evs) = 1 /\ ~cancelled
      <4>1. k = 1
        BY <1>1, <3>2
      <4>2. \A l \in (seen + 1)..m : ~Executed(out[l])
        BY <1>3, <3>2 DEF Executed, IsLine, IsResult
      <4>3. i = m + 1
        BY <2>2, <2>4, <4>1, <4>2
      <4>4. j = m + 1
        BY <2>2, <2>4, <4>1, <4>2
      <4>. QED
        BY <4>3, <4>4
    <3>. QED
      BY <3>1, <3>2
  <2>5. Unread' = (seen + 1)..(m + k) /\ seen' <= Len(out')
    BY <1>2, <1>3, <2>1 DEF Unread
  <2>. QED
    BY <1>6, <2>3, <2>4, <2>5 DEF UnreadInPlace
<1>. QED
  BY <1>3, <1>5, <1>6

LEMMA KeepUnreadInPlace ==
  ASSUME LocalInv, [LocalNext]_localVars
  PROVE  UnreadInPlace'
<1>0. IInv /\ LocalTyped /\ ProcInPlace /\ UnreadInPlace /\ TypeOK /\ OutInPlace
  BY DEF LocalInv, IInv
<1>1. opt' = opt /\ (cancelled => cancelled')
  <2>1. [Next]_vars
    BY StepCases
  <2>2. CASE Quiet
    BY <2>2 DEF Quiet, args, report
  <2>3. CASE Finish
    BY <2>3 DEF Finish, args
  <2>4. CASE Reports
    <3>1. PICK r \in Result : Told(r)
      BY <1>0, <2>4, Tells
    <3>2. opt' = opt
      BY <3>1 DEF Told, args
    <3>3. cancelled => cancelled'
      BY <3>1, Zenon DEF Told, Record
    <3>. QED
      BY <3>2, <3>3
  <2>. QED
    BY <1>0, <2>1, <2>2, <2>3, <2>4, StepQuiet
<1>. SUFFICES ASSUME opt.stream PROVE UnreadInPlace'
  BY <1>1 DEF UnreadInPlace
<1>2. ASSUME UNCHANGED <<out, seen>>, reader' => reader
      PROVE  UnreadInPlace'
  BY <1>0, <1>1, <1>2 DEF UnreadInPlace, Unread
<1>3. ASSUME NEW e \in EventSet, NEW next, Says(<<e>>, next), ~IsResult(e), reader' = reader
      PROVE  UnreadInPlace'
  <2>1. /\ <<e>> \in Seq(EventSet)
        /\ \A k \in 1..Len(<<e>>) : ~IsResult(<<e>>[k]) /\ ~Executed(<<e>>[k])
    BY <1>3 DEF Executed, IsLine, IsResult
  <2>. QED
    BY <1>0, <1>1, <1>3, <2>1, StillUnread
<1>. USE DEF Silently, io
<1>4. CASE Greets
  <2>1. reader' = reader /\ Says(<<StartEv>>, "backend")
    BY <1>4 DEF Greets, Begin
  <2>2. ~IsResult(StartEv)
    BY DEF IsResult, StartEv
  <2>. QED
    BY <1>3, <2>1, <2>2, EventsMade
<1>5. CASE Opens
  BY <1>2, <1>5 DEF Opens, OpenBackend
<1>6. CASE Refuses
  <2>1. reader' = reader /\ Says(<<AbortEv("E_VALIDATE")>>, "ended")
    BY <1>6 DEF Refuses, OpenBackend
  <2>2. ~IsResult(AbortEv("E_VALIDATE")) /\ AbortEv("E_VALIDATE") \in EventSet
    BY EventsMade DEF IsResult, AbortEv, AbortCodes
  <2>. QED
    BY <1>3, <2>1, <2>2
<1>7. CASE Works
  BY <1>2, <1>7 DEF Works, EngineStep
<1>8. ASSUME NEW r \in Result, Tell(r) PROVE UnreadInPlace'
  <2>. DEFINE e == ResultEv(r.line, r.status, r.src)
  <2>1. /\ reader' = reader /\ Says(<<e>>, "run") /\ cancelled' = (cancelled \/ ~reader)
        /\ Told(r)
    BY <1>8 DEF Tell, EngineStep
  <2>2. <<e>> \in Seq(EventSet) /\ Len(<<e>>) = 1 /\ <<e>>[1] = e
    BY <1>0, AddedTyped
  <2>3. Executed(e) => ~cancelled
    BY <2>1 DEF Executed, IsLine, ResultEv, Told, Stopped
  <2>4. reader \in BOOLEAN /\ cancelled \in BOOLEAN
    BY <1>0 DEF LocalTyped, TypeOK
  <2>5. \A k \in 1..Len(<<e>>) : IsResult(<<e>>[k]) => reader \/ cancelled'
    BY <2>1, <2>4
  <2>6. \/ \A k \in 1..Len(<<e>>) : ~Executed(<<e>>[k])
        \/ Len(<<e>>) = 1 /\ ~cancelled
    BY <2>2, <2>3
  <2>. HIDE DEF e
  <2>. QED
    BY <1>0, <1>1, <2>1, <2>2, <2>5, <2>6, StillUnread
<1>9. CASE Finishes
  <2>1. CASE Events(Warns) # <<>>
    <3>1. reader' = reader /\ Says(Events(Warns), "run") /\ cancelled' = (cancelled \/ ~reader)
      BY <1>9, <2>1 DEF Finishes, EngineStep
    <3>2. reader \in BOOLEAN /\ cancelled \in BOOLEAN
      BY <1>0 DEF LocalTyped, TypeOK
    <3>3. /\ Warns \in Seq(Result)
          /\ Events(Warns) \in Seq(EventSet) /\ Len(Events(Warns)) = Len(Warns)
          /\ \A i \in 1..Len(Warns) : Events(Warns)[i] = ResultEv(Warns[i].line, Warns[i].status, Warns[i].src)
      BY <1>0, WarnsTyped, EventsOf
    <3>4. ASSUME NEW i \in 1..Len(Warns) PROVE ~Executed(Events(Warns)[i])
      <4>1. DOMAIN Warns = 1..Len(Warns)
        BY <3>3, LenProperties
      <4>2. Warns[i].src = "release"
        BY <4>1 DEF Warns
      <4>3. Events(Warns)[i] = ResultEv(Warns[i].line, Warns[i].status, Warns[i].src)
        BY <3>3
      <4>4. ~Executed(ResultEv(Warns[i].line, Warns[i].status, "release"))
        BY DEF Executed, IsLine, ResultEv
      <4>. QED
        BY <4>2, <4>3, <4>4
    <3>5. \A k \in 1..Len(Events(Warns)) : ~Executed(Events(Warns)[k])
      BY <3>3, <3>4
    <3>6. \A k \in 1..Len(Events(Warns)) : IsResult(Events(Warns)[k]) => reader \/ cancelled'
      BY <3>1, <3>2
    <3>. QED
      BY <1>0, <1>1, <3>1, <3>3, <3>5, <3>6, StillUnread
  <2>2. CASE Events(Warns) = <<>>
    BY <1>2, <1>9, <2>2 DEF Finishes, EngineStep
  <2>. QED
    BY <2>1, <2>2
<1>10. CASE GivesUp
  <2>1. reader' = reader /\ Says(<<AbortEv("E_SESSION")>>, "ended")
    BY <1>10 DEF GivesUp, EndRun
  <2>2. ~IsResult(AbortEv("E_SESSION")) /\ AbortEv("E_SESSION") \in EventSet
    BY EventsMade DEF IsResult, AbortEv, AbortCodes
  <2>. QED
    BY <1>3, <2>1, <2>2
<1>11. CASE Closes
  <2>1. reader' = reader /\ Says(<<DoneLine>>, "ended")
    BY <1>11 DEF Closes, EndRun
  <2>2. ~IsResult(DoneLine)
    BY DEF IsResult, DoneLine, DoneEv
  <2>. QED
    BY <1>0, <1>3, <2>1, <2>2, DoneMade
<1>12. CASE Copies
  BY <1>0, <1>12 DEF Copies, PrintLine, ProcInPlace
<1>13. CASE Exit
  BY <1>2, <1>13 DEF Exit
<1>14. CASE Dies
  BY <1>2, <1>14 DEF Dies
<1>15. CASE ReaderLeaves
  BY <1>2, <1>15 DEF ReaderLeaves
<1>16. CASE UNCHANGED localVars
  BY <1>2, <1>16 DEF localVars
<1>. QED
  BY <1>0, <1>4, <1>5, <1>6, <1>7, <1>8, <1>9, <1>10, <1>11, <1>12, <1>13, <1>14, <1>15, <1>16, LocalCases

\* The engine's steps keep what the results tell.
LEMMA KeepResultsTell ==
  ASSUME IInv, ResultsTell, [Next]_vars
  PROVE  ResultsTell'
<1>0. TypeOK /\ failed \in BOOLEAN /\ cancelled \in BOOLEAN
  BY DEF IInv, TypeOK
<1>1. CASE Quiet
  <2>1. UNCHANGED <<opt, line, results, failed, cancelled>> /\ (phase' = "errcap" <=> phase = "errcap")
    BY <1>1 DEF Quiet, args, report
  <2>. QED
    BY <2>1 DEF ResultsTell, Stopped, Last
<1>2. CASE Finish
  <2>1. PICK m \in Nat : m = Len(results) /\ DOMAIN results = 1..m
    BY <1>0, <1>2, Warned
  <2>2. PICK w \in Nat : w = Len(released)
    BY <1>0, <1>2, Warned
  <2>3. /\ DOMAIN results' = 1..(m + w) /\ \A i \in 1..m : results'[i] = results[i]
        /\ \A i \in 1..w : results'[m + i] =
             [line |-> released[i].line, status |-> "warn", src |-> "release"]
    BY <1>0, <1>2, <2>1, <2>2, Warned
  <2>4. ASSUME NEW i \in DOMAIN results'
        PROVE  (i \in DOMAIN results /\ results'[i] = results[i]) \/ results'[i].status = "warn"
    <3>1. CASE i <= m
      BY <2>1, <2>3, <3>1
    <3>2. CASE ~(i <= m)
      <4>1. PICK j \in 1..w : i = m + j
        <5>1. i - m \in 1..w /\ i = m + (i - m)
          BY <2>3, <3>2
        <5>. QED
          BY <5>1
      <4>2. results'[m + j] = [line |-> released[j].line, status |-> "warn", src |-> "release"]
        BY <2>3
      <4>3. results'[m + j].status = "warn"
        BY <4>2
      <4>. QED
        BY <4>1, <4>3
    <3>. QED
      BY <3>1, <3>2
  <2>5. UNCHANGED <<opt, failed>> /\ phase' = "done" /\ (cancelled => cancelled')
    BY <1>2 DEF Finish, args
  <2>6. Stopped => Stopped'
    BY <2>5 DEF Stopped
  <2>. QED
    BY <2>4, <2>5, <2>6 DEF ResultsTell
<1>3. CASE Reports
  <2>1. PICK r \in Result : Told(r)
    BY <1>3, Tells
  <2>2. PICK m \in Nat : m = Len(results) /\ DOMAIN results = 1..m
    BY <1>0, <2>1, Recorded DEF Told
  <2>3. /\ DOMAIN results' = 1..(m + 1) /\ \A i \in 1..m : results'[i] = results[i]
        /\ results'[m + 1] = r
    BY <1>0, <2>1, <2>2, Recorded DEF Told
  <2>4. opt' = opt /\ (cancelled => cancelled') /\ (failed => failed')
    <3>1. opt' = opt
      BY <2>1 DEF Told, args
    <3>2. cancelled => cancelled'
      BY <2>1, Zenon DEF Told, Record
    <3>3. failed => failed'
      BY <2>1, Zenon DEF Told
    <3>. QED
      BY <3>1, <3>2, <3>3
  <2>5. Stopped => Stopped'
    BY <2>4 DEF Stopped
  <2>6. \A i \in DOMAIN results' : i = m + 1 \/ i \in 1..m
    BY <2>3
  <2>7. r.status = "skip" => Stopped
    BY <2>1 DEF Told
  <2>8. r.src = "op" /\ r.status = "err" => failed'
    BY <2>1 DEF Told
  <2>9. phase' = "errcap" => results' # <<>> /\ Last(results') = [line |-> line', status |-> "err", src |-> "op"]
    <3>1. results' \in Seq(Result) /\ results' = Append(results, r) /\ results \in Seq(Result)
      BY <1>0, <2>1, RecordTyped DEF Told, Record, TypeOK
    <3>2. Len(results') = m + 1 /\ results' # <<>>
      BY <2>2, <3>1, AppendProperties
    <3>. QED
      BY <2>1, <2>3, <3>2 DEF Last, Told
  <2>. QED
    BY <2>2, <2>3, <2>4, <2>5, <2>6, <2>7, <2>8, <2>9 DEF ResultsTell
<1>. QED
  BY <1>1, <1>2, <1>3, StepQuiet

-----------------------------------------------------------------------------
(* What the lines have taken.                                              *)

LEMMA UnheldShorter ==
  ASSUME NEW S, NEW s \in Seq(S), NEW x
  PROVE  Len(Unhold(s, x)) \in Nat /\ Len(Unhold(s, x)) <= Len(s)
<1>1. PICK n \in Nat : n = Len(s) /\ DOMAIN s = 1..n
  BY LenProperties
<1>2. CASE ~ \E i \in DOMAIN s : LastAt(s, x, i)
  BY <1>1, <1>2 DEF Unhold
<1>3. CASE \E i \in DOMAIN s : LastAt(s, x, i)
  <2>1. PICK c \in 1..n : Unhold(s, x) = RemoveAt(s, c)
    BY <1>1, <1>3 DEF Unhold
  <2>2. \A i \in 1..n : s[i] \in S
    BY <1>1, ElementOfSeq
  <2>3. PICK d \in Int, e \in Int : d = c - 1 /\ e = c + 1
    OBVIOUS
  <2>4. (\A i \in 1..d : s[i] \in S) /\ (\A i \in e..n : s[i] \in S)
    BY <2>2, <2>3
  <2>5. SubSeq(s, 1, d) \in Seq(S) /\ Len(SubSeq(s, 1, d)) = IF 1 <= d THEN d - 1 + 1 ELSE 0
    BY <2>4, SubSeqProperties
  <2>6. SubSeq(s, e, n) \in Seq(S) /\ Len(SubSeq(s, e, n)) = IF e <= n THEN n - e + 1 ELSE 0
    BY <2>4, SubSeqProperties
  <2>7. RemoveAt(s, c) = SubSeq(s, 1, d) \o SubSeq(s, e, n)
    BY <1>1, <2>3 DEF RemoveAt
  <2>8. Len(RemoveAt(s, c)) = Len(SubSeq(s, 1, d)) + Len(SubSeq(s, e, n))
    BY <2>5, <2>6, <2>7, ConcatProperties
  <2>9. Len(SubSeq(s, 1, d)) = c - 1 /\ Len(SubSeq(s, e, n)) = n - c
    BY <2>3, <2>5, <2>6
  <2>. QED
    BY <1>1, <2>1, <2>8, <2>9
<1>. QED
  BY <1>2, <1>3

LEMMA TakenChange ==
  ASSUME IInv, [Next]_vars
  PROVE  /\ Taken \in Nat /\ Taken' \in Nat
         /\ \/ Taken' <= Taken
            \/ /\ phase = "kd" /\ phase' = "kd" /\ line' = line /\ Taken' = Taken + 1
               /\ Len(rest) \in Nat /\ Len(rest') = Len(rest) - 1
            \/ phase = "md" /\ phase' = "lift" /\ line' = line /\ Taken' = Taken + 1
<1>0. TypeOK
  BY DEF IInv
<1>. DEFINE K == [input : Keys, line : Nat]
            B == [input : Buttons, line : Nat]
<1>1. keys \in Seq(K) /\ buttons \in Seq(B) /\ released \in Seq(HeldKey)
  BY <1>0 DEF TypeOK
<1>2. Len(keys) \in Nat /\ Len(buttons) \in Nat /\ Len(released) \in Nat
  BY <1>1, LenProperties
<1>. HIDE DEF K, B
<1>3. Taken = Len(keys) + Len(buttons) + Len(released)
  BY DEF Taken
<1>4. Taken' = Len(keys') + Len(buttons') + Len(released')
  BY DEF Taken
<1>5. CASE UNCHANGED <<keys, buttons, released>>
  BY <1>2, <1>3, <1>4, <1>5
<1>6. CASE HoldButton
  <2>1. CASE buttons' = Hold(buttons, op.btn) /\ Goto("lift")
    <3>1. /\ UNCHANGED <<keys, released, line>> /\ phase = "md" /\ phase' = "lift"
      BY <1>6, <2>1 DEF HoldButton, Goto, ending
    <3>2. Len(buttons') = Len(buttons) + 1
      <4>1. line \in DOMAIN prog
        BY <1>6 DEF IInv, ControlInPlace, HoldButton
      <4>2. op.btn \in Buttons /\ line \in Nat
        BY <1>0, <4>1, OpTyped DEF TypeOK
      <4>3. [input |-> op.btn, line |-> line] \in B
        BY <4>2 DEF B
      <4>. QED
        BY <1>1, <2>1, <4>3, AppendProperties DEF Hold
    <3>. QED
      BY <1>2, <1>3, <1>4, <3>1, <3>2
  <2>. QED
    BY <1>5, <1>6, <2>1 DEF HoldButton, ending
<1>7. CASE ReleaseButton
  <2>1. CASE buttons' = Unhold(buttons, op.btn)
    <3>1. UNCHANGED <<keys, released>>
      BY <1>7 DEF ReleaseButton, ending
    <3>2. Len(buttons') \in Nat /\ Len(buttons') <= Len(buttons)
      BY <1>1, <2>1, UnheldShorter
    <3>. QED
      BY <1>2, <1>3, <1>4, <3>1, <3>2
  <2>. QED
    BY <1>5, <1>7, <2>1 DEF ReleaseButton, ending
<1>8. CASE HoldKeys
  <2>1. UNCHANGED <<buttons, released, line>> /\ phase = "kd"
    BY <1>8 DEF HoldKeys, ending
  <2>2. CASE rest = <<>>
    BY <1>5, <1>8, <2>1, <2>2 DEF HoldKeys
  <2>3. CASE rest # <<>> /\ keys' = Hold(keys, Head(rest)[1]) /\ rest' = Tail(rest) /\ Goto("kd")
    <3>1. Len(rest) \in Nat /\ Len(rest') = Len(rest) - 1
      <4>1. rest \in Seq(Seq(Keys) \ {<<>>})
        BY <1>0 DEF TypeOK, Chords
      <4>. QED
        BY <2>3, <4>1, HeadTailProperties, LenProperties
    <3>2. Len(keys') = Len(keys) + 1
      <4>1. Head(rest)[1] \in Keys /\ line \in Nat
        BY <1>0, <2>3, NextKeyTyped DEF TypeOK
      <4>2. [input |-> Head(rest)[1], line |-> line] \in K
        BY <4>1 DEF K
      <4>. QED
        BY <1>1, <2>3, <4>2, AppendProperties DEF Hold
    <3>3. phase' = "kd"
      BY <2>3 DEF Goto
    <3>. QED
      BY <1>2, <1>3, <1>4, <2>1, <3>1, <3>2, <3>3
  <2>. QED
    BY <1>5, <1>8, <2>1, <2>2, <2>3 DEF HoldKeys
<1>9. CASE RollbackKeys \/ ReleaseKeys
  <2>1. UNCHANGED <<buttons, released>>
    BY <1>9 DEF RollbackKeys, ReleaseKeys, ending
  <2>2. CASE \E x : keys' = Unhold(keys, x)
    <3>1. Len(keys') \in Nat /\ Len(keys') <= Len(keys)
      BY <1>1, <2>2, UnheldShorter
    <3>. QED
      BY <1>2, <1>3, <1>4, <2>1, <3>1
  <2>3. keys' = keys \/ \E x : keys' = Unhold(keys, x)
    BY <1>9, Zenon DEF RollbackKeys, ReleaseKeys
  <2>. QED
    BY <1>5, <2>1, <2>2, <2>3
<1>10. CASE ReleaseHeldKey
  <2>1. /\ keys # <<>> /\ released' = Append(released, Last(keys)) /\ keys' = Front(keys)
        /\ buttons' = buttons
    BY <1>10 DEF ReleaseHeldKey
  <2>2. Len(keys') = Len(keys) - 1
    BY <1>1, <2>1, FrontSubset
  <2>3. Last(keys) \in HeldKey
    <3>1. Last(keys) \in K
      BY <1>1, <2>1, FrontLastSet
    <3>. QED
      BY <3>1 DEF K, HeldKey, Inputs
  <2>4. Len(released') = Len(released) + 1
    BY <1>1, <2>1, <2>3, AppendProperties
  <2>. QED
    BY <1>2, <1>3, <1>4, <2>1, <2>2, <2>4
<1>11. CASE ReleaseHeldButton
  <2>1. /\ buttons # <<>> /\ released' = Append(released, Last(buttons)) /\ buttons' = Front(buttons)
        /\ keys' = keys
    BY <1>11 DEF ReleaseHeldButton
  <2>2. Len(buttons') = Len(buttons) - 1
    BY <1>1, <2>1, FrontSubset
  <2>3. Last(buttons) \in HeldKey
    <3>1. Last(buttons) \in B
      BY <1>1, <2>1, FrontLastSet
    <3>. QED
      BY <3>1 DEF B, HeldKey, Inputs
  <2>4. Len(released') = Len(released) + 1
    BY <1>1, <2>1, <2>3, AppendProperties
  <2>. QED
    BY <1>2, <1>3, <1>4, <2>1, <2>2, <2>4
<1>12. \/ UNCHANGED <<keys, buttons, released>>
       \/ HoldButton \/ ReleaseButton \/ HoldKeys \/ RollbackKeys \/ ReleaseKeys
       \/ ReleaseHeldKey \/ ReleaseHeldButton
  BY DEF Next, RunStep, Returned, vars, held, ending, Preflight, SkipLine, RunLine, ReportLine,
     CaptureOnError, EndLoop, PressFlag, FlagsPressed, LiftFlag, NextChord,
     SetClipboard, PressChordKey, ChordPressed, UnwindChord, LiftChordKey,
     MovePointer, ClickDown, ClickUp, DragDown, DragPath, DragUp, CallBackend, Finish
<1>. QED
  BY <1>5, <1>6, <1>7, <1>8, <1>9, <1>10, <1>11, <1>12

\* Within a line the run does not come back to where it has taken nothing.
LEMMA StartsFirst ==
  ASSUME IInv, Next
  PROVE  /\ line' = line => (LineStarts' => LineStarts)
         /\ line' = line + 1 => LineStarts' /\ phase \in {"loop", "report", "errcap"}
         /\ phase' = "kd" => \/ phase = "kd"
                             \/ /\ phase = "loop" /\ line' = line
                                /\ Len(rest') \in Nat /\ Len(rest') <= KeysPerLine
<1>0. TypeOK /\ line \in Nat \ {0}
  BY DEF IInv, TypeOK
<1>. USE DEF LineStarts
<1>1. CASE RunLine
  <2>1. line \in DOMAIN prog /\ prog \in Programs /\ prog \in Seq(Op)
    BY <1>0, <1>1, ProgramLines, ProgramsAssumption DEF RunLine, TypeOK
  <2>2. op.kind \in Kinds /\ op.keys \in Chords
    BY <1>0, <2>1, OpTyped
  <2>3. Len(op.keys) <= KeysPerLine
    BY <2>1, LimitsAssumption DEF op
  <2>4. Len(op.keys) \in Nat
    BY <2>2, LenProperties DEF Chords
  <2>5. phase = "loop" /\ line' = line
    BY <1>1 DEF RunLine
  <2>6. phase' = "kd" => op.kind = "key_down"
    BY <1>1, <2>2 DEF RunLine, Kinds, Entry
  <2>7. phase' = "kd" => rest' = op.keys
    BY <1>1, <2>6 DEF RunLine
  <2>. QED
    BY <1>0, <2>3, <2>4, <2>5, <2>7
<1>2. CASE FlagsPressed
  <2>1. phase = "mods" /\ line' = line /\ phase' # "kd"
    BY <1>2 DEF FlagsPressed, Goto
  <2>. QED
    BY <1>0, <2>1
<1>3. CASE MovePointer
  <2>1. phase = "move" /\ line' = line /\ phase' # "kd"
    BY <1>3 DEF MovePointer, Goto, Fails
  <2>. QED
    BY <1>0, <2>1
<1>4. CASE ~RunLine /\ ~FlagsPressed /\ ~MovePointer
  BY <1>0, <1>4 DEF Next, RunStep, Returned, vars, Preflight, SkipLine, ReportLine,
     CaptureOnError, EndLoop, PressFlag, LiftFlag, NextChord,
     SetClipboard, PressChordKey, ChordPressed, UnwindChord, LiftChordKey,
     ClickDown, ClickUp, DragDown, DragPath, DragUp, HoldButton,
     ReleaseButton, HoldKeys, RollbackKeys, ReleaseKeys, CallBackend,
     ReleaseHeldKey, ReleaseHeldButton, Finish, Goto, Fails
<1>. QED
  BY <1>1, <1>2, <1>3, <1>4

LEMMA LineBudget ==
  ASSUME NEW a \in Nat \ {0}, NEW k \in Nat
  PROVE  /\ (a - 1) * k \in Nat /\ a * k = (a - 1) * k + k
         /\ ((a + 1) - 1) * k = a * k
OBVIOUS

LEMMA KeepHeldInBounds ==
  ASSUME IInv, IInv', HeldInBounds, [Next]_vars
  PROVE  HeldInBounds'
<1>0. TypeOK /\ line \in Nat \ {0} /\ KeysPerLine \in Nat \ {0}
  BY LimitsAssumption DEF IInv, TypeOK
<1>1. CASE UNCHANGED vars
  BY <1>1 DEF HeldInBounds, Taken, LineStarts, vars, loops, held, ending
<1>2. CASE Next
  <2>1. PICK a \in Nat, c \in Nat : a = (line - 1) * KeysPerLine /\ c = a + KeysPerLine
                                 /\ line * KeysPerLine = c /\ ((line + 1) - 1) * KeysPerLine = c
    <3>1. /\ (line - 1) * KeysPerLine \in Nat
          /\ line * KeysPerLine = (line - 1) * KeysPerLine + KeysPerLine
          /\ ((line + 1) - 1) * KeysPerLine = line * KeysPerLine
      BY <1>0, LineBudget
    <3>. QED
      BY <1>0, <3>1
  <2>2. Taken + (IF phase = "kd" THEN Len(rest) ELSE 0) <= IF LineStarts THEN a ELSE c
    BY <2>1 DEF HeldInBounds
  <2>3. HeldInBounds' <=>
          Taken' + (IF phase' = "kd" THEN Len(rest') ELSE 0)
            <= (IF LineStarts' THEN line' - 1 ELSE line') * KeysPerLine
    BY DEF HeldInBounds
  <2>4. Len(rest) \in Nat /\ Len(rest') \in Nat
    <3>1. rest \in Seq(Seq(Keys) \ {<<>>}) /\ rest' \in Seq(Seq(Keys) \ {<<>>})
      BY DEF IInv, TypeOK, Chords
    <3>. QED
      BY <3>1, LenProperties
  <2>5. Taken \in Nat /\ Taken' \in Nat
    BY TakenChange
  <2>6. CASE line' = line
    <3>1. LineStarts' => LineStarts
      BY <1>2, <2>6, StartsFirst
    <3>2. Taken' + (IF phase' = "kd" THEN Len(rest') ELSE 0) <= IF LineStarts' THEN a ELSE c
      <4>1. CASE phase = "kd"
        <5>1. ~LineStarts /\ ~LineStarts' /\ Taken + Len(rest) <= c
          BY <2>2, <3>1, <4>1 DEF LineStarts
        <5>2. CASE phase' = "kd" /\ Taken' = Taken + 1 /\ Len(rest') = Len(rest) - 1
          BY <2>1, <2>4, <2>5, <5>1, <5>2
        <5>3. CASE phase' # "kd" /\ Taken' <= Taken
          BY <2>1, <2>4, <2>5, <5>1, <5>3
        <5>4. CASE phase' = "kd" /\ Taken' <= Taken
          <6>1. HoldKeys
            BY <1>2, <4>1, ActionOfPhase
          <6>2. Len(rest') = Len(rest) - 1
            <7>1. rest # <<>> /\ rest' = Tail(rest)
              BY <5>4, <6>1 DEF HoldKeys, Goto
            <7>2. rest \in Seq(Seq(Keys) \ {<<>>})
              BY <1>0 DEF TypeOK, Chords
            <7>. QED
              BY <7>1, <7>2, HeadTailProperties
          <6>. QED
            BY <2>1, <2>4, <2>5, <5>1, <5>4, <6>2
        <5>. QED
          BY <4>1, <5>2, <5>3, <5>4, TakenChange
      <4>2. CASE phase = "md"
        <5>1. LineStarts /\ Taken <= a
          BY <2>2, <2>5, <4>2 DEF LineStarts
        <5>2. phase' = "lift"
          BY <1>2, <4>2, ActionOfPhase DEF HoldButton, Goto, Fails
        <5>3. ~LineStarts' /\ Taken' <= Taken + 1
          BY <2>5, <4>2, <5>2, TakenChange DEF LineStarts
        <5>4. Taken' <= c
          BY <1>0, <2>1, <2>5, <5>1, <5>3
        <5>5. (IF phase' = "kd" THEN Len(rest') ELSE 0) = 0
          BY <5>2
        <5>6. PICK k \in Nat : k = Taken'
          BY <2>5
        <5>7. PICK d \in Nat, z \in Nat : /\ d = (IF LineStarts' THEN a ELSE c)
                                      /\ z = (IF phase' = "kd" THEN Len(rest') ELSE 0)
          BY <2>4
        <5>8. k + z <= d
          <6>1. d = c /\ z = 0 /\ k <= c
            BY <5>3, <5>4, <5>5, <5>6, <5>7
          <6>. QED
            BY <6>1
        <5>. QED
          BY <5>6, <5>7, <5>8
      <4>3. CASE phase \notin {"kd", "md"}
        <5>1. Taken' <= Taken /\ Taken <= IF LineStarts THEN a ELSE c
          BY <2>2, <2>5, <4>3, TakenChange
        <5>2. CASE phase' = "kd"
          <6>1. phase = "loop" /\ Len(rest') <= KeysPerLine
            BY <1>2, <4>3, <5>2, StartsFirst
          <6>2. LineStarts /\ ~LineStarts'
            BY <5>2, <6>1 DEF LineStarts
          <6>. QED
            BY <1>0, <2>1, <2>4, <2>5, <5>1, <5>2, <6>1, <6>2
        <5>3. CASE phase' # "kd"
          <6>1. a <= c
            BY <1>0, <2>1
          <6>2. Taken' <= IF LineStarts' THEN a ELSE c
            <7>1. CASE LineStarts'
              BY <2>5, <3>1, <5>1, <7>1
            <7>2. CASE ~LineStarts'
              BY <2>5, <5>1, <6>1, <7>2
            <7>. QED
              BY <7>1, <7>2
          <6>3. (IF phase' = "kd" THEN Len(rest') ELSE 0) = 0
            BY <5>3
          <6>4. PICK k \in Nat : k = Taken'
            BY <2>5
          <6>5. PICK d \in Nat, z \in Nat : /\ d = (IF LineStarts' THEN a ELSE c)
                                        /\ z = (IF phase' = "kd" THEN Len(rest') ELSE 0)
            BY <2>4
          <6>6. k + z <= d
            BY <6>2, <6>3, <6>4, <6>5
          <6>. QED
            BY <6>4, <6>5, <6>6
        <5>. QED
          BY <5>2, <5>3
      <4>. QED
        BY <4>1, <4>2, <4>3
    <3>3. (IF LineStarts' THEN line' - 1 ELSE line') * KeysPerLine = IF LineStarts' THEN a ELSE c
      BY <2>1, <2>6
    <3>. QED
      BY <2>3, <3>2, <3>3
  <2>7. CASE line' = line + 1
    <3>1. LineStarts' /\ phase \in {"loop", "report", "errcap"}
      BY <1>2, <2>7, StartsFirst
    <3>2. Taken' <= Taken /\ Taken <= IF LineStarts THEN a ELSE c
      BY <2>2, <2>5, <3>1, TakenChange
    <3>3. phase' # "kd" /\ Taken' <= c
      BY <1>0, <2>1, <2>5, <3>1, <3>2 DEF LineStarts
    <3>4. (IF LineStarts' THEN line' - 1 ELSE line') * KeysPerLine = c
      BY <2>1, <2>7, <3>1
    <3>. QED
      BY <2>3, <2>5, <3>3, <3>4
  <2>. QED
    BY <2>6, <2>7, LineGrows
<1>. QED
  BY <1>1, <1>2

-----------------------------------------------------------------------------
(* What the contract counts of the output.                                 *)

\* Positions of one sort of events, counted.
Among(s, G)      == Cardinality({i \in DOMAIN s : s[i] \in G})
LineSort         == {e \in EventSet : IsLine(e)}
CountSort(S)     == {e \in EventSet : IsResult(e) /\ e.src # "release" /\ e.status \in S}
ReleaseSort      == {e \in EventSet : IsResult(e) /\ e.src = "release"}

LEMMA AmongNat ==
  ASSUME NEW s \in Seq(EventSet), NEW G
  PROVE  IsFiniteSet({i \in DOMAIN s : s[i] \in G}) /\ Among(s, G) \in Nat
<1>. DEFINE T == {i \in DOMAIN s : s[i] \in G}
<1>1. PICK m \in Nat : DOMAIN s = 1..m
  BY LenProperties
<1>2. IsFiniteSet(1..m) /\ T \in SUBSET (1..m)
  BY <1>1, FS_Interval
<1>3. IsFiniteSet(T)
  BY <1>2, FS_Subset
<1>. QED
  BY <1>3, FS_CardinalityType DEF Among

\* Events of other sorts change no count.
LEMMA AmongLonger ==
  ASSUME NEW s \in Seq(EventSet), NEW t \in Seq(EventSet), NEW G, Len(s) <= Len(t),
         \A i \in 1..Len(s) : t[i] = s[i],
         \A i \in (Len(s) + 1)..Len(t) : t[i] \notin G
  PROVE  Among(t, G) = Among(s, G)
<1>. DEFINE S == {i \in DOMAIN s : s[i] \in G}
            T == {i \in DOMAIN t : t[i] \in G}
<1>1. PICK m \in Nat : m = Len(s) /\ DOMAIN s = 1..m
  BY LenProperties
<1>2. PICK k \in Nat : k = Len(t) /\ DOMAIN t = 1..k
  BY LenProperties
<1>3. \A i : i \in T <=> i \in S
  BY <1>1, <1>2
<1>4. T = S
  BY <1>3
<1>. QED
  BY <1>4 DEF Among

LEMMA AmongAppend ==
  ASSUME NEW s \in Seq(EventSet), NEW e \in EventSet, NEW G
  PROVE  Among(Append(s, e), G) = IF e \in G THEN Among(s, G) + 1 ELSE Among(s, G)
<1>. DEFINE t == Append(s, e)
            S == {i \in DOMAIN s : s[i] \in G}
            T == {i \in DOMAIN t : t[i] \in G}
<1>1. PICK m \in Nat : m = Len(s) /\ DOMAIN s = 1..m
  BY LenProperties
<1>2. /\ t \in Seq(EventSet) /\ Len(t) = m + 1 /\ t[m + 1] = e /\ \A i \in 1..m : t[i] = s[i]
      /\ DOMAIN t = 1..(m + 1)
  BY <1>1, AppendProperties, LenProperties
<1>3. IsFiniteSet(S) /\ m + 1 \notin S
  <2>1. IsFiniteSet(S)
    BY AmongNat
  <2>2. m + 1 \notin 1..m
    OBVIOUS
  <2>. QED
    BY <1>1, <2>1, <2>2
<1>. HIDE DEF t
<1>4. CASE e \in G
  <2>1. \A i : i \in T <=> i \in S \cup {m + 1}
    BY <1>1, <1>2, <1>4
  <2>2. T = S \cup {m + 1}
    BY <2>1
  <2>3. Cardinality(T) = Cardinality(S) + 1
    BY <1>3, <2>2, FS_AddElement
  <2>. QED
    BY <1>4, <2>3 DEF Among, t
<1>5. CASE e \notin G
  <2>1. \A i : i \in T <=> i \in S
    BY <1>1, <1>2, <1>5
  <2>2. T = S
    BY <2>1
  <2>. QED
    BY <1>5, <2>2 DEF Among, t
<1>. QED
  BY <1>4, <1>5

\* The contract counts so.
LEMMA Sorts ==
  ASSUME NEW s \in Seq(EventSet)
  PROVE  /\ Contract!LinesDone(s) = Among(s, LineSort)
         /\ \A S : Contract!Counted(s, S) = Among(s, CountSort(S))
         /\ Contract!LateWarns(s) = Among(s, ReleaseSort)
<1>1. \A T : Contract!Cardinality(T) = Cardinality(T)
  BY DEF Contract!Cardinality, Cardinality
<1>2. \A i \in DOMAIN s : s[i] \in EventSet
  OBVIOUS
<1>3. {i \in DOMAIN s : Contract!IsLine(s[i])} = {i \in DOMAIN s : s[i] \in LineSort}
  BY <1>2 DEF LineSort, IsLine, Contract!IsLine
<1>4. ASSUME NEW S
      PROVE  {i \in DOMAIN s : Contract!IsResult(s[i]) /\ s[i].src # "release" /\ s[i].status \in S}
               = {i \in DOMAIN s : s[i] \in CountSort(S)}
  BY <1>2 DEF CountSort, IsResult, Contract!IsResult
<1>5. {i \in DOMAIN s : Contract!IsRelease(s[i])} = {i \in DOMAIN s : s[i] \in ReleaseSort}
  BY <1>2 DEF ReleaseSort, IsResult, Contract!IsResult, Contract!IsRelease
<1>6. Contract!LinesDone(s) = Among(s, LineSort)
  BY <1>1, <1>3 DEF Contract!LinesDone, Among
<1>7. ASSUME NEW S PROVE Contract!Counted(s, S) = Among(s, CountSort(S))
  BY <1>1, <1>4 DEF Contract!Counted, Among
<1>8. Contract!LateWarns(s) = Among(s, ReleaseSort)
  BY <1>1, <1>5 DEF Contract!LateWarns, Among
<1>. QED
  BY <1>6, <1>7, <1>8

\* What the contract counts are numbers.
LEMMA CountsTyped ==
  ASSUME NEW s \in Seq(EventSet)
  PROVE  /\ Contract!LinesDone(s) \in Nat /\ Contract!LateWarns(s) \in Nat
         /\ \A S : Contract!Counted(s, S) \in Nat
BY Sorts, AmongNat

\* One result more.
LEMMA ResultCounted ==
  ASSUME NEW s \in Seq(EventSet), NEW r \in Result, NEW t,
         t = Append(s, ResultEv(r.line, r.status, r.src))
  PROVE  /\ Contract!LinesDone(t) = IF r.src = "op" THEN Contract!LinesDone(s) + 1
                                    ELSE Contract!LinesDone(s)
         /\ r.src # "release" => Contract!LateWarns(t) = Contract!LateWarns(s)
<1>. DEFINE e == ResultEv(r.line, r.status, r.src)
<1>1. e \in EventSet /\ IsResult(e)
  BY EventsMade
<1>2. e.src = r.src /\ e.status = r.status
  BY DEF ResultEv
<1>. HIDE DEF e
<1>3. /\ e \in LineSort <=> r.src = "op"
      /\ e \in ReleaseSort <=> r.src = "release"
  BY <1>1, <1>2 DEF LineSort, ReleaseSort, IsLine, IsResult
<1>4. t = Append(s, e) /\ t \in Seq(EventSet)
  BY <1>1 DEF e
<1>5. \A G : Among(t, G) = IF e \in G THEN Among(s, G) + 1 ELSE Among(s, G)
  BY <1>1, <1>4, AmongAppend
<1>6. Contract!LinesDone(t) = IF r.src = "op" THEN Contract!LinesDone(s) + 1 ELSE Contract!LinesDone(s)
  BY <1>3, <1>4, <1>5, Sorts
<1>7. r.src # "release" => Contract!LateWarns(t) = Contract!LateWarns(s)
  BY <1>3, <1>4, <1>5, Sorts
<1>. QED
  BY <1>6, <1>7

\* It is counted where its status says.
LEMMA ResultTallied ==
  ASSUME NEW s \in Seq(EventSet), NEW e \in EventSet, NEW S, IsResult(e), e.src # "release"
  PROVE  Contract!Counted(Append(s, e), S) =
           IF e.status \in S THEN Contract!Counted(s, S) + 1 ELSE Contract!Counted(s, S)
<1>1. PICK t \in Seq(EventSet) : t = Append(s, e)
  BY AppendProperties
<1>2. e \in CountSort(S) <=> e.status \in S
  BY DEF CountSort
<1>3. Among(t, CountSort(S)) = IF e \in CountSort(S) THEN Among(s, CountSort(S)) + 1
                               ELSE Among(s, CountSort(S))
  BY <1>1, AmongAppend
<1>4. /\ Contract!Counted(t, S) = Among(t, CountSort(S))
      /\ Contract!Counted(s, S) = Among(s, CountSort(S))
  BY Sorts
<1>. QED
  BY <1>1, <1>2, <1>3, <1>4

\* Auto-release warns count as such only.
LEMMA WarnsCounted ==
  ASSUME NEW s \in Seq(EventSet), NEW t \in Seq(EventSet), Len(s) <= Len(t),
         \A i \in 1..Len(s) : t[i] = s[i],
         \A i \in (Len(s) + 1)..Len(t) : IsResult(t[i]) /\ t[i].src = "release"
  PROVE  /\ Contract!LinesDone(t) = Contract!LinesDone(s)
         /\ \A S : Contract!Counted(t, S) = Contract!Counted(s, S)
         /\ Contract!LateWarns(s) = 0 => Contract!LateWarns(t) = Len(t) - Len(s)
<1>1. Among(t, LineSort) = Among(s, LineSort)
  <2>1. \A i \in (Len(s) + 1)..Len(t) : t[i] \notin LineSort
    BY DEF LineSort, IsLine
  <2>. QED
    BY <2>1, AmongLonger
<1>2. ASSUME NEW S PROVE Among(t, CountSort(S)) = Among(s, CountSort(S))
  <2>1. \A i \in (Len(s) + 1)..Len(t) : t[i] \notin CountSort(S)
    BY DEF CountSort
  <2>. QED
    BY <2>1, AmongLonger
<1>3. ASSUME Contract!LateWarns(s) = 0 PROVE Contract!LateWarns(t) = Len(t) - Len(s)
  <2>. DEFINE S == {i \in DOMAIN s : s[i] \in ReleaseSort}
              T == {i \in DOMAIN t : t[i] \in ReleaseSort}
  <2>1. PICK m \in Nat : m = Len(s) /\ DOMAIN s = 1..m
    BY LenProperties
  <2>2. PICK k \in Nat : k = Len(t) /\ DOMAIN t = 1..k
    BY LenProperties
  <2>3. S = {}
    <3>1. IsFiniteSet(S) /\ Cardinality(S) = 0
      BY <1>3, Sorts, AmongNat DEF Among
    <3>. QED
      BY <3>1, FS_EmptySet
  <2>4. \A i \in (m + 1)..k : t[i] \in ReleaseSort
    <3>1. \A i \in (m + 1)..k : t[i] \in EventSet
      BY <2>1, <2>2
    <3>. QED
      BY <2>1, <2>2, <3>1 DEF ReleaseSort
  <2>5. \A i \in 1..m : t[i] \notin ReleaseSort
    BY <2>1, <2>3
  <2>6. \A i : i \in T <=> i \in (m + 1)..k
    BY <2>1, <2>2, <2>4, <2>5
  <2>7. T = (m + 1)..k
    BY <2>6
  <2>8. Cardinality((m + 1)..k) = k - m
    <3>1. PICK d \in Int : d = m + 1
      OBVIOUS
    <3>2. Cardinality(d..k) = IF d > k THEN 0 ELSE k - d + 1
      BY FS_Interval
    <3>. QED
      BY <2>1, <2>2, <3>1, <3>2
  <2>. QED
    BY <2>1, <2>2, <2>7, <2>8, Sorts DEF Among
<1>. QED
  BY <1>1, <1>2, <1>3, Sorts

\* What the warns add to what is written.
LEMMA WarnsWritten ==
  ASSUME TypeOK, TypeOK', Finish
  PROVE  /\ Written \in Seq(EventSet) /\ Written' \in Seq(EventSet)
         /\ Len(released) \in Nat /\ Len(Written) \in Nat
         /\ Len(Written') = Len(Written) + Len(released)
         /\ \A i \in 1..Len(Written) : Written'[i] = Written[i]
         /\ \A i \in 1..Len(released) :
              Written'[Len(Written) + i] = ResultEv(released[i].line, "warn", "release")
         /\ \A i \in (Len(Written) + 1)..Len(Written') :
              IsResult(Written'[i]) /\ Written'[i].src = "release"
<1>1. PICK m \in Nat, k \in Nat : m = Len(results) /\ k = Len(released)
  BY Warned
<1>2. /\ \A i \in 1..m : results'[i] = results[i]
      /\ \A i \in 1..k : results'[m + i] = [line |-> released[i].line, status |-> "warn", src |-> "release"]
      /\ DOMAIN results' = 1..(m + k)
  BY <1>1, Warned
<1>3. PICK z \in Seq(Result) : z = results' /\ Len(z) = m + k
  <2>1. results' \in Seq(Result)
    BY DEF TypeOK
  <2>. QED
    BY <1>2, <2>1, LenProperties
<1>4. PICK s \in Seq(EventSet) : s = Written /\ Len(s) = m + 1 /\ s[1] = StartEv
          /\ \A i \in 1..m : s[i + 1] = ResultEv(results[i].line, results[i].status, results[i].src)
  BY <1>1, PageLines
<1>5. PICK e \in Seq(EventSet) : /\ e = Events(z) /\ Len(e) = m + k
          /\ \A i \in 1..(m + k) : e[i] = ResultEv(z[i].line, z[i].status, z[i].src)
  BY <1>3, EventsOf
<1>6. PICK t \in Seq(EventSet) : t = <<StartEv>> \o e
  <2>1. <<StartEv>> \in Seq(EventSet)
    BY EventsMade
  <2>. QED
    BY <2>1, ConcatProperties
<1>7. /\ Len(t) = 1 + (m + k)
      /\ \A i \in 1..(1 + (m + k)) : t[i] = IF i <= 1 THEN StartEv ELSE e[i - 1]
  <2>1. <<StartEv>> \in Seq(EventSet) /\ Len(<<StartEv>>) = 1 /\ <<StartEv>>[1] = StartEv
    BY EventsMade
  <2>. QED
    BY <1>5, <1>6, <2>1, ConcatProperties
<1>8. Written' = t
  BY <1>3, <1>5, <1>6 DEF Written, Events
<1>9. \A i \in 1..m : t[i + 1] = s[i + 1]
  <2>. SUFFICES ASSUME NEW i \in 1..m PROVE t[i + 1] = s[i + 1]
    OBVIOUS
  <2>1. i + 1 \in 1..(1 + (m + k)) /\ ~(i + 1 <= 1) /\ (i + 1) - 1 = i /\ i \in 1..(m + k)
    OBVIOUS
  <2>2. t[i + 1] = ResultEv(z[i].line, z[i].status, z[i].src)
    BY <1>5, <1>7, <2>1
  <2>3. z[i] = results[i]
    BY <1>2, <1>3
  <2>. QED
    BY <1>4, <2>2, <2>3
<1>10. \A i \in 1..(m + 1) : t[i] = s[i]
  <2>. SUFFICES ASSUME NEW i \in 1..(m + 1) PROVE t[i] = s[i]
    OBVIOUS
  <2>1. CASE i = 1
    BY <1>4, <1>7, <2>1
  <2>2. CASE i # 1
    <3>1. PICK j \in 1..m : i = j + 1
      <4>1. i - 1 \in 1..m /\ i = (i - 1) + 1
        BY <2>2
      <4>. QED
        BY <4>1
    <3>. QED
      BY <1>9, <3>1
  <2>. QED
    BY <2>1, <2>2
<1>11. \A i \in 1..k : t[(m + 1) + i] = ResultEv(released[i].line, "warn", "release")
  <2>. SUFFICES ASSUME NEW i \in 1..k
                PROVE  t[(m + 1) + i] = ResultEv(released[i].line, "warn", "release")
    OBVIOUS
  <2>1. /\ (m + 1) + i \in 1..(1 + (m + k)) /\ ~((m + 1) + i <= 1) /\ ((m + 1) + i) - 1 = m + i
        /\ m + i \in 1..(m + k)
    OBVIOUS
  <2>2. t[(m + 1) + i] = ResultEv(z[m + i].line, z[m + i].status, z[m + i].src)
    BY <1>5, <1>7, <2>1
  <2>3. z[m + i] = [line |-> released[i].line, status |-> "warn", src |-> "release"]
    BY <1>2, <1>3
  <2>4. z[m + i].line = released[i].line /\ z[m + i].status = "warn" /\ z[m + i].src = "release"
    BY <2>3
  <2>. QED
    BY <2>2, <2>4
<1>12. \A i \in ((m + 1) + 1)..(1 + (m + k)) : IsResult(t[i]) /\ t[i].src = "release"
  <2>. SUFFICES ASSUME NEW i \in ((m + 1) + 1)..(1 + (m + k))
                PROVE  IsResult(t[i]) /\ t[i].src = "release"
    OBVIOUS
  <2>1. PICK j \in 1..k : i = (m + 1) + j
    <3>1. i - (m + 1) \in 1..k /\ i = (m + 1) + (i - (m + 1))
      OBVIOUS
    <3>. QED
      BY <3>1
  <2>2. t[i] = ResultEv(released[j].line, "warn", "release")
    BY <1>11, <2>1
  <2>. QED
    BY <2>2 DEF ResultEv, IsResult
<1>13. PICK y \in Nat : y = m + 1
  OBVIOUS
<1>14. Len(t) = y + k
  BY <1>7, <1>13
<1>. QED
  BY <1>1, <1>4, <1>7, <1>8, <1>10, <1>11, <1>12, <1>13, <1>14

\* A step that neither reports nor finishes writes nothing.
LEMMA QuietWritten ==
  ASSUME Quiet
  PROVE  Written' = Written /\ Reported' = Reported /\ DoneLine' = DoneLine
BY DEF Quiet, report, args, Written, Events, Reported, DoneLine

LEMMA KeepWrittenCounts ==
  ASSUME IInv, IInv', WrittenCounts, [Next]_vars
  PROVE  WrittenCounts'
<1>0. TypeOK /\ TypeOK'
  BY DEF IInv
<1>1. Written \in Seq(EventSet) /\ Written' \in Seq(EventSet)
  <2>1. Written \in Seq(EventSet)
    BY <1>0, PageLines
  <2>2. results' \in Seq(Result)
    BY <1>0 DEF TypeOK
  <2>3. Written' = <<StartEv>> \o Events(results')
    BY DEF Written, Events
  <2>4. Written' \in Seq(EventSet)
    BY <2>2, <2>3, EventsOf, EventsMade, ConcatProperties
  <2>. QED
    BY <2>1, <2>4
<1>2. PICK s \in Seq(EventSet), t \in Seq(EventSet) : s = Written /\ t = Written'
  BY <1>1
<1>3. /\ Contract!LinesDone(s) = Reported /\ Contract!TrueDone(s) = DoneLine
      /\ phase # "done" => Contract!LateWarns(s) = 0
  BY <1>2 DEF WrittenCounts
<1>. SUFFICES /\ Contract!LinesDone(t) = Reported' /\ Contract!TrueDone(t) = DoneLine'
              /\ phase' # "done" => Contract!LateWarns(t) = 0
  BY <1>2 DEF WrittenCounts
<1>4. CASE Quiet
  BY <1>2, <1>3, <1>4, QuietWritten DEF Quiet
<1>5. CASE Reports
  <2>1. PICK r \in Result : Told(r)
    BY <1>5, Tells
  <2>2. t = Append(s, ResultEv(r.line, r.status, r.src))
    BY <1>0, <1>2, <2>1, WrittenAppends DEF Told
  <2>3. /\ Contract!LinesDone(t) = IF r.src = "op" THEN Contract!LinesDone(s) + 1
                                   ELSE Contract!LinesDone(s)
        /\ Contract!LateWarns(t) = Contract!LateWarns(s)
        /\ \A S : Contract!Counted(t, S) =
              IF r.status \in S THEN Contract!Counted(s, S) + 1 ELSE Contract!Counted(s, S)
    <3>1. r.src # "release"
      BY <2>1 DEF Told
    <3>2. /\ Contract!LinesDone(t) = IF r.src = "op" THEN Contract!LinesDone(s) + 1
                                     ELSE Contract!LinesDone(s)
          /\ Contract!LateWarns(t) = Contract!LateWarns(s)
      BY <2>2, <3>1, ResultCounted
    <3>3. ASSUME NEW S
          PROVE  Contract!Counted(t, S) = IF r.status \in S THEN Contract!Counted(s, S) + 1
                                          ELSE Contract!Counted(s, S)
      <4>1. PICK e \in EventSet : e = ResultEv(r.line, r.status, r.src) /\ IsResult(e)
        BY EventsMade
      <4>2. e.src # "release" /\ e.status = r.status
        BY <3>1, <4>1 DEF ResultEv
      <4>3. t = Append(s, e)
        BY <2>2, <4>1
      <4>. QED
        BY <4>1, <4>2, <4>3, ResultTallied
    <3>. QED
      BY <3>2, <3>3
  <2>4. Contract!LinesDone(t) = Reported'
    BY <1>3, <2>1, <2>3 DEF Told
  <2>5. phase # "done"
    BY <1>5 DEF Reports, SkipLine, ReportLine, CaptureOnError
  <2>6. Contract!TrueDone(t) = DoneLine'
    <3>1. r.status \in {"ok", "warn", "err", "skip"}
      BY DEF Result
    <3>2. totals' = Tally(r.status) /\ totals \in [ok : Nat, err : Nat, skip : Nat]
      BY <1>0, <2>1 DEF Told, Record, TypeOK
    <3>3. /\ totals'.ok = IF r.status \in {"ok", "warn"} THEN totals.ok + 1 ELSE totals.ok
          /\ totals'.err = IF r.status \in {"err"} THEN totals.err + 1 ELSE totals.err
          /\ totals'.skip = IF r.status \in {"skip"} THEN totals.skip + 1 ELSE totals.skip
      BY <3>1, <3>2 DEF Tally
    <3>4. /\ Contract!Counted(s, {"ok", "warn"}) = totals.ok
          /\ Contract!Counted(s, {"err"}) = totals.err
          /\ Contract!Counted(s, {"skip"}) = totals.skip
      BY <1>3 DEF Contract!TrueDone, Contract!DoneEv, DoneLine, DoneEv
    <3>5. /\ Contract!Counted(t, {"ok", "warn"}) = totals'.ok
          /\ Contract!Counted(t, {"err"}) = totals'.err
          /\ Contract!Counted(t, {"skip"}) = totals'.skip
      BY <2>3, <3>3, <3>4
    <3>. QED
      BY <3>5 DEF Contract!TrueDone, Contract!DoneEv, DoneLine, DoneEv
  <2>. QED
    BY <1>3, <2>3, <2>4, <2>5, <2>6
<1>6. CASE Finish
  <2>1. /\ Len(s) <= Len(t) /\ \A i \in 1..Len(s) : t[i] = s[i]
        /\ \A i \in (Len(s) + 1)..Len(t) : IsResult(t[i]) /\ t[i].src = "release"
    BY <1>0, <1>2, <1>6, WarnsWritten
  <2>2. /\ Contract!LinesDone(t) = Contract!LinesDone(s)
        /\ \A S : Contract!Counted(t, S) = Contract!Counted(s, S)
    BY <2>1, WarnsCounted
  <2>3. Reported' = Reported /\ DoneLine' = DoneLine /\ phase' = "done"
    BY <1>6 DEF Finish, Reported, DoneLine
  <2>4. Contract!TrueDone(t) = Contract!TrueDone(s)
    BY <2>2 DEF Contract!TrueDone
  <2>. QED
    BY <1>3, <2>2, <2>3, <2>4
<1>. QED
  BY <1>4, <1>5, <1>6, StepQuiet

-----------------------------------------------------------------------------
(* What the contract lets follow.                                          *)

\* That depends on the sequence and -k alone.
LEMMA KeepsStays ==
  ASSUME prog' = prog, opt' = opt, NEW s
  PROVE  Keeps(s)' <=> Keeps(s)
<1>. DEFINE F(t, e) == Contract!Follows(t, e)
<1>1. \A t, e : F(t, e)' <=> F(t, e)
  <2>. SUFFICES ASSUME NEW t, NEW e PROVE F(t, e)' <=> F(t, e)
    OBVIOUS
  <2>1. Contract!AllDone(t)' <=> Contract!AllDone(t)
    BY DEF Contract!AllDone
  <2>2. Contract!NextLine(t)' = Contract!NextLine(t)
    BY DEF Contract!NextLine, Contract!MustSkip
  <2>. QED
    BY <2>1, <2>2 DEF Contract!Follows
<1>. QED
  BY <1>1 DEF Keeps

\* A longer output keeps the contract if what it adds may follow.
LEMMA KeepsLonger ==
  ASSUME NEW s \in Seq(EventSet), NEW t \in Seq(EventSet), Len(s) <= Len(t),
         \A i \in 1..Len(s) : t[i] = s[i], Keeps(s),
         \A i \in (Len(s) + 1)..Len(t) : Contract!Follows(SubSeq(t, 1, i - 1), t[i])
  PROVE  Keeps(t)
<1>1. PICK m \in Nat, k \in Nat : m = Len(s) /\ k = Len(t) /\ DOMAIN s = 1..m /\ DOMAIN t = 1..k
  <2>1. Len(s) \in Nat /\ DOMAIN s = 1..Len(s) /\ Len(t) \in Nat /\ DOMAIN t = 1..Len(t)
    BY LenProperties
  <2>. QED
    BY <2>1
<1>2. ASSUME NEW i \in 1..k PROVE Contract!Follows(SubSeq(t, 1, i - 1), t[i])
  <2>1. CASE i <= m
    <3>1. i \in 1..m /\ t[i] = s[i]
      BY <1>1, <2>1
    <3>2. SubSeq(t, 1, i - 1) = SubSeq(s, 1, i - 1)
      <4>1. PICK d \in Int : d = i - 1
        OBVIOUS
      <4>2. (\A j \in 1..d : s[j] \in EventSet) /\ (\A j \in 1..d : t[j] \in EventSet)
        BY <1>1, <2>1, <4>1
      <4>3. /\ SubSeq(s, 1, d) \in Seq(EventSet) /\ SubSeq(t, 1, d) \in Seq(EventSet)
            /\ Len(SubSeq(s, 1, d)) = IF 1 <= d THEN d - 1 + 1 ELSE 0
            /\ Len(SubSeq(t, 1, d)) = IF 1 <= d THEN d - 1 + 1 ELSE 0
            /\ \A j \in 1..(d - 1 + 1) : SubSeq(s, 1, d)[j] = s[1 + j - 1]
            /\ \A j \in 1..(d - 1 + 1) : SubSeq(t, 1, d)[j] = t[1 + j - 1]
        BY <4>2, SubSeqProperties
      <4>4. ASSUME NEW j \in 1..d PROVE SubSeq(s, 1, d)[j] = SubSeq(t, 1, d)[j]
        <5>1. j \in 1..(d - 1 + 1) /\ 1 + j - 1 = j /\ j \in 1..m
          BY <2>1, <4>1
        <5>. QED
          BY <1>1, <4>3, <5>1
      <4>5. Len(SubSeq(s, 1, d)) = d /\ Len(SubSeq(t, 1, d)) = d
        BY <4>1, <4>3
      <4>6. SubSeq(s, 1, d) = SubSeq(t, 1, d)
        BY <4>3, <4>4, <4>5, SeqEqual
      <4>. QED
        BY <4>1, <4>6
    <3>. QED
      BY <1>1, <3>1, <3>2 DEF Keeps
  <2>2. CASE ~(i <= m)
    BY <1>1, <2>2
  <2>. QED
    BY <2>1, <2>2
<1>. QED
  BY <1>1, <1>2 DEF Keeps

\* Nothing written ends the output.
LEMMA WrittenOpen ==
  ASSUME TypeOK
  PROVE  /\ Written # <<>> /\ Contract!Open(Written)
         /\ \A i \in 1..Len(Written) : ~Ends(Written[i])
<1>1. PICK m \in Nat : m = Len(results)
  BY PageLines
<1>2. PICK s \in Seq(EventSet) : s = Written /\ Len(s) = m + 1 /\ s[1] = StartEv
        /\ \A i \in 1..m : s[i + 1] = ResultEv(results[i].line, results[i].status, results[i].src)
  BY <1>1, PageLines
<1>3. ASSUME NEW i \in 1..(m + 1) PROVE ~Ends(s[i])
  <2>1. CASE i = 1
    BY <1>2, <2>1 DEF Ends, StartEv
  <2>2. CASE i # 1
    <3>1. PICK j \in 1..m : i = j + 1
      <4>1. i - 1 \in 1..m /\ i = (i - 1) + 1
        BY <2>2
      <4>. QED
        BY <4>1
    <3>2. s[i] = ResultEv(results[j].line, results[j].status, results[j].src)
      BY <1>2, <3>1
    <3>. QED
      BY <3>2 DEF Ends, ResultEv
  <2>. QED
    BY <2>1, <2>2
<1>4. s # <<>> /\ Contract!Open(s)
  BY <1>2, <1>3 DEF Contract!Open, Contract!Ends, Ends
<1>. QED
  BY <1>2, <1>3, <1>4

\* The contract asks for skips only of a run that must stop.
LEMMA SkipsTold ==
  ASSUME TypeOK, ResultsTell, Contract!MustSkip(Written)
  PROVE  Stopped
<1>1. PICK m \in Nat : m = Len(results) /\ DOMAIN results = 1..m
  <2>1. results \in Seq(Result)
    BY DEF TypeOK
  <2>. QED
    BY <2>1, LenProperties
<1>2. PICK s \in Seq(EventSet) : s = Written /\ Len(s) = m + 1 /\ DOMAIN s = 1..(m + 1) /\ s[1] = StartEv
        /\ \A i \in 1..m : s[i + 1] = ResultEv(results[i].line, results[i].status, results[i].src)
  BY <1>1, PageLines
<1>3. PICK i \in 1..(m + 1) : /\ s[i].ev = "result" /\ s[i].src = "op"
                              /\ s[i].status = "skip" \/ (s[i].status = "err" /\ ~opt.keepGoing)
  BY <1>2 DEF Contract!MustSkip, Contract!IsLine
<1>4. i # 1
  BY <1>2, <1>3 DEF StartEv
<1>5. PICK j \in 1..m : i = j + 1
  <2>1. i - 1 \in 1..m /\ i = (i - 1) + 1
    BY <1>4
  <2>. QED
    BY <2>1
<1>6. s[i] = ResultEv(results[j].line, results[j].status, results[j].src)
  BY <1>2, <1>5
<1>7. results[j].src = "op" /\ (results[j].status = "skip" \/ (results[j].status = "err" /\ ~opt.keepGoing))
  BY <1>3, <1>6 DEF ResultEv
<1>. QED
  BY <1>1, <1>7 DEF ResultsTell, Stopped

\* Every report may follow what is written.
LEMMA TellFollows ==
  ASSUME IInv, ResultsTell, WrittenCounts, NEW r \in Result, Told(r)
  PROVE  Contract!Follows(Written, ResultEv(r.line, r.status, r.src))
<1>. DEFINE e == ResultEv(r.line, r.status, r.src)
<1>0. TypeOK
  BY DEF IInv
<1>1. Written # <<>> /\ Contract!Open(Written)
  BY <1>0, WrittenOpen
<1>2. Contract!LinesDone(Written) = Reported
  BY DEF WrittenCounts
<1>3. CASE r.src = "op"
  <2>1. r.line = Reported + 1 /\ r.line <= Len(prog) /\ (Stopped => r.status = "skip")
    BY <1>3 DEF Told
  <2>2. Reported \in Nat /\ Len(prog) \in Nat
    <3>1. prog \in Seq(Op)
      BY <1>0, ProgramsAssumption DEF TypeOK
    <3>2. line \in Nat \ {0}
      BY <1>0 DEF TypeOK
    <3>. QED
      BY <3>1, <3>2, LenProperties DEF Reported
  <2>3. ~Contract!AllDone(Written)
    BY <1>2, <2>1, <2>2 DEF Contract!AllDone
  <2>4. r.status \in IF Contract!MustSkip(Written) THEN {"skip"} ELSE {"ok", "warn", "err", "skip"}
    BY <1>0, <2>1, SkipsTold DEF Result
  <2>5. e = Contract!ResultEv(Contract!LinesDone(Written) + 1, r.status, "op")
    BY <1>2, <1>3, <2>1 DEF ResultEv, Contract!ResultEv
  <2>6. e \in Contract!NextLine(Written)
    BY <2>4, <2>5 DEF Contract!NextLine
  <2>. QED
    BY <1>1, <2>3, <2>6 DEF Contract!Follows
<1>4. CASE r.src = "cap"
  <2>1. phase = "errcap" /\ r.line = line /\ r.status \in {"ok", "err"}
    BY <1>4 DEF Told
  <2>2. results # <<>> /\ results[Len(results)] = [line |-> line, status |-> "err", src |-> "op"]
    BY <2>1 DEF ResultsTell, Last
  <2>3. PICK m \in Nat : m = Len(results) /\ m \in 1..m
    <3>1. results \in Seq(Result)
      BY <1>0 DEF TypeOK
    <3>. QED
      BY <2>2, <3>1, LenProperties, EmptySeq
  <2>4. Len(Written) = m + 1 /\ Written[m + 1] = ResultEv(results[m].line, results[m].status, results[m].src)
    BY <1>0, <2>3, PageLines
  <2>5. Written[Len(Written)] = [ev |-> "result", line |-> line, status |-> "err", src |-> "op"]
    BY <2>2, <2>3, <2>4 DEF ResultEv
  <2>6. Contract!FailedLast(Written)
    BY <2>5 DEF Contract!FailedLast, Contract!IsLine
  <2>7. e = Contract!ResultEv(Written[Len(Written)].line, r.status, "cap")
    BY <1>4, <2>1, <2>5 DEF ResultEv, Contract!ResultEv
  <2>8. e \in Contract!Extra(Written)
    BY <2>1, <2>7 DEF Contract!Extra
  <2>. QED
    BY <1>1, <2>6, <2>8 DEF Contract!Follows
<1>. QED
  BY <1>3, <1>4 DEF Told

\* What a run that ends releases was taken by its lines, within their limits.
LEMMA ReleasedInBounds ==
  ASSUME IInv, HeldInBounds, Finish
  PROVE  /\ Len(prog) \in Nat /\ Len(released) \in Nat /\ Reported = Len(prog)
         /\ Len(released) <= MaxLines * KeysPerLine /\ MaxLines * KeysPerLine \in Nat
         /\ \A i \in 1..Len(released) : released[i].line \in 1..Len(prog)
<1>0. /\ TypeOK /\ ResultsInPlace /\ HeldInPlace /\ line \in Nat \ {0} /\ phase = "release"
      /\ prog \in Programs
  BY DEF IInv, TypeOK, Finish
<1>1. PICK n \in Nat : n = Len(prog)
  <2>1. prog \in Seq(Op)
    BY <1>0, ProgramsAssumption
  <2>. QED
    BY <2>1, LenProperties
<1>2. line = n + 1 /\ Reported = n
  BY <1>0, <1>1 DEF ResultsInPlace, Reported
<1>3. PICK k \in Nat : k = Len(released) /\ DOMAIN released = 1..k
  BY <1>0, Warned
<1>4. k <= n * KeysPerLine
  <2>1. Len(keys) \in Nat /\ Len(buttons) \in Nat
    <3>1. keys \in Seq([input : Keys, line : Nat]) /\ buttons \in Seq([input : Buttons, line : Nat])
      BY <1>0 DEF TypeOK
    <3>. QED
      BY <3>1, LenProperties
  <2>2. k <= Taken /\ Taken \in Nat
    BY <1>3, <2>1 DEF Taken
  <2>3. PICK b : b = (line - 1) * KeysPerLine
    OBVIOUS
  <2>4. Taken + 0 <= b
    BY <1>0, <2>3 DEF HeldInBounds, LineStarts
  <2>5. line - 1 = n
    BY <1>2
  <2>6. b = n * KeysPerLine
    BY <2>3, <2>5
  <2>7. b \in Nat
    BY <2>6, <1>1, LimitsAssumption
  <2>8. k <= b
    BY <2>2, <2>4, <2>7
  <2>. QED
    BY <2>6, <2>8
<1>5. n <= MaxLines
  BY <1>0, <1>1, LimitsAssumption
<1>6. n * KeysPerLine <= MaxLines * KeysPerLine /\ n * KeysPerLine \in Nat /\ MaxLines * KeysPerLine \in Nat
  <2>1. MaxLines \in Nat /\ KeysPerLine \in Nat
    BY LimitsAssumption
  <2>2. PICK d \in Nat : MaxLines = n + d
    <3>1. MaxLines - n \in Nat /\ MaxLines = n + (MaxLines - n)
      BY <1>5, <2>1
    <3>. QED
      BY <3>1
  <2>3. (n + d) * KeysPerLine = n * KeysPerLine + d * KeysPerLine
    BY <2>1
  <2>4. n * KeysPerLine \in Nat /\ d * KeysPerLine \in Nat
    BY <2>1
  <2>. QED
    BY <2>2, <2>3, <2>4
<1>7. ASSUME NEW i \in 1..k PROVE released[i].line \in 1..n
  <2>1. released[i] \in ToSet(released)
    BY <1>3 DEF ToSet
  <2>2. OkLine(released[i].line)
    BY <1>0, <2>1 DEF HeldInPlace
  <2>3. PICK j \in DOMAIN results : results[j] = [line |-> released[i].line, status |-> "ok", src |-> "op"]
    BY <2>2 DEF OkLine, ToSet
  <2>4. results[j].src = "op" /\ results[j].line = released[i].line
    BY <2>3
  <2>. QED
    BY <1>0, <1>2, <2>4 DEF ResultsInPlace
<1>. QED
  BY <1>1, <1>2, <1>3, <1>4, <1>6, <1>7

\* A warn may follow all the lines.
LEMMA WarnFollows ==
  ASSUME NEW s, s # <<>>, Contract!Open(s), Contract!LinesDone(s) = Len(prog),
         Contract!LateWarns(s) + 1 <= MaxLines * KeysPerLine, NEW l \in 1..Len(prog)
  PROVE  Contract!Follows(s, ResultEv(l, "warn", "release"))
<1>1. Contract!AllDone(s)
  BY DEF Contract!AllDone
<1>2. ResultEv(l, "warn", "release") = Contract!ResultEv(l, "warn", "release")
  BY DEF ResultEv, Contract!ResultEv
<1>. QED
  BY <1>1, <1>2 DEF Contract!Follows

\* The warns follow all the lines, one by one.
LEMMA FinishKeeps ==
  ASSUME IInv, IInv', HeldInBounds, WrittenCounts, WrittenFollows, Finish
  PROVE  Keeps(Written')
<1>0. TypeOK /\ TypeOK' /\ phase # "done"
  BY DEF IInv, Finish
<1>1. PICK s \in Seq(EventSet), t \in Seq(EventSet) : s = Written /\ t = Written'
  BY <1>0, WarnsWritten
<1>2. PICK m \in Nat, k \in Nat : m = Len(s) /\ k = Len(released)
  BY <1>0, <1>1, WarnsWritten
<1>3. /\ Len(t) = m + k /\ \A i \in 1..m : t[i] = s[i]
      /\ \A i \in 1..k : t[m + i] = ResultEv(released[i].line, "warn", "release")
      /\ \A i \in (m + 1)..(m + k) : IsResult(t[i]) /\ t[i].src = "release"
  BY <1>0, <1>1, <1>2, WarnsWritten
<1>4. /\ s # <<>> /\ \A i \in 1..m : ~Ends(s[i])
  BY <1>0, <1>1, <1>2, WrittenOpen
<1>5. /\ Contract!LinesDone(s) = Len(prog) /\ Contract!LateWarns(s) = 0
      /\ k <= MaxLines * KeysPerLine /\ MaxLines * KeysPerLine \in Nat
      /\ \A i \in 1..k : released[i].line \in 1..Len(prog)
  BY <1>0, <1>1, <1>2, ReleasedInBounds DEF WrittenCounts
<1>6. m > 0
  BY <1>2, <1>4, EmptySeq
<1>7. ASSUME NEW j \in 1..k
      PROVE  Contract!Follows(SubSeq(t, 1, m + j - 1), t[m + j])
  <2>1. PICK d \in Nat : d = m + j - 1 /\ d >= m /\ d < m + k /\ d - m = j - 1
    OBVIOUS
  <2>2. \A i \in 1..d : t[i] \in EventSet
    <3>1. \A i \in 1..Len(t) : t[i] \in EventSet
      BY ElementOfSeq
    <3>2. \A i \in 1..d : i \in 1..(m + k)
      BY <2>1
    <3>. QED
      BY <1>3, <3>1, <3>2
  <2>3. PICK p \in Seq(EventSet) : p = SubSeq(t, 1, d)
    <3>1. SubSeq(t, 1, d) \in Seq(EventSet)
      BY <2>2, SubSeqProperties
    <3>. QED
      BY <3>1
  <2>4. Len(p) = d /\ \A i \in 1..d : p[i] = t[i]
    <3>1. /\ Len(p) = IF 1 <= d THEN d - 1 + 1 ELSE 0
          /\ \A i \in 1..(d - 1 + 1) : p[i] = t[1 + i - 1]
      BY <2>2, <2>3, SubSeqProperties
    <3>2. d - 1 + 1 = d /\ 1 <= d
      BY <1>6, <2>1
    <3>3. \A i \in 1..d : 1 + i - 1 = i
      OBVIOUS
    <3>. QED
      BY <3>1, <3>2, <3>3
  <2>5. /\ Len(s) <= Len(p) /\ \A i \in 1..Len(s) : p[i] = s[i]
        /\ \A i \in (Len(s) + 1)..Len(p) : IsResult(p[i]) /\ p[i].src = "release"
    <3>1. \A i \in 1..m : i \in 1..d
      BY <2>1
    <3>2. \A i \in (m + 1)..d : i \in 1..d /\ i \in (m + 1)..(m + k)
      BY <2>1
    <3>. QED
      BY <1>2, <1>3, <2>1, <2>4, <3>1, <3>2
  <2>6. Contract!LinesDone(p) = Len(prog) /\ Contract!LateWarns(p) = d - m
    BY <1>2, <1>5, <2>4, <2>5, WarnsCounted
  <2>7. Contract!LateWarns(p) + 1 <= MaxLines * KeysPerLine
    BY <1>5, <2>1, <2>6
  <2>8. p # <<>> /\ Contract!Open(p)
    <3>1. d \in 1..d
      BY <1>6, <2>1
    <3>2. p # <<>>
      BY <2>4, <3>1
    <3>3. ~Ends(p[d])
      <4>1. CASE d = m
        BY <1>2, <1>4, <2>5, <3>1, <4>1
      <4>2. CASE d # m
        <5>1. d \in (m + 1)..d
          BY <2>1, <4>2
        <5>. QED
          BY <1>2, <2>4, <2>5, <5>1 DEF Ends, IsResult
      <4>. QED
        BY <4>1, <4>2
    <3>. QED
      BY <2>4, <3>2, <3>3 DEF Contract!Open, Contract!Ends, Ends
  <2>9. Contract!Follows(p, ResultEv(released[j].line, "warn", "release"))
    BY <1>5, <2>6, <2>7, <2>8, WarnFollows
  <2>. QED
    BY <1>3, <2>1, <2>3, <2>9
<1>8. \A i \in (Len(s) + 1)..Len(t) : Contract!Follows(SubSeq(t, 1, i - 1), t[i])
  <2>. SUFFICES ASSUME NEW i \in (m + 1)..(m + k)
                PROVE  Contract!Follows(SubSeq(t, 1, i - 1), t[i])
    BY <1>2, <1>3
  <2>1. PICK j \in 1..k : i = m + j
    <3>1. i - m \in 1..k /\ i = m + (i - m)
      OBVIOUS
    <3>. QED
      BY <3>1
  <2>2. i - 1 = m + j - 1
    BY <2>1
  <2>3. Contract!Follows(SubSeq(t, 1, m + j - 1), t[m + j])
    BY <1>7
  <2>. QED
    BY <2>1, <2>2, <2>3
<1>9. Keeps(t)
  <2>1. Len(s) <= Len(t) /\ \A i \in 1..Len(s) : t[i] = s[i]
    BY <1>2, <1>3
  <2>. QED
    BY <1>1, <1>8, <2>1, KeepsLonger DEF WrittenFollows
<1>. QED
  BY <1>1, <1>9

LEMMA KeepWrittenFollows ==
  ASSUME IInv, IInv', ResultsTell, HeldInBounds, WrittenCounts, WrittenFollows, [Next]_vars
  PROVE  WrittenFollows'
<1>0. TypeOK /\ TypeOK'
  BY DEF IInv
<1>1. prog' = prog /\ opt' = opt /\ Keeps(Written')
  <2>1. CASE Quiet
    BY <2>1, QuietWritten DEF Quiet, args, WrittenFollows
  <2>2. CASE Finish
    BY <2>2, FinishKeeps DEF Finish, args
  <2>3. CASE Reports
    <3>1. PICK r \in Result : Told(r)
      BY <2>3, Tells
    <3>2. PICK s \in Seq(EventSet), e \in EventSet :
            s = Written /\ e = ResultEv(r.line, r.status, r.src)
      BY <1>0, PageLines, EventsMade
    <3>3. Written' = Append(s, e)
      BY <1>0, <3>1, <3>2, WrittenAppends DEF Told
    <3>4. PICK t \in Seq(EventSet) : t = Append(s, e)
      BY AppendProperties
    <3>5. PICK m \in Nat : m = Len(s)
      BY LenProperties
    <3>6. Len(t) = m + 1 /\ t[m + 1] = e /\ \A i \in 1..m : t[i] = s[i]
      BY <3>4, <3>5, AppendProperties
    <3>7. SubSeq(t, 1, (m + 1) - 1) = s
      BY <3>4, <3>5
    <3>8. Contract!Follows(s, e)
      BY <3>1, <3>2, TellFollows
    <3>9. \A i \in (m + 1)..(m + 1) : Contract!Follows(SubSeq(t, 1, i - 1), t[i])
      <4>1. \A i \in (m + 1)..(m + 1) : i = m + 1
        OBVIOUS
      <4>2. Contract!Follows(SubSeq(t, 1, (m + 1) - 1), t[m + 1])
        BY <3>6, <3>7, <3>8
      <4>. QED
        BY <4>1, <4>2
    <3>10. Len(s) <= Len(t)
      BY <3>5, <3>6
    <3>11. Keeps(t)
      BY <3>2, <3>5, <3>6, <3>9, <3>10, KeepsLonger DEF WrittenFollows
    <3>. QED
      BY <3>1, <3>3, <3>4, <3>11 DEF Told, args
  <2>. QED
    BY <2>1, <2>2, <2>3, StepQuiet
<1>2. PICK t : t = Written'
  OBVIOUS
<1>3. Keeps(t)'
  BY <1>1, <1>2, KeepsStays
<1>. QED
  BY <1>2, <1>3 DEF WrittenFollows

-----------------------------------------------------------------------------
(* What has been printed.                                                  *)

LEMMA StillWritten ==
  ASSUME UNCHANGED vars
  PROVE  /\ Written' = Written /\ DoneLine' = DoneLine /\ LastLine' = LastLine
         /\ opt' = opt /\ phase' = phase
<1>1. UNCHANGED <<results, totals, opt, phase>>
  BY DEF vars, report, args
<1>. QED
  BY <1>1 DEF Written, Events, DoneLine, LastLine

\* Nothing but the start line before the first result.
LEMMA StartWritten ==
  ASSUME TypeOK, results = <<>>
  PROVE  Written = <<StartEv>>
<1>1. Events(<<>>) = <<>>
  <2>1. <<>> \in Seq(Result) /\ Len(<<>>) = 0
    BY EmptySeq
  <2>2. Events(<<>>) \in Seq(EventSet) /\ Len(Events(<<>>)) = 0
    BY <2>1, EventsOf
  <2>. QED
    BY <2>2, EmptySeq
<1>2. <<StartEv>> \in Seq(EventSet)
  BY EventsMade
<1>3. <<StartEv>> \o <<>> = <<StartEv>>
  BY <1>2, ConcatEmptySeq
<1>. QED
  BY <1>1, <1>3 DEF Written

\* The event said is the last one.
LEMMA SaysLast ==
  ASSUME LocalTyped, NEW e \in EventSet, NEW next, Says(<<e>>, next)
  PROVE  /\ out' = Append(out, e) /\ proc' = next /\ out' # <<>> /\ out'[Len(out')] = e
         /\ Len(out) \in Nat /\ Len(out') = Len(out) + 1
         /\ \A i \in 1..Len(out) : out'[i] = out[i]
<1>1. out \in Seq(EventSet) /\ out' = out \o <<e>> /\ proc' = next
  BY DEF LocalTyped, Says
<1>2. out' = Append(out, e)
  BY <1>1, AppendIsConcat
<1>3. PICK m \in Nat : m = Len(out)
  BY <1>1, LenProperties
<1>4. /\ out' \in Seq(EventSet) /\ Len(out') = m + 1 /\ out'[m + 1] = e
      /\ \A i \in 1..m : out'[i] = out[i]
  BY <1>1, <1>2, <1>3, AppendProperties
<1>5. out' # <<>>
  BY <1>3, <1>4, EmptySeq
<1>. QED
  BY <1>1, <1>2, <1>3, <1>4, <1>5

LEMMA KeepOutInPlace ==
  ASSUME LocalInv, IInv', [LocalNext]_localVars
  PROVE  OutInPlace'
<1>0. IInv /\ LocalTyped /\ ProcInPlace /\ OutInPlace /\ TypeOK /\ TypeOK' /\ ResultsInPlace
  BY DEF LocalInv, IInv
<1>1. ASSUME UNCHANGED vars, NEW e \in EventSet, Says(<<e>>, "ended"), e = LastLine
      PROVE  OutInPlace'
  BY <1>0, <1>1, SaysLast, StillWritten DEF OutInPlace
<1>2. ASSUME UNCHANGED vars, UNCHANGED <<proc, out>>
      PROVE  OutInPlace'
  BY <1>0, <1>2, StillWritten DEF OutInPlace
<1>. USE DEF Silently, io
<1>3. CASE Greets
  <2>1. proc = "start" /\ out = <<>> /\ opt' = opt
    BY <1>0, <1>3, StillWritten DEF Greets, Begin, OutInPlace
  <2>2. CASE opt.stream
    <3>1. Says(<<StartEv>>, "backend")
      BY <1>3, <2>2 DEF Greets
    <3>2. out' = Append(<<>>, StartEv) /\ proc' = "backend"
      BY <1>0, <2>1, <3>1, EventsMade, SaysLast
    <3>3. Append(<<>>, StartEv) = <<StartEv>>
      OBVIOUS
    <3>. QED
      BY <2>1, <2>2, <3>2, <3>3 DEF OutInPlace
  <2>3. CASE ~opt.stream
    BY <1>3, <2>1, <2>3 DEF Greets, OutInPlace
  <2>. QED
    BY <2>2, <2>3
<1>4. CASE Opens
  <2>1. UNCHANGED vars /\ proc = "backend" /\ proc' = "run" /\ out' = out
    BY <1>4 DEF Opens, OpenBackend
  <2>2. phase = "preflight" /\ results = <<>>
    BY <1>0, <2>1 DEF ProcInPlace, ResultsInPlace
  <2>3. out = IF opt.stream THEN Written ELSE <<>>
    BY <1>0, <2>1, <2>2, StartWritten DEF OutInPlace
  <2>. QED
    BY <2>1, <2>3, StillWritten DEF OutInPlace
<1>5. CASE Refuses
  <2>1. UNCHANGED vars /\ phase = "preflight" /\ Says(<<AbortEv("E_VALIDATE")>>, "ended")
    BY <1>0, <1>5 DEF Refuses, OpenBackend, ProcInPlace
  <2>2. AbortEv("E_VALIDATE") \in EventSet /\ AbortEv("E_VALIDATE") = LastLine
    BY <2>1, EventsMade DEF LastLine, AbortCodes
  <2>. QED
    BY <1>1, <2>1, <2>2
<1>6. CASE Works
  <2>1. proc = "run" /\ proc' = "run" /\ out' = out /\ opt' = opt /\ Written' = Written
    BY <1>6, QuietWritten DEF Works, EngineStep, Quiet, args
  <2>. QED
    BY <1>0, <2>1 DEF OutInPlace
<1>7. ASSUME NEW r \in Result, Tell(r) PROVE OutInPlace'
  <2>1. proc = "run" /\ opt' = opt /\ out = IF opt.stream THEN Written ELSE <<>>
    BY <1>0, <1>7 DEF Tell, EngineStep, OutInPlace, Told, args
  <2>2. CASE opt.stream
    <3>1. PICK e \in EventSet : e = ResultEv(r.line, r.status, r.src)
      BY EventsMade
    <3>2. Says(<<e>>, "run")
      BY <1>7, <2>2, <3>1 DEF Tell
    <3>3. out' = Append(Written, e) /\ proc' = "run"
      BY <1>0, <2>1, <2>2, <3>2, SaysLast
    <3>4. Written' = Append(Written, e)
      BY <1>0, <1>7, <3>1, WrittenAppends DEF Tell, Told
    <3>. QED
      BY <2>1, <2>2, <3>3, <3>4 DEF OutInPlace
  <2>3. CASE ~opt.stream
    BY <1>7, <2>1, <2>3 DEF Tell, OutInPlace
  <2>. QED
    BY <2>2, <2>3
<1>8. CASE Finishes
  <2>1. proc = "run" /\ opt' = opt /\ out = IF opt.stream THEN Written ELSE <<>>
    BY <1>0, <1>8 DEF Finishes, Finish, EngineStep, OutInPlace, args
  <2>2. Written' = Written \o Events(Warns)
    <3>1. results' = results \o Warns
      BY <1>8 DEF Finishes, Finish
    <3>. QED
      BY <1>0, <3>1, WarnsTyped, WrittenGrows
  <2>3. CASE opt.stream /\ Events(Warns) # <<>>
    <3>1. out' = out \o Events(Warns) /\ proc' = "run"
      BY <1>8, <2>3 DEF Finishes, Says
    <3>. QED
      BY <2>1, <2>2, <2>3, <3>1 DEF OutInPlace
  <2>4. CASE ~(opt.stream /\ Events(Warns) # <<>>)
    <3>1. out' = out /\ proc' = "run"
      BY <1>8, <2>1, <2>4 DEF Finishes
    <3>2. opt.stream => Written' = Written
      <4>1. Written \o <<>> = Written
        BY <1>0, PageLines, ConcatEmptySeq
      <4>. QED
        BY <2>2, <2>4, <4>1
    <3>. QED
      BY <2>1, <3>1, <3>2 DEF OutInPlace
  <2>. QED
    BY <2>3, <2>4
<1>9. CASE GivesUp
  <2>1. UNCHANGED vars /\ phase = "aborted" /\ Says(<<AbortEv("E_SESSION")>>, "ended")
    BY <1>9 DEF GivesUp, EndRun
  <2>2. AbortEv("E_SESSION") \in EventSet /\ AbortEv("E_SESSION") = LastLine
    BY <2>1, EventsMade DEF LastLine, AbortCodes
  <2>. QED
    BY <1>1, <2>1, <2>2
<1>10. CASE Closes
  <2>1. UNCHANGED vars /\ phase = "done" /\ proc = "run"
    BY <1>10 DEF Closes, EndRun
  <2>2. CASE opt.stream
    <3>1. Says(<<DoneLine>>, "ended") /\ DoneLine \in EventSet /\ DoneLine = LastLine
      BY <1>0, <1>10, <2>1, <2>2, DoneMade DEF Closes, LastLine
    <3>. QED
      BY <1>1, <2>1, <3>1
  <2>3. CASE ~opt.stream
    <3>1. out' = out /\ out = <<>> /\ proc' = "print"
      BY <1>0, <1>10, <2>1, <2>3 DEF Closes, OutInPlace
    <3>2. Len(out) = 0 /\ Len(Written) \in Nat
      BY <1>0, <3>1, PageLines, LenProperties, EmptySeq
    <3>3. Len(out') <= Len(Written') /\ \A i \in 1..Len(out') : out'[i] = Written'[i]
      BY <2>1, <3>1, <3>2, StillWritten
    <3>. QED
      BY <3>1, <3>3 DEF OutInPlace
  <2>. QED
    BY <2>2, <2>3
<1>11. CASE Copies
  <2>1. UNCHANGED vars /\ proc = "print" /\ phase = "done"
    BY <1>0, <1>11 DEF Copies, PrintLine, ProcInPlace
  <2>2. PICK e \in EventSet : e = Page[Len(out) + 1]
    BY <1>0, <1>11, CopiedTyped
  <2>3. CASE /\ Len(out) < Len(Written) /\ e = Written[Len(out) + 1]
             /\ Len(out) + 1 # Len(Page)
    <3>1. Says(<<e>>, "print")
      BY <1>11, <2>2, <2>3 DEF Copies
    <3>2. PICK m \in Nat : m = Len(out)
      BY <1>0, <3>1, SaysLast
    <3>3. /\ proc' = "print" /\ Len(out') = m + 1 /\ out'[m + 1] = e
          /\ \A i \in 1..m : out'[i] = out[i]
      BY <1>0, <3>1, <3>2, SaysLast
    <3>4. PICK k \in Nat : k = Len(Written) /\ m < k
      BY <1>0, <2>3, <3>2, PageLines
    <3>5. \A i \in 1..m : out[i] = Written[i]
      BY <1>0, <2>1, <3>2 DEF OutInPlace
    <3>6. Len(out') <= k /\ \A i \in 1..(m + 1) : out'[i] = Written[i]
      <4>1. \A i \in 1..(m + 1) : i \in 1..m \/ i = m + 1
        OBVIOUS
      <4>. QED
        BY <2>3, <3>2, <3>3, <3>4, <3>5, <4>1
    <3>7. Written' = Written
      BY <2>1, StillWritten
    <3>8. Len(out') <= Len(Written') /\ \A i \in 1..Len(out') : out'[i] = Written'[i]
      BY <3>3, <3>4, <3>6, <3>7
    <3>. QED
      BY <3>3, <3>8 DEF OutInPlace
  <2>4. CASE Len(out) + 1 = Len(Page) /\ e = DoneLine
    <3>1. Says(<<e>>, "ended")
      BY <1>11, <2>2, <2>4 DEF Copies
    <3>2. e = LastLine
      BY <2>1, <2>4 DEF LastLine
    <3>. QED
      BY <1>1, <2>1, <3>1, <3>2
  <2>. QED
    BY <1>0, <1>11, <2>2, <2>3, <2>4, CopiedTyped
<1>12. CASE Exit
  <2>1. UNCHANGED vars /\ proc = "ended" /\ proc' = "exited" /\ out' = out
    BY <1>12 DEF Exit
  <2>. QED
    BY <1>0, <2>1, StillWritten DEF OutInPlace
<1>13. CASE Dies
  BY <1>13 DEF Dies, OutInPlace
<1>14. CASE ReaderLeaves
  BY <1>2, <1>14 DEF ReaderLeaves
<1>15. CASE UNCHANGED localVars
  BY <1>2, <1>15 DEF localVars
<1>. QED
  BY <1>0, <1>3, <1>4, <1>5, <1>6, <1>7, <1>8, <1>9, <1>10, <1>11, <1>12, <1>13, <1>14, <1>15, LocalCases

-----------------------------------------------------------------------------
(* The invariant holds.                                                    *)

LEMMA InitLocal ==
  ASSUME LocalInit
  PROVE  LocalInv
<1>0. IInv /\ TypeOK
  BY InitInv DEF LocalInit, IInv
<1>1. /\ results = <<>> /\ keys = <<>> /\ buttons = <<>> /\ released = <<>>
      /\ phase = "preflight" /\ line = 1 /\ down = {} /\ lost = {}
      /\ totals = [ok |-> 0, err |-> 0, skip |-> 0]
      /\ proc = "start" /\ out = <<>> /\ seen = 0
  BY DEF LocalInit, Init
<1>2. LocalTyped
  <2>1. platform \in {"darwin", "windows", "other"} /\ reader \in BOOLEAN
    BY Zenon DEF LocalInit
  <2>. QED
    BY <1>1, <2>1 DEF LocalTyped
<1>3. ProcInPlace
  BY <1>1 DEF ProcInPlace
<1>4. UnreadInPlace
  BY <1>1 DEF UnreadInPlace, Unread
<1>5. ResultsTell
  BY <1>1 DEF ResultsTell
<1>6. HeldInBounds
  <2>1. Taken = 0 /\ LineStarts /\ phase # "kd"
    BY <1>1 DEF Taken, LineStarts
  <2>2. (line - 1) * KeysPerLine = 0
    BY <1>1, LimitsAssumption
  <2>. QED
    BY <2>1, <2>2 DEF HeldInBounds
<1>7. PICK s \in Seq(EventSet) : s = <<StartEv>> /\ Written = s /\ DOMAIN s = {1} /\ s[1] = StartEv
  <2>1. <<StartEv>> \in Seq(EventSet) /\ DOMAIN <<StartEv>> = {1} /\ <<StartEv>>[1] = StartEv
    BY EventsMade
  <2>. QED
    BY <1>0, <1>1, <2>1, StartWritten
<1>8. WrittenCounts
  <2>1. ASSUME NEW G, StartEv \notin G PROVE Among(s, G) = 0
    <3>1. {i \in DOMAIN s : s[i] \in G} = {}
      BY <1>7, <2>1
    <3>. QED
      BY <3>1, FS_EmptySet DEF Among
  <2>2. Among(s, LineSort) = 0
    BY <2>1 DEF LineSort, IsLine, StartEv
  <2>3. ASSUME NEW S PROVE Among(s, CountSort(S)) = 0
    BY <2>1 DEF CountSort, IsResult, StartEv
  <2>4. Among(s, ReleaseSort) = 0
    BY <2>1 DEF ReleaseSort, IsResult, StartEv
  <2>5. Contract!LinesDone(s) = 0 /\ Contract!LateWarns(s) = 0
    BY <2>2, <2>4, Sorts
  <2>6. \A S : Contract!Counted(s, S) = 0
    BY <2>3, Sorts
  <2>7. Reported = 0
    BY <1>1 DEF Reported
  <2>8. Contract!TrueDone(s) = DoneLine
    BY <1>1, <2>6 DEF Contract!TrueDone, Contract!DoneEv, DoneLine, DoneEv
  <2>. QED
    BY <1>7, <2>5, <2>7, <2>8 DEF WrittenCounts
<1>9. WrittenFollows
  <2>1. SubSeq(s, 1, 1 - 1) = <<>>
    OBVIOUS
  <2>2. Contract!Follows(<<>>, StartEv)
    BY DEF Contract!Follows, Contract!StartEv, StartEv
  <2>3. Contract!Follows(SubSeq(s, 1, 1 - 1), s[1])
    BY <1>7, <2>1, <2>2
  <2>. QED
    BY <1>7, <2>3 DEF WrittenFollows, Keeps
<1>10. OutInPlace
  BY <1>1 DEF OutInPlace
<1>. QED
  BY <1>0, <1>2, <1>3, <1>4, <1>5, <1>6, <1>8, <1>9, <1>10 DEF LocalInv

\* The process around the engine leaves the engine's invariant alone.
LEMMA EngineKept ==
  ASSUME IInv, [LocalNext]_localVars
  PROVE  [Next]_vars /\ IInv'
<1>1. [Next]_vars
  BY StepCases
<1>. QED
  BY <1>1, TypeStep, OwnedStep, ControlStep, StoppedStep, ResultsStep, TotalsStep, HeldStep,
     OwnKeysStep DEF IInv

\* The inductive invariant of a local run: it holds for every program, option,
\* platform and reader, in both output modes.
THEOREM LocalInvariant == LocalSpec => []LocalInv
<1>1. LocalInv /\ [LocalNext]_localVars => LocalInv'
  <2>. SUFFICES ASSUME LocalInv, [LocalNext]_localVars PROVE LocalInv'
    OBVIOUS
  <2>1. /\ IInv /\ ResultsTell /\ HeldInBounds /\ WrittenCounts /\ WrittenFollows
        /\ [Next]_vars /\ IInv'
    BY EngineKept DEF LocalInv
  <2>2. LocalTyped' /\ ProcInPlace' /\ UnreadInPlace' /\ OutInPlace'
    BY <2>1, KeepTyped, KeepProcInPlace, KeepUnreadInPlace, KeepOutInPlace
  <2>3. ResultsTell'
    BY <2>1, KeepResultsTell
  <2>4. HeldInBounds'
    BY <2>1, KeepHeldInBounds
  <2>5. WrittenCounts'
    BY <2>1, KeepWrittenCounts
  <2>6. WrittenFollows'
    BY <2>1, KeepWrittenFollows
  <2>. QED
    BY <2>1, <2>2, <2>3, <2>4, <2>5, <2>6 DEF LocalInv
<1>. QED
  BY InitLocal, <1>1, PTL DEF LocalSpec

\* A --jsonl run whose reader has left runs at most the line it is in: the
\* write that fails in OnResult cancels it, and every later line is skipped.
THEOREM OneLineUnread == LocalSpec => []AtMostOneLineUnread
<1>1. LocalInv => AtMostOneLineUnread
  <2>. SUFFICES ASSUME LocalInv PROVE AtMostOneLineUnread
    OBVIOUS
  <2>. DEFINE U == {i \in (seen + 1)..Len(out) : opt.stream /\ IsLine(out[i]) /\ out[i].status # "skip"}
  <2>1. CASE U = {}
    <3>1. Cardinality(U) = 0
      BY <2>1, FS_EmptySet
    <3>. QED
      BY <3>1 DEF AtMostOneLineUnread
  <2>2. CASE U # {}
    <3>1. PICK i \in U : TRUE
      BY <2>2
    <3>2. \A j \in U : j = i
      BY <3>1 DEF LocalInv, UnreadInPlace, Unread, Executed
    <3>3. U = {i}
      BY <3>1, <3>2
    <3>4. Cardinality(U) = 1
      BY <3>3, FS_Singleton
    <3>. QED
      BY <3>4 DEF AtMostOneLineUnread
  <2>. QED
    BY <2>1, <2>2
<1>. QED
  BY LocalInvariant, <1>1, PTL

\* A process that exits by itself has left no input down, unless a release
\* failed; and one that exits with an abort code has run no line at all.
THEOREM ExitIsClean == LocalSpec => []ExitLeavesNothingDown
<1>1. LocalInv => ExitLeavesNothingDown
  <2>. SUFFICES ASSUME LocalInv, proc = "exited"
                PROVE  /\ lost = {} => down = {}
                       /\ code \notin {0, 1} => down = {} /\ lost = {} /\ results = <<>>
    BY DEF ExitLeavesNothingDown
  <2>0. IInv /\ ProcInPlace /\ ResultsInPlace
    BY DEF LocalInv, IInv
  <2>1. phase \in {"preflight", "aborted", "done"}
    BY <2>0 DEF ProcInPlace
  <2>2. CASE phase \in {"preflight", "aborted"}
    BY <2>0, <2>2 DEF ProcInPlace, ResultsInPlace
  <2>3. CASE phase = "done"
    <3>1. code \in {0, 1}
      BY <2>0, <2>3 DEF ProcInPlace
    <3>2. /\ flags = <<>> /\ chord = <<>> /\ keys = <<>> /\ buttons = <<>> /\ OwnButton = {}
      BY <2>0, <2>3 DEF IInv, ControlInPlace, BetweenOps, OwnButton
    <3>3. lost = {} => down = {}
      BY <2>0, <3>2 DEF IInv, EveryInputOwned, HeldInputs, InputsOf, ToSet
    <3>. QED
      BY <3>1, <3>3
  <2>. QED
    BY <2>1, <2>2, <2>3
<1>. QED
  BY LocalInvariant, <1>1, PTL

-----------------------------------------------------------------------------
(* A local run keeps the contract.                                         *)

\* What a caller sees of a process that goes on running.
Busy == prog' = prog /\ opt' = opt /\ code' = code /\ Alive /\ Alive'

LEMMA ArgsStay ==
  ASSUME IInv, [Next]_vars
  PROVE  prog' = prog /\ opt' = opt
<1>1. CASE Quiet
  BY <1>1 DEF Quiet, args
<1>2. CASE Finish
  BY <1>2 DEF Finish, args
<1>3. CASE Reports
  BY <1>3, Tells DEF Told, args
<1>. QED
  BY <1>1, <1>2, <1>3, StepQuiet

\* An event that may follow is a step of the contract.
LEMMA FollowsIsStep ==
  ASSUME Busy, out \in Seq(EventSet), NEW e, Contract!Follows(out, e), out' = out \o <<e>>
  PROVE  Contract!Next
<1>1. Contract!Prints(<<e>>)
  BY DEF Contract!Prints, Busy
<1>2. CASE out = <<>> /\ e = Contract!StartEv
  <2>1. Contract!Running
    BY <1>2 DEF Contract!Running, Contract!Open, Busy
  <2>2. Contract!Start
    BY <1>1, <1>2, <2>1 DEF Contract!Start
  <2>. QED
    BY <2>2 DEF Contract!Next
<1>3. CASE ~(out = <<>> /\ e = Contract!StartEv)
  <2>0. Contract!Started
    BY <1>3 DEF Contract!Started, Contract!Running, Contract!Follows, Busy
  <2>1. CASE ~Contract!AllDone(out) /\ e \in Contract!NextLine(out)
    <3>1. Contract!Line
      BY <1>1, <2>0, <2>1 DEF Contract!Line
    <3>. QED
      BY <3>1 DEF Contract!Next
  <2>2. CASE Contract!FailedLast(out) /\ e \in Contract!Extra(out)
    <3>1. Contract!ExtraCapture
      BY <1>1, <2>0, <2>2 DEF Contract!ExtraCapture
    <3>. QED
      BY <3>1 DEF Contract!Next
  <2>3. ASSUME Contract!AllDone(out), Contract!LateWarns(out) + 1 <= MaxLines * KeysPerLine,
               NEW l \in 1..Len(prog), e = Contract!ResultEv(l, "warn", "release")
        PROVE  Contract!Next
    <3>1. [i \in 1..1 |-> l] \in [1..1 -> 1..Len(prog)]
      OBVIOUS
    <3>2. Contract!Warns([i \in 1..1 |-> l]) = <<e>>
      BY <2>3 DEF Contract!Warns
    <3>3. Contract!AutoRelease(1)
      BY <1>1, <2>0, <2>3, <3>1, <3>2 DEF Contract!AutoRelease
    <3>4. 1 \in 1..(MaxLines * KeysPerLine)
      <4>1. Contract!LateWarns(out) \in Nat
        BY CountsTyped
      <4>2. PICK b \in Nat : b = MaxLines * KeysPerLine
        BY LimitsAssumption
      <4>. QED
        BY <2>3, <4>1, <4>2
    <3>. QED
      BY <3>3, <3>4 DEF Contract!Next
  <2>4. ASSUME Contract!NoResultYet(out), NEW c \in Contract!AbortCodes, e = Contract!AbortEv(c)
        PROVE  Contract!Next
    <3>1. Contract!Abort
      BY <1>1, <2>0, <2>4 DEF Contract!Abort, Contract!Started
    <3>. QED
      BY <3>1 DEF Contract!Next
  <2>5. CASE Contract!AllDone(out) /\ e = Contract!TrueDone(out)
    <3>1. Contract!Done
      BY <1>1, <2>0, <2>5 DEF Contract!Done
    <3>. QED
      BY <3>1 DEF Contract!Next
  <2>6. CASE e = Contract!UnknownEv
    <3>1. (IF out = <<>> THEN <<Contract!StartEv>> ELSE <<>>) \o <<e>> = <<e>>
      <4>1. (IF out = <<>> THEN <<Contract!StartEv>> ELSE <<>>) = <<>>
        BY <2>0 DEF Contract!Started
      <4>2. <<>> \o <<e>> = <<e>>
        OBVIOUS
      <4>. QED
        BY <4>1, <4>2
    <3>2. Contract!DoneUnknown
      BY <1>1, <2>0, <2>6, <3>1 DEF Contract!DoneUnknown, Contract!Started
    <3>. QED
      BY <3>2 DEF Contract!Next
  <2>. QED
    BY <1>3, <2>1, <2>2, <2>3, <2>4, <2>5, <2>6 DEF Contract!Follows
<1>. QED
  BY <1>2, <1>3

\* A process that is busy and prints nothing changes nothing a caller sees.
LEMMA BusyIsStutter ==
  ASSUME Busy, out' = out
  PROVE  UNCHANGED Contract!vars
BY DEF Contract!vars, Busy

\* An abort line, before any result.
LEMMA AbortIsStep ==
  ASSUME Busy, out \in {<<>>, <<StartEv>>}, NEW c \in AbortCodes, out' = out \o <<AbortEv(c)>>
  PROVE  Contract!Next
<1>1. Contract!Prints(<<Contract!AbortEv(c)>>)
  BY DEF Contract!Prints, Contract!AbortEv, AbortEv, Busy
<1>2. Contract!NoResultYet(out) /\ Contract!Open(out)
  <2>1. CASE out = <<>>
    BY <2>1 DEF Contract!NoResultYet, Contract!Open
  <2>2. CASE out = <<StartEv>>
    <3>1. DOMAIN out = {1} /\ Len(out) = 1 /\ out[1] = StartEv
      BY <2>2
    <3>. QED
      BY <3>1 DEF Contract!NoResultYet, Contract!Open, Contract!StartEv, StartEv, Contract!Ends
  <2>. QED
    BY <2>1, <2>2
<1>3. Contract!Running
  BY <1>2 DEF Contract!Running, Busy
<1>4. Contract!Abort
  BY <1>1, <1>2, <1>3 DEF Contract!Abort, Contract!AbortCodes, AbortCodes
<1>. QED
  BY <1>4 DEF Contract!Next

\* The done line may follow the lines and warns of a run that is done.
LEMMA DoneFollows ==
  ASSUME LocalInv, phase = "done"
  PROVE  Contract!Follows(Written, DoneLine)
<1>0. TypeOK /\ ResultsInPlace /\ WrittenCounts /\ line \in Nat \ {0} /\ prog \in Seq(Op)
  BY ProgramsAssumption DEF LocalInv, IInv, TypeOK
<1>1. Reported = Len(prog)
  <2>1. line = Len(prog) + 1 /\ Len(prog) \in Nat
    BY <1>0, LenProperties DEF ResultsInPlace
  <2>. QED
    BY <2>1 DEF Reported
<1>2. Contract!AllDone(Written) /\ DoneLine = Contract!TrueDone(Written)
  BY <1>0, <1>1 DEF Contract!AllDone, WrittenCounts
<1>3. Written # <<>> /\ Contract!Open(Written)
  BY <1>0, WrittenOpen
<1>. QED
  BY <1>2, <1>3 DEF Contract!Follows

\* All the warns at once, as a streamed run prints them.
LEMMA WarnsAreStep ==
  ASSUME LocalInv, Busy, Finish, out = Written, Events(Warns) # <<>>,
         out' = out \o Events(Warns)
  PROVE  Contract!Next
<1>0. TypeOK /\ IInv /\ HeldInBounds /\ WrittenCounts /\ phase # "done"
  BY DEF LocalInv, IInv, Finish
<1>1. PICK k \in Nat : k = Len(released) /\ DOMAIN released = 1..k
  BY <1>0, Warned
<1>. DEFINE ls == [i \in 1..k |-> released[i].line]
<1>2. ls \in [1..k -> 1..Len(prog)]
  BY <1>0, <1>1, ReleasedInBounds
<1>3. DOMAIN ls = 1..k /\ \A i \in 1..k : ls[i] = released[i].line
  OBVIOUS
<1>. HIDE DEF ls
<1>4. Events(Warns) = Contract!Warns(ls)
  <2>1. DOMAIN Warns = 1..k
    BY <1>1 DEF Warns
  <2>2. ASSUME NEW i \in 1..k
        PROVE  ResultEv(Warns[i].line, Warns[i].status, Warns[i].src)
                 = Contract!ResultEv(ls[i], "warn", "release")
    <3>1. Warns[i] = [line |-> released[i].line, status |-> "warn", src |-> "release"]
      BY <1>1 DEF Warns
    <3>2. Warns[i].line = released[i].line /\ Warns[i].status = "warn" /\ Warns[i].src = "release"
      BY <3>1
    <3>. QED
      BY <1>3, <3>2 DEF ResultEv, Contract!ResultEv
  <2>3. Events(Warns) = [i \in 1..k |-> ResultEv(Warns[i].line, Warns[i].status, Warns[i].src)]
    BY <2>1 DEF Events
  <2>4. Contract!Warns(ls) = [i \in 1..k |-> Contract!ResultEv(ls[i], "warn", "release")]
    BY <1>3 DEF Contract!Warns
  <2>. QED
    BY <2>2, <2>3, <2>4
<1>5. k # 0
  <2>1. /\ Warns \in Seq(Result) /\ Events(Warns) \in Seq(EventSet)
        /\ Len(Events(Warns)) = Len(Warns)
    BY <1>0, WarnsTyped, EventsOf
  <2>2. Len(Warns) = k
    <3>1. DOMAIN Warns = 1..k
      BY <1>1 DEF Warns
    <3>. QED
      BY <2>1, <3>1, LenProperties
  <2>. QED
    BY <2>1, <2>2, EmptySeq
<1>6. /\ Contract!LinesDone(out) = Len(prog) /\ Contract!LateWarns(out) = 0
      /\ k <= MaxLines * KeysPerLine /\ MaxLines * KeysPerLine \in Nat
  BY <1>0, <1>1, ReleasedInBounds DEF WrittenCounts
<1>7. Contract!Started /\ Contract!AllDone(out)
  BY <1>0, <1>6, WrittenOpen DEF Contract!Started, Contract!Running, Contract!AllDone, Busy
<1>8. Contract!Prints(Contract!Warns(ls))
  BY <1>4 DEF Contract!Prints, Busy
<1>9. Contract!AutoRelease(k)
  BY <1>2, <1>6, <1>7, <1>8 DEF Contract!AutoRelease
<1>10. k \in 1..(MaxLines * KeysPerLine)
  BY <1>5, <1>6
<1>. QED
  BY <1>9, <1>10 DEF Contract!Next

\* A process may die at any time.
LEMMA DeathIsStep ==
  ASSUME Alive, proc' = "killed", prog' = prog, opt' = opt, UNCHANGED <<out, code>>
  PROVE  Contract!Next
<1>1. ~Alive'
  BY DEF Alive
<1>2. Contract!Killed
  BY <1>1 DEF Contract!Killed
<1>. QED
  BY <1>2 DEF Contract!Next

\* The exit code is the one the last line stands for.
LEMMA ExitIsStep ==
  ASSUME LocalInv, Exit
  PROVE  Contract!Next
<1>0. TotalsInPlace /\ OutInPlace /\ ProcInPlace /\ TypeOK
  BY DEF LocalInv, IInv
<1>1. /\ proc = "ended" /\ proc' = "exited" /\ UNCHANGED <<prog, opt, out>>
      /\ code' = CASE phase = "preflight" -> AbortExit("E_VALIDATE")
                   [] phase = "aborted"   -> AbortExit("E_SESSION")
                   [] phase = "done"      -> IF exit = "failure" THEN 1 ELSE 0
  BY DEF Exit, vars, args
<1>2. out # <<>> /\ out[Len(out)] = LastLine /\ phase \in {"preflight", "aborted", "done"}
  BY <1>0, <1>1 DEF OutInPlace, ProcInPlace
<1>3. Contract!Ends(LastLine) /\ code' = Contract!ExitFor(LastLine)
  <2>1. CASE phase = "preflight"
    <3>1. LastLine = [ev |-> "abort", code |-> "E_VALIDATE"] /\ code' = 2
      BY <1>1, <2>1 DEF LastLine, AbortEv, AbortExit
    <3>. QED
      BY <3>1 DEF Contract!Ends, Contract!ExitFor, Contract!AbortExit
  <2>2. CASE phase = "aborted"
    <3>1. LastLine = [ev |-> "abort", code |-> "E_SESSION"] /\ code' = 4
      BY <1>1, <2>2 DEF LastLine, AbortEv, AbortExit
    <3>. QED
      BY <3>1 DEF Contract!Ends, Contract!ExitFor, Contract!AbortExit
  <2>3. CASE phase = "done"
    <3>1. LastLine = DoneLine /\ DoneLine.ev = "done" /\ DoneLine.err = totals.err
      BY <2>3 DEF LastLine, DoneLine, DoneEv
    <3>2. exit = "failure" <=> totals.err > 0
      BY <1>0, <2>3 DEF TotalsInPlace
    <3>3. code' = IF totals.err > 0 THEN 1 ELSE 0
      BY <1>1, <2>3, <3>2
    <3>. QED
      BY <3>1, <3>3 DEF Contract!Ends, Contract!ExitFor
  <2>. QED
    BY <1>2, <2>1, <2>2, <2>3
<1>4. Alive /\ ~Alive'
  BY <1>1 DEF Alive
<1>5. ~Contract!Open(out)
  BY <1>2, <1>3 DEF Contract!Open
<1>6. Contract!Exit
  BY <1>1, <1>2, <1>3, <1>4, <1>5 DEF Contract!Exit
<1>. QED
  BY <1>6 DEF Contract!Next

\* A plain run copies what a streamed one says as it goes.
LEMMA CopyFollows ==
  ASSUME LocalInv, Copies
  PROVE  /\ out \in Seq(EventSet) /\ Page[Len(out) + 1] \in EventSet
         /\ Contract!Follows(out, Page[Len(out) + 1])
<1>0. /\ IInv /\ TypeOK /\ LocalTyped /\ OutInPlace /\ ProcInPlace /\ WrittenFollows
      /\ proc = "print" /\ phase = "done"
  BY DEF LocalInv, IInv, ProcInPlace, Copies, PrintLine
<1>1. PICK w \in Seq(EventSet) : w = Written
  BY <1>0, PageLines
<1>2. PICK o \in Seq(EventSet) : o = out
  BY <1>0 DEF LocalTyped
<1>3. PICK m \in Nat : m = Len(o)
  BY LenProperties
<1>4. PICK k \in Nat : k = Len(w) /\ DOMAIN w = 1..k
  BY LenProperties
<1>5. m <= k /\ \A i \in 1..m : o[i] = w[i]
  BY <1>0, <1>1, <1>2, <1>3, <1>4 DEF OutInPlace
<1>6. CASE m < k /\ Page[m + 1] = w[m + 1]
  <2>1. m + 1 \in DOMAIN w /\ (m + 1) - 1 = m
    BY <1>4, <1>6
  <2>2. Contract!Follows(SubSeq(w, 1, m), w[m + 1])
    <3>1. Contract!Follows(SubSeq(w, 1, (m + 1) - 1), w[m + 1])
      BY <1>0, <1>1, <2>1 DEF WrittenFollows, Keeps
    <3>. QED
      BY <2>1, <3>1
  <2>3. SubSeq(w, 1, m) = o
    <3>1. \A i \in 1..m : w[i] \in EventSet
      <4>1. 1..m \subseteq 1..Len(w)
        BY <1>4, <1>5
      <4>. QED
        BY <4>1, ElementOfSeq
    <3>2. /\ SubSeq(w, 1, m) \in Seq(EventSet)
          /\ Len(SubSeq(w, 1, m)) = IF 1 <= m THEN m - 1 + 1 ELSE 0
          /\ \A i \in 1..(m - 1 + 1) : SubSeq(w, 1, m)[i] = w[1 + i - 1]
      BY <3>1, SubSeqProperties
    <3>3. Len(SubSeq(w, 1, m)) = m /\ \A i \in 1..m : SubSeq(w, 1, m)[i] = w[i]
      BY <3>2
    <3>. QED
      BY <1>3, <1>5, <3>2, <3>3, SeqEqual
  <2>. QED
    BY <1>0, <1>2, <1>3, <1>6, <2>2, <2>3, CopiedTyped
<1>7. CASE m = k /\ Page[m + 1] = DoneLine
  <2>1. o = w
    BY <1>3, <1>4, <1>5, <1>7, SeqEqual
  <2>2. Contract!Follows(Written, DoneLine)
    BY <1>0, DoneFollows
  <2>. QED
    BY <1>0, <1>1, <1>2, <1>3, <1>7, <2>1, <2>2, DoneMade
<1>. QED
  BY <1>0, <1>1, <1>2, <1>3, <1>4, <1>6, <1>7, CopiedTyped

\* Every step is one of the contract's, or says nothing.
LEMMA StepKeepsContract ==
  ASSUME LocalInv, [LocalNext]_localVars
  PROVE  [Contract!Next]_Contract!vars
<1>0. /\ IInv /\ TypeOK /\ LocalTyped /\ ProcInPlace /\ OutInPlace /\ ResultsInPlace
      /\ ResultsTell /\ WrittenCounts /\ WrittenFollows /\ [Next]_vars
      /\ out \in Seq(EventSet)
  BY EngineKept DEF LocalInv, IInv, LocalTyped
<1>1. prog' = prog /\ opt' = opt
  BY <1>0, ArgsStay
<1>2. ASSUME code' = code, Alive, proc' \in {"backend", "run", "print", "ended"}
      PROVE  Busy
  BY <1>1, <1>2 DEF Busy, Alive
<1>. USE DEF Silently, io
<1>3. CASE Greets
  <2>1. out = <<>> /\ code' = code /\ Alive /\ proc' = "backend"
    BY <1>0, <1>3 DEF Greets, Begin, OutInPlace, Alive, Says
  <2>2. Busy
    BY <1>2, <2>1
  <2>3. CASE opt.stream
    <3>1. out' = out \o <<StartEv>>
      BY <1>3, <2>3 DEF Greets, Says
    <3>2. Contract!Follows(out, StartEv)
      BY <2>1 DEF Contract!Follows, Contract!StartEv, StartEv
    <3>. QED
      BY <1>0, <2>2, <3>1, <3>2, FollowsIsStep
  <2>4. CASE ~opt.stream
    BY <1>3, <2>2, <2>4, BusyIsStutter DEF Greets
  <2>. QED
    BY <2>3, <2>4
<1>4. CASE Opens
  <2>1. out' = out /\ code' = code /\ Alive /\ proc' = "run"
    BY <1>4 DEF Opens, OpenBackend, Alive
  <2>. QED
    BY <1>2, <2>1, BusyIsStutter
<1>5. CASE Refuses
  <2>1. /\ code' = code /\ Alive /\ proc' = "ended" /\ out' = out \o <<AbortEv("E_VALIDATE")>>
        /\ out \in {<<>>, <<StartEv>>}
    BY <1>0, <1>5 DEF Refuses, OpenBackend, Alive, Says, OutInPlace
  <2>. QED
    BY <1>2, <2>1, AbortIsStep DEF AbortCodes
<1>6. CASE Works
  <2>1. out' = out /\ code' = code /\ Alive /\ proc' = "run"
    BY <1>6 DEF Works, EngineStep, Alive
  <2>. QED
    BY <1>2, <2>1, BusyIsStutter
<1>7. ASSUME NEW r \in Result, Tell(r)
      PROVE  [Contract!Next]_Contract!vars
  <2>1. proc = "run" /\ code' = code /\ Alive /\ Told(r)
    BY <1>7 DEF Tell, EngineStep, Alive
  <2>2. proc' = "run"
    BY <1>7, <2>1 DEF Tell, Says
  <2>3. Busy
    BY <1>2, <2>1, <2>2
  <2>4. CASE opt.stream
    <3>1. out = Written
      BY <1>0, <2>1, <2>4 DEF OutInPlace
    <3>2. out' = out \o <<ResultEv(r.line, r.status, r.src)>>
      BY <1>7, <2>4 DEF Tell, Says
    <3>3. Contract!Follows(Written, ResultEv(r.line, r.status, r.src))
      BY <1>0, <2>1, TellFollows
    <3>4. PICK e : e = ResultEv(r.line, r.status, r.src)
      OBVIOUS
    <3>. QED
      BY <1>0, <2>3, <3>1, <3>2, <3>3, <3>4, FollowsIsStep
  <2>5. CASE ~opt.stream
    BY <1>7, <2>3, <2>5, BusyIsStutter DEF Tell
  <2>. QED
    BY <2>4, <2>5
<1>8. CASE Finishes
  <2>1. proc = "run" /\ code' = code /\ Alive /\ Finish
    BY <1>8 DEF Finishes, EngineStep, Alive
  <2>2. proc' = "run"
    BY <1>8, <2>1 DEF Finishes, Says
  <2>3. Busy
    BY <1>2, <2>1, <2>2
  <2>4. CASE opt.stream /\ Events(Warns) # <<>>
    <3>1. out = Written
      BY <1>0, <2>1, <2>4 DEF OutInPlace
    <3>2. out' = out \o Events(Warns)
      BY <1>8, <2>4 DEF Finishes, Says
    <3>. QED
      BY <2>1, <2>3, <2>4, <3>1, <3>2, WarnsAreStep
  <2>5. CASE ~(opt.stream /\ Events(Warns) # <<>>)
    BY <1>8, <2>3, <2>5, BusyIsStutter DEF Finishes
  <2>. QED
    BY <2>4, <2>5
<1>9. CASE GivesUp
  <2>1. /\ code' = code /\ Alive /\ proc = "run" /\ proc' = "ended" /\ phase = "aborted"
        /\ out' = out \o <<AbortEv("E_SESSION")>>
    BY <1>9 DEF GivesUp, EndRun, Alive, Says
  <2>2. Written = <<StartEv>>
    BY <1>0, <2>1, StartWritten DEF ResultsInPlace
  <2>3. out \in {<<>>, <<StartEv>>}
    BY <1>0, <2>1, <2>2 DEF OutInPlace
  <2>. QED
    BY <1>2, <2>1, <2>3, AbortIsStep DEF AbortCodes
<1>10. CASE Closes
  <2>1. code' = code /\ Alive /\ proc = "run" /\ proc' \in {"print", "ended"} /\ phase = "done"
    BY <1>10 DEF Closes, EndRun, Alive, Says
  <2>2. Busy
    BY <1>2, <2>1
  <2>3. CASE opt.stream
    <3>1. out = Written /\ out' = out \o <<DoneLine>>
      BY <1>0, <1>10, <2>1, <2>3 DEF OutInPlace, Closes, Says
    <3>2. Contract!Follows(out, DoneLine)
      BY <2>1, <3>1, DoneFollows
    <3>3. PICK e : e = DoneLine
      OBVIOUS
    <3>. QED
      BY <1>0, <2>2, <3>1, <3>2, <3>3, FollowsIsStep
  <2>4. CASE ~opt.stream
    BY <1>10, <2>2, <2>4, BusyIsStutter DEF Closes
  <2>. QED
    BY <2>3, <2>4
<1>11. CASE Copies
  <2>1. /\ code' = code /\ Alive /\ proc' \in {"print", "ended"}
        /\ out' = out \o <<Page[Len(out) + 1]>>
    BY <1>11 DEF Copies, PrintLine, Alive, Says
  <2>2. PICK e \in EventSet : e = Page[Len(out) + 1] /\ Contract!Follows(out, e)
    BY <1>11, CopyFollows
  <2>. QED
    BY <1>0, <1>2, <2>1, <2>2, FollowsIsStep
<1>12. CASE Exit
  BY <1>12, ExitIsStep
<1>13. CASE Dies
  BY <1>1, <1>13, DeathIsStep DEF Dies
<1>14. CASE ReaderLeaves
  BY <1>1, <1>14 DEF ReaderLeaves, Contract!vars, Alive
<1>15. CASE UNCHANGED localVars
  BY <1>1, <1>15 DEF localVars, Contract!vars, Alive
<1>. QED
  BY <1>0, <1>3, <1>4, <1>5, <1>6, <1>7, <1>8, <1>9, <1>10, <1>11, <1>12, <1>13, <1>14, <1>15, LocalCases

\* The local run refines RunContract: whatever fails in the run, whenever its
\* reader leaves and whether its output is streamed or printed at the end, what
\* it prints is one start, the results in order, and a last line whose totals
\* and exit code are those of the results above it.
THEOREM LocalRunKeepsContract == LocalSpec => KeepsContract
<1>1. LocalInit => Contract!Init
  <2>. SUFFICES ASSUME LocalInit PROVE Contract!Init
    OBVIOUS
  <2>1. prog \in Programs /\ opt \in Options /\ proc = "start" /\ out = <<>> /\ code = 0
    BY DEF LocalInit, Init
  <2>2. Len(prog) \in 0..MaxLines
    <3>1. prog \in Seq(Op) /\ Len(prog) <= MaxLines /\ MaxLines \in Nat
      BY <2>1, ProgramsAssumption, LimitsAssumption
    <3>. QED
      BY <3>1, LenProperties
  <2>3. opt.keepGoing \in BOOLEAN
    BY <2>1, ProgramsAssumption
  <2>. QED
    BY <2>1, <2>2, <2>3 DEF Contract!Init, Alive
<1>2. LocalInv /\ [LocalNext]_localVars => [Contract!Next]_Contract!vars
  BY StepKeepsContract
<1>. QED
  BY LocalInvariant, <1>1, <1>2, PTL DEF LocalSpec, KeepsContract, Contract!Spec
=============================================================================
