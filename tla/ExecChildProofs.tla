--------------------------- MODULE ExecChildProofs ---------------------------
(***************************************************************************)
(* Proofs about ExecChild: what an exec line says of its child, what it    *)
(* leaves running and what it gives of the output, for any cap and any     *)
(* output, on both platforms, in every order of the processes and the      *)
(* deadline.                                                               *)
(***************************************************************************)
EXTENDS ExecChild, SequenceTheorems, WellFoundedInduction, TLAPS

Returned == pc \in {"returned", "done"}

PhasesOK ==
  /\ plat \in {"darwin", "windows"}
  /\ noerr \in BOOLEAN /\ timedOut \in BOOLEAN
  /\ pc \in {"start", "assign", "wait", "reap", "read", "returned", "done"}
  /\ deadline \in {"off", "ticking", "fired"}
  /\ deadline # "off" => limited
  /\ timedOut => deadline = "fired"
  /\ child \in {"none", "running", "exited", "killed"}
  /\ pc = "start" => child = "none" /\ job = "none" /\ inJob = {}
  /\ pc = "assign" => child # "killed"
  /\ pc \in {"start", "assign"} => ~timedOut
  /\ pc \in {"assign", "wait", "reap"} => child # "none"
  /\ pc = "read" => child \in {"exited", "killed"}

\* Only a deadline that Exec has noticed kills the child; its Wait tells how it ended.
KilledInTime ==
  /\ child = "killed" => TimeIsUp
  /\ pc = "read" => waitErr \in {IF exit = 0 THEN "nil" ELSE "exit", "other"}

\* The job is closed when Exec returns, and what is in it goes with it.
JobOK ==
  /\ job \in {"none", "open", "closed"}
  /\ job = "none" => inJob = {}
  /\ job = "closed" <=> Returned /\ job # "none"
  /\ job = "closed" /\ "grand" \in inJob => grand # "running"
  /\ Returned => child # "running"

\* What Exec has returned about the child.
ResultOK ==
  Returned =>
    \/ result.is = "error" /\ (child = "none" \/ (waitErr = "other" /\ child = "exited"))
    \/ result.is = "timedout" /\ limited /\ deadline = "fired" /\ child \in {"exited", "killed"}
    \/ result.is = "exit" /\ child = "exited" /\ result.exit = exit

LineOK == Done => line = ExecLine

-----------------------------------------------------------------------------
\* The phases of Exec and of its child.
LEMMA PhasesStep ==
  ASSUME PhasesOK, [Next]_vars
  PROVE  PhasesOK'
<1>. USE DEF PhasesOK, given, procs, output
<1>1. CASE Expire
  BY <1>1 DEF Expire
<1>2. CASE Fork
  BY <1>2 DEF Fork
<1>3. CASE ChildExits
  BY <1>3 DEF ChildExits
<1>4. CASE GrandExits
  BY <1>4 DEF GrandExits
<1>5. CASE Writes
  BY <1>5 DEF Writes
<1>6. CASE Start
  BY <1>6 DEF Start
<1>7. CASE AssignToKillOnCloseJob
  BY <1>7 DEF AssignToKillOnCloseJob
<1>8. CASE WatchCtx
  BY <1>8 DEF WatchCtx, Killed
<1>9. CASE TimeoutCase
  BY <1>9 DEF TimeoutCase, Killed
<1>10. CASE Wait
  BY <1>10 DEF Wait, WaitEnds
<1>11. CASE Return
  BY <1>11 DEF Return, CloseJob, Killed
<1>12. CASE DoExec
  BY <1>12 DEF DoExec
<1>13. CASE UNCHANGED vars
  BY <1>13 DEF vars
<1>. QED
  BY <1>1, <1>2, <1>3, <1>4, <1>5, <1>6, <1>7, <1>8, <1>9, <1>10, <1>11, <1>12, <1>13 DEF Next

\* Who kills the child, and what Wait makes of its end.
LEMMA KilledStep ==
  ASSUME PhasesOK, KilledInTime, [Next]_vars
  PROVE  KilledInTime'
<1>. USE DEF PhasesOK, KilledInTime, TimeIsUp, given, procs, output
<1>1. CASE Expire
  BY <1>1 DEF Expire
<1>2. CASE Fork \/ ChildExits \/ GrandExits
  BY <1>2 DEF Fork, ChildExits, GrandExits
<1>3. CASE Writes
  BY <1>3 DEF Writes
<1>4. CASE Start
  BY <1>4 DEF Start
<1>5. CASE AssignToKillOnCloseJob
  BY <1>5 DEF AssignToKillOnCloseJob
<1>6. CASE WatchCtx
  BY <1>6 DEF WatchCtx, Killed
<1>7. CASE TimeoutCase
  BY <1>7 DEF TimeoutCase, Killed
<1>8. CASE Wait
  BY <1>8 DEF Wait, WaitEnds
<1>9. CASE Return
  BY <1>9 DEF Return, CloseJob, Killed
<1>10. CASE DoExec \/ UNCHANGED vars
  BY <1>10 DEF DoExec, vars
<1>. QED
  BY <1>1, <1>2, <1>3, <1>4, <1>5, <1>6, <1>7, <1>8, <1>9, <1>10 DEF Next

\* What is in the job when Exec returns, and after.
LEMMA JobStep ==
  ASSUME PhasesOK, JobOK, [Next]_vars
  PROVE  JobOK'
<1>. USE DEF PhasesOK, JobOK, Returned, given, procs, output
<1>1. CASE Expire
  BY <1>1 DEF Expire
<1>2. CASE Fork
  BY <1>2 DEF Fork
<1>3. CASE ChildExits \/ GrandExits
  BY <1>3 DEF ChildExits, GrandExits
<1>4. CASE Writes
  BY <1>4 DEF Writes
<1>5. CASE Start
  BY <1>5 DEF Start
<1>6. CASE AssignToKillOnCloseJob
  BY <1>6 DEF AssignToKillOnCloseJob
<1>7. CASE WatchCtx
  BY <1>7 DEF WatchCtx, Killed
<1>8. CASE TimeoutCase
  BY <1>8 DEF TimeoutCase, Killed
<1>9. CASE Wait
  BY <1>9 DEF Wait, WaitEnds
<1>10. CASE Return
  BY <1>10 DEF Return, CloseJob, Killed
<1>11. CASE DoExec \/ UNCHANGED vars
  BY <1>11 DEF DoExec, vars
<1>. QED
  BY <1>1, <1>2, <1>3, <1>4, <1>5, <1>6, <1>7, <1>8, <1>9, <1>10, <1>11 DEF Next

\* After Exec has returned, neither the child nor what is said of it changes.
LEMMA ResultStep ==
  ASSUME PhasesOK, KilledInTime, JobOK, ResultOK, [Next]_vars
  PROVE  ResultOK'
<1>. USE DEF PhasesOK, JobOK, ResultOK, Returned, given, procs, output
<1>1. CASE Expire
  BY <1>1 DEF Expire
<1>2. CASE Fork \/ ChildExits \/ GrandExits
  BY <1>2 DEF Fork, ChildExits, GrandExits
<1>3. CASE Writes
  BY <1>3 DEF Writes
<1>4. CASE Start
  BY <1>4 DEF Start
<1>5. CASE AssignToKillOnCloseJob \/ Wait
  BY <1>5 DEF AssignToKillOnCloseJob, Wait
<1>6. CASE WatchCtx \/ TimeoutCase
  BY <1>6 DEF WatchCtx, TimeoutCase
<1>7. CASE Return
  <2>1. UNCHANGED <<child, exit, deadline, waitErr, limited>>
    BY <1>7 DEF Return, CloseJob, Killed
  <2>2. child \in {"exited", "killed"} /\ pc = "read" /\ result' = Outcome
    BY <1>7 DEF Return
  <2>3. CASE TimeIsUp
    <3>1. result'.is = "timedout" /\ deadline = "fired"
      BY <2>2, <2>3 DEF Outcome, TimeIsUp
    <3>. QED
      BY <2>1, <2>2, <3>1
  <2>4. CASE ~TimeIsUp /\ waitErr = "other"
    BY <2>1, <2>2, <2>4 DEF Outcome, KilledInTime
  <2>5. CASE ~TimeIsUp /\ waitErr # "other"
    <3>1. result'.is = "exit" /\ result'.exit = IF waitErr = "exit" THEN exit ELSE 0
      BY <2>2, <2>5 DEF Outcome
    <3>2. child = "exited" /\ (waitErr # "exit" => exit = 0)
      BY <2>2, <2>5 DEF KilledInTime
    <3>. QED
      BY <2>1, <3>1, <3>2
  <2>. QED
    BY <2>3, <2>4, <2>5
<1>8. CASE DoExec \/ UNCHANGED vars
  BY <1>8 DEF DoExec, vars
<1>. QED
  BY <1>1, <1>2, <1>3, <1>4, <1>5, <1>6, <1>7, <1>8 DEF Next

\* The line is written once, from the result.
LEMMA LineStep ==
  ASSUME LineOK, [Next]_vars
  PROVE  LineOK'
<1>1. CASE DoExec
  BY <1>1 DEF DoExec, LineOK, ExecLine, given
<1>2. CASE Start \/ AssignToKillOnCloseJob \/ TimeoutCase \/ Wait \/ Return
  BY <1>2 DEF Start, AssignToKillOnCloseJob, TimeoutCase, Wait, Return, LineOK, Done
<1>3. CASE \/ Expire \/ Fork \/ ChildExits \/ GrandExits \/ Writes \/ WatchCtx \/ UNCHANGED vars
  <2>1. UNCHANGED <<pc, line, result, noerr>>
    BY <1>3 DEF Expire, Fork, ChildExits, GrandExits, Writes, WatchCtx, vars, given
  <2>. QED
    BY <2>1 DEF LineOK, Done, ExecLine
<1>. QED
  BY <1>1, <1>2, <1>3 DEF Next

-----------------------------------------------------------------------------

\* The five together are inductive: what is true of Exec and its child in every state.
LEMMA ExecInvariant == Spec => [](PhasesOK /\ KilledInTime /\ JobOK /\ ResultOK /\ LineOK)
<1>. DEFINE Inv == PhasesOK /\ KilledInTime /\ JobOK /\ ResultOK /\ LineOK
<1>1. Init => Inv
  BY DEF Init, PhasesOK, KilledInTime, JobOK, ResultOK, LineOK, Returned, Done
<1>2. Inv /\ [Next]_vars => Inv'
  BY PhasesStep, KilledStep, JobStep, ResultStep, LineStep
<1>. QED
  BY <1>1, <1>2, PTL DEF Spec

\* The verdict is about the child that ran, whichever of its end, the deadline and the end
\* of its output came first (Exec of both platforms, doExec).
THEOREM LineAlwaysSpeaksForTheChild == Spec => []LineSpeaksForTheChild
<1>1. PhasesOK /\ KilledInTime /\ JobOK /\ ResultOK /\ LineOK => LineSpeaksForTheChild
  <2>. SUFFICES ASSUME PhasesOK, ResultOK, LineOK, Done PROVE LineSpeaksForTheChild
    BY DEF LineSpeaksForTheChild
  <2>1. line = ExecLine
    BY DEF LineOK
  <2>2. CASE result.is = "error" /\ (child = "none" \/ (waitErr = "other" /\ child = "exited"))
    BY <2>1, <2>2 DEF ExecLine, LineSpeaksForTheChild
  <2>3. CASE result.is = "timedout" /\ limited /\ deadline = "fired" /\ child \in {"exited", "killed"}
    BY <2>1, <2>3 DEF ExecLine, LineSpeaksForTheChild
  <2>4. CASE result.is = "exit" /\ child = "exited" /\ result.exit = exit
    BY <2>1, <2>4 DEF ExecLine, LineSpeaksForTheChild
  <2>. QED
    BY <2>2, <2>3, <2>4 DEF ResultOK, Returned, Done
<1>. QED
  BY <1>1, ExecInvariant, PTL

\* When Exec has returned the child is gone, and on Windows what was in its job
\* (KILL_ON_JOB_CLOSE, windows/exec.go:105).
THEOREM NothingItOwnsIsEverLeft == Spec => []NothingItOwnsIsLeft
<1>1. PhasesOK /\ JobOK => NothingItOwnsIsLeft
  BY DEF PhasesOK, JobOK, Returned, NothingItOwnsIsLeft
<1>. QED
  BY <1>1, ExecInvariant, PTL

-----------------------------------------------------------------------------
(* The output: what is kept of it, and what decoding makes of what is kept. *)

Fits(n) == IF n > Cap THEN Cap ELSE n
Kept == Fits(Len(written))
Lesser(x, y) == IF x > y THEN y ELSE x

\* The cappedWriter holds what fits of what was written.
OutputOK ==
  /\ text \in Seq(Bytes) /\ Len(written) \in 0..Len(text)
  /\ written = SubSeq(text, 1, Len(written))
  /\ buf = SubSeq(written, 1, Kept)
  /\ truncated <=> Len(written) > Cap

\* Nobody has the child's stdout before it starts or once Wait is over.
QuietOK == pc \in {"start", "read", "returned", "done"} => child # "running" /\ ~holds

TextOK == Returned /\ result.is # "error" => result.stdout = Text

-----------------------------------------------------------------------------
(* TryDecode and DecodeCodePage, as the functions their LETs define.  The    *)
(* induction theorems of the library take a predicate; WFMin takes a set.    *)

\* A set of numbers that has 0 and each one's successor has them all.
LEMMA Induction ==
  ASSUME NEW S \in SUBSET Nat, 0 \in S, \A n \in S : n + 1 \in S
  PROVE  S = Nat
<1>. DEFINE Less == {p \in Nat \X Nat : p[1] < p[2]}
<1>1. IsWellFoundedOn(Less, Nat)
  <2>1. IsWellFoundedOn(OpToRel(<, Nat), Nat)
    BY NatLessThanWellFounded
  <2>2. OpToRel(<, Nat) = Less
    BY DEF OpToRel
  <2>. QED
    BY <2>1, <2>2
<1>. SUFFICES ASSUME Nat \ S # {} PROVE FALSE
  OBVIOUS
<1>2. PICK x \in Nat \ S : \A y \in Nat \ S : ~(<<y, x>> \in Less)
  BY <1>1, WFMin
<1>3. x # 0 /\ x - 1 \in Nat /\ <<x - 1, x>> \in Less
  OBVIOUS
<1>4. x - 1 \in S
  BY <1>2, <1>3
<1>. QED
  BY <1>2, <1>3, <1>4

\* The characters that b can begin with at i, and the one TryDecode takes.
Fit(b, i) == {s \in Spans : IsPrefix(s, SubSeq(b, i, Len(b)))}
First(b, i) == CHOOSE t \in Fit(b, i) : TRUE

\* TryDecode's parse at i, and what a whole parse is.
ParseAt(b, f, i) ==
  IF i > Len(b) THEN <<i = Len(b) + 1, <<>>>>
  ELSE IF Fit(b, i) = {} THEN <<FALSE, <<>>>>
       ELSE <<f[i + Len(First(b, i))][1], <<First(b, i)>> \o f[i + Len(First(b, i))][2]>>
Parses(b, f) == f = [i \in 1..Len(b) + 2 |-> ParseAt(b, f, i)]

\* The same of the scan; the least size of a valid character at i.
Sizes(b, i) == {n \in 1..4 : /\ i + n - 1 <= Len(b)
                             /\ TryDecode(SubSeq(b, i, i + n - 1))[1]}
Least(b, i) == CHOOSE k \in Sizes(b, i) : \A j \in Sizes(b, i) : k <= j
ScanAt(b, f, i) ==
  IF i > Len(b) THEN <<>>
  ELSE IF Sizes(b, i) = {} THEN <<Bad>> \o f[i + 1]
       ELSE TryDecode(SubSeq(b, i, i + Least(b, i) - 1))[2] \o f[i + Least(b, i)]
Scans(b, f) == f = [i \in 1..Len(b) + 1 |-> ScanAt(b, f, i)]

\* The character that is taken is one that fits.
LEMMA FirstIsASpan ==
  ASSUME NEW b, NEW i, Fit(b, i) # {}
  PROVE  First(b, i) \in Fit(b, i) /\ First(b, i) \in Spans /\ Len(First(b, i)) \in 1..2
<1>1. First(b, i) \in Fit(b, i)
  BY DEF First
<1>2. First(b, i) \in Spans
  BY <1>1 DEF Fit
<1>. QED
  BY <1>1, <1>2 DEF Spans

\* Of the sizes that fit there is a least one.
LEMMA LeastIsASize ==
  ASSUME NEW b, NEW i, Sizes(b, i) # {}
  PROVE  Least(b, i) \in Sizes(b, i) /\ \A j \in Sizes(b, i) : Least(b, i) <= j
<1>. DEFINE Z == Sizes(b, i)
<1>1. Z \subseteq 1..4 /\ Z # {}
  BY DEF Sizes
<1>. HIDE DEF Z
<1>2. \E k \in Z : \A j \in Z : k <= j
  <2>1. CASE 1 \in Z
    BY <1>1, <2>1
  <2>2. CASE 1 \notin Z /\ 2 \in Z
    BY <1>1, <2>2
  <2>3. CASE 1 \notin Z /\ 2 \notin Z /\ 3 \in Z
    BY <1>1, <2>3
  <2>4. CASE 1 \notin Z /\ 2 \notin Z /\ 3 \notin Z
    <3>1. \A k \in Z : k = 4
      BY <1>1, <2>4
    <3>2. PICK k \in Z : TRUE
      BY <1>1
    <3>3. \A j \in Z : k <= j
      BY <3>1
    <3>. QED
      BY <3>3
  <2>. QED
    BY <2>1, <2>2, <2>3, <2>4
<1>3. (CHOOSE k \in Z : \A j \in Z : k <= j) \in Z
      /\ \A j \in Z : (CHOOSE k \in Z : \A l \in Z : k <= l) <= j
  BY <1>2
<1>. QED
  BY <1>3 DEF Z, Least

\* What is parsed at i rests on what is parsed after i.
LEMMA ParseLooksAhead ==
  ASSUME NEW b, Len(b) \in Nat, NEW f, NEW g, NEW i \in 1..Len(b) + 2,
         \A j \in 1..Len(b) + 2 : j > i => f[j] = g[j]
  PROVE  ParseAt(b, f, i) = ParseAt(b, g, i)
<1>1. CASE i > Len(b) \/ Fit(b, i) = {}
  BY <1>1 DEF ParseAt
<1>2. CASE i <= Len(b) /\ Fit(b, i) # {}
  <2>. DEFINE j == i + Len(First(b, i))
  <2>0. PICK l \in 1..2 : l = Len(First(b, i))
    BY <1>2, FirstIsASpan
  <2>1. j \in 1..Len(b) + 2 /\ j > i
    <3>1. i + l \in 1..Len(b) + 2 /\ i + l > i
      BY <1>2
    <3>. QED
      BY <2>0, <3>1
  <2>2. f[j] = g[j]
    BY <2>1
  <2>3. ~(i > Len(b)) /\ Fit(b, i) # {}
    BY <1>2
  <2>4. ParseAt(b, f, i) = <<f[j][1], <<First(b, i)>> \o f[j][2]>>
    BY <2>3 DEF ParseAt
  <2>5. ParseAt(b, g, i) = <<g[j][1], <<First(b, i)>> \o g[j][2]>>
    BY <2>3 DEF ParseAt
  <2>. HIDE DEF j
  <2>. QED
    BY <2>2, <2>4, <2>5
<1>. QED
  BY <1>1, <1>2

\* The same of the scan.
LEMMA ScanLooksAhead ==
  ASSUME NEW b, Len(b) \in Nat, NEW f, NEW g, NEW i \in 1..Len(b) + 1,
         \A j \in 1..Len(b) + 1 : j > i => f[j] = g[j]
  PROVE  ScanAt(b, f, i) = ScanAt(b, g, i)
<1>1. CASE i > Len(b)
  BY <1>1 DEF ScanAt
<1>2. CASE i <= Len(b) /\ Sizes(b, i) = {}
  <2>1. f[i + 1] = g[i + 1]
    BY <1>2
  <2>. QED
    BY <1>2, <2>1 DEF ScanAt
<1>3. CASE i <= Len(b) /\ Sizes(b, i) # {}
  <2>. DEFINE j == i + Least(b, i)
  <2>1. Least(b, i) \in 1..4 /\ i + Least(b, i) - 1 <= Len(b)
    <3>1. Least(b, i) \in Sizes(b, i)
      BY <1>3, LeastIsASize
    <3>. QED
      BY <3>1 DEF Sizes
  <2>2. j \in 1..Len(b) + 1 /\ j > i
    BY <2>1
  <2>3. f[j] = g[j]
    BY <2>2
  <2>. QED
    BY <1>3, <2>3 DEF ScanAt
<1>. QED
  BY <1>1, <1>2, <1>3

\* So there is a parse: a value for every place, found from the end of the text.
LEMMA ParseExists ==
  ASSUME NEW b, Len(b) \in Nat
  PROVE  \E f : Parses(b, f)
<1>. DEFINE n == Len(b) + 2
            S == {k \in Nat : \E f : \A i \in 1..n : i > n - k => f[i] = ParseAt(b, f, i)}
<1>0. n \in Nat
  OBVIOUS
<1>1. 0 \in S
  OBVIOUS
<1>2. ASSUME NEW k \in S PROVE k + 1 \in S
  <2>1. k \in Nat
    OBVIOUS
  <2>2. PICK f : \A i \in 1..n : i > n - k => f[i] = ParseAt(b, f, i)
    OBVIOUS
  <2>. DEFINE g == [i \in 1..n |-> IF i = n - k THEN ParseAt(b, f, i) ELSE f[i]]
  <2>3. ASSUME NEW i \in 1..n, i > n - (k + 1) PROVE g[i] = ParseAt(b, g, i)
    <3>1. \A j \in 1..n : j > i => f[j] = g[j]
      BY <1>0, <2>1, <2>3
    <3>. HIDE DEF g
    <3>2. ParseAt(b, f, i) = ParseAt(b, g, i)
      BY <3>1, ParseLooksAhead
    <3>3. g[i] = ParseAt(b, f, i)
      BY <1>0, <2>1, <2>2, <2>3 DEF g
    <3>. QED
      BY <3>2, <3>3
  <2>. HIDE DEF g
  <2>4. \A i \in 1..n : i > n - (k + 1) => g[i] = ParseAt(b, g, i)
    BY <2>3
  <2>5. \E h : \A i \in 1..n : i > n - (k + 1) => h[i] = ParseAt(b, h, i)
    BY <2>4, Zenon
  <2>. QED
    BY <2>1, <2>5
<1>3. S = Nat
  <2>1. S \in SUBSET Nat
    OBVIOUS
  <2>. HIDE DEF S
  <2>. QED
    BY <1>1, <1>2, <2>1, Induction
<1>4. PICK f : \A i \in 1..n : i > n - n => f[i] = ParseAt(b, f, i)
  BY <1>0, <1>3
<1>. DEFINE g == [i \in 1..n |-> f[i]]
<1>5. ASSUME NEW i \in 1..n PROVE g[i] = ParseAt(b, g, i)
  <2>1. \A j \in 1..n : j > i => f[j] = g[j]
    OBVIOUS
  <2>2. g[i] = f[i] /\ f[i] = ParseAt(b, f, i)
    BY <1>0, <1>4
  <2>. HIDE DEF g
  <2>. QED
    BY <2>1, <2>2, ParseLooksAhead
<1>6. g = [i \in 1..n |-> g[i]]
  OBVIOUS
<1>. HIDE DEF g
<1>7. g = [i \in 1..n |-> ParseAt(b, g, i)]
  BY <1>5, <1>6
<1>. QED
  BY <1>7 DEF Parses

\* TryDecode is the first value of such a parse.
LEMMA TryDecodeIs ==
  ASSUME NEW b, Len(b) \in Nat
  PROVE  \E f : Parses(b, f) /\ TryDecode(b) = f[1]
<1>. DEFINE c == CHOOSE f : f = [i \in 1..Len(b) + 2 |-> ParseAt(b, f, i)]
<1>1. TryDecode(b) = c[1]
  BY DEF TryDecode, ParseAt, First, Fit
<1>2. c = [i \in 1..Len(b) + 2 |-> ParseAt(b, c, i)]
  BY ParseExists DEF Parses
<1>. QED
  BY <1>1, <1>2 DEF Parses

\* And there is a scan.
LEMMA ScanExists ==
  ASSUME NEW b, Len(b) \in Nat
  PROVE  \E f : Scans(b, f)
<1>. DEFINE n == Len(b) + 1
            S == {k \in Nat : \E f : \A i \in 1..n : i > n - k => f[i] = ScanAt(b, f, i)}
<1>0. n \in Nat
  OBVIOUS
<1>1. 0 \in S
  OBVIOUS
<1>2. ASSUME NEW k \in S PROVE k + 1 \in S
  <2>1. k \in Nat
    OBVIOUS
  <2>2. PICK f : \A i \in 1..n : i > n - k => f[i] = ScanAt(b, f, i)
    OBVIOUS
  <2>. DEFINE g == [i \in 1..n |-> IF i = n - k THEN ScanAt(b, f, i) ELSE f[i]]
  <2>3. ASSUME NEW i \in 1..n, i > n - (k + 1) PROVE g[i] = ScanAt(b, g, i)
    <3>1. \A j \in 1..n : j > i => f[j] = g[j]
      BY <1>0, <2>1, <2>3
    <3>. HIDE DEF g
    <3>2. ScanAt(b, f, i) = ScanAt(b, g, i)
      BY <3>1, ScanLooksAhead
    <3>3. g[i] = ScanAt(b, f, i)
      BY <1>0, <2>1, <2>2, <2>3 DEF g
    <3>. QED
      BY <3>2, <3>3
  <2>. HIDE DEF g
  <2>4. \A i \in 1..n : i > n - (k + 1) => g[i] = ScanAt(b, g, i)
    BY <2>3
  <2>5. \E h : \A i \in 1..n : i > n - (k + 1) => h[i] = ScanAt(b, h, i)
    BY <2>4, Zenon
  <2>. QED
    BY <2>1, <2>5
<1>3. S = Nat
  <2>1. S \in SUBSET Nat
    OBVIOUS
  <2>. HIDE DEF S
  <2>. QED
    BY <1>1, <1>2, <2>1, Induction
<1>4. PICK f : \A i \in 1..n : i > n - n => f[i] = ScanAt(b, f, i)
  BY <1>0, <1>3
<1>. DEFINE g == [i \in 1..n |-> f[i]]
<1>5. ASSUME NEW i \in 1..n PROVE g[i] = ScanAt(b, g, i)
  <2>1. \A j \in 1..n : j > i => f[j] = g[j]
    OBVIOUS
  <2>2. g[i] = f[i] /\ f[i] = ScanAt(b, f, i)
    BY <1>0, <1>4
  <2>. HIDE DEF g
  <2>. QED
    BY <2>1, <2>2, ScanLooksAhead
<1>6. g = [i \in 1..n |-> g[i]]
  OBVIOUS
<1>. HIDE DEF g
<1>7. g = [i \in 1..n |-> ScanAt(b, g, i)]
  BY <1>5, <1>6
<1>. QED
  BY <1>7 DEF Scans

\* DecodeCodePage is the whole parse, or else the first value of such a scan.
LEMMA DecodeCodePageIs ==
  ASSUME NEW b, Len(b) \in Nat
  PROVE  \E f : /\ Scans(b, f)
                /\ DecodeCodePage(b) = IF TryDecode(b)[1] THEN TryDecode(b)[2] ELSE f[1]
<1>. DEFINE c == CHOOSE f : f = [i \in 1..Len(b) + 1 |-> ScanAt(b, f, i)]
<1>1. DecodeCodePage(b) = IF TryDecode(b)[1] THEN TryDecode(b)[2] ELSE c[1]
  BY DEF DecodeCodePage, ScanAt, Sizes, Least
<1>2. c = [i \in 1..Len(b) + 1 |-> ScanAt(b, c, i)]
  BY ScanExists DEF Scans
<1>. QED
  BY <1>1, <1>2 DEF Scans

-----------------------------------------------------------------------------
(* What the characters of a decoded text are.                                *)

Chars == Spans \cup {Bad}

\* The characters u take the bytes of b after x and up to y, in order; those that are not
\* Bad are these bytes.
Spells(u, b, x, y) ==
  /\ u \in Seq(Chars)
  /\ \E p \in [0..Len(u) -> 0..Len(b)] :
       /\ p[0] = x /\ p[Len(u)] = y
       /\ \A k \in 1..Len(u) :
            /\ p[k] = p[k - 1] + Len(u[k])
            /\ u[k] # Bad => u[k] = SubSeq(b, p[k - 1] + 1, p[k])

\* No character is empty.
LEMMA CharSizes == \A s \in Chars : Len(s) \in 1..2
BY DEF Chars, Spans, Bad

\* No valid character is the replacement.
LEMMA SpanIsNotBad == Bad \notin Spans
BY DEF Spans, Bad

\* No characters take no bytes.
LEMMA SpellsNothing ==
  ASSUME NEW b, Len(b) \in Nat, NEW x \in 0..Len(b)
  PROVE  Spells(<<>>, b, x, x)
<1>1. <<>> \in Seq(Chars) /\ Len(<<>>) = 0
  BY EmptySeq
<1>. DEFINE p == [k \in 0..0 |-> x]
<1>2. p \in [0..0 -> 0..Len(b)] /\ p[0] = x
  OBVIOUS
<1>. HIDE DEF p
<1>3. \E q \in [0..0 -> 0..Len(b)] : q[0] = x
  BY <1>2
<1>. QED
  BY <1>1, <1>3 DEF Spells

\* One character takes the bytes it is, or replaces one.
LEMMA SpellsOne ==
  ASSUME NEW b, Len(b) \in Nat, NEW x \in Nat, NEW s \in Chars,
         x + Len(s) <= Len(b), s # Bad => s = SubSeq(b, x + 1, x + Len(s))
  PROVE  Spells(<<s>>, b, x, x + Len(s))
<1>1. <<s>> \in Seq(Chars) /\ Len(<<s>>) = 1 /\ <<s>>[1] = s
  OBVIOUS
<1>2. PICK l \in 1..2 : l = Len(s)
  BY CharSizes
<1>. DEFINE p == [k \in 0..1 |-> IF k = 0 THEN x ELSE x + l]
<1>3. p \in [0..1 -> 0..Len(b)] /\ p[0] = x /\ p[1] = x + l /\ p[1] = p[0] + l
  BY <1>2
<1>4. s # Bad => s = SubSeq(b, p[0] + 1, p[1])
  BY <1>2, <1>3
<1>. HIDE DEF p
<1>5. \A k \in 1..1 : /\ p[k] = p[k - 1] + Len(<<s>>[k])
                      /\ <<s>>[k] # Bad => <<s>>[k] = SubSeq(b, p[k - 1] + 1, p[k])
  <2>1. \A k \in 1..1 : k = 1 /\ k - 1 = 0
    OBVIOUS
  <2>. QED
    BY <1>1, <1>2, <1>3, <1>4, <2>1
<1>6. p[1] = x + Len(s)
  BY <1>2, <1>3
<1>7. \E q \in [0..1 -> 0..Len(b)] :
        /\ q[0] = x /\ q[1] = x + Len(s)
        /\ \A k \in 1..1 : /\ q[k] = q[k - 1] + Len(<<s>>[k])
                           /\ <<s>>[k] # Bad => <<s>>[k] = SubSeq(b, q[k - 1] + 1, q[k])
  BY <1>3, <1>5, <1>6, Zenon
<1>. QED
  BY <1>1, <1>7 DEF Spells

\* Two spellings, one after the other.
LEMMA SpellsConcat ==
  ASSUME NEW b, Len(b) \in Nat, NEW d, NEW e, NEW m, NEW u, NEW v,
         Spells(u, b, d, e), Spells(v, b, e, m)
  PROVE  Spells(u \o v, b, d, m)
<1>1. PICK p \in [0..Len(u) -> 0..Len(b)] :
        /\ p[0] = d /\ p[Len(u)] = e
        /\ \A k \in 1..Len(u) : /\ p[k] = p[k - 1] + Len(u[k])
                                /\ u[k] # Bad => u[k] = SubSeq(b, p[k - 1] + 1, p[k])
  BY DEF Spells
<1>2. PICK q \in [0..Len(v) -> 0..Len(b)] :
        /\ q[0] = e /\ q[Len(v)] = m
        /\ \A k \in 1..Len(v) : /\ q[k] = q[k - 1] + Len(v[k])
                                /\ v[k] # Bad => v[k] = SubSeq(b, q[k - 1] + 1, q[k])
  BY DEF Spells
<1>3. u \in Seq(Chars) /\ v \in Seq(Chars)
  BY DEF Spells
<1>4. PICK x \in Nat, y \in Nat : x = Len(u) /\ y = Len(v)
  BY <1>3, LenProperties
<1>. DEFINE w == u \o v
            r == [k \in 0..x + y |-> IF k <= x THEN p[k] ELSE q[k - x]]
<1>5. /\ w \in Seq(Chars) /\ Len(w) = x + y
      /\ \A k \in 1..x + y : w[k] = IF k <= x THEN u[k] ELSE v[k - x]
  BY <1>3, <1>4, ConcatProperties
<1>. HIDE DEF w
<1>6. r \in [0..x + y -> 0..Len(b)]
  <2>. SUFFICES ASSUME NEW k \in 0..x + y
                PROVE  (IF k <= x THEN p[k] ELSE q[k - x]) \in 0..Len(b)
    OBVIOUS
  <2>1. CASE k <= x
    <3>1. k \in 0..x
      BY <2>1
    <3>. QED
      BY <1>1, <1>4, <2>1, <3>1
  <2>2. CASE ~(k <= x)
    <3>1. k - x \in 0..y
      BY <2>2
    <3>. QED
      BY <1>2, <1>4, <2>2, <3>1
  <2>. QED
    BY <2>1, <2>2
<1>7. p[x] = q[0]
  BY <1>1, <1>2, <1>4
<1>8. r[0] = d
  BY <1>1
<1>9. r[x + y] = m
  <2>1. CASE y = 0
    BY <1>2, <1>4, <1>7, <2>1
  <2>2. CASE y # 0
    BY <1>2, <1>4, <2>2
  <2>. QED
    BY <2>1, <2>2
<1>10. ASSUME NEW k \in 1..x + y
       PROVE  /\ r[k] = r[k - 1] + Len(w[k])
              /\ w[k] # Bad => w[k] = SubSeq(b, r[k - 1] + 1, r[k])
  <2>1. CASE k <= x
    <3>1. r[k] = p[k] /\ r[k - 1] = p[k - 1] /\ w[k] = u[k] /\ k \in 1..x
      BY <1>5, <2>1
    <3>2. /\ p[k] = p[k - 1] + Len(u[k])
          /\ u[k] # Bad => u[k] = SubSeq(b, p[k - 1] + 1, p[k])
      BY <1>1, <1>4, <3>1
    <3>. HIDE DEF r
    <3>. QED
      BY <3>1, <3>2
  <2>2. CASE ~(k <= x)
    <3>. DEFINE l == k - x
    <3>1. l \in 1..y /\ w[k] = v[l] /\ r[k] = q[l]
      BY <1>5, <2>2
    <3>2. r[k - 1] = q[l - 1]
      <4>1. CASE k = x + 1
        <5>1. k - 1 = x /\ l - 1 = 0 /\ k - 1 \in 0..x + y
          BY <4>1
        <5>2. r[k - 1] = p[x]
          BY <5>1
        <5>. HIDE DEF r, l
        <5>. QED
          BY <1>7, <5>1, <5>2
      <4>2. CASE k # x + 1
        <5>1. ~(k - 1 <= x) /\ k - 1 - x = l - 1 /\ k - 1 \in 0..x + y
          BY <2>2, <4>2
        <5>. QED
          BY <5>1
      <4>. QED
        BY <4>1, <4>2
    <3>3. /\ q[l] = q[l - 1] + Len(v[l])
          /\ v[l] # Bad => v[l] = SubSeq(b, q[l - 1] + 1, q[l])
      BY <1>2, <1>4, <3>1
    <3>. HIDE DEF r, l
    <3>. QED
      BY <3>1, <3>2, <3>3
  <2>. QED
    BY <2>1, <2>2
<1>. HIDE DEF r
<1>11. \E t \in [0..x + y -> 0..Len(b)] :
         /\ t[0] = d /\ t[x + y] = m
         /\ \A k \in 1..x + y : /\ t[k] = t[k - 1] + Len(w[k])
                                /\ w[k] # Bad => w[k] = SubSeq(b, t[k - 1] + 1, t[k])
  BY <1>6, <1>8, <1>9, <1>10, Zenon
<1>12. \E t \in [0..Len(w) -> 0..Len(b)] :
         /\ t[0] = d /\ t[Len(w)] = m
         /\ \A k \in 1..Len(w) : /\ t[k] = t[k - 1] + Len(w[k])
                                 /\ w[k] # Bad => w[k] = SubSeq(b, t[k - 1] + 1, t[k])
  BY <1>5, <1>11
<1>. QED
  BY <1>5, <1>12 DEF Spells, w
\* A text within a text.
LEMMA SpellsWithin ==
  ASSUME NEW b \in Seq(Bytes), NEW d \in 0..Len(b), NEW m \in d..Len(b), NEW u,
         Spells(u, SubSeq(b, d + 1, m), 0, m - d)
  PROVE  Spells(u, b, d, m)
<1>1. PICK n \in Nat : n = Len(b) /\ b \in [1..n -> Bytes]
  BY LenProperties
<1>2. PICK c : c = SubSeq(b, d + 1, m)
  OBVIOUS
<1>3. c \in Seq(Bytes) /\ Len(c) = m - d
  <2>1. \A k \in d + 1..m : b[k] \in Bytes
    BY <1>1
  <2>2. Len(c) = IF d + 1 <= m THEN m - (d + 1) + 1 ELSE 0
    BY <1>1, <1>2, <2>1, SubSeqProperties
  <2>. QED
    BY <1>1, <1>2, <2>1, <2>2, SubSeqProperties
<1>4. Spells(u, c, 0, m - d)
  BY <1>2
<1>5. u \in Seq(Chars)
  BY <1>4 DEF Spells
<1>6. PICK l \in Nat, w \in Nat : l = Len(u) /\ w = m - d /\ Len(c) = w
  BY <1>1, <1>3, <1>5, LenProperties
<1>7. PICK p \in [0..l -> 0..w] :
        /\ p[0] = 0 /\ p[l] = w
        /\ \A k \in 1..l : /\ p[k] = p[k - 1] + Len(u[k])
                           /\ u[k] # Bad => u[k] = SubSeq(c, p[k - 1] + 1, p[k])
  <2>1. Spells(u, c, 0, w)
    BY <1>4, <1>6
  <2>. QED
    BY <1>6, <2>1 DEF Spells
<1>. DEFINE r == [k \in 0..l |-> p[k] + d]
<1>8. r \in [0..l -> 0..n] /\ r[0] = d /\ r[l] = m
  BY <1>1, <1>6, <1>7
<1>9. ASSUME NEW k \in 1..l
      PROVE  /\ r[k] = r[k - 1] + Len(u[k])
             /\ u[k] # Bad => u[k] = SubSeq(b, r[k - 1] + 1, r[k])
  <2>1. PICK s \in 1..2 : s = Len(u[k])
    <3>1. u[k] \in Chars
      BY <1>5, <1>6, ElementOfSeq
    <3>. QED
      BY <3>1, CharSizes
  <2>2. PICK x \in 0..w, y \in 0..w : x = p[k - 1] /\ y = p[k]
    <3>1. k - 1 \in 0..l /\ k \in 0..l
      OBVIOUS
    <3>. QED
      BY <1>7, <3>1
  <2>3. y = x + s /\ (u[k] # Bad => u[k] = SubSeq(c, x + 1, y))
    BY <1>7, <2>1, <2>2
  <2>4. r[k] = y + d /\ r[k - 1] = x + d
    BY <2>2
  <2>5. SubSeq(c, x + 1, y) = SubSeq(b, x + d + 1, y + d)
    <3>1. x < y
      BY <2>3
    <3>2. d + 1 \in 1..n /\ m \in 1..n /\ x + 1 \in 1..m - (d + 1) + 1 /\ y \in 1..m - (d + 1) + 1
      BY <1>1, <1>6, <3>1
    <3>3. d + 1 + (x + 1) - 1 = x + d + 1 /\ d + 1 + y - 1 = y + d
      BY <1>1
    <3>4. SubSeq(SubSeq(b, d + 1, m), x + 1, y) = SubSeq(b, d + 1 + (x + 1) - 1, d + 1 + y - 1)
      BY <1>1, <3>2, SubSeqOfSubSeq
    <3>. QED
      BY <1>2, <3>3, <3>4
  <2>6. y + d = x + d + s
    BY <1>1, <2>2, <2>3
  <2>. HIDE DEF r
  <2>. QED
    BY <2>1, <2>3, <2>4, <2>5, <2>6
<1>. HIDE DEF r
<1>10. \E t \in [0..l -> 0..n] :
         /\ t[0] = d /\ t[l] = m
         /\ \A k \in 1..l : /\ t[k] = t[k - 1] + Len(u[k])
                            /\ u[k] # Bad => u[k] = SubSeq(b, t[k - 1] + 1, t[k])
  BY <1>8, <1>9, Zenon
<1>. QED
  BY <1>1, <1>5, <1>6, <1>10 DEF Spells

\* Ends is what adding up the lengths of the characters gives.
LEMMA EndsExists ==
  ASSUME NEW t, NEW n \in Nat, n = Len(t), NEW p \in [0..n -> Nat], p[0] = 0,
         \A k \in 1..n : p[k] = p[k - 1] + Len(t[k])
  PROVE  \A k \in 0..n : Ends(t)[k] = p[k]
<1>. DEFINE c == CHOOSE e : e = [k \in 0..n |-> IF k = 0 THEN 0 ELSE e[k - 1] + Len(t[k])]
<1>1. Ends(t) = c
  BY DEF Ends
<1>2. p = [k \in 0..n |-> IF k = 0 THEN 0 ELSE p[k - 1] + Len(t[k])]
  OBVIOUS
<1>3. c = [k \in 0..n |-> IF k = 0 THEN 0 ELSE c[k - 1] + Len(t[k])]
  BY <1>2
<1>. HIDE DEF c
<1>. DEFINE S == {k \in Nat : k <= n => c[k] = p[k]}
<1>4. 0 \in S
  BY <1>3
<1>5. ASSUME NEW k \in S PROVE k + 1 \in S
  <2>1. PICK l \in Nat : l = k + 1 /\ l - 1 = k /\ k \in Nat
    OBVIOUS
  <2>2. CASE l <= n
    <3>1. l \in 1..n /\ l \in 0..n /\ l # 0
      BY <2>1, <2>2
    <3>2. c[l - 1] = p[l - 1]
      BY <2>1, <3>1
    <3>3. c[l] = c[l - 1] + Len(t[l])
      BY <1>3, <3>1
    <3>4. c[l] = p[l]
      BY <3>1, <3>2, <3>3
    <3>. QED
      BY <2>1, <3>4
  <2>3. CASE ~(l <= n)
    BY <2>1, <2>3
  <2>. QED
    BY <2>2, <2>3
<1>6. S = Nat
  <2>1. S \in SUBSET Nat
    OBVIOUS
  <2>. HIDE DEF S
  <2>. QED
    BY <1>4, <1>5, <2>1, Induction
<1>. QED
  BY <1>1, <1>6

\* What spells a text ends where it ends, and every character is where Ends says.
LEMMA SpelledEnds ==
  ASSUME NEW b, Len(b) \in Nat, NEW u, Spells(u, b, 0, Len(b))
  PROVE  /\ Ends(u)[Len(u)] = Len(b)
         /\ \A k \in DOMAIN u : u[k] # Bad => u[k] = SubSeq(b, Ends(u)[k - 1] + 1, Ends(u)[k])
<1>1. PICK n \in Nat : n = Len(u) /\ DOMAIN u = 1..n
  BY LenProperties DEF Spells
<1>2. PICK p \in [0..n -> 0..Len(b)] :
        /\ p[0] = 0 /\ p[n] = Len(b)
        /\ \A k \in 1..n : /\ p[k] = p[k - 1] + Len(u[k])
                           /\ u[k] # Bad => u[k] = SubSeq(b, p[k - 1] + 1, p[k])
  BY <1>1 DEF Spells
<1>3. p \in [0..n -> Nat] /\ p[0] = 0 /\ \A k \in 1..n : p[k] = p[k - 1] + Len(u[k])
  BY <1>2
<1>4. \A k \in 0..n : Ends(u)[k] = p[k]
  BY <1>1, <1>3, EndsExists
<1>5. Ends(u)[n] = Len(b)
  BY <1>2, <1>4
<1>6. ASSUME NEW k \in 1..n, u[k] # Bad
      PROVE  u[k] = SubSeq(b, Ends(u)[k - 1] + 1, Ends(u)[k])
  <2>1. k - 1 \in 0..n /\ k \in 0..n
    OBVIOUS
  <2>2. Ends(u)[k - 1] = p[k - 1] /\ Ends(u)[k] = p[k]
    BY <1>4, <2>1
  <2>. QED
    BY <1>2, <1>6, <2>2
<1>. QED
  BY <1>1, <1>5, <1>6

\* A set of places that has each place after which it has all, has all.
LEMMA FromTheEnd ==
  ASSUME NEW n \in Nat, NEW S \in SUBSET (1..n),
         \A i \in 1..n : (\A j \in 1..n : j > i => j \in S) => i \in S
  PROVE  S = 1..n
<1>. DEFINE K == {k \in Nat : \A i \in 1..n : i > n - k => i \in S}
<1>1. 0 \in K
  OBVIOUS
<1>2. ASSUME NEW k \in K PROVE k + 1 \in K
  <2>. SUFFICES ASSUME NEW i \in 1..n, i > n - (k + 1) PROVE i \in S
    OBVIOUS
  <2>1. \A j \in 1..n : j > i => j \in S
    OBVIOUS
  <2>. QED
    BY <2>1
<1>3. K = Nat
  <2>1. K \in SUBSET Nat
    OBVIOUS
  <2>. HIDE DEF K
  <2>. QED
    BY <1>1, <1>2, <2>1, Induction
<1>4. \A i \in 1..n : i > n - n => i \in S
  BY <1>3
<1>5. \A i \in 1..n : i \in S
  <2>1. n - n = 0 /\ \A i \in 1..n : i > 0
    OBVIOUS
  <2>. QED
    BY <1>4, <2>1
<1>. QED
  BY <1>5

\* A character that fits at a place is the bytes there.
LEMMA FitIs ==
  ASSUME NEW b \in Seq(Bytes), NEW i \in 1..Len(b), NEW s \in Fit(b, i)
  PROVE  /\ s \in Spans /\ Len(s) \in 1..2
         /\ i + Len(s) - 1 <= Len(b) /\ s = SubSeq(b, i, i + Len(s) - 1)
<1>1. s \in Spans /\ IsPrefix(s, SubSeq(b, i, Len(b)))
  BY DEF Fit
<1>2. PICK l \in 1..2 : l = Len(s)
  BY <1>1 DEF Spans
<1>3. PICK n \in Nat : n = Len(b) /\ b \in [1..n -> Bytes]
  BY LenProperties
<1>4. s \in Seq(Bytes)
  <2>1. "x" \in Bytes /\ "L" \in Bytes
    BY DEF Bytes
  <2>2. <<"x">> \in Seq(Bytes) /\ <<"L", "x">> \in Seq(Bytes) /\ <<"L", "L">> \in Seq(Bytes)
    BY <2>1
  <2>3. s = <<"x">> \/ s = <<"L", "x">> \/ s = <<"L", "L">>
    BY <1>1 DEF Spans
  <2>. QED
    BY <2>2, <2>3
<1>5. PICK c : c = SubSeq(b, i, n)
  OBVIOUS
<1>6. c \in Seq(Bytes) /\ Len(c) = n - i + 1 /\ \A k \in 1..n - i + 1 : c[k] = b[i + k - 1]
  BY <1>3, <1>5, SubSeqProperties
<1>7. l <= Len(c) /\ SubSeq(s, 1, l) = SubSeq(c, 1, l)
  BY <1>1, <1>2, <1>3, <1>5 DEF IsPrefix
<1>8. SubSeq(s, 1, l) = s
  BY <1>2, <1>4
<1>9. i + l - 1 <= n
  BY <1>3, <1>6, <1>7
<1>10. SubSeq(c, 1, l) = SubSeq(b, i, i + l - 1)
  <2>1. i \in 1..n /\ n \in 1..n /\ 1 \in 1..n - i + 1 /\ l \in 1..n - i + 1
    BY <1>3, <1>9
  <2>2. SubSeq(SubSeq(b, i, n), 1, l) = SubSeq(b, i + 1 - 1, i + l - 1)
    BY <1>3, <2>1, SubSeqOfSubSeq
  <2>3. i + 1 - 1 = i
    OBVIOUS
  <2>. QED
    BY <1>5, <2>2, <2>3
<1>. QED
  BY <1>1, <1>2, <1>3, <1>7, <1>8, <1>9, <1>10

\* What is parsed to the end is spelt by valid characters.
LEMMA ParseSpells ==
  ASSUME NEW b \in Seq(Bytes), NEW f, Parses(b, f)
  PROVE  \A i \in 1..Len(b) + 2 :
           f[i][1] => f[i][2] \in Seq(Spans) /\ Spells(f[i][2], b, i - 1, Len(b))
<1>1. PICK n \in Nat : n = Len(b)
  BY LenProperties
<1>. DEFINE Q(i) == f[i][1] => f[i][2] \in Seq(Spans) /\ Spells(f[i][2], b, i - 1, n)
            S == {i \in 1..n + 2 : Q(i)}
<1>2. ASSUME NEW i \in 1..n + 2, \A j \in 1..n + 2 : j > i => j \in S
      PROVE  i \in S
  <2>1. f[i] = ParseAt(b, f, i)
    BY <1>1 DEF Parses
  <2>2. CASE i > n
    <3>0. i > Len(b)
      BY <1>1, <2>2
    <3>1. f[i] = <<i = Len(b) + 1, <<>>>>
      BY <2>1, <3>0, Zenon DEF ParseAt
    <3>2. f[i][1] <=> i = n + 1
      <4>1. CASE i = Len(b) + 1
        <5>1. (i = Len(b) + 1) = TRUE
          BY <4>1
        <5>2. f[i] = <<TRUE, <<>>>>
          BY <3>1, <5>1, Zenon
        <5>. QED
          BY <1>1, <4>1, <5>2
      <4>2. CASE i # Len(b) + 1
        <5>1. (i = Len(b) + 1) = FALSE
          BY <4>2
        <5>2. f[i] = <<FALSE, <<>>>>
          BY <3>1, <5>1, Zenon
        <5>3. ~f[i][1]
          BY <5>2
        <5>. QED
          BY <1>1, <4>2, <5>3
      <4>. QED
        BY <4>1, <4>2
    <3>3. f[i][2] = <<>>
      BY <3>1
    <3>4. Spells(<<>>, b, n, n)
      BY <1>1, SpellsNothing
    <3>5. i = n + 1 => i - 1 = n
      OBVIOUS
    <3>6. <<>> \in Seq(Spans)
      OBVIOUS
    <3>. QED
      BY <3>2, <3>3, <3>4, <3>5, <3>6
  <2>3. CASE i <= n /\ Fit(b, i) = {}
    <3>0. ~(i > Len(b))
      BY <1>1, <2>3
    <3>1. f[i] = <<FALSE, <<>>>>
      BY <2>1, <2>3, <3>0, Zenon DEF ParseAt
    <3>2. ~f[i][1]
      BY <3>1
    <3>. QED
      BY <3>2
  <2>4. CASE i <= n /\ Fit(b, i) # {}
    <3>1. PICK s : s = First(b, i)
      OBVIOUS
    <3>2. s \in Fit(b, i)
      BY <2>4, <3>1, FirstIsASpan
    <3>3. /\ s \in Spans /\ Len(s) \in 1..2
          /\ i + Len(s) - 1 <= n /\ s = SubSeq(b, i, i + Len(s) - 1)
      BY <1>1, <2>4, <3>2, FitIs
    <3>4. PICK l \in 1..2 : l = Len(s)
      BY <3>3
    <3>5. PICK j \in 1..n + 2 : j = i + l
      BY <3>3, <3>4
    <3>6. f[i] = <<f[j][1], <<s>> \o f[j][2]>>
      <4>1. ~(i > Len(b))
        BY <1>1, <2>4
      <4>2. f[i] = <<f[i + Len(s)][1], <<s>> \o f[i + Len(s)][2]>>
        BY <2>1, <2>4, <3>1, <4>1, Zenon DEF ParseAt
      <4>3. j = i + Len(s)
        BY <3>4, <3>5
      <4>. QED
        BY <4>2, <4>3, Zenon
    <3>7. (f[i][1] <=> f[j][1]) /\ f[i][2] = <<s>> \o f[j][2]
      BY <3>6
    <3>8. SUFFICES ASSUME f[j][1]
                   PROVE  f[i][2] \in Seq(Spans) /\ Spells(f[i][2], b, i - 1, n)
      BY <3>7
    <3>9. f[j][2] \in Seq(Spans) /\ Spells(f[j][2], b, j - 1, n)
      <4>1. j > i
        BY <3>5
      <4>. QED
        BY <1>2, <3>8, <4>1
    <3>10. Spells(<<s>>, b, i - 1, j - 1)
      <4>1. i - 1 \in Nat /\ s \in Chars /\ i - 1 + Len(s) <= Len(b) /\ i - 1 + 1 = i
            /\ i - 1 + Len(s) = i + Len(s) - 1
        BY <1>1, <3>3, <3>4 DEF Chars
      <4>2. s # Bad => s = SubSeq(b, i - 1 + 1, i - 1 + Len(s))
        BY <3>3, <4>1
      <4>3. Spells(<<s>>, b, i - 1, i - 1 + Len(s))
        BY <1>1, <4>1, <4>2, SpellsOne
      <4>4. i - 1 + Len(s) = j - 1
        BY <3>4, <3>5
      <4>. QED
        BY <4>3, <4>4
    <3>11. Spells(<<s>> \o f[j][2], b, i - 1, n)
      BY <1>1, <3>9, <3>10, SpellsConcat
    <3>12. <<s>> \in Seq(Spans)
      BY <3>3
    <3>13. <<s>> \o f[j][2] \in Seq(Spans)
      BY <3>9, <3>12, ConcatProperties
    <3>. QED
      BY <3>7, <3>11, <3>13
  <2>. QED
    BY <2>2, <2>3, <2>4
<1>3. S = 1..n + 2
  <2>1. S \in SUBSET (1..n + 2) /\ n + 2 \in Nat
    OBVIOUS
  <2>. HIDE DEF S
  <2>. QED
    BY <1>2, <2>1, FromTheEnd
<1>. QED
  BY <1>1, <1>3

\* A text that is decoded strictly is spelt by valid characters.
LEMMA TryDecodeSpells ==
  ASSUME NEW b \in Seq(Bytes), TryDecode(b)[1]
  PROVE  TryDecode(b)[2] \in Seq(Spans) /\ Spells(TryDecode(b)[2], b, 0, Len(b))
<1>1. Len(b) \in Nat
  BY LenProperties
<1>2. PICK f : Parses(b, f) /\ TryDecode(b) = f[1]
  BY <1>1, TryDecodeIs
<1>3. 1 \in 1..Len(b) + 2 /\ 1 - 1 = 0
  BY <1>1
<1>. QED
  BY <1>2, <1>3, ParseSpells

\* What is scanned is spelt by valid characters and replacements of one byte.
LEMMA ScanSpells ==
  ASSUME NEW b \in Seq(Bytes), NEW f, Scans(b, f)
  PROVE  \A i \in 1..Len(b) + 1 : Spells(f[i], b, i - 1, Len(b))
<1>1. PICK n \in Nat : n = Len(b)
  BY LenProperties
<1>. DEFINE S == {i \in 1..n + 1 : Spells(f[i], b, i - 1, n)}
<1>2. ASSUME NEW i \in 1..n + 1, \A j \in 1..n + 1 : j > i => j \in S
      PROVE  i \in S
  <2>1. f[i] = ScanAt(b, f, i)
    BY <1>1 DEF Scans
  <2>2. CASE i > n
    <3>1. f[i] = <<>> /\ i - 1 = n
      BY <1>1, <2>1, <2>2 DEF ScanAt
    <3>. QED
      BY <1>1, <3>1, SpellsNothing
  <2>3. CASE i <= n /\ Sizes(b, i) = {}
    <3>1. f[i] = <<Bad>> \o f[i + 1]
      BY <1>1, <2>1, <2>3 DEF ScanAt
    <3>2. PICK j \in 1..n + 1 : j = i + 1
      BY <2>3
    <3>3. Spells(f[j], b, j - 1, n)
      BY <1>2, <3>2
    <3>4. Spells(<<Bad>>, b, i - 1, i)
      <4>1. Bad \in Chars /\ Len(Bad) = 1
        BY DEF Chars, Bad
      <4>2. i - 1 \in Nat /\ i - 1 + Len(Bad) = i
        BY <4>1
      <4>. QED
        BY <1>1, <2>3, <4>1, <4>2, SpellsOne
    <3>5. j - 1 = i
      BY <3>2
    <3>. QED
      BY <1>1, <3>1, <3>2, <3>3, <3>4, <3>5, SpellsConcat
  <2>4. CASE i <= n /\ Sizes(b, i) # {}
    <3>1. PICK k \in 1..4 : k = Least(b, i) /\ i + k - 1 <= n
                           /\ TryDecode(SubSeq(b, i, i + k - 1))[1]
      <4>1. Least(b, i) \in Sizes(b, i)
        BY <2>4, LeastIsASize
      <4>. QED
        BY <1>1, <4>1 DEF Sizes
    <3>2. PICK d \in 0..n, m \in 1..n : d = i - 1 /\ m = i + k - 1 /\ d + 1 = i /\ d <= m
      <4>1. i - 1 \in 0..n /\ i + k - 1 \in 1..n
        BY <2>4, <3>1
      <4>2. i - 1 + 1 = i /\ i - 1 <= i + k - 1
        BY <3>1
      <4>. QED
        BY <4>1, <4>2
    <3>3. PICK c : c = SubSeq(b, i, m)
      OBVIOUS
    <3>4. PICK j \in 1..n + 1 : j = i + k /\ j - 1 = m /\ j > i
      <4>1. i + k \in 1..n + 1 /\ i + k - 1 = m /\ i + k > i
        BY <3>1, <3>2
      <4>. QED
        BY <4>1
    <3>5. f[i] = TryDecode(c)[2] \o f[j]
      <4>1. ~(i > Len(b))
        BY <1>1, <2>4
      <4>2. f[i] = TryDecode(SubSeq(b, i, i + k - 1))[2] \o f[i + k]
        BY <2>1, <2>4, <3>1, <4>1, Zenon DEF ScanAt
      <4>3. c = SubSeq(b, i, i + k - 1)
        BY <3>2, <3>3, Zenon
      <4>. QED
        BY <3>4, <4>2, <4>3, Zenon
    <3>6. c \in Seq(Bytes) /\ Len(c) = m - d
      <4>1. \A x \in i..m : b[x] \in Bytes
        BY <1>1, ElementOfSeq
      <4>2. i \in Int /\ m \in Int /\ i <= m /\ m - i + 1 = m - d
        <5>1. i + k - 1 - i + 1 = i + k - 1 - (i - 1) /\ i <= i + k - 1
          BY <3>1
        <5>2. i \in Int /\ m \in Int
          BY <3>2
        <5>. QED
          BY <3>2, <5>1, <5>2
      <4>3. c \in Seq(Bytes) /\ Len(c) = m - i + 1
        BY <3>3, <4>1, <4>2, SubSeqProperties
      <4>. QED
        BY <4>2, <4>3
    <3>7. TryDecode(c)[1]
      BY <3>1, <3>2, <3>3
    <3>8. Spells(TryDecode(c)[2], c, 0, m - d)
      BY <3>6, <3>7, TryDecodeSpells
    <3>9. Spells(TryDecode(c)[2], b, d, m)
      <4>1. d \in 0..Len(b) /\ m \in d..Len(b)
        BY <1>1, <3>2
      <4>2. Spells(TryDecode(c)[2], SubSeq(b, d + 1, m), 0, m - d)
        BY <3>2, <3>3, <3>8
      <4>. QED
        BY <4>1, <4>2, SpellsWithin
    <3>10. Spells(f[j], b, m, n)
      BY <1>2, <3>4
    <3>. QED
      BY <1>1, <3>2, <3>5, <3>9, <3>10, SpellsConcat
  <2>. QED
    BY <2>2, <2>3, <2>4
<1>3. S = 1..n + 1
  <2>1. S \in SUBSET (1..n + 1) /\ n + 1 \in Nat
    OBVIOUS
  <2>. HIDE DEF S
  <2>. QED
    BY <1>2, <2>1, FromTheEnd
<1>. QED
  BY <1>1, <1>3

\* DecodeCodePage spells the text it is given, whatever it is: its characters take the bytes
\* in order, and each is these bytes or replaces one (decodeCodePage).
THEOREM DecodeSpells ==
  ASSUME NEW b \in Seq(Bytes)
  PROVE  Spells(DecodeCodePage(b), b, 0, Len(b))
<1>1. Len(b) \in Nat
  BY LenProperties
<1>2. PICK f : /\ Scans(b, f)
               /\ DecodeCodePage(b) = IF TryDecode(b)[1] THEN TryDecode(b)[2] ELSE f[1]
  BY <1>1, DecodeCodePageIs
<1>3. 1 \in 1..Len(b) + 1 /\ 1 - 1 = 0
  BY <1>1
<1>4. Spells(f[1], b, 0, Len(b))
  BY <1>2, <1>3, ScanSpells
<1>. QED
  BY <1>2, <1>4, TryDecodeSpells

-----------------------------------------------------------------------------
(* A valid text and its first bytes.                                         *)

\* A valid character is one byte, or a lead byte and another.
LEMMA SpanBytes ==
  ASSUME NEW s \in Spans
  PROVE  /\ s \in Seq(Bytes) /\ Len(s) \in 1..2
         /\ Len(s) = 2 => s[1] = "L"
<1>1. "x" \in Bytes /\ "L" \in Bytes
  BY DEF Bytes
<1>2. <<"x">> \in Seq(Bytes) /\ <<"L", "x">> \in Seq(Bytes) /\ <<"L", "L">> \in Seq(Bytes)
  BY <1>1
<1>3. s = <<"x">> \/ s = <<"L", "x">> \/ s = <<"L", "L">>
  BY DEF Spans
<1>4. CASE s = <<"x">>
  BY <1>2, <1>4
<1>5. CASE s = <<"L", "x">>
  BY <1>2, <1>5
<1>6. CASE s = <<"L", "L">>
  BY <1>2, <1>6
<1>. QED
  BY <1>3, <1>4, <1>5, <1>6

\* The text of one place.
LEMMA OneByte ==
  ASSUME NEW b \in Seq(Bytes), NEW i \in 1..Len(b)
  PROVE  SubSeq(b, i, i) = <<b[i]>>
<1>1. b[i] \in Bytes /\ i \in Int /\ i <= i /\ i - i + 1 = 1 /\ i + 1 - 1 = i
  BY LenProperties
<1>2. \A j \in i..i : b[j] \in Bytes
  BY <1>1
<1>3. PICK c : c = SubSeq(b, i, i)
  OBVIOUS
<1>4. c \in Seq(Bytes) /\ Len(c) = i - i + 1 /\ \A j \in 1..i - i + 1 : c[j] = b[i + j - 1]
  BY <1>1, <1>2, <1>3, SubSeqProperties
<1>5. c \in Seq(Bytes) /\ Len(c) = 1 /\ c[1] = b[i]
  BY <1>1, <1>4
<1>6. c = <<c[1]>>
  BY <1>5
<1>. QED
  BY <1>3, <1>5, <1>6

\* A lead byte alone is no valid character,
LEMMA NoSpanIsALead ==
  ASSUME NEW s \in Spans, Len(s) = 1
  PROVE  s[1] = "x"
<1>1. s = <<"x">> \/ s = <<"L", "x">> \/ s = <<"L", "L">>
  BY DEF Spans
<1>. QED
  BY <1>1

\* and is not decoded as one.
LEMMA LeadAlone == ~TryDecode(<<"L">>)[1]
<1>. DEFINE b == <<"L">>
<1>1. b \in Seq(Bytes) /\ Len(b) = 1 /\ b[1] = "L"
  <2>1. "L" \in Bytes
    BY DEF Bytes
  <2>. QED
    BY <2>1
<1>. HIDE DEF b
<1>2. PICK f : Parses(b, f) /\ TryDecode(b) = f[1]
  BY <1>1, TryDecodeIs
<1>3. Fit(b, 1) = {}
  <2>. SUFFICES ASSUME NEW s \in Fit(b, 1) PROVE FALSE
    OBVIOUS
  <2>1. s \in Spans /\ Len(s) \in 1..2 /\ 1 + Len(s) - 1 <= 1 /\ s = SubSeq(b, 1, 1 + Len(s) - 1)
    <3>1. 1 \in 1..Len(b)
      BY <1>1
    <3>. QED
      BY <1>1, <3>1, FitIs
  <2>2. Len(s) = 1 /\ 1 + Len(s) - 1 = 1
    BY <2>1
  <2>3. s = SubSeq(b, 1, 1)
    BY <2>1, <2>2
  <2>4. s[1] = b[1]
    BY <1>1, <2>3
  <2>5. s[1] = "x"
    BY <2>1, <2>2, NoSpanIsALead
  <2>. QED
    BY <1>1, <2>4, <2>5
<1>4. 1 \in 1..Len(b) + 2 /\ ~(1 > Len(b))
  BY <1>1
<1>5. f[1] = ParseAt(b, f, 1)
  BY <1>2, <1>4 DEF Parses
<1>6. f[1] = <<FALSE, <<>>>>
  BY <1>3, <1>4, <1>5, Zenon DEF ParseAt
<1>7. ~f[1][1]
  BY <1>6
<1>. QED
  BY <1>2, <1>7 DEF b

\* A text is parsed from a place when it is from the end of the character there.
LEMMA ParsedFirst ==
  ASSUME NEW b \in Seq(Bytes), NEW f, Parses(b, f), NEW i \in 1..Len(b), Fit(b, i) # {}
  PROVE  \E s \in Fit(b, i) : i + Len(s) \in 1..Len(b) + 2 /\ (f[i][1] <=> f[i + Len(s)][1])
<1>1. PICK s : s = First(b, i) /\ s \in Fit(b, i)
  BY FirstIsASpan
<1>2. Len(s) \in 1..2 /\ i + Len(s) - 1 <= Len(b) /\ Len(b) \in Nat
  BY <1>1, FitIs, LenProperties
<1>3. i \in 1..Len(b) + 2 /\ ~(i > Len(b)) /\ i + Len(s) \in 1..Len(b) + 2
  BY <1>2
<1>4. f[i] = ParseAt(b, f, i)
  BY <1>3 DEF Parses
<1>5. f[i] = <<f[i + Len(s)][1], <<s>> \o f[i + Len(s)][2]>>
  BY <1>1, <1>3, <1>4, Zenon DEF ParseAt
<1>6. f[i][1] = f[i + Len(s)][1]
  BY <1>5
<1>. QED
  BY <1>1, <1>3, <1>6

\* From its end it is.
LEMMA ParsedEnd ==
  ASSUME NEW b \in Seq(Bytes), NEW f, Parses(b, f)
  PROVE  f[Len(b) + 1][1]
<1>1. PICK j : j = Len(b) + 1 /\ j \in 1..Len(b) + 2 /\ j > Len(b)
  BY LenProperties
<1>2. f[j] = ParseAt(b, f, j)
  BY <1>1 DEF Parses
<1>3. f[j] = <<j = Len(b) + 1, <<>>>>
  BY <1>1, <1>2, Zenon DEF ParseAt
<1>4. (j = Len(b) + 1) = TRUE
  BY <1>1
<1>5. f[j] = <<TRUE, <<>>>>
  BY <1>3, <1>4, Zenon
<1>6. f[j][1]
  BY <1>5
<1>. QED
  BY <1>1, <1>6

\* A valid character alone is decoded strictly.
LEMMA SpanParses ==
  ASSUME NEW s \in Spans
  PROVE  TryDecode(s)[1]
<1>1. s \in Seq(Bytes) /\ Len(s) \in 1..2 /\ (Len(s) = 2 => s[1] = "L")
  BY SpanBytes
<1>2. PICK f : Parses(s, f) /\ TryDecode(s) = f[1]
  BY <1>1, TryDecodeIs
<1>3. s \in Fit(s, 1)
  <2>1. SubSeq(s, 1, Len(s)) = s
    BY <1>1
  <2>. QED
    BY <1>1, <2>1 DEF Fit, IsPrefix
<1>4. 1 \in 1..Len(s)
  BY <1>1
<1>5. PICK t \in Fit(s, 1) : f[1][1] <=> f[1 + Len(t)][1]
  BY <1>1, <1>2, <1>3, <1>4, ParsedFirst
<1>6. t \in Spans /\ Len(t) \in 1..2 /\ 1 + Len(t) - 1 <= Len(s) /\ t = SubSeq(s, 1, 1 + Len(t) - 1)
  BY <1>1, <1>4, FitIs
<1>7. Len(t) = Len(s)
  <2>. SUFFICES ASSUME Len(t) # Len(s) PROVE FALSE
    OBVIOUS
  <2>1. Len(t) = 1 /\ Len(s) = 2 /\ 1 + Len(t) - 1 = 1
    BY <1>1, <1>6
  <2>2. t = SubSeq(s, 1, 1)
    BY <1>6, <2>1
  <2>3. t[1] = s[1]
    BY <1>1, <2>1, <2>2
  <2>4. t[1] = "x"
    BY <1>6, <2>1, NoSpanIsALead
  <2>. QED
    BY <1>1, <2>1, <2>3, <2>4
<1>8. f[Len(s) + 1][1]
  BY <1>1, <1>2, ParsedEnd
<1>9. 1 + Len(t) = Len(s) + 1
  BY <1>1, <1>7
<1>10. f[1][1]
  BY <1>5, <1>8, <1>9
<1>. QED
  BY <1>2, <1>10

\* The scan takes a valid character whole.
LEMMA ScanTakesASpan ==
  ASSUME NEW b \in Seq(Bytes), NEW i \in 1..Len(b), NEW s \in Spans,
         i + Len(s) - 1 <= Len(b), s = SubSeq(b, i, i + Len(s) - 1)
  PROVE  Sizes(b, i) # {} /\ Least(b, i) = Len(s)
<1>1. PICK l \in 1..2 : l = Len(s)
  BY SpanBytes
<1>2. TryDecode(SubSeq(b, i, i + l - 1))[1]
  BY <1>1, SpanParses
<1>3. l \in Sizes(b, i)
  BY <1>1, <1>2 DEF Sizes
<1>4. PICK k : k = Least(b, i) /\ k \in Sizes(b, i) /\ k <= l
  BY <1>3, LeastIsASize
<1>5. k \in 1..4 /\ TryDecode(SubSeq(b, i, i + k - 1))[1]
  BY <1>4 DEF Sizes
<1>6. k = l
  <2>. SUFFICES ASSUME k # l PROVE FALSE
    OBVIOUS
  <2>1. k = 1 /\ l = 2 /\ i + k - 1 = i
    <3>1. k = 1 /\ l = 2
      BY <1>4, <1>5
    <3>2. i + 1 - 1 = i
      OBVIOUS
    <3>. QED
      BY <3>1, <3>2
  <2>2. s[1] = "L" /\ s \in Seq(Bytes)
    BY <1>1, <2>1, SpanBytes
  <2>3. \A j \in i..i + l - 1 : b[j] \in Bytes
    BY <1>1, ElementOfSeq
  <2>4. s = SubSeq(b, i, i + l - 1)
    BY <1>1
  <2>5. b[i] = s[1]
    BY <1>1, <2>1, <2>3, <2>4, SubSeqProperties
  <2>6. SubSeq(b, i, i) = <<b[i]>>
    BY OneByte
  <2>. QED
    BY <1>5, <2>1, <2>2, <2>5, <2>6, LeadAlone
<1>. QED
  BY <1>1, <1>3, <1>4, <1>6

\* A lead byte at the end is no character.
LEMMA ScanMeetsALead ==
  ASSUME NEW b \in Seq(Bytes), NEW i \in 1..Len(b), i = Len(b), b[i] = "L"
  PROVE  Sizes(b, i) = {}
<1>. SUFFICES ASSUME NEW n \in Sizes(b, i) PROVE FALSE
  OBVIOUS
<1>1. n \in 1..4 /\ i + n - 1 <= Len(b) /\ TryDecode(SubSeq(b, i, i + n - 1))[1]
  BY DEF Sizes
<1>2. n = 1 /\ i + n - 1 = i
  BY <1>1
<1>3. SubSeq(b, i, i) = <<b[i]>>
  BY OneByte
<1>. QED
  BY <1>1, <1>2, <1>3, LeadAlone

\* Nothing replaced but perhaps the last.
Clean(t) == t \in Seq(Chars) /\ \A k \in 1..Len(t) : t[k] = Bad => k = Len(t)

\* No character, none replaced.
LEMMA CleanNothing == Clean(<<>>)
<1>1. <<>> \in Seq(Chars) /\ Len(<<>>) = 0
  BY EmptySeq
<1>. QED
  BY <1>1 DEF Clean

\* Valid characters before do not change that.
LEMMA CleanConcat ==
  ASSUME NEW u \in Seq(Spans), NEW v, Clean(v)
  PROVE  Clean(u \o v)
<1>1. PICK x \in Nat, y \in Nat : x = Len(u) /\ y = Len(v)
  BY LenProperties DEF Clean
<1>2. u \in Seq(Chars) /\ v \in Seq(Chars)
  <2>1. \A k \in 1..x : u[k] \in Spans
    BY <1>1, ElementOfSeq
  <2>2. \A k \in 1..x : u[k] \in Chars
    BY <2>1 DEF Chars
  <2>. QED
    BY <1>1, <2>2 DEF Clean
<1>3. PICK w : w = u \o v
  OBVIOUS
<1>4. /\ w \in Seq(Chars) /\ Len(w) = x + y
      /\ \A k \in 1..x + y : w[k] = IF k <= x THEN u[k] ELSE v[k - x]
  BY <1>1, <1>2, <1>3, ConcatProperties
<1>5. ASSUME NEW k \in 1..x + y, w[k] = Bad PROVE k = x + y
  <2>1. CASE k <= x
    <3>1. u[k] = Bad /\ k \in 1..x
      BY <1>4, <1>5, <2>1
    <3>2. u[k] \in Spans
      BY <1>1, <3>1, ElementOfSeq
    <3>. QED
      BY <3>1, <3>2, SpanIsNotBad
  <2>2. CASE ~(k <= x)
    <3>1. v[k - x] = Bad /\ k - x \in 1..y
      BY <1>4, <1>5, <2>2
    <3>2. k - x = y
      BY <1>1, <3>1 DEF Clean
    <3>. QED
      BY <3>2
  <2>. QED
    BY <2>1, <2>2
<1>. QED
  BY <1>3, <1>4, <1>5 DEF Clean

\* In valid characters nothing is replaced.
LEMMA SpansAreClean ==
  ASSUME NEW u \in Seq(Spans), NEW k \in DOMAIN u
  PROVE  u[k] # Bad
<1>1. u[k] \in Spans
  BY LenProperties, ElementOfSeq
<1>. QED
  BY <1>1, SpanIsNotBad

\* The first bytes of a text.
LEMMA Prefix ==
  ASSUME NEW w \in Seq(Bytes), NEW m \in 0..Len(w), NEW b, b = SubSeq(w, 1, m)
  PROVE  /\ b \in Seq(Bytes) /\ Len(b) = m
         /\ \A i \in 1..m : b[i] = w[i] /\ \A j \in i..m : SubSeq(b, i, j) = SubSeq(w, i, j)
<1>1. PICK n \in Nat : n = Len(w) /\ w \in [1..n -> Bytes]
  BY LenProperties
<1>2. \A k \in 1..m : w[k] \in Bytes
  BY <1>1
<1>3. m \in Int /\ 1 \in Int /\ m - 1 + 1 = m /\ (1 <= m \/ m = 0)
  BY <1>1
<1>4. b \in Seq(Bytes) /\ Len(b) = IF 1 <= m THEN m - 1 + 1 ELSE 0
  BY <1>2, <1>3, SubSeqProperties
<1>5. Len(b) = m
  BY <1>3, <1>4
<1>6. ASSUME NEW i \in 1..m PROVE b[i] = w[i]
  <2>1. \A k \in 1..m - 1 + 1 : b[k] = w[1 + k - 1]
    BY <1>2, <1>3, SubSeqProperties
  <2>2. i \in 1..m - 1 + 1 /\ 1 + i - 1 = i
    BY <1>3
  <2>. QED
    BY <2>1, <2>2
<1>7. ASSUME NEW i \in 1..m, NEW j \in i..m PROVE SubSeq(b, i, j) = SubSeq(w, i, j)
  <2>1. 1 \in 1..n /\ m \in 1..n /\ i \in 1..m - 1 + 1 /\ j \in 1..m - 1 + 1
    BY <1>1
  <2>2. SubSeq(SubSeq(w, 1, m), i, j) = SubSeq(w, 1 + i - 1, 1 + j - 1)
    BY <1>1, <2>1, SubSeqOfSubSeq
  <2>3. 1 + i - 1 = i /\ 1 + j - 1 = j
    BY <1>1
  <2>. QED
    BY <2>2, <2>3
<1>. QED
  BY <1>4, <1>5, <1>6, <1>7

\* Where the whole text is valid, scanning its first m bytes replaces no byte but the last.
LEMMA CutScan ==
  ASSUME NEW w \in Seq(Bytes), NEW f, Parses(w, f),
         NEW m \in 0..Len(w), NEW b, b = SubSeq(w, 1, m), NEW g, Scans(b, g)
  PROVE  \A i \in 1..m + 1 : f[i][1] => Clean(g[i])
<1>. DEFINE S == {i \in 1..m + 1 : f[i][1] => Clean(g[i])}
<1>1. b \in Seq(Bytes) /\ Len(b) = m
  BY Prefix
<1>2. m \in Nat /\ Len(w) \in Nat /\ m <= Len(w)
  BY LenProperties
<1>3. ASSUME NEW i \in 1..m + 1, \A j \in 1..m + 1 : j > i => j \in S
      PROVE  i \in S
  <2>1. g[i] = ScanAt(b, g, i)
    BY <1>1 DEF Scans
  <2>2. CASE i > m
    <3>1. g[i] = <<>>
      BY <1>1, <2>1, <2>2 DEF ScanAt
    <3>. QED
      BY <3>1, CleanNothing
  <2>3. CASE i <= m /\ f[i][1]
    <3>1. i \in 1..Len(w) /\ i \in 1..Len(b) /\ ~(i > Len(w)) /\ ~(i > Len(b)) /\ i \in 1..Len(w) + 2
      BY <1>1, <1>2, <2>3
    <3>2. Fit(w, i) # {}
      <4>. SUFFICES ASSUME Fit(w, i) = {} PROVE FALSE
        OBVIOUS
      <4>1. f[i] = ParseAt(w, f, i)
        BY <3>1 DEF Parses
      <4>2. f[i] = <<FALSE, <<>>>>
        BY <3>1, <4>1, Zenon DEF ParseAt
      <4>3. ~f[i][1]
        BY <4>2
      <4>. QED
        BY <2>3, <4>3
    <3>3. PICK s \in Fit(w, i) : f[i][1] <=> f[i + Len(s)][1]
      BY <3>1, <3>2, ParsedFirst
    <3>4. s \in Spans /\ i + Len(s) - 1 <= Len(w) /\ s = SubSeq(w, i, i + Len(s) - 1)
      BY <3>1, FitIs
    <3>5. s \in Seq(Bytes) /\ (Len(s) = 2 => s[1] = "L")
      BY <3>4, SpanBytes
    <3>6. PICK l \in 1..2 : l = Len(s)
      BY <3>4, SpanBytes
    <3>7. f[i + l][1]
      BY <2>3, <3>3, <3>6
    <3>8. CASE i + l - 1 <= m
      <4>1. PICK j \in 1..m + 1 : j = i + l /\ j > i
        BY <1>2, <3>8
      <4>2. s = SubSeq(b, i, i + Len(s) - 1)
        <5>1. i \in 1..m /\ i + l - 1 \in i..m
          BY <2>3, <3>8
        <5>2. SubSeq(b, i, i + l - 1) = SubSeq(w, i, i + l - 1)
          BY <5>1, Prefix
        <5>. QED
          BY <3>4, <3>6, <5>2
      <4>3. Sizes(b, i) # {} /\ Least(b, i) = Len(s)
        <5>1. i + Len(s) - 1 <= Len(b)
          BY <1>1, <3>6, <3>8
        <5>. QED
          BY <1>1, <3>1, <3>4, <4>2, <5>1, ScanTakesASpan
      <4>4. g[i] = TryDecode(SubSeq(b, i, i + Len(s) - 1))[2] \o g[i + Len(s)]
        BY <2>1, <3>1, <4>3, Zenon DEF ScanAt
      <4>5. g[i] = TryDecode(s)[2] \o g[j]
        BY <3>6, <4>1, <4>2, <4>4
      <4>6. TryDecode(s)[2] \in Seq(Spans)
        BY <3>4, <3>5, SpanParses, TryDecodeSpells
      <4>7. Clean(g[j])
        BY <1>3, <3>7, <4>1
      <4>. QED
        BY <4>5, <4>6, <4>7, CleanConcat
    <3>9. CASE ~(i + l - 1 <= m)
      <4>1. l = 2 /\ i = m
        <5>1. l # 1
          BY <1>2, <2>3, <3>9
        <5>. QED
          BY <1>2, <2>3, <3>9, <5>1
      <4>2. b[i] = "L"
        <5>1. \A k \in i..i + l - 1 : w[k] \in Bytes
          BY <3>1, <3>4, <3>6, ElementOfSeq
        <5>2. s = SubSeq(w, i, i + l - 1)
          BY <3>4, <3>6
        <5>3. s[1] = w[i]
          <6>1. i \in Int /\ i + l - 1 \in Int /\ 1 \in 1..i + l - 1 - i + 1 /\ i + 1 - 1 = i
            BY <4>1
          <6>. QED
            BY <5>1, <5>2, <6>1, SubSeqProperties
        <5>4. b[i] = w[i]
          BY <2>3, Prefix
        <5>. QED
          BY <3>5, <3>6, <4>1, <5>3, <5>4
      <4>3. Sizes(b, i) = {}
        BY <1>1, <3>1, <4>1, <4>2, ScanMeetsALead
      <4>4. g[i] = <<Bad>> \o g[i + 1]
        BY <2>1, <3>1, <4>3, Zenon DEF ScanAt
      <4>5. g[i + 1] = <<>>
        <5>1. i + 1 \in 1..Len(b) + 1 /\ i + 1 > Len(b)
          BY <1>1, <1>2, <4>1
        <5>2. g[i + 1] = ScanAt(b, g, i + 1)
          BY <5>1 DEF Scans
        <5>. QED
          BY <5>1, <5>2, Zenon DEF ScanAt
      <4>6. g[i] = <<Bad>>
        BY <4>4, <4>5
      <4>7. Clean(<<Bad>>)
        <5>1. Bad \in Chars
          BY DEF Chars
        <5>2. <<Bad>> \in Seq(Chars) /\ Len(<<Bad>>) = 1
          BY <5>1
        <5>. QED
          BY <5>2 DEF Clean
      <4>. QED
        BY <4>6, <4>7
    <3>. QED
      BY <3>8, <3>9
  <2>. QED
    BY <2>2, <2>3
<1>4. S = 1..m + 1
  <2>1. S \in SUBSET (1..m + 1) /\ m + 1 \in Nat
    BY <1>2
  <2>. HIDE DEF S
  <2>. QED
    BY <1>3, <2>1, FromTheEnd
<1>. QED
  BY <1>4

\* Of a valid text that is cut, decoding replaces at most the character that the cap halves.
LEMMA CutText ==
  ASSUME NEW w \in Seq(Bytes), TryDecode(w)[1],
         NEW m \in 0..Len(w), NEW b, b = SubSeq(w, 1, m),
         NEW k \in DOMAIN DecodeCodePage(b), DecodeCodePage(b)[k] = Bad
  PROVE  k = Len(DecodeCodePage(b)) /\ m < Len(w)
<1>1. b \in Seq(Bytes) /\ Len(b) = m
  BY Prefix
<1>2. m \in Nat /\ Len(w) \in Nat /\ m <= Len(w)
  BY LenProperties
<1>3. PICK g : /\ Scans(b, g)
               /\ DecodeCodePage(b) = IF TryDecode(b)[1] THEN TryDecode(b)[2] ELSE g[1]
  BY <1>1, <1>2, DecodeCodePageIs
<1>4. ~TryDecode(b)[1]
  <2>. SUFFICES ASSUME TryDecode(b)[1] PROVE FALSE
    OBVIOUS
  <2>1. DecodeCodePage(b) = TryDecode(b)[2] /\ TryDecode(b)[2] \in Seq(Spans)
    BY <1>1, <1>3, TryDecodeSpells
  <2>. QED
    BY <2>1, SpansAreClean
<1>5. m < Len(w)
  <2>0. SubSeq(w, 1, Len(w)) = w
    OBVIOUS
  <2>1. ASSUME m = Len(w) PROVE FALSE
    <3>1. b = w
      BY <2>0, <2>1
    <3>2. TryDecode(b)[1]
      BY <3>1, Zenon
    <3>. QED
      BY <1>4, <3>2
  <2>. QED
    BY <1>2, <2>1
<1>6. PICK f : Parses(w, f) /\ TryDecode(w) = f[1]
  BY <1>2, TryDecodeIs
<1>7. Clean(g[1])
  <2>1. 1 \in 1..m + 1
    BY <1>2
  <2>. QED
    BY <1>3, <1>6, <2>1, CutScan
<1>8. DOMAIN g[1] = 1..Len(g[1])
  BY <1>7, LenProperties DEF Clean
<1>. QED
  BY <1>3, <1>4, <1>5, <1>7, <1>8 DEF Clean

-----------------------------------------------------------------------------
(* What is kept of the output, and when nobody adds to it.                   *)

\* Who has stdout open: nobody after Wait.
LEMMA QuietStep ==
  ASSUME QuietOK, [Next]_vars
  PROVE  QuietOK'
<1>. USE DEF QuietOK, given, procs, output
<1>1. CASE Expire \/ Fork \/ ChildExits \/ GrandExits
  BY <1>1 DEF Expire, Fork, ChildExits, GrandExits
<1>2. CASE Writes
  BY <1>2 DEF Writes
<1>3. CASE Start \/ AssignToKillOnCloseJob
  BY <1>3 DEF Start, AssignToKillOnCloseJob
<1>4. CASE WatchCtx \/ TimeoutCase
  BY <1>4 DEF WatchCtx, TimeoutCase, Killed
<1>5. CASE Wait
  BY <1>5 DEF Wait, WaitEnds
<1>6. CASE Return
  BY <1>6 DEF Return, CloseJob, Killed
<1>7. CASE DoExec \/ UNCHANGED vars
  BY <1>7 DEF DoExec, vars
<1>. QED
  BY <1>1, <1>2, <1>3, <1>4, <1>5, <1>6, <1>7 DEF Next

\* A chunk between two lengths of a text, added to what fits of the shorter one.
LEMMA Appends ==
  ASSUME NEW t \in Seq(Bytes), NEW n \in 0..Len(t), NEW k \in n + 1..Len(t), Cap \in Nat
  PROVE  /\ Len(SubSeq(t, n + 1, k)) = k - n
         /\ Len(SubSeq(t, 1, k)) = k
         /\ Len(SubSeq(SubSeq(t, 1, n), 1, Fits(n))) = Fits(n)
         /\ Fits(n) + Lesser(k - n, Cap - Fits(n)) = Fits(k)
         /\ SubSeq(SubSeq(t, 1, n), 1, Fits(n))
              \o SubSeq(SubSeq(t, n + 1, k), 1, Lesser(k - n, Cap - Fits(n)))
              = SubSeq(SubSeq(t, 1, k), 1, Fits(k))
<1>0. PICK w, v, p : /\ w = SubSeq(t, 1, n) /\ v = SubSeq(w, 1, Fits(n))
                     /\ p = SubSeq(t, n + 1, k)
  OBVIOUS
<1>1. PICK e \in Nat : e = Len(t) /\ t \in [1..e -> Bytes]
  BY LenProperties
<1>2. w \in Seq(Bytes) /\ Len(w) = n
  BY <1>0, Prefix
<1>3. PICK x \in 0..n : x = Fits(n) /\ x = IF n > Cap THEN Cap ELSE n
  BY <1>1 DEF Fits
<1>4. v \in Seq(Bytes) /\ Len(v) = x
  BY <1>0, <1>2, <1>3, Prefix
<1>5. n \in Nat /\ k \in Nat /\ n < k /\ k <= e
  BY <1>1
<1>6. v = SubSeq(t, 1, x)
  <2>1. CASE x = 0
    <3>1. SubSeq(w, 1, 0) = <<>> /\ SubSeq(t, 1, 0) = <<>>
      BY SubSeqEmpty
    <3>. QED
      BY <1>0, <1>3, <2>1, <3>1
  <2>2. CASE x # 0
    <3>1. 1 \in 1..n /\ x \in 1..n
      BY <1>3, <1>5, <2>2
    <3>2. SubSeq(w, 1, x) = SubSeq(t, 1, x)
      BY <1>0, <3>1, Prefix
    <3>. QED
      BY <1>0, <1>3, <3>2
  <2>. QED
    BY <2>1, <2>2
<1>7. p \in Seq(Bytes) /\ Len(p) = k - n
  <2>1. \A j \in n + 1..k : t[j] \in Bytes
    BY <1>1, <1>5
  <2>2. n + 1 \in Int /\ k \in Int /\ n + 1 <= k /\ k - (n + 1) + 1 = k - n
    BY <1>5
  <2>3. p \in Seq(Bytes) /\ Len(p) = k - (n + 1) + 1
    BY <1>0, <2>1, <2>2, SubSeqProperties
  <2>. QED
    BY <2>2, <2>3
<1>8. PICK u : u = SubSeq(t, 1, k)
  OBVIOUS
<1>9. u \in Seq(Bytes) /\ Len(u) = k
  BY <1>1, <1>5, <1>8, Prefix
<1>10. PICK y \in 0..k : y = Fits(k) /\ y = IF k > Cap THEN Cap ELSE k
  BY <1>5 DEF Fits
<1>11. PICK z \in Nat : z = Lesser(k - n, Cap - x) /\ z = IF k - n > Cap - x THEN Cap - x ELSE k - n
  <2>1. x <= Cap /\ x \in Nat
    BY <1>3, <1>5
  <2>2. Cap - x \in Nat /\ k - n \in Nat
    BY <1>5, <2>1
  <2>. QED
    BY <2>2 DEF Lesser
<1>12. x + z = y /\ z <= k - n
  BY <1>3, <1>5, <1>10, <1>11
<1>13. SubSeq(p, 1, z) = SubSeq(t, n + 1, n + z)
  <2>1. CASE z = 0
    <3>1. SubSeq(p, 1, 0) = <<>> /\ SubSeq(t, n + 1, n) = <<>>
      BY <1>5, SubSeqEmpty
    <3>. QED
      BY <1>5, <2>1, <3>1
  <2>2. CASE z # 0
    <3>1. /\ n + 1 \in 1..e /\ k \in 1..e
          /\ 1 \in 1..k - (n + 1) + 1 /\ z \in 1..k - (n + 1) + 1
      BY <1>5, <1>12, <2>2
    <3>2. SubSeq(SubSeq(t, n + 1, k), 1, z) = SubSeq(t, n + 1 + 1 - 1, n + 1 + z - 1)
      BY <1>1, <3>1, SubSeqOfSubSeq
    <3>3. n + 1 + 1 - 1 = n + 1 /\ n + 1 + z - 1 = n + z
      BY <1>5
    <3>. QED
      BY <1>0, <3>2, <3>3
  <2>. QED
    BY <2>1, <2>2
<1>14. SubSeq(u, 1, y) = SubSeq(t, 1, y)
  <2>1. CASE y = 0
    <3>1. SubSeq(u, 1, 0) = <<>> /\ SubSeq(t, 1, 0) = <<>>
      BY SubSeqEmpty
    <3>. QED
      BY <2>1, <3>1
  <2>2. CASE y # 0
    <3>1. 1 \in 1..k /\ y \in 1..k
      BY <1>5, <2>2
    <3>. QED
      BY <1>1, <1>5, <1>8, <3>1, Prefix
  <2>. QED
    BY <2>1, <2>2
<1>15. SubSeq(t, 1, x) \o SubSeq(p, 1, z) = SubSeq(t, 1, y)
  <2>1. CASE x = n
    <3>1. 1 \in 1..e + 1 /\ n \in 1 - 1..e /\ n + z \in n..e
      BY <1>5, <1>12
    <3>2. SubSeq(t, 1, n) \o SubSeq(t, n + 1, n + z) = SubSeq(t, 1, n + z)
      BY <1>1, <3>1, ConcatAdjacentSubSeq
    <3>. QED
      BY <1>12, <1>13, <2>1, <3>2
  <2>2. CASE x # n
    <3>1. z = 0 /\ y = x
      BY <1>3, <1>5, <1>11, <1>12, <2>2
    <3>2. SubSeq(p, 1, 0) = <<>>
      BY SubSeqEmpty
    <3>3. SubSeq(t, 1, x) \in Seq(Bytes)
      BY <1>4, <1>6
    <3>. QED
      BY <3>1, <3>2, <3>3, ConcatEmptySeq
  <2>. QED
    BY <2>1, <2>2
<1>16. v \o SubSeq(p, 1, z) = SubSeq(u, 1, y)
  BY <1>6, <1>14, <1>15
<1>17. z = Lesser(k - n, Cap - Fits(n))
  BY <1>3, <1>11
<1>. QED
  BY <1>0, <1>3, <1>4, <1>7, <1>8, <1>9, <1>10, <1>12, <1>16, <1>17

\* Every write appends; the writer cuts it at the cap.
LEMMA OutputStep ==
  ASSUME OutputOK, [Next]_vars
  PROVE  OutputOK'
<1>1. CASE Writes
  <2>1. PICK k \in Len(written) + 1..Len(text) :
          /\ written' = SubSeq(text, 1, k)
          /\ CappedWrite(SubSeq(text, Len(written) + 1, k))
    BY <1>1 DEF Writes
  <2>2. text' = text
    BY <1>1 DEF Writes, given
  <2>3. PICK t \in Seq(Bytes) : t = text
    BY DEF OutputOK
  <2>4. PICK n \in 0..Len(t) : n = Len(written)
    <3>1. Len(written) \in 0..Len(t)
      BY <2>3 DEF OutputOK
    <3>. QED
      BY <3>1
  <2>5. k \in n + 1..Len(t) /\ Cap \in Nat
    BY <2>1, <2>3, <2>4, ExecAssumption
  <2>6. PICK p, u, v : /\ p = SubSeq(t, n + 1, k) /\ u = SubSeq(t, 1, k)
                       /\ v = SubSeq(SubSeq(t, 1, n), 1, Fits(n))
    OBVIOUS
  <2>7. /\ Len(p) = k - n /\ Len(u) = k /\ Len(v) = Fits(n)
        /\ v \o SubSeq(p, 1, Lesser(k - n, Cap - Fits(n))) = SubSeq(u, 1, Fits(k))
    BY <2>5, <2>6, Appends
  <2>8. v = buf
    BY <2>3, <2>4, <2>6 DEF OutputOK, Kept
  <2>9. p = SubSeq(text, Len(written) + 1, k)
    BY <2>3, <2>4, <2>6
  <2>10. buf' = buf \o SubSeq(p, 1, IF Len(p) > Cap - Len(buf) THEN Cap - Len(buf) ELSE Len(p))
    BY <2>1, <2>9 DEF CappedWrite
  <2>11. truncated' <=> truncated \/ Len(p) > Cap - Len(buf)
    BY <2>1, <2>9 DEF CappedWrite
  <2>12. Len(buf) = Fits(n)
    BY <2>7, <2>8
  <2>13. buf' = SubSeq(u, 1, Fits(k))
    BY <2>7, <2>8, <2>10, <2>12 DEF Lesser
  <2>14. written' = u
    BY <2>1, <2>3, <2>6
  <2>15. truncated' <=> k > Cap
    <3>1. truncated <=> n > Cap
      BY <2>4 DEF OutputOK
    <3>2. n > Cap \/ k - n > Cap - Fits(n) <=> k > Cap
      BY <2>5 DEF Fits
    <3>. QED
      BY <2>7, <2>11, <2>12, <3>1, <3>2
  <2>16. Len(u) = k /\ k \in 0..Len(t)
    BY <2>5, <2>7
  <2>. QED
    BY <2>2, <2>3, <2>6, <2>13, <2>14, <2>15, <2>16 DEF OutputOK, Kept
<1>2. CASE Next /\ ~Writes
  <2>1. UNCHANGED <<text, written, buf, truncated>>
    BY <1>2 DEF Next, Expire, Fork, ChildExits, GrandExits, Start, AssignToKillOnCloseJob,
      WatchCtx, TimeoutCase, Wait, Return, DoExec, given, output
  <2>. QED
    BY <2>1 DEF OutputOK, Kept
<1>3. CASE UNCHANGED vars
  BY <1>3 DEF vars, given, output, OutputOK, Kept
<1>. QED
  BY <1>1, <1>2, <1>3

\* What is returned is what is there to the end: nobody writes any more.
LEMMA TextStep ==
  ASSUME QuietOK, TextOK, [Next]_vars
  PROVE  TextOK'
<1>1. CASE Writes
  <2>1. ~Returned /\ pc' = pc
    BY <1>1 DEF Writes, QuietOK, Returned
  <2>. QED
    BY <2>1 DEF TextOK, Returned
<1>2. CASE Return
  <2>1. UNCHANGED <<plat, buf>> /\ result' = Outcome
    BY <1>2 DEF Return, given, output
  <2>2. Text' = Text
    BY <2>1 DEF Text
  <2>3. Outcome.is # "error" => Outcome.stdout = Text
    BY DEF Outcome
  <2>. QED
    BY <2>1, <2>2, <2>3 DEF TextOK
<1>3. CASE Start
  BY <1>3 DEF Start, TextOK, Returned
<1>4. CASE \/ Expire \/ Fork \/ ChildExits \/ GrandExits \/ AssignToKillOnCloseJob
           \/ WatchCtx \/ TimeoutCase \/ Wait \/ DoExec \/ UNCHANGED vars
  <2>1. UNCHANGED <<plat, buf, result>> /\ (Returned' => Returned)
    BY <1>4 DEF Expire, Fork, ChildExits, GrandExits, AssignToKillOnCloseJob, WatchCtx,
      TimeoutCase, Wait, DoExec, vars, given, output, Returned
  <2>2. Text' = Text
    BY <2>1 DEF Text
  <2>. QED
    BY <2>1, <2>2 DEF TextOK
<1>. QED
  BY <1>1, <1>2, <1>3, <1>4 DEF Next

-----------------------------------------------------------------------------

\* The three together are inductive: what is kept, until when, and what is returned of it.
LEMMA OutputInvariant == Spec => [](QuietOK /\ OutputOK /\ TextOK)
<1>. DEFINE Inv == QuietOK /\ OutputOK /\ TextOK
<1>1. Init => Inv
  <2>. SUFFICES ASSUME Init PROVE Inv
    OBVIOUS
  <2>1. text \in Seq(Bytes) /\ written = <<>> /\ buf = <<>> /\ truncated = FALSE /\ pc = "start"
        /\ child = "none" /\ holds = FALSE
    BY ExecAssumption DEF Init
  <2>2. Len(text) \in Nat /\ Len(<<>>) = 0 /\ Cap \in Nat
    BY <2>1, LenProperties, ExecAssumption
  <2>3. SubSeq(text, 1, 0) = <<>> /\ SubSeq(<<>>, 1, 0) = <<>>
    BY SubSeqEmpty
  <2>4. Kept = 0
    BY <2>1, <2>2 DEF Kept, Fits
  <2>5. OutputOK
    BY <2>1, <2>2, <2>3, <2>4 DEF OutputOK
  <2>. QED
    BY <2>1, <2>5 DEF QuietOK, TextOK, Returned
<1>2. Inv /\ [Next]_vars => Inv'
  BY QuietStep, OutputStep, TextStep
<1>. QED
  BY <1>1, <1>2, PTL DEF Spec

\* Decoded, it is what OutputIsFaithful says.
LEMMA Faithful ==
  ASSUME OutputOK, TextOK, ResultOK, LineOK
  PROVE  OutputIsFaithful
<1>1. buf = SubSeq(written, 1, Kept) /\ (truncated <=> Len(written) > Cap)
  BY DEF OutputOK
<1>2. PICK w \in Seq(Bytes) : w = written
  <2>1. Len(text) \in Nat /\ text \in [1..Len(text) -> Bytes] /\ Len(written) <= Len(text)
    BY LenProperties DEF OutputOK
  <2>2. \A j \in 1..Len(written) : text[j] \in Bytes
    BY <2>1
  <2>. QED
    BY <2>1, <2>2, SubSeqProperties DEF OutputOK
<1>3. PICK n \in Nat : n = Len(w)
  BY LenProperties
<1>4. PICK m \in 0..n : m = Kept /\ m = IF n > Cap THEN Cap ELSE n
  BY <1>2, <1>3, ExecAssumption DEF Kept, Fits
<1>5. PICK b : b = buf /\ b = SubSeq(w, 1, m)
  BY <1>1, <1>2, <1>4
<1>6. b \in Seq(Bytes) /\ Len(b) = m
  BY <1>3, <1>5, Prefix
<1>7. ASSUME Done, plat = "windows", "stdout" \in DOMAIN line
      PROVE  line.stdout = DecodeCodePage(b)
  <2>1. line = ExecLine /\ Returned
    BY <1>7 DEF LineOK, Done, Returned
  <2>2. result.is = "error" \/ result.is = "timedout" \/ result.is = "exit"
    BY <2>1 DEF ResultOK
  <2>3. result.is # "error"
    BY <1>7, <2>1 DEF ExecLine
  <2>4. line.stdout = result.stdout
    BY <2>1, <2>2, <2>3 DEF ExecLine
  <2>5. result.stdout = DecodeCodePage(buf)
    BY <1>7, <2>1, <2>3 DEF TextOK, Text
  <2>. QED
    BY <1>5, <2>4, <2>5
<1>8. PICK t : t = DecodeCodePage(b)
  OBVIOUS
<1>9. /\ Ends(t)[Len(t)] = Len(b)
      /\ \A k \in DOMAIN t : t[k] # Bad => t[k] = SubSeq(b, Ends(t)[k - 1] + 1, Ends(t)[k])
  <2>1. Len(b) \in Nat /\ Spells(t, b, 0, Len(b))
    BY <1>6, <1>8, DecodeSpells, LenProperties
  <2>. QED
    BY <2>1, SpelledEnds
<1>10. ASSUME TryDecode(w)[1], NEW k \in DOMAIN t, t[k] = Bad PROVE k = Len(t) /\ m < n
  BY <1>3, <1>5, <1>8, <1>10, CutText
<1>11. m < n => truncated
  BY <1>1, <1>2, <1>3, <1>4
<1>12. buf = SubSeq(written, 1, IF Len(written) > Cap THEN Cap ELSE Len(written))
  BY <1>1 DEF Kept, Fits
<1>13. Done /\ plat = "windows" /\ "stdout" \in DOMAIN line =>
         /\ Ends(line.stdout)[Len(line.stdout)] = Len(buf)
         /\ \A k \in DOMAIN line.stdout : line.stdout[k] # Bad =>
              line.stdout[k] = SubSeq(buf, Ends(line.stdout)[k - 1] + 1, Ends(line.stdout)[k])
         /\ TryDecode(written)[1] =>
              \A k \in DOMAIN line.stdout : line.stdout[k] = Bad => k = Len(line.stdout) /\ truncated
  <2>. SUFFICES ASSUME Done, plat = "windows", "stdout" \in DOMAIN line
                PROVE  /\ Ends(t)[Len(t)] = Len(b)
                       /\ \A k \in DOMAIN t : t[k] # Bad =>
                            t[k] = SubSeq(b, Ends(t)[k - 1] + 1, Ends(t)[k])
                       /\ TryDecode(w)[1] =>
                            \A k \in DOMAIN t : t[k] = Bad => k = Len(t) /\ truncated
    BY <1>2, <1>5, <1>7, <1>8
  <2>. QED
    BY <1>9, <1>10, <1>11
<1>. QED
  BY <1>1, <1>12, <1>13 DEF OutputIsFaithful

\* The output of a result line is the first execOutputCap bytes of what was written, said to
\* be cut when it is; DecodeCodePage moves no byte, replaces single ones, and of a valid text
\* at most the character that the cap cuts in two (cappedWriter.Write, decodeCodePage).
THEOREM OutputIsAlwaysFaithful == Spec => []OutputIsFaithful
<1>1. OutputOK /\ TextOK /\ ResultOK /\ LineOK => OutputIsFaithful
  BY Faithful
<1>. QED
  BY <1>1, ExecInvariant, OutputInvariant, PTL
=============================================================================
