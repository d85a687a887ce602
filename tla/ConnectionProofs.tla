------------------------- MODULE ConnectionProofs ---------------------------
(***************************************************************************)
(* Proofs about the two connections a run is relayed over: RemoteRun, the  *)
(* ssh wrapper's, and BridgePipe, the Windows named pipe. Of RemoteRun,    *)
(* that what the wrapper prints and exits with is true of the far side,    *)
(* that the local files agree with the results, and that a relayed run     *)
(* keeps RunContract, for sequences of any length, wherever the connection *)
(* breaks. Of BridgePipe, the invariant that ties the two ends of the pipe *)
(* and the threads that share its handle, for any number of bridges and    *)
(* callers and runs of any length, and that a caller reads the end of its  *)
(* run unless the bridge was stopped.                                      *)
(***************************************************************************)
EXTENDS RemoteRun, BridgePipe, SequenceTheorems, FiniteSetTheorems, TLAPS

Statuses == LineStatuses \cup {"ok", "warn", "err", "skip"}
Events ==
  {StartEv, UnknownEv}
    \cup [ev : {"result"}, line : Nat \ {0}, status : Statuses, src : {"op", "cap", "release"}]
    \cup [ev : {"done"}, ok : Nat, err : Nat, skip : Nat]
    \cup [ev : {"abort"}, code : AbortCodes]

-----------------------------------------------------------------------------
(* The invariant, part by part.                                            *)

\* The types.
Contents == {"none", "own", "empty", "png", "text", "part"}
Typed ==
  /\ n \in Nat /\ kg \in BOOLEAN /\ kinds \in [1..n -> LineKinds] /\ jsonl \in BOOLEAN
  /\ fout \in Seq(Events) /\ fproc \in {"running", "exited", "killed"}
  /\ sent \in BOOLEAN /\ up \in BOOLEAN /\ cut \in Nat /\ read \in Nat
  /\ here \in {"rewrite", "spawn", "noSpawn", "waitForStart", "noStart", "first", "aborted",
               "stream", "unknown", "drain", "ended", "exited", "killed"}
  /\ out \in Seq(Events)
  /\ files \in [1..n -> Contents]

\* One result per line, in order; an extra capture comes right after its err.
LinesRise(s) ==
  /\ \A i \in DOMAIN s : IsLine(s[i]) => s[i].line <= LinesDone(s)
  /\ \A i, j \in DOMAIN s : IsLine(s[i]) /\ IsLine(s[j]) /\ i < j => s[i].line < s[j].line
FailedAt(s, i) == IsLine(s[i]) /\ s[i].status = "err"
ExtrasFollow(s) ==
  \A i \in DOMAIN s : IsResult(s[i]) /\ s[i].src = "cap" =>
    i > 1 /\ FailedAt(s, i - 1) /\ s[i - 1].line = s[i].line

\* The far side keeps the contract, event by event.
FarKeeps(s) ==
  /\ s # <<>> /\ s[1] = StartEv => \A i \in DOMAIN s : Far!Follows(SubSeq(s, 1, i - 1), s[i])
  /\ s # <<>> /\ s[1] # StartEv => Ends(s[1])
  /\ \A i \in DOMAIN s : Ends(s[i]) => i = Len(s)
  /\ \A i \in DOMAIN s : s[i].ev = "abort" => i <= 2
  /\ \A i \in DOMAIN s : s[i] = StartEv => i = 1
  /\ LinesDone(s) <= n
  /\ \A i \in DOMAIN s : IsLine(s[i]) => s[i].line <= n
  /\ \A i \in DOMAIN s : IsResult(s[i]) /\ s[i].src = "cap" => s[i].status \in {"ok", "err"}
  /\ LinesRise(s) /\ ExtrasFollow(s)
FarFollows == FarKeeps(fout)

\* What is read has been printed.
LinkPlace ==
  /\ cut <= Len(fout) /\ read <= Len(fout)
  /\ here \in {"rewrite", "spawn", "noSpawn"} => ~sent
  /\ ~sent => fout = <<>> /\ here \in {"rewrite", "spawn", "noSpawn", "ended", "exited", "killed"}

\* What is printed is what was read, by where runRemote stands.
Same(e, f) == e = f \/ SameResult(e, f)
Aligned(k) == k <= Len(fout) /\ \A j \in 1..k : Same(out[j], fout[j])
OutFollows ==
  /\ here \in {"rewrite", "spawn", "noSpawn", "waitForStart", "noStart", "first", "aborted"} => out = <<>>
  /\ here \in {"rewrite", "spawn", "noSpawn", "waitForStart", "noStart"} => read = 0
  /\ here \in {"first", "aborted"} => read = 1
  /\ here = "aborted" => Len(fout) > 1 /\ fout[2].ev = "abort"
  /\ here \in {"first", "aborted", "stream", "unknown", "drain"} => fout # <<>> /\ fout[1] = StartEv
  /\ here = "stream" => /\ read > 0 /\ Len(out) = read /\ Aligned(read) /\ ~Ends(out[Len(out)])
                        /\ Len(fout) > 1 /\ fout[2].ev # "abort"
  /\ here = "unknown" => out # <<>> /\ Aligned(Len(out)) /\ ~Ends(out[Len(out)])
  /\ \A i \in DOMAIN out : IsResult(out[i]) => Aligned(i)

\* No line has run over there, nor will.
NoRun ==
  /\ \A i \in DOMAIN fout : ~IsResult(fout[i])
  /\ fout # <<>> /\ Ends(fout[Len(fout)])

\* The last line printed is true.
TrueEnd(e) ==
  \/ e = UnknownEv
  \/ e.ev = "abort" /\ (e.code = "E_CONNECT" \/ NoRun)
  \/ e.ev = "done" /\ Len(out) = Len(fout) /\ fout[Len(fout)] = e
Verdict ==
  /\ here \in {"drain", "ended"} => out # <<>> /\ TrueEnd(out[Len(out)])
  /\ here = "exited" => \/ code = 2 /\ ~sent
                        \/ out # <<>> /\ TrueEnd(out[Len(out)]) /\ code = ExitFor(out[Len(out)])

\* A run without cap lines is printed as it was read.
Copied ==
  "cap" \notin LineKinds /\ here \in {"stream", "unknown"} =>
     Len(out) <= Len(fout) /\ \A i \in DOMAIN out : out[i] = fout[i] /\ ~Ends(out[i])

\* Where a file may be half written, and which lines name none.
FilesPlace ==
  /\ here \in {"stream", "unknown"} => \A i \in DOMAIN out : out[i].ev # "done"
  /\ \A l \in 1..n : files[l] = "part" => here \in {"unknown", "ended", "exited", "killed"}
  /\ \A l \in 1..n : files[l] = "none" => kinds[l] = "plain"

RemoteInv ==
  /\ Typed /\ FarFollows /\ LinkPlace /\ OutFollows /\ Verdict /\ Copied /\ FilesFollowResults /\ FilesPlace

-----------------------------------------------------------------------------
(* The far side's events.                                                  *)

LEMMA EventsMade ==
  /\ StartEv \in Events /\ UnknownEv \in Events
  /\ \A c \in AbortCodes : AbortEv(c) \in Events
BY DEF Events, AbortEv

\* Positions counted, here and in the instance.
LEMMA CountsAreNat ==
  ASSUME NEW s \in Seq(Events), NEW T \in SUBSET DOMAIN s
  PROVE  IsFiniteSet(T) /\ Cardinality(T) \in Nat
<1>1. IsFiniteSet(1..Len(s))
  BY FS_Interval
<1>. QED
  BY <1>1, FS_Subset, FS_CardinalityType

LEMMA SameCount ==
  ASSUME NEW S
  PROVE  Far!Cardinality(S) = Cardinality(S)
BY DEF Far!Cardinality, Cardinality

LEMMA SameLines ==
  ASSUME NEW s
  PROVE  Far!LinesDone(s) = LinesDone(s)
BY SameCount DEF Far!LinesDone, LinesDone, Far!IsLine, IsLine

LEMMA LinesCounted ==
  ASSUME NEW s \in Seq(Events)
  PROVE  LinesDone(s) \in Nat
<1>. DEFINE T == {i \in DOMAIN s : IsLine(s[i])}
<1>1. T \in SUBSET DOMAIN s
  OBVIOUS
<1>. QED
  BY <1>1, CountsAreNat DEF LinesDone

LEMMA ResultsCounted ==
  ASSUME NEW s \in Seq(Events), NEW S
  PROVE  Far!Counted(s, S) \in Nat
<1>. DEFINE T == {i \in DOMAIN s : Far!IsResult(s[i]) /\ s[i].src # "release" /\ s[i].status \in S}
<1>1. T \in SUBSET DOMAIN s
  OBVIOUS
<1>2. Cardinality(T) \in Nat
  BY <1>1, CountsAreNat
<1>. QED
  BY <1>2, SameCount DEF Far!Counted

\* One more event.
LEMMA Appended ==
  ASSUME NEW s \in Seq(Events), NEW e \in Events, NEW t, t = Append(s, e)
  PROVE  /\ t \in Seq(Events) /\ Len(t) = Len(s) + 1 /\ t # <<>>
         /\ t[Len(t)] = e /\ \A i \in 1..Len(s) : t[i] = s[i]
         /\ \A i \in DOMAIN t : i = Len(t) \/ i \in 1..Len(s)
         /\ DOMAIN t = 1..(Len(s) + 1)
OBVIOUS

LEMMA Before ==
  ASSUME NEW s \in Seq(Events), NEW e \in Events, NEW t, t = Append(s, e)
  PROVE  /\ \A i \in 1..Len(s) : SubSeq(t, 1, i - 1) = SubSeq(s, 1, i - 1)
         /\ SubSeq(t, 1, Len(t) - 1) = s
OBVIOUS

\* A line more.
LEMMA LinesAppended ==
  ASSUME NEW s \in Seq(Events), NEW e \in Events
  PROVE  LinesDone(Append(s, e)) = IF IsLine(e) THEN LinesDone(s) + 1 ELSE LinesDone(s)
<1>. DEFINE t == Append(s, e)
            S == {i \in DOMAIN s : IsLine(s[i])}
            T == {i \in DOMAIN t : IsLine(t[i])}
<1>1. S \in SUBSET DOMAIN s /\ Len(s) + 1 \notin S
  OBVIOUS
<1>2. IsFiniteSet(S)
  BY <1>1, CountsAreNat
<1>3. T = IF IsLine(e) THEN S \cup {Len(s) + 1} ELSE S
  <2>1. /\ Len(t) = Len(s) + 1 /\ t[Len(s) + 1] = e /\ \A i \in 1..Len(s) : t[i] = s[i]
        /\ DOMAIN t = DOMAIN s \cup {Len(s) + 1}
    OBVIOUS
  <2>2. \A i : i \in T <=> (i \in S \/ (i = Len(s) + 1 /\ IsLine(e)))
    BY <2>1
  <2>. HIDE DEF S, T
  <2>. QED
    BY <2>2
<1>4. CASE IsLine(e)
  <2>1. Cardinality(S \cup {Len(s) + 1}) = Cardinality(S) + 1
    BY <1>1, <1>2, FS_AddElement
  <2>. QED
    BY <1>3, <1>4, <2>1 DEF LinesDone
<1>5. CASE ~IsLine(e)
  BY <1>3, <1>5 DEF LinesDone
<1>. QED
  BY <1>4, <1>5

\* What an event that may follow says.
LEMMA FollowsMeans ==
  ASSUME Typed, NEW s \in Seq(Events), FarKeeps(s), s # <<>>, NEW e, Far!Follows(s, e)
  PROVE  /\ e \in Events /\ e # StartEv /\ ~Ends(s[Len(s)])
         /\ e.ev = "abort" => \A i \in DOMAIN s : s[i] = StartEv
         /\ IsLine(e) => e.line = LinesDone(s) + 1 /\ e.line <= n
         /\ IsResult(e) /\ e.src = "cap" => e.status \in {"ok", "err"}
         /\ IsResult(e) /\ e.src = "cap" => FailedAt(s, Len(s)) /\ e.line = s[Len(s)].line
<1>1. ~Ends(s[Len(s)])
  BY DEF Far!Follows, Far!Open, Far!Ends, Ends
<1>2. CASE ~Far!AllDone(s) /\ e \in Far!NextLine(s)
  <2>1. LinesDone(s) \in Nat /\ LinesDone(s) # n /\ LinesDone(s) <= n
    BY <1>2, SameLines, LinesCounted DEF Far!AllDone, FarKeeps
  <2>2. PICK st \in Statuses : e = [ev |-> "result", line |-> LinesDone(s) + 1, status |-> st, src |-> "op"]
    BY <1>2, SameLines DEF Far!NextLine, Far!ResultEv, Statuses
  <2>3. LinesDone(s) + 1 \in Nat \ {0} /\ LinesDone(s) + 1 <= n
    BY <2>1 DEF Typed
  <2>4. e \in Events
    BY <2>2, <2>3 DEF Events
  <2>. QED
    BY <1>1, <2>2, <2>3, <2>4 DEF StartEv
<1>3. CASE Far!FailedLast(s) /\ e \in Far!Extra(s)
  <2>1. s[Len(s)] \in Events /\ IsResult(s[Len(s)])
    BY <1>3 DEF Far!FailedLast, Far!IsLine, IsResult
  <2>2. s[Len(s)].line \in Nat \ {0}
    BY <2>1 DEF Events, IsResult, StartEv, UnknownEv
  <2>3. PICK st \in {"ok", "err"} : e = [ev |-> "result", line |-> s[Len(s)].line, status |-> st, src |-> "cap"]
    BY <1>3 DEF Far!Extra, Far!ResultEv
  <2>4. e \in Events
    BY <2>2, <2>3 DEF Events, Statuses
  <2>5. FailedAt(s, Len(s))
    BY <1>3 DEF Far!FailedLast, Far!IsLine, IsLine, FailedAt
  <2>. QED
    BY <1>1, <2>3, <2>4, <2>5 DEF StartEv, IsLine
<1>4. ASSUME NEW l \in 1..n, e = Far!ResultEv(l, "warn", "release")
      PROVE  e \in Events /\ e.ev = "result" /\ e.src = "release"
  BY <1>4 DEF Events, Statuses, Far!ResultEv, Typed
<1>5. ASSUME Far!NoResultYet(s), NEW c \in Far!AbortCodes, e = Far!AbortEv(c)
      PROVE  e \in Events /\ e.ev = "abort" /\ \A i \in DOMAIN s : s[i] = StartEv
  <2>1. c \in AbortCodes /\ e = AbortEv(c)
    BY <1>5 DEF AbortCodes, Far!AbortCodes, AbortEv, Far!AbortEv
  <2>. QED
    BY <1>5, <2>1, EventsMade DEF AbortEv, Far!NoResultYet, StartEv, Far!StartEv
<1>6. CASE e = Far!TrueDone(s)
  <2>1. e \in [ev : {"done"}, ok : Nat, err : Nat, skip : Nat]
    BY <1>6, ResultsCounted DEF Far!TrueDone, Far!DoneEv
  <2>. QED
    BY <1>1, <2>1 DEF Events, StartEv, IsLine, IsResult
<1>7. CASE e = Far!UnknownEv
  BY <1>1, <1>7, EventsMade DEF UnknownEv, Far!UnknownEv, StartEv, IsLine, IsResult
<1>. QED
  BY <1>1, <1>2, <1>3, <1>4, <1>5, <1>6, <1>7 DEF Far!Follows, StartEv, IsLine, IsResult

\* The contract kept so far is kept by an event that may follow.
LEMMA KeptByFollowing ==
  ASSUME Typed, NEW s \in Seq(Events), FarKeeps(s), s # <<>>, NEW e \in Events, Far!Follows(s, e)
  PROVE  FarKeeps(Append(s, e))
<1>. DEFINE t == Append(s, e)
<1>. HIDE DEF t
<1>1. /\ t \in Seq(Events) /\ Len(t) = Len(s) + 1 /\ t # <<>> /\ t[Len(t)] = e
      /\ \A i \in 1..Len(s) : t[i] = s[i]
      /\ \A i \in DOMAIN t : i = Len(t) \/ i \in 1..Len(s)
      /\ DOMAIN s = 1..Len(s) /\ Len(s) \in Nat /\ 1 \in 1..Len(s) /\ Len(s) \in 1..Len(s)
  BY Appended DEF t
<1>2. \A i \in 1..Len(s) : ~Ends(s[i])
  BY <1>1, FollowsMeans DEF FarKeeps
<1>3. s[1] = StartEv /\ t[1] = StartEv
  BY <1>1, <1>2 DEF FarKeeps
<1>4. \A i \in DOMAIN t : Far!Follows(SubSeq(t, 1, i - 1), t[i])
  <2>. SUFFICES ASSUME NEW i \in DOMAIN t PROVE Far!Follows(SubSeq(t, 1, i - 1), t[i])
    OBVIOUS
  <2>1. CASE i = Len(t)
    <3>1. SubSeq(t, 1, i - 1) = s /\ t[i] = e
      BY <1>1, <2>1, Before DEF t
    <3>. QED
      BY <3>1
  <2>2. CASE i \in 1..Len(s)
    <3>1. SubSeq(t, 1, i - 1) = SubSeq(s, 1, i - 1) /\ t[i] = s[i]
      BY <1>1, <2>2, Before DEF t
    <3>2. Far!Follows(SubSeq(s, 1, i - 1), s[i])
      BY <1>1, <1>3, <2>2 DEF FarKeeps
    <3>. QED
      BY <3>1, <3>2
  <2>. QED
    BY <1>1, <2>1, <2>2
<1>5. \A i \in DOMAIN t : Ends(t[i]) => i = Len(t)
  BY <1>1, <1>2
<1>6. \A i \in DOMAIN t : t[i].ev = "abort" => i <= 2
  <2>1. e.ev = "abort" => Len(s) = 1
    BY <1>1, FollowsMeans DEF FarKeeps
  <2>2. \A i \in 1..Len(s) : s[i].ev = "abort" => i <= 2
    BY <1>1 DEF FarKeeps
  <2>. QED
    BY <1>1, <2>1, <2>2
<1>7. \A i \in DOMAIN t : t[i] = StartEv => i = 1
  <2>1. e # StartEv
    BY FollowsMeans
  <2>2. \A i \in 1..Len(s) : s[i] = StartEv => i = 1
    BY <1>1 DEF FarKeeps
  <2>. QED
    BY <1>1, <2>1, <2>2
<1>8. LinesDone(t) <= n
  <2>1. LinesDone(t) = IF IsLine(e) THEN LinesDone(s) + 1 ELSE LinesDone(s)
    BY LinesAppended DEF t
  <2>2. LinesDone(s) <= n /\ (IsLine(e) => LinesDone(s) + 1 <= n)
    <3>1. IsLine(e) => e.line = LinesDone(s) + 1 /\ e.line <= n
      BY FollowsMeans
    <3>. QED
      BY <3>1 DEF FarKeeps
  <2>. QED
    BY <2>1, <2>2
<1>9. \A i \in DOMAIN t : IsLine(t[i]) => t[i].line <= n
  <2>1. \A i \in 1..Len(s) : IsLine(s[i]) => s[i].line <= n
    BY <1>1 DEF FarKeeps
  <2>. QED
    BY <1>1, <2>1, FollowsMeans
<1>10. \A i \in DOMAIN t : IsResult(t[i]) /\ t[i].src = "cap" => t[i].status \in {"ok", "err"}
  <2>1. \A i \in 1..Len(s) : IsResult(s[i]) /\ s[i].src = "cap" => s[i].status \in {"ok", "err"}
    BY <1>1 DEF FarKeeps
  <2>2. IsResult(e) /\ e.src = "cap" => e.status \in {"ok", "err"}
    BY FollowsMeans
  <2>. QED
    BY <1>1, <2>1, <2>2
<1>11. LinesRise(t)
  <2>1. LinesDone(t) = (IF IsLine(e) THEN LinesDone(s) + 1 ELSE LinesDone(s)) /\ LinesDone(s) \in Nat
    BY LinesAppended, LinesCounted DEF t
  <2>2. IsLine(e) => e.line = LinesDone(s) + 1
    BY FollowsMeans
  <2>3. \A i \in 1..Len(s) : IsLine(s[i]) => s[i].line <= LinesDone(s) /\ s[i].line \in Nat
    <3>1. \A i \in 1..Len(s) : s[i] \in Events
      BY <1>1
    <3>2. \A f \in Events : IsLine(f) => f.line \in Nat
      BY DEF Events, IsLine, StartEv, UnknownEv
    <3>. QED
      BY <1>1, <3>1, <3>2 DEF FarKeeps, LinesRise
  <2>4. \A i, j \in 1..Len(s) : IsLine(s[i]) /\ IsLine(s[j]) /\ i < j => s[i].line < s[j].line
    BY <1>1 DEF FarKeeps, LinesRise
  <2>5. \A i \in DOMAIN t : IsLine(t[i]) => t[i].line <= LinesDone(t)
    BY <1>1, <2>1, <2>2, <2>3
  <2>6. \A i, j \in DOMAIN t : IsLine(t[i]) /\ IsLine(t[j]) /\ i < j => t[i].line < t[j].line
    <3>. SUFFICES ASSUME NEW i \in DOMAIN t, NEW j \in DOMAIN t, IsLine(t[i]), IsLine(t[j]), i < j
                  PROVE  t[i].line < t[j].line
      OBVIOUS
    <3>1. i \in 1..Len(s) /\ t[i] = s[i]
      BY <1>1
    <3>2. CASE j \in 1..Len(s)
      BY <1>1, <2>4, <3>1, <3>2
    <3>3. CASE j = Len(t)
      <4>1. t[j] = e /\ e.line = LinesDone(s) + 1
        BY <1>1, <2>2, <3>3
      <4>2. s[i].line <= LinesDone(s) /\ s[i].line \in Nat
        BY <2>3, <3>1
      <4>. QED
        BY <2>1, <3>1, <4>1, <4>2
    <3>. QED
      BY <1>1, <3>2, <3>3
  <2>. QED
    BY <2>5, <2>6 DEF LinesRise
<1>12. ExtrasFollow(t)
  <2>1. IsResult(e) /\ e.src = "cap" => FailedAt(s, Len(s)) /\ e.line = s[Len(s)].line
    BY FollowsMeans
  <2>2. \A i \in 1..Len(s) : IsResult(s[i]) /\ s[i].src = "cap" =>
          i > 1 /\ FailedAt(s, i - 1) /\ s[i - 1].line = s[i].line
    BY <1>1 DEF FarKeeps, ExtrasFollow
  <2>. QED
    BY <1>1, <2>1, <2>2 DEF ExtrasFollow, FailedAt
<1>. QED
  BY <1>3, <1>4, <1>5, <1>6, <1>7, <1>8, <1>9, <1>10, <1>11, <1>12 DEF FarKeeps, t

\* The first event is start, or an abort and the last.
LEMMA NoLinesYet ==
  ASSUME NEW e \in Events, ~IsResult(e)
  PROVE  LinesDone(<<>>) = 0 /\ LinesDone(<<e>>) = 0
<1>1. {i \in DOMAIN <<>> : IsLine(<<>>[i])} = {}
  OBVIOUS
<1>2. {i \in DOMAIN <<e>> : IsLine(<<e>>[i])} = {}
  <2>1. DOMAIN <<e>> = {1} /\ <<e>>[1] = e /\ ~IsLine(e)
    BY DEF IsLine, IsResult
  <2>. QED
    BY <2>1
<1>. QED
  BY <1>1, <1>2, FS_EmptySet DEF LinesDone

LEMMA KeptByFirst ==
  ASSUME Typed, NEW e \in Events, e = StartEv \/ e.ev = "abort"
  PROVE  FarKeeps(<<e>>)
<1>1. ~IsResult(e) /\ (e # StartEv => Ends(e))
  BY DEF IsResult, StartEv, Ends
<1>. DEFINE s == <<e>>
<1>2. s # <<>> /\ Len(s) = 1 /\ s[1] = e /\ DOMAIN s = {1} /\ SubSeq(s, 1, 0) = <<>>
  OBVIOUS
<1>3. LinesDone(s) <= n
  BY <1>1, NoLinesYet DEF Typed
<1>. HIDE DEF s
<1>4. e = StartEv => Far!Follows(<<>>, e)
  BY DEF Far!Follows, StartEv, Far!StartEv
<1>5. s[1] = StartEv => \A i \in DOMAIN s : Far!Follows(SubSeq(s, 1, i - 1), s[i])
  <2>. SUFFICES ASSUME s[1] = StartEv, NEW i \in DOMAIN s PROVE Far!Follows(SubSeq(s, 1, i - 1), s[i])
    OBVIOUS
  <2>1. i = 1 /\ i - 1 = 0
    BY <1>2
  <2>. QED
    BY <1>2, <1>4, <2>1
<1>6. \A i \in DOMAIN s : i = 1 /\ ~IsLine(s[i]) /\ ~IsResult(s[i])
  BY <1>1, <1>2 DEF IsLine, IsResult
<1>7. FarKeeps(s)
  BY <1>1, <1>2, <1>3, <1>5, <1>6 DEF FarKeeps, LinesRise, ExtrasFollow
<1>. QED
  BY <1>7 DEF s

\* Two events in a row.
LEMMA Joined ==
  ASSUME NEW a \in Events, NEW b \in Events
  PROVE  <<a>> \o <<b>> = <<a, b>>
<1>1. <<a>> \in Seq(Events) /\ <<b>> \in Seq(Events) /\ <<a, b>> \in Seq(Events)
  OBVIOUS
<1>2. Len(<<a>> \o <<b>>) = 2 /\ \A i \in 1..2 : (<<a>> \o <<b>>)[i] = <<a, b>>[i]
  BY <1>1, ConcatProperties
<1>3. <<a>> \o <<b>> \in Seq(Events) /\ Len(<<a, b>>) = 2
  BY <1>1, ConcatProperties
<1>. QED
  BY <1>1, <1>2, <1>3, SeqEqual

\* What the far side keeps depends on the request alone.
LEMMA KeepsStays ==
  ASSUME n' = n, kg' = kg, NEW s
  PROVE  FarKeeps(s)' <=> FarKeeps(s)
<1>1. Far!AllDone(s)' <=> Far!AllDone(s)
  BY DEF Far!AllDone
<1>. DEFINE F(t, e) == Far!Follows(t, e)
<1>2. \A t, e : F(t, e)' <=> F(t, e)
  <2>. SUFFICES ASSUME NEW t, NEW e PROVE F(t, e)' <=> F(t, e)
    OBVIOUS
  <2>1. Far!AllDone(t)' <=> Far!AllDone(t)
    BY DEF Far!AllDone
  <2>2. Far!NextLine(t)' = Far!NextLine(t)
    BY DEF Far!NextLine, Far!MustSkip
  <2>. QED
    BY <2>1, <2>2 DEF Far!Follows
<1>. QED
  BY <1>2 DEF FarKeeps

\* A step of the far side.
LEMMA FarGrows ==
  ASSUME Typed, FarFollows, FarStep
  PROVE  /\ sent /\ UNCHANGED <<call, link, local>>
         /\ fout' \in Seq(Events) /\ Len(fout) <= Len(fout') /\ FarFollows'
         /\ fproc' \in {"running", "exited", "killed"}
         /\ \A i \in 1..Len(fout) : fout'[i] = fout[i]
         /\ fout # <<>> /\ Ends(fout[Len(fout)]) => fout' = fout
<1>1. /\ sent /\ UNCHANGED <<kinds, jsonl, link, local>> /\ Far!Next
      /\ fout \in Seq(Events) /\ FarKeeps(fout)
  BY DEF FarStep, FarFollows, Typed
<1>2. UNCHANGED <<n, kg>> /\ fproc' \in {"running", "exited", "killed"}
  BY <1>1 DEF Typed, Far!Next, Far!Start, Far!Line, Far!ExtraCapture, Far!Abort, Far!Done, Far!DoneUnknown,
              Far!Exit, Far!Refuse, Far!Killed, Far!AutoRelease, Far!Prints
<1>. DEFINE Goal == /\ fout' \in Seq(Events) /\ Len(fout) <= Len(fout') /\ FarKeeps(fout')
                    /\ \A i \in 1..Len(fout) : fout'[i] = fout[i]
                    /\ fout # <<>> /\ Ends(fout[Len(fout)]) => fout' = fout
<1>. SUFFICES Goal
  BY <1>1, <1>2, KeepsStays DEF FarFollows, call
<1>3. CASE fout' = fout
  BY <1>1, <1>3
<1>4. ASSUME fout # <<>>, NEW e, Far!Follows(fout, e), fout' = fout \o <<e>> PROVE Goal
  <2>1. e \in Events /\ ~Ends(fout[Len(fout)])
    BY <1>1, <1>4, FollowsMeans
  <2>2. fout' = Append(fout, e)
    BY <1>1, <1>4, <2>1
  <2>3. FarKeeps(Append(fout, e))
    BY <1>1, <1>4, <2>1, KeptByFollowing
  <2>. QED
    BY <1>1, <2>1, <2>2, <2>3, Appended
<1>5. ASSUME fout = <<>>, NEW e \in Events, e = StartEv \/ e.ev = "abort", fout' = fout \o <<e>> PROVE Goal
  <2>1. fout' = <<e>> /\ Len(fout) = 0
    BY <1>5
  <2>2. FarKeeps(<<e>>) /\ <<e>> \in Seq(Events) /\ Len(<<e>>) = 1
    BY <1>5, KeptByFirst
  <2>. QED
    BY <1>5, <2>1, <2>2
<1>6. ASSUME fout = <<>>, NEW e \in Events, e.ev = "abort" \/ e = UnknownEv,
             Far!Follows(<<StartEv>>, e), fout' = fout \o <<StartEv, e>>
      PROVE  Goal
  <2>1. fout' = Append(<<StartEv>>, e) /\ Len(fout) = 0
    BY <1>6, EventsMade
  <2>2. FarKeeps(<<StartEv>>) /\ <<StartEv>> \in Seq(Events) /\ <<StartEv>> # <<>>
    BY KeptByFirst, EventsMade
  <2>3. FarKeeps(Append(<<StartEv>>, e))
    BY <1>6, <2>2, KeptByFollowing
  <2>4. fout' \in Seq(Events) /\ Len(fout') = 2
    <3>1. fout' \in Seq(Events) /\ Len(fout') = Len(<<StartEv>>) + 1
      BY <1>6, <2>1, <2>2, Appended
    <3>2. Len(<<StartEv>>) = 1
      OBVIOUS
    <3>. QED
      BY <3>1, <3>2
  <2>5. FarKeeps(fout')
    BY <2>1, <2>3
  <2>6. fout = <<>> /\ Len(fout) = 0
    BY <1>6, <2>1
  <2>. QED
    BY <2>4, <2>5, <2>6
<1>. HIDE DEF Goal
<1>7. CASE Far!Start
  <2>1. fout = <<>> /\ fout' = fout \o <<StartEv>>
    BY <1>7 DEF Far!Start, Far!Prints, Far!StartEv, StartEv
  <2>. QED
    BY <1>5, <2>1, EventsMade
<1>8. CASE Far!Line \/ Far!ExtraCapture \/ Far!Done
  <2>1. fout # <<>> /\ Far!Open(fout)
    BY <1>8 DEF Far!Line, Far!ExtraCapture, Far!Done, Far!Started, Far!Running
  <2>2. PICK e : fout' = fout \o <<e>> /\ Far!Follows(fout, e)
    BY <1>8, <2>1 DEF Far!Line, Far!ExtraCapture, Far!Done, Far!Prints, Far!Follows
  <2>. QED
    BY <1>4, <2>1, <2>2
<1>9. ASSUME NEW k \in 1..1, Far!AutoRelease(k) PROVE Goal
  <2>1. k = 1 /\ fout # <<>> /\ Far!Open(fout) /\ Far!AllDone(fout) /\ Far!LateWarns(fout) + 1 <= 1
    BY <1>9 DEF Far!AutoRelease, Far!Started, Far!Running
  <2>2. PICK ls \in [1..1 -> 1..n] : fout' = fout \o Far!Warns(ls)
    BY <1>9, <2>1 DEF Far!AutoRelease, Far!Prints
  <2>3. ls[1] \in 1..n /\ Far!Warns(ls) = <<Far!ResultEv(ls[1], "warn", "release")>>
    BY <2>2 DEF Far!Warns
  <2>4. Far!Follows(fout, Far!ResultEv(ls[1], "warn", "release"))
    BY <2>1, <2>3 DEF Far!Follows
  <2>. QED
    BY <1>4, <2>1, <2>2, <2>3, <2>4
<1>10. CASE Far!Abort
  <2>1. Far!NoResultYet(fout) /\ Far!Open(fout)
    BY <1>10 DEF Far!Abort, Far!Running
  <2>2. PICK c \in Far!AbortCodes : \/ fout' = fout \o <<Far!AbortEv(c)>>
                                    \/ fout = <<>> /\ fout' = fout \o <<Far!StartEv, Far!AbortEv(c)>>
    BY <1>10 DEF Far!Abort, Far!Prints
  <2>3. /\ AbortEv(c) \in Events /\ AbortEv(c).ev = "abort" /\ Far!AbortEv(c) = AbortEv(c) /\ Far!StartEv = StartEv
    BY EventsMade DEF AbortCodes, Far!AbortCodes, AbortEv, Far!AbortEv, StartEv, Far!StartEv
  <2>4. Far!NoResultYet(<<StartEv>>) /\ Far!Open(<<StartEv>>)
    BY DEF Far!NoResultYet, Far!Open, Far!Ends, StartEv, Far!StartEv
  <2>5. Far!Follows(<<StartEv>>, AbortEv(c)) /\ (fout # <<>> => Far!Follows(fout, AbortEv(c)))
    BY <2>1, <2>2, <2>3, <2>4 DEF Far!Follows
  <2>. QED
    BY <1>4, <1>5, <1>6, <2>2, <2>3, <2>5
<1>11. CASE Far!DoneUnknown
  <2>1. Far!Open(fout) /\ Far!StartEv = StartEv /\ Far!UnknownEv = UnknownEv
    BY <1>11 DEF Far!DoneUnknown, Far!Running, StartEv, Far!StartEv, UnknownEv, Far!UnknownEv
  <2>2. fout' = fout \o ((IF fout = <<>> THEN <<StartEv>> ELSE <<>>) \o <<UnknownEv>>)
    BY <1>11, <2>1 DEF Far!DoneUnknown, Far!Prints
  <2>3. CASE fout # <<>>
    <3>1. Far!Follows(fout, UnknownEv)
      BY <2>1, <2>3 DEF Far!Follows
    <3>2. fout' = fout \o (<<>> \o <<UnknownEv>>)
      BY <2>2, <2>3
    <3>3. <<>> \o <<UnknownEv>> = <<UnknownEv>>
      OBVIOUS
    <3>. QED
      BY <1>4, <2>3, <3>1, <3>2, <3>3
  <2>4. CASE fout = <<>>
    <3>1. Far!Follows(<<StartEv>>, UnknownEv)
      BY <2>1 DEF Far!Follows, Far!Open, Far!Ends, StartEv
    <3>2. fout' = fout \o (<<StartEv>> \o <<UnknownEv>>)
      BY <2>2, <2>4
    <3>3. <<StartEv>> \o <<UnknownEv>> = <<StartEv, UnknownEv>>
      BY Joined, EventsMade
    <3>. QED
      BY <1>6, <2>4, <3>1, <3>2, <3>3, EventsMade
  <2>. QED
    BY <2>3, <2>4
<1>12. CASE Far!Exit \/ Far!Refuse \/ Far!Killed
  BY <1>3, <1>12 DEF Far!Exit, Far!Refuse, Far!Killed
<1>. QED
  BY <1>1, <1>7, <1>8, <1>9, <1>10, <1>11, <1>12 DEF Far!Next

-----------------------------------------------------------------------------
(* Each part of the invariant is kept by every step.                       *)

\* What is read is an event.
LEMMA ReadIsEvent ==
  ASSUME Typed, LinkPlace, Ready
  PROVE  /\ Incoming \in Events /\ Incoming = fout[read + 1] /\ read + 1 \in DOMAIN fout
         /\ Incoming.ev = "abort" => Incoming.code \in AbortCodes
         /\ IsResult(Incoming) => Incoming.status \in Statuses /\ Incoming.line \in Nat \ {0}
<1>1. read + 1 \in DOMAIN fout
  BY DEF Typed, LinkPlace, Ready, Arriving
<1>2. Incoming \in Events
  BY <1>1 DEF Typed, Incoming
<1>. QED
  BY <1>1, <1>2 DEF Incoming, Events, StartEv, UnknownEv, IsResult

\* A result as it is printed.
Printed(e) == [e EXCEPT !.status = PrintedStatus(e)]
LEMMA PrintedIsEvent ==
  ASSUME NEW e \in Events, IsResult(e)
  PROVE  /\ Printed(e) \in Events /\ SameResult(Printed(e), e) /\ IsResult(Printed(e)) /\ ~Ends(Printed(e))
         /\ PrintedStatus(e) = e.status => Printed(e) = e
<1>1. e \in [ev : {"result"}, line : Nat \ {0}, status : Statuses, src : {"op", "cap", "release"}]
  BY DEF Events, IsResult, StartEv, UnknownEv
<1>2. PrintedStatus(e) \in Statuses
  BY <1>1 DEF PrintedStatus, Statuses
<1>3. Printed(e) \in [ev : {"result"}, line : Nat \ {0}, status : Statuses, src : {"op", "cap", "release"}]
  BY <1>1, <1>2 DEF Printed
<1>. QED
  BY <1>1, <1>3 DEF Printed, SameResult, IsResult, Ends, Events

LEMMA AbortTyped ==
  ASSUME Typed, NEW c \in AbortCodes, PrintsAbort(c), out = <<>>
  PROVE  /\ out' \in Seq(Events) /\ out' # <<>> /\ out'[Len(out')] = AbortEv(c)
         /\ out' = <<StartEv, AbortEv(c)>> \/ out' = <<AbortEv(c)>>
         /\ \A i \in DOMAIN out' : ~IsResult(out'[i])
<1>1. out' = <<StartEv, AbortEv(c)>> \/ out' = <<AbortEv(c)>>
  <2>1. (IF jsonl THEN <<StartEv, AbortEv(c)>> ELSE <<AbortEv(c)>>) \in {<<StartEv, AbortEv(c)>>, <<AbortEv(c)>>}
    BY Zenon
  <2>2. out' = out \o (IF jsonl THEN <<StartEv, AbortEv(c)>> ELSE <<AbortEv(c)>>)
    BY DEF PrintsAbort, Prints
  <2>. QED
    BY <2>1, <2>2, EventsMade
<1>2. AbortEv(c) \in Events /\ ~IsResult(AbortEv(c)) /\ StartEv \in Events /\ ~IsResult(StartEv)
  BY EventsMade DEF IsResult, StartEv, AbortEv
<1>3. CASE out' = <<AbortEv(c)>>
  BY <1>2, <1>3
<1>4. CASE out' = <<StartEv, AbortEv(c)>>
  BY <1>2, <1>4
<1>. QED
  BY <1>1, <1>3, <1>4

\* The files written.
LEMMA SavedTyped ==
  ASSUME Typed, NEW e
  PROVE  Saved(e) \in [1..n -> Contents] /\ Spoiled(e) \in [1..n -> Contents]
BY DEF Typed, Contents, Saved, Spoiled, CapturesTo, SavesClipboard

\* The types.
LEMMA KeepTyped ==
  ASSUME RemoteInv, [RemoteNext]_remoteVars
  PROVE  Typed'
<1>. USE DEF RemoteInv, Typed, call, link, local
<1>1. CASE FarStep
  BY <1>1, FarGrows
<1>2. CASE Rewrite
  <2>1. sent' \in BOOLEAN
    BY <1>2, Zenon DEF Rewrite, LocalStep
  <2>. QED
    BY <1>2, <2>1 DEF Rewrite, LocalStep
<1>3. CASE Spawn
  <2>1. sent' \in BOOLEAN /\ up' \in BOOLEAN
    BY <1>3, Zenon DEF Spawn, LocalStep
  <2>. QED
    BY <1>3, <2>1 DEF Spawn, LocalStep
<1>4. CASE ConnectAborts
  <2>1. out = <<>>
    BY <1>4 DEF OutFollows, ConnectAborts, LocalStep
  <2>2. out' \in Seq(Events)
    BY <1>4, <2>1, AbortTyped DEF ConnectAborts, AbortCodes
  <2>. QED
    BY <1>4, <2>2 DEF ConnectAborts, LocalStep
<1>5. CASE WaitForStart
  BY <1>5 DEF WaitForStart, LocalStep
<1>6. CASE FirstLine
  <2>1. out = <<>>
    BY <1>6 DEF OutFollows, FirstLine, LocalStep
  <2>2. out' = out \/ out' = out \o <<StartEv>> \/ out' = out \o <<StartEv, UnknownEv>>
    BY <1>6 DEF FirstLine, Prints
  <2>3. out' \in Seq(Events)
    <3>1. <<StartEv>> \in Seq(Events) /\ <<StartEv, UnknownEv>> \in Seq(Events)
      BY EventsMade
    <3>2. out \o <<StartEv>> = <<StartEv>> /\ out \o <<StartEv, UnknownEv>> = <<StartEv, UnknownEv>>
      BY <2>1, <3>1
    <3>3. CASE out' = out
      BY <3>3
    <3>. QED
      BY <2>2, <3>1, <3>2, <3>3
  <2>. QED
    BY <1>6, <2>3 DEF FirstLine, LocalStep
<1>7. CASE RelayAbort
  <2>1. out = <<>>
    BY <1>7 DEF OutFollows, RelayAbort, LocalStep
  <2>2. Incoming.code \in AbortCodes
    <3>1. read = 1 /\ Len(fout) > 1 /\ fout[2].ev = "abort"
      BY <1>7 DEF OutFollows, RelayAbort, LocalStep
    <3>2. Incoming = fout[2] /\ fout[2] \in Events
      BY <3>1 DEF Incoming
    <3>. QED
      BY <3>1, <3>2 DEF Events, StartEv, UnknownEv
  <2>3. out' \in Seq(Events)
    BY <1>7, <2>1, <2>2, AbortTyped DEF RelayAbort
  <2>. QED
    BY <1>7, <2>3 DEF RelayAbort, LocalStep
<1>8. CASE RelayResult
  <2>1. Incoming \in Events /\ IsResult(Incoming)
    BY <1>8, ReadIsEvent DEF RelayResult
  <2>2. out' = out \o <<Printed(Incoming)>> /\ Printed(Incoming) \in Events
    BY <1>8, <2>1, PrintedIsEvent DEF RelayResult, Prints, Printed
  <2>3. out' \in Seq(Events)
    BY <2>2
  <2>4. files' \in [1..n -> Contents]
    BY <1>8, SavedTyped DEF RelayResult
  <2>. QED
    BY <1>8, <2>3, <2>4 DEF RelayResult, LocalStep
<1>9. CASE RelayFails
  <2>1. files' \in [1..n -> Contents]
    BY <1>9, SavedTyped DEF RelayFails
  <2>. QED
    BY <1>9, <2>1 DEF RelayFails, LocalStep
<1>10. CASE RelayDone
  <2>1. Incoming \in Events /\ out' = out \o <<Incoming>>
    BY <1>10, ReadIsEvent DEF RelayDone, Prints
  <2>2. out' \in Seq(Events)
    BY <2>1
  <2>. QED
    BY <1>10, <2>2 DEF RelayDone, LocalStep
<1>11. CASE ConnectionLost
  BY <1>11 DEF ConnectionLost, LocalStep
<1>12. CASE StateUnknown
  <2>1. out' = out \o <<UnknownEv>>
    BY <1>12 DEF StateUnknown, Prints
  <2>2. out' \in Seq(Events)
    BY <2>1, EventsMade
  <2>. QED
    BY <1>12, <2>2 DEF StateUnknown, LocalStep
<1>13. CASE Drain
  BY <1>13 DEF Drain, LocalStep
<1>14. CASE Return
  BY <1>14 DEF Return, LocalStep
<1>15. CASE SshEnds
  <2>1. up' \in BOOLEAN
    BY <1>15, Zenon DEF SshEnds
  <2>. QED
    BY <1>15, <2>1 DEF SshEnds
<1>16. CASE Interrupt
  BY <1>16 DEF Interrupt
<1>17. CASE UNCHANGED remoteVars
  BY <1>17 DEF remoteVars
<1>. QED
  BY <1>1, <1>2, <1>3, <1>4, <1>5, <1>6, <1>7, <1>8, <1>9,
     <1>10, <1>11, <1>12, <1>13, <1>14, <1>15, <1>16, <1>17 DEF RemoteNext, RunRemote, Gone

\* Only the far side adds to what it printed.
LEMMA FarAlone ==
  ASSUME [RemoteNext]_remoteVars, ~FarStep
  PROVE  UNCHANGED <<call, fout, fproc>>
BY DEF RemoteNext, RunRemote, Rewrite, Spawn, ConnectAborts, WaitForStart, FirstLine, RelayAbort,
       RelayResult, RelayFails, RelayDone, ConnectionLost, StateUnknown, Drain, Return, SshEnds,
       Interrupt, Gone, LocalStep, remoteVars

\* The far side's contract.
LEMMA KeepFarFollows ==
  ASSUME RemoteInv, [RemoteNext]_remoteVars
  PROVE  FarFollows'
<1>1. CASE FarStep
  BY <1>1, FarGrows DEF RemoteInv
<1>2. CASE ~FarStep
  <2>1. n' = n /\ kg' = kg /\ fout' = fout
    BY <1>2, FarAlone DEF call
  <2>. QED
    BY <2>1, KeepsStays DEF RemoteInv, FarFollows
<1>. QED
  BY <1>1, <1>2

\* What has been read.
LEMMA KeepLinkPlace ==
  ASSUME RemoteInv, [RemoteNext]_remoteVars
  PROVE  LinkPlace'
<1>. USE DEF RemoteInv, Typed, LinkPlace, call, link, local
<1>1. CASE FarStep
  BY <1>1, FarGrows
<1>2. CASE Rewrite
  BY <1>2 DEF Rewrite, LocalStep
<1>3. CASE Spawn
  BY <1>3 DEF Spawn, LocalStep
<1>4. CASE ConnectAborts
  BY <1>4 DEF ConnectAborts, LocalStep, PrintsAbort, Prints
<1>5. CASE WaitForStart
  BY <1>5, ReadIsEvent DEF WaitForStart, LocalStep
<1>6. CASE FirstLine
  BY <1>6 DEF FirstLine, LocalStep, Prints
<1>7. CASE RelayAbort
  BY <1>7 DEF RelayAbort, LocalStep, PrintsAbort, Prints
<1>8. CASE RelayResult
  BY <1>8, ReadIsEvent DEF RelayResult, LocalStep
<1>9. CASE RelayFails
  BY <1>9, ReadIsEvent DEF RelayFails, LocalStep
<1>10. CASE RelayDone
  BY <1>10, ReadIsEvent DEF RelayDone, LocalStep
<1>11. CASE ConnectionLost
  BY <1>11 DEF ConnectionLost, LocalStep
<1>12. CASE StateUnknown
  BY <1>12 DEF StateUnknown, LocalStep, Prints
<1>13. CASE Drain
  BY <1>13 DEF Drain, LocalStep
<1>14. CASE Return
  BY <1>14 DEF Return, LocalStep
<1>15. CASE SshEnds
  BY <1>15 DEF SshEnds
<1>16. CASE Interrupt
  BY <1>16 DEF Interrupt
<1>17. CASE UNCHANGED remoteVars
  BY <1>17 DEF remoteVars
<1>. QED
  BY <1>1, <1>2, <1>3, <1>4, <1>5, <1>6, <1>7, <1>8, <1>9,
     <1>10, <1>11, <1>12, <1>13, <1>14, <1>15, <1>16, <1>17 DEF RemoteNext, RunRemote, Gone
\* A relay that has read an abort second, and no event before.
LEMMA ReadSecond ==
  ASSUME RemoteInv, here \in {"first", "aborted"}
  PROVE  /\ read = 1 /\ out = <<>> /\ Incoming = fout[2] /\ fout[1] = StartEv
         /\ Ready => Len(fout) > 1
BY DEF RemoteInv, Typed, OutFollows, LinkPlace, Incoming, Ready, Arriving

\* What agreed goes on to agree.
LEMMA StaysAligned ==
  ASSUME Typed, fout' \in Seq(Events), Len(fout) <= Len(fout'),
         \A i \in 1..Len(fout) : fout'[i] = fout[i],
         NEW k \in Nat, \A j \in 1..k : out'[j] = out[j], Aligned(k)
  PROVE  Aligned(k)'
<1>0. k <= Len(fout) /\ Len(fout) \in Nat /\ Len(fout') \in Nat /\ \A j \in 1..k : Same(out[j], fout[j])
  BY DEF Typed, Aligned
<1>1. k <= Len(fout') /\ \A j \in 1..k : Same(out'[j], fout'[j])
  <2>1. k <= Len(fout')
    BY <1>0
  <2>2. \A j \in 1..k : j \in 1..Len(fout)
    BY <1>0
  <2>. QED
    BY <1>0, <2>1, <2>2
<1>2. \A j \in 1..k : Same(out[j], fout[j])'
  BY <1>1 DEF Same, SameResult, IsResult
<1>. QED
  BY <1>1, <1>2 DEF Aligned

LEMMA QuietFollows ==
  ASSUME RemoteInv, fout' \in Seq(Events), Len(fout) <= Len(fout'),
         \A i \in 1..Len(fout) : fout'[i] = fout[i],
         out' = out, read' = read, here' = here \/ here' \in {"drain", "ended", "exited", "killed"},
         here' = "drain" => here = "drain"
  PROVE  OutFollows'
<1>. USE DEF RemoteInv, Typed, OutFollows
<1>1. \A k \in Nat : Aligned(k) => Aligned(k)'
  BY StaysAligned
<1>2. \A i \in DOMAIN out' : IsResult(out[i])' => Aligned(i)'
  BY <1>1 DEF IsResult
<1>3. fout # <<>> => fout' # <<>> /\ fout'[1] = fout[1]
  OBVIOUS
<1>4. Len(fout) > 1 => Len(fout') > 1 /\ fout'[2] = fout[2]
  OBVIOUS
<1>5. here = "stream" => Aligned(read)'
  BY <1>1
<1>6. here = "unknown" => Aligned(Len(out))' /\ ~Ends(out[Len(out)])'
  BY <1>1 DEF Ends
<1>. QED
  BY <1>2, <1>3, <1>4, <1>5, <1>6

\* Nothing has been relayed by a wrapper that refused.
LEMMA RefusedFollows ==
  ASSUME OutFollows, here' \in {"ended", "exited", "killed"}, \A i \in DOMAIN out' : ~IsResult(out'[i])
  PROVE  OutFollows'
BY DEF OutFollows, IsResult

\* One line more is printed.
LEMMA MoreFollows ==
  ASSUME RemoteInv, fout' = fout, NEW e \in Events, out' = out \o <<e>>,
         IsResult(e) => Aligned(Len(out)) /\ Len(out) < Len(fout) /\ Same(e, fout[Len(out) + 1])
  PROVE  /\ \A i \in DOMAIN out' : IsResult(out'[i]) => Aligned(i)'
         /\ \A k \in 0..Len(out) : Aligned(k) => Aligned(k)'
         /\ \A k \in Nat : IsResult(e) /\ k = Len(out) + 1 => Aligned(k)'
<1>. USE DEF RemoteInv, Typed
<1>1. /\ Len(out) \in Nat /\ Len(out') = Len(out) + 1 /\ out'[Len(out) + 1] = e
      /\ \A i \in 1..Len(out) : out'[i] = out[i]
      /\ DOMAIN out' = 1..(Len(out) + 1) /\ DOMAIN out = 1..Len(out)
  OBVIOUS
<1>2. \A k \in 0..Len(out) : Aligned(k) => Aligned(k)'
  <2>. SUFFICES ASSUME NEW k \in 0..Len(out), Aligned(k) PROVE Aligned(k)'
    OBVIOUS
  <2>1. k \in Nat /\ \A j \in 1..k : out'[j] = out[j]
    BY <1>1
  <2>. QED
    BY <2>1, StaysAligned
<1>3. \A k \in Nat : IsResult(e) /\ k = Len(out) + 1 => Aligned(k)'
  <2>. SUFFICES ASSUME IsResult(e), NEW k \in Nat, k = Len(out) + 1 PROVE Aligned(k)'
    OBVIOUS
  <2>1. /\ \A j \in 1..Len(out) : Same(out[j], fout[j])
        /\ Len(out) < Len(fout) /\ Same(e, fout[Len(out) + 1])
    BY DEF Aligned
  <2>2. \A j \in 1..k : Same(out'[j], fout'[j])
    BY <1>1, <2>1
  <2>3. \A j \in 1..k : Same(out[j], fout[j])'
    BY <2>2 DEF Same, SameResult, IsResult
  <2>. QED
    BY <1>1, <2>1, <2>3 DEF Aligned
<1>4. \A i \in 1..Len(out) : IsResult(out[i]) => Aligned(i)
  BY <1>1 DEF OutFollows
<1>. QED
  BY <1>1, <1>2, <1>3, <1>4

\* What is printed is what was read.
LEMMA KeepOutFollows ==
  ASSUME RemoteInv, [RemoteNext]_remoteVars
  PROVE  OutFollows'
<1>. USE DEF RemoteInv, Typed, OutFollows, call, link, local
<1>1. CASE FarStep
  BY <1>1, FarGrows, QuietFollows
<1>2. CASE Rewrite
  BY <1>2 DEF Rewrite, LocalStep
<1>3. CASE Spawn
  BY <1>3 DEF Spawn, LocalStep
<1>4. CASE ConnectAborts
  <2>1. out = <<>>
    BY <1>4 DEF ConnectAborts, LocalStep
  <2>2. \A i \in DOMAIN out' : ~IsResult(out'[i])
    BY <1>4, <2>1, AbortTyped DEF ConnectAborts, AbortCodes
  <2>. QED
    BY <1>4, <2>2, RefusedFollows DEF ConnectAborts, LocalStep
<1>5. CASE WaitForStart
  <2>1. read = 0 /\ out = <<>> /\ UNCHANGED <<fout, out>>
    BY <1>5 DEF WaitForStart, LocalStep
  <2>2. CASE here' = "noStart" /\ read' = read
    BY <2>1, <2>2
  <2>3. CASE here' = "first" /\ read' = read + 1 /\ Ready /\ Incoming = StartEv
    <3>1. 1 \in DOMAIN fout /\ fout[1] = StartEv
      BY <2>1, <2>3, ReadIsEvent
    <3>. QED
      BY <2>1, <2>3, <3>1
  <2>. QED
    BY <1>5, <2>2, <2>3 DEF WaitForStart, LocalStep
<1>6. CASE FirstLine
  <2>1. here = "first" /\ UNCHANGED <<fout, read>>
    BY <1>6 DEF FirstLine, LocalStep
  <2>2. read = 1 /\ out = <<>> /\ Incoming = fout[2] /\ fout[1] = StartEv /\ fout # <<>>
    BY <2>1, ReadSecond
  <2>3. CASE here' = "ended" /\ out' = out \o <<StartEv, UnknownEv>>
    <3>1. out' = <<StartEv, UnknownEv>>
      BY <2>2, <2>3, EventsMade
    <3>2. \A i \in DOMAIN out' : ~IsResult(out'[i])
      BY <3>1 DEF IsResult, StartEv, UnknownEv
    <3>. QED
      BY <2>3, <3>2, RefusedFollows
  <2>4. CASE here' = "aborted" /\ Ready /\ Incoming.ev = "abort" /\ out' = out
    <3>1. Len(fout) > 1
      BY <2>1, <2>4, ReadSecond
    <3>. QED
      BY <2>1, <2>2, <2>4, <3>1
  <2>5. CASE here' = "stream" /\ Ready /\ Incoming.ev # "abort" /\ out' = out \o <<StartEv>>
    <3>1. Len(fout) > 1
      BY <2>1, <2>5, ReadSecond
    <3>2. out' = <<StartEv>>
      BY <2>2, <2>5, EventsMade
    <3>3. Len(out') = 1 /\ out'[1] = StartEv /\ DOMAIN out' = {1} /\ ~IsResult(StartEv)
      BY <3>2 DEF IsResult, StartEv
    <3>4. Aligned(1)'
      BY <2>1, <2>2, <3>1, <3>3 DEF Aligned, Same
    <3>5. ~Ends(out[Len(out)])'
      BY <3>3 DEF Ends, StartEv
    <3>. QED
      BY <2>1, <2>2, <2>5, <3>1, <3>3, <3>4, <3>5 DEF IsResult
  <2>. QED
    BY <1>6, <2>3, <2>4, <2>5 DEF FirstLine, LocalStep, Prints
<1>7. CASE RelayAbort
  <2>1. out = <<>> /\ Len(fout) > 1 /\ fout[2].ev = "abort" /\ Incoming = fout[2]
    BY <1>7, ReadSecond DEF RelayAbort, LocalStep
  <2>2. Incoming.code \in AbortCodes
    BY <2>1 DEF Events, StartEv, UnknownEv
  <2>3. \A i \in DOMAIN out' : ~IsResult(out'[i])
    BY <1>7, <2>1, <2>2, AbortTyped DEF RelayAbort
  <2>. QED
    BY <1>7, <2>3, RefusedFollows DEF RelayAbort, LocalStep
<1>8. CASE RelayResult
  <2>1. /\ here = "stream" /\ here' = "stream" /\ Ready /\ IsResult(Incoming) /\ read' = read + 1
        /\ fout' = fout /\ out' = out \o <<Printed(Incoming)>>
    BY <1>8 DEF RelayResult, LocalStep, Prints, Printed
  <2>2. Len(out) = read /\ Aligned(Len(out)) /\ read > 0
    BY <2>1
  <2>3. Incoming \in Events /\ Incoming = fout[read + 1] /\ read + 1 \in DOMAIN fout
    BY <2>1, ReadIsEvent
  <2>4. Printed(Incoming) \in Events /\ Same(Printed(Incoming), Incoming) /\ IsResult(Printed(Incoming))
    BY <2>1, <2>3, PrintedIsEvent DEF Same
  <2>5. Len(out) < Len(fout)
    BY <2>2, <2>3
  <2>6. /\ \A i \in DOMAIN out' : IsResult(out'[i]) => Aligned(i)'
        /\ \A k \in Nat : k = Len(out) + 1 => Aligned(k)'
    BY <2>1, <2>2, <2>3, <2>4, <2>5, MoreFollows
  <2>7. Len(out') = read + 1
    BY <2>1, <2>2, <2>4
  <2>8. Aligned(read)'
    <3>1. /\ read + 1 \in Nat /\ read + 1 = Len(out) + 1
          /\ read + 1 <= Len(fout') /\ \A j \in 1..(read + 1) : Same(out[j], fout[j])'
      BY <2>2, <2>6 DEF Aligned
    <3>2. read' <= Len(fout') /\ \A j \in 1..read' : Same(out[j], fout[j])'
      BY <2>1, <3>1
    <3>. QED
      BY <3>2 DEF Aligned
  <2>9. ~Ends(out[Len(out)])'
    <3>1. ~Ends(Printed(Incoming))
      BY <2>1, <2>3, PrintedIsEvent
    <3>2. out'[Len(out')] = Printed(Incoming)
      BY <2>1, <2>2, <2>4
    <3>. QED
      BY <3>1, <3>2 DEF Ends
  <2>. QED
    BY <2>1, <2>2, <2>6, <2>7, <2>8, <2>9 DEF IsResult
<1>9. CASE RelayFails
  <2>1. /\ here = "stream" /\ here' = "unknown" /\ fout' = fout /\ out' = out
    BY <1>9 DEF RelayFails, LocalStep
  <2>2. \A k \in Nat : Aligned(k) => Aligned(k)'
    BY <2>1, StaysAligned
  <2>3. Len(out) = read /\ read > 0 /\ Aligned(Len(out))
    BY <2>1
  <2>4. Aligned(Len(out))'
    BY <2>1, <2>2, <2>3
  <2>5. out' # <<>> /\ ~Ends(out[Len(out)])'
    BY <2>1, <2>3 DEF Ends
  <2>6. \A i \in DOMAIN out' : IsResult(out[i])' => Aligned(i)'
    BY <2>1, <2>2 DEF IsResult
  <2>. QED
    BY <2>1, <2>4, <2>5, <2>6
<1>10. CASE RelayDone
  <2>1. /\ here = "stream" /\ here' = "drain" /\ Ready /\ Incoming.ev \in {"done", "unknown"}
        /\ fout' = fout /\ out' = out \o <<Incoming>>
    BY <1>10 DEF RelayDone, LocalStep, Prints
  <2>2. Incoming \in Events /\ ~IsResult(Incoming)
    BY <2>1, ReadIsEvent DEF IsResult
  <2>3. \A i \in DOMAIN out' : IsResult(out'[i]) => Aligned(i)'
    BY <2>1, <2>2, MoreFollows
  <2>. QED
    BY <2>1, <2>3 DEF IsResult
<1>11. CASE ConnectionLost
  <2>1. /\ here = "stream" /\ here' = "unknown" /\ fout' = fout /\ out' = out
    BY <1>11 DEF ConnectionLost, LocalStep
  <2>2. \A k \in Nat : Aligned(k) => Aligned(k)'
    BY <2>1, StaysAligned
  <2>3. Len(out) = read /\ read > 0 /\ Aligned(Len(out))
    BY <2>1
  <2>4. Aligned(Len(out))'
    BY <2>1, <2>2, <2>3
  <2>5. out' # <<>> /\ ~Ends(out[Len(out)])'
    BY <2>1, <2>3 DEF Ends
  <2>6. \A i \in DOMAIN out' : IsResult(out[i])' => Aligned(i)'
    BY <2>1, <2>2 DEF IsResult
  <2>. QED
    BY <2>1, <2>4, <2>5, <2>6
<1>12. CASE StateUnknown
  <2>1. here = "unknown" /\ here' = "ended" /\ fout' = fout /\ out' = out \o <<UnknownEv>>
    BY <1>12 DEF StateUnknown, LocalStep, Prints
  <2>2. UnknownEv \in Events /\ ~IsResult(UnknownEv)
    BY EventsMade DEF IsResult, UnknownEv
  <2>3. \A i \in DOMAIN out' : IsResult(out'[i]) => Aligned(i)'
    BY <2>1, <2>2, MoreFollows
  <2>. QED
    BY <2>1, <2>3 DEF IsResult
<1>13. CASE Drain
  BY <1>13, QuietFollows DEF Drain, LocalStep
<1>14. CASE Return
  BY <1>14, QuietFollows DEF Return, LocalStep
<1>15. CASE SshEnds
  BY <1>15, QuietFollows DEF SshEnds
<1>16. CASE Interrupt
  BY <1>16, QuietFollows DEF Interrupt
<1>17. CASE UNCHANGED remoteVars
  BY <1>17, QuietFollows DEF remoteVars
<1>. QED
  BY <1>1, <1>2, <1>3, <1>4, <1>5, <1>6, <1>7, <1>8, <1>9,
     <1>10, <1>11, <1>12, <1>13, <1>14, <1>15, <1>16, <1>17 DEF RemoteNext, RunRemote, Gone
\* A run that has ended over there does not begin again.
LEMMA NoRunStays ==
  ASSUME fout # <<>> /\ Ends(fout[Len(fout)]) => fout' = fout, NoRun
  PROVE  NoRun'
BY DEF NoRun, IsResult, Ends

\* What was true of the far side's end stays true.
LEMMA VerdictStays ==
  ASSUME Typed, Verdict, fout # <<>> /\ Ends(fout[Len(fout)]) => fout' = fout, out' = out,
         here' \in {"drain", "ended"} => here \in {"drain", "ended"},
         here' = "exited" => here = "exited" /\ code' = code /\ sent' = sent
  PROVE  Verdict'
<1>1. ASSUME NEW e, out # <<>>, out[Len(out)] = e, TrueEnd(e)
      PROVE  \/ e = UnknownEv
             \/ e.ev = "abort" /\ (e.code = "E_CONNECT" \/ NoRun')
             \/ e.ev = "done" /\ Len(out') = Len(fout') /\ fout'[Len(fout')] = e
  <2>1. CASE e.ev = "done" /\ Len(out) = Len(fout) /\ fout[Len(fout)] = e
    <3>1. fout # <<>> /\ Ends(fout[Len(fout)])
      BY <1>1, <2>1 DEF Typed, Ends
    <3>. QED
      BY <2>1, <3>1
  <2>2. CASE e.ev = "abort" /\ (e.code = "E_CONNECT" \/ NoRun)
    BY <2>2, NoRunStays
  <2>. QED
    BY <1>1, <2>1, <2>2 DEF TrueEnd
<1>2. out # <<>> /\ TrueEnd(out[Len(out)]) => TrueEnd(out[Len(out)])'
  BY <1>1 DEF TrueEnd
<1>3. ExitFor(out[Len(out)])' = ExitFor(out[Len(out)])
  BY DEF ExitFor
<1>. QED
  BY <1>2, <1>3 DEF Verdict

\* An end that was read is the last line there is.
LEMMA EndIsLast ==
  ASSUME Typed, FarFollows, LinkPlace, Ready, Ends(Incoming)
  PROVE  read + 1 = Len(fout) /\ Incoming = fout[Len(fout)] /\ fout # <<>>
BY ReadIsEvent DEF FarFollows, FarKeeps, Typed

\* What the exit says stays true.
LEMMA KeepVerdict ==
  ASSUME RemoteInv, [RemoteNext]_remoteVars
  PROVE  Verdict'
<1>. USE DEF RemoteInv, Typed, Verdict, call, link, local
<1>1. CASE FarStep
  BY <1>1, FarGrows, VerdictStays
<1>2. CASE Rewrite
  <2>1. here' = "spawn" \/ (here' = "exited" /\ code' = 2 /\ ~sent /\ (sent' <=> sent))
    BY <1>2, Zenon DEF Rewrite, LocalStep, LinkPlace
  <2>. QED
    BY <2>1
<1>3. CASE Spawn
  BY <1>3 DEF Spawn, LocalStep
<1>4. CASE ConnectAborts
  <2>1. out = <<>> /\ here' = "ended"
    BY <1>4 DEF ConnectAborts, LocalStep, OutFollows
  <2>2. out' # <<>> /\ out'[Len(out')] = AbortEv("E_CONNECT")
    BY <1>4, <2>1, AbortTyped DEF ConnectAborts, AbortCodes
  <2>. QED
    BY <2>1, <2>2 DEF TrueEnd, AbortEv
<1>5. CASE WaitForStart
  BY <1>5 DEF WaitForStart, LocalStep
<1>6. CASE FirstLine
  <2>1. here' \in {"aborted", "stream"} \/ (here' = "ended" /\ out' = out \o <<StartEv, UnknownEv>>)
    BY <1>6 DEF FirstLine, LocalStep, Prints
  <2>2. out = <<>>
    BY <1>6, ReadSecond DEF FirstLine, LocalStep
  <2>3. CASE here' = "ended" /\ out' = out \o <<StartEv, UnknownEv>>
    <3>1. out' = <<StartEv, UnknownEv>>
      BY <2>2, <2>3, EventsMade
    <3>2. out' # <<>> /\ out'[Len(out')] = UnknownEv
      BY <3>1
    <3>. QED
      BY <2>3, <3>2 DEF TrueEnd
  <2>. QED
    BY <2>1, <2>3
<1>7. CASE RelayAbort
  <2>1. /\ out = <<>> /\ Len(fout) > 1 /\ fout[2].ev = "abort" /\ Incoming = fout[2]
        /\ fout[1] = StartEv /\ fout' = fout /\ here' = "ended"
    BY <1>7, ReadSecond DEF RelayAbort, LocalStep, OutFollows
  <2>2. Incoming.code \in AbortCodes
    BY <2>1 DEF Events, StartEv, UnknownEv
  <2>3. out' # <<>> /\ out'[Len(out')] = AbortEv(Incoming.code)
    BY <1>7, <2>1, <2>2, AbortTyped DEF RelayAbort
  <2>4. Len(fout) = 2
    <3>1. 2 \in DOMAIN fout /\ Ends(fout[2])
      BY <2>1 DEF Ends
    <3>. QED
      BY <3>1 DEF FarFollows, FarKeeps
  <2>5. NoRun
    <3>0. fout \in Seq(Events) /\ Len(fout) = 2 /\ Ends(fout[2])
      BY <2>1, <2>4 DEF Ends
    <3>1. fout # <<>> /\ Ends(fout[Len(fout)])
      <4>1. fout # <<>>
        BY <2>1
      <4>2. Ends(fout[Len(fout)])
        BY <3>0
      <4>. QED
        BY <4>1, <4>2
    <3>2. \A i \in DOMAIN fout : i = 1 \/ i = 2
      BY <2>4
    <3>3. ~IsResult(fout[1]) /\ ~IsResult(fout[2])
      BY <2>1 DEF IsResult, StartEv
    <3>. QED
      BY <3>1, <3>2, <3>3 DEF NoRun
  <2>6. NoRun'
    BY <2>1, <2>5, NoRunStays
  <2>. QED
    BY <2>1, <2>3, <2>6 DEF TrueEnd, AbortEv
<1>8. CASE RelayResult
  BY <1>8 DEF RelayResult, LocalStep, Prints
<1>9. CASE RelayFails
  BY <1>9 DEF RelayFails, LocalStep
<1>10. CASE RelayDone
  <2>1. /\ here = "stream" /\ here' = "drain" /\ Ready /\ Incoming.ev \in {"done", "unknown"}
        /\ fout' = fout /\ out' = out \o <<Incoming>> /\ Len(out) = read
    BY <1>10 DEF RelayDone, LocalStep, Prints, OutFollows
  <2>2. Incoming \in Events /\ read + 1 = Len(fout) /\ Incoming = fout[Len(fout)]
    BY <2>1, ReadIsEvent, EndIsLast DEF Ends
  <2>3. out' # <<>> /\ Len(out') = read + 1 /\ out'[Len(out')] = Incoming
    BY <2>1, <2>2
  <2>4. Incoming.ev = "unknown" => Incoming = UnknownEv
    BY <2>2 DEF Events, UnknownEv, StartEv
  <2>5. TrueEnd(out[Len(out)])'
    BY <2>1, <2>2, <2>3, <2>4 DEF TrueEnd
  <2>. QED
    BY <2>1, <2>3, <2>5
<1>11. CASE ConnectionLost
  BY <1>11 DEF ConnectionLost, LocalStep
<1>12. CASE StateUnknown
  <2>1. here = "unknown" /\ here' = "ended" /\ out' = out \o <<UnknownEv>>
    BY <1>12 DEF StateUnknown, LocalStep, Prints
  <2>2. out' # <<>> /\ out'[Len(out')] = UnknownEv
    BY <2>1, EventsMade
  <2>. QED
    BY <2>1, <2>2 DEF TrueEnd
<1>13. CASE Drain
  BY <1>13, VerdictStays DEF Drain, LocalStep
<1>14. CASE Return
  <2>1. /\ here = "ended" /\ here' = "exited" /\ fout' = fout /\ out' = out
        /\ code' = ExitFor(out[Len(out)]) /\ out # <<>> /\ TrueEnd(out[Len(out)])
    BY <1>14 DEF Return, LocalStep, Last
  <2>2. TrueEnd(out[Len(out)])' /\ ExitFor(out[Len(out)])' = ExitFor(out[Len(out)])
    BY <2>1, NoRunStays DEF TrueEnd, ExitFor
  <2>. QED
    BY <2>1, <2>2
<1>15. CASE SshEnds
  BY <1>15, VerdictStays DEF SshEnds
<1>16. CASE Interrupt
  BY <1>16, VerdictStays DEF Interrupt
<1>17. CASE UNCHANGED remoteVars
  BY <1>17, VerdictStays DEF remoteVars
<1>. QED
  BY <1>1, <1>2, <1>3, <1>4, <1>5, <1>6, <1>7, <1>8, <1>9,
     <1>10, <1>11, <1>12, <1>13, <1>14, <1>15, <1>16, <1>17 DEF RemoteNext, RunRemote, Gone

\* Without cap lines a result is printed as it is.
LEMMA PlainPrinted ==
  ASSUME RemoteInv, Ready, IsResult(Incoming), "cap" \notin LineKinds
  PROVE  Printed(Incoming) = Incoming
<1>1. Incoming \in Events /\ Incoming = fout[read + 1] /\ read + 1 \in DOMAIN fout /\ Incoming.line \in Nat \ {0}
  BY ReadIsEvent DEF RemoteInv
<1>2. IsLine(Incoming) => Incoming.line \in 1..n
  BY <1>1 DEF RemoteInv, FarFollows, FarKeeps, Typed
<1>3. Incoming.src = "cap" => Incoming.status \in {"ok", "err"}
  BY <1>1 DEF RemoteInv, FarFollows, FarKeeps
<1>4. Incoming.src = "op" => kinds[Incoming.line] # "cap"
  BY <1>2 DEF RemoteInv, Typed, IsLine, IsResult
<1>. QED
  BY <1>1, <1>3, <1>4, PrintedIsEvent DEF PrintedStatus, IsCapture

LEMMA CopiedStays ==
  ASSUME Typed, Copied, fout' \in Seq(Events), Len(fout) <= Len(fout'),
         \A i \in 1..Len(fout) : fout'[i] = fout[i], out' = out,
         here' \in {"stream", "unknown"} => here \in {"stream", "unknown"}
  PROVE  Copied'
<1>. SUFFICES ASSUME "cap" \notin LineKinds, here \in {"stream", "unknown"}
              PROVE  Len(out') <= Len(fout') /\ \A i \in DOMAIN out' : out'[i] = fout'[i] /\ ~Ends(out'[i])
  BY DEF Copied, Ends
<1>1. Len(out) <= Len(fout) /\ \A i \in DOMAIN out : out[i] = fout[i] /\ ~Ends(out[i])
  BY DEF Copied
<1>2. \A i \in DOMAIN out : i \in 1..Len(fout)
  BY <1>1 DEF Typed
<1>. QED
  BY <1>1, <1>2 DEF Typed

\* A run without cap lines is printed as it was read.
LEMMA KeepCopied ==
  ASSUME RemoteInv, [RemoteNext]_remoteVars
  PROVE  Copied'
<1>. USE DEF RemoteInv, Typed, call, link, local
<1>1. CASE FarStep
  BY <1>1, FarGrows, CopiedStays
<1>2. CASE Rewrite
  BY <1>2 DEF Rewrite, Copied, LocalStep
<1>3. CASE Spawn
  BY <1>3 DEF Spawn, Copied, LocalStep
<1>4. CASE ConnectAborts
  BY <1>4 DEF ConnectAborts, Copied, LocalStep
<1>5. CASE WaitForStart
  BY <1>5 DEF WaitForStart, Copied, LocalStep
<1>6. CASE FirstLine
  <2>1. here' \in {"aborted", "ended"} \/ (here' = "stream" /\ out' = out \o <<StartEv>> /\ fout' = fout)
    BY <1>6 DEF FirstLine, LocalStep, Prints
  <2>2. out = <<>> /\ fout # <<>> /\ fout[1] = StartEv
    BY <1>6, ReadSecond DEF FirstLine, LocalStep, OutFollows
  <2>3. CASE here' = "stream" /\ out' = out \o <<StartEv>> /\ fout' = fout
    <3>1. out' = <<StartEv>>
      BY <2>2, <2>3, EventsMade
    <3>2. Len(out') = 1 /\ DOMAIN out' = {1} /\ out'[1] = StartEv
      BY <3>1
    <3>. QED
      BY <2>2, <2>3, <3>2 DEF Copied, Ends, StartEv
  <2>. QED
    BY <2>1, <2>3 DEF Copied
<1>7. CASE RelayAbort
  BY <1>7 DEF RelayAbort, Copied, LocalStep
<1>8. CASE RelayResult
  <2>1. /\ here = "stream" /\ here' = "stream" /\ Ready /\ IsResult(Incoming)
        /\ fout' = fout /\ out' = out \o <<Printed(Incoming)>> /\ Len(out) = read
    BY <1>8 DEF RelayResult, LocalStep, Prints, Printed, OutFollows
  <2>2. Incoming \in Events /\ Incoming = fout[read + 1] /\ read + 1 \in DOMAIN fout /\ ~Ends(Incoming)
    BY <2>1, ReadIsEvent DEF Ends, IsResult
  <2>3. CASE "cap" \in LineKinds
    BY <2>3 DEF Copied
  <2>4. CASE "cap" \notin LineKinds
    <3>1. out' = out \o <<Incoming>>
      BY <2>1, <2>4, PlainPrinted
    <3>2. /\ Len(out') = read + 1 /\ DOMAIN out' = 1..(read + 1) /\ out'[read + 1] = Incoming
          /\ \A i \in 1..read : out'[i] = out[i]
      <4>1. out' = Append(out, Incoming)
        BY <2>2, <3>1
      <4>2. out \in Seq(Events) /\ Incoming \in Events /\ Len(out) = read
        BY <2>1, <2>2
      <4>3. /\ Len(out') = Len(out) + 1 /\ DOMAIN out' = 1..(Len(out) + 1) /\ out'[Len(out')] = Incoming
            /\ \A i \in 1..Len(out) : out'[i] = out[i]
        BY <4>1, <4>2, Appended
      <4>. QED
        BY <4>2, <4>3
    <3>3. \A i \in 1..read : out[i] = fout[i] /\ ~Ends(out[i])
      <4>1. \A i \in DOMAIN out : out[i] = fout[i] /\ ~Ends(out[i])
        BY <2>1, <2>4 DEF Copied
      <4>2. DOMAIN out = 1..read
        BY <2>1
      <4>. QED
        BY <4>1, <4>2
    <3>4. \A i \in 1..(read + 1) : out'[i] = fout[i] /\ ~Ends(out'[i])
      BY <2>2, <3>2, <3>3
    <3>5. read + 1 <= Len(fout)
      BY <2>2
    <3>. QED
      BY <2>1, <3>2, <3>4, <3>5 DEF Copied, Ends
  <2>. QED
    BY <2>3, <2>4
<1>9. CASE RelayFails
  <2>1. fout' = fout /\ out' = out /\ here = "stream" /\ here' = "unknown"
    BY <1>9 DEF RelayFails, LocalStep
  <2>. QED
    BY <2>1, CopiedStays
<1>10. CASE RelayDone
  BY <1>10 DEF RelayDone, Copied, LocalStep
<1>11. CASE ConnectionLost
  <2>1. fout' = fout /\ out' = out /\ here = "stream" /\ here' = "unknown"
    BY <1>11 DEF ConnectionLost, LocalStep
  <2>. QED
    BY <2>1, CopiedStays
<1>12. CASE StateUnknown
  BY <1>12 DEF StateUnknown, Copied, LocalStep
<1>13. CASE Drain
  BY <1>13 DEF Drain, Copied, LocalStep
<1>14. CASE Return
  BY <1>14 DEF Return, Copied, LocalStep
<1>15. CASE SshEnds
  BY <1>15, CopiedStays DEF SshEnds
<1>16. CASE Interrupt
  BY <1>16 DEF Interrupt, Copied
<1>17. CASE UNCHANGED remoteVars
  BY <1>17, CopiedStays DEF remoteVars
<1>. QED
  BY <1>1, <1>2, <1>3, <1>4, <1>5, <1>6, <1>7, <1>8, <1>9,
     <1>10, <1>11, <1>12, <1>13, <1>14, <1>15, <1>16, <1>17 DEF RemoteNext, RunRemote, Gone
\* What was read stays read.
LEMMA ReadStays ==
  ASSUME RemoteInv, read' \in Nat, read <= read', \A i \in 1..Len(fout) : fout'[i] = fout[i],
         NEW l, NEW src, NEW S, WasRead(l, src, S)
  PROVE  WasRead(l, src, S)'
<1>1. PICK i \in 1..read : fout[i] \in {ResultEv(l, s, src) : s \in S}
  BY DEF WasRead
<1>2. i \in 1..read' /\ fout'[i] = fout[i]
  BY DEF RemoteInv, Typed, LinkPlace
<1>3. fout'[i] \in {ResultEv(l, s, src) : s \in S}
  BY <1>1, <1>2
<1>. QED
  BY <1>2, <1>3 DEF WasRead, ResultEv

\* A step that writes no file and prints no result.
LEMMA FilesStay ==
  ASSUME RemoteInv, n' = n, kinds' = kinds, files' = files,
         read' \in Nat, read <= read', \A i \in 1..Len(fout) : fout'[i] = fout[i],
         \A i \in DOMAIN out' : IsLine(out'[i]) => i \in DOMAIN out /\ out'[i] = out[i],
         \/ out' = out
         \/ \A l \in 1..n : files[l] # "part"
         \/ \A i \in DOMAIN out' : out'[i].ev # "done"
  PROVE  FilesFollowResults'
<1>1. ASSUME NEW l \in 1..n PROVE FileIsOf(l)'
  <2>1. FileIsOf(l)
    BY DEF RemoteInv, FilesFollowResults
  <2>2. \A src, S : WasRead(l, src, S) => WasRead(l, src, S)'
    BY ReadStays
  <2>. QED
    BY <2>1, <2>2 DEF FileIsOf, Writes
<1>2. PrintedIsWritten'
  <2>. SUFFICES ASSUME NEW i \in DOMAIN out', IsLine(out'[i]), Writes(out[i].line)',
                       fout'[i].status # "err"
                PROVE  files'[out'[i].line] = Content(fout[i])'
    BY DEF PrintedIsWritten, IsLine
  <2>1. i \in DOMAIN out /\ out'[i] = out[i] /\ IsLine(out[i]) /\ IsResult(out[i])
    BY DEF IsLine, IsResult
  <2>2. Aligned(i)
    BY <2>1 DEF RemoteInv, OutFollows
  <2>3. fout'[i] = fout[i]
    BY <2>1, <2>2 DEF Aligned, RemoteInv, Typed
  <2>4. Writes(out[i].line) /\ fout[i].status # "err"
    BY <2>1, <2>3 DEF Writes
  <2>5. files[out[i].line] = Content(fout[i])
    BY <2>1, <2>4 DEF RemoteInv, FilesFollowResults, PrintedIsWritten
  <2>6. Content(fout[i])' = Content(fout[i])
    BY <2>3, Zenon DEF Content
  <2>. QED
    BY <2>1, <2>5, <2>6
<1>3. WholeOnceDone'
  <2>1. WholeOnceDone
    BY DEF RemoteInv, FilesFollowResults
  <2>. QED
    BY <2>1 DEF WholeOnceDone
<1>. QED
  BY <1>1, <1>2, <1>3 DEF FilesFollowResults

\* What Process puts in a file.
Puts(e, c) ==
  \/ IsCapture(e) /\ c = (IF e.status = "skip" THEN "empty" ELSE "png")
  \/ e.src = "op" /\ kinds[e.line] = "qclip" /\ c = (IF e.status = "skip" THEN "empty" ELSE "text")

LEMMA SavedPuts ==
  ASSUME Typed, NEW e, NEW l \in 1..n, Saved(e)[l] # files[l]
  PROVE  l = e.line /\ e.status # "err" /\ Puts(e, Saved(e)[l])
<1>1. e.status # "err"
  BY DEF Saved
<1>2. CASE IsCapture(e)
  <2>1. Saved(e) = CapturesTo(e)
    <3>1. ~(e.src = "op" /\ kinds[e.line] = "qclip")
      BY <1>2 DEF IsCapture
    <3>. QED
      BY <1>1, <1>2, <3>1, Zenon DEF Saved
  <2>2. l = e.line /\ CapturesTo(e)[l] = IF e.status = "skip" THEN "empty" ELSE "png"
    BY <2>1 DEF CapturesTo, Typed
  <2>. QED
    BY <1>1, <1>2, <2>1, <2>2 DEF Puts
<1>3. CASE ~IsCapture(e)
  <2>1. e.src = "op" /\ kinds[e.line] = "qclip" /\ Saved(e) = SavesClipboard(e)
    <3>1. Saved(e) # files
      OBVIOUS
    <3>2. CASE e.src = "op" /\ kinds[e.line] = "qclip"
      BY <1>1, <1>3, <3>2, Zenon DEF Saved
    <3>3. CASE ~(e.src = "op" /\ kinds[e.line] = "qclip")
      BY <1>1, <1>3, <3>1, <3>3, Zenon DEF Saved
    <3>. QED
      BY <3>2, <3>3
  <2>2. l = e.line /\ SavesClipboard(e)[l] = IF e.status = "skip" THEN "empty" ELSE "text"
    BY <2>1 DEF SavesClipboard, Typed
  <2>. QED
    BY <1>1, <2>1, <2>2 DEF Puts
<1>. QED
  BY <1>2, <1>3

\* A line's own result is in the file it is to write.
LEMMA SavedIsContent ==
  ASSUME Typed, NEW e, e.src = "op", e.status # "err", e.line \in 1..n, Writes(e.line),
         files[e.line] # "none"
  PROVE  Saved(e)[e.line] = Content(e)
<1>1. CASE kinds[e.line] = "cap"
  <2>1. IsCapture(e) /\ Saved(e) = CapturesTo(e)
    BY <1>1 DEF Saved, IsCapture
  <2>2. CapturesTo(e)[e.line] = IF e.status = "skip" THEN "empty" ELSE "png"
    BY DEF CapturesTo, Typed
  <2>. QED
    BY <1>1, <2>1, <2>2 DEF Content
<1>2. CASE kinds[e.line] = "qclip"
  <2>1. ~IsCapture(e) /\ Saved(e) = SavesClipboard(e)
    BY <1>2 DEF Saved, IsCapture
  <2>2. SavesClipboard(e)[e.line] = IF e.status = "skip" THEN "empty" ELSE "text"
    BY DEF SavesClipboard, Typed
  <2>. QED
    BY <1>2, <2>1, <2>2 DEF Content
<1>. QED
  BY <1>1, <1>2 DEF Writes

\* The result the relay reads: an event of its line, after the err of that
\* line if it is an extra capture, and of no line that was read before.
LEMMA ReadResult ==
  ASSUME RemoteInv, Ready, IsResult(Incoming), read' = read + 1, fout' = fout
  PROVE  /\ Incoming = fout[read + 1] /\ read + 1 \in DOMAIN fout
         /\ Incoming.src = "op" => Incoming.line \in 1..n
         /\ Incoming.status \in {"ok", "warn", "err", "skip"}
         /\ Incoming.src = "cap" => /\ Incoming.status \in {"ok", "err"} /\ read \in DOMAIN fout
                                    /\ FailedAt(fout, read) /\ fout[read].line = Incoming.line
         /\ \A l, src, S : l = Incoming.line /\ src = Incoming.src /\ Incoming.status \in S =>
              WasRead(l, src, S)'
         /\ \A l : Incoming.src = "cap" /\ l = Incoming.line => WasRead(l, "op", {"err"})'
<1>1. Incoming = fout[read + 1] /\ read + 1 \in DOMAIN fout /\ Incoming \in Events
  BY ReadIsEvent DEF RemoteInv
<1>. DEFINE Results == [ev : {"result"}, line : Nat \ {0}, status : Statuses, src : {"op", "cap", "release"}]
<1>2. \A f \in Events : IsResult(f) => f \in Results
  BY DEF Events, IsResult, StartEv, UnknownEv
<1>3. \A f \in Results : f.status \in {"ok", "warn", "err", "skip"} /\ f = ResultEv(f.line, f.status, f.src)
  <2>1. Statuses = {"ok", "warn", "err", "skip"}
    BY RemoteAssumption DEF Statuses
  <2>2. \A f \in Results : f = [ev |-> "result", line |-> f.line, status |-> f.status, src |-> f.src]
    OBVIOUS
  <2>. QED
    BY <2>1, <2>2 DEF ResultEv
<1>4. \A i \in DOMAIN fout : IsResult(fout[i]) => fout[i] \in Results
  BY <1>2 DEF RemoteInv, Typed
<1>. HIDE DEF Results
<1>5. Incoming.src = "op" => Incoming.line \in 1..n
  <2>1. Incoming.src = "op" => Incoming.line <= n
    BY <1>1 DEF RemoteInv, FarFollows, FarKeeps, IsLine, IsResult
  <2>2. Incoming.line \in Nat \ {0}
    BY <1>1, <1>2 DEF Results
  <2>. QED
    BY <2>1, <2>2 DEF RemoteInv, Typed
<1>6. Incoming.src = "cap" => /\ Incoming.status \in {"ok", "err"} /\ read \in DOMAIN fout
                              /\ FailedAt(fout, read) /\ fout[read].line = Incoming.line
  BY <1>1 DEF RemoteInv, Typed, FarFollows, FarKeeps, ExtrasFollow
<1>7. ASSUME NEW i \in 1..(read + 1), i \in DOMAIN fout, IsResult(fout[i]), NEW S, fout[i].status \in S,
             NEW l, l = fout[i].line, NEW src, src = fout[i].src
      PROVE  WasRead(l, src, S)'
  <2>1. fout[i] \in {ResultEv(l, s, src) : s \in S}
    BY <1>3, <1>4, <1>7
  <2>2. \E k \in 1..read' : fout'[k] \in {ResultEv(l, s, src) : s \in S}
    BY <2>1
  <2>. QED
    BY <2>2 DEF WasRead, ResultEv
<1>8. \A l, src, S : l = Incoming.line /\ src = Incoming.src /\ Incoming.status \in S =>
        WasRead(l, src, S)'
  <2>1. read + 1 \in 1..(read + 1)
    BY DEF RemoteInv, Typed
  <2>. QED
    BY <1>1, <1>7, <2>1
<1>9. \A l : Incoming.src = "cap" /\ l = Incoming.line => WasRead(l, "op", {"err"})'
  <2>1. Incoming.src = "cap" => /\ read \in 1..(read + 1) /\ IsResult(fout[read]) /\ fout[read].src = "op"
                                /\ fout[read].status \in {"err"}
    BY <1>6 DEF RemoteInv, Typed, FailedAt, IsLine, IsResult
  <2>. QED
    BY <1>6, <1>7, <2>1
<1>. QED
  BY <1>1, <1>2, <1>3, <1>5, <1>6, <1>8, <1>9

\* The relay writes for the result it has just read, and prints it or gives up.
LEMMA FilesWritten ==
  ASSUME RemoteInv, here = "stream", Ready, IsResult(Incoming), read' = read + 1,
         fout' = fout, n' = n, kinds' = kinds,
         \/ out' = out /\ files' \in {files, Saved(Incoming), Spoiled(Incoming)}
         \/ out' = Append(out, Printed(Incoming)) /\ files' = Saved(Incoming)
  PROVE  FilesFollowResults'
<1>. DEFINE e == Incoming
<1>1. /\ e = fout[read + 1] /\ read + 1 \in DOMAIN fout /\ e \in Events
      /\ out \in Seq(Events) /\ Len(out) = read /\ Typed /\ Aligned(read)
  BY ReadResult, ReadIsEvent DEF RemoteInv, OutFollows, Typed
<1>2. ASSUME NEW l \in 1..n
      PROVE  files'[l] \in {files[l], "part"} \/ (files'[l] # files[l] /\ files'[l] = Saved(e)[l])
  BY <1>1 DEF Typed, Spoiled
<1>3. ASSUME NEW l \in 1..n, files'[l] # files[l] PROVE Saved(e)[l] # files[l]
  BY <1>1, <1>3 DEF Typed, Spoiled
<1>. HIDE DEF e
<1>4. ASSUME NEW l \in 1..n PROVE FileIsOf(l)'
  <2>1. FileIsOf(l)
    BY DEF RemoteInv, FilesFollowResults
  <2>2. \A src, S : WasRead(l, src, S) => WasRead(l, src, S)'
    BY ReadStays DEF RemoteInv, Typed
  <2>3. CASE files'[l] \in {files[l], "part"}
    BY <2>1, <2>2, <2>3 DEF FileIsOf, Writes
  <2>4. CASE files'[l] # files[l] /\ files'[l] = Saved(e)[l]
    <3>1. l = e.line /\ e.status # "err" /\ Puts(e, files'[l])
      BY <1>1, <2>4, SavedPuts
    <3>2. /\ e.status \in {"ok", "warn", "skip"}
          /\ e.src = "cap" => e.status = "ok" /\ WasRead(l, "op", {"err"})'
          /\ \A src, S : src = e.src /\ e.status \in S => WasRead(l, src, S)'
      BY <3>1, ReadResult DEF e
    <3>3. CASE e.src = "cap" /\ files'[l] = "png"
      BY <3>2, <3>3 DEF FileIsOf
    <3>4. CASE e.src = "op" /\ Writes(l)' /\ e.status = "skip" /\ files'[l] = "empty"
      BY <3>2, <3>4 DEF FileIsOf
    <3>5. CASE e.src = "op" /\ kinds'[l] = "cap" /\ e.status # "skip" /\ files'[l] = "png"
      <4>1. e.status \in {"ok", "warn"}
        BY <3>2, <3>5
      <4>. QED
        BY <3>2, <3>5, <4>1 DEF FileIsOf
    <3>6. CASE e.src = "op" /\ kinds'[l] = "qclip" /\ e.status # "skip" /\ files'[l] = "text"
      <4>1. e.status \in {"ok", "warn"}
        BY <3>2, <3>6
      <4>. QED
        BY <3>2, <3>6, <4>1 DEF FileIsOf
    <3>. QED
      BY <3>1, <3>2, <3>3, <3>4, <3>5, <3>6 DEF Puts, IsCapture, Writes
  <2>. QED
    BY <1>2, <2>3, <2>4
<1>5. PrintedIsWritten'
  <2>. SUFFICES ASSUME NEW i \in DOMAIN out', IsLine(out'[i]), Writes(out[i].line)',
                       fout'[i].status # "err"
                PROVE  files'[out'[i].line] = Content(fout[i])'
    BY DEF PrintedIsWritten, IsLine
  <2>1. Content(fout[i])' = Content(fout[i])
    BY Zenon DEF Content
  <2>2. Printed(e) \in Events /\ Printed(e).line = e.line /\ (IsLine(Printed(e)) => IsLine(e))
    BY <1>1, PrintedIsEvent DEF SameResult, IsLine, IsResult, e
  <2>3. CASE i \in DOMAIN out /\ out'[i] = out[i]
    <3>1. IsLine(out[i]) /\ IsResult(out[i]) /\ Writes(out[i].line) /\ fout[i].status # "err" /\ i \in 1..read
      BY <1>1, <2>3 DEF IsLine, IsResult, Writes
    <3>2. files[out[i].line] = Content(fout[i])
      BY <2>3, <3>1 DEF RemoteInv, FilesFollowResults, PrintedIsWritten
    <3>3. IsLine(fout[i]) /\ fout[i].line = out[i].line /\ i \in DOMAIN fout
      BY <1>1, <3>1 DEF Aligned, Same, SameResult, IsLine, IsResult
    <3>4. fout[i].line \in 1..n
      <4>1. fout[i].line <= n /\ fout[i] \in Events
        BY <1>1, <3>3 DEF RemoteInv, FarFollows, FarKeeps, Typed
      <4>2. fout[i].line \in Nat \ {0}
        BY <3>3, <4>1 DEF Events, IsLine, StartEv, UnknownEv
      <4>. QED
        BY <1>1, <4>1, <4>2 DEF Typed
    <3>5. ASSUME files'[fout[i].line] # files[fout[i].line] PROVE FALSE
      <4>1. fout[i].line = e.line /\ \E c : Puts(e, c)
        BY <1>1, <1>3, <3>4, <3>5, SavedPuts
      <4>2. \A j, k \in DOMAIN fout : IsLine(fout[j]) /\ IsLine(fout[k]) /\ j < k => fout[j].line < fout[k].line
        BY DEF RemoteInv, FarFollows, FarKeeps, LinesRise
      <4>3. CASE e.src = "op"
        <5>1. IsLine(fout[read + 1]) /\ i < read + 1
          BY <1>1, <3>1, <4>3 DEF IsLine, IsResult, e, Typed
        <5>2. fout[i].line < fout[read + 1].line
          BY <1>1, <3>3, <4>2, <5>1
        <5>. QED
          BY <1>1, <3>4, <4>1, <5>2
      <4>4. CASE e.src = "cap"
        <5>1. read \in DOMAIN fout /\ FailedAt(fout, read) /\ fout[read].line = e.line
          BY <4>4, ReadResult DEF e
        <5>2. i # read
          BY <3>1, <5>1 DEF FailedAt
        <5>3. i < read
          BY <1>1, <3>1, <5>2 DEF Typed
        <5>4. fout[i].line < fout[read].line
          BY <3>3, <4>2, <5>1, <5>3 DEF FailedAt
        <5>. QED
          BY <3>4, <4>1, <5>1, <5>4
      <4>. QED
        BY <4>1, <4>3, <4>4 DEF Puts, IsCapture
    <3>. QED
      BY <2>1, <2>3, <3>2, <3>3, <3>5
  <2>4. CASE i = read + 1 /\ out'[i] = Printed(e) /\ files' = Saved(e)
    <3>1. IsLine(e) /\ Writes(e.line) /\ fout[i] = e /\ e.status # "err"
      BY <1>1, <2>2, <2>4 DEF Writes
    <3>2. e.line \in 1..n /\ e.src = "op"
      BY <3>1, ReadResult DEF IsLine, e
    <3>3. files[e.line] # "none"
      BY <3>1, <3>2 DEF RemoteInv, FilesPlace, Writes
    <3>4. Saved(e)[e.line] = Content(e)
      BY <1>1, <3>1, <3>2, <3>3, SavedIsContent
    <3>. QED
      BY <2>1, <2>2, <2>4, <3>1, <3>4
  <2>5. \/ i \in DOMAIN out /\ out'[i] = out[i]
        \/ i = read + 1 /\ out'[i] = Printed(e) /\ files' = Saved(e)
    <3>1. CASE out' = out
      BY <3>1
    <3>2. CASE out' = Append(out, Printed(e)) /\ files' = Saved(e)
      BY <1>1, <2>2, <3>2, Appended
    <3>. QED
      BY <3>1, <3>2 DEF e
  <2>. QED
    BY <2>3, <2>4, <2>5
<1>6. WholeOnceDone'
  <2>1. \A i \in DOMAIN out : out[i].ev # "done"
    BY DEF RemoteInv, FilesPlace
  <2>2. Printed(e).ev = "result" /\ Printed(e) \in Events
    BY <1>1, PrintedIsEvent DEF IsResult, e
  <2>3. \A i \in DOMAIN out' : out'[i].ev # "done"
    <3>1. CASE out' = out
      BY <2>1, <3>1
    <3>2. CASE out' = Append(out, Printed(e))
      BY <1>1, <2>1, <2>2, <3>2, Appended
    <3>. QED
      BY <3>1, <3>2 DEF e
  <2>. QED
    BY <2>3 DEF WholeOnceDone
<1>. QED
  BY <1>4, <1>5, <1>6 DEF FilesFollowResults

\* The files go on to agree with the results.
LEMMA KeepFiles ==
  ASSUME RemoteInv, [RemoteNext]_remoteVars
  PROVE  FilesFollowResults'
<1>. USE DEF RemoteInv, Typed, LinkPlace, call, link, local
<1>0. \A l \in 1..n : here \notin {"unknown", "ended", "exited", "killed"} => files[l] # "part"
  BY DEF FilesPlace
<1>1. CASE FarStep
  BY <1>1, FarGrows, FilesStay
<1>2. CASE Rewrite
  <2>1. fout' = fout /\ n' = n /\ kinds' = kinds /\ files' = files /\ out' = out /\ read' \in {read, read + 1}
    BY <1>2 DEF Rewrite, LocalStep
  <2>. QED
    BY <2>1, FilesStay
<1>3. CASE Spawn
  <2>1. fout' = fout /\ n' = n /\ kinds' = kinds /\ files' = files /\ out' = out /\ read' \in {read, read + 1}
    BY <1>3 DEF Spawn, LocalStep
  <2>. QED
    BY <2>1, FilesStay
<1>4. CASE ConnectAborts
  <2>1. fout' = fout /\ n' = n /\ kinds' = kinds /\ files' = files /\ read' \in {read, read + 1}
    BY <1>4 DEF ConnectAborts, LocalStep
  <2>2. \A l \in 1..n : files[l] # "part"
    BY <1>0, <1>4 DEF ConnectAborts, LocalStep
  <2>3. \A i \in DOMAIN out' : ~IsLine(out'[i])
    <3>1. PrintsAbort("E_CONNECT") /\ out = <<>> /\ "E_CONNECT" \in AbortCodes
      BY <1>4 DEF ConnectAborts, LocalStep, OutFollows, AbortCodes
    <3>. QED
      BY <3>1, AbortTyped DEF IsLine, IsResult
  <2>. QED
    BY <2>1, <2>2, <2>3, FilesStay
<1>5. CASE WaitForStart
  <2>1. fout' = fout /\ n' = n /\ kinds' = kinds /\ files' = files /\ out' = out /\ read' \in {read, read + 1}
    BY <1>5 DEF WaitForStart, LocalStep
  <2>. QED
    BY <2>1, FilesStay
<1>6. CASE FirstLine
  <2>1. fout' = fout /\ n' = n /\ kinds' = kinds /\ files' = files /\ read' \in {read, read + 1}
    BY <1>6 DEF FirstLine, LocalStep
  <2>2. \A l \in 1..n : files[l] # "part"
    BY <1>0, <1>6 DEF FirstLine, LocalStep
  <2>3. \A i \in DOMAIN out' : IsLine(out'[i]) => i \in DOMAIN out /\ out'[i] = out[i]
    <3>1. out = <<>> /\ (out' = out \/ out' = out \o <<StartEv>> \/ out' = out \o <<StartEv, UnknownEv>>)
      BY <1>6, ReadSecond DEF FirstLine, LocalStep, Prints
    <3>2. StartEv \in Events /\ UnknownEv \in Events /\ ~IsLine(StartEv) /\ ~IsLine(UnknownEv)
      BY EventsMade DEF IsLine, StartEv, UnknownEv
    <3>3. CASE out' = out
      BY <3>3
    <3>4. CASE out' = out \o <<StartEv>>
      BY <3>1, <3>2, <3>4
    <3>5. CASE out' = out \o <<StartEv, UnknownEv>>
      BY <3>1, <3>2, <3>5
    <3>. QED
      BY <3>1, <3>3, <3>4, <3>5
  <2>. QED
    BY <2>1, <2>2, <2>3, FilesStay
<1>7. CASE RelayAbort
  <2>1. fout' = fout /\ n' = n /\ kinds' = kinds /\ files' = files /\ read' \in {read, read + 1}
    BY <1>7 DEF RelayAbort, LocalStep
  <2>2. \A l \in 1..n : files[l] # "part"
    BY <1>0, <1>7 DEF RelayAbort, LocalStep
  <2>3. \A i \in DOMAIN out' : ~IsLine(out'[i])
    <3>1. PrintsAbort(Incoming.code) /\ out = <<>> /\ Incoming.code \in AbortCodes
      <4>1. here = "aborted" /\ PrintsAbort(Incoming.code) /\ out = <<>>
        BY <1>7 DEF RelayAbort, LocalStep, OutFollows
      <4>2. Incoming = fout[2] /\ fout[2].ev = "abort" /\ fout[2] \in Events
        BY <4>1, ReadSecond DEF OutFollows
      <4>. QED
        BY <4>1, <4>2 DEF Events, StartEv, UnknownEv
    <3>. QED
      BY <3>1, AbortTyped DEF IsLine, IsResult
  <2>. QED
    BY <2>1, <2>2, <2>3, FilesStay
<1>8. CASE RelayResult
  <2>1. /\ Ready /\ IsResult(Incoming) /\ read' = read + 1 /\ fout' = fout /\ n' = n /\ kinds' = kinds
        /\ here = "stream" /\ files' = Saved(Incoming) /\ out' = out \o <<Printed(Incoming)>>
    BY <1>8 DEF RelayResult, LocalStep, Prints, Printed
  <2>2. Printed(Incoming) \in Events
    BY <2>1, ReadIsEvent, PrintedIsEvent
  <2>3. out' = Append(out, Printed(Incoming))
    BY <2>1, <2>2
  <2>. QED
    BY <2>1, <2>3, FilesWritten
<1>9. CASE RelayFails
  <2>1. /\ Ready /\ IsResult(Incoming) /\ read' = read + 1 /\ fout' = fout /\ n' = n /\ kinds' = kinds
        /\ here = "stream" /\ files' \in {files, Saved(Incoming), Spoiled(Incoming)} /\ out' = out
    BY <1>9 DEF RelayFails, LocalStep
  <2>. QED
    BY <2>1, FilesWritten
<1>10. CASE RelayDone
  <2>1. fout' = fout /\ n' = n /\ kinds' = kinds /\ files' = files /\ read' \in {read, read + 1}
    BY <1>10 DEF RelayDone, LocalStep
  <2>2. \A l \in 1..n : files[l] # "part"
    BY <1>0, <1>10 DEF RelayDone, LocalStep
  <2>3. \A i \in DOMAIN out' : IsLine(out'[i]) => i \in DOMAIN out /\ out'[i] = out[i]
    <3>1. out' = out \o <<Incoming>> /\ Incoming \in Events /\ ~IsLine(Incoming)
      BY <1>10, ReadIsEvent DEF RelayDone, Prints, IsLine
    <3>. QED
      BY <3>1
  <2>. QED
    BY <2>1, <2>2, <2>3, FilesStay
<1>11. CASE ConnectionLost
  <2>1. fout' = fout /\ n' = n /\ kinds' = kinds /\ files' = files /\ out' = out /\ read' \in {read, read + 1}
    BY <1>11 DEF ConnectionLost, LocalStep
  <2>. QED
    BY <2>1, FilesStay
<1>12. CASE StateUnknown
  <2>1. fout' = fout /\ n' = n /\ kinds' = kinds /\ files' = files /\ read' = read /\ here = "unknown"
    BY <1>12 DEF StateUnknown, LocalStep
  <2>2. out' = Append(out, UnknownEv) /\ UnknownEv \in Events /\ ~IsLine(UnknownEv) /\ UnknownEv.ev # "done"
    BY <1>12, EventsMade DEF StateUnknown, Prints, IsLine, UnknownEv
  <2>3. \A i \in DOMAIN out : out[i].ev # "done"
    BY <2>1 DEF FilesPlace
  <2>4. \A i \in DOMAIN out' : (i \in DOMAIN out /\ out'[i] = out[i]) \/ out'[i] = UnknownEv
    BY <2>2, Appended
  <2>5. \A i \in DOMAIN out' : IsLine(out'[i]) => i \in DOMAIN out /\ out'[i] = out[i]
    BY <2>2, <2>4
  <2>6. \A i \in DOMAIN out' : out'[i].ev # "done"
    BY <2>2, <2>3, <2>4
  <2>. QED
    BY <2>1, <2>5, <2>6, FilesStay
<1>13. CASE Drain
  <2>1. fout' = fout /\ n' = n /\ kinds' = kinds /\ files' = files /\ out' = out /\ read' \in {read, read + 1}
    BY <1>13 DEF Drain, LocalStep
  <2>. QED
    BY <2>1, FilesStay
<1>14. CASE Return
  <2>1. fout' = fout /\ n' = n /\ kinds' = kinds /\ files' = files /\ out' = out /\ read' \in {read, read + 1}
    BY <1>14 DEF Return, LocalStep
  <2>. QED
    BY <2>1, FilesStay
<1>15. CASE SshEnds
  <2>1. fout' = fout /\ n' = n /\ kinds' = kinds /\ files' = files /\ out' = out /\ read' \in {read, read + 1}
    BY <1>15 DEF SshEnds
  <2>. QED
    BY <2>1, FilesStay
<1>16. CASE Interrupt
  <2>1. fout' = fout /\ n' = n /\ kinds' = kinds /\ files' = files /\ out' = out /\ read' \in {read, read + 1}
    BY <1>16 DEF Interrupt
  <2>. QED
    BY <2>1, FilesStay
<1>17. CASE UNCHANGED remoteVars
  <2>1. fout' = fout /\ n' = n /\ kinds' = kinds /\ files' = files /\ out' = out /\ read' \in {read, read + 1}
    BY <1>17 DEF remoteVars
  <2>. QED
    BY <2>1, FilesStay
<1>. QED
  BY <1>1, <1>2, <1>3, <1>4, <1>5, <1>6, <1>7, <1>8, <1>9,
     <1>10, <1>11, <1>12, <1>13, <1>14, <1>15, <1>16, <1>17 DEF RemoteNext, RunRemote, Gone

\* A half-written file ends the relay.
LEMMA KeepFilesPlace ==
  ASSUME RemoteInv, [RemoteNext]_remoteVars
  PROVE  FilesPlace'
<1>. USE DEF RemoteInv, Typed, call, link, local
<1>. DEFINE NoDone == \A i \in DOMAIN out : out[i].ev # "done"
            Late   == {"unknown", "ended", "exited", "killed"}
<1>0. ASSUME n' = n, kinds' = kinds,
             here' \in {"stream", "unknown"} => NoDone',
             \A l \in 1..n : files'[l] = "part" => here' \in Late,
             \A l \in 1..n : files'[l] = "none" => files[l] = "none"
      PROVE  FilesPlace'
  BY <1>0 DEF FilesPlace
<1>1. CASE FarStep
  BY <1>1, FarGrows DEF FilesPlace
<1>2. CASE Rewrite
  BY <1>0, <1>2 DEF FilesPlace, Rewrite, LocalStep
<1>3. CASE Spawn
  BY <1>0, <1>3 DEF FilesPlace, Spawn, LocalStep
<1>4. CASE ConnectAborts
  BY <1>0, <1>4 DEF FilesPlace, ConnectAborts, LocalStep
<1>5. CASE WaitForStart
  BY <1>0, <1>5 DEF FilesPlace, WaitForStart, LocalStep
<1>6. CASE FirstLine
  <2>1. n' = n /\ kinds' = kinds /\ files' = files /\ here = "first" /\ here' \in {"ended", "aborted", "stream"}
    BY <1>6 DEF FirstLine, LocalStep
  <2>2. here' = "stream" => out' = <<StartEv>>
    <3>1. out = <<>>
      BY <2>1, ReadSecond
    <3>2. here' = "stream" => out' = out \o <<StartEv>>
      BY <1>6 DEF FirstLine, LocalStep, Prints
    <3>. QED
      BY <3>1, <3>2
  <2>3. here' = "stream" => NoDone'
    BY <2>2 DEF StartEv
  <2>. QED
    BY <1>0, <2>1, <2>3 DEF FilesPlace
<1>7. CASE RelayAbort
  BY <1>0, <1>7 DEF FilesPlace, RelayAbort, LocalStep
<1>8. CASE RelayResult
  <2>1. /\ Ready /\ IsResult(Incoming) /\ n' = n /\ kinds' = kinds /\ LinkPlace
        /\ here = "stream" /\ here' = "stream" /\ files' = Saved(Incoming) /\ out' = out \o <<Printed(Incoming)>>
    BY <1>8 DEF RelayResult, LocalStep, Prints, Printed
  <2>2. Printed(Incoming) \in Events /\ Printed(Incoming).ev = "result"
    BY <2>1, ReadIsEvent, PrintedIsEvent DEF IsResult
  <2>3. NoDone
    BY <2>1 DEF FilesPlace
  <2>4. NoDone'
    <3>1. out' = Append(out, Printed(Incoming))
      BY <2>1, <2>2
    <3>. QED
      BY <2>2, <2>3, <3>1, Appended
  <2>5. \A l \in 1..n : files[l] # "part"
    BY <2>1 DEF FilesPlace
  <2>6. \A l \in 1..n : Saved(Incoming)[l] = files[l] \/ Saved(Incoming)[l] \in {"empty", "png", "text"}
    BY SavedPuts DEF Puts
  <2>. QED
    BY <1>0, <2>1, <2>4, <2>5, <2>6
<1>9. CASE RelayFails
  <2>1. /\ n' = n /\ kinds' = kinds /\ here = "stream" /\ here' = "unknown" /\ out' = out
        /\ files' \in {files, Saved(Incoming), Spoiled(Incoming)}
    BY <1>9 DEF RelayFails, LocalStep
  <2>2. \A l \in 1..n : Saved(Incoming)[l] = files[l] \/ Saved(Incoming)[l] \in {"empty", "png", "text"}
    BY SavedPuts DEF Puts
  <2>3. \A l \in 1..n : files'[l] = "none" => files[l] = "none"
    BY <2>1, <2>2 DEF Spoiled
  <2>4. NoDone'
    BY <2>1 DEF FilesPlace
  <2>. QED
    BY <1>0, <2>1, <2>3, <2>4
<1>10. CASE RelayDone
  BY <1>0, <1>10 DEF FilesPlace, RelayDone, LocalStep
<1>11. CASE ConnectionLost
  BY <1>0, <1>11 DEF FilesPlace, ConnectionLost, LocalStep
<1>12. CASE StateUnknown
  BY <1>0, <1>12 DEF FilesPlace, StateUnknown, LocalStep
<1>13. CASE Drain
  BY <1>0, <1>13 DEF FilesPlace, Drain, LocalStep
<1>14. CASE Return
  BY <1>0, <1>14 DEF FilesPlace, Return, LocalStep
<1>15. CASE SshEnds
  BY <1>0, <1>15 DEF FilesPlace, SshEnds
<1>16. CASE Interrupt
  BY <1>0, <1>16 DEF FilesPlace, Interrupt
<1>17. CASE UNCHANGED remoteVars
  BY <1>0, <1>17 DEF FilesPlace, remoteVars
<1>. QED
  BY <1>1, <1>2, <1>3, <1>4, <1>5, <1>6, <1>7, <1>8, <1>9,
     <1>10, <1>11, <1>12, <1>13, <1>14, <1>15, <1>16, <1>17 DEF RemoteNext, RunRemote, Gone

LEMMA InitHolds ==
  ASSUME RemoteInit
  PROVE  RemoteInv
<1>1. n \in Nat /\ kg \in BOOLEAN /\ fout = <<>> /\ fproc = "running"
  BY RemoteAssumption DEF RemoteInit, Far!Init
<1>2. Typed
  <2>1. files \in [1..n -> Contents]
    BY <1>1 DEF RemoteInit, Contents
  <2>2. fout \in Seq(Events) /\ out \in Seq(Events)
    BY <1>1 DEF RemoteInit
  <2>. QED
    BY <1>1, <2>1, <2>2 DEF RemoteInit, Typed
<1>3. FarFollows
  <2>1. LinesDone(<<>>) = 0
    BY NoLinesYet, EventsMade DEF IsResult, StartEv
  <2>2. DOMAIN fout = {} /\ LinesDone(fout) <= n
    BY <1>1, <2>1
  <2>. QED
    BY <1>1, <2>2 DEF FarFollows, FarKeeps, LinesRise, ExtrasFollow
<1>4. LinkPlace
  BY <1>1 DEF RemoteInit, LinkPlace
<1>5. OutFollows /\ Verdict /\ Copied
  BY DEF RemoteInit, OutFollows, Verdict, Copied
<1>6. FilesFollowResults /\ FilesPlace
  BY <1>1 DEF RemoteInit, FilesFollowResults, FileIsOf, PrintedIsWritten, WholeOnceDone, FilesPlace
<1>. QED
  BY <1>2, <1>3, <1>4, <1>5, <1>6 DEF RemoteInv

-----------------------------------------------------------------------------
(* What the runs check, for every value of the constants.                  *)

\* What the wrapper prints, exits with and writes follows the far side.
THEOREM RemoteInvariant == RemoteSpec => []RemoteInv
<1>1. RemoteInit => RemoteInv
  BY InitHolds
<1>2. RemoteInv /\ [RemoteNext]_remoteVars => RemoteInv'
  BY KeepTyped, KeepFarFollows, KeepLinkPlace, KeepOutFollows, KeepVerdict, KeepCopied, KeepFiles, KeepFilesPlace DEF RemoteInv
<1>. QED
  BY <1>1, <1>2, PTL DEF RemoteSpec

\* The local files agree with the results, wherever the relay ends: what each
\* holds came from a result of its line that was read (its own, or over any
\* line's file the extra capture of its failure), what a line was printed for
\* is in its file, and none is half written in a run whose end was relayed.
THEOREM FilesAreForResults == RemoteSpec => []FilesFollowResults
<1>1. RemoteInv => FilesFollowResults
  BY DEF RemoteInv
<1>. QED
  BY <1>1, RemoteInvariant, PTL

\* Up to its last result, what the wrapper prints is what the far side printed;
\* exit 0 and 1 are the far side's own verdict on a run relayed in full, and
\* after 2 and 4 no line has run over there nor will, wherever ssh breaks.
THEOREM ExitCodesAreTrue == RemoteSpec => []ExitCodesSpeakForTheFarSide
<1>1. RemoteInv => ExitCodesSpeakForTheFarSide
  <2>. SUFFICES ASSUME RemoteInv PROVE ExitCodesSpeakForTheFarSide
    OBVIOUS
  <2>. USE DEF RemoteInv, Typed
  <2>1. ASSUME NEW i \in DOMAIN out, IsResult(out[i]), NEW j \in 2..i
        PROVE  j \in DOMAIN fout /\ SameResult(out[j], fout[j])
    <3>1. Aligned(i) /\ i \in DOMAIN fout
      BY <2>1 DEF OutFollows, Aligned
    <3>2. j \in DOMAIN fout /\ Same(out[j], fout[j])
      BY <2>1, <3>1 DEF Aligned
    <3>3. IsResult(fout[i])
      BY <2>1, <3>1 DEF Aligned, Same, SameResult, IsResult
    <3>4. IsResult(fout[j])
      <4>1. fout[j] \in Events /\ fout[j] # StartEv
        BY <2>1, <3>2 DEF FarFollows, FarKeeps
      <4>2. Ends(fout[j]) => j = Len(fout) /\ j = i
        BY <2>1, <3>1, <3>2 DEF FarFollows, FarKeeps
      <4>3. ~Ends(fout[j])
        BY <3>3, <4>2 DEF Ends, IsResult
      <4>. QED
        BY <4>1, <4>3 DEF Events, IsResult, Ends, UnknownEv
    <3>. QED
      BY <3>2, <3>4 DEF Same, SameResult
  <2>2. ASSUME here = "exited", code \in {0, 1}
        PROVE  Len(out) = Len(fout) /\ Last(fout) = Last(out)
    <3>1. out # <<>> /\ TrueEnd(out[Len(out)]) /\ code = ExitFor(out[Len(out)])
      BY <2>2 DEF Verdict
    <3>2. out[Len(out)].ev # "abort"
      BY <2>2, <3>1 DEF ExitFor, AbortExit
    <3>3. out[Len(out)] # UnknownEv
      BY <2>2, <3>1 DEF ExitFor, UnknownEv
    <3>. QED
      BY <3>1, <3>2, <3>3 DEF TrueEnd, Last
  <2>3. ASSUME here = "exited", code \in {2, 4}
        PROVE  /\ \A i \in DOMAIN fout : ~IsResult(fout[i])
               /\ fout # <<>> => Ends(Last(fout))
    <3>1. CASE ~sent
      BY <3>1 DEF LinkPlace
    <3>2. CASE out # <<>> /\ TrueEnd(out[Len(out)]) /\ code = ExitFor(out[Len(out)])
      <4>1. out[Len(out)] # UnknownEv
        BY <2>3, <3>2 DEF ExitFor, UnknownEv
      <4>2. out[Len(out)].ev # "done"
        BY <2>3, <3>2 DEF ExitFor
      <4>3. out[Len(out)].ev = "abort" => out[Len(out)].code # "E_CONNECT"
        BY <2>3, <3>2 DEF ExitFor, AbortExit
      <4>. QED
        BY <3>2, <4>1, <4>2, <4>3 DEF TrueEnd, NoRun, Last
    <3>. QED
      BY <2>3, <3>1, <3>2 DEF Verdict
  <2>. QED
    BY <2>1, <2>2, <2>3 DEF ExitCodesSpeakForTheFarSide
<1>. QED
  BY <1>1, RemoteInvariant, PTL

-----------------------------------------------------------------------------
(* A relayed run keeps the contract.                                       *)

\* The far side's contract and the wrapper's are one.
LEMMA SameFollows ==
  ASSUME NEW s, NEW e
  PROVE  Far!Follows(s, e) <=> Contract!Follows(s, e)
<1>1. \A T : Contract!Cardinality(T) = Far!Cardinality(T)
  BY DEF Far!Cardinality, Contract!Cardinality
<1>2. Far!LinesDone(s) = Contract!LinesDone(s)
  BY <1>1 DEF Far!LinesDone, Contract!LinesDone, Far!IsLine, Contract!IsLine
<1>3. \A S : Far!Counted(s, S) = Contract!Counted(s, S)
  BY <1>1 DEF Far!Counted, Contract!Counted, Far!IsResult, Contract!IsResult
<1>4. Far!NextLine(s) = Contract!NextLine(s)
  BY <1>2 DEF Far!NextLine, Contract!NextLine, Far!MustSkip, Contract!MustSkip,
              Far!IsLine, Contract!IsLine, Far!ResultEv, Contract!ResultEv
<1>5. Far!LateWarns(s) = Contract!LateWarns(s)
  BY <1>1 DEF Far!LateWarns, Contract!LateWarns, Far!IsRelease, Contract!IsRelease,
              Far!IsResult, Contract!IsResult
<1>6. Far!TrueDone(s) = Contract!TrueDone(s)
  BY <1>3 DEF Far!TrueDone, Contract!TrueDone, Far!DoneEv, Contract!DoneEv
<1>7. /\ (Far!Open(s) <=> Contract!Open(s)) /\ (Far!AllDone(s) <=> Contract!AllDone(s))
      /\ (Far!FailedLast(s) <=> Contract!FailedLast(s)) /\ Far!Extra(s) = Contract!Extra(s)
      /\ (Far!NoResultYet(s) <=> Contract!NoResultYet(s))
  BY <1>2 DEF Far!Open, Contract!Open, Far!Ends, Contract!Ends, Far!AllDone, Contract!AllDone,
              Far!FailedLast, Contract!FailedLast, Far!IsLine, Contract!IsLine,
              Far!Extra, Contract!Extra, Far!ResultEv, Contract!ResultEv,
              Far!NoResultYet, Contract!NoResultYet, Far!StartEv, Contract!StartEv
<1>. QED
  BY <1>4, <1>5, <1>6, <1>7
     DEF Far!Follows, Contract!Follows, Far!StartEv, Contract!StartEv, Far!ResultEv, Contract!ResultEv,
         Far!AbortEv, Contract!AbortEv, Far!AbortCodes, Contract!AbortCodes, Far!UnknownEv, Contract!UnknownEv

\* An event that may follow is a step of the contract.
LEMMA FollowsIsStep ==
  ASSUME n' = n, kg' = kg, code' = code, Alive, Alive', out # <<>>, out \in Seq(Events),
         NEW e \in Events, Contract!Follows(out, e), out' = out \o <<e>>
  PROVE  Contract!Next
<1>1. Contract!Prints(<<e>>)
  BY DEF Contract!Prints
<1>2. Contract!Started
  BY DEF Contract!Started, Contract!Running, Contract!Follows
<1>3. CASE ~Contract!AllDone(out) /\ e \in Contract!NextLine(out)
  <2>1. Contract!Line
    BY <1>1, <1>2, <1>3 DEF Contract!Line
  <2>. QED
    BY <2>1 DEF Contract!Next
<1>4. CASE Contract!FailedLast(out) /\ e \in Contract!Extra(out)
  <2>1. Contract!ExtraCapture
    BY <1>1, <1>2, <1>4 DEF Contract!ExtraCapture
  <2>. QED
    BY <2>1 DEF Contract!Next
<1>5. ASSUME Contract!AllDone(out), Contract!LateWarns(out) + 1 <= 1,
             NEW l \in 1..n, e = Contract!ResultEv(l, "warn", "release")
      PROVE  Contract!Next
  <2>1. [i \in 1..1 |-> l] \in [1..1 -> 1..n]
    OBVIOUS
  <2>2. Contract!Warns([i \in 1..1 |-> l]) = <<e>>
    BY <1>5 DEF Contract!Warns
  <2>3. Contract!AutoRelease(1)
    BY <1>1, <1>2, <1>5, <2>1, <2>2 DEF Contract!AutoRelease
  <2>. QED
    BY <2>3 DEF Contract!Next
<1>6. ASSUME Contract!NoResultYet(out), NEW c \in Contract!AbortCodes, e = Contract!AbortEv(c)
      PROVE  Contract!Next
  <2>1. Contract!Abort
    BY <1>1, <1>2, <1>6 DEF Contract!Abort, Contract!Started
  <2>. QED
    BY <2>1 DEF Contract!Next
<1>7. CASE Contract!AllDone(out) /\ e = Contract!TrueDone(out)
  <2>1. Contract!Done
    BY <1>1, <1>2, <1>7 DEF Contract!Done
  <2>. QED
    BY <2>1 DEF Contract!Next
<1>8. CASE e = Contract!UnknownEv
  <2>1. (IF out = <<>> THEN <<Contract!StartEv>> ELSE <<>>) \o <<e>> = <<e>>
    <3>1. (IF out = <<>> THEN <<Contract!StartEv>> ELSE <<>>) = <<>>
      OBVIOUS
    <3>2. <<>> \o <<e>> = <<e>>
      OBVIOUS
    <3>. QED
      BY <3>1, <3>2
  <2>2. Contract!DoneUnknown
    BY <1>1, <1>2, <1>8, <2>1 DEF Contract!DoneUnknown, Contract!Started
  <2>. QED
    BY <2>2 DEF Contract!Next
<1>. QED
  BY <1>3, <1>4, <1>5, <1>6, <1>7, <1>8 DEF Contract!Follows

\* A wrapper that is busy changes nothing a caller sees.
LEMMA QuietIsStutter ==
  ASSUME n' = n, kg' = kg, code' = code, out' = out, here' = here \/ (Alive /\ Alive')
  PROVE  UNCHANGED Contract!vars
BY DEF Contract!vars, Alive

\* An abort line, with or without its start.
LEMMA AbortIsStep ==
  ASSUME n' = n, kg' = kg, code' = code, Alive, Alive', out = <<>>, NEW c \in AbortCodes,
         out' = <<StartEv, AbortEv(c)>> \/ out' = <<AbortEv(c)>>
  PROVE  Contract!Next
<1>1. Contract!NoResultYet(<<>>) /\ Contract!Open(<<>>) /\ c \in Contract!AbortCodes
  BY DEF Contract!NoResultYet, Contract!Open, Contract!AbortCodes, AbortCodes
<1>2. Contract!Running
  BY <1>1 DEF Contract!Running
<1>3. CASE out' = <<StartEv, AbortEv(c)>>
  <2>1. Contract!Prints(<<Contract!StartEv, Contract!AbortEv(c)>>)
    BY <1>3 DEF Contract!Prints, Contract!StartEv, StartEv, Contract!AbortEv, AbortEv
  <2>2. Contract!Abort
    BY <1>1, <1>2, <2>1 DEF Contract!Abort
  <2>. QED
    BY <2>2 DEF Contract!Next
<1>4. CASE out' = <<AbortEv(c)>>
  <2>1. Contract!Prints(<<Contract!AbortEv(c)>>)
    BY <1>4 DEF Contract!Prints, Contract!AbortEv, AbortEv
  <2>2. Contract!Abort
    BY <1>1, <1>2, <2>1 DEF Contract!Abort
  <2>. QED
    BY <2>2 DEF Contract!Next
<1>. QED
  BY <1>3, <1>4

\* What is read next may follow what was printed.
LEMMA NextFollows ==
  ASSUME RemoteInv, "cap" \notin LineKinds, here = "stream", Ready
  PROVE  out # <<>> /\ out \in Seq(Events) /\ Incoming \in Events /\ Contract!Follows(out, Incoming)
<1>. USE DEF RemoteInv, Typed
<1>1. Incoming = fout[read + 1] /\ Incoming \in Events /\ read + 1 \in DOMAIN fout
  BY ReadIsEvent
<1>2. /\ read > 0 /\ Len(out) = read /\ fout # <<>> /\ fout[1] = StartEv
      /\ \A i \in 1..read : out[i] = fout[i]
  BY DEF OutFollows, Copied
<1>3. out = SubSeq(fout, 1, read)
  <2>1. /\ SubSeq(fout, 1, read) \in Seq(Events) /\ Len(SubSeq(fout, 1, read)) = read
        /\ \A i \in 1..read : SubSeq(fout, 1, read)[i] = fout[i]
    BY <1>1
  <2>. QED
    BY <1>2, <2>1, SeqEqual
<1>4. Far!Follows(SubSeq(fout, 1, (read + 1) - 1), fout[read + 1])
  BY <1>1, <1>2 DEF FarFollows, FarKeeps
<1>5. (read + 1) - 1 = read
  OBVIOUS
<1>6. Far!Follows(out, Incoming)
  BY <1>1, <1>3, <1>4, <1>5
<1>7. out # <<>>
  BY <1>2
<1>. QED
  BY <1>1, <1>6, <1>7, SameFollows

\* Every step is one of the contract's, or says nothing.
LEMMA StepKeepsContract ==
  ASSUME RemoteInv, "cap" \notin LineKinds, [RemoteNext]_remoteVars
  PROVE  [Contract!Next]_Contract!vars
<1>. USE DEF call, link, local
<1>1. CASE FarStep
  <2>1. UNCHANGED <<n, kg, out, code, here>>
    BY <1>1, FarGrows DEF RemoteInv
  <2>. QED
    BY <2>1, QuietIsStutter
<1>2. CASE Rewrite
  <2>1. UNCHANGED <<n, kg, out>> /\ here = "rewrite" /\ out = <<>>
    BY <1>2 DEF Rewrite, LocalStep, RemoteInv, OutFollows
  <2>2. CASE here' = "spawn" /\ code' = code
    BY <2>1, <2>2, QuietIsStutter DEF Alive
  <2>3. CASE here' = "exited" /\ code' = 2
    <3>1. Contract!Refuse
      BY <2>1, <2>3 DEF Contract!Refuse, Alive
    <3>. QED
      BY <3>1 DEF Contract!Next
  <2>. QED
    BY <1>2, <2>2, <2>3 DEF Rewrite, LocalStep
<1>3. CASE Spawn
  <2>1. UNCHANGED <<n, kg, out, code>> /\ Alive /\ Alive'
    BY <1>3 DEF Spawn, LocalStep, Alive
  <2>. QED
    BY <2>1, QuietIsStutter
<1>4. CASE ConnectAborts
  <2>1. UNCHANGED <<n, kg, code>> /\ Alive /\ Alive' /\ out = <<>>
    BY <1>4 DEF ConnectAborts, LocalStep, Alive, RemoteInv, OutFollows
  <2>2. out' = <<StartEv, AbortEv("E_CONNECT")>> \/ out' = <<AbortEv("E_CONNECT")>>
    BY <1>4, <2>1, AbortTyped DEF ConnectAborts, AbortCodes, RemoteInv
  <2>. QED
    BY <2>1, <2>2, AbortIsStep DEF AbortCodes
<1>5. CASE WaitForStart
  <2>1. UNCHANGED <<n, kg, out, code>> /\ Alive /\ Alive'
    BY <1>5 DEF WaitForStart, LocalStep, Alive
  <2>. QED
    BY <2>1, QuietIsStutter
<1>6. CASE FirstLine
  <2>1. UNCHANGED <<n, kg, code>> /\ Alive /\ Alive' /\ out = <<>>
    BY <1>6, ReadSecond DEF FirstLine, LocalStep, Alive
  <2>2. Contract!Running
    BY <2>1 DEF Contract!Running, Contract!Open
  <2>3. CASE out' = out
    BY <2>1, <2>3, QuietIsStutter
  <2>4. CASE out' = out \o <<StartEv>>
    <3>1. Contract!Start
      BY <2>1, <2>2, <2>4 DEF Contract!Start, Contract!Prints, Contract!StartEv, StartEv
    <3>. QED
      BY <3>1 DEF Contract!Next
  <2>5. CASE out' = out \o <<StartEv, UnknownEv>>
    <3>1. <<StartEv>> \o <<UnknownEv>> = <<StartEv, UnknownEv>>
      BY Joined, EventsMade
    <3>2. (IF out = <<>> THEN <<StartEv>> ELSE <<>>) = <<StartEv>>
      BY <2>1
    <3>3. Contract!StartEv = StartEv /\ Contract!UnknownEv = UnknownEv
      BY DEF Contract!StartEv, StartEv, Contract!UnknownEv, UnknownEv
    <3>4. Contract!Prints((IF out = <<>> THEN <<StartEv>> ELSE <<>>) \o <<UnknownEv>>)
      BY <2>1, <2>5, <3>1, <3>2 DEF Contract!Prints
    <3>5. Contract!DoneUnknown
      BY <2>2, <3>3, <3>4 DEF Contract!DoneUnknown
    <3>. QED
      BY <3>5 DEF Contract!Next
  <2>. QED
    BY <1>6, <2>3, <2>4, <2>5 DEF FirstLine, Prints
<1>7. CASE RelayAbort
  <2>1. /\ UNCHANGED <<n, kg, code>> /\ Alive /\ Alive' /\ out = <<>>
        /\ Len(fout) > 1 /\ fout[2].ev = "abort" /\ Incoming = fout[2]
    BY <1>7, ReadSecond DEF RelayAbort, LocalStep, Alive, RemoteInv, OutFollows
  <2>2. fout[2] \in Events
    BY <2>1 DEF RemoteInv, Typed
  <2>3. Incoming.code \in AbortCodes
    BY <2>1, <2>2 DEF Events, StartEv, UnknownEv
  <2>4. out' = <<StartEv, AbortEv(Incoming.code)>> \/ out' = <<AbortEv(Incoming.code)>>
    BY <1>7, <2>1, <2>3, AbortTyped DEF RelayAbort, RemoteInv
  <2>. QED
    BY <2>1, <2>3, <2>4, AbortIsStep
<1>8. CASE RelayResult
  <2>1. /\ here = "stream" /\ Alive /\ Alive' /\ UNCHANGED <<n, kg, code>> /\ Ready /\ IsResult(Incoming)
        /\ out' = out \o <<Printed(Incoming)>>
    BY <1>8 DEF RelayResult, LocalStep, Prints, Printed, Alive
  <2>2. out' = out \o <<Incoming>>
    BY <2>1, PlainPrinted
  <2>. QED
    BY <2>1, <2>2, NextFollows, FollowsIsStep
<1>9. CASE RelayFails
  <2>1. UNCHANGED <<n, kg, out, code>> /\ Alive /\ Alive'
    BY <1>9 DEF RelayFails, LocalStep, Alive
  <2>. QED
    BY <2>1, QuietIsStutter
<1>10. CASE RelayDone
  <2>1. /\ here = "stream" /\ Alive /\ Alive' /\ UNCHANGED <<n, kg, code>> /\ Ready
        /\ out' = out \o <<Incoming>>
    BY <1>10 DEF RelayDone, LocalStep, Prints, Alive
  <2>. QED
    BY <2>1, NextFollows, FollowsIsStep
<1>11. CASE ConnectionLost
  <2>1. UNCHANGED <<n, kg, out, code>> /\ Alive /\ Alive'
    BY <1>11 DEF ConnectionLost, LocalStep, Alive
  <2>. QED
    BY <2>1, QuietIsStutter
<1>12. CASE StateUnknown
  <2>1. /\ here = "unknown" /\ Alive /\ Alive' /\ UNCHANGED <<n, kg, code>>
        /\ out' = out \o <<UnknownEv>>
    BY <1>12 DEF StateUnknown, LocalStep, Prints, Alive
  <2>2. out # <<>> /\ out \in Seq(Events) /\ ~Ends(out[Len(out)])
    BY <2>1 DEF RemoteInv, OutFollows, Typed
  <2>3. UnknownEv \in Events /\ UnknownEv = Contract!UnknownEv
    BY EventsMade DEF UnknownEv, Contract!UnknownEv
  <2>4. Contract!Follows(out, UnknownEv)
    BY <2>2, <2>3 DEF Contract!Follows, Contract!Open, Contract!Ends, Ends
  <2>. QED
    BY <2>1, <2>2, <2>3, <2>4, FollowsIsStep
<1>13. CASE Drain
  <2>1. UNCHANGED <<n, kg, out, code>> /\ Alive /\ Alive'
    BY <1>13 DEF Drain, LocalStep, Alive
  <2>. QED
    BY <2>1, QuietIsStutter
<1>14. CASE Return
  <2>1. /\ n' = n /\ kg' = kg /\ Alive /\ here = "ended" /\ here' = "exited"
        /\ out' = out /\ code' = ExitFor(out[Len(out)])
    BY <1>14 DEF Return, LocalStep, Alive, Last
  <2>2. out # <<>> /\ Ends(out[Len(out)])
    BY <2>1 DEF RemoteInv, Verdict, TrueEnd, Ends, UnknownEv
  <2>3. ~Contract!Open(out)
    BY <2>2 DEF Contract!Open, Contract!Ends, Ends
  <2>4. ExitFor(out[Len(out)]) = Contract!ExitFor(out[Len(out)])
    BY DEF ExitFor, Contract!ExitFor, AbortExit, Contract!AbortExit
  <2>5. Contract!Exit
    BY <2>1, <2>3, <2>4 DEF Contract!Exit, Alive
  <2>. QED
    BY <2>5 DEF Contract!Next
<1>15. CASE SshEnds
  BY <1>15, QuietIsStutter DEF SshEnds
<1>16. CASE Interrupt
  <2>1. Contract!Killed
    BY <1>16 DEF Interrupt, Contract!Killed, Alive
  <2>. QED
    BY <2>1 DEF Contract!Next
<1>17. CASE UNCHANGED remoteVars
  BY <1>17, QuietIsStutter DEF remoteVars
<1>. QED
  BY <1>1, <1>2, <1>3, <1>4, <1>5, <1>6, <1>7, <1>8, <1>9,
     <1>10, <1>11, <1>12, <1>13, <1>14, <1>15, <1>16, <1>17 DEF RemoteNext, RunRemote, Gone

\* Without cap lines a relayed run keeps the contract of a local one (relay.go
\* prints what the far engine wrote), for a sequence of any length.
THEOREM RelayedRunKeepsContract ==
  ASSUME "cap" \notin LineKinds
  PROVE  RemoteSpec => KeepsContract
<1>1. RemoteInit => Contract!Init
  BY DEF RemoteInit, Far!Init, Contract!Init, Alive
<1>2. RemoteInv /\ [RemoteNext]_remoteVars => [Contract!Next]_Contract!vars
  BY StepKeepsContract
<1>. QED
  BY <1>1, <1>2, RemoteInvariant, PTL DEF RemoteSpec, KeepsContract, Contract!Spec

-----------------------------------------------------------------------------
(* BridgePipe: PipeInv, part by part.                                      *)

\* Every value stays in its set.
LEMMA TypesStep ==
  ASSUME TypesOK, [Next]_vars
  PROVE  TypesOK'
<1>. USE PipeAssumption DEF TypesOK
<1>1. ASSUME NEW b \in Bridges, BridgeStep(b) \/ SignalStep(b) \/ Start(b) \/ CtrlC(b) \/ Kill(b)
      PROVE  TypesOK'
  <2>1. CASE Start(b)
    BY <2>1 DEF Start, Moves
  <2>2. CASE ListenBridge(b)
    BY <2>2 DEF ListenBridge, Moves
  <2>3. CASE OpenBackend(b)
    BY <2>3 DEF OpenBackend, Moves
  <2>4. CASE Accept(b)
    BY <2>4 DEF Accept, Moves, Closed, MutexFree
  <2>5. CASE Connect(b)
    BY <2>5 DEF Connect, Moves, Closed
  <2>6. CASE Connected(b)
    BY <2>6 DEF Connected, Moves
  <2>7. CASE AcceptFails(b)
    BY <2>7 DEF AcceptFails, Moves, Closed, MutexFree
  <2>8. CASE ReadRequest(b)
    BY <2>8 DEF ReadRequest, Moves, Heard
  <2>9. CASE RunLine(b)
    BY <2>9 DEF RunLine, Heard
  <2>10. CASE WriteDone(b)
    BY <2>10 DEF WriteDone, Moves, Heard
  <2>11. CASE Flush(b)
    BY <2>11 DEF Flush, Moves, Heard
  <2>12. CASE Disconnect(b)
    BY <2>12 DEF Disconnect, Moves
  <2>13. CASE DeferredClose(b)
    BY <2>13 DEF DeferredClose, Moves, MutexFree, ServerCloses
  <2>14. CASE SignalCancels(b)
    BY <2>14 DEF SignalCancels, Running, Serving
  <2>15. CASE SignalCloses(b)
    BY <2>15 DEF SignalCloses, Running, Serving, Pending, ServerCloses
  <2>16. CASE CtrlC(b)
    BY <2>16 DEF CtrlC, Serving
  <2>17. CASE Kill(b)
    BY <2>17 DEF Kill, Running, Serving, ServerCloses
  <2>. QED
    BY <1>1, <2>1, <2>2, <2>3, <2>4, <2>5, <2>6, <2>7, <2>8, <2>9,
       <2>10, <2>11, <2>12, <2>13, <2>14, <2>15, <2>16, <2>17
    DEF BridgeStep, SignalStep
<1>2. ASSUME NEW c \in Callers, CallerStep(c) \/ CreateFile(c, "idle") \/ Leave(c)
      PROVE  TypesOK'
  <2>1. CASE CreateFile(c, "retry")
    BY <2>1 DEF CreateFile, Becomes
  <2>2. CASE CreateFile(c, "idle")
    BY <2>2 DEF CreateFile, Becomes
  <2>3. CASE WaitNamedPipe(c)
    BY <2>3 DEF WaitNamedPipe, Becomes
  <2>4. CASE ReadReply(c)
    BY <2>4 DEF ReadReply, Becomes, ClientCloses
  <2>5. CASE Leave(c)
    BY <2>5 DEF Leave, Becomes, ClientCloses
  <2>. QED
    BY <1>2, <2>1, <2>2, <2>3, <2>4, <2>5 DEF CallerStep
<1>3. CASE UNCHANGED vars
  BY <1>3 DEF vars
<1>. QED
  BY <1>1, <1>2, <1>3 DEF Next

\* Who opens or closes an end of the pipe moves the instance along.
LEMMA EndsStep ==
  ASSUME PipeInv, [Next]_vars
  PROVE  EndsAgree'
<1>. USE PipeAssumption DEF PipeInv, TypesOK, EndsAgree, HandlesAgree, Handling, Running, Serving
<1>1. ASSUME NEW b \in Bridges, BridgeStep(b) \/ SignalStep(b) \/ Start(b) \/ CtrlC(b) \/ Kill(b)
      PROVE  EndsAgree'
  <2>1. CASE Start(b)
    BY <2>1 DEF Start, Moves
  <2>2. CASE ListenBridge(b)
    BY <2>2 DEF ListenBridge, Moves
  <2>3. CASE OpenBackend(b)
    BY <2>3 DEF OpenBackend, Moves
  <2>4. CASE Accept(b)
    BY <2>4 DEF Accept, Moves, Closed, MutexFree
  <2>5. CASE Connect(b)
    BY <2>5 DEF Connect, Moves, Closed
  <2>6. CASE Connected(b)
    BY <2>6 DEF Connected, Moves
  <2>7. CASE AcceptFails(b)
    BY <2>7 DEF AcceptFails, Moves, Closed, MutexFree
  <2>8. CASE ReadRequest(b)
    BY <2>8 DEF ReadRequest, Moves, Heard
  <2>9. CASE RunLine(b)
    BY <2>9 DEF RunLine, Heard
  <2>10. CASE WriteDone(b)
    BY <2>10 DEF WriteDone, Moves, Heard
  <2>11. CASE Flush(b)
    BY <2>11 DEF Flush, Moves, Heard
  <2>12. CASE Disconnect(b)
    BY <2>12 DEF Disconnect, Moves
  <2>13. CASE DeferredClose(b)
    BY <2>13 DEF DeferredClose, Moves, MutexFree, ServerCloses
  <2>14. CASE SignalCancels(b)
    BY <2>14 DEF SignalCancels, Running, Serving
  <2>15. CASE SignalCloses(b)
    BY <2>15 DEF SignalCloses, Running, Serving, Pending, ServerCloses
  <2>16. CASE CtrlC(b)
    BY <2>16 DEF CtrlC, Serving
  <2>17. CASE Kill(b)
    BY <2>17 DEF Kill, Running, Serving, ServerCloses
  <2>. QED
    BY <1>1, <2>1, <2>2, <2>3, <2>4, <2>5, <2>6, <2>7, <2>8, <2>9,
       <2>10, <2>11, <2>12, <2>13, <2>14, <2>15, <2>16, <2>17
    DEF BridgeStep, SignalStep
<1>2. ASSUME NEW c \in Callers, CallerStep(c) \/ CreateFile(c, "idle") \/ Leave(c)
      PROVE  EndsAgree'
  <2>1. CASE CreateFile(c, "retry")
    BY <2>1 DEF CreateFile, Becomes
  <2>2. CASE CreateFile(c, "idle")
    BY <2>2 DEF CreateFile, Becomes
  <2>3. CASE WaitNamedPipe(c)
    BY <2>3 DEF WaitNamedPipe, Becomes
  <2>4. CASE ReadReply(c)
    BY <2>4 DEF ReadReply, Becomes, ClientCloses
  <2>5. CASE Leave(c)
    BY <2>5 DEF Leave, Becomes, ClientCloses
  <2>. QED
    BY <1>2, <2>1, <2>2, <2>3, <2>4, <2>5 DEF CallerStep
<1>3. CASE UNCHANGED vars
  BY <1>3 DEF vars
<1>. QED
  BY <1>1, <1>2, <1>3 DEF Next

\* What the handle is good for, and who may be in a call on it.
LEMMA HandlesStep ==
  ASSUME PipeInv, [Next]_vars
  PROVE  HandlesAgree'
<1>. USE PipeAssumption DEF PipeInv, TypesOK, EndsAgree, HandlesAgree, Handling, Running, Serving
<1>1. ASSUME NEW b \in Bridges, BridgeStep(b) \/ SignalStep(b) \/ Start(b) \/ CtrlC(b) \/ Kill(b)
      PROVE  HandlesAgree'
  <2>1. CASE Start(b)
    BY <2>1 DEF Start, Moves
  <2>2. CASE ListenBridge(b)
    BY <2>2 DEF ListenBridge, Moves
  <2>3. CASE OpenBackend(b)
    BY <2>3 DEF OpenBackend, Moves
  <2>4. CASE Accept(b)
    BY <2>4 DEF Accept, Moves, Closed, MutexFree
  <2>5. CASE Connect(b)
    BY <2>5 DEF Connect, Moves, Closed
  <2>6. CASE Connected(b)
    BY <2>6 DEF Connected, Moves
  <2>7. CASE AcceptFails(b)
    BY <2>7 DEF AcceptFails, Moves, Closed, MutexFree
  <2>8. CASE ReadRequest(b)
    BY <2>8 DEF ReadRequest, Moves, Heard
  <2>9. CASE RunLine(b)
    BY <2>9 DEF RunLine, Heard
  <2>10. CASE WriteDone(b)
    BY <2>10 DEF WriteDone, Moves, Heard
  <2>11. CASE Flush(b)
    BY <2>11 DEF Flush, Moves, Heard
  <2>12. CASE Disconnect(b)
    BY <2>12 DEF Disconnect, Moves
  <2>13. CASE DeferredClose(b)
    BY <2>13 DEF DeferredClose, Moves, MutexFree, ServerCloses
  <2>14. CASE SignalCancels(b)
    BY <2>14 DEF SignalCancels, Running, Serving
  <2>15. CASE SignalCloses(b)
    BY <2>15 DEF SignalCloses, Running, Serving, Pending, ServerCloses
  <2>16. CASE CtrlC(b)
    BY <2>16 DEF CtrlC, Serving
  <2>17. CASE Kill(b)
    BY <2>17 DEF Kill, Running, Serving, ServerCloses
  <2>. QED
    BY <1>1, <2>1, <2>2, <2>3, <2>4, <2>5, <2>6, <2>7, <2>8, <2>9,
       <2>10, <2>11, <2>12, <2>13, <2>14, <2>15, <2>16, <2>17
    DEF BridgeStep, SignalStep
<1>2. ASSUME NEW c \in Callers, CallerStep(c) \/ CreateFile(c, "idle") \/ Leave(c)
      PROVE  HandlesAgree'
  <2>1. CASE CreateFile(c, "retry")
    BY <2>1 DEF CreateFile, Becomes
  <2>2. CASE CreateFile(c, "idle")
    BY <2>2 DEF CreateFile, Becomes
  <2>3. CASE WaitNamedPipe(c)
    BY <2>3 DEF WaitNamedPipe, Becomes
  <2>4. CASE ReadReply(c)
    BY <2>4 DEF ReadReply, Becomes, ClientCloses
  <2>5. CASE Leave(c)
    BY <2>5 DEF Leave, Becomes, ClientCloses
  <2>. QED
    BY <1>2, <2>1, <2>2, <2>3, <2>4, <2>5 DEF CallerStep
<1>3. CASE UNCHANGED vars
  BY <1>3 DEF vars
<1>. QED
  BY <1>1, <1>2, <1>3 DEF Next

\* However bridges and callers come, go and die: the ends of the pipe agree, and the
\* threads of a bridge agree on its handle (bridge_pipe.go).
THEOREM PipeInvariant == Spec => []PipeInv
<1>1. Init => PipeInv
  <2>. SUFFICES ASSUME Init PROVE PipeInv
    OBVIOUS
  <2>1. \A b \in Bridges : pc[b] = "off" /\ signal[b] = "waiting" /\ owner # b
    BY PipeAssumption DEF Init
  <2>2. TypesOK
    <3>1. early \in BOOLEAN /\ reply \in BOOLEAN
      BY Zenon DEF Init
    <3>2. left \in [Bridges -> 0..RunLines]
      BY PipeAssumption DEF Init
    <3>. QED
      BY <3>1, <3>2 DEF Init, TypesOK
  <2>3. EndsAgree
    BY PipeAssumption DEF Init, EndsAgree
  <2>4. HandlesAgree
    BY <2>1 DEF HandlesAgree, Handling, Running, Serving
  <2>. QED
    BY <2>2, <2>3, <2>4 DEF PipeInv
<1>2. PipeInv /\ [Next]_vars => PipeInv'
  BY TypesStep, EndsStep, HandlesStep DEF PipeInv
<1>. QED
  BY <1>1, <1>2, PTL DEF Spec

-----------------------------------------------------------------------------
(* DoneIsRead.                                                             *)

\* A bridge that flushes has written its done line if anybody is there to read it, and has
\* nobody to lose when it disconnects.
FlushedBeforeDisconnect ==
  \A b \in Bridges :
    /\ pc[b] = "flush" /\ Heard(b) => reply
    /\ pc[b] = "disconnect" /\ signal[b] = "waiting" => ~Heard(b)

Stopped == \E b \in Bridges : pc[b] \in {"killed", "exited"} \/ signal[b] # "waiting"

\* A pipe without its bridge, and a caller without its answer, mean that one was stopped.
LostMeansStopped == pipe = "orphan" \/ (\E c \in Callers : caller[c] = "lost") => Stopped

\* WriteDone, the caller's reading and the flush between them.
LEMMA FlushedStep ==
  ASSUME PipeInv, FlushedBeforeDisconnect, [Next]_vars
  PROVE  FlushedBeforeDisconnect'
<1>. USE PipeAssumption DEF PipeInv, TypesOK, EndsAgree, HandlesAgree, FlushedBeforeDisconnect, Heard, Handling, Running, Serving
<1>1. ASSUME NEW b \in Bridges, BridgeStep(b) \/ SignalStep(b) \/ Start(b) \/ CtrlC(b) \/ Kill(b)
      PROVE  FlushedBeforeDisconnect'
  <2>1. CASE Start(b)
    BY <2>1 DEF Start, Moves
  <2>2. CASE ListenBridge(b)
    BY <2>2 DEF ListenBridge, Moves
  <2>3. CASE OpenBackend(b)
    BY <2>3 DEF OpenBackend, Moves
  <2>4. CASE Accept(b)
    BY <2>4 DEF Accept, Moves, Closed, MutexFree
  <2>5. CASE Connect(b)
    BY <2>5 DEF Connect, Moves, Closed
  <2>6. CASE Connected(b)
    BY <2>6 DEF Connected, Moves
  <2>7. CASE AcceptFails(b)
    BY <2>7 DEF AcceptFails, Moves, Closed, MutexFree
  <2>8. CASE ReadRequest(b)
    BY <2>8 DEF ReadRequest, Moves, Heard
  <2>9. CASE RunLine(b)
    BY <2>9 DEF RunLine, Heard
  <2>10. CASE WriteDone(b)
    BY <2>10 DEF WriteDone, Moves, Heard
  <2>11. CASE Flush(b)
    BY <2>11 DEF Flush, Moves, Heard
  <2>12. CASE Disconnect(b)
    BY <2>12 DEF Disconnect, Moves
  <2>13. CASE DeferredClose(b)
    BY <2>13 DEF DeferredClose, Moves, MutexFree, ServerCloses
  <2>14. CASE SignalCancels(b)
    BY <2>14 DEF SignalCancels, Running, Serving
  <2>15. CASE SignalCloses(b)
    BY <2>15 DEF SignalCloses, Running, Serving, Pending, ServerCloses
  <2>16. CASE CtrlC(b)
    BY <2>16 DEF CtrlC, Serving
  <2>17. CASE Kill(b)
    BY <2>17 DEF Kill, Running, Serving, ServerCloses
  <2>. QED
    BY <1>1, <2>1, <2>2, <2>3, <2>4, <2>5, <2>6, <2>7, <2>8, <2>9,
       <2>10, <2>11, <2>12, <2>13, <2>14, <2>15, <2>16, <2>17
    DEF BridgeStep, SignalStep
<1>2. ASSUME NEW c \in Callers, CallerStep(c) \/ CreateFile(c, "idle") \/ Leave(c)
      PROVE  FlushedBeforeDisconnect'
  <2>1. CASE CreateFile(c, "retry")
    BY <2>1 DEF CreateFile, Becomes
  <2>2. CASE CreateFile(c, "idle")
    BY <2>2 DEF CreateFile, Becomes
  <2>3. CASE WaitNamedPipe(c)
    BY <2>3 DEF WaitNamedPipe, Becomes
  <2>4. CASE ReadReply(c)
    BY <2>4 DEF ReadReply, Becomes, ClientCloses
  <2>5. CASE Leave(c)
    BY <2>5 DEF Leave, Becomes, ClientCloses
  <2>. QED
    BY <1>2, <2>1, <2>2, <2>3, <2>4, <2>5 DEF CallerStep
<1>3. CASE UNCHANGED vars
  BY <1>3 DEF vars
<1>. QED
  BY <1>1, <1>2, <1>3 DEF Next

\* Only Disconnect, Close, Kill and the reading of a pipe without a bridge lose a caller.
LEMMA LostStep ==
  ASSUME PipeInv, FlushedBeforeDisconnect, LostMeansStopped, [Next]_vars
  PROVE  LostMeansStopped'
<1>. USE PipeAssumption DEF PipeInv, TypesOK, EndsAgree, HandlesAgree, FlushedBeforeDisconnect, LostMeansStopped, Stopped, Heard, Handling, Running, Serving
<1>1. ASSUME NEW b \in Bridges, BridgeStep(b) \/ SignalStep(b) \/ Start(b) \/ CtrlC(b) \/ Kill(b)
      PROVE  LostMeansStopped'
  <2>1. CASE Start(b)
    BY <2>1 DEF Start, Moves
  <2>2. CASE ListenBridge(b)
    BY <2>2 DEF ListenBridge, Moves
  <2>3. CASE OpenBackend(b)
    BY <2>3 DEF OpenBackend, Moves
  <2>4. CASE Accept(b)
    BY <2>4 DEF Accept, Moves, Closed, MutexFree
  <2>5. CASE Connect(b)
    BY <2>5 DEF Connect, Moves, Closed
  <2>6. CASE Connected(b)
    BY <2>6 DEF Connected, Moves
  <2>7. CASE AcceptFails(b)
    BY <2>7 DEF AcceptFails, Moves, Closed, MutexFree
  <2>8. CASE ReadRequest(b)
    BY <2>8 DEF ReadRequest, Moves, Heard
  <2>9. CASE RunLine(b)
    BY <2>9 DEF RunLine, Heard
  <2>10. CASE WriteDone(b)
    BY <2>10 DEF WriteDone, Moves, Heard
  <2>11. CASE Flush(b)
    BY <2>11 DEF Flush, Moves, Heard
  <2>12. CASE Disconnect(b)
    BY <2>12 DEF Disconnect, Moves
  <2>13. CASE DeferredClose(b)
    BY <2>13 DEF DeferredClose, Moves, MutexFree, ServerCloses
  <2>14. CASE SignalCancels(b)
    BY <2>14 DEF SignalCancels, Running, Serving
  <2>15. CASE SignalCloses(b)
    BY <2>15 DEF SignalCloses, Running, Serving, Pending, ServerCloses
  <2>16. CASE CtrlC(b)
    BY <2>16 DEF CtrlC, Serving
  <2>17. CASE Kill(b)
    BY <2>17 DEF Kill, Running, Serving, ServerCloses
  <2>. QED
    BY <1>1, <2>1, <2>2, <2>3, <2>4, <2>5, <2>6, <2>7, <2>8, <2>9,
       <2>10, <2>11, <2>12, <2>13, <2>14, <2>15, <2>16, <2>17
    DEF BridgeStep, SignalStep
<1>2. ASSUME NEW c \in Callers, CallerStep(c) \/ CreateFile(c, "idle") \/ Leave(c)
      PROVE  LostMeansStopped'
  <2>1. CASE CreateFile(c, "retry")
    BY <2>1 DEF CreateFile, Becomes
  <2>2. CASE CreateFile(c, "idle")
    BY <2>2 DEF CreateFile, Becomes
  <2>3. CASE WaitNamedPipe(c)
    BY <2>3 DEF WaitNamedPipe, Becomes
  <2>4. CASE ReadReply(c)
    BY <2>4 DEF ReadReply, Becomes, ClientCloses
  <2>5. CASE Leave(c)
    BY <2>5 DEF Leave, Becomes, ClientCloses
  <2>. QED
    BY <1>2, <2>1, <2>2, <2>3, <2>4, <2>5 DEF CallerStep
<1>3. CASE UNCHANGED vars
  BY <1>3 DEF vars
<1>. QED
  BY <1>1, <1>2, <1>3 DEF Next

\* A caller that stays reads the end of its run: nobody is cut off by the DisconnectNamedPipe
\* that follows a run, only by a bridge that was interrupted or killed (pipeConn.Close).
THEOREM DoneIsReadAlways == Spec => []DoneIsRead
<1>. DEFINE Inv == FlushedBeforeDisconnect /\ LostMeansStopped
<1>1. Init => Inv
  BY PipeAssumption DEF Init, FlushedBeforeDisconnect, LostMeansStopped, Heard
<1>2. PipeInv /\ Inv /\ [Next]_vars => Inv'
  BY FlushedStep, LostStep
<1>3. Inv => DoneIsRead
  BY DEF LostMeansStopped, Stopped, DoneIsRead
<1>. QED
  BY <1>1, <1>2, <1>3, PipeInvariant, PTL DEF Spec
=============================================================================
