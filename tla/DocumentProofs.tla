-------------------------- MODULE DocumentProofs ----------------------------
(***************************************************************************)
(* Proofs about Document: that the engine behind a bridge and the one      *)
(* behind ssh are given the operations the caller's machine accepted, and  *)
(* that what is accepted is within LIMITS, for documents of any length and *)
(* files of any content.                                                   *)
(***************************************************************************)
EXTENDS LineProofs

-----------------------------------------------------------------------------
(* What holds on the caller's machine.                                     *)

\* Operations of the shape that RoundTrip asks for.
Fits(s) == IsSeq(s) /\ \A i \in DOMAIN s : Shaped(s[i]) /\ s[i].kind \in Kinds

\* Lines as the grammar cuts them.
CutLines(d) == d \in Seq(Lines) /\ \A i \in DOMAIN d : IsCut(d[i])

\* The inductive invariant of BridgeCarriesTheOps: at each step of the way, how the
\* operations at hand, or the request made of them, are the ones that were accepted.
SentAsMeant ==
  /\ side \in {"near", "far"}
  /\ side = "near" =>
       /\ CutLines(lines) /\ lines # <<>>
       /\ at \in Nat \ {0} /\ pc \in {"read", "parse", "inline", "accepted", "refused", "printed", "sent", "run"}
       /\ pc = "parse" => at \in DOMAIN lines
       /\ pc # "run" => Fits(ops)
       /\ pc \in {"accepted", "printed", "sent"} => meant = ops
       /\ pc = "sent" => request = [i \in DOMAIN ops |-> OpNode(ops[i])]
       /\ BridgeCarriesTheOps

\* SentAsMeant holds before anything is read.
LEMMA InitSentAsMeant == ASSUME Init PROVE SentAsMeant
<1>1. CutLines(lines) /\ lines # <<>>
  BY DocumentAssumption DEF Init, CutLines
<1>2. Fits(ops)
  BY DEF Init, Fits, IsSeq, ToSet
<1>. QED
  BY <1>1, <1>2 DEF Init, SentAsMeant, BridgeCarriesTheOps

\* Reading the lines keeps them as the grammar cuts them.
LEMMA ReadKeeps == ASSUME SentAsMeant, ReadLines, side = "near" PROVE SentAsMeant'
<1>. USE DEF ReadLines
<1>. DEFINE f(l) == [l EXCEPT !.chars = DropCR(@)]
<1>0. CutLines(lines) /\ lines # <<>> /\ Fits(ops)
  BY DEF SentAsMeant
<1>1. CASE via = "file"
  <2>1. \A i \in DOMAIN lines : f(lines[i]) \in Lines /\ IsCut(f(lines[i]))
    BY <1>0, ReadCut DEF CutLines, IsCut
  <2>. HIDE DEF f
  <2>2. lines' = [i \in DOMAIN lines |-> f(lines[i])]
    BY <1>1 DEF f
  <2>3. DOMAIN lines = 1..Len(lines) /\ Len(lines) \in Nat
    BY <1>0 DEF CutLines
  <2>4. lines' \in Seq(Lines) /\ DOMAIN lines' = DOMAIN lines /\ Len(lines') = Len(lines)
    BY <2>1, <2>2, <2>3
  <2>5a. \A i \in DOMAIN lines' : IsCut(lines'[i])
    BY <2>1, <2>2, <2>4
  <2>5b. Len(lines) # 0
    BY <1>0, <2>3, EmptySeq DEF CutLines
  <2>5. CutLines(lines') /\ lines' # <<>>
    BY <2>4, <2>5a, <2>5b DEF CutLines
  <2>6. 1 \in DOMAIN lines'
    BY <1>0, <2>3, <2>4
  <2>7. Fits(ops') /\ CutLines(lines)' /\ Fits(ops)'
    BY <1>0, <2>5, Zenon DEF Fits, IsSeq, CutLines
  <2>. QED
    BY <2>5, <2>6, <2>7 DEF SentAsMeant, BridgeCarriesTheOps
<1>2. CASE via # "file"
  <2>1. lines' = [i \in DOMAIN lines |-> lines[i]]
    BY <1>2
  <2>2. lines' = lines
    BY <1>0, <2>1 DEF CutLines
  <2>. QED
    BY <1>0, <2>2 DEF CutLines, SentAsMeant, BridgeCarriesTheOps
<1>. QED
  BY <1>1, <1>2

\* What is built of a line that is not complained of has the shape that RoundTrip asks for.
LEMMA BuiltFits ==
  ASSUME NEW big, NEW i, NEW l, IsCut(l), l.form \notin {"blank", "comment"}, ~Malformed(l)
  PROVE  Shaped(BuildOp(big, i, l)) /\ BuildOp(big, i, l).kind \in Kinds
  BY NotMalformed, BuiltShape DEF BuildsShape

\* One operation more of that shape.
LEMMA AppendFits ==
  ASSUME NEW s, Fits(s), NEW o, Shaped(o), o.kind \in Kinds
  PROVE  Fits(Append(s, o))
<1>. DEFINE t == Append(s, o)
<1>1. /\ IsSeq(t) /\ DOMAIN t = 1..(Len(s) + 1) /\ DOMAIN s = 1..Len(s) /\ Len(s) \in Nat
      /\ \A i \in DOMAIN s : t[i] = s[i]
      /\ t[Len(s) + 1] = o
  BY AppendSeq, SeqDomain DEF Fits
<1>. HIDE DEF t
<1>2. \A i \in DOMAIN t : i \in DOMAIN s \/ i = Len(s) + 1
  BY <1>1
<1>3. Fits(t)
  BY <1>1, <1>2, Zenon DEF Fits
<1>. QED
  BY <1>3 DEF t

\* Parsing a line adds an operation of that shape, or none.
LEMMA ParseKeeps == ASSUME SentAsMeant, ParseLine, side = "near" PROVE SentAsMeant'
<1>. DEFINE l == lines[at]
<1>0. CutLines(lines) /\ lines # <<>> /\ Fits(ops) /\ at \in DOMAIN lines /\ IsCut(l)
  BY DEF SentAsMeant, ParseLine, CutLines
<1>1. DOMAIN lines = 1..Len(lines) /\ Len(lines) \in Nat
  BY <1>0 DEF CutLines
<1>2. Fits(ops')
  <2>1. CASE l.form \in {"blank", "comment"} \/ Malformed(l)
    BY <1>0, <2>1 DEF ParseLine
  <2>2. CASE ~(l.form \in {"blank", "comment"} \/ Malformed(l))
    BY <1>0, <2>2, BuiltFits, AppendFits DEF ParseLine
  <2>. QED
    BY <2>1, <2>2
<1>3. \/ pc' = "inline" /\ at' = 1
      \/ pc' = "parse" /\ at' = at + 1 /\ at # Len(lines)
  BY DEF ParseLine
<1>. QED
  BY <1>0, <1>1, <1>2, <1>3 DEF ParseLine, SentAsMeant, BridgeCarriesTheOps

\* What a file holds replaces the text of an operation.
LEMMA InlineShaped ==
  ASSUME NEW o, Shaped(o), o.kind \in TextKinds, NEW data
  PROVE  /\ Shaped([o EXCEPT !.text = data, !.hasText = TRUE])
         /\ [o EXCEPT !.text = data, !.hasText = TRUE].kind = o.kind
<1>. DEFINE u == [o EXCEPT !.text = data, !.hasText = TRUE]
<1>0. {"text", "hasText", "kind", "hasPoint", "point", "scaleNative", "shell", "points", "argv", "cmd",
       "frame", "disp", "rect"} \subseteq OpFields
  BY DEF OpFields
<1>1. IsOp(u) /\ \A f \in OpFields \ {"text", "hasText"} : u[f] = o[f]
  BY <1>0, ZenonT(30) DEF Shaped, IsOp
<1>. HIDE DEF u
<1>2. "text" \in FieldsOf(o.kind)
  BY DEF TextKinds, FieldsOf
<1>3. u.kind = o.kind /\ u.hasPoint = o.hasPoint /\ u.point = o.point /\ u.scaleNative = o.scaleNative
      /\ u.shell = o.shell
  BY <1>0, <1>1, Zenon
<1>4. \A f \in OpFields \ (CommonFields \cup NearFields \cup FieldsOf(o.kind)) : u[f] = ZeroOp[f]
  BY <1>1, <1>2 DEF Shaped, NearFields
<1>5. o.kind \notin {"move", "drag", "exec", "capture"}
  BY DEF TextKinds
<1>6. Shaped(u)
  BY <1>1, <1>3, <1>4, <1>5, Zenon DEF Shaped
<1>. QED
  BY <1>3, <1>6 DEF u

\* One operation replaced by another of that shape.
LEMMA ReplacedFits ==
  ASSUME NEW s, Fits(s), NEW i \in DOMAIN s, NEW o, Shaped(o), o.kind \in Kinds
  PROVE  Fits([s EXCEPT ![i] = o])
  BY ReplacedSeq, Zenon DEF Fits

\* A file's text in place of none keeps the shape.
LEMMA InlineKeeps == ASSUME SentAsMeant, InlineOp, side = "near" PROVE SentAsMeant'
<1>0. Fits(ops) /\ at \in DOMAIN ops /\ pc = "inline"
  BY SeqDomain DEF SentAsMeant, InlineOp, Fits
<1>1. Fits(ops')
  <2>1. CASE ops' = ops
    BY <1>0, <2>1 DEF Fits, IsSeq
  <2>2. CASE ops' # ops
    <3>1. PICK data : ops[at].kind \in TextKinds /\ ops' = [ops EXCEPT ![at].text = data, ![at].hasText = TRUE]
      BY <2>2 DEF InlineOp
    <3>. DEFINE u == [ops[at] EXCEPT !.text = data, !.hasText = TRUE]
    <3>2. ops' = [ops EXCEPT ![at] = u]
      BY <1>0, <3>1, Zenon DEF Fits, IsSeq
    <3>3. Shaped(u) /\ u.kind \in Kinds
      BY <1>0, <3>1, InlineShaped DEF Fits
    <3>. QED
      BY <1>0, <3>2, <3>3, ReplacedFits
  <2>. QED
    BY <2>1, <2>2
<1>2. UNCHANGED <<side, lines, pc>> /\ at' = at + 1
  BY DEF InlineOp
<1>3. Fits(ops)' /\ CutLines(lines)' /\ lines' # <<>> /\ at \in Nat \ {0}
  BY <1>1, <1>2 DEF Fits, IsSeq, CutLines, SentAsMeant
<1>. QED
  BY <1>0, <1>2, <1>3 DEF SentAsMeant, BridgeCarriesTheOps

\* What is accepted is what is meant.
LEMMA ValidateKeeps == ASSUME SentAsMeant, ValidateSeq, side = "near" PROVE SentAsMeant'
<1>1. pc' \in {"accepted", "refused"} /\ meant' = ops /\ UNCHANGED <<side, lines, ops, at>> /\ pc = "inline"
  BY DEF ValidateSeq
<1>. QED
  BY <1>1 DEF SentAsMeant, BridgeCarriesTheOps, Fits, IsSeq, CutLines

\* The request holds each operation's object.
LEMMA EncodeKeeps == ASSUME SentAsMeant, EncodeRequest, side = "near" PROVE SentAsMeant'
  BY DEF EncodeRequest, SentAsMeant, BridgeCarriesTheOps, Fits, IsSeq, CutLines

\* --check and --ir change nothing.
LEMMA PrintsKeeps == ASSUME SentAsMeant, PrintsOk, side = "near" PROVE SentAsMeant'
  BY DEF PrintsOk, SentAsMeant, BridgeCarriesTheOps, Fits, IsSeq, CutLines

\* A local run runs what is meant.
LEMMA RunHereKeeps == ASSUME SentAsMeant, RunHere, side = "near" PROVE SentAsMeant'
  BY DEF RunHere, SentAsMeant, BridgeCarriesTheOps, Fits, IsSeq, CutLines

\* What the bridge decodes is what is meant: RoundTrip, operation by operation.
LEMMA DecodeKeeps == ASSUME SentAsMeant, DecodeRequest, side = "near" PROVE SentAsMeant'
<1>0. /\ Fits(ops) /\ meant = ops /\ request = [i \in DOMAIN ops |-> OpNode(ops[i])]
      /\ DOMAIN ops = 1..Len(ops) /\ Len(ops) \in Nat
  BY SeqDomain DEF SentAsMeant, DecodeRequest, Fits
<1>1. ops' = [i \in 1..Len(ops) |-> DecodeOp(OpNode(ops[i]))]
  BY <1>0 DEF DecodeRequest
<1>2. Len(ops') = Len(ops) /\ DOMAIN ops' = 1..Len(ops)
  BY <1>0, <1>1
<1>3. ASSUME NEW i \in 1..Len(ops)
      PROVE  Carried(ops'[i]) = Carried(ops[i])
  <2>1. ops'[i] = DecodeOp(OpNode(ops[i])) /\ Shaped(ops[i]) /\ ops[i].kind \in Kinds
    BY <1>0, <1>1 DEF Fits
  <2>. QED
    BY <2>1, RoundTrip
<1>4. meant' = ops /\ UNCHANGED <<side, lines, at>> /\ pc' = "run" /\ pc = "sent"
  BY <1>0 DEF DecodeRequest
<1>5. BridgeCarriesTheOps'
  BY <1>2, <1>3, <1>4 DEF BridgeCarriesTheOps
<1>. QED
  BY <1>4, <1>5 DEF SentAsMeant, CutLines

\* What is sent over ssh is no longer here.
LEMMA SendKeeps == ASSUME SentAsMeant, SendOverSsh, side = "near" PROVE SentAsMeant'
<1>1. \/ side' = "far"
      \/ pc' = "refused" /\ UNCHANGED <<side, lines, ops, at>>
  BY DEF SendOverSsh
<1>. QED
  BY <1>1 DEF SendOverSsh, SentAsMeant, BridgeCarriesTheOps, Fits, IsSeq, CutLines

\* Every step keeps SentAsMeant.
LEMMA StepSentAsMeant == ASSUME SentAsMeant, [Next]_vars PROVE SentAsMeant'
<1>1. CASE UNCHANGED vars
  BY <1>1 DEF vars, SentAsMeant, BridgeCarriesTheOps, Fits, IsSeq, CutLines
<1>2. CASE side = "far" /\ Next
  <2>1. side' = "far"
    BY <1>2 DEF Next, ReadLines, ParseLine, InlineOp, ValidateSeq, PrintsOk, RunHere, EncodeRequest,
                DecodeRequest, SendOverSsh
  <2>. QED
    BY <2>1 DEF SentAsMeant
<1>3. CASE side = "near" /\ Next
  BY <1>3, ReadKeeps, ParseKeeps, InlineKeeps, ValidateKeeps, PrintsKeeps, RunHereKeeps, EncodeKeeps,
     DecodeKeeps, SendKeeps DEF Next
<1>. QED
  BY <1>1, <1>2, <1>3 DEF SentAsMeant

\* BridgeCarriesTheOps, for all documents and all contents of files: the engine behind a
\* bridge runs the operations that were accepted. By SentAsMeant, which says at each step
\* of the way how the operations at hand are those that are meant.
THEOREM BridgeAlwaysCarriesTheOps == Spec => []BridgeCarriesTheOps
<1>1. SentAsMeant => BridgeCarriesTheOps
  BY DEF SentAsMeant, BridgeCarriesTheOps
<1>2. SentAsMeant /\ [Next]_vars => SentAsMeant'
  BY StepSentAsMeant
<1>. QED
  BY <1>1, <1>2, InitSentAsMeant, PTL DEF Spec

-----------------------------------------------------------------------------
(* What the caller has taken the lines for.                                *)

\* What the caller's machine has taken the lines for, and what it has accepted.
WrittenAsMeant ==
  /\ SentAsMeant
  /\ bigs \in [{"near", "far"} -> {Huge, -Huge}]
  /\ side = "near" =>
       /\ pc = "read" => diags = {} /\ ops = <<>>
       /\ pc = "parse" /\ diags = {} => Match(lines, ops, at - 1, bigs["near"])
       /\ pc = "inline" /\ diags = {} => Match(lines, ops, Len(lines), bigs["near"])
       /\ pc \in {"accepted", "printed", "sent", "run"} =>
            Match(lines, meant, Len(lines), bigs["near"]) /\ Validate(meant) = {}

\* WrittenAsMeant holds before anything is read.
LEMMA InitWrittenAsMeant == ASSUME Init PROVE WrittenAsMeant
  BY InitSentAsMeant DEF Init, WrittenAsMeant

\* Reading the lines leaves no operation to match.
LEMMA ReadMatches == ASSUME WrittenAsMeant, ReadLines, side = "near" PROVE WrittenAsMeant'
<1>1. SentAsMeant'
  BY ReadKeeps DEF WrittenAsMeant
<1>2. Match(lines', <<>>, 0, bigs["near"])
  BY MatchEmpty
<1>3. UNCHANGED <<ops, diags, bigs, side>> /\ pc' = "parse" /\ at' = 1 /\ pc = "read" /\ 1 - 1 = 0
  BY DEF ReadLines
<1>. QED
  BY <1>1, <1>2, <1>3 DEF WrittenAsMeant

\* One more line is parsed.
LEMMA ParseMatches ==
  ASSUME NEW d, CutLines(d), NEW z \in DOMAIN d, NEW s, NEW big, NEW t,
         t = IF d[z].form \in {"blank", "comment"} \/ Malformed(d[z]) THEN s ELSE Append(s, BuildOp(big, z, d[z])),
         ~Malformed(d[z]), Match(d, s, z - 1, big)
  PROVE  Match(d, t, z, big)
<1>1. z - 1 \in Nat /\ (z - 1) + 1 = z
  BY DEF CutLines
<1>2. IsCut(d[z])
  BY DEF CutLines
<1>3. CASE d[z].form \in {"blank", "comment"}
  BY <1>1, <1>3, MatchSkip
<1>4. CASE d[z].form \notin {"blank", "comment"}
  <2>1. d[z].form = "stmt"
    BY <1>2, <1>4, NotMalformed
  <2>2. PICK k \in Nat : k = z - 1 /\ k + 1 = z
    BY <1>1
  <2>3. Match(d, Append(s, BuildOp(big, k + 1, d[k + 1])), k + 1, big)
    BY <2>1, <2>2, MatchNext
  <2>. QED
    BY <1>4, <2>2, <2>3
<1>. QED
  BY <1>3, <1>4

\* Each line read so far has its operation, or none and a diagnostic.
LEMMA ParseLineMatches == ASSUME WrittenAsMeant, ParseLine, side = "near" PROVE WrittenAsMeant'
<1>1. SentAsMeant'
  BY ParseKeeps DEF WrittenAsMeant
<1>2. CutLines(lines) /\ at \in DOMAIN lines /\ DOMAIN lines = 1..Len(lines) /\ pc = "parse"
  BY DEF WrittenAsMeant, SentAsMeant, ParseLine, CutLines
<1>3. ASSUME diags' = {} PROVE Match(lines, ops', at, bigs["near"])
  <2>1. diags = {} /\ ~Malformed(lines[at])
    BY <1>3 DEF ParseLine
  <2>2. Match(lines, ops, at - 1, bigs["near"])
    BY <1>2, <2>1 DEF WrittenAsMeant
  <2>3. ops' = IF lines[at].form \in {"blank", "comment"} \/ Malformed(lines[at]) THEN ops
               ELSE Append(ops, BuildOp(bigs["near"], at, lines[at]))
    BY DEF ParseLine
  <2>. QED
    BY <1>2, <2>1, <2>2, <2>3, ParseMatches
<1>4. \/ pc' = "inline" /\ at = Len(lines)
      \/ pc' = "parse" /\ at' - 1 = at
  BY <1>2 DEF ParseLine, WrittenAsMeant, SentAsMeant
<1>5. UNCHANGED <<side, bigs, lines>>
  BY DEF ParseLine
<1>. QED
  BY <1>1, <1>3, <1>4, <1>5 DEF WrittenAsMeant

\* An operation whose file was read is still its line's.
LEMMA InlineMatches == ASSUME WrittenAsMeant, InlineOp, side = "near" PROVE WrittenAsMeant'
<1>1. SentAsMeant'
  BY InlineKeeps DEF WrittenAsMeant
<1>2. ASSUME diags' = {} PROVE Match(lines, ops', Len(lines), bigs["near"])
  <2>1. diags = {}
    BY <1>2 DEF InlineOp
  <2>2. Match(lines, ops, Len(lines), bigs["near"])
    BY <2>1 DEF WrittenAsMeant, InlineOp
  <2>3. CASE ops' = ops
    BY <2>2, <2>3
  <2>4. CASE ops' # ops
    <3>1. PICK data \in Contents : ops' = [ops EXCEPT ![at].text = data, ![at].hasText = TRUE] /\ ops[at].fromFile
      BY <2>4 DEF InlineOp
    <3>2. data \in Seq(STRING)
      BY DocumentAssumption
    <3>3. at \in DOMAIN ops
      BY SeqDomain DEF WrittenAsMeant, SentAsMeant, InlineOp, Fits
    <3>4. Len(lines) \in Nat
      BY DEF WrittenAsMeant, SentAsMeant, CutLines
    <3>. QED
      BY <2>2, <3>1, <3>2, <3>3, <3>4, MatchInline, Zenon
  <2>. QED
    BY <2>3, <2>4
<1>3. UNCHANGED <<side, bigs, lines, pc>> /\ pc = "inline"
  BY DEF InlineOp
<1>. QED
  BY <1>1, <1>2, <1>3 DEF WrittenAsMeant

\* What is accepted has no diagnostic, and has passed Validate.
LEMMA ValidateMatches == ASSUME WrittenAsMeant, ValidateSeq, side = "near" PROVE WrittenAsMeant'
<1>1. SentAsMeant'
  BY ValidateKeeps DEF WrittenAsMeant
<1>2. UNCHANGED <<side, bigs, lines, ops>> /\ meant' = ops /\ pc' \in {"accepted", "refused"} /\ pc = "inline"
  BY DEF ValidateSeq
<1>3. ASSUME pc' = "accepted" PROVE Match(lines, ops, Len(lines), bigs["near"]) /\ Validate(ops) = {}
  BY <1>3 DEF ValidateSeq, WrittenAsMeant
<1>. QED
  BY <1>1, <1>2, <1>3 DEF WrittenAsMeant

\* Nothing after that changes what is meant.
LEMMA AcceptedMatches ==
  ASSUME WrittenAsMeant, side = "near", PrintsOk \/ RunHere \/ EncodeRequest \/ DecodeRequest
  PROVE  WrittenAsMeant'
<1>1. SentAsMeant'
  BY PrintsKeeps, RunHereKeeps, EncodeKeeps, DecodeKeeps DEF WrittenAsMeant
<1>2. /\ UNCHANGED <<side, bigs, lines, meant>> /\ pc \in {"accepted", "sent"}
      /\ pc' \in {"printed", "sent", "run"}
  BY DEF PrintsOk, RunHere, EncodeRequest, DecodeRequest
<1>. QED
  BY <1>1, <1>2 DEF WrittenAsMeant

\* Every step keeps WrittenAsMeant.
LEMMA StepWrittenAsMeant == ASSUME WrittenAsMeant, [Next]_vars PROVE WrittenAsMeant'
<1>1. SentAsMeant'
  BY StepSentAsMeant DEF WrittenAsMeant
<1>2. bigs' = bigs
  BY DEF Next, vars, ReadLines, ParseLine, InlineOp, ValidateSeq, PrintsOk, RunHere, EncodeRequest,
         DecodeRequest, SendOverSsh
<1>3. CASE UNCHANGED vars
  BY <1>1, <1>3 DEF vars, WrittenAsMeant
<1>4. CASE side = "far" /\ Next
  <2>1. side' = "far"
    BY <1>4 DEF Next, ReadLines, ParseLine, InlineOp, ValidateSeq, PrintsOk, RunHere, EncodeRequest,
                DecodeRequest, SendOverSsh
  <2>. QED
    BY <1>1, <1>2, <2>1 DEF WrittenAsMeant
<1>5. CASE side = "near" /\ SendOverSsh
  <2>1. side' = "far" \/ pc' = "refused"
    BY <1>5 DEF SendOverSsh
  <2>. QED
    BY <1>1, <1>2, <2>1 DEF WrittenAsMeant
<1>. QED
  BY <1>3, <1>4, <1>5, ReadMatches, ParseLineMatches, InlineMatches, ValidateMatches, AcceptedMatches
  DEF Next, WrittenAsMeant, SentAsMeant

-----------------------------------------------------------------------------
(* The limits of one line.                                                 *)

\* A duration written over a limit is over it when it is built, unless it wraps to the
\* least integer.
LEMMA OverDuration ==
  ASSUME NEW v, v.n \in Int, NEW max \in Int, max < Huge, bigs["near"] \in {Huge, -Huge}, Over(v, max)
  PROVE  Duration(bigs["near"], v) > max
<1>0. Huge \in Int
  BY SMT DEF Huge
<1>1. CASE v.n < Huge
  <2>1. ~(v.n >= Huge)
    BY <1>0, <1>1
  <2>2. Duration(bigs["near"], v) = Ms(v)
    BY <2>1, Zenon DEF Duration, Ms
  <2>. QED
    BY <1>1, <2>2, Zenon DEF Over
<1>2. CASE ~(v.n < Huge)
  <2>1. v.n >= Huge
    BY <1>0, <1>2
  <2>2. Duration(bigs["near"], v) = bigs["near"]
    BY <2>1, Zenon DEF Duration
  <2>3. bigs["near"] > 0
    BY <1>2, Zenon DEF Over
  <2>. QED
    BY <1>0, <2>2, <2>3
<1>. QED
  BY <1>1, <1>2

\* A duration that passed as a number was not over the limit as written.
LEMMA KeptDuration ==
  ASSUME NEW l, IsCut(l), NEW k, NEW default, NEW max \in Int, max < Huge, bigs["near"] \in {Huge, -Huge},
         ~(DurVal(bigs["near"], MS(l), k, default) > max), Has(MS(l), k)
  PROVE  ~Over(Whole(MS(l).kvs[k]), max)
<1>1. PICK w \in Words : w = MS(l).kvs[k]
  BY KvWord
<1>2. PICK v : v = Whole(w) /\ v.n \in Int
  BY WholeInt
<1>3. DurVal(bigs["near"], MS(l), k, default) = Duration(bigs["near"], v)
  BY <1>1, <1>2, Zenon DEF DurVal
<1>4. ~Over(v, max)
  BY <1>2, <1>3, OverDuration
<1>. QED
  BY <1>1, <1>2, <1>4

\* The operation of a line passed validation.
Passed(o, i, l) ==
  /\ IsCut(l) /\ l.form = "stmt" /\ ~Malformed(l)
  /\ bigs["near"] \in {Huge, -Huge} /\ Built(o, bigs["near"], i, l)
  /\ ~TimingFails(o) /\ ~RangeFails(o)

\* An accepted operation has the values its line was built with.
LEMMA PassedFields ==
  ASSUME NEW o, NEW i, NEW l, Passed(o, i, l)
  PROVE  LET b == BuildOp(bigs["near"], i, l) IN
         /\ o.kind = Commands[l.cmd].kind /\ o.delay = OptDur(bigs["near"], MS(l), "d")
         /\ o.keys = b.keys /\ o.mods = b.mods /\ o.gap = b.gap /\ o.interval = b.interval
         /\ o.duration = b.duration /\ o.count = b.count /\ o.ticks = b.ticks /\ o.wait = b.wait
         /\ o.timeout = b.timeout /\ o.capCount = b.capCount /\ o.capInterval = b.capInterval
         /\ o.scaleNative = b.scaleNative /\ o.scale = b.scale /\ o.sleep = b.sleep /\ o.points = b.points
         /\ l.cmd \in DOMAIN Commands /\ DOMAIN MS(l).kvs \subseteq Commands[l.cmd].kv
<1>. DEFINE b == BuildOp(bigs["near"], i, l)
<1>1. \A x \in OpFields \ {"text", "hasText"} : o[x] = b[x]
  BY DEF Passed, Built
<1>2. IsBare(b, bigs["near"], i, l)
  BY BuiltShape DEF Passed, BuildsShape
<1>3. b.kind = Commands[l.cmd].kind /\ b.delay = OptDur(bigs["near"], MS(l), "d")
  BY <1>2 DEF IsBare
<1>4. l.cmd \in DOMAIN Commands /\ DOMAIN MS(l).kvs \subseteq Commands[l.cmd].kv
  BY Parsed DEF Passed
<1>5. {"kind", "delay", "keys", "mods", "gap", "interval", "duration", "count", "ticks", "wait", "timeout",
       "capCount", "capInterval", "scaleNative", "scale", "sleep", "points"} \subseteq OpFields \ {"text", "hasText"}
  BY DEF OpFields
<1>. HIDE DEF b
<1>6. /\ o.kind = b.kind /\ o.delay = b.delay
      /\ o.keys = b.keys /\ o.mods = b.mods /\ o.gap = b.gap /\ o.interval = b.interval
      /\ o.duration = b.duration /\ o.count = b.count /\ o.ticks = b.ticks /\ o.wait = b.wait
      /\ o.timeout = b.timeout /\ o.capCount = b.capCount /\ o.capInterval = b.capInterval
      /\ o.scaleNative = b.scaleNative /\ o.scale = b.scale /\ o.sleep = b.sleep /\ o.points = b.points
  BY <1>1, <1>5, Zenon
<1>. QED
  BY <1>3, <1>4, <1>6 DEF b

\* The limit of d=.
LEMMA DelayKept ==
  ASSUME NEW o, NEW i, NEW l, Passed(o, i, l), Has(MS(l), "d")
  PROVE  ~Over(Whole(MS(l).kvs["d"]), 10000)
<1>. DEFINE v == DurVal(bigs["near"], MS(l), "d", 0)
<1>1. o.delay = <<v>>
  BY PassedFields DEF OptDur
<1>. HIDE DEF v
<1>2. o.delay # <<>> /\ o.delay[1] = v
  BY <1>1
<1>3. ~(v > 10000)
  BY <1>2 DEF Passed, TimingFails, MaxDelay
<1>4. 10000 \in Int /\ 10000 < Huge
  BY SMT DEF Huge
<1>. QED
  BY <1>3, <1>4, KeptDuration, SMT DEF v, Passed

\* The limit of ms=.
LEMMA IntervalKept ==
  ASSUME NEW o, NEW i, NEW l, Passed(o, i, l), Has(MS(l), "ms")
  PROVE  ~Over(Whole(MS(l).kvs["ms"]), 10000)
<1>0. "ms" \in Commands[l.cmd].kv /\ DOMAIN MS(l).kvs \subseteq Commands[l.cmd].kv /\ l.cmd \in DOMAIN Commands
  BY PassedFields DEF Has
<1>1. l.cmd \in {"k", "txt", "m", "c", "drag", "paste", "cap"}
  BY <1>0, CommandNames, CommandRows
<1>2. ASSUME NEW x, NEW default, x = DurVal(bigs["near"], MS(l), "ms", default), ~(x > 10000)
      PROVE  ~Over(Whole(MS(l).kvs["ms"]), 10000)
  <2>1. 10000 \in Int /\ 10000 < Huge
    BY SMT DEF Huge
  <2>. QED
    BY <1>2, <2>1, KeptDuration, SMT DEF Passed
<1>3. CASE l.cmd = "k"
  <2>1. o.kind = "key" /\ o.gap = DurVal(bigs["near"], MS(l), "ms", 30)
    BY <1>0, <1>3, PassedFields, KShape, CommandRows
  <2>2. ~(o.gap > 10000)
    BY <2>1 DEF Passed, TimingFails, MaxDelay
  <2>. QED
    BY <1>2, <2>1, <2>2
<1>4. CASE l.cmd = "txt"
  <2>1. o.kind = "text" /\ o.interval = DurVal(bigs["near"], MS(l), "ms", 0)
    BY <1>0, <1>4, PassedFields, TxtShape, CommandRows
  <2>2. ~(o.interval > 10000)
    BY <2>1 DEF Passed, TimingFails, MaxDelay
  <2>. QED
    BY <1>2, <2>1, <2>2
<1>5. CASE l.cmd = "m"
  <2>1. o.kind = "move" /\ o.duration = DurVal(bigs["near"], MS(l), "ms", 0)
    BY <1>0, <1>5, PassedFields, MShape, CommandRows
  <2>2. ~(o.duration > 10000)
    BY <2>1 DEF Passed, TimingFails, MaxDelay
  <2>. QED
    BY <1>2, <2>1, <2>2
<1>6. CASE l.cmd = "c"
  <2>1. o.kind = "click" /\ o.gap = DurVal(bigs["near"], MS(l), "ms", 60)
    BY <1>0, <1>6, PassedFields, CShape, CommandRows
  <2>2. ~(o.gap > 10000)
    BY <2>1 DEF Passed, TimingFails, MaxDelay
  <2>. QED
    BY <1>2, <2>1, <2>2
<1>7. CASE l.cmd = "drag"
  <2>1. o.kind = "drag" /\ o.duration = DurVal(bigs["near"], MS(l), "ms", 500)
    BY <1>0, <1>7, PassedFields, DragShape, CommandRows
  <2>2. ~(o.duration > 10000)
    BY <2>1 DEF Passed, TimingFails, MaxDelay
  <2>. QED
    BY <1>2, <2>1, <2>2
<1>8. CASE l.cmd = "paste"
  <2>1. o.kind = "paste" /\ o.interval = DurVal(bigs["near"], MS(l), "ms", 50)
    BY <1>0, <1>8, PassedFields, PasteShape, CommandRows
  <2>2. ~(o.interval > 10000)
    BY <2>1 DEF Passed, TimingFails, MaxDelay
  <2>. QED
    BY <1>2, <2>1, <2>2
<1>9. CASE l.cmd = "cap"
  <2>1. ASSUME NEW big PROVE BuildOp(big, i, l).capInterval = DurVal(big, MS(l), "ms", 100)
    BY ONLY <1>0, <1>9, CapShape, Zenon
  <2>1a. o.kind = "capture" /\ o.capInterval = DurVal(bigs["near"], MS(l), "ms", 100)
    BY <1>9, <2>1, PassedFields, CommandRows
  <2>2. ~(o.capInterval > 10000)
    BY <2>1a DEF Passed, TimingFails, MaxDelay
  <2>. QED
    BY <1>2, <2>1a, <2>2
<1>. QED
  BY <1>1, <1>3, <1>4, <1>5, <1>6, <1>7, <1>8, <1>9

\* The limit of wait=.
LEMMA WaitKept ==
  ASSUME NEW o, NEW i, NEW l, Passed(o, i, l), Has(MS(l), "wait")
  PROVE  ~Over(Whole(MS(l).kvs["wait"]), 60000)
<1>0. "wait" \in Commands[l.cmd].kv /\ DOMAIN MS(l).kvs \subseteq Commands[l.cmd].kv /\ l.cmd \in DOMAIN Commands
  BY PassedFields DEF Has
<1>1. l.cmd \in {"win", "open"}
  BY <1>0, CommandNames, CommandRows
<1>2. o.kind \in {"focus", "open"} /\ o.wait = DurVal(bigs["near"], MS(l), "wait", 0)
  BY <1>0, <1>1, PassedFields, WinShape, OpenShape, CommandRows
<1>3. ~(o.wait > 60000)
  BY <1>2 DEF Passed, TimingFails, MaxWait
<1>4. 60000 \in Int /\ 60000 < Huge
  BY SMT DEF Huge
<1>. QED
  BY <1>2, <1>3, <1>4, KeptDuration, SMT DEF Passed

\* The limit of timeout=.
LEMMA TimeoutKept ==
  ASSUME NEW o, NEW i, NEW l, Passed(o, i, l), Has(MS(l), "timeout")
  PROVE  ~Over(Whole(MS(l).kvs["timeout"]), 60000)
<1>0. "timeout" \in Commands[l.cmd].kv /\ DOMAIN MS(l).kvs \subseteq Commands[l.cmd].kv /\ l.cmd \in DOMAIN Commands
  BY PassedFields DEF Has
<1>1. l.cmd = "exec"
  BY <1>0, CommandNames, CommandRows
<1>2. o.kind = "exec" /\ o.timeout = DurVal(bigs["near"], MS(l), "timeout", 10000)
  BY <1>0, <1>1, PassedFields, ExecShape, CommandRows
<1>3. ~(o.timeout > 60000)
  BY <1>2 DEF Passed, TimingFails, MaxExecTimeout
<1>4. 60000 \in Int /\ 60000 < Huge
  BY SMT DEF Huge
<1>. QED
  BY <1>2, <1>3, <1>4, KeptDuration, SMT DEF Passed

\* The limit of sleep.
LEMMA SleepKept ==
  ASSUME NEW o, NEW i, NEW l, Passed(o, i, l), l.cmd = "sleep"
  PROVE  ~Over(Whole(l.words[1]), 60000)
<1>1. o.kind = "sleep" /\ o.sleep = Duration(bigs["near"], Whole(Payload(l)))
  BY PassedFields, SleepShape, CommandRows
<1>2. ~(o.sleep > 60000)
  BY <1>1 DEF Passed, TimingFails, MaxSleep
<1>3. IsDuration(Whole(Payload(l)))
  <2>1. ~PayloadFails(Commands[l.cmd], l, MS(l)) /\ Commands[l.cmd].payload = "sleep"
    BY Parsed, CommandRows DEF Passed
  <2>. QED
    BY <2>1 DEF PayloadFails
<1>4. Len(l.words) = 1
  <2>1. ~IsDuration(Whole(One(Garbled)))
    BY DEF IsDuration, Whole, One, Word, Garbled, Name
  <2>. QED
    BY <1>3, <2>1 DEF Payload
<1>5. Payload(l) = l.words[1]
  BY <1>4 DEF Payload
<1>6. l.words[1] \in Words
  BY <1>4 DEF Passed, IsCut, Lines
<1>7. Whole(l.words[1]).n \in Int
  BY <1>6, WholeInt
<1>8. 60000 \in Int /\ 60000 < Huge
  BY SMT DEF Huge
<1>. QED
  BY <1>1, <1>2, <1>5, <1>7, <1>8, OverDuration, SMT DEF Passed

-----------------------------------------------------------------------------
(* The modifiers of a chord.                                               *)

\* Counting one more.
LEMMA OneMore ==
  ASSUME NEW F, NEW S, IsFiniteSet(S), NEW x, x \notin S
  PROVE  Cardinality(F \cap (S \cup {x})) = Cardinality(F \cap S) + (IF x \in F THEN 1 ELSE 0)
<1>1. IsFiniteSet(F \cap S)
  <2>1. F \cap S \subseteq S
    OBVIOUS
  <2>. QED
    BY <2>1, FS_Subset
<1>2. Cardinality(F \cap S) \in Nat
  BY <1>1, FS_CardinalityType
<1>3. CASE x \in F
  <2>1. F \cap (S \cup {x}) = (F \cap S) \cup {x} /\ x \notin F \cap S
    BY <1>3
  <2>. QED
    BY <1>1, <1>2, <1>3, <2>1, FS_AddElement
<1>4. CASE x \notin F
  <2>1. F \cap (S \cup {x}) = F \cap S
    BY <1>4
  <2>2. PICK z \in Nat : z = Cardinality(F \cap S)
    BY <1>2
  <2>3. Cardinality(F \cap (S \cup {x})) = z
    BY <2>1, <2>2, Zenon
  <2>. QED
    BY <1>4, <2>2, <2>3
<1>. QED
  BY <1>3, <1>4

\* The number of modifier flags is the sum over the five.
LEMMA FlagCount ==
  ASSUME NEW F \in SUBSET Held
  PROVE  LET One1(x) == IF x \in F THEN 1 ELSE 0 IN
         Cardinality(F) = One1("c") + One1("s") + One1("a") + One1("m") + One1("p")
<1>1. Cardinality(F \cap {}) = 0
  <2>1. F \cap {} = {}
    OBVIOUS
  <2>. QED
    BY <2>1, FS_EmptySet
<1>2. /\ IsFiniteSet({}) /\ IsFiniteSet({"c"}) /\ IsFiniteSet({"c", "s"}) /\ IsFiniteSet({"c", "s", "a"})
      /\ IsFiniteSet({"c", "s", "a", "m"})
  <2>1. IsFiniteSet({})
    BY FS_EmptySet
  <2>2. IsFiniteSet({} \cup {"c"})
    BY <2>1, FS_AddElement
  <2>3. IsFiniteSet({"c"} \cup {"s"})
    BY <2>2, FS_AddElement
  <2>4. IsFiniteSet({"c", "s"} \cup {"a"})
    BY <2>3, FS_AddElement
  <2>5. IsFiniteSet({"c", "s", "a"} \cup {"m"})
    BY <2>4, FS_AddElement
  <2>6. /\ {} \cup {"c"} = {"c"} /\ {"c"} \cup {"s"} = {"c", "s"} /\ {"c", "s"} \cup {"a"} = {"c", "s", "a"}
        /\ {"c", "s", "a"} \cup {"m"} = {"c", "s", "a", "m"}
    OBVIOUS
  <2>. QED
    BY <2>1, <2>2, <2>3, <2>4, <2>5, <2>6
<1>3. Cardinality(F \cap {"c"}) = IF "c" \in F THEN 1 ELSE 0
  <2>1. Cardinality(F \cap ({} \cup {"c"})) = Cardinality(F \cap {}) + (IF "c" \in F THEN 1 ELSE 0)
    BY <1>2, OneMore
  <2>2. {} \cup {"c"} = {"c"}
    OBVIOUS
  <2>. QED
    BY <1>1, <2>1, <2>2
<1>4. Cardinality(F \cap {"c", "s"}) = Cardinality(F \cap {"c"}) + (IF "s" \in F THEN 1 ELSE 0)
  <2>1. Cardinality(F \cap ({"c"} \cup {"s"})) = Cardinality(F \cap {"c"}) + (IF "s" \in F THEN 1 ELSE 0)
    BY <1>2, OneMore
  <2>2. {"c"} \cup {"s"} = {"c", "s"}
    OBVIOUS
  <2>. QED
    BY <2>1, <2>2
<1>5. Cardinality(F \cap {"c", "s", "a"}) = Cardinality(F \cap {"c", "s"}) + (IF "a" \in F THEN 1 ELSE 0)
  <2>1. Cardinality(F \cap ({"c", "s"} \cup {"a"})) = Cardinality(F \cap {"c", "s"}) + (IF "a" \in F THEN 1 ELSE 0)
    BY <1>2, OneMore
  <2>2. {"c", "s"} \cup {"a"} = {"c", "s", "a"}
    OBVIOUS
  <2>. QED
    BY <2>1, <2>2
<1>6. Cardinality(F \cap {"c", "s", "a", "m"}) = Cardinality(F \cap {"c", "s", "a"}) + (IF "m" \in F THEN 1 ELSE 0)
  <2>1. Cardinality(F \cap ({"c", "s", "a"} \cup {"m"})) = Cardinality(F \cap {"c", "s", "a"}) + (IF "m" \in F THEN 1 ELSE 0)
    BY <1>2, OneMore
  <2>2. {"c", "s", "a"} \cup {"m"} = {"c", "s", "a", "m"}
    OBVIOUS
  <2>. QED
    BY <2>1, <2>2
<1>7. Cardinality(F) = Cardinality(F \cap {"c", "s", "a", "m"}) + (IF "p" \in F THEN 1 ELSE 0)
  <2>1. Cardinality(F \cap ({"c", "s", "a", "m"} \cup {"p"})) = Cardinality(F \cap {"c", "s", "a", "m"}) + (IF "p" \in F THEN 1 ELSE 0)
    BY <1>2, OneMore
  <2>2. F \cap ({"c", "s", "a", "m"} \cup {"p"}) = F
    BY DEF Held
  <2>. QED
    BY <2>1, <2>2
<1>. QED
  BY <1>3, <1>4, <1>5, <1>6, <1>7

\* A sequence of one.
LEMMA ToSetOne == \A v : v \in ToSet(<<v>>)
<1>. TAKE v
<1>1. DOMAIN <<v>> = {1} /\ <<v>>[1] = v
  OBVIOUS
<1>. QED
  BY <1>1, Zenon DEF ToSet

\* Five parts put together.
LEMMA FiveParts ==
  ASSUME NEW f, NEW q, Flattens(f, q, 5)
  PROVE  /\ f[1] = q[1] /\ f[2] = f[1] \o q[2] /\ f[3] = f[2] \o q[3]
         /\ f[4] = f[3] \o q[4] /\ f[5] = f[4] \o q[5]
<1>1. \A i \in 1..5 : f[i] = IF i = 1 THEN q[i] ELSE f[i - 1] \o q[i]
  BY DEF Flattens
<1>2. f[2] = f[1] \o q[2]
  <2>1. PICK i \in 1..5 : i = 2 /\ i # 1 /\ i - 1 = 1
    OBVIOUS
  <2>2. f[i] = f[i - 1] \o q[i]
    BY <1>1, <2>1
  <2>. QED
    BY <2>1, <2>2
<1>3. f[3] = f[2] \o q[3]
  <2>1. PICK i \in 1..5 : i = 3 /\ i # 1 /\ i - 1 = 2
    OBVIOUS
  <2>2. f[i] = f[i - 1] \o q[i]
    BY <1>1, <2>1
  <2>. QED
    BY <2>1, <2>2
<1>4. f[4] = f[3] \o q[4]
  <2>1. PICK i \in 1..5 : i = 4 /\ i # 1 /\ i - 1 = 3
    OBVIOUS
  <2>2. f[i] = f[i - 1] \o q[i]
    BY <1>1, <2>1
  <2>. QED
    BY <2>1, <2>2
<1>5. f[5] = f[4] \o q[5]
  <2>1. PICK i \in 1..5 : i = 5 /\ i # 1 /\ i - 1 = 4
    OBVIOUS
  <2>2. f[i] = f[i - 1] \o q[i]
    BY <1>1, <2>1
  <2>. QED
    BY <2>1, <2>2
<1>6. f[1] = q[1]
  BY <1>1
<1>. QED
  BY <1>2, <1>3, <1>4, <1>5, <1>6

\* orderedMods lists every modifier flag once.
LEMMA ModsCount ==
  ASSUME NEW m, m.flags \in SUBSET Held
  PROVE  Len(OrderedMods(m)) = Cardinality(m.flags) /\ Cardinality(m.flags) \in 0..5
<1>. DEFINE q == [i \in DOMAIN FlagOrder |-> IF FlagOrder[i] \in m.flags THEN <<FlagSymbol[FlagOrder[i]]>> ELSE <<>>]
            u == {FlagSymbol[FlagOrder[i]] : i \in 1..5}
            has(x) == IF x \in m.flags THEN 1 ELSE 0
<1>1. DOMAIN FlagOrder = 1..5 /\ FlagOrder[1] = "c" /\ FlagOrder[2] = "s" /\ FlagOrder[3] = "a"
      /\ FlagOrder[4] = "m" /\ FlagOrder[5] = "p"
  BY DEF FlagOrder
<1>2. Len(q) = 5
  BY <1>1
<1>3. ASSUME NEW i \in 1..5 PROVE q[i] \in Seq(u) /\ Len(q[i]) = has(FlagOrder[i])
  <2>1. CASE FlagOrder[i] \in m.flags
    <3>1. q[i] = <<FlagSymbol[FlagOrder[i]]>> /\ FlagSymbol[FlagOrder[i]] \in u
      BY <1>1, <2>1
    <3>. HIDE DEF q, u
    <3>2. PICK x \in u : q[i] = <<x>>
      BY <3>1
    <3>. QED
      BY <2>1, <3>2
  <2>2. CASE FlagOrder[i] \notin m.flags
    <3>1. q[i] = <<>>
      BY <1>1, <2>2
    <3>. HIDE DEF q, u
    <3>. QED
      BY <2>2, <3>1
  <2>. QED
    BY <2>1, <2>2
<1>4. OrderedMods(m) = FlattenSeq(q)
  BY DEF OrderedMods
<1>. HIDE DEF q, u
<1>5. PICK f : Flattens(f, q, 5)
  <2>1. 5 \in Nat
    OBVIOUS
  <2>. QED
    BY <2>1, FlattensExists, Zenon
<1>6. FlattenSeq(q) = f[5]
  <2>1. Len(q) \in Nat \ {0} /\ Flattens(f, q, Len(q))
    BY <1>2, <1>5
  <2>. QED
    BY <1>2, <2>1, FlattenSeqIs
<1>7. f[1] = q[1] /\ f[2] = f[1] \o q[2] /\ f[3] = f[2] \o q[3] /\ f[4] = f[3] \o q[4] /\ f[5] = f[4] \o q[5]
  BY <1>5, FiveParts DEF q
<1>7a. /\ q[1] \in Seq(u) /\ Len(q[1]) = has("c") /\ q[2] \in Seq(u) /\ Len(q[2]) = has("s")
       /\ q[3] \in Seq(u) /\ Len(q[3]) = has("a") /\ q[4] \in Seq(u) /\ Len(q[4]) = has("m")
       /\ q[5] \in Seq(u) /\ Len(q[5]) = has("p")
  BY <1>1, <1>3
<1>7b. has("c") \in 0..1 /\ has("s") \in 0..1 /\ has("a") \in 0..1 /\ has("m") \in 0..1 /\ has("p") \in 0..1
  OBVIOUS
<1>7c. Cardinality(m.flags) = has("c") + has("s") + has("a") + has("m") + has("p")
  BY FlagCount, Zenon
<1>. HIDE DEF has
<1>7d. \A s, t \in Seq(u) : s \o t \in Seq(u) /\ Len(s \o t) = Len(s) + Len(t)
  BY ConcatProperties
<1>8. f[1] \in Seq(u) /\ Len(f[1]) = has("c")
  BY <1>7, <1>7a
<1>9. f[2] \in Seq(u) /\ Len(f[2]) = has("c") + has("s")
  BY <1>7, <1>7a, <1>7d, <1>8
<1>10. f[3] \in Seq(u) /\ Len(f[3]) = has("c") + has("s") + has("a")
  BY <1>7, <1>7a, <1>7d, <1>9
<1>11. f[4] \in Seq(u) /\ Len(f[4]) = has("c") + has("s") + has("a") + has("m")
  BY <1>7, <1>7a, <1>7d, <1>10
<1>12. Len(f[5]) = has("c") + has("s") + has("a") + has("m") + has("p")
  BY <1>7, <1>7a, <1>7d, <1>11
<1>. QED
  BY <1>4, <1>6, <1>7b, <1>7c, <1>12

-----------------------------------------------------------------------------
(* The counts of one line.                                                 *)

\* The limits of cap.
LEMMA CaptureKept ==
  ASSUME NEW o, NEW i, NEW l, Passed(o, i, l), l.cmd = "cap"
  PROVE  /\ Has(MS(l), "n") => IsCount(Whole(MS(l).kvs["n"]), 120)
         /\ NameVal(MS(l), "scale", "native") # "native" /\ Has(MS(l), "scale") =>
              IsCount(Whole(MS(l).kvs["scale"]), 4)
<1>. DEFINE big == bigs["near"]
<1>1. DOMAIN MS(l).kvs \subseteq Commands[l.cmd].kv /\ o.kind = "capture" /\ l.cmd = "cap"
  BY PassedFields, CommandRows
<1>2. ASSUME NEW b PROVE BuildOp(b, i, l).capCount = IntVal(MS(l), "n", 1)
  BY ONLY <1>1, CapShape, Zenon
<1>2a. ASSUME NEW b, NameVal(MS(l), "scale", "") # "native"
       PROVE  ~BuildOp(b, i, l).scaleNative
  BY ONLY <1>1, <1>2a, CapShape, Zenon
<1>2b. ASSUME NEW b, NameVal(MS(l), "scale", "") # "native"
       PROVE  BuildOp(b, i, l).scale = IntVal(MS(l), "scale", 1)
  BY ONLY <1>1, <1>2b, CapShape, Zenon
<1>3. /\ o.capCount = BuildOp(big, i, l).capCount
      /\ o.scaleNative = BuildOp(big, i, l).scaleNative /\ o.scale = BuildOp(big, i, l).scale
  BY PassedFields
<1>4. ~RangeFails(o)
  BY DEF Passed
<1>5. ASSUME Has(MS(l), "n") PROVE IsCount(Whole(MS(l).kvs["n"]), 120)
  <2>1. o.capCount = Whole(MS(l).kvs["n"]).n
    BY <1>2, <1>3, <1>5, Zenon DEF IntVal
  <2>2. o.capCount \in 1..MaxCapN
    BY <1>1, <1>4, Zenon DEF RangeFails
  <2>. QED
    BY <2>1, <2>2, SMT DEF MaxCapN, IsCount
<1>6. ASSUME NameVal(MS(l), "scale", "native") # "native", Has(MS(l), "scale")
      PROVE  IsCount(Whole(MS(l).kvs["scale"]), 4)
  <2>1. NameVal(MS(l), "scale", "") # "native"
    BY <1>6, Zenon DEF NameVal
  <2>2. ~o.scaleNative /\ o.scale = Whole(MS(l).kvs["scale"]).n
    BY <1>2a, <1>2b, <1>3, <1>6, <2>1, Zenon DEF IntVal
  <2>3. 1 <= 10 * o.scale /\ o.scale <= 4
    BY <1>1, <1>4, <2>2, Zenon DEF RangeFails
  <2>4. PICK w \in Words : w = MS(l).kvs["scale"]
    BY <1>6, KvWord DEF Passed
  <2>5. o.scale \in Int
    BY <2>2, <2>4, WholeInt
  <2>. QED
    BY <2>2, <2>3, <2>5, SMT DEF IsCount
<1>. QED
  BY <1>5, <1>6

\* The limit of steps=.
LEMMA StepsKept ==
  ASSUME NEW o, NEW i, NEW l, Passed(o, i, l), l.cmd = "drag", Has(MS(l), "steps")
  PROVE  IsCount(Whole(MS(l).kvs["steps"]), 200)
<1>1. DOMAIN MS(l).kvs \subseteq Commands[l.cmd].kv /\ o.kind = "drag"
  BY PassedFields, CommandRows
<1>2. o.count = IntVal(MS(l), "steps", 20)
  BY <1>1, PassedFields, DragShape
<1>3. o.count \in 1..MaxDrag
  BY <1>1 DEF Passed, RangeFails
<1>. QED
  BY <1>2, <1>3, SMT DEF MaxDrag, IntVal, IsCount

\* The limit of a scroll.
LEMMA TicksKept ==
  ASSUME NEW o, NEW i, NEW l, Passed(o, i, l), l.cmd = "scroll", Len(l.words) = 2
  PROVE  IsCount(Whole(l.words[2]), 50)
<1>1. DOMAIN MS(l).kvs \subseteq Commands[l.cmd].kv /\ o.kind = "scroll"
  BY PassedFields, CommandRows
<1>2. o.ticks = Whole(l.words[2]).n
  BY <1>1, PassedFields, ScrollShape
<1>3. o.ticks \in 1..MaxTicks
  BY <1>1 DEF Passed, RangeFails
<1>. QED
  BY <1>2, <1>3, SMT DEF MaxTicks, IsCount

\* The limit of a chord, its flags counted.
LEMMA ChordKept ==
  ASSUME NEW o, NEW i, NEW l, Passed(o, i, l), l.cmd = "k", NEW w \in ToSet(l.words)
  PROVE  Len(w.parts) + Cardinality(MS(l).flags) <= 8
<1>1. DOMAIN MS(l).kvs \subseteq Commands[l.cmd].kv /\ o.kind = "key"
  BY PassedFields, CommandRows
<1>2. o.keys = Chords("key", l) /\ o.mods = OrderedMods(MS(l))
  BY <1>1, PassedFields, KShape
<1>3. PICK j \in DOMAIN l.words : w = l.words[j]
  BY DEF ToSet
<1>4. w \in Words /\ w.parts \in Seq(Values)
  <2>1. l.words \in Seq(Words)
    BY DEF Passed, IsCut, Lines
  <2>2. w \in Words
    BY <1>3, <2>1
  <2>. QED
    BY <2>2 DEF Words
<1>5. w.sep \in {"+", ""}
  <2>1. ~PayloadFails(Commands[l.cmd], l, MS(l)) /\ Commands[l.cmd].payload = "keys"
    BY Parsed, CommandRows DEF Passed
  <2>2. \A v \in ToSet(Cut(w, "+")) : KeyOf(v) \in DOMAIN KeyNames
    BY <2>1, Zenon DEF PayloadFails
  <2>. SUFFICES ASSUME w.sep \notin {"+", ""} PROVE FALSE
    OBVIOUS
  <2>3. Cut(w, "+") = <<Garbled>>
    BY Zenon DEF Cut
  <2>4. Garbled \in ToSet(Cut(w, "+"))
    BY <2>3, ToSetOne, Zenon
  <2>5. KeyOf(Garbled) = "?"
    BY DEF KeyOf, Garbled, Name
  <2>6. "?" \notin DOMAIN KeyNames
    BY DEF KeyNames, NamedKeys, Aliases, ++
  <2>. QED
    BY <2>2, <2>4, <2>5, <2>6
<1>6. Cut(w, "+") = w.parts
  BY <1>5 DEF Cut
<1>. DEFINE c == [h \in DOMAIN Cut(w, "+") |-> KeyNames[KeyOf(Cut(w, "+")[h])]]
<1>7. o.keys[j] = c /\ j \in DOMAIN o.keys
  <2>1. Chords("key", l) = [h \in DOMAIN l.words |->
                              [e \in DOMAIN Cut(l.words[h], "+") |-> KeyNames[KeyOf(Cut(l.words[h], "+")[e])]]]
    BY DEF Chords
  <2>. QED
    BY <1>2, <1>3, <2>1, Zenon
<1>8. Len(c) = Len(w.parts)
  BY <1>4, <1>6
<1>. HIDE DEF c
<1>9. c \in ToSet(o.keys)
  BY <1>7 DEF ToSet
<1>10. ~(Len(o.mods) + Len(c) > 8)
  BY <1>1, <1>9 DEF Passed, RangeFails, MaxChordKeys
<1>11. MS(l).flags \in SUBSET Held
  <2>1. MS(l).flags \subseteq Commands[l.cmd].single
    BY Parsed DEF Passed
  <2>2. Commands["k"].single = Held
    BY DEF Commands, Command
  <2>. QED
    BY <2>1, <2>2
<1>12. Len(o.mods) = Cardinality(MS(l).flags) /\ Len(o.mods) \in Int
  BY <1>2, <1>11, ModsCount
<1>13. Len(w.parts) \in Nat
  BY <1>4
<1>. QED
  BY <1>8, <1>10, <1>12, <1>13

\* The limit of a sequence of keys.
LEMMA KeysKept ==
  ASSUME NEW o, NEW i, NEW l, Passed(o, i, l), l.cmd = "k"
  PROVE  Len(l.words) <= 64
<1>1. DOMAIN MS(l).kvs \subseteq Commands[l.cmd].kv /\ o.kind = "key"
  BY PassedFields, CommandRows
<1>2. o.keys = Chords("key", l)
  BY <1>1, PassedFields, KShape
<1>3. l.words \in Seq(Words)
  BY DEF Passed, IsCut, Lines
<1>4. Len(o.keys) = Len(l.words)
  BY <1>2, <1>3 DEF Chords
<1>5. ~(Len(o.keys) > MaxKeysSeq)
  BY <1>1 DEF Passed, RangeFails
<1>. QED
  BY <1>3, <1>4, <1>5, SMT DEF MaxKeysSeq

\* The limit of the points of a drag.
LEMMA PointsKept ==
  ASSUME NEW o, NEW i, NEW l, Passed(o, i, l), l.cmd = "drag"
  PROVE  Len(l.words) \in 1..200
<1>1. DOMAIN MS(l).kvs \subseteq Commands[l.cmd].kv /\ o.kind = "drag"
  BY PassedFields, CommandRows
<1>2. o.points = [j \in DOMAIN l.words |-> ParsePoint(l.words[j], MS(l))]
  BY <1>1, PassedFields, DragPoints
<1>3. l.words \in Seq(Words)
  BY DEF Passed, IsCut, Lines
<1>4. Len(o.points) = Len(l.words)
  BY <1>2, <1>3
<1>5. Len(o.points) \in 1..MaxDrag
  BY <1>1 DEF Passed, RangeFails
<1>. QED
  BY <1>4, <1>5 DEF MaxDrag

\* All limits of a line.
LEMMA LineKeepsLimits ==
  ASSUME NEW o, NEW i, NEW l, Passed(o, i, l)
  PROVE  KeepsLimits(l)
<1>. DEFINE m == MS(l)
<1>1. /\ Has(m, "d") => ~Over(Whole(m.kvs["d"]), 10000)
      /\ Has(m, "ms") => ~Over(Whole(m.kvs["ms"]), 10000)
      /\ Has(m, "wait") => ~Over(Whole(m.kvs["wait"]), 60000)
      /\ Has(m, "timeout") => ~Over(Whole(m.kvs["timeout"]), 60000)
      /\ l.cmd = "sleep" => ~Over(Whole(l.words[1]), 60000)
  BY DelayKept, IntervalKept, WaitKept, TimeoutKept, SleepKept
<1>2. /\ l.cmd = "cap" =>
           /\ Has(m, "n") => IsCount(Whole(m.kvs["n"]), 120)
           /\ NameVal(m, "scale", "native") # "native" => (Has(m, "scale") => IsCount(Whole(m.kvs["scale"]), 4))
      /\ l.cmd = "drag" => (Has(m, "steps") => IsCount(Whole(m.kvs["steps"]), 200)) /\ Len(l.words) \in 1..200
      /\ l.cmd = "scroll" /\ Len(l.words) = 2 => IsCount(Whole(l.words[2]), 50)
      /\ l.cmd = "k" => /\ Len(l.words) <= 64
                        /\ \A w \in ToSet(l.words) : Len(w.parts) + Cardinality(m.flags) <= 8
  BY CaptureKept, StepsKept, PointsKept, TicksKept, KeysKept, ChordKept
<1>3. m = ModSet(Commands[l.cmd], l.mods)
  BY DEF MS
<1>. HIDE DEF m
<1>. QED
  BY <1>1, <1>2, <1>3, SMT DEF KeepsLimits

-----------------------------------------------------------------------------
(* What the sequence as a whole is validated for.                          *)

\* held is what Validate's recursion is after each of the first z operations.
Holds(held, s, z) ==
  /\ DOMAIN held = 0..z
  /\ held = [i \in 0..z |-> IF i = 0 THEN {} ELSE HeldAfter(held[i - 1], s[i])]

\* What Validate holds after each operation, as a function.
LEMMA HoldsExists ==
  ASSUME NEW s, NEW z \in Nat
  PROVE  \E f : Holds(f, s, z)
<1>. DEFINE S == {k \in Nat : \E f : Holds(f, s, k)}
<1>1. 0 \in S
  <2>. DEFINE g == [i \in 0..0 |-> {}]
  <2>1. DOMAIN g = 0..0 /\ \A i \in 0..0 : i = 0 /\ g[i] = {}
    OBVIOUS
  <2>2. g = [i \in 0..0 |-> IF i = 0 THEN {} ELSE HeldAfter(g[i - 1], s[i])]
    OBVIOUS
  <2>. HIDE DEF g
  <2>3. Holds(g, s, 0)
    BY <2>1, <2>2 DEF Holds
  <2>. QED
    BY <2>3
<1>2. ASSUME NEW k \in S PROVE k + 1 \in S
  <2>1. PICK f : Holds(f, s, k)
    OBVIOUS
  <2>. DEFINE g == [i \in 0..k + 1 |-> IF i = k + 1 THEN HeldAfter(f[i - 1], s[i]) ELSE f[i]]
  <2>2. k \in Nat
    OBVIOUS
  <2>3. \A i \in 0..k : g[i] = f[i]
    BY <2>2
  <2>4. ASSUME NEW i \in 0..k + 1
        PROVE  g[i] = IF i = 0 THEN {} ELSE HeldAfter(g[i - 1], s[i])
    <3>1. CASE i = k + 1
      <4>1. i # 0 /\ i - 1 \in 0..k
        BY <2>2, <3>1
      <4>2. g[i - 1] = f[i - 1]
        BY <2>3, <4>1
      <4>. QED
        BY <3>1, <4>1, <4>2
    <3>2. CASE i # k + 1
      <4>1. i \in 0..k /\ (i # 0 => i - 1 \in 0..k)
        BY <2>2, <3>2
      <4>2. f[i] = IF i = 0 THEN {} ELSE HeldAfter(f[i - 1], s[i])
        BY <2>1, <4>1 DEF Holds
      <4>3. g[i] = f[i] /\ (i # 0 => g[i - 1] = f[i - 1])
        BY <2>3, <4>1
      <4>. QED
        BY <4>2, <4>3
    <3>. QED
      BY <3>1, <3>2
  <2>5. DOMAIN g = 0..k + 1
    OBVIOUS
  <2>6. g = [i \in 0..k + 1 |-> g[i]]
    OBVIOUS
  <2>. HIDE DEF g
  <2>7. g = [i \in 0..k + 1 |-> IF i = 0 THEN {} ELSE HeldAfter(g[i - 1], s[i])]
    BY <2>4, <2>6
  <2>8. Holds(g, s, k + 1)
    BY <2>5, <2>7 DEF Holds
  <2>. QED
    BY <2>2, <2>8
<1>. HIDE DEF S
<1>3. S = Nat
  <2>1. S \in SUBSET Nat
    BY DEF S
  <2>. QED
    BY <1>1, <1>2, <2>1, Induction
<1>. QED
  BY <1>3 DEF S

\* The same of the number of captures.
TakenBy(op) == IF op.kind = "capture" THEN op.capCount ELSE 0

\* The function that Captures defines in its LET.
Counts(total, s, z) ==
  /\ DOMAIN total = 0..z
  /\ total = [i \in 0..z |-> IF i = 0 THEN 0 ELSE total[i - 1] + TakenBy(s[i])]

\* The captures up to each operation, as a function.
LEMMA CountsExists ==
  ASSUME NEW s, NEW z \in Nat
  PROVE  \E f : Counts(f, s, z)
<1>. DEFINE S == {k \in Nat : \E f : Counts(f, s, k)}
<1>1. 0 \in S
  <2>. DEFINE g == [i \in 0..0 |-> 0]
  <2>1. DOMAIN g = 0..0 /\ \A i \in 0..0 : i = 0 /\ g[i] = 0
    OBVIOUS
  <2>2. g = [i \in 0..0 |-> IF i = 0 THEN 0 ELSE g[i - 1] + TakenBy(s[i])]
    OBVIOUS
  <2>. HIDE DEF g
  <2>3. Counts(g, s, 0)
    BY <2>1, <2>2 DEF Counts
  <2>. QED
    BY <2>3
<1>2. ASSUME NEW k \in S PROVE k + 1 \in S
  <2>1. PICK f : Counts(f, s, k)
    OBVIOUS
  <2>. DEFINE g == [i \in 0..k + 1 |-> IF i = k + 1 THEN f[i - 1] + TakenBy(s[i]) ELSE f[i]]
  <2>2. k \in Nat
    OBVIOUS
  <2>3. \A i \in 0..k : g[i] = f[i]
    BY <2>2
  <2>4. ASSUME NEW i \in 0..k + 1
        PROVE  g[i] = IF i = 0 THEN 0 ELSE g[i - 1] + TakenBy(s[i])
    <3>1. CASE i = k + 1
      <4>1. i # 0 /\ i - 1 \in 0..k
        BY <2>2, <3>1
      <4>2. g[i - 1] = f[i - 1]
        BY <2>3, <4>1
      <4>. QED
        BY <3>1, <4>1, <4>2
    <3>2. CASE i # k + 1
      <4>1. i \in 0..k /\ (i # 0 => i - 1 \in 0..k)
        BY <2>2, <3>2
      <4>2. f[i] = IF i = 0 THEN 0 ELSE f[i - 1] + TakenBy(s[i])
        BY <2>1, <4>1 DEF Counts
      <4>3. g[i] = f[i] /\ (i # 0 => g[i - 1] = f[i - 1])
        BY <2>3, <4>1
      <4>. QED
        BY <4>2, <4>3
    <3>. QED
      BY <3>1, <3>2
  <2>5. DOMAIN g = 0..k + 1
    OBVIOUS
  <2>6. g = [i \in 0..k + 1 |-> g[i]]
    OBVIOUS
  <2>. HIDE DEF g
  <2>7. g = [i \in 0..k + 1 |-> IF i = 0 THEN 0 ELSE g[i - 1] + TakenBy(s[i])]
    BY <2>4, <2>6
  <2>8. Counts(g, s, k + 1)
    BY <2>5, <2>7 DEF Counts
  <2>. QED
    BY <2>2, <2>8
<1>. HIDE DEF S
<1>3. S = Nat
  <2>1. S \in SUBSET Nat
    BY DEF S
  <2>. QED
    BY <1>1, <1>2, <2>1, Induction
<1>. QED
  BY <1>3 DEF S

\* What Validate looks at, and what it finds nothing wrong with.
LEMMA ValidateIs ==
  ASSUME NEW s, Len(s) \in Nat
  PROVE  \E held : /\ Holds(held, s, Len(s))
                   /\ Validate(s) =
                        {s[i].line : i \in {j \in DOMAIN s : \/ TimingFails(s[j]) \/ RangeFails(s[j])
                                                             \/ BalanceFails(held[j - 1], s[j])}}
                        \cup (IF Captures(s) > MaxCapturesTotal THEN {0} ELSE {})
<1>. DEFINE z == Len(s)
            c == CHOOSE h : h = [i \in 0..z |-> IF i = 0 THEN {} ELSE HeldAfter(h[i - 1], s[i])]
<1>1. Validate(s) = {s[i].line : i \in {j \in DOMAIN s : \/ TimingFails(s[j]) \/ RangeFails(s[j])
                                                         \/ BalanceFails(c[j - 1], s[j])}}
                    \cup (IF Captures(s) > MaxCapturesTotal THEN {0} ELSE {})
  BY Zenon DEF Validate
<1>. HIDE DEF z
<1>2. z \in Nat
  BY DEF z
<1>3. c = [i \in 0..z |-> IF i = 0 THEN {} ELSE HeldAfter(c[i - 1], s[i])]
  <2>1. PICK f : Holds(f, s, z)
    BY <1>2, HoldsExists, Zenon
  <2>2. f = [i \in 0..z |-> IF i = 0 THEN {} ELSE HeldAfter(f[i - 1], s[i])]
    BY <2>1, Zenon DEF Holds
  <2>. QED
    BY <2>2, Zenon
<1>. HIDE DEF c
<1>4. DOMAIN c = 0..z
  BY <1>3
<1>5. Holds(c, s, z)
  BY <1>3, <1>4, Zenon DEF Holds
<1>. QED
  BY <1>1, <1>5, Zenon DEF z

\* Captures is its value at the last.
LEMMA CapturesIs ==
  ASSUME NEW s, Len(s) \in Nat
  PROVE  \E total : Counts(total, s, Len(s)) /\ Captures(s) = total[Len(s)]
<1>. DEFINE z == Len(s)
            c == CHOOSE h : h = [i \in 0..z |->
                   IF i = 0 THEN 0 ELSE h[i - 1] + (IF s[i].kind = "capture" THEN s[i].capCount ELSE 0)]
<1>1. Captures(s) = c[z]
  BY Zenon DEF Captures
<1>2. PICK f : f = [i \in 0..z |-> IF i = 0 THEN 0
                                   ELSE f[i - 1] + (IF s[i].kind = "capture" THEN s[i].capCount ELSE 0)]
  BY CountsExists DEF Counts, TakenBy
<1>3. c = [i \in 0..z |-> IF i = 0 THEN 0
                          ELSE c[i - 1] + (IF s[i].kind = "capture" THEN s[i].capCount ELSE 0)]
  BY <1>2
<1>. HIDE DEF c
<1>4. DOMAIN c = 0..z
  BY <1>3
<1>5. Counts(c, s, z)
  BY <1>3, <1>4, Zenon DEF Counts, TakenBy
<1>. QED
  BY <1>1, <1>5, Zenon

\* A sum of whole numbers is one.
LEMMA CapturesInt ==
  ASSUME NEW s, Len(s) \in Nat, \A i \in 1..Len(s) : TakenBy(s[i]) \in Int
  PROVE  Captures(s) \in Int
<1>1. PICK total : Counts(total, s, Len(s)) /\ Captures(s) = total[Len(s)]
  BY CapturesIs
<1>. DEFINE S == {k \in Nat : k \in 0..Len(s) => total[k] \in Int}
<1>2. 0 \in S
  BY <1>1 DEF Counts
<1>3. ASSUME NEW k \in S PROVE k + 1 \in S
  <2>. SUFFICES ASSUME k + 1 \in 0..Len(s) PROVE total[k + 1] \in Int
    OBVIOUS
  <2>1. PICK i \in 1..Len(s) : i = k + 1 /\ i - 1 = k /\ i # 0
    OBVIOUS
  <2>2. total[i] = total[i - 1] + TakenBy(s[i])
    BY <1>1, <2>1 DEF Counts
  <2>3. total[k] \in Int
    OBVIOUS
  <2>4. TakenBy(s[i]) \in Int
    OBVIOUS
  <2>. QED
    BY <2>1, <2>2, <2>3, <2>4
<1>. HIDE DEF S
<1>4. S = Nat
  <2>1. S \in SUBSET Nat
    BY DEF S
  <2>. QED
    BY <1>2, <1>3, <2>1, Induction
<1>. QED
  BY <1>1, <1>4 DEF S

-----------------------------------------------------------------------------
(* What a line holds down: Validate's running set, and HeldAt.             *)

\* What an operation takes hold of, and what it lets go.
Gives(op) == (IF op.kind = "key_down" THEN ToSet(op.keys) ELSE {})
             \cup (IF op.kind = "button_down" THEN {ButtonOf(op)} ELSE {})
Takes(op) == (IF op.kind = "key_up" THEN ToSet(op.keys) ELSE {})
             \cup (IF op.kind = "button_up" THEN {ButtonOf(op)} ELSE {})

\* What an operation takes and gives back.
LEMMA HeldAfterIs ==
  ASSUME NEW held, NEW op
  PROVE  HeldAfter(held, op) = (held \ Takes(op)) \cup Gives(op)
<1>1. CASE op.kind = "key_down"
  BY <1>1 DEF HeldAfter, Gives, Takes
<1>2. CASE op.kind = "key_up"
  BY <1>2 DEF HeldAfter, Gives, Takes
<1>3. CASE op.kind = "button_down"
  BY <1>3 DEF HeldAfter, Gives, Takes
<1>4. CASE op.kind = "button_up"
  BY <1>4 DEF HeldAfter, Gives, Takes
<1>5. CASE op.kind \notin {"key_down", "key_up", "button_down", "button_up"}
  BY <1>5 DEF HeldAfter, Gives, Takes
<1>. QED
  BY <1>1, <1>2, <1>3, <1>4, <1>5

\* Nothing is held at the first line.
LEMMA HeldAtStart == ASSUME NEW x, NEW downs, NEW ups PROVE ~HeldAt(1, x, downs, ups)
  BY DEF HeldAt

\* What is held one line on.
LEMMA HeldAtStep ==
  ASSUME NEW z \in Nat, NEW x, NEW downs, NEW ups
  PROVE  HeldAt(z + 2, x, downs, ups) <=> \/ x \in downs[z + 1]
                                          \/ HeldAt(z + 1, x, downs, ups) /\ x \notin ups[z + 1]
<1>1. (z + 2) - 1 = z + 1 /\ (z + 1) - 1 = z
  OBVIOUS
<1>2. ASSUME HeldAt(z + 2, x, downs, ups), x \notin downs[z + 1]
      PROVE  HeldAt(z + 1, x, downs, ups) /\ x \notin ups[z + 1]
  <2>1. PICK j \in 1..(z + 1) : x \in downs[j] /\ \A h \in (j + 1)..(z + 1) : x \notin ups[h]
    BY <1>1, <1>2 DEF HeldAt
  <2>2. j # z + 1
    BY <1>2, <2>1
  <2>3. j \in 1..z /\ z + 1 \in (j + 1)..(z + 1) /\ \A h \in (j + 1)..z : h \in (j + 1)..(z + 1)
    BY <2>2
  <2>. QED
    BY <1>1, <2>1, <2>3 DEF HeldAt
<1>3. ASSUME x \in downs[z + 1] PROVE HeldAt(z + 2, x, downs, ups)
  <2>1. z + 1 \in 1..(z + 1) /\ (z + 1 + 1)..(z + 1) = {}
    OBVIOUS
  <2>. QED
    BY <1>1, <1>3, <2>1 DEF HeldAt
<1>4. ASSUME HeldAt(z + 1, x, downs, ups), x \notin ups[z + 1] PROVE HeldAt(z + 2, x, downs, ups)
  <2>1. PICK j \in 1..z : x \in downs[j] /\ \A h \in (j + 1)..z : x \notin ups[h]
    BY <1>1, <1>4 DEF HeldAt
  <2>2. j \in 1..(z + 1) /\ \A h \in (j + 1)..(z + 1) : h \in (j + 1)..z \/ h = z + 1
    OBVIOUS
  <2>3. \A h \in (j + 1)..(z + 1) : x \notin ups[h]
    BY <1>4, <2>1, <2>2
  <2>. QED
    BY <1>1, <2>1, <2>2, <2>3 DEF HeldAt
<1>. QED
  BY <1>2, <1>3, <1>4

\* Validate holds at a line what the lines before it left down.
LEMMA HoldsWhatIsDown ==
  ASSUME NEW s, Len(s) \in Nat, NEW held, Holds(held, s, Len(s)), NEW downs, NEW ups,
         \A i \in 1..Len(s) : downs[i] = Gives(s[i]) /\ ups[i] = Takes(s[i])
  PROVE  \A k \in 0..Len(s) : \A x : x \in held[k] <=> HeldAt(k + 1, x, downs, ups)
<1>. DEFINE S == {k \in Nat : k \in 0..Len(s) => \A x : x \in held[k] <=> HeldAt(k + 1, x, downs, ups)}
<1>1. 0 \in S
  <2>1. held[0] = {}
    BY DEF Holds
  <2>2. 0 + 1 = 1
    OBVIOUS
  <2>. QED
    BY <2>1, <2>2, HeldAtStart
<1>2. ASSUME NEW k \in S PROVE k + 1 \in S
  <2>. SUFFICES ASSUME k + 1 \in 0..Len(s), NEW x
                PROVE  x \in held[k + 1] <=> HeldAt((k + 1) + 1, x, downs, ups)
    OBVIOUS
  <2>1. k \in Nat /\ (k + 1) + 1 = k + 2
    OBVIOUS
  <2>2. PICK i \in 1..Len(s) : i = k + 1 /\ i - 1 = k /\ i # 0
    BY <2>1
  <2>3. held[i] = HeldAfter(held[i - 1], s[i])
    BY <2>2 DEF Holds
  <2>4. held[i] = (held[k] \ ups[i]) \cup downs[i]
    BY <2>2, <2>3, HeldAfterIs
  <2>5. x \in held[k] <=> HeldAt(k + 1, x, downs, ups)
    BY <2>1, <2>2
  <2>6. HeldAt(k + 2, x, downs, ups) <=> x \in downs[i] \/ (HeldAt(k + 1, x, downs, ups) /\ x \notin ups[i])
    BY <2>1, <2>2, HeldAtStep
  <2>. QED
    BY <2>1, <2>2, <2>4, <2>5, <2>6
<1>. HIDE DEF S
<1>3. S = Nat
  <2>1. S \in SUBSET Nat
    BY DEF S
  <2>. QED
    BY <1>1, <1>2, <2>1, Induction
<1>. QED
  BY <1>3 DEF S

\* Nothing found wrong with a whole is nothing wrong with its parts.
LEMMA NothingWrong ==
  ASSUME NEW s, Len(s) \in Nat, Validate(s) = {}
  PROVE  /\ ~(Captures(s) > MaxCapturesTotal)
         /\ \E held : /\ Holds(held, s, Len(s))
                      /\ \A j \in DOMAIN s : /\ ~TimingFails(s[j]) /\ ~RangeFails(s[j])
                                             /\ ~BalanceFails(held[j - 1], s[j])
<1>1. PICK held : /\ Holds(held, s, Len(s))
                  /\ Validate(s) =
                       {s[i].line : i \in {j \in DOMAIN s : \/ TimingFails(s[j]) \/ RangeFails(s[j])
                                                            \/ BalanceFails(held[j - 1], s[j])}}
                       \cup (IF Captures(s) > MaxCapturesTotal THEN {0} ELSE {})
  BY ValidateIs, Zenon
<1>. DEFINE bad == {j \in DOMAIN s : \/ TimingFails(s[j]) \/ RangeFails(s[j])
                                     \/ BalanceFails(held[j - 1], s[j])}
            lost == IF Captures(s) > MaxCapturesTotal THEN {0} ELSE {}
<1>2. {s[i].line : i \in bad} \cup lost = {}
  BY <1>1, Zenon
<1>3. \A j \in DOMAIN s : j \notin bad
  BY <1>2
<1>4. ~(Captures(s) > MaxCapturesTotal)
  <2>1. lost = {}
    BY <1>2
  <2>. QED
    BY <2>1
<1>. QED
  BY <1>1, <1>3, <1>4, Zenon

\* Validate's held set is what the lines before say is held.
LEMMA BalanceKept ==
  ASSUME Len(meant) \in Nat, DOMAIN meant = 1..Len(meant), Validate(meant) = {}
  PROVE  KeepsBalance
<1>. DEFINE of(i, kind) == IF meant[i].kind # kind THEN {}
                           ELSE IF kind \in {"key_down", "key_up"} THEN ToSet(meant[i].keys)
                                ELSE {ButtonOf(meant[i])}
            downs == [i \in DOMAIN meant |-> of(i, "key_down") \cup of(i, "button_down")]
            ups == [i \in DOMAIN meant |-> of(i, "key_up") \cup of(i, "button_up")]
<1>1. ASSUME NEW i \in DOMAIN meant PROVE downs[i] = Gives(meant[i]) /\ ups[i] = Takes(meant[i])
  <2>1. /\ of(i, "key_down") = IF meant[i].kind = "key_down" THEN ToSet(meant[i].keys) ELSE {}
        /\ of(i, "button_down") = IF meant[i].kind = "button_down" THEN {ButtonOf(meant[i])} ELSE {}
        /\ of(i, "key_up") = IF meant[i].kind = "key_up" THEN ToSet(meant[i].keys) ELSE {}
        /\ of(i, "button_up") = IF meant[i].kind = "button_up" THEN {ButtonOf(meant[i])} ELSE {}
    OBVIOUS
  <2>. HIDE DEF of
  <2>. QED
    BY <2>1 DEF Gives, Takes
<1>2. PICK held : /\ Holds(held, meant, Len(meant))
                  /\ \A j \in DOMAIN meant : ~BalanceFails(held[j - 1], meant[j])
  BY NothingWrong
<1>3. KeepsBalance = \A i \in DOMAIN meant :
                       /\ \A x \in ups[i] : HeldAt(i, x, downs, ups)
                       /\ meant[i].kind \in {"click", "button_down", "drag"} =>
                            ~HeldAt(i, ButtonOf(meant[i]), downs, ups)
  BY Zenon DEF KeepsBalance
<1>. HIDE DEF downs, ups
<1>4. \A k \in 0..Len(meant) : \A x : x \in held[k] <=> HeldAt(k + 1, x, downs, ups)
  BY <1>1, <1>2, HoldsWhatIsDown
<1>5. ASSUME NEW i \in DOMAIN meant
      PROVE  /\ \A x \in ups[i] : HeldAt(i, x, downs, ups)
             /\ meant[i].kind \in {"click", "button_down", "drag"} => ~HeldAt(i, ButtonOf(meant[i]), downs, ups)
  <2>1. PICK k \in 0..Len(meant) : k = i - 1 /\ k + 1 = i
    OBVIOUS
  <2>2. \A x : x \in held[k] <=> HeldAt(i, x, downs, ups)
    BY <1>4, <2>1
  <2>3. ~BalanceFails(held[k], meant[i])
    BY <1>2, <2>1
  <2>4. ups[i] \subseteq held[k]
    <3>1. ups[i] = Takes(meant[i])
      BY <1>1
    <3>2. meant[i].kind = "key_up" => ToSet(meant[i].keys) \subseteq held[k]
      BY <2>3, Zenon DEF BalanceFails
    <3>3. meant[i].kind = "button_up" => ButtonOf(meant[i]) \in held[k]
      BY <2>3, Zenon DEF BalanceFails
    <3>. QED
      BY <3>1, <3>2, <3>3 DEF Takes
  <2>5. meant[i].kind \in {"click", "button_down", "drag"} => ButtonOf(meant[i]) \notin held[k]
    BY <2>3, Zenon DEF BalanceFails
  <2>. QED
    BY <2>2, <2>4, <2>5
<1>. QED
  BY <1>3, <1>5, Zenon

-----------------------------------------------------------------------------
(* What is accepted is within LIMITS.                                      *)

\* AcceptedKeepsLimits, in every state where it speaks.
LEMMA AcceptedIsWithin ==
  ASSUME WrittenAsMeant, side = "near", pc \in {"accepted", "printed", "sent", "run"}
  PROVE  /\ \A i \in DOMAIN lines : lines[i].form = "stmt" => KeepsLimits(lines[i])
         /\ KeepsBalance
         /\ Captures(meant) <= 121
<1>1. Match(lines, meant, Len(lines), bigs["near"]) /\ Validate(meant) = {} /\ CutLines(lines)
  BY DEF WrittenAsMeant, SentAsMeant
<1>2. bigs["near"] \in {Huge, -Huge}
  BY DEF WrittenAsMeant
<1>3. IsSeq(meant) /\ Len(meant) \in Nat /\ DOMAIN meant = 1..Len(meant)
  BY <1>1, SeqDomain DEF Match, IsSeq
<1>4. /\ ~(Captures(meant) > MaxCapturesTotal)
      /\ \A j \in DOMAIN meant : ~TimingFails(meant[j]) /\ ~RangeFails(meant[j])
  BY <1>1, <1>3, NothingWrong
<1>5. ASSUME NEW i \in DOMAIN lines, lines[i].form = "stmt" PROVE KeepsLimits(lines[i])
  <2>1. i \in 1..Len(lines) /\ IsCut(lines[i])
    BY <1>1 DEF CutLines
  <2>2. PICK j \in 1..Len(meant) : Built(meant[j], bigs["near"], i, lines[i]) /\ ~Malformed(lines[i])
    BY <1>1, <1>5, <2>1 DEF Match
  <2>3. Passed(meant[j], i, lines[i])
    BY <1>2, <1>3, <1>4, <1>5, <2>1, <2>2 DEF Passed
  <2>. QED
    BY <2>3, LineKeepsLimits
<1>6. Captures(meant) <= 121
  <2>1. ASSUME NEW j \in 1..Len(meant) PROVE TakenBy(meant[j]) \in Int
    <3>1. j \in DOMAIN meant
      BY <1>3
    <3>2. ~RangeFails(meant[j])
      BY <1>4, <3>1, Zenon
    <3>3. meant[j].kind = "capture" => meant[j].capCount \in 1..MaxCapN
      BY <3>2, Zenon DEF RangeFails
    <3>4. 1..MaxCapN \subseteq Int
      BY SMT DEF MaxCapN
    <3>. QED
      BY <3>3, <3>4, SMT DEF TakenBy
  <2>2. Captures(meant) \in Int
    BY <1>3, <2>1, CapturesInt
  <2>. QED
    BY <1>4, <2>2, SMT DEF MaxCapturesTotal
<1>7. KeepsBalance
  BY <1>1, <1>3, BalanceKept
<1>. QED
  BY <1>5, <1>6, <1>7

\* AcceptedKeepsLimits, for all documents: a sequence that was accepted keeps within LIMITS as
\* it was written, line by line, in its captures together, and in what it holds and releases.
\* By WrittenAsMeant: each accepted operation is the one its line was built into.
THEOREM AcceptedAlwaysKeepsLimits == Spec => []AcceptedKeepsLimits
<1>1. WrittenAsMeant => AcceptedKeepsLimits
  BY AcceptedIsWithin DEF AcceptedKeepsLimits
<1>. QED
  BY <1>1, InitWrittenAsMeant, StepWrittenAsMeant, PTL DEF Spec

-----------------------------------------------------------------------------
(* The lines of a sequence on their way over ssh.                          *)

\* Lines that are statements in the same places are numbered alike.
LEMMA SameRank ==
  ASSUME NEW d, NEW e, NEW z, \A i \in 1..z : d[i].form = "stmt" <=> e[i].form = "stmt"
  PROVE  Rank(d, z) = Rank(e, z)
<1>1. {h \in 1..z : d[h].form = "stmt"} = {h \in 1..z : e[h].form = "stmt"}
  OBVIOUS
<1>. QED
  BY <1>1 DEF Rank

\* The operation of a line carries its number, so a line has one operation.
LEMMA OneOpPerLine ==
  ASSUME NEW b, NEW d, NEW s, NEW z, Match(d, s, z, b), NEW i, NEW j \in 1..Len(s), s[j].line = i
  PROVE  j = Rank(d, i) /\ d[i].form = "stmt"
<1>1. PICK h \in 1..z : d[h].form = "stmt" /\ j = Rank(d, h)
  BY DEF Match
<1>2. Built(s[j], b, h, d[h]) /\ ~Malformed(d[h])
  BY <1>1 DEF Match
<1>3. BuildOp(b, h, d[h]).line = h
  BY <1>1, <1>2, BuiltShape DEF BuildsShape, IsBare
<1>4. "line" \in OpFields \ {"text", "hasText"}
  BY DEF OpFields
<1>5. s[j].line = h
  BY <1>2, <1>3, <1>4 DEF Built
<1>. QED
  BY <1>1, <1>5

\* The operation of a statement.
LEMMA LineOfOp ==
  ASSUME NEW b, NEW d, NEW s, NEW z, Match(d, s, z, b), NEW i \in 1..z, d[i].form = "stmt"
  PROVE  /\ Rank(d, i) \in 1..Len(s) /\ s[Rank(d, i)].line = i
         /\ ~Malformed(d[i]) /\ Built(s[Rank(d, i)], b, i, d[i])
<1>1. ~Malformed(d[i]) /\ Rank(d, i) \in 1..Len(s) /\ Built(s[Rank(d, i)], b, i, d[i])
  BY DEF Match
<1>2. BuildOp(b, i, d[i]).line = i
  BY <1>1, BuiltShape DEF BuildsShape, IsBare
<1>3. "line" \in OpFields \ {"text", "hasText"}
  BY DEF OpFields
<1>. QED
  BY <1>1, <1>2, <1>3 DEF Built

\* What each line is sent as: by its own operation.
LEMMA RewrittenIs ==
  ASSUME NEW b, CutLines(lines), Match(lines, ops, Len(lines), b), NEW i \in DOMAIN lines
  PROVE  /\ lines[i].form = "stmt" => Rewritten(i) = SentAs(lines[i], ops[Rank(lines, i)])
         /\ lines[i].form # "stmt" => Rewritten(i) = lines[i]
<1>. DEFINE S == {j \in DOMAIN ops : ops[j].line = i /\ ops[j].fromFile}
<1>1. i \in 1..Len(lines) /\ DOMAIN ops = 1..Len(ops)
  BY SeqDomain DEF CutLines, Match
<1>2. \A j \in S : j = Rank(lines, i) /\ lines[i].form = "stmt"
  BY <1>1, OneOpPerLine
<1>3. Rewritten(i) = IF S = {} THEN lines[i] ELSE RewriteLine(ops[CHOOSE j \in S : TRUE])
  BY DEF Rewritten
<1>4. ASSUME lines[i].form = "stmt" PROVE Rewritten(i) = SentAs(lines[i], ops[Rank(lines, i)])
  <2>1. Rank(lines, i) \in DOMAIN ops /\ ops[Rank(lines, i)].line = i
    BY <1>1, <1>4, LineOfOp
  <2>2. CASE ops[Rank(lines, i)].fromFile
    <3>1. Rank(lines, i) \in S
      BY <2>1, <2>2
    <3>. HIDE DEF S
    <3>2. (CHOOSE j \in S : TRUE) = Rank(lines, i) /\ S # {}
      BY <1>2, <3>1
    <3>. QED
      BY <1>3, <2>2, <3>2 DEF SentAs
  <2>3. CASE ~ops[Rank(lines, i)].fromFile
    <3>1. S = {}
      BY <1>2, <2>3
    <3>. QED
      BY <1>3, <2>3, <3>1 DEF SentAs
  <2>. QED
    BY <2>2, <2>3
<1>5. ASSUME lines[i].form # "stmt" PROVE Rewritten(i) = lines[i]
  <2>1. S = {}
    BY <1>2, <1>5
  <2>. QED
    BY <1>3, <2>1
<1>. QED
  BY <1>4, <1>5

-----------------------------------------------------------------------------
(* When two machines make the same of what is sent.                        *)

\* A line without an overlong duration.
SmallLine(l) ==
  \A t \in ToSet(l.mods) \cup {KV("", w) : w \in ToSet(l.words)} : \A v \in ToSet(t.val.parts) : v.n < Huge

\* AllSmall, line by line.
LEMMA AllSmallIs == AllSmall <=> \A i \in DOMAIN lines : SmallLine(lines[i])
  BY DEF AllSmall, SmallLine

\* Whether a line has an overlong duration is a matter of its modifiers and words.
LEMMA SmallFields ==
  ASSUME NEW a, NEW l, a.mods = l.mods, a.words = l.words
  PROVE  SmallLine(a) <=> SmallLine(l)
  BY DEF SmallLine

\* Machines that make the same of overlong durations agree on every line.
LEMMA AlwaysCalm ==
  ASSUME NEW b, NEW l
  PROVE  Calm(b, b, l) /\ CalmWords(b, b, l)
  BY DEF Calm, CalmWords, SameTime

\* Words without an overlong duration.
LEMMA SmallWordsCalm ==
  ASSUME NEW b1, NEW b2, NEW l, IsCut(l), SmallLine(l)
  PROVE  CalmWords(b1, b2, l)
<1>1. l.words \in Seq(Words)
  BY DEF IsCut, Lines
<1>2. ASSUME NEW w \in ToSet(l.words) PROVE SameTime(b1, b2, w)
  <2>1. w \in Words
    BY <1>1 DEF ToSet
  <2>2. KV("", w) \in ToSet(l.mods) \cup {KV("", x) : x \in ToSet(l.words)}
    OBVIOUS
  <2>3. KV("", w).val = w
    BY DEF KV
  <2>4. \A v \in ToSet(w.parts) : v.n < Huge
    BY <2>2, <2>3 DEF SmallLine
  <2>. QED
    BY <2>1, <2>4, SmallTime
<1>. QED
  BY <1>2 DEF CalmWords

\* Modifiers without one, the f apart.
LEMMA SmallModsCalm ==
  ASSUME NEW b1, NEW b2, NEW l, IsCut(l), NEW r, SmallLine(r),
         \A t \in ToSet(l.mods) : t \in ToSet(r.mods) \/ t = FTok
  PROVE  Calm(b1, b2, l)
<1>1. l.mods \in Seq(Tokens)
  BY DEF IsCut, Lines
<1>2. ASSUME NEW t \in ToSet(l.mods) PROVE SameTime(b1, b2, t.val)
  <2>1. t.val \in Words
    <3>1. t \in Tokens
      BY <1>1 DEF ToSet
    <3>. QED
      BY <3>1, Zenon DEF Tokens
  <2>2. \A v \in ToSet(t.val.parts) : v.n < Huge
    <3>1. CASE t \in ToSet(r.mods)
      BY <3>1 DEF SmallLine
    <3>2. CASE t = FTok
      <4>1. t.val.parts = <<Garbled>> /\ Garbled.n = 0
        BY <3>2 DEF FTok, Letters, One, Word, Garbled, Name
      <4>2. \A v \in ToSet(t.val.parts) : v = Garbled
        BY <4>1 DEF ToSet
      <4>. QED
        BY <4>1, <4>2, SMT DEF Huge
    <3>. QED
      BY <1>2, <3>1, <3>2
  <2>. QED
    BY <2>1, <2>2, SmallTime
<1>. QED
  BY <1>2 DEF Calm

\* So both machines build alike what is sent.
LEMMA SentCalm ==
  ASSUME NEW b1, NEW b2, NEW i, NEW l, IsCut(l), l.form = "stmt", ~Malformed(l), NEW o, Built(o, b1, i, l),
         b1 = b2 \/ SmallLine(SentAs(l, o))
  PROVE  Calm(b1, b2, l) /\ (~o.fromFile => CalmWords(b1, b2, l))
<1>1. CASE b1 = b2
  BY <1>1, AlwaysCalm
<1>2. CASE SmallLine(SentAs(l, o)) /\ ~o.fromFile
  <2>1. SentAs(l, o) = l
    BY <1>2 DEF SentAs
  <2>. QED
    BY <1>2, <2>1, SmallWordsCalm, SmallModsCalm
<1>3. CASE SmallLine(SentAs(l, o)) /\ o.fromFile
  <2>1. SentAs(l, o) = RewriteLine(o) /\ o.src = <<l>>
    BY <1>3, FileLine DEF SentAs
  <2>2. l \in Lines /\ l.mods \in Seq(Tokens)
    BY DEF IsCut, Lines
  <2>3. RewriteLine(o).mods = WithoutF(l.mods)
    BY <2>1, <2>2, RewrittenFields
  <2>4. ToSet(WithoutF(l.mods)) = ToSet(l.mods) \ {FTok}
    BY <2>2, WithoutFIs
  <2>. QED
    BY <1>3, <2>1, <2>3, <2>4, SmallModsCalm
<1>. QED
  BY <1>1, <1>2, <1>3

\* d are lines the far machine has read, and s what the caller meant by them.
FarMatch(d, s, b) ==
  /\ Len(d) \in Nat /\ DOMAIN d = 1..Len(d) /\ d # <<>>
  /\ IsSeq(s) /\ Len(s) = Rank(d, Len(d))
  /\ \A i \in DOMAIN d : /\ d[i].form \in {"stmt", "blank", "comment"}
                         /\ ~Malformed(d[i])
                         /\ d[i].form = "stmt" => /\ Rank(d, i) \in 1..Len(s)
                                                  /\ Arrives(s[Rank(d, i)], BuildOp(b, i, d[i]))
  /\ \A j \in 1..Len(s) : \E i \in DOMAIN d : d[i].form = "stmt" /\ j = Rank(d, i)

\* The lines as the far scanner gives them.
Arrived(d) == [i \in DOMAIN d |-> AsScanned(d[i])]

\* A line without a statement is not complained of.
LEMMA NoStatement ==
  ASSUME NEW l, l.form \in {"blank", "comment"}
  PROVE  ~Malformed(l)
  BY Zenon DEF Malformed

\* One line of the caller, as the far machine reads it.
LEMMA SentLine ==
  ASSUME NEW b1, NEW b2, CutLines(lines), Fits(ops), Match(lines, ops, Len(lines), b1), NEW i \in DOMAIN lines,
         ~TooLong(Rewritten(i)), b1 = b2 \/ SmallLine(Rewritten(i)), NEW a, a = AsScanned(Rewritten(i))
  PROVE  /\ a.form = lines[i].form /\ a.form \in {"stmt", "blank", "comment"} /\ ~Malformed(a)
         /\ a.form = "stmt" => /\ Rank(lines, i) \in 1..Len(ops)
                               /\ Arrives(ops[Rank(lines, i)], BuildOp(b2, i, a))
<1>1. i \in 1..Len(lines) /\ IsCut(lines[i]) /\ DOMAIN ops = 1..Len(ops)
  BY SeqDomain DEF CutLines, Match
<1>2. lines[i].form \in {"stmt", "blank", "comment"}
  BY <1>1 DEF Match
<1>3. CASE lines[i].form = "stmt"
  <2>. DEFINE l == lines[i]
              o == ops[Rank(lines, i)]
  <2>1. Rank(lines, i) \in 1..Len(ops) /\ ~Malformed(l) /\ Built(o, b1, i, l)
    BY <1>1, <1>3, LineOfOp
  <2>2. Rewritten(i) = SentAs(l, o)
    BY <1>3, RewrittenIs
  <2>3. Shaped(o)
    BY <1>1, <2>1 DEF Fits
  <2>. HIDE DEF l, o
  <2>4. IsCut(l) /\ l.form = "stmt"
    BY <1>1, <1>3 DEF l
  <2>5. Calm(b1, b2, l) /\ (~o.fromFile => CalmWords(b1, b2, l))
    <3>1. b1 = b2 \/ SmallLine(SentAs(l, o))
      BY <2>2
    <3>. QED
      BY <2>1, <2>4, <3>1, SentCalm
  <2>6. ~TooLong(SentAs(l, o)) /\ a = AsScanned(SentAs(l, o))
    BY <2>2
  <2>7. a.form = "stmt" /\ ~Malformed(a) /\ Arrives(o, BuildOp(b2, i, a))
    BY <2>1, <2>3, <2>4, <2>5, <2>6, LineArrives
  <2>. QED
    BY <1>3, <2>1, <2>7 DEF o
<1>4. CASE lines[i].form # "stmt"
  <2>1. Rewritten(i) = lines[i] /\ LineFields(lines[i])
    BY <1>1, <1>4, RewrittenIs, LinesHaveFields DEF IsCut
  <2>2. a.form = lines[i].form
    BY <2>1, Scanned
  <2>. QED
    BY <1>2, <1>4, <2>2, NoStatement
<1>. QED
  BY <1>3, <1>4

\* All lines arrive.
LEMMA SentArrives ==
  ASSUME NEW b1, NEW b2, CutLines(lines), lines # <<>>, Fits(ops), Match(lines, ops, Len(lines), b1),
         \A i \in DOMAIN lines : ~TooLong(Rewritten(i)),
         b1 = b2 \/ \A i \in DOMAIN lines : SmallLine(Rewritten(i)),
         NEW r, r = [i \in DOMAIN lines |-> Rewritten(i)]
  PROVE  FarMatch(Arrived(r), ops, b2)
<1>. DEFINE d == Arrived(r)
<1>1. DOMAIN lines = 1..Len(lines) /\ Len(lines) \in Nat /\ 1 \in DOMAIN lines
  <2>1. Len(lines) # 0
    BY EmptySeq DEF CutLines
  <2>. QED
    BY <2>1 DEF CutLines
<1>2. d = [i \in 1..Len(lines) |-> AsScanned(Rewritten(i))]
  BY <1>1 DEF Arrived
<1>. HIDE DEF d
<1>3. DOMAIN d = 1..Len(lines) /\ Len(d) = Len(lines) /\ \A i \in 1..Len(lines) : d[i] = AsScanned(Rewritten(i))
  BY <1>1, <1>2
<1>4. d # <<>>
  BY <1>1, <1>3
<1>5. ASSUME NEW i \in 1..Len(lines)
      PROVE  /\ d[i].form = lines[i].form /\ d[i].form \in {"stmt", "blank", "comment"} /\ ~Malformed(d[i])
             /\ d[i].form = "stmt" => /\ Rank(lines, i) \in 1..Len(ops)
                                      /\ Arrives(ops[Rank(lines, i)], BuildOp(b2, i, d[i]))
  <2>1. i \in DOMAIN lines /\ d[i] = AsScanned(Rewritten(i))
    BY <1>1, <1>3
  <2>2. ~TooLong(Rewritten(i)) /\ (b1 = b2 \/ SmallLine(Rewritten(i)))
    BY <2>1
  <2>. QED
    BY <2>1, <2>2, SentLine
<1>6. \A i \in 0..Len(lines) : Rank(d, i) = Rank(lines, i)
  <2>. TAKE i \in 0..Len(lines)
  <2>1. \A h \in 1..i : h \in 1..Len(lines)
    BY <1>1
  <2>. QED
    BY <1>5, <2>1, SameRank
<1>7. IsSeq(ops) /\ Len(ops) = Rank(d, Len(d))
  BY <1>1, <1>3, <1>6 DEF Match
<1>8. ASSUME NEW j \in 1..Len(ops) PROVE \E i \in DOMAIN d : d[i].form = "stmt" /\ j = Rank(d, i)
  <2>1. PICK i \in 1..Len(lines) : lines[i].form = "stmt" /\ j = Rank(lines, i)
    BY DEF Match
  <2>2. i \in DOMAIN d /\ d[i].form = "stmt" /\ Rank(d, i) = Rank(lines, i)
    BY <1>3, <1>5, <1>6, <2>1
  <2>. QED
    BY <2>1, <2>2
<1>9. ASSUME NEW i \in DOMAIN d
      PROVE  /\ d[i].form \in {"stmt", "blank", "comment"} /\ ~Malformed(d[i])
             /\ d[i].form = "stmt" => Rank(d, i) \in 1..Len(ops) /\ Arrives(ops[Rank(d, i)], BuildOp(b2, i, d[i]))
  <2>1. i \in 1..Len(lines) /\ Rank(d, i) = Rank(lines, i)
    BY <1>3, <1>6
  <2>. QED
    BY <1>5, <2>1
<1>10. FarMatch(d, ops, b2)
  BY <1>1, <1>3, <1>4, <1>7, <1>8, <1>9 DEF FarMatch
<1>. QED
  BY <1>10 DEF d

-----------------------------------------------------------------------------
(* What arrived is validated as what was sent.                             *)

\* Two operations that agree in all that Validate looks at.
Alike(a, b) ==
  /\ a.kind = b.kind /\ a.delay = b.delay /\ a.gap = b.gap /\ a.interval = b.interval /\ a.duration = b.duration
  /\ a.capInterval = b.capInterval /\ a.wait = b.wait /\ a.timeout = b.timeout /\ a.sleep = b.sleep
  /\ a.keys = b.keys /\ a.mods = b.mods /\ a.points = b.points /\ a.count = b.count /\ a.ticks = b.ticks
  /\ a.capCount = b.capCount /\ a.scaleNative = b.scaleNative /\ a.scale = b.scale /\ a.label = b.label
  /\ a.selector = b.selector /\ a.button = b.button

\* What has arrived is alike in all that Validate looks at.
LEMMA ArrivesAlike ==
  ASSUME NEW o, NEW c, Arrives(o, c)
  PROVE  Alike(o, c)
<1>1. {"kind", "delay", "gap", "interval", "duration", "capInterval", "wait", "timeout", "sleep", "keys", "mods",
       "points", "count", "ticks", "capCount", "scaleNative", "scale", "label", "selector", "button"}
        \subseteq OpFields \ {"src", "fromFile", "filePath", "hasText", "text"}
  BY DEF OpFields
<1>2. \A x \in OpFields \ {"src", "fromFile", "filePath", "hasText", "text"} : o[x] = c[x]
  BY DEF Arrives
<1>. QED
  BY <1>1, <1>2, Zenon DEF Alike

\* Validate's verdict on an operation depends on that only.
LEMMA SameVerdict ==
  ASSUME NEW a, NEW b, Alike(a, b)
  PROVE  /\ TimingFails(a) <=> TimingFails(b)
         /\ RangeFails(a) <=> RangeFails(b)
         /\ \A held : BalanceFails(held, a) <=> BalanceFails(held, b)
         /\ \A held : HeldAfter(held, a) = HeldAfter(held, b)
         /\ TakenBy(a) = TakenBy(b)
<1>1. TimingFails(a) <=> TimingFails(b)
  BY Zenon DEF Alike, TimingFails
<1>2. RangeFails(a) <=> RangeFails(b)
  BY Zenon DEF Alike, RangeFails
<1>3. ButtonOf(a) = ButtonOf(b)
  BY DEF Alike, ButtonOf
<1>4. \A held : BalanceFails(held, a) <=> BalanceFails(held, b)
  BY <1>3, Zenon DEF Alike, BalanceFails
<1>5. Gives(a) = Gives(b) /\ Takes(a) = Takes(b)
  BY <1>3, Zenon DEF Alike, Gives, Takes
<1>6. ASSUME NEW held PROVE HeldAfter(held, a) = HeldAfter(held, b)
  BY <1>5, HeldAfterIs
<1>7. TakenBy(a) = TakenBy(b)
  BY Zenon DEF Alike, TakenBy
<1>. QED
  BY <1>1, <1>2, <1>4, <1>6, <1>7

\* So does what it holds.
LEMMA SameHolds ==
  ASSUME NEW s, NEW t, NEW z \in Nat, NEW f, NEW g, Holds(f, s, z), Holds(g, t, z),
         \A i \in 1..z : Alike(s[i], t[i])
  PROVE  \A k \in 0..z : f[k] = g[k]
<1>. DEFINE S == {k \in Nat : k \in 0..z => f[k] = g[k]}
<1>1. 0 \in S
  BY DEF Holds
<1>2. ASSUME NEW k \in S PROVE k + 1 \in S
  <2>. SUFFICES ASSUME k + 1 \in 0..z PROVE f[k + 1] = g[k + 1]
    OBVIOUS
  <2>1. PICK i \in 1..z : i = k + 1 /\ i - 1 = k /\ i # 0
    OBVIOUS
  <2>2. f[i] = HeldAfter(f[k], s[i]) /\ g[i] = HeldAfter(g[k], t[i])
    BY <2>1 DEF Holds
  <2>3. f[k] = g[k]
    BY <2>1
  <2>4. HeldAfter(f[k], s[i]) = HeldAfter(f[k], t[i])
    BY SameVerdict
  <2>. QED
    BY <2>1, <2>2, <2>3, <2>4
<1>. HIDE DEF S
<1>3. S = Nat
  <2>1. S \in SUBSET Nat
    BY DEF S
  <2>. QED
    BY <1>1, <1>2, <2>1, Induction
<1>. QED
  BY <1>3 DEF S

\* And the number of captures.
LEMMA SameCaptures ==
  ASSUME NEW s, NEW t, Len(s) \in Nat, Len(t) = Len(s), \A i \in 1..Len(s) : Alike(s[i], t[i])
  PROVE  Captures(s) = Captures(t)
<1>1. PICK f : Counts(f, s, Len(s)) /\ Captures(s) = f[Len(s)]
  BY CapturesIs
<1>2. PICK g : Counts(g, t, Len(t)) /\ Captures(t) = g[Len(t)]
  BY CapturesIs
<1>3. PICK z \in Nat : z = Len(s)
  OBVIOUS
<1>4. \A i \in 1..z : TakenBy(s[i]) = TakenBy(t[i])
  BY <1>3, SameVerdict
<1>. DEFINE S == {k \in Nat : k \in 0..z => f[k] = g[k]}
<1>5. 0 \in S
  BY <1>1, <1>2, <1>3 DEF Counts
<1>6. ASSUME NEW k \in S PROVE k + 1 \in S
  <2>. SUFFICES ASSUME k + 1 \in 0..z PROVE f[k + 1] = g[k + 1]
    OBVIOUS
  <2>1. PICK i \in 1..z : i = k + 1 /\ i - 1 = k /\ i # 0
    OBVIOUS
  <2>2. f[i] = f[i - 1] + TakenBy(s[i]) /\ g[i] = g[i - 1] + TakenBy(t[i])
    BY <1>1, <1>2, <1>3, <2>1 DEF Counts
  <2>3. f[k] = g[k]
    BY <2>1
  <2>. QED
    BY <1>4, <2>1, <2>2, <2>3
<1>. HIDE DEF S
<1>7. S = Nat
  <2>1. S \in SUBSET Nat
    BY DEF S
  <2>. QED
    BY <1>5, <1>6, <2>1, Induction
<1>. QED
  BY <1>1, <1>2, <1>3, <1>7 DEF S

\* What is accepted here is accepted there.
LEMMA StillValid ==
  ASSUME NEW s, NEW t, IsSeq(s), IsSeq(t), Len(t) = Len(s), \A i \in 1..Len(s) : Alike(s[i], t[i]),
         Validate(s) = {}
  PROVE  Validate(t) = {}
<1>1. /\ Len(s) \in Nat /\ DOMAIN s = 1..Len(s) /\ DOMAIN t = 1..Len(s)
  BY SeqDomain
<1>2. PICK z \in Nat : z = Len(s)
  BY <1>1
<1>3. PICK f : /\ Holds(f, s, Len(s))
               /\ \A j \in DOMAIN s : ~TimingFails(s[j]) /\ ~RangeFails(s[j]) /\ ~BalanceFails(f[j - 1], s[j])
  BY <1>1, NothingWrong
<1>4. PICK g : /\ Holds(g, t, Len(t))
               /\ Validate(t) =
                    {t[i].line : i \in {j \in DOMAIN t : \/ TimingFails(t[j]) \/ RangeFails(t[j])
                                                         \/ BalanceFails(g[j - 1], t[j])}}
                    \cup (IF Captures(t) > MaxCapturesTotal THEN {0} ELSE {})
  BY <1>1, ValidateIs, Zenon
<1>5. \A k \in 0..z : f[k] = g[k]
  <2>1. Holds(f, s, z) /\ Holds(g, t, z) /\ \A i \in 1..z : Alike(s[i], t[i])
    BY <1>2, <1>3, <1>4
  <2>. QED
    BY <2>1, SameHolds
<1>6. ~(Captures(t) > MaxCapturesTotal)
  BY <1>1, NothingWrong, SameCaptures
<1>7. ASSUME NEW j \in DOMAIN t
      PROVE  ~TimingFails(t[j]) /\ ~RangeFails(t[j]) /\ ~BalanceFails(g[j - 1], t[j])
  <2>1. PICK k \in 0..z : k = j - 1
    BY <1>1, <1>2
  <2>2. j \in DOMAIN s /\ Alike(s[j], t[j])
    BY <1>1
  <2>3. ~TimingFails(s[j]) /\ ~RangeFails(s[j]) /\ ~BalanceFails(f[k], s[j])
    BY <1>3, <2>1, <2>2
  <2>4. f[k] = g[k]
    BY <1>5
  <2>. QED
    BY <2>1, <2>2, <2>3, <2>4, SameVerdict
<1>. DEFINE bad == {j \in DOMAIN t : \/ TimingFails(t[j]) \/ RangeFails(t[j]) \/ BalanceFails(g[j - 1], t[j])}
            lost == IF Captures(t) > MaxCapturesTotal THEN {0} ELSE {}
<1>8. bad = {} /\ lost = {}
  BY <1>6, <1>7
<1>9. Validate(t) = {t[i].line : i \in bad} \cup lost
  BY <1>4, Zenon
<1>. HIDE DEF bad, lost
<1>. QED
  BY <1>8, <1>9

-----------------------------------------------------------------------------
(* What the far machine makes of the lines.                                *)

\* What the far side built agrees with what was meant, and what it runs.
Agrees(t, s) == Len(t) = Len(s) /\ \A j \in 1..Len(s) : Arrives(s[j], t[j])
Runs(t, s) == Len(t) = Len(s) /\ \A j \in DOMAIN t : Carried(t[j]) = Carried(AsRead(s[j]))

\* An operation built of the line that arrived.
LEMMA BuiltArrives ==
  ASSUME NEW o, NEW b, NEW i, NEW l, Arrives(o, BuildOp(b, i, l)), NEW c, Built(c, b, i, l)
  PROVE  Arrives(o, c)
<1>. DEFINE d == BuildOp(b, i, l)
<1>1. IsOp(c) /\ \A x \in OpFields \ {"text", "hasText"} : c[x] = d[x]
  BY DEF Built
<1>2. "fromFile" \in OpFields \ {"text", "hasText"}
  BY DEF OpFields
<1>3. ~d.fromFile /\ ~c.fromFile
  BY <1>1, <1>2 DEF Arrives
<1>4. c.text = d.text
  BY <1>3 DEF Built
<1>. HIDE DEF d
<1>5. Arrives(o, d) => Arrives(o, c)
  BY <1>1, <1>3, <1>4 DEF Arrives
<1>. QED
  BY <1>5 DEF d

\* What the far side has parsed is what has arrived.
LEMMA FarOps ==
  ASSUME NEW d, NEW s, NEW b, FarMatch(d, s, b), NEW t, Match(d, t, Len(d), b)
  PROVE  Agrees(t, s)
<1>1. Len(t) = Len(s)
  BY DEF FarMatch, Match
<1>2. ASSUME NEW j \in 1..Len(s) PROVE Arrives(s[j], t[j])
  <2>1. PICK i \in DOMAIN d : d[i].form = "stmt" /\ j = Rank(d, i)
    BY DEF FarMatch
  <2>2. Arrives(s[j], BuildOp(b, i, d[i]))
    BY <2>1 DEF FarMatch
  <2>3. Built(t[j], b, i, d[i])
    BY <2>1 DEF FarMatch, Match
  <2>. QED
    BY <2>2, <2>3, BuiltArrives
<1>. QED
  BY <1>1, <1>2 DEF Agrees

\* The far machine parses one more line.
LEMMA FarParses ==
  ASSUME NEW d, NEW s, NEW b, FarMatch(d, s, b), NEW z \in DOMAIN d, NEW t, Match(d, t, z - 1, b), Fits(t),
         NEW u, u = IF d[z].form \in {"blank", "comment"} \/ Malformed(d[z]) THEN t
                    ELSE Append(t, BuildOp(b, z, d[z]))
  PROVE  ~Malformed(d[z]) /\ Match(d, u, z, b) /\ Fits(u)
<1>1. ~Malformed(d[z]) /\ d[z].form \in {"stmt", "blank", "comment"} /\ z \in 1..Len(d) /\ Len(d) \in Nat
  BY DEF FarMatch
<1>2. PICK k \in Nat : k = z - 1 /\ k + 1 = z
  BY <1>1
<1>3. CASE d[z].form \in {"blank", "comment"}
  <2>1. Match(d, t, k + 1, b)
    BY <1>2, <1>3, MatchSkip
  <2>. QED
    BY <1>1, <1>2, <1>3, <2>1
<1>4. CASE d[z].form = "stmt"
  <2>1. Match(d, Append(t, BuildOp(b, k + 1, d[k + 1])), k + 1, b)
    BY <1>1, <1>2, <1>4, MatchNext
  <2>2. Shaped(BuildOp(b, z, d[z])) /\ BuildOp(b, z, d[z]).kind \in Kinds
    BY <1>1, <1>4, BuiltShape DEF BuildsShape
  <2>3. u = Append(t, BuildOp(b, z, d[z]))
    BY <1>1, <1>4
  <2>. QED
    BY <1>1, <1>2, <2>1, <2>2, <2>3, AppendFits
<1>. QED
  BY <1>1, <1>3, <1>4

\* What has arrived runs as what was meant, but for the carriage return.
LEMMA ArrivesCarried ==
  ASSUME NEW o, IsOp(o), NEW c, Arrives(o, c)
  PROVE  Carried(c) = Carried(AsRead(o))
<1>. DEFINE r == AsRead(o)
<1>0. {"text", "kind", "hasPoint", "scale", "scaleNative"} \subseteq OpFields
  BY DEF OpFields
<1>1. /\ IsOp(r) /\ \A x \in OpFields \ {"text"} : r[x] = o[x]
      /\ o.kind \in TextKinds => r.text = DropCR(o.text)
      /\ o.kind \notin TextKinds => r.text = o.text
  <2>1. CASE o.kind \in TextKinds
    <3>1. r = [o EXCEPT !.text = DropCR(@)]
      BY <2>1 DEF AsRead
    <3>. HIDE DEF r
    <3>2. IsOp(r) /\ (\A x \in OpFields \ {"text"} : r[x] = o[x]) /\ r.text = DropCR(o.text)
      BY <1>0, <3>1, ZenonT(30) DEF IsOp
    <3>. QED
      BY <2>1, <3>2
  <2>2. CASE o.kind \notin TextKinds
    <3>1. r = o
      BY <2>2 DEF AsRead
    <3>. QED
      BY <2>2, <3>1
  <2>. QED
    BY <2>1, <2>2
<1>. HIDE DEF r
<1>2. IsOp(c) /\ \A x \in OpFields \ {"src", "fromFile", "filePath", "hasText"} : c[x] = r[x]
  BY <1>1 DEF Arrives
<1>3. /\ "hasPoint" \in OpFields \ {"src", "fromFile", "filePath", "hasText"}
      /\ "kind" \in OpFields \ {"src", "fromFile", "filePath", "hasText"}
      /\ "scale" \in OpFields \ {"src", "fromFile", "filePath", "hasText"}
  BY DEF OpFields
<1>4. c.hasPoint = r.hasPoint /\ c.kind = r.kind /\ c.scale = r.scale
  BY <1>2, <1>3
<1>5. \A x \in OpFields \ (NearFields \cup {"scale"}) : c[x] = r[x]
  BY <1>2 DEF NearFields
<1>6. (c.hasPoint /\ c.kind # "move") = (r.hasPoint /\ r.kind # "move")
  BY <1>4
<1>7. Carried(c) = Carried(r)
  BY <1>1, <1>2, <1>4, <1>5, <1>6, SameCarried
<1>. QED
  BY <1>7 DEF r

\* All operations do.
LEMMA AgreesRuns ==
  ASSUME NEW t, NEW s, Agrees(t, s), IsSeq(t), Fits(s)
  PROVE  Runs(t, s)
<1>1. DOMAIN t = 1..Len(s) /\ DOMAIN s = 1..Len(s) /\ Len(t) = Len(s)
  BY SeqDomain DEF Agrees, Fits
<1>2. ASSUME NEW j \in 1..Len(s) PROVE Carried(t[j]) = Carried(AsRead(s[j]))
  <2>1. IsOp(s[j])
    BY <1>1 DEF Fits, Shaped
  <2>2. Arrives(s[j], t[j])
    BY DEF Agrees
  <2>. QED
    BY <2>1, <2>2, ArrivesCarried
<1>. QED
  BY <1>1, <1>2 DEF Runs

\* All of them are accepted.
LEMMA AgreesValid ==
  ASSUME NEW t, NEW s, Agrees(t, s), IsSeq(t), IsSeq(s), Validate(s) = {}
  PROVE  Validate(t) = {}
<1>1. Len(t) = Len(s) /\ \A j \in 1..Len(s) : Alike(s[j], t[j])
  BY ArrivesAlike DEF Agrees
<1>. QED
  BY <1>1, StillValid

\* Through the bridge of the far machine.
LEMMA DecodedRuns ==
  ASSUME NEW t, NEW s, Agrees(t, s), Fits(t), Fits(s),
         NEW r, r = [i \in DOMAIN t |-> OpNode(t[i])], NEW u, u = [i \in DOMAIN r |-> DecodeOp(r[i])]
  PROVE  Runs(u, s)
<1>1. DOMAIN t = 1..Len(t) /\ Len(t) \in Nat /\ Len(t) = Len(s)
  BY SeqDomain DEF Agrees, Fits
<1>2. u = [i \in 1..Len(t) |-> DecodeOp(OpNode(t[i]))]
  BY <1>1
<1>3. Len(u) = Len(t) /\ DOMAIN u = 1..Len(t)
  BY <1>1, <1>2
<1>4. Runs(t, s)
  BY AgreesRuns DEF Fits
<1>5. ASSUME NEW i \in 1..Len(t) PROVE Carried(u[i]) = Carried(AsRead(s[i]))
  <2>1. u[i] = DecodeOp(OpNode(t[i])) /\ Shaped(t[i]) /\ t[i].kind \in Kinds
    BY <1>1, <1>2 DEF Fits
  <2>2. Carried(u[i]) = Carried(t[i])
    BY <2>1, RoundTrip
  <2>3. Carried(t[i]) = Carried(AsRead(s[i]))
    BY <1>1, <1>4 DEF Runs
  <2>. QED
    BY <2>2, <2>3
<1>. QED
  BY <1>1, <1>3, <1>5 DEF Runs

-----------------------------------------------------------------------------
(* What holds on the machine that ssh leads to.                            *)

\* Both machines make the same of every duration that is sent.
Heard == bigs["near"] = bigs["far"] \/ AllSmall

\* What the far side has made of the lines, step by step: no complaint, and the operations
\* that were meant, each as far as it has come.
Understood ==
  /\ diags = {} /\ Fits(meant) /\ Validate(meant) = {}
  /\ pc \in {"read", "parse", "inline", "accepted", "sent", "run"}
  /\ pc = "read" => ops = <<>> /\ FarMatch(Arrived(lines), meant, bigs["far"])
  /\ pc = "parse" => /\ at \in DOMAIN lines /\ FarMatch(lines, meant, bigs["far"])
                     /\ Match(lines, ops, at - 1, bigs["far"])
  /\ pc = "inline" => at \in Nat \ {0}
  /\ pc \in {"inline", "accepted", "sent"} => Agrees(ops, meant)
  /\ pc # "run" => Fits(ops)
  /\ pc = "sent" => request = [i \in DOMAIN ops |-> OpNode(ops[i])]
  /\ pc = "run" => Runs(ops, meant)

\* The inductive invariant of SshCarriesTheOps: WrittenAsMeant on the near side, and on the
\* far side that what was sent is understood.
ArrivesAsMeant ==
  /\ WrittenAsMeant
  /\ side = "near" /\ pc = "accepted" => diags = {}
  /\ side = "far" => /\ dest \in {"local", "bridge"} /\ via = "file"
                     /\ pc = "read" => \A i \in DOMAIN lines : LineFields(lines[i])
                     /\ Heard => Understood

\* ArrivesAsMeant holds before anything is read.
LEMMA InitArrivesAsMeant == ASSUME Init PROVE ArrivesAsMeant
  BY InitWrittenAsMeant DEF Init, ArrivesAsMeant

\* No operation yet.
LEMMA FitsEmpty == Fits(<<>>)
  BY DEF Fits, IsSeq, ToSet

\* The lines that are sent are lines.
LEMMA SentFields ==
  ASSUME NEW b, CutLines(lines), Match(lines, ops, Len(lines), b), NEW i \in DOMAIN lines
  PROVE  LineFields(Rewritten(i))
<1>1. i \in 1..Len(lines) /\ lines[i] \in Lines /\ LineFields(lines[i])
  BY LinesHaveFields DEF CutLines, IsCut
<1>2. CASE lines[i].form # "stmt"
  BY <1>1, <1>2, RewrittenIs
<1>3. CASE lines[i].form = "stmt"
  <2>. DEFINE o == ops[Rank(lines, i)]
  <2>1. ~Malformed(lines[i]) /\ Built(o, b, i, lines[i])
    BY <1>1, <1>3, LineOfOp
  <2>2. Rewritten(i) = SentAs(lines[i], o)
    BY <1>3, RewrittenIs
  <2>. HIDE DEF o
  <2>3. CASE o.fromFile
    <3>1. o.src = <<lines[i]>>
      BY <1>3, <2>1, <2>3, FileLine
    <3>2. LineFields(RewriteLine(o))
      BY <1>1, <3>1, RewrittenFields
    <3>. QED
      BY <2>2, <2>3, <3>2 DEF SentAs
  <2>4. CASE ~o.fromFile
    BY <1>1, <2>2, <2>4 DEF SentAs
  <2>. QED
    BY <2>3, <2>4
<1>. QED
  BY <1>2, <1>3

\* What is sent arrives.
LEMMA SendArrives == ASSUME ArrivesAsMeant, SendOverSsh, side = "near" PROVE ArrivesAsMeant'
<1>1. WrittenAsMeant'
  BY StepWrittenAsMeant DEF ArrivesAsMeant, Next
<1>2. /\ pc = "accepted" /\ diags = {} /\ ops = meant /\ CutLines(lines) /\ lines # <<>> /\ Fits(ops)
      /\ Match(lines, ops, Len(lines), bigs["near"]) /\ Validate(ops) = {}
  BY DEF ArrivesAsMeant, WrittenAsMeant, SentAsMeant, SendOverSsh
<1>3. CASE pc' = "refused" /\ side' = side
  BY <1>1, <1>3 DEF ArrivesAsMeant
<1>4. CASE side' = "far" /\ pc' # "refused"
  <2>1. /\ dest' \in {"local", "bridge"} /\ via' = "file" /\ lines' = [i \in DOMAIN lines |-> Rewritten(i)]
        /\ ops' = <<>> /\ pc' = "read" /\ diags' = {} /\ bigs' = bigs /\ meant' = ops
        /\ \A i \in DOMAIN lines : ~TooLong(Rewritten(i))
    BY <1>2, <1>4 DEF SendOverSsh
  <2>2. ASSUME NEW i \in DOMAIN lines PROVE LineFields(Rewritten(i))
    BY <1>2, SentFields
  <2>3. \A i \in DOMAIN lines' : LineFields(lines'[i])
    BY <2>1, <2>2
  <2>4. ASSUME Heard' PROVE Understood'
    <3>1. bigs["near"] = bigs["far"] \/ \A i \in DOMAIN lines : SmallLine(Rewritten(i))
      <4>1. bigs["near"] = bigs["far"] \/ AllSmall'
        BY <2>1, <2>4 DEF Heard
      <4>2. AllSmall' => \A i \in DOMAIN lines' : SmallLine(lines'[i])
        BY DEF AllSmall, SmallLine
      <4>. QED
        BY <2>1, <4>1, <4>2
    <3>2. FarMatch(Arrived(lines'), ops, bigs["far"])
      BY <1>2, <2>1, <3>1, SentArrives
    <3>3. Fits(meant') /\ Fits(ops') /\ Validate(meant') = {}
      BY <1>2, <2>1, FitsEmpty
    <3>. QED
      BY <2>1, <3>2, <3>3 DEF Understood
  <2>. QED
    BY <1>1, <1>4, <2>1, <2>3, <2>4 DEF ArrivesAsMeant
<1>. QED
  BY <1>3, <1>4 DEF SendOverSsh

-----------------------------------------------------------------------------
(* The steps of the far machine.                                           *)

\* The far scanner reads what has arrived.
LEMMA FarReads == ASSUME ArrivesAsMeant, ReadLines, side = "far", Heard' PROVE Understood'
<1>1. /\ pc = "read" /\ pc' = "parse" /\ at' = 1 /\ lines' = Arrived(lines)
      /\ UNCHANGED <<side, bigs, ops, diags, meant>>
  <2>1. via = "file" /\ pc = "read"
    BY DEF ArrivesAsMeant, ReadLines
  <2>2. lines' = [i \in DOMAIN lines |-> [lines[i] EXCEPT !.chars = DropCR(@)]]
    BY <2>1 DEF ReadLines
  <2>. QED
    BY <2>2 DEF ReadLines, Arrived, AsScanned
<1>2. \A i \in DOMAIN lines : LineFields(lines[i])
  BY <1>1 DEF ArrivesAsMeant
<1>3. Heard
  <2>1. CASE bigs["near"] = bigs["far"]
    BY <2>1 DEF Heard
  <2>2. CASE AllSmall'
    <3>1. \A i \in DOMAIN lines' : SmallLine(lines'[i])
      BY <2>2 DEF AllSmall, SmallLine
    <3>2. DOMAIN lines' = DOMAIN lines /\ \A i \in DOMAIN lines : lines'[i] = AsScanned(lines[i])
      BY <1>1 DEF Arrived
    <3>3. \A i \in DOMAIN lines : SmallLine(lines[i])
      BY <1>2, <3>1, <3>2, Scanned, SmallFields
    <3>. QED
      BY <3>3, AllSmallIs DEF Heard
  <2>. QED
    BY <1>1, <2>1, <2>2 DEF Heard
<1>4. Understood
  BY <1>3 DEF ArrivesAsMeant
<1>5. FarMatch(lines', meant, bigs["far"]) /\ ops = <<>>
  BY <1>1, <1>4 DEF Understood
<1>6. 1 \in DOMAIN lines'
  <2>1. Len(lines') \in Nat /\ DOMAIN lines' = 1..Len(lines') /\ lines' # <<>> /\ Len(lines') = Len(lines')
    BY <1>5 DEF FarMatch
  <2>2. DOMAIN lines' # {}
    BY <1>1, <2>1 DEF Arrived
  <2>. QED
    BY <2>1, <2>2
<1>7. Match(lines', ops, 0, bigs["far"]) /\ 1 - 1 = 0
  BY <1>5, MatchEmpty
<1>. QED
  BY <1>1, <1>4, <1>5, <1>6, <1>7 DEF Understood

\* What the far side does with it.
LEMMA FarSteps ==
  ASSUME ArrivesAsMeant, side = "far", Heard',
         ParseLine \/ InlineOp \/ ValidateSeq \/ RunHere \/ EncodeRequest \/ DecodeRequest
  PROVE  Understood'
<1>0. UNCHANGED <<side, bigs, lines, meant>>
  BY DEF ParseLine, InlineOp, ValidateSeq, RunHere, EncodeRequest, DecodeRequest
<1>1. Heard /\ Understood
  <2>1. AllSmall' <=> AllSmall
    BY <1>0 DEF AllSmall
  <2>2. Heard
    BY <1>0, <2>1 DEF Heard
  <2>. QED
    BY <2>2 DEF ArrivesAsMeant
<1>2. diags = {} /\ Fits(meant) /\ Validate(meant) = {}
  BY <1>1 DEF Understood
<1>2a. IsSeq(meant)
  BY <1>2 DEF Fits
<1>3. CASE ParseLine
  <2>1. /\ pc = "parse" /\ at \in DOMAIN lines /\ FarMatch(lines, meant, bigs["far"])
        /\ Match(lines, ops, at - 1, bigs["far"]) /\ Fits(ops)
    BY <1>1, <1>3 DEF Understood, ParseLine
  <2>2. ops' = IF lines[at].form \in {"blank", "comment"} \/ Malformed(lines[at]) THEN ops
               ELSE Append(ops, BuildOp(bigs["far"], at, lines[at]))
    BY <1>3 DEF ParseLine
  <2>3. ~Malformed(lines[at]) /\ Match(lines, ops', at, bigs["far"]) /\ Fits(ops')
    BY <2>1, <2>2, FarParses
  <2>4. diags' = {}
    BY <1>2, <1>3, <2>3 DEF ParseLine
  <2>5. CASE pc' = "inline" /\ at' = 1 /\ at = Len(lines)
    <3>1. Agrees(ops', meant)
      BY <2>1, <2>3, <2>5, FarOps
    <3>. QED
      BY <1>0, <1>2, <2>3, <2>4, <2>5, <3>1 DEF Understood
  <2>6. CASE pc' = "parse" /\ at' = at + 1 /\ at # Len(lines)
    <3>1. PICK z \in Nat : z = Len(lines) /\ DOMAIN lines = 1..z /\ at \in 1..z /\ at # z
      BY <2>1, <2>6 DEF FarMatch
    <3>2. at + 1 \in 1..z /\ (at + 1) - 1 = at
      BY <3>1
    <3>3. at + 1 \in DOMAIN lines
      BY <3>1, <3>2
    <3>. QED
      BY <1>0, <1>2, <2>1, <2>3, <2>4, <2>6, <3>2, <3>3 DEF Understood
  <2>. QED
    BY <1>3, <2>1, <2>5, <2>6 DEF ParseLine
<1>4. CASE InlineOp
  <2>1. pc = "inline" /\ Fits(ops) /\ Agrees(ops, meant) /\ at \in Nat \ {0} /\ at <= Len(ops)
    BY <1>1, <1>4 DEF Understood, InlineOp
  <2>2. ~ops[at].fromFile
    <3>1. at \in 1..Len(meant)
      BY <2>1, SeqDomain DEF Agrees, Fits
    <3>. QED
      BY <2>1, <3>1 DEF Agrees, Arrives
  <2>3. UNCHANGED <<ops, diags, pc>> /\ at' = at + 1
    BY <1>4, <2>2 DEF InlineOp
  <2>. QED
    BY <1>0, <1>2, <2>1, <2>3 DEF Understood
<1>5. CASE ValidateSeq
  <2>1. pc = "inline" /\ Fits(ops) /\ Agrees(ops, meant)
    BY <1>1, <1>5 DEF Understood, ValidateSeq
  <2>2. Validate(ops) = {}
    BY <1>2, <1>2a, <2>1, AgreesValid DEF Fits
  <2>3. diags' = {} /\ pc' = "accepted" /\ ops' = ops
    BY <1>2, <1>5, <2>2 DEF ValidateSeq
  <2>. QED
    BY <1>0, <1>2, <2>1, <2>3 DEF Understood
<1>6. CASE RunHere
  <2>1. pc = "accepted" /\ Fits(ops) /\ Agrees(ops, meant) /\ pc' = "run" /\ ops' = ops /\ diags' = diags
    BY <1>1, <1>6 DEF Understood, RunHere
  <2>2. Runs(ops, meant)
    BY <1>2, <2>1, AgreesRuns DEF Fits
  <2>. QED
    BY <1>0, <1>2, <2>1, <2>2 DEF Understood
<1>7. CASE EncodeRequest
  <2>1. /\ pc = "accepted" /\ Fits(ops) /\ Agrees(ops, meant) /\ pc' = "sent" /\ ops' = ops /\ diags' = diags
        /\ request' = [i \in DOMAIN ops |-> OpNode(ops[i])]
    BY <1>1, <1>7 DEF Understood, EncodeRequest
  <2>. QED
    BY <1>0, <1>2, <2>1 DEF Understood
<1>8. CASE DecodeRequest
  <2>1. /\ pc = "sent" /\ Fits(ops) /\ Agrees(ops, meant) /\ pc' = "run" /\ diags' = diags
        /\ request = [i \in DOMAIN ops |-> OpNode(ops[i])]
        /\ ops' = [i \in DOMAIN request |-> DecodeOp(request[i])]
    BY <1>1, <1>8 DEF Understood, DecodeRequest
  <2>2. Runs(ops', meant)
    BY <1>2, <2>1, DecodedRuns
  <2>. QED
    BY <1>0, <1>2, <2>1, <2>2 DEF Understood
<1>. QED
  BY <1>3, <1>4, <1>5, <1>6, <1>7, <1>8

\* Every step keeps ArrivesAsMeant.
LEMMA StepArrivesAsMeant == ASSUME ArrivesAsMeant, [Next]_vars PROVE ArrivesAsMeant'
<1>1. WrittenAsMeant'
  BY StepWrittenAsMeant DEF ArrivesAsMeant
<1>2. side \in {"near", "far"}
  BY DEF ArrivesAsMeant, WrittenAsMeant, SentAsMeant
<1>3. CASE UNCHANGED vars
  <2>1. (Heard' <=> Heard) /\ (Understood' <=> Understood)
    BY <1>3 DEF vars, Heard, AllSmall, Understood, Fits, IsSeq, FarMatch, Match, Agrees, Runs, Arrived
  <2>. QED
    BY <1>1, <1>3, <2>1 DEF vars, ArrivesAsMeant
<1>4. CASE side = "near" /\ Next
  <2>1. CASE SendOverSsh
    BY <1>4, <2>1, SendArrives
  <2>2. CASE ~SendOverSsh
    <3>1. side' = "near" /\ (pc' = "accepted" => diags' = {})
      BY <1>4, <2>2 DEF Next, ReadLines, ParseLine, InlineOp, ValidateSeq, PrintsOk, RunHere, EncodeRequest,
                        DecodeRequest
    <3>. QED
      BY <1>1, <3>1 DEF ArrivesAsMeant
  <2>. QED
    BY <2>1, <2>2
<1>5. CASE side = "far" /\ Next
  <2>1. dest \in {"local", "bridge"} /\ via = "file"
    BY <1>5 DEF ArrivesAsMeant
  <2>2. ~SendOverSsh /\ ~PrintsOk
    BY <2>1 DEF SendOverSsh, PrintsOk
  <2>3. UNCHANGED <<side, dest, via>> /\ pc' # "read"
    BY <1>5, <2>2 DEF Next, ReadLines, ParseLine, InlineOp, ValidateSeq, RunHere, EncodeRequest, DecodeRequest
  <2>4. Heard' => Understood'
    BY <1>5, <2>2, FarReads, FarSteps DEF Next
  <2>. QED
    BY <1>1, <1>5, <2>1, <2>3, <2>4 DEF ArrivesAsMeant
<1>. QED
  BY <1>2, <1>3, <1>4, <1>5

\* The invariant of the whole way, for all documents and all contents of files: at each step
\* of either machine, how the operations at hand correspond to the lines and to what was meant.
THEOREM DocumentInvariant == Spec => []ArrivesAsMeant
<1>1. ArrivesAsMeant /\ [Next]_vars => ArrivesAsMeant'
  BY StepArrivesAsMeant
<1>. QED
  BY <1>1, InitArrivesAsMeant, PTL DEF Spec

\* SshCarriesTheOps, for all documents and all contents of files: what is sent over ssh is
\* accepted at the far end and runs there, here or through the bridge of that machine, as the
\* operations the caller's machine accepted.
THEOREM SshAlwaysCarriesTheOps == Spec => []SshCarriesTheOps
<1>1. ArrivesAsMeant => SshCarriesTheOps
  <2>. SUFFICES ASSUME ArrivesAsMeant, side = "far", bigs["near"] = bigs["far"] \/ AllSmall
                PROVE  /\ pc # "refused"
                       /\ pc = "run" => /\ Len(ops) = Len(meant)
                                        /\ \A i \in DOMAIN ops : Carried(ops[i]) = Carried(AsRead(meant[i]))
    BY DEF SshCarriesTheOps
  <2>1. Understood
    BY DEF ArrivesAsMeant, Heard
  <2>. QED
    BY <2>1 DEF Understood, Runs
<1>. QED
  BY <1>1, DocumentInvariant, PTL
=============================================================================
