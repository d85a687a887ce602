--------------------------- MODULE BridgeRunProofs ---------------------------
(***************************************************************************)
(* Proofs about BridgeRun: that a caller who has gone costs at most one    *)
(* more line, that what the forwarder prints and exits with is true of the *)
(* bridge, and that a forwarded run keeps RunContract, for sequences of    *)
(* any length, whichever end breaks and whenever.                          *)
(***************************************************************************)
EXTENDS BridgeRun, SequenceTheorems, FiniteSetTheorems, TLAPS

Events ==
  {StartEv, UnknownEv, MalformedEv}
    \cup [ev : {"result"}, line : Nat \ {0}, status : LineStatuses \cup {"ok", "warn", "err", "skip"},
          src : {"op", "cap", "release"}]
    \cup [ev : {"done"}, ok : Nat, err : Nat, skip : Nat]
    \cup [ev : {"abort"}, code : AbortCodes]
    \cup [ev : {"perms"}, granted : BOOLEAN]

-----------------------------------------------------------------------------
(* The invariant, part by part.                                            *)

\* The types.
Typed ==
  /\ n \in Nat /\ kg \in BOOLEAN /\ jsonl \in BOOLEAN /\ sameVersion \in BOOLEAN
  /\ asks \in {"run", "perms"} /\ platform \in {"darwin", "windows"} /\ longLine \in Nat
  /\ excess \in {"none", "buffered", "blocking"} /\ dropped \in BOOLEAN
  /\ at \in {"absent", "accept", "read", "start", "answer", "run", "close", "closed", "killed"}
  /\ ran \in Seq(Events) /\ out \in Seq(Events) /\ carried \in Nat /\ read \in Nat
  /\ cancelled \in BOOLEAN /\ serverOpen \in BOOLEAN /\ quit \in BOOLEAN /\ reader \in BOOLEAN
  /\ request \in {"undialed", "none", "part", "all"}
  /\ here \in {"dial", "send", "start", "first", "stream", "unknown", "ended", "exited", "killed"}

\* A request that did not decode got one line, and no start.
Refused == ran # <<>> /\ ran[1] = MalformedEv

\* How far the session has come is told by what it has written.
SessionPlace ==
  /\ here = "dial" => request = "undialed"
  /\ here = "send" => request \in {"none", "part"}
  /\ dropped => quit
  /\ at = "accept" => serverOpen
  /\ request = "undialed" => /\ at \in {"absent", "accept", "closed", "killed"}
                             /\ here \in {"dial", "ended", "exited", "killed"}
  /\ at \in {"absent", "accept", "read", "start"} \/ request = "undialed" => ran = <<>>
  /\ at = "answer" => ran = <<StartEv>>
  /\ at = "run" => ran # <<>> /\ asks = "run" /\ sameVersion
  /\ ran # <<>> => ran[1] = StartEv \/ Refused
  /\ Refused => Len(ran) = 1 /\ at \in {"close", "closed", "killed"}
  /\ \A i \in DOMAIN ran : Ends(ran[i]) => i = Len(ran) /\ at \in {"close", "closed", "killed"}

\* A write that found no caller is the last that was tried before the run is cancelled.
Carried ==
  /\ carried <= Len(ran)
  /\ ran # <<>> => carried > 0 \/ Refused
  /\ cancelled \/ carried < Len(ran) => ran # <<>> /\ ~Writable
  /\ at = "run" /\ ~cancelled => carried = Len(ran)

Executed(e) == IsLine(e) /\ e.status # "skip"
OneUnheard ==
  \A i, j \in (carried + 1)..Len(ran) : Executed(ran[i]) /\ Executed(ran[j]) => i = j

\* The session writes what the contract allows, event by event.
RanFollows ==
  /\ asks = "run" => Refused \/ \A i \in DOMAIN ran : Eng!Follows(SubSeq(ran, 1, i - 1), ran[i])
  /\ asks = "perms" => \A i \in DOMAIN ran : ran[i].ev \in {"malformed", "start", "abort", "perms"}
  /\ \A i \in DOMAIN ran : ran[i].ev = "perms" => asks = "perms"
  /\ \A i \in DOMAIN ran : ran[i].ev \in {"abort", "perms"} => i = 2
  /\ \A i \in DOMAIN ran : ran[i] # UnknownEv
  /\ \A i \in DOMAIN ran : ran[i] = AbortEv("E_CONNECT") => ~sameVersion

\* What the forwarder has printed, by where it stands.
OutFollows ==
  /\ read <= carried
  /\ here \in {"dial", "send", "start"} => read = 0
  /\ here = "first" => read = 1
  /\ here \in {"dial", "send", "start", "first"} => out = <<>>
  /\ here = "stream" => /\ read > 0 /\ Len(out) = read /\ asks = "run"
                        /\ Len(ran) > 1 /\ ran[2].ev \in {"result", "done"}
                        /\ \A i \in 1..read : out[i] = ran[i] /\ ~Ends(ran[i])
  /\ here = "unknown" => /\ out # <<>> /\ Len(out) <= Len(ran) /\ asks = "run" /\ Broke
                         /\ \A i \in DOMAIN out : out[i] = ran[i] /\ ~Ends(ran[i])
  /\ \A i \in DOMAIN out :
       IsResult(out[i]) => i <= Len(ran) /\ \A j \in 1..i : out[j] = ran[j]

\* Unless something broke or the request does not decode, a caller that waits
\* will find all there is to read.
NothingLost ==
  Alive /\ request # "undialed" /\ at # "killed" /\ ~quit /\ sameVersion /\ excess = "none" =>
    /\ carried = Len(ran)
    /\ request = "all" \/ (here = "send" /\ at \in {"accept", "read"})
    /\ at = "close" => ran # <<>> /\ Ends(ran[Len(ran)])
    /\ serverOpen \/ (at = "closed" /\ ran # <<>> /\ Ends(ran[Len(ran)]))

\* No line has run, nor will.
NoRun ==
  /\ \A i \in DOMAIN ran : ~IsResult(ran[i])
  /\ IF ran = <<>> THEN Gone ELSE Ends(ran[Len(ran)])

\* The last line printed is true.
TrueEnd(e) ==
  \/ e = UnknownEv /\ Broke
  \/ e = AbortEv("E_CONNECT") /\ Broke
  \/ e \in {AbortEv("E_VALIDATE"), AbortEv("E_SESSION")} /\ NoRun
  \/ e.ev = "perms" /\ asks = "perms"
  \/ e.ev = "done" /\ out = ran
Verdict ==
  /\ here \in {"ended", "exited"} => out # <<>> /\ TrueEnd(out[Len(out)])
  /\ here = "exited" => code = ExitFor(out[Len(out)])

BridgeInv ==
  /\ Typed /\ SessionPlace /\ Carried /\ OneUnheard
  /\ RanFollows /\ OutFollows /\ NothingLost /\ Verdict


-----------------------------------------------------------------------------
(* The engine's events.                                                    *)

LEMMA EventsMade ==
  /\ StartEv \in Events /\ UnknownEv \in Events /\ MalformedEv \in Events
  /\ \A c \in AbortCodes : AbortEv(c) \in Events
  /\ \A g \in BOOLEAN : PermsEv(g) \in Events
<1>1. \A c \in AbortCodes : AbortEv(c) \in Events
  BY DEF Events, AbortEv
<1>2. \A g \in BOOLEAN : PermsEv(g) \in [ev : {"perms"}, granted : BOOLEAN]
  BY Zenon DEF PermsEv
<1>. QED
  BY <1>1, <1>2 DEF Events

\* Positions counted.
LEMMA CountsAreNat ==
  ASSUME NEW s \in Seq(Events), NEW T \in SUBSET DOMAIN s
  PROVE  Cardinality(T) \in Nat
<1>1. IsFiniteSet(1..Len(s))
  BY FS_Interval
<1>. QED
  BY <1>1, FS_Subset, FS_CardinalityType

\* The instance counts as the module does.
LEMMA SameCount ==
  ASSUME NEW S
  PROVE  Eng!Cardinality(S) = Cardinality(S)
BY DEF Eng!Cardinality, Cardinality

LEMMA LinesCounted ==
  ASSUME NEW s \in Seq(Events)
  PROVE  Eng!LinesDone(s) \in Nat
<1>. DEFINE T == {i \in DOMAIN s : Eng!IsLine(s[i])}
<1>1. T \in SUBSET DOMAIN s
  OBVIOUS
<1>2. Cardinality(T) \in Nat
  BY <1>1, CountsAreNat
<1>. QED
  BY <1>2, SameCount DEF Eng!LinesDone

\* Each step of engine.Run writes one event, which the contract allows.
LEMMA EngineWrites ==
  ASSUME Typed, SessionPlace, at = "run", EngineResult
  PROVE  \E e \in Events : ran' = Append(ran, e) /\ IsResult(e) /\ Eng!Follows(ran, e)
<1>1. CASE Eng!Line
  <2>1. PICK e \in Eng!NextLine(ran) : ran' = ran \o <<e>>
    BY <1>1 DEF Eng!Line, Eng!Prints
  <2>2. e \in Events /\ IsResult(e)
    BY <2>1, LinesCounted DEF Eng!NextLine, Eng!ResultEv, Events, IsResult, Typed
  <2>3. Eng!Follows(ran, e)
    BY <1>1, <2>1 DEF Eng!Line, Eng!Follows, Eng!Started, Eng!Running
  <2>. QED
    BY <2>1, <2>2, <2>3 DEF Typed
<1>2. CASE Eng!ExtraCapture
  <2>1. PICK e \in Eng!Extra(ran) : ran' = ran \o <<e>>
    BY <1>2 DEF Eng!ExtraCapture, Eng!Prints
  <2>2. ran # <<>> /\ ran[Len(ran)] \in Events /\ IsResult(ran[Len(ran)])
    BY <1>2 DEF Typed, SessionPlace, Eng!ExtraCapture, Eng!FailedLast, Eng!IsLine, IsResult, Eng!Started
  <2>3. ran[Len(ran)].line \in Nat \ {0}
    BY <2>2 DEF Events, IsResult, StartEv, UnknownEv, MalformedEv
  <2>4. e \in Events /\ IsResult(e)
    BY <2>1, <2>3 DEF Eng!Extra, Eng!ResultEv, Events, IsResult
  <2>5. Eng!Follows(ran, e)
    BY <1>2, <2>1 DEF Eng!ExtraCapture, Eng!Follows, Eng!Started, Eng!Running
  <2>. QED
    BY <2>1, <2>4, <2>5 DEF Typed
<1>3. CASE Eng!AutoRelease(1)
  <2>1. PICK ls \in [1..1 -> 1..n] : ran' = ran \o Eng!Warns(ls)
    BY <1>3 DEF Eng!AutoRelease, Eng!Prints
  <2>2. ls[1] \in 1..n /\ Eng!Warns(ls) = <<Eng!ResultEv(ls[1], "warn", "release")>>
    BY <2>1 DEF Eng!Warns
  <2>3. Eng!ResultEv(ls[1], "warn", "release") \in Events /\ IsResult(Eng!ResultEv(ls[1], "warn", "release"))
    BY <2>2 DEF Eng!ResultEv, Events, IsResult, Typed
  <2>4. Eng!Follows(ran, Eng!ResultEv(ls[1], "warn", "release"))
    BY <1>3, <2>2 DEF Eng!AutoRelease, Eng!Follows, Eng!Started, Eng!Running
  <2>. QED
    BY <2>1, <2>2, <2>3, <2>4 DEF Typed
<1>. QED
  BY <1>1, <1>2, <1>3 DEF EngineResult

\* Its return writes the totals.
LEMMA EngineEnds ==
  ASSUME Typed, SessionPlace, at = "run", Eng!Done
  PROVE  \E e \in Events : ran' = Append(ran, e) /\ e.ev = "done" /\ Eng!Follows(ran, e)
<1>1. ran' = Append(ran, Eng!TrueDone(ran)) /\ Eng!Follows(ran, Eng!TrueDone(ran))
  BY DEF Eng!Done, Eng!Prints, Eng!Follows, Eng!Started, Eng!Running, Typed
<1>2. ASSUME NEW S PROVE Eng!Counted(ran, S) \in Nat
  <2>. DEFINE T == {i \in DOMAIN ran : Eng!IsResult(ran[i]) /\ ran[i].src # "release"
                                        /\ ran[i].status \in S}
  <2>1. T \in SUBSET DOMAIN ran
    OBVIOUS
  <2>2. Cardinality(T) \in Nat
    BY <2>1, CountsAreNat DEF Typed
  <2>. QED
    BY <2>2, SameCount DEF Eng!Counted
<1>3. Eng!TrueDone(ran) \in Events /\ Eng!TrueDone(ran).ev = "done"
  BY <1>2 DEF Eng!TrueDone, Eng!DoneEv, Events
<1>. QED
  BY <1>1, <1>3


\* What Handle writes next, and what becomes of the session.
SessionWrites(e) ==
  /\ ran' = Append(ran, e) /\ carried' = IF Writable THEN carried + 1 ELSE carried
  /\ UNCHANGED <<call, serverOpen, quit, dropped, forwarder>>
  /\ \/ /\ at = "start" /\ at' = "answer" /\ Writable
        /\ e = StartEv /\ UNCHANGED cancelled
     \/ /\ at = "answer" /\ at' = "close" /\ UNCHANGED cancelled
        /\ \/ e = AbortEv("E_CONNECT") /\ ~sameVersion
           \/ asks = "perms" /\ e \in {AbortEv("E_VALIDATE"), PermsEv(TRUE), PermsEv(FALSE)}
     \/ /\ at = "run" /\ at' = "run" /\ IsResult(e) /\ Eng!Follows(ran, e)
        /\ cancelled /\ IsLine(e) => e.status = "skip"
        /\ cancelled' = (cancelled \/ ~Writable)
     \/ /\ at = "run" /\ at' = "close" /\ UNCHANGED cancelled
        /\ \/ e.ev = "done" /\ Eng!Follows(ran, e)
           \/ e = AbortEv("E_SESSION") /\ ran = <<StartEv>>

\* A caller that has gone by now gets no run; one that has not, gets it.
GivesUp   == ~Writable /\ HandleStep("start", "close")
             /\ UNCHANGED <<ran, carried, cancelled, serverOpen>>
BeginsRun == sameVersion /\ asks = "run" /\ HandleStep("answer", "run")
             /\ UNCHANGED <<ran, carried, cancelled, serverOpen>>
\* A request is read, or is not there to be read.
ReadsOn   == /\ \/ HandleStep("read", "start") /\ request = "all" /\ excess = "none" /\ serverOpen
                \/ HandleStep("read", "close") /\ (~serverOpen \/ (request = "none" /\ ~CallerOpen))
             /\ UNCHANGED <<ran, carried, cancelled, serverOpen>>
Stands    == GivesUp \/ BeginsRun \/ Accept \/ ReadsOn \/ CloseConn \/ Quit \/ KillBridge

\* Or does not decode.
Refuses   == /\ at = "read" /\ at' = "close" /\ Undecodable /\ ran' = <<MalformedEv>>
             /\ carried' = IF Writable THEN carried + 1 ELSE carried
             /\ UNCHANGED <<call, quit, dropped, forwarder, cancelled, serverOpen>>

\* The steps of Next, those that write to the connection by what they write.
LEMMA StepCases ==
  ASSUME Typed, SessionPlace, [Next]_bridgeVars
  PROVE  \/ \E e \in Events : SessionWrites(e)
         \/ Refuses
         \/ Stands \/ Forward \/ ReaderLeaves \/ KillForwarder \/ UNCHANGED bridgeVars
<1>1. CASE WriteStart
  BY <1>1, EventsMade DEF WriteStart, HandleStep, Sends, Carries, SessionWrites, Stands, GivesUp
<1>2. CASE Answer
  <2>1. \A e : e \in {AbortEv("E_CONNECT"), AbortEv("E_VALIDATE"), PermsEv(TRUE), PermsEv(FALSE)}
               => e \in Events
    BY EventsMade DEF AbortCodes
  <2>. QED
    BY <1>2, <2>1 DEF Answer, HandleStep, Sends, Carries, SessionWrites, Stands, BeginsRun
<1>3. CASE EngineStep
  <2>1. PICK e \in Events : ran' = Append(ran, e) /\ IsResult(e) /\ Eng!Follows(ran, e)
    BY <1>3, EngineWrites DEF EngineStep, HandleStep
  <2>2. Last(ran') = e
    BY <2>1 DEF Last, Typed
  <2>3. SessionWrites(e)
    BY <1>3, <2>1, <2>2 DEF EngineStep, HandleStep, Carries, SessionWrites
  <2>. QED
    BY <2>3
<1>4. CASE EngineReturns
  <2>1. CASE Eng!Done
    <3>1. PICK e \in Events : ran' = Append(ran, e) /\ e.ev = "done" /\ Eng!Follows(ran, e)
      BY <1>4, <2>1, EngineEnds DEF EngineReturns, HandleStep
    <3>2. SessionWrites(e)
      BY <1>4, <3>1 DEF EngineReturns, HandleStep, Carries, Sends, SessionWrites
    <3>. QED
      BY <3>2
  <2>2. CASE ran = <<StartEv>> /\ Sends(AbortEv("E_SESSION"))
    <3>1. AbortEv("E_SESSION") \in Events
      BY EventsMade DEF AbortCodes
    <3>2. SessionWrites(AbortEv("E_SESSION"))
      BY <1>4, <2>2 DEF EngineReturns, HandleStep, Carries, Sends, SessionWrites
    <3>. QED
      BY <3>1, <3>2
  <2>. QED
    BY <1>4, <2>1, <2>2 DEF EngineReturns
<1>5. CASE ReadRequest
  <2>1. at = "read" => ran = <<>>
    BY DEF SessionPlace
  <2>2. CASE HandleStep("read", "close") /\ Undecodable /\ Sends(MalformedEv)
                /\ UNCHANGED <<cancelled, serverOpen>>
    <3>1. ran' = <<MalformedEv>>
      BY <2>1, <2>2 DEF HandleStep, Sends
    <3>. QED
      BY <2>2, <3>1 DEF HandleStep, Sends, Carries, Refuses
  <2>. QED
    BY <1>5, <2>2, Zenon DEF ReadRequest, ReadsOn, Stands
<1>. QED
  BY <1>1, <1>2, <1>3, <1>4, <1>5 DEF Next, Handle, Over, Stands

-----------------------------------------------------------------------------
(* Each part of the invariant is kept by every step.                       *)

\* What the forwarder prints is events.
LEMMA ReadIsEvent ==
  ASSUME Typed, Carried, Ready
  PROVE  Incoming \in Events /\ (Incoming.ev = "abort" => Incoming.code \in AbortCodes)
<1>1. Incoming \in Events
  BY DEF Typed, Carried, Ready, Incoming
<1>. QED
  BY <1>1 DEF Events, StartEv, UnknownEv, MalformedEv

LEMMA WritesTyped ==
  ASSUME Typed, NEW evs \in Seq(Events), NEW next, Writes(evs, next)
  PROVE  out' \in Seq(Events) /\ here' \in {next, "killed"}
<1>1. (out' = out \o evs /\ here' = next) \/ (out' = out /\ here' = "killed")
  BY Zenon DEF Writes
<1>2. out \in Seq(Events)
  BY DEF Typed
<1>3. out \o evs \in Seq(Events)
  BY <1>2, ConcatProperties
<1>. QED
  BY <1>1, <1>2, <1>3

LEMMA AbortsTyped ==
  ASSUME Typed, NEW c \in AbortCodes, Aborts(c)
  PROVE  out' \in Seq(Events) /\ here' \in {"ended", "killed"}
<1>1. AbortEv(c) \in Events /\ StartEv \in Events
  BY EventsMade
<1>2. <<StartEv, AbortEv(c)>> \in Seq(Events)
  BY <1>1
<1>3. CASE Writes(<<StartEv, AbortEv(c)>>, "ended")
  BY <1>2, <1>3, WritesTyped
<1>4. CASE out' = Append(out, AbortEv(c)) /\ here' = "ended"
  BY <1>1, <1>4 DEF Typed
<1>. QED
  BY <1>3, <1>4, Zenon DEF Aborts

LEMMA ForwardTyped ==
  ASSUME Typed, Carried, Forward
  PROVE  /\ out' \in Seq(Events) /\ read' \in Nat
         /\ request' \in {"undialed", "none", "part", "all"}
         /\ here' \in {"send", "start", "first", "stream", "unknown", "ended", "exited", "killed"}
         /\ UNCHANGED <<call, session, serverOpen, quit, dropped, reader>>
<1>1. CASE Dial \/ Send
  BY <1>1, AbortsTyped DEF Dial, Send, ForwarderStep, Typed, AbortCodes
<1>2. CASE DiscardStart
  BY <1>2, AbortsTyped DEF DiscardStart, ForwarderStep, Typed, AbortCodes
<1>3. CASE FirstLine
  <2>. UNCHANGED <<request, read>> /\ UNCHANGED <<call, session, serverOpen, quit, dropped, reader>>
    BY <1>3 DEF FirstLine, ForwarderStep
  <2>. SUFFICES out' \in Seq(Events) /\ here' \in {"ended", "stream", "killed"}
    BY DEF Typed
  <2>1. CASE Ready /\ Writes((IF jsonl THEN <<StartEv>> ELSE <<>>) \o <<Incoming>>, "ended")
    <3>1. (IF jsonl THEN <<StartEv>> ELSE <<>>) \o <<Incoming>> \in Seq(Events)
      BY <2>1, ReadIsEvent, EventsMade
    <3>. QED
      BY <2>1, <3>1, WritesTyped
  <2>2. CASE Ready /\ Incoming.ev = "abort" /\ Aborts(Incoming.code)
    BY <2>2, ReadIsEvent, AbortsTyped
  <2>3. CASE Writes(<<StartEv>>, "stream")
    <3>1. <<StartEv>> \in Seq(Events)
      BY EventsMade
    <3>. QED
      BY <2>3, <3>1, WritesTyped
  <2>4. CASE Aborts("E_CONNECT")
    BY <2>4, AbortsTyped DEF AbortCodes
  <2>. QED
    BY <1>3, <2>1, <2>2, <2>3, <2>4, Zenon DEF FirstLine
<1>4. CASE Relay
  <2>1. Incoming \in Events
    BY <1>4, ReadIsEvent DEF Relay
  <2>2. \/ out' = out /\ here' \in {"unknown", "killed"}
        \/ out' = out \o <<Incoming>> /\ here' \in {"ended", "stream", "killed"}
    BY <1>4, Zenon DEF Relay, Relays, Writes
  <2>3. out' \in Seq(Events)
    BY <2>1, <2>2 DEF Typed
  <2>. QED
    BY <1>4, <2>2, <2>3 DEF Relay, ForwarderStep, Typed
<1>5. CASE BridgeLost \/ Return
  BY <1>5 DEF BridgeLost, Return, ForwarderStep, Typed
<1>6. CASE StateUnknown
  <2>1. <<UnknownEv>> \in Seq(Events)
    BY EventsMade
  <2>2. out' \in Seq(Events) /\ here' \in {"ended", "killed"}
    BY <1>6, <2>1, WritesTyped DEF StateUnknown
  <2>. QED
    BY <1>6, <2>2 DEF StateUnknown, ForwarderStep, Typed
<1>. QED
  BY <1>1, <1>2, <1>3, <1>4, <1>5, <1>6 DEF Forward

LEMMA KeepTyped ==
  ASSUME Typed, SessionPlace, Carried, [Next]_bridgeVars
  PROVE  Typed'
<1>. USE DEF Typed, call, session, forwarder
<1>1. CASE \E e \in Events : SessionWrites(e)
  <2>1. ran' \in Seq(Events) /\ carried' \in Nat
    BY <1>1 DEF SessionWrites
  <2>2. cancelled' \in BOOLEAN
    BY <1>1 DEF SessionWrites
  <2>3. at' \in {"answer", "close", "run"}
    BY <1>1 DEF SessionWrites
  <2>. QED
    BY <1>1, <2>1, <2>2, <2>3 DEF SessionWrites
<1>2. CASE Forward
  BY <1>2, ForwardTyped
<1>3. CASE Stands
  <2>1. CASE Quit
    <3>1. dropped' \in BOOLEAN /\ serverOpen' \in BOOLEAN
      BY <2>1, Zenon DEF Quit
    <3>. QED
      BY <3>1, <2>1 DEF Quit
  <2>2. CASE KillBridge
    <3>1. serverOpen' \in BOOLEAN
      BY <2>2, Zenon DEF KillBridge
    <3>. QED
      BY <3>1, <2>2 DEF KillBridge
  <2>3. CASE CloseConn
    <3>1. serverOpen' \in BOOLEAN
      BY <2>3, Zenon DEF CloseConn
    <3>. QED
      BY <3>1, <2>3 DEF CloseConn, HandleStep
  <2>4. CASE GivesUp \/ BeginsRun \/ Accept \/ ReadsOn
    BY <2>4 DEF GivesUp, BeginsRun, Accept, ReadsOn, HandleStep
  <2>. QED
    BY <1>3, <2>1, <2>2, <2>3, <2>4 DEF Stands
<1>4. CASE ReaderLeaves \/ KillForwarder \/ UNCHANGED bridgeVars
  <2>1. CASE ReaderLeaves
    <3>1. reader' \in BOOLEAN
      BY <2>1, Zenon DEF ReaderLeaves
    <3>. QED
      BY <3>1, <2>1 DEF ReaderLeaves
  <2>2. CASE KillForwarder
    BY <2>2 DEF KillForwarder
  <2>3. CASE UNCHANGED bridgeVars
    BY <2>3 DEF bridgeVars
  <2>. QED
    BY <1>4, <2>1, <2>2, <2>3
<1>5. CASE Refuses
  <2>1. MalformedEv \in Events
    BY EventsMade
  <2>2. carried' \in Nat
    BY <1>5 DEF Refuses
  <2>. QED
    BY <1>5, <2>1, <2>2 DEF Refuses
<1>. QED
  BY StepCases, <1>1, <1>2, <1>3, <1>4, <1>5

\* One more event.
LEMMA Appended ==
  ASSUME NEW s \in Seq(Events), NEW e \in Events, NEW t, t = Append(s, e)
  PROVE  /\ t \in Seq(Events) /\ Len(t) = Len(s) + 1 /\ t # <<>>
         /\ t[Len(t)] = e /\ \A i \in 1..Len(s) : t[i] = s[i]
         /\ \A i \in DOMAIN t : i = Len(t) \/ i \in 1..Len(s)
OBVIOUS

\* The session's place.
LEMMA KeepSessionPlace ==
  ASSUME BridgeInv, [Next]_bridgeVars
  PROVE  SessionPlace'
<1>. USE DEF BridgeInv, Typed, SessionPlace, Refused, call, session, forwarder
<1>1. CASE \E e \in Events : SessionWrites(e)
  <2>1. PICK e \in Events : SessionWrites(e)
    BY <1>1
  <2>2. ran' = Append(ran, e)
    BY <2>1 DEF SessionWrites
  <2>3. ran # <<>> => ran'[1] = ran[1]
    BY <2>2
  <2>4. ran = <<>> => ran' = <<e>>
    BY <2>2
  <2>5. Ends(e) => at' = "close"
    <3>1. at' = "close" \/ e = StartEv \/ IsResult(e)
      BY <2>1 DEF SessionWrites
    <3>. QED
      BY <3>1 DEF Ends, IsResult, StartEv
  <2>6. at' \in {"answer", "run", "close"} /\ at \in {"start", "answer", "run"} /\ request # "undialed"
    BY <2>1 DEF SessionWrites
  <2>10. ran # <<>> => ran[1] = StartEv
    BY <2>6
  <2>11. StartEv # MalformedEv
    BY DEF StartEv, MalformedEv
  <2>7. \A i \in 1..Len(ran) : ~Ends(ran[i])
    BY <2>6
  <2>8. \A i \in DOMAIN ran' : Ends(ran'[i]) => i = Len(ran') /\ at' = "close"
    BY <2>2, <2>5, <2>7, Appended
  <2>9. ran' # <<>> /\ ran'[1] = StartEv /\ (at' = "answer" => ran' = <<StartEv>>)
    <3>2. at # "start" => ran # <<>>
      BY <2>6
    <3>3. at = "start" => ran = <<>> /\ e = StartEv
      BY <2>1 DEF SessionWrites
    <3>1. (ran = <<>> => e = StartEv) /\ (at' = "answer" => ran = <<>> /\ e = StartEv)
      BY <2>1, <2>6, <3>2, <3>3 DEF SessionWrites
    <3>. QED
      BY <2>2, <2>3, <2>4, <2>10, <3>1
  <2>. QED
    BY <2>1, <2>6, <2>8, <2>9, <2>11 DEF SessionWrites
<1>2. CASE GivesUp
  BY <1>2 DEF GivesUp, HandleStep
<1>3. CASE BeginsRun
  <2>1. ran = <<StartEv>>
    BY <1>3 DEF BeginsRun, HandleStep
  <2>2. ran # <<>>
    BY <2>1
  <2>3. asks = "run" /\ sameVersion
    BY <1>3 DEF BeginsRun
  <2>. QED
    BY <1>3, <2>2, <2>3 DEF BeginsRun, HandleStep
<1>4. CASE Accept
  BY <1>4 DEF Accept, HandleStep
<1>5. CASE ReadsOn
  BY <1>5 DEF ReadsOn, HandleStep
<1>6. CASE CloseConn
  BY <1>6 DEF CloseConn, HandleStep
<1>7. CASE Quit
  BY <1>7 DEF Quit
<1>8. CASE KillBridge
  BY <1>8 DEF KillBridge
<1>9. CASE Dial
  BY <1>9 DEF Dial, ForwarderStep, Aborts, Writes
<1>10. CASE Send
  BY <1>10 DEF Send, ForwarderStep, Aborts, Writes
<1>11. CASE DiscardStart
  BY <1>11 DEF DiscardStart, ForwarderStep, Aborts, Writes
<1>12. CASE FirstLine
  BY <1>12 DEF FirstLine, ForwarderStep, Aborts, Writes
<1>13. CASE Relay
  BY <1>13 DEF Relay, ForwarderStep, Relays, Writes
<1>14. CASE BridgeLost
  BY <1>14 DEF BridgeLost, ForwarderStep
<1>15. CASE StateUnknown
  BY <1>15 DEF StateUnknown, ForwarderStep, Writes
<1>16. CASE Return
  BY <1>16 DEF Return, ForwarderStep
<1>17. CASE ReaderLeaves
  BY <1>17 DEF ReaderLeaves
<1>18. CASE KillForwarder
  BY <1>18 DEF KillForwarder
<1>19. CASE UNCHANGED bridgeVars
  BY <1>19 DEF bridgeVars
<1>20. CASE Refuses
  <2>1. ran' # <<>> /\ Len(ran') = 1 /\ ran'[1] = MalformedEv /\ DOMAIN ran' = 1..1
    BY <1>20 DEF Refuses
  <2>2. ~Ends(MalformedEv)
    BY DEF Ends, MalformedEv
  <2>. QED
    BY <1>20, <2>1, <2>2 DEF Refuses
<1>. QED
  BY StepCases, <1>1, <1>2, <1>3, <1>4, <1>5, <1>6, <1>7, <1>8, <1>9,
     <1>10, <1>11, <1>12, <1>13, <1>14, <1>15, <1>16, <1>17, <1>18, <1>19, <1>20
     DEF Stands, Forward, BridgeInv

\* A caller that has gone, or a bridge that has, does not come back.
LEMMA StaysUnheard ==
  ASSUME BridgeInv, ran # <<>>, [Next]_bridgeVars
  PROVE  Writable' => Writable
<1>. USE DEF BridgeInv, Typed, SessionPlace, Writable, CallerOpen, Alive, call, session, forwarder
<1>1. CASE \E e \in Events : SessionWrites(e)
  BY <1>1 DEF SessionWrites
<1>2. CASE GivesUp
  BY <1>2 DEF GivesUp, HandleStep
<1>3. CASE BeginsRun
  BY <1>3 DEF BeginsRun, HandleStep
<1>4. CASE Accept
  BY <1>4 DEF Accept, HandleStep
<1>5. CASE ReadsOn
  BY <1>5 DEF ReadsOn, HandleStep
<1>6. CASE CloseConn
  BY <1>6 DEF CloseConn, HandleStep
<1>7. CASE Quit
  BY <1>7 DEF Quit
<1>8. CASE KillBridge
  BY <1>8 DEF KillBridge
<1>9. CASE Dial
  BY <1>9 DEF Dial, ForwarderStep, Aborts, Writes
<1>10. CASE Send
  BY <1>10 DEF Send, ForwarderStep, Aborts, Writes
<1>11. CASE DiscardStart
  BY <1>11 DEF DiscardStart, ForwarderStep, Aborts, Writes
<1>12. CASE FirstLine
  <2>1. here = "first" /\ UNCHANGED serverOpen
    BY <1>12 DEF FirstLine, ForwarderStep
  <2>. QED
    BY <2>1
<1>13. CASE Relay
  BY <1>13 DEF Relay, ForwarderStep, Relays, Writes
<1>14. CASE BridgeLost
  BY <1>14 DEF BridgeLost, ForwarderStep
<1>15. CASE StateUnknown
  BY <1>15 DEF StateUnknown, ForwarderStep, Writes
<1>16. CASE Return
  BY <1>16 DEF Return, ForwarderStep
<1>17. CASE ReaderLeaves
  BY <1>17 DEF ReaderLeaves
<1>18. CASE KillForwarder
  BY <1>18 DEF KillForwarder
<1>19. CASE UNCHANGED bridgeVars
  BY <1>19 DEF bridgeVars
<1>20. CASE Refuses
  BY <1>20 DEF Refuses
<1>. QED
  BY StepCases, <1>1, <1>2, <1>3, <1>4, <1>5, <1>6, <1>7, <1>8, <1>9,
     <1>10, <1>11, <1>12, <1>13, <1>14, <1>15, <1>16, <1>17, <1>18, <1>19, <1>20
     DEF Stands, Forward, BridgeInv
\* What entered the connection.
LEMMA KeepCarried ==
  ASSUME BridgeInv, [Next]_bridgeVars
  PROVE  Carried'
<1>. USE StaysUnheard DEF BridgeInv, Typed, Carried, Refused, call, session, forwarder
<1>1. CASE \E e \in Events : SessionWrites(e)
  <2>1. PICK e \in Events : SessionWrites(e)
    BY <1>1
  <2>2. ran' = Append(ran, e)
    BY <2>1 DEF SessionWrites
  <2>3. Len(ran') = Len(ran) + 1 /\ ran' # <<>>
    BY <2>2, Appended
  <2>4. CASE Writable
    <3>1. carried = Len(ran) /\ ~cancelled
      BY <2>4
    <3>2. carried' = Len(ran') /\ carried' > 0
      BY <2>1, <2>3, <2>4, <3>1 DEF SessionWrites
    <3>3. ~cancelled'
      BY <2>1, <2>4, <3>1 DEF SessionWrites
    <3>. QED
      BY <3>2, <3>3
  <2>5. CASE ~Writable
    <3>1. carried' = carried /\ at \in {"answer", "run"}
      BY <2>1, <2>5 DEF SessionWrites
    <3>2. ran # <<>>
      BY <3>1 DEF SessionPlace
    <3>3. ~Writable'
      BY <2>5, <3>2
    <3>4. at' = "run" => cancelled'
      BY <2>1, <2>5 DEF SessionWrites
    <3>5. carried > 0
      BY <3>1, <3>2 DEF SessionPlace
    <3>. QED
      BY <2>3, <3>1, <3>2, <3>3, <3>4, <3>5
  <2>. QED
    BY <2>4, <2>5
<1>2. CASE GivesUp
  BY <1>2 DEF GivesUp, HandleStep
<1>3. CASE BeginsRun
  <2>1. ran = <<StartEv>>
    BY <1>3 DEF BeginsRun, HandleStep, SessionPlace
  <2>2. Len(ran) = 1 /\ ran # <<>> /\ ran[1] = StartEv
    BY <2>1
  <2>3. carried = Len(ran)
    BY <2>2 DEF StartEv, MalformedEv
  <2>. QED
    BY <1>3, <2>2, <2>3 DEF BeginsRun, HandleStep
<1>4. CASE Accept
  BY <1>4 DEF Accept, HandleStep
<1>5. CASE ReadsOn
  BY <1>5 DEF ReadsOn, HandleStep
<1>6. CASE CloseConn
  BY <1>6 DEF CloseConn, HandleStep
<1>7. CASE Quit
  BY <1>7 DEF Quit
<1>8. CASE KillBridge
  BY <1>8 DEF KillBridge
<1>9. CASE Dial
  BY <1>9 DEF Dial, ForwarderStep, Aborts, Writes
<1>10. CASE Send
  BY <1>10 DEF Send, ForwarderStep, Aborts, Writes
<1>11. CASE DiscardStart
  BY <1>11 DEF DiscardStart, ForwarderStep, Aborts, Writes
<1>12. CASE FirstLine
  BY <1>12 DEF FirstLine, ForwarderStep, Aborts, Writes
<1>13. CASE Relay
  BY <1>13 DEF Relay, ForwarderStep, Relays, Writes
<1>14. CASE BridgeLost
  BY <1>14 DEF BridgeLost, ForwarderStep
<1>15. CASE StateUnknown
  BY <1>15 DEF StateUnknown, ForwarderStep, Writes
<1>16. CASE Return
  BY <1>16 DEF Return, ForwarderStep
<1>17. CASE ReaderLeaves
  BY <1>17 DEF ReaderLeaves
<1>18. CASE KillForwarder
  BY <1>18 DEF KillForwarder
<1>19. CASE UNCHANGED bridgeVars
  BY <1>19 DEF bridgeVars
<1>20. CASE Refuses
  <2>1. ran = <<>> /\ carried = 0 /\ ~cancelled
    BY <1>20 DEF Refuses, SessionPlace
  <2>2. Len(ran') = 1 /\ ran' # <<>> /\ ran'[1] = MalformedEv
    BY <1>20 DEF Refuses
  <2>3. Writable' <=> Writable
    BY <1>20 DEF Refuses, Writable, CallerOpen, Alive
  <2>. QED
    BY <1>20, <2>1, <2>2, <2>3 DEF Refuses, Refused
<1>. QED
  BY StepCases, <1>1, <1>2, <1>3, <1>4, <1>5, <1>6, <1>7, <1>8, <1>9,
     <1>10, <1>11, <1>12, <1>13, <1>14, <1>15, <1>16, <1>17, <1>18, <1>19, <1>20
     DEF Stands, Forward, BridgeInv

\* Steps that write nothing leave the record alone.
LEMMA RanKept ==
  ASSUME Typed, Stands \/ Forward \/ ReaderLeaves \/ KillForwarder \/ UNCHANGED bridgeVars
  PROVE  UNCHANGED <<ran, carried, cancelled>> /\ UNCHANGED call
<1>1. CASE Stands
  BY <1>1 DEF Stands, GivesUp, BeginsRun, Accept, ReadsOn, CloseConn, HandleStep, Quit, KillBridge
<1>2. CASE Forward
  BY <1>2 DEF Forward, Dial, Send, DiscardStart, FirstLine, Relay, BridgeLost, StateUnknown,
              Return, ForwarderStep, session
<1>3. CASE ReaderLeaves \/ KillForwarder \/ UNCHANGED bridgeVars
  BY <1>3 DEF ReaderLeaves, KillForwarder, bridgeVars, session
<1>. QED
  BY <1>1, <1>2, <1>3

\* A line that no caller heard of.
LEMMA KeepOneUnheard ==
  ASSUME BridgeInv, [Next]_bridgeVars
  PROVE  OneUnheard'
<1>. USE DEF BridgeInv
<1>1. CASE UNCHANGED <<ran, carried, cancelled>>
  BY <1>1 DEF OneUnheard, Executed, IsLine
<1>2. ASSUME NEW e \in Events, SessionWrites(e) PROVE OneUnheard'
  <2>1. ran' = Append(ran, e)
    BY <1>2 DEF SessionWrites
  <2>2. /\ Len(ran) \in Nat /\ Len(ran') = Len(ran) + 1 /\ ran'[Len(ran')] = e
        /\ \A i \in 1..Len(ran) : ran'[i] = ran[i]
    BY <2>1, Appended DEF Typed
  <2>3. carried \in Nat /\ carried <= Len(ran)
    BY DEF Typed, Carried
  <2>4. CASE carried = Len(ran)
    <3>1. carried' \in {carried, carried + 1}
      BY <1>2 DEF SessionWrites
    <3>2. \A i \in (carried' + 1)..Len(ran') : i = Len(ran')
      <4>1. Len(ran') = carried + 1
        BY <2>2, <2>4
      <4>2. CASE carried' = carried
        BY <2>3, <4>1, <4>2
      <4>3. CASE carried' = carried + 1
        BY <2>3, <4>1, <4>3
      <4>. QED
        BY <3>1, <4>2, <4>3
    <3>. QED
      BY <3>2 DEF OneUnheard
  <2>5. CASE carried # Len(ran)
    <3>1. ~Writable
      BY <2>3, <2>5 DEF Carried
    <3>2. carried' = carried
      BY <1>2, <3>1 DEF SessionWrites
    <3>3. ~Executed(e)
      <4>1. at = "run" => cancelled
        BY <2>5 DEF Carried
      <4>2. IsResult(e) => at = "run" /\ at' = "run"
        BY <1>2 DEF SessionWrites, IsResult, StartEv, AbortEv, PermsEv
      <4>3. at = "run" /\ at' = "run" => (cancelled /\ IsLine(e) => e.status = "skip")
        BY <1>2 DEF SessionWrites
      <4>. QED
        BY <4>1, <4>2, <4>3 DEF Executed, IsLine, IsResult
    <3>4. \A i \in (carried' + 1)..Len(ran') : Executed(ran'[i]) =>
            i \in (carried + 1)..Len(ran) /\ Executed(ran[i])
      BY <2>2, <2>3, <3>2, <3>3
    <3>. QED
      BY <3>4 DEF OneUnheard, Executed, IsLine
  <2>. QED
    BY <2>4, <2>5
<1>3. CASE Refuses
  <2>2. carried' = carried \/ carried' = carried + 1
    BY <1>3, Zenon DEF Refuses
  <2>1. Len(ran') = 1
    BY <1>3 DEF Refuses
  <2>4. carried' \in Nat
    BY <2>2 DEF Typed
  <2>5. \A c \in Nat : \A i \in (c + 1)..1 : i = 1
    OBVIOUS
  <2>3. \A i \in (carried' + 1)..1 : i = 1
    BY <2>4, <2>5, Zenon
  <2>. QED
    BY <2>1, <2>3 DEF OneUnheard
<1>. QED
  BY <1>1, <1>2, <1>3, StepCases, RanKept

\* What may follow depends on the request alone.
LEMMA FollowsStays ==
  ASSUME UNCHANGED call, NEW s, NEW e
  PROVE  Eng!Follows(s, e)' <=> Eng!Follows(s, e)
<1>1. n' = n /\ kg' = kg
  BY DEF call
<1>2. Eng!AllDone(s)' <=> Eng!AllDone(s)
  BY <1>1 DEF Eng!AllDone
<1>3. Eng!NextLine(s)' = Eng!NextLine(s)
  BY <1>1 DEF Eng!NextLine, Eng!MustSkip
<1>. QED
  BY <1>1, <1>2, <1>3 DEF Eng!Follows

\* The events before the i-th.
LEMMA Before ==
  ASSUME NEW s \in Seq(Events), NEW e \in Events, NEW t, t = Append(s, e)
  PROVE  /\ \A i \in 1..Len(s) : SubSeq(t, 1, i - 1) = SubSeq(s, 1, i - 1)
         /\ SubSeq(t, 1, Len(t) - 1) = s
OBVIOUS

\* An abort ends a session that has written no result.
LEMMA AbortFollows ==
  ASSUME Typed, NEW c \in AbortCodes
  PROVE  Eng!Follows(<<StartEv>>, AbortEv(c))
BY DEF Eng!Follows, Eng!Open, Eng!Ends, Eng!NoResultYet, Eng!StartEv, StartEv,
       Eng!AbortEv, AbortEv, Eng!AbortCodes, AbortCodes

LEMMA WritesFollow ==
  ASSUME Typed, SessionPlace, NEW e \in Events, SessionWrites(e)
  PROVE  /\ asks = "run" => Eng!Follows(ran, e)
         /\ asks = "perms" => e.ev \in {"start", "abort", "perms"}
         /\ e.ev = "perms" => asks = "perms"
         /\ e.ev \in {"abort", "perms"} => Len(ran) = 1
         /\ e # UnknownEv
         /\ e = AbortEv("E_CONNECT") => ~sameVersion
<1>1. CASE at = "start"
  <2>1. e = StartEv /\ ran = <<>>
    BY <1>1 DEF SessionWrites, SessionPlace
  <2>. QED
    BY <2>1 DEF Eng!Follows, Eng!StartEv, StartEv, AbortEv, UnknownEv
<1>2. CASE at = "answer"
  <2>1. ran = <<StartEv>>
    BY <1>2 DEF SessionPlace
  <2>2. \/ e = AbortEv("E_CONNECT") /\ ~sameVersion
        \/ asks = "perms" /\ e \in {AbortEv("E_VALIDATE"), PermsEv(TRUE), PermsEv(FALSE)}
    BY <1>2 DEF SessionWrites
  <2>3. Eng!Follows(ran, AbortEv("E_CONNECT"))
    BY <2>1, AbortFollows DEF AbortCodes
  <2>. QED
    BY <2>1, <2>2, <2>3 DEF AbortEv, PermsEv, UnknownEv
<1>3. CASE at = "run"
  <2>1. asks = "run"
    BY <1>3 DEF SessionPlace
  <2>2. CASE e.ev \in {"result", "done"} /\ Eng!Follows(ran, e)
    BY <2>1, <2>2 DEF AbortEv, UnknownEv
  <2>3. CASE e = AbortEv("E_SESSION") /\ ran = <<StartEv>>
    <3>1. Eng!Follows(ran, AbortEv("E_SESSION"))
      BY <2>3, AbortFollows DEF AbortCodes
    <3>. QED
      BY <2>1, <2>3, <3>1 DEF AbortEv, UnknownEv
  <2>. QED
    BY <1>3, <2>2, <2>3 DEF SessionWrites, IsResult
<1>. QED
  BY <1>1, <1>2, <1>3 DEF SessionWrites

\* The session keeps the contract.
LEMMA KeepRanFollows ==
  ASSUME BridgeInv, [Next]_bridgeVars
  PROVE  RanFollows'
<1>. USE DEF BridgeInv
<1>1. CASE UNCHANGED <<ran, carried, cancelled>> /\ UNCHANGED call
  BY <1>1, FollowsStays DEF RanFollows, Refused, call
<1>2. ASSUME NEW e \in Events, SessionWrites(e) PROVE RanFollows'
  <2>1. ran' = Append(ran, e) /\ UNCHANGED call /\ asks' = asks /\ sameVersion' = sameVersion
    BY <1>2 DEF SessionWrites, call
  <2>2. /\ Len(ran) \in Nat /\ Len(ran') = Len(ran) + 1 /\ ran'[Len(ran')] = e
        /\ \A i \in 1..Len(ran) : ran'[i] = ran[i]
        /\ \A i \in DOMAIN ran' : i = Len(ran') \/ i \in 1..Len(ran)
    BY <2>1, Appended DEF Typed
  <2>3. /\ \A i \in 1..Len(ran) : SubSeq(ran', 1, i - 1) = SubSeq(ran, 1, i - 1)
        /\ SubSeq(ran', 1, Len(ran') - 1) = ran
    BY <2>1, Before DEF Typed
  <2>4. asks = "run" => \A i \in DOMAIN ran' : Eng!Follows(SubSeq(ran', 1, i - 1), ran'[i])
    <3>. SUFFICES ASSUME asks = "run", NEW i \in DOMAIN ran'
                  PROVE  Eng!Follows(SubSeq(ran', 1, i - 1), ran'[i])
      OBVIOUS
    <3>1. CASE i = Len(ran')
      BY <1>2, <2>2, <2>3, <3>1, WritesFollow
    <3>2. CASE i \in 1..Len(ran)
      <4>2. ~Refused
        BY <1>2 DEF SessionWrites, SessionPlace
      <4>1. Eng!Follows(SubSeq(ran, 1, i - 1), ran[i])
        BY <3>2, <4>2 DEF RanFollows, Typed
      <4>. QED
        BY <2>2, <2>3, <3>2, <4>1
    <3>. QED
      BY <2>2, <3>1, <3>2
  <2>5. asks = "run" => \A i \in DOMAIN ran' : Eng!Follows(SubSeq(ran, 1, i - 1), ran[i])'
    BY <2>1, <2>4, FollowsStays
  <2>6. /\ asks = "perms" => \A i \in DOMAIN ran' : ran'[i].ev \in {"malformed", "start", "abort", "perms"}
        /\ \A i \in DOMAIN ran' : ran'[i].ev = "perms" => asks = "perms"
        /\ \A i \in DOMAIN ran' : ran'[i] # UnknownEv
        /\ \A i \in DOMAIN ran' : ran'[i] = AbortEv("E_CONNECT") => ~sameVersion
    BY <1>2, <2>2, WritesFollow DEF RanFollows
  <2>7. \A i \in DOMAIN ran' : ran'[i].ev \in {"abort", "perms"} => i = 2
    BY <1>2, <2>2, WritesFollow DEF RanFollows
  <2>. QED
    BY <2>1, <2>5, <2>6, <2>7 DEF RanFollows
<1>3. CASE Refuses
  <2>1. ran' # <<>> /\ DOMAIN ran' = 1..1 /\ ran'[1] = MalformedEv
    BY <1>3 DEF Refuses
  <2>. QED
    BY <2>1 DEF RanFollows, Refused, MalformedEv, UnknownEv, AbortEv
<1>. QED
  BY <1>1, <1>2, <1>3, StepCases, RanKept

-----------------------------------------------------------------------------
(* What is broken stays broken, and what has ended stays ended.            *)

\* The bridge and the caller only ever lose.
LEMMA BrokeStays ==
  ASSUME Typed, SessionPlace, [Next]_bridgeVars
  PROVE  (Broke => Broke') /\ (Gone => Gone')
<1>. USE DEF Broke, Gone, call, session, forwarder
<1>1. CASE \E e \in Events : SessionWrites(e)
  <2>1. at \in {"start", "answer", "run"} /\ UNCHANGED <<quit, reader, sameVersion, longLine, excess>>
    BY <1>1 DEF SessionWrites
  <2>. QED
    BY <2>1
<1>2. CASE Forward
  BY <1>2 DEF Forward, Dial, Send, DiscardStart, FirstLine, Relay, BridgeLost, StateUnknown,
              Return, ForwarderStep
<1>3. CASE Stands
  <2>1. CASE Quit
    BY <2>1 DEF Quit
  <2>2. CASE KillBridge
    BY <2>2 DEF KillBridge
  <2>3. CASE GivesUp \/ BeginsRun \/ Accept \/ ReadsOn \/ CloseConn
    BY <2>3 DEF GivesUp, BeginsRun, Accept, ReadsOn, CloseConn, HandleStep
  <2>. QED
    BY <1>3, <2>1, <2>2, <2>3 DEF Stands
<1>4. CASE ReaderLeaves \/ KillForwarder \/ UNCHANGED bridgeVars
  <2>1. CASE ReaderLeaves
    BY <2>1 DEF ReaderLeaves
  <2>2. CASE KillForwarder
    BY <2>2 DEF KillForwarder
  <2>3. CASE UNCHANGED bridgeVars
    BY <2>3 DEF bridgeVars
  <2>. QED
    BY <1>4, <2>1, <2>2, <2>3
<1>5. CASE Refuses
  BY <1>5 DEF Refuses
<1>. QED
  BY StepCases, <1>1, <1>2, <1>3, <1>4, <1>5

\* A forwarder that has dialled and finds nothing more to read is told the
\* truth by it, or something broke.
LEMMA NothingMore ==
  ASSUME BridgeInv, EOF, here \in {"start", "first", "stream"}
  PROVE  Broke
<1>. SUFFICES ASSUME ~Broke PROVE FALSE
  OBVIOUS
<1>1. /\ Alive /\ request # "undialed" /\ at # "killed" /\ ~quit /\ longLine = 0
      /\ sameVersion /\ excess = "none" /\ ~dropped
  BY DEF BridgeInv, SessionPlace, Alive, Broke
<1>2. carried = Len(ran) /\ (serverOpen \/ (ran # <<>> /\ Ends(ran[Len(ran)])))
  BY <1>1 DEF BridgeInv, NothingLost
<1>3. read = carried /\ ~serverOpen
  <2>1. read < carried => TooLong(Incoming)
    BY <1>1 DEF Ready, EOF
  <2>2. read < carried => Incoming \in Events
    BY <1>2 DEF BridgeInv, Typed, Incoming
  <2>3. Incoming \in Events /\ IsResult(Incoming) => Incoming.line # 0
    BY DEF Events, IsResult, StartEv, UnknownEv, MalformedEv
  <2>4. ~(read < carried)
    BY <1>1, <2>1, <2>2, <2>3 DEF TooLong
  <2>. QED
    BY <2>4 DEF EOF, BridgeInv, OutFollows, Typed
<1>4. ran # <<>> /\ Ends(ran[Len(ran)]) /\ read = Len(ran)
  BY <1>2, <1>3
<1>5. CASE here = "start"
  <2>1. read = 0
    BY <1>5 DEF BridgeInv, OutFollows
  <2>2. ran \in Seq(Events)
    BY DEF BridgeInv, Typed
  <2>. QED
    BY <1>4, <2>1, <2>2, EmptySeq
<1>6. CASE here = "first"
  <2>1. read = 1
    BY <1>6 DEF BridgeInv, OutFollows
  <2>. QED
    BY <1>4, <2>1 DEF BridgeInv, SessionPlace, Refused, Ends, StartEv, MalformedEv
<1>7. CASE here = "stream"
  <2>1. read > 0 /\ \A i \in 1..read : ~Ends(ran[i])
    BY <1>7 DEF BridgeInv, OutFollows
  <2>2. read \in 1..read
    BY <2>1 DEF BridgeInv, Typed
  <2>. QED
    BY <1>4, <2>1, <2>2
<1>. QED
  BY <1>5, <1>6, <1>7

\* So is one that cannot send.
LEMMA CannotSend ==
  ASSUME BridgeInv, here = "send", ~serverOpen
  PROVE  Broke
<1>1. request # "undialed" /\ request # "all" /\ Alive
  BY DEF BridgeInv, SessionPlace, Alive
<1>. QED
  BY <1>1 DEF BridgeInv, NothingLost, Broke

\* Nothing is written after the end, so that what has been said of it stays true.
LEMMA EndStays ==
  ASSUME BridgeInv, [Next]_bridgeVars, NEW i \in DOMAIN ran, Ends(ran[i])
  PROVE  ran' = ran
<1>1. at \in {"close", "closed", "killed"}
  BY DEF BridgeInv, SessionPlace
<1>2. ASSUME NEW e \in Events, SessionWrites(e) PROVE FALSE
  BY <1>1, <1>2 DEF SessionWrites
<1>3. ~Refuses
  BY <1>1 DEF Refuses
<1>. QED
  BY <1>2, <1>3, StepCases, RanKept DEF BridgeInv

LEMMA NoRunStays ==
  ASSUME BridgeInv, [Next]_bridgeVars, NoRun
  PROVE  NoRun'
<1>. USE DEF BridgeInv
<1>1. ran' = ran /\ (ran = <<>> => Gone')
  <2>1. CASE ran # <<>>
    <3>1. Len(ran) \in DOMAIN ran /\ Ends(ran[Len(ran)])
      BY <2>1 DEF NoRun, Typed
    <3>. QED
      BY <2>1, <3>1, EndStays
  <2>2. CASE ran = <<>>
    <3>1. Gone
      BY <2>2 DEF NoRun
    <3>2. ASSUME NEW e \in Events, SessionWrites(e) PROVE FALSE
      BY <3>1, <3>2 DEF SessionWrites, Gone
    <3>3. Gone'
      BY <3>1, BrokeStays
    <3>4. ~Refuses
      BY <3>1 DEF Refuses, Gone
    <3>. QED
      BY <3>2, <3>3, <3>4, StepCases, RanKept
  <2>. QED
    BY <2>1, <2>2
<1>. QED
  BY <1>1 DEF NoRun, IsResult, Ends

\* What waits to be read.
LEMMA KeepNothingLost ==
  ASSUME BridgeInv, [Next]_bridgeVars
  PROVE  NothingLost'
<1>. USE DEF BridgeInv, Typed, SessionPlace, Alive, call, session, forwarder
<1>1. CASE \E e \in Events : SessionWrites(e)
  <2>1. PICK e \in Events : SessionWrites(e)
    BY <1>1
  <2>2. ran' = Append(ran, e)
    BY <2>1 DEF SessionWrites
  <2>3. UNCHANGED <<here, request, serverOpen, quit, sameVersion, excess>> /\ at \in {"start", "answer", "run"}
        /\ at' \in {"answer", "run", "close"}
    BY <2>1 DEF SessionWrites
  <2>. SUFFICES ASSUME Alive, request # "undialed", ~quit, sameVersion, excess = "none" PROVE NothingLost'
    BY <2>3 DEF NothingLost
  <2>4. carried = Len(ran) /\ request = "all" /\ serverOpen
    BY <2>3 DEF NothingLost
  <2>5. Writable
    BY <2>4 DEF Writable, CallerOpen
  <2>6. carried' = carried + 1
    BY <2>1, <2>5 DEF SessionWrites
  <2>7. Len(ran') = Len(ran) + 1 /\ ran' # <<>> /\ ran'[Len(ran')] = e
    BY <2>2, Appended
  <2>8. at' = "close" => Ends(e)
    BY <2>1 DEF SessionWrites, Ends, AbortEv, PermsEv
  <2>9. carried' = Len(ran')
    BY <2>4, <2>6, <2>7
  <2>. QED
    BY <2>3, <2>4, <2>7, <2>8, <2>9 DEF NothingLost
<1>2. CASE GivesUp
  <2>1. at = "start" /\ ~Writable /\ UNCHANGED <<here, request, quit, sameVersion, excess>>
    BY <1>2 DEF GivesUp, HandleStep
  <2>. SUFFICES ASSUME Alive, request # "undialed", ~quit, sameVersion, excess = "none" PROVE FALSE
    BY <2>1 DEF NothingLost
  <2>. QED
    BY <2>1 DEF NothingLost, Writable, CallerOpen
<1>3. CASE BeginsRun
  BY <1>3 DEF BeginsRun, HandleStep, NothingLost
<1>4. CASE Accept
  BY <1>4 DEF Accept, HandleStep, NothingLost
<1>5. CASE ReadsOn
  <2>1. at = "read" /\ UNCHANGED <<here, request, quit, sameVersion, excess, ran, carried, serverOpen>>
    BY <1>5 DEF ReadsOn, HandleStep
  <2>. SUFFICES ASSUME Alive, request # "undialed", ~quit, sameVersion, excess = "none" PROVE NothingLost'
    BY <2>1 DEF NothingLost
  <2>2. carried = Len(ran) /\ serverOpen /\ CallerOpen
    BY <2>1 DEF NothingLost, CallerOpen
  <2>3. \/ at' = "start" /\ request = "all"
        \/ at' = "close" /\ ~CallerOpen
        \/ at' = "close" /\ ~serverOpen
    BY <1>5, Zenon DEF ReadsOn, HandleStep
  <2>. QED
    BY <2>1, <2>2, <2>3 DEF NothingLost
<1>6. CASE CloseConn
  BY <1>6 DEF CloseConn, HandleStep, NothingLost
<1>7. CASE Quit
  BY <1>7 DEF Quit, NothingLost
<1>8. CASE KillBridge
  BY <1>8 DEF KillBridge, NothingLost
<1>9. CASE Dial
  <2>1. here = "dial" /\ UNCHANGED <<at, quit, sameVersion, excess, ran, carried, serverOpen>>
    BY <1>9 DEF Dial, ForwarderStep
  <2>2. ran = <<>> /\ request = "undialed"
    BY <2>1
  <2>3. Len(ran) = 0 /\ carried = Len(ran)
    BY <2>2 DEF Carried
  <2>4. request' = request \/ (at = "accept" /\ request' = "none" /\ here' = "send")
    BY <1>9 DEF Dial
  <2>. QED
    BY <2>1, <2>2, <2>3, <2>4 DEF NothingLost
<1>10. CASE Send
  <2>1. here = "send" /\ request # "all" /\ request # "undialed" /\ UNCHANGED <<at, quit, sameVersion, excess, ran, carried, serverOpen>>
    BY <1>10 DEF Send, ForwarderStep
  <2>2. serverOpen \/ at = "killed" \/ quit \/ ~sameVersion \/ excess # "none"
    BY <2>1 DEF NothingLost
  <2>3. serverOpen /\ excess = "none" => request' = "all"
    BY <1>10 DEF Send
  <2>. QED
    BY <2>1, <2>2, <2>3 DEF NothingLost
<1>11. CASE DiscardStart
  <2>1. here \in {"start", "first", "stream", "unknown", "ended"} /\ UNCHANGED <<request, at, quit, sameVersion, excess, ran, carried, serverOpen>>
    BY <1>11 DEF DiscardStart, ForwarderStep
  <2>. QED
    BY <2>1 DEF NothingLost
<1>12. CASE FirstLine
  <2>1. here \in {"start", "first", "stream", "unknown", "ended"} /\ UNCHANGED <<request, at, quit, sameVersion, excess, ran, carried, serverOpen>>
    BY <1>12 DEF FirstLine, ForwarderStep
  <2>. QED
    BY <2>1 DEF NothingLost
<1>13. CASE Relay
  <2>1. here \in {"start", "first", "stream", "unknown", "ended"} /\ UNCHANGED <<request, at, quit, sameVersion, excess, ran, carried, serverOpen>>
    BY <1>13 DEF Relay, ForwarderStep
  <2>. QED
    BY <2>1 DEF NothingLost
<1>14. CASE BridgeLost
  <2>1. here \in {"start", "first", "stream", "unknown", "ended"} /\ UNCHANGED <<request, at, quit, sameVersion, excess, ran, carried, serverOpen>>
    BY <1>14 DEF BridgeLost, ForwarderStep
  <2>. QED
    BY <2>1 DEF NothingLost
<1>15. CASE StateUnknown
  <2>1. here \in {"start", "first", "stream", "unknown", "ended"} /\ UNCHANGED <<request, at, quit, sameVersion, excess, ran, carried, serverOpen>>
    BY <1>15 DEF StateUnknown, ForwarderStep
  <2>. QED
    BY <2>1 DEF NothingLost
<1>16. CASE Return
  <2>1. here \in {"start", "first", "stream", "unknown", "ended"} /\ UNCHANGED <<request, at, quit, sameVersion, excess, ran, carried, serverOpen>>
    BY <1>16 DEF Return, ForwarderStep
  <2>. QED
    BY <2>1 DEF NothingLost
<1>17. CASE ReaderLeaves
  BY <1>17 DEF ReaderLeaves, NothingLost
<1>18. CASE KillForwarder
  BY <1>18 DEF KillForwarder, NothingLost
<1>19. CASE UNCHANGED bridgeVars
  BY <1>19 DEF bridgeVars, NothingLost, Ends
<1>20. CASE Refuses
  <2>1. at = "read" /\ Undecodable /\ UNCHANGED <<here, request, quit, call>>
    BY <1>20 DEF Refuses
  <2>. SUFFICES ASSUME Alive, request # "undialed", ~quit, sameVersion, excess = "none" PROVE FALSE
    BY <2>1, <1>20 DEF NothingLost, Refuses
  <2>2. serverOpen /\ CallerOpen
    BY <2>1 DEF NothingLost, CallerOpen
  <2>. QED
    BY <2>1, <2>2 DEF Undecodable
<1>. QED
  BY StepCases, <1>1, <1>2, <1>3, <1>4, <1>5, <1>6, <1>7, <1>8, <1>9,
     <1>10, <1>11, <1>12, <1>13, <1>14, <1>15, <1>16, <1>17, <1>18, <1>19, <1>20
     DEF Stands, Forward, BridgeInv

\* A refusal printed where nothing was.
LEMMA AbortPrinted ==
  ASSUME Typed, out = <<>>, NEW c \in AbortCodes, Aborts(c)
  PROVE  /\ \A i \in DOMAIN out' : ~IsResult(out'[i])
         /\ here' \in {"ended", "killed"}
         /\ here' = "ended" => out' # <<>> /\ out'[Len(out')] = AbortEv(c)
<1>1. \/ out' = <<StartEv, AbortEv(c)>> /\ here' = "ended"
      \/ out' = <<AbortEv(c)>> /\ here' = "ended"
      \/ out' = <<>> /\ here' = "killed"
  <2>1. CASE Writes(<<StartEv, AbortEv(c)>>, "ended")
    <3>1. (out' = out \o <<StartEv, AbortEv(c)>> /\ here' = "ended") \/ (out' = out /\ here' = "killed")
      BY <2>1, Zenon DEF Writes
    <3>. QED
      BY <3>1
  <2>2. CASE out' = Append(out, AbortEv(c)) /\ here' = "ended"
    BY <2>2
  <2>. QED
    BY <2>1, <2>2, Zenon DEF Aborts
<1>. QED
  BY <1>1 DEF IsResult, StartEv, AbortEv

LEMMA Joined ==
  ASSUME NEW a \in Events, NEW b \in Events
  PROVE  <<a>> \o <<b>> = <<a, b>>
<1>1. <<a>> \in Seq(Events) /\ <<b>> \in Seq(Events) /\ <<a, b>> \in Seq(Events)
  OBVIOUS
<1>2. Len(<<a>> \o <<b>>) = 2 /\ \A i \in 1..2 : (<<a>> \o <<b>>)[i] = <<a, b>>[i]
  BY <1>1, ConcatProperties
<1>3. <<a>> \o <<b>> \in Seq(Events) /\ Len(<<a, b>>) = 2
  BY <1>1, ConcatProperties
<1>. QED
  BY <1>1, <1>2, <1>3, SeqEqual

\* A perms line, with or without a start.
LEMMA PermsPrinted ==
  ASSUME Typed, out = <<>>, NEW e \in Events, e.ev = "perms",
         Writes((IF jsonl THEN <<StartEv>> ELSE <<>>) \o <<e>>, "ended")
  PROVE  /\ \A i \in DOMAIN out' : ~IsResult(out'[i])
         /\ here' \in {"ended", "killed"}
         /\ here' = "ended" => out' # <<>> /\ out'[Len(out')] = e
<1>1. \/ out' = out \o ((IF jsonl THEN <<StartEv>> ELSE <<>>) \o <<e>>) /\ here' = "ended"
      \/ out' = out /\ here' = "killed"
  BY Zenon DEF Writes
<1>2. (IF jsonl THEN <<StartEv>> ELSE <<>>) \o <<e>> \in {<<StartEv, e>>, <<e>>}
  <2>1. CASE jsonl
    <3>1. (IF jsonl THEN <<StartEv>> ELSE <<>>) = <<StartEv>>
      BY <2>1, Zenon
    <3>2. <<StartEv>> \o <<e>> = <<StartEv, e>>
      BY Joined, EventsMade
    <3>. QED
      BY <3>1, <3>2
  <2>2. CASE ~jsonl
    BY <2>2
  <2>. QED
    BY <2>1, <2>2
<1>. QED
  BY <1>1, <1>2 DEF IsResult, StartEv

\* The second line decides how the forwarder goes on.
LEMMA FirstCases ==
  ASSUME BridgeInv, FirstLine
  PROVE  \/ EOF /\ Aborts("E_CONNECT")
         \/ /\ Len(ran) > 1 /\ ran[2] \in Events
            /\ \/ ran[2].ev = "abort" /\ Aborts(ran[2].code)
               \/ ran[2].ev = "perms"
                  /\ Writes((IF jsonl THEN <<StartEv>> ELSE <<>>) \o <<ran[2]>>, "ended")
               \/ ran[2].ev \in {"result", "done"} /\ asks = "run" /\ Writes(<<StartEv>>, "stream")
<1>1. read = 1
  BY DEF BridgeInv, OutFollows, FirstLine, ForwarderStep
<1>2. Incoming = ran[2]
  BY <1>1 DEF Incoming
<1>3. Ready => Len(ran) > 1 /\ ran[2] \in Events
  <2>1. Ready => 1 < carried
    BY <1>1 DEF Ready
  <2>. QED
    BY <2>1 DEF BridgeInv, Typed, Carried
<1>4. Ready /\ ran[2].ev \in {"result", "done"} => asks = "run"
  BY <1>3 DEF BridgeInv, Typed, RanFollows
<1>. QED
  BY <1>2, <1>3, <1>4, Zenon DEF FirstLine

\* Nothing has been relayed by a forwarder that refused.
LEMMA RefusedFollows ==
  ASSUME OutFollows, read' <= carried', here' \in {"ended", "killed"},
         \A i \in DOMAIN out' : ~IsResult(out'[i])
  PROVE  OutFollows'
BY DEF OutFollows, IsResult

\* What is printed is what was read.
LEMMA KeepOutFollows ==
  ASSUME BridgeInv, [Next]_bridgeVars
  PROVE  OutFollows'
<1>. USE BrokeStays DEF BridgeInv, Typed, OutFollows, call, session, forwarder
<1>1. CASE \E e \in Events : SessionWrites(e)
  <2>1. PICK e \in Events : SessionWrites(e)
    BY <1>1
  <2>2. ran' = Append(ran, e)
    BY <2>1 DEF SessionWrites
  <2>3. /\ Len(ran) \in Nat /\ Len(ran') = Len(ran) + 1
        /\ \A i \in 1..Len(ran) : ran'[i] = ran[i]
    BY <2>2, Appended
  <2>4. UNCHANGED <<here, read, out, asks>> /\ carried <= carried' /\ carried' \in Nat
    BY <2>1 DEF SessionWrites
  <2>5. Broke => Broke'
    BY BrokeStays
  <2>6. \A i \in DOMAIN out : i <= Len(ran) => i \in 1..Len(ran)
    OBVIOUS
  <2>7. \A i \in DOMAIN out' :
          IsResult(out'[i]) => i <= Len(ran') /\ \A j \in 1..i : out'[j] = ran'[j]
    <3>1. \A i \in DOMAIN out :
            IsResult(out[i]) => i <= Len(ran) /\ \A j \in 1..i : out[j] = ran[j] /\ j \in 1..Len(ran)
      BY <2>3
    <3>. QED
      BY <2>3, <2>4, <3>1
  <2>8. here = "stream" => /\ Len(ran') > 1 /\ ran'[2].ev \in {"result", "done"}
                           /\ \A i \in 1..read : out[i] = ran'[i] /\ ~Ends(ran'[i])
    BY <2>3 DEF Carried
  <2>9. here = "unknown" => /\ Len(out) <= Len(ran')
                            /\ \A i \in DOMAIN out : out[i] = ran'[i] /\ ~Ends(ran'[i])
    BY <2>3, <2>6
  <2>. QED
    BY <2>4, <2>5, <2>7, <2>8, <2>9 DEF Ends, IsResult
<1>2. CASE GivesUp
  BY <1>2 DEF GivesUp, HandleStep
<1>3. CASE BeginsRun
  BY <1>3 DEF BeginsRun, HandleStep
<1>4. CASE Accept
  BY <1>4 DEF Accept, HandleStep
<1>5. CASE ReadsOn
  BY <1>5 DEF ReadsOn, HandleStep
<1>6. CASE CloseConn
  BY <1>6 DEF CloseConn, HandleStep
<1>7. CASE Quit
  BY <1>7 DEF Quit
<1>8. CASE KillBridge
  BY <1>8 DEF KillBridge
<1>9. CASE Dial
  <2>1. out = <<>> /\ read = 0 /\ UNCHANGED <<ran, carried, read, asks>>
    BY <1>9 DEF Dial, ForwarderStep
  <2>2. CASE Aborts("E_SESSION")
    BY <2>1, <2>2, AbortPrinted, RefusedFollows DEF AbortCodes
  <2>3. CASE here' = "send" /\ out' = out
    BY <2>1, <2>3
  <2>. QED
    BY <1>9, <2>2, <2>3 DEF Dial
<1>10. CASE Send
  <2>1. out = <<>> /\ read = 0 /\ UNCHANGED <<ran, carried, read, asks>>
    BY <1>10 DEF Send, ForwarderStep
  <2>2. CASE Aborts("E_CONNECT")
    BY <2>1, <2>2, AbortPrinted, RefusedFollows DEF AbortCodes
  <2>3. CASE here' \in {"send", "start"} /\ out' = out
    BY <2>1, <2>3
  <2>4. Aborts("E_CONNECT") \/ (here' \in {"send", "start"} /\ out' = out)
    BY <1>10 DEF Send, ForwarderStep
  <2>. QED
    BY <2>2, <2>3, <2>4
<1>11. CASE DiscardStart
  <2>1. out = <<>> /\ read = 0 /\ UNCHANGED <<ran, carried, asks>>
    BY <1>11 DEF DiscardStart, ForwarderStep
  <2>2. CASE Aborts("E_CONNECT") /\ read' = read
    BY <2>1, <2>2, AbortPrinted, RefusedFollows DEF AbortCodes
  <2>3. CASE read < carried /\ read' = read + 1 /\ here' = "first" /\ out' = out
    <3>1. read' = 1 /\ 1 <= carried
      BY <2>1, <2>3
    <3>. QED
      BY <2>1, <2>3, <3>1
  <2>. QED
    BY <1>11, <2>2, <2>3 DEF DiscardStart, Ready
<1>12. CASE FirstLine
  <2>1. out = <<>> /\ read = 1 /\ UNCHANGED <<ran, carried, read, asks>>
    BY <1>12 DEF FirstLine, ForwarderStep
  <2>2. ASSUME NEW c \in AbortCodes, Aborts(c) PROVE OutFollows'
    BY <2>1, <2>2, AbortPrinted, RefusedFollows
  <2>3. CASE EOF /\ Aborts("E_CONNECT")
    BY <2>2, <2>3 DEF AbortCodes
  <2>4. ASSUME ran[2] \in Events, ran[2].ev = "abort", Aborts(ran[2].code) PROVE OutFollows'
    <3>1. ran[2].code \in AbortCodes
      BY <2>4 DEF Events, StartEv, UnknownEv, MalformedEv
    <3>. QED
      BY <2>2, <2>4, <3>1
  <2>5. ASSUME ran[2] \in Events, ran[2].ev = "perms",
               Writes((IF jsonl THEN <<StartEv>> ELSE <<>>) \o <<ran[2]>>, "ended")
        PROVE  OutFollows'
    BY <2>1, <2>5, PermsPrinted, RefusedFollows
  <2>6. ASSUME Len(ran) > 1, ran[2].ev \in {"result", "done"}, asks = "run", Writes(<<StartEv>>, "stream")
        PROVE  OutFollows'
    <3>1. (out' = out \o <<StartEv>> /\ here' = "stream") \/ (out' = out /\ here' = "killed")
      BY <2>6, Zenon DEF Writes
    <3>2. ran[1] = StartEv /\ ran # <<>>
      BY <2>6 DEF SessionPlace, Refused
    <3>3. CASE out' = out \o <<StartEv>> /\ here' = "stream"
      <4>1. out' = <<StartEv>>
        BY <2>1, <3>3
      <4>2. Len(out') = 1 /\ out'[1] = ran[1] /\ DOMAIN out' = 1..1
        BY <3>2, <4>1
      <4>3. ~Ends(ran[1]) /\ ~IsResult(ran[1])
        BY <3>2 DEF Ends, IsResult, StartEv
      <4>. QED
        BY <2>1, <2>6, <3>3, <4>2, <4>3 DEF Ends, IsResult
    <3>4. CASE out' = out /\ here' = "killed"
      BY <2>1, <3>4
    <3>. QED
      BY <3>1, <3>3, <3>4
  <2>. QED
    BY <1>12, <2>3, <2>4, <2>5, <2>6, FirstCases
<1>13. CASE Relay
  <2>1. /\ read > 0 /\ Len(out) = read /\ asks = "run" /\ Len(ran) > 1
        /\ ran[2].ev \in {"result", "done"} /\ \A i \in 1..read : out[i] = ran[i] /\ ~Ends(ran[i])
        /\ read < carried /\ carried <= Len(ran)
        /\ UNCHANGED <<ran, carried, asks, reader>> /\ read' = read + 1 /\ Broke' = Broke
    BY <1>13 DEF Relay, ForwarderStep, Ready, Carried, Broke
  <2>2. Incoming = ran[read + 1] /\ Incoming \in Events
    BY <2>1 DEF Incoming
  <2>3. \/ out' = out /\ here' = "killed"
        \/ out' = out /\ here' = "unknown" /\ ~reader
        \/ out' = out \o <<Incoming>> /\ here' = "stream" /\ ~Ends(Incoming)
        \/ out' = out \o <<Incoming>> /\ here' = "ended"
    BY <1>13, Zenon DEF Relay, Relays, Writes
  <2>4. out' = out \o <<Incoming>> =>
          /\ Len(out') = read + 1 /\ \A i \in 1..read : out'[i] = ran[i]
          /\ out'[read + 1] = ran[read + 1] /\ DOMAIN out' = 1..(read + 1)
    BY <2>1, <2>2
  <2>5. CASE out' = out /\ here' \in {"killed", "unknown"}
    <3>1. here' = "unknown" => Broke'
      BY <2>1, <2>3, <2>5 DEF Broke
    <3>2. /\ DOMAIN out' = 1..read /\ read \in Nat /\ read <= Len(ran') /\ Len(ran') \in Nat
          /\ \A i \in 1..read : out'[i] = ran'[i] /\ ~Ends(ran[i])
      BY <2>1, <2>5
    <3>3. \A i \in DOMAIN out' : i <= Len(ran') /\ \A j \in 1..i : out'[j] = ran'[j]
      BY <3>2
    <3>4. read' <= carried' /\ out' # <<>> /\ Len(out') <= Len(ran') /\ asks' = "run"
      BY <2>1, <2>5
    <3>5. here' \notin {"dial", "send", "start", "first", "stream"}
      BY <2>5
    <3>6. \A i \in DOMAIN out' : out'[i] = ran'[i] /\ ~Ends(ran'[i])
      BY <2>1, <3>2
    <3>. QED
      BY <3>1, <3>3, <3>4, <3>5, <3>6 DEF Ends, IsResult
  <2>6. CASE out' = out \o <<Incoming>>
    <3>3. \A j \in 1..(read + 1) : out'[j] = ran[j]
      BY <2>4, <2>6
    <3>4. read + 1 <= Len(ran)
      BY <2>1
    <3>1. \A i \in DOMAIN out' : i <= Len(ran) /\ \A j \in 1..i : out'[j] = ran[j]
      BY <2>4, <2>6, <3>3, <3>4
    <3>2. here' = "stream" => \A i \in 1..(read + 1) : out'[i] = ran[i] /\ ~Ends(ran[i])
      BY <2>1, <2>2, <2>3, <2>4, <2>6
    <3>5. here' \in {"stream", "ended"}
      <4>1. out' # out
        BY <2>1, <2>4, <2>6
      <4>. QED
        BY <2>3, <4>1
    <3>6. /\ read' <= carried' /\ read' > 0 /\ Len(out') = read' /\ asks' = "run"
          /\ Len(ran') > 1 /\ ran'[2].ev \in {"result", "done"}
      BY <2>1, <2>4, <2>6
    <3>7. here' = "stream" => \A i \in 1..read' : out'[i] = ran'[i] /\ ~Ends(ran'[i])
      BY <2>1, <3>2
    <3>8. \A i \in DOMAIN out' : i <= Len(ran') /\ \A j \in 1..i : out'[j] = ran'[j]
      BY <2>1, <3>1
    <3>. QED
      BY <3>5, <3>6, <3>7, <3>8 DEF Ends, IsResult
  <2>. QED
    BY <2>3, <2>5, <2>6
<1>14. CASE BridgeLost
  <2>1. /\ read > 0 /\ Len(out) = read /\ asks = "run"
        /\ \A i \in 1..read : out[i] = ran[i] /\ ~Ends(ran[i])
        /\ UNCHANGED <<ran, carried, asks, read, out>> /\ here' = "unknown" /\ EOF
    BY <1>14 DEF BridgeLost, ForwarderStep
  <2>2. Broke
    BY <1>14, <2>1, NothingMore DEF BridgeLost, ForwarderStep
  <2>3. out # <<>> /\ Len(out) <= Len(ran)
    BY <2>1 DEF Carried
  <2>. QED
    BY <2>1, <2>2, <2>3 DEF Ends, IsResult
<1>15. CASE StateUnknown
  <2>1. UNCHANGED <<ran, carried, asks, read>> /\ here = "unknown"
    BY <1>15 DEF StateUnknown, ForwarderStep
  <2>2. (out' = out \o <<UnknownEv>> /\ here' = "ended") \/ (out' = out /\ here' = "killed")
    BY <1>15, Zenon DEF StateUnknown, Writes
  <2>3. CASE out' = out /\ here' = "killed"
    BY <2>1, <2>3 DEF IsResult
  <2>4. CASE out' = out \o <<UnknownEv>> /\ here' = "ended"
    <3>1. /\ Len(out') = Len(out) + 1 /\ \A i \in 1..Len(out) : out'[i] = out[i]
          /\ out'[Len(out) + 1] = UnknownEv /\ DOMAIN out' = 1..(Len(out) + 1)
      BY <2>4, EventsMade
    <3>2. ~IsResult(UnknownEv)
      BY DEF IsResult, UnknownEv
    <3>3. \A i \in DOMAIN out' : IsResult(out'[i]) => i \in 1..Len(out) /\ IsResult(out[i])
      BY <3>1, <3>2
    <3>. QED
      BY <2>1, <2>4, <3>1, <3>3 DEF IsResult
  <2>. QED
    BY <2>2, <2>3, <2>4
<1>16. CASE Return
  BY <1>16 DEF Return, ForwarderStep
<1>17. CASE ReaderLeaves
  BY <1>17 DEF ReaderLeaves
<1>18. CASE KillForwarder
  BY <1>18 DEF KillForwarder
<1>19. CASE UNCHANGED bridgeVars
  BY <1>19 DEF bridgeVars
<1>20. CASE Refuses
  <2>1. ran = <<>> /\ Len(ran) = 0 /\ UNCHANGED <<here, read, out, asks>> /\ carried <= carried'
        /\ carried' \in Nat
    BY <1>20 DEF Refuses, SessionPlace
  <2>2. here \notin {"stream", "unknown"} /\ \A i \in DOMAIN out : ~IsResult(out[i])
    BY <2>1
  <2>. QED
    BY <2>1, <2>2 DEF IsResult
<1>. QED
  BY StepCases, <1>1, <1>2, <1>3, <1>4, <1>5, <1>6, <1>7, <1>8, <1>9,
     <1>10, <1>11, <1>12, <1>13, <1>14, <1>15, <1>16, <1>17, <1>18, <1>19, <1>20
     DEF Stands, Forward, BridgeInv

\* What was true of the last line stays true of it.
LEMMA TrueEndStays ==
  ASSUME BridgeInv, [Next]_bridgeVars, out # <<>>, UNCHANGED out, TrueEnd(out[Len(out)])
  PROVE  TrueEnd(out[Len(out)])'
<1>. DEFINE e == out[Len(out)]
<1>1. CASE (e = UnknownEv \/ e = AbortEv("E_CONNECT")) /\ Broke
  BY <1>1, BrokeStays DEF TrueEnd, BridgeInv
<1>2. CASE e \in {AbortEv("E_VALIDATE"), AbortEv("E_SESSION")} /\ NoRun
  BY <1>2, NoRunStays DEF TrueEnd
<1>3. CASE e.ev = "perms" /\ asks = "perms"
  <2>1. asks' = asks
    BY StepCases, RanKept DEF BridgeInv, SessionWrites, Refuses, call
  <2>. QED
    BY <1>3, <2>1 DEF TrueEnd
<1>4. CASE e.ev = "done" /\ out = ran
  <2>1. Len(ran) \in DOMAIN ran /\ Ends(ran[Len(ran)])
    BY <1>4 DEF BridgeInv, Typed, Ends
  <2>2. ran' = ran
    BY <2>1, EndStays
  <2>. QED
    BY <1>4, <2>2 DEF TrueEnd
<1>. QED
  BY <1>1, <1>2, <1>3, <1>4 DEF TrueEnd

\* The verdict.
LEMMA KeepVerdict ==
  ASSUME BridgeInv, [Next]_bridgeVars
  PROVE  Verdict'
<1>. USE TrueEndStays DEF BridgeInv, Typed, Verdict, call, session, forwarder
<1>1. CASE \E e \in Events : SessionWrites(e)
  <2>1. PICK e \in Events : SessionWrites(e)
    BY <1>1
  <2>2. ran' = Append(ran, e)
    BY <2>1 DEF SessionWrites
  <2>3. UNCHANGED <<here, out, code>>
    BY <2>1 DEF SessionWrites
  <2>. QED
    BY <2>3 DEF ExitFor
<1>2. CASE GivesUp
  BY <1>2 DEF GivesUp, HandleStep, ExitFor
<1>3. CASE BeginsRun
  BY <1>3 DEF BeginsRun, HandleStep, ExitFor
<1>4. CASE Accept
  BY <1>4 DEF Accept, HandleStep, ExitFor
<1>5. CASE ReadsOn
  BY <1>5 DEF ReadsOn, HandleStep, ExitFor
<1>6. CASE CloseConn
  BY <1>6 DEF CloseConn, HandleStep, ExitFor
<1>7. CASE Quit
  BY <1>7 DEF Quit, ExitFor
<1>8. CASE KillBridge
  BY <1>8 DEF KillBridge, ExitFor
<1>9. CASE Dial
  <2>1. here = "dial" /\ out = <<>> /\ UNCHANGED <<ran, at>>
    BY <1>9 DEF Dial, ForwarderStep, OutFollows
  <2>2. CASE Aborts("E_SESSION") /\ Gone
    <3>1. ran = <<>>
      BY <2>1 DEF SessionPlace
    <3>2. NoRun /\ NoRun'
      BY <2>1, <2>2, <3>1 DEF NoRun, Gone
    <3>3. here' = "ended" => out' # <<>> /\ out'[Len(out')] = AbortEv("E_SESSION")
      BY <2>1, <2>2, AbortPrinted DEF AbortCodes
    <3>4. here' \in {"ended", "killed"}
      BY <2>1, <2>2, AbortPrinted DEF AbortCodes
    <3>. QED
      BY <3>2, <3>3, <3>4 DEF TrueEnd
  <2>3. CASE here' = "send"
    BY <2>3
  <2>. QED
    BY <1>9, <2>2, <2>3 DEF Dial
<1>10. CASE Send
  <2>1. here = "send" /\ out = <<>>
    BY <1>10 DEF Send, ForwarderStep, OutFollows
  <2>2. CASE Aborts("E_CONNECT") /\ ~serverOpen
    <3>1. Broke'
      BY <2>1, <2>2, CannotSend, BrokeStays
    <3>. QED
      BY <2>1, <2>2, <3>1, AbortPrinted DEF AbortCodes, TrueEnd
  <2>3. CASE here' \in {"send", "start"}
    BY <2>3
  <2>. QED
    BY <1>10, <2>1, <2>2, <2>3 DEF Send, ForwarderStep
<1>11. CASE DiscardStart
  <2>1. here = "start" /\ out = <<>>
    BY <1>11 DEF DiscardStart, ForwarderStep, OutFollows
  <2>2. CASE EOF /\ Aborts("E_CONNECT")
    <3>1. Broke'
      BY <2>1, <2>2, NothingMore, BrokeStays
    <3>. QED
      BY <2>1, <2>2, <3>1, AbortPrinted DEF AbortCodes, TrueEnd
  <2>3. CASE here' = "first"
    BY <2>3
  <2>. QED
    BY <1>11, <2>2, <2>3 DEF DiscardStart
<1>12. CASE FirstLine
  <2>1. here = "first" /\ out = <<>> /\ UNCHANGED <<ran, at, asks>>
    BY <1>12 DEF FirstLine, ForwarderStep, OutFollows
  <2>2. CASE EOF /\ Aborts("E_CONNECT")
    <3>1. Broke'
      BY <2>1, <2>2, NothingMore, BrokeStays
    <3>. QED
      BY <2>1, <2>2, <3>1, AbortPrinted DEF AbortCodes, TrueEnd
  <2>3. ASSUME Len(ran) > 1, ran[2] \in Events, ran[2].ev = "abort", Aborts(ran[2].code)
        PROVE  Verdict'
    <3>1. ran[2].code \in AbortCodes /\ ran[2] = AbortEv(ran[2].code)
      BY <2>3 DEF Events, StartEv, UnknownEv, MalformedEv, AbortEv
    <3>2. 2 \in DOMAIN ran /\ Ends(ran[2])
      BY <2>3 DEF Ends
    <3>3. Len(ran) = 2 /\ ran[1] = StartEv /\ ran # <<>>
      <4>1. ran # <<>>
        BY <2>3
      <4>2. ~Refused
        BY <2>3 DEF SessionPlace
      <4>. QED
        BY <2>3, <3>2, <4>1, <4>2 DEF SessionPlace
    <3>4. NoRun
      BY <2>3, <3>2, <3>3 DEF NoRun, IsResult, StartEv
    <3>5. NoRun'
      BY <3>4, NoRunStays
    <3>6. ran[2].code = "E_CONNECT" => Broke'
      <4>1. ran[2].code = "E_CONNECT" => ~sameVersion
        BY <3>1, <3>2 DEF RanFollows
      <4>. QED
        BY <4>1, BrokeStays DEF Broke
    <3>7. here' \in {"ended", "killed"}
      BY <2>1, <2>3, <3>1, AbortPrinted
    <3>8. here' = "ended" => out' # <<>> /\ out'[Len(out')] = AbortEv(ran[2].code)
      BY <2>1, <2>3, <3>1, AbortPrinted
    <3>9. ran[2].code \in {"E_CONNECT", "E_VALIDATE", "E_SESSION"}
      BY <3>1 DEF AbortCodes
    <3>10. here' = "ended" => TrueEnd(out[Len(out)])'
      BY <3>5, <3>6, <3>8, <3>9 DEF TrueEnd
    <3>. QED
      BY <3>7, <3>8, <3>10
  <2>4. ASSUME Len(ran) > 1, ran[2] \in Events, ran[2].ev = "perms",
               Writes((IF jsonl THEN <<StartEv>> ELSE <<>>) \o <<ran[2]>>, "ended")
        PROVE  Verdict'
    <3>1. asks' = "perms"
      BY <2>1, <2>4 DEF RanFollows
    <3>2. here' \in {"ended", "killed"} /\ (here' = "ended" => out' # <<>> /\ out'[Len(out')] = ran[2])
      BY <2>1, <2>4, PermsPrinted
    <3>. QED
      BY <2>4, <3>1, <3>2 DEF TrueEnd
  <2>5. ASSUME Writes(<<StartEv>>, "stream") PROVE Verdict'
    <3>1. here' \in {"stream", "killed"}
      BY <2>5, Zenon DEF Writes
    <3>. QED
      BY <3>1
  <2>. QED
    BY <1>12, <2>2, <2>3, <2>4, <2>5, FirstCases
<1>13. CASE Relay
  <2>1. /\ read > 0 /\ Len(out) = read /\ Len(ran) > 1
        /\ ran[2].ev \in {"result", "done"} /\ \A i \in 1..read : out[i] = ran[i]
        /\ read < carried /\ carried <= Len(ran) /\ ran' = ran
    BY <1>13 DEF Relay, ForwarderStep, Ready, Carried, OutFollows, session
  <2>2. Incoming = ran[read + 1] /\ Incoming \in Events
    BY <2>1 DEF Incoming
  <2>3. \/ here' \in {"killed", "unknown", "stream"}
        \/ out' = out \o <<Incoming>> /\ here' = "ended" /\ Ends(Incoming)
    BY <1>13, Zenon DEF Relay, Relays, Writes
  <2>4. CASE out' = out \o <<Incoming>> /\ here' = "ended" /\ Ends(Incoming)
    <3>1. Len(ran) = read + 1
      BY <2>1, <2>2, <2>4 DEF SessionPlace
    <3>2. out' = ran
      BY <2>1, <2>2, <2>4, <3>1
    <3>3. Incoming.ev = "done"
      <4>1. Incoming.ev \notin {"abort", "perms"}
        BY <2>1, <2>2 DEF RanFollows
      <4>2. Incoming.ev # "unknown"
        BY <2>1, <2>2 DEF RanFollows, Events, StartEv, UnknownEv, MalformedEv
      <4>. QED
        BY <2>4, <4>1, <4>2 DEF Ends
    <3>4. out' # <<>> /\ out'[Len(out')] = Incoming
      BY <2>1, <2>2, <3>1, <3>2
    <3>. QED
      BY <2>1, <2>4, <3>2, <3>3, <3>4 DEF TrueEnd
  <2>5. CASE here' \in {"killed", "unknown", "stream"}
    BY <2>5
  <2>. QED
    BY <2>3, <2>4, <2>5
<1>14. CASE BridgeLost
  BY <1>14 DEF BridgeLost, ForwarderStep
<1>15. CASE StateUnknown
  <2>1. here = "unknown" /\ Broke
    BY <1>15 DEF StateUnknown, ForwarderStep, OutFollows
  <2>2. Broke'
    BY <2>1, BrokeStays
  <2>3. (out' = out \o <<UnknownEv>> /\ here' = "ended") \/ here' = "killed"
    BY <1>15, Zenon DEF StateUnknown, Writes
  <2>4. out' = out \o <<UnknownEv>> => out' # <<>> /\ out'[Len(out')] = UnknownEv
    BY EventsMade
  <2>. QED
    BY <2>2, <2>3, <2>4 DEF TrueEnd
<1>16. CASE Return
  <2>1. /\ here = "ended" /\ here' = "exited" /\ UNCHANGED out
        /\ code' = ExitFor(Last(out))
    BY <1>16 DEF Return, ForwarderStep
  <2>2. out # <<>> /\ TrueEnd(out[Len(out)])'
    BY <2>1
  <2>3. code' = ExitFor(out[Len(out)])'
    BY <2>1 DEF Last, ExitFor
  <2>. QED
    BY <2>1, <2>2, <2>3 DEF Verdict
<1>17. CASE ReaderLeaves
  BY <1>17 DEF ReaderLeaves, ExitFor
<1>18. CASE KillForwarder
  BY <1>18 DEF KillForwarder, ExitFor
<1>19. CASE UNCHANGED bridgeVars
  BY <1>19 DEF bridgeVars
<1>20. CASE Refuses
  BY <1>20 DEF Refuses, ExitFor
<1>. QED
  BY StepCases, <1>1, <1>2, <1>3, <1>4, <1>5, <1>6, <1>7, <1>8, <1>9,
     <1>10, <1>11, <1>12, <1>13, <1>14, <1>15, <1>16, <1>17, <1>18, <1>19, <1>20
     DEF Stands, Forward, BridgeInv
-----------------------------------------------------------------------------
(* The theorems.                                                           *)

LEMMA InitHolds ==
  ASSUME Init
  PROVE  BridgeInv
<1>. USE BridgeRunAssumption DEF Init
<1>1. n \in Nat /\ longLine \in Nat
  OBVIOUS
<1>2. serverOpen \in BOOLEAN /\ quit \in BOOLEAN /\ dropped \in BOOLEAN /\ cancelled \in BOOLEAN /\ reader \in BOOLEAN
  BY Zenon
<1>3. Typed
  BY <1>1, <1>2 DEF Typed
<1>4. Len(ran) = 0 /\ Len(out) = 0 /\ ran = <<>> /\ out = <<>>
  OBVIOUS
<1>5. SessionPlace /\ Carried
  <2>1. ~dropped /\ ~cancelled /\ at \in {"accept", "absent"} /\ (at = "accept" => serverOpen)
        /\ here = "dial" /\ request = "undialed"
    BY Zenon
  <2>2. SessionPlace
    BY <1>4, <2>1 DEF SessionPlace, Refused
  <2>3. Carried
    BY <1>4, <2>1 DEF Carried
  <2>. QED
    BY <2>2, <2>3
<1>6. OneUnheard /\ RanFollows /\ OutFollows
  BY <1>4 DEF OneUnheard, RanFollows, OutFollows
<1>7. NothingLost /\ Verdict
  BY <1>4 DEF NothingLost, Verdict
<1>. QED
  BY <1>3, <1>5, <1>6, <1>7 DEF BridgeInv

\* The inductive invariant.
THEOREM BridgeInvariant == Spec => []BridgeInv
<1>1. BridgeInv /\ [Next]_bridgeVars => BridgeInv'
  BY KeepTyped, KeepSessionPlace, KeepCarried, KeepOneUnheard, KeepRanFollows, KeepOutFollows,
     KeepNothingLost, KeepVerdict DEF BridgeInv
<1>. QED
  BY InitHolds, <1>1, PTL DEF Spec

\* At most one line is executed whose result found no caller (session.go's
\* OnResult cancels the run on the first failed write), and none for a caller
\* that had gone when its request was read.
THEOREM OneLineUnheard == Spec => []AtMostOneLineUnheard
<1>1. BridgeInv => AtMostOneLineUnheard
  <2>. SUFFICES ASSUME BridgeInv PROVE AtMostOneLineUnheard
    OBVIOUS
  <2>. DEFINE U == {i \in (carried + 1)..Len(ran) : IsLine(ran[i]) /\ ran[i].status # "skip"}
  <2>1. CASE U = {}
    BY <2>1, FS_EmptySet DEF AtMostOneLineUnheard
  <2>2. CASE U # {}
    <3>1. PICK i \in U : TRUE
      BY <2>2
    <3>2. U = {i}
      BY <3>1 DEF BridgeInv, OneUnheard, Executed
    <3>3. Cardinality(U) = 1
      BY <3>2, FS_Singleton
    <3>4. carried # 0
      <4>1. Len(ran) \in Nat /\ i \in (carried + 1)..Len(ran)
        BY <3>1 DEF BridgeInv, Typed
      <4>2. ran # <<>>
        BY <4>1 DEF BridgeInv, Typed
      <4>3. ~Refused
        <5>1. Refused => i = 1
          BY <4>1 DEF BridgeInv, SessionPlace, Typed
        <5>2. ~IsLine(MalformedEv)
          BY DEF IsLine, MalformedEv
        <5>. QED
          BY <3>1, <5>1, <5>2 DEF Refused
      <4>. QED
        BY <4>2, <4>3 DEF BridgeInv, Carried, Typed
    <3>. QED
      BY <3>3, <3>4 DEF AtMostOneLineUnheard
  <2>. QED
    BY <2>1, <2>2
<1>. QED
  BY BridgeInvariant, <1>1, PTL

\* What forwardToBridge prints and the code it exits with are true of the
\* bridge, whatever was killed, interrupted or closed on the way.
THEOREM ExitCodesAreTrue == Spec => []ExitCodesSpeakForTheBridge
<1>1. BridgeInv => ExitCodesSpeakForTheBridge
  <2>. SUFFICES ASSUME BridgeInv PROVE ExitCodesSpeakForTheBridge
    OBVIOUS
  <2>1. ASSUME NEW i \in DOMAIN out, IsResult(out[i]) PROVE IsPrefix(SubSeq(out, 1, i), ran)
    <3>1. i \in 1..Len(out) /\ i <= Len(ran) /\ \A j \in 1..i : out[j] = ran[j]
      BY <2>1 DEF BridgeInv, Typed, OutFollows
    <3>2. /\ SubSeq(out, 1, i) \in Seq(Events) /\ SubSeq(ran, 1, i) \in Seq(Events)
          /\ Len(SubSeq(out, 1, i)) = i /\ Len(SubSeq(ran, 1, i)) = i
      BY <3>1 DEF BridgeInv, Typed
    <3>3. \A j \in 1..i : SubSeq(out, 1, i)[j] = SubSeq(ran, 1, i)[j]
      BY <3>1 DEF BridgeInv, Typed
    <3>4. SubSeq(out, 1, i) = SubSeq(ran, 1, i)
      BY <3>2, <3>3, SeqEqual
    <3>5. SubSeq(SubSeq(out, 1, i), 1, i) = SubSeq(out, 1, i)
      BY <3>1 DEF BridgeInv, Typed
    <3>. QED
      BY <3>1, <3>2, <3>4, <3>5 DEF IsPrefix
  <2>2. ASSUME here = "exited"
        PROVE  /\ code \in {3, 5} => Broke
               /\ asks = "run" /\ code \in {0, 1} => out = ran
               /\ asks = "run" /\ code \in {2, 4} => NoRun
    <3>. DEFINE e == out[Len(out)]
    <3>1. TrueEnd(e) /\ code = ExitFor(e)
      BY <2>2 DEF BridgeInv, Verdict
    <3>2. CASE e = UnknownEv /\ Broke
      BY <3>1, <3>2 DEF ExitFor, UnknownEv
    <3>3. CASE e = AbortEv("E_CONNECT") /\ Broke
      BY <3>1, <3>3 DEF ExitFor, AbortEv, AbortExit
    <3>4. CASE e \in {AbortEv("E_VALIDATE"), AbortEv("E_SESSION")} /\ NoRun
      BY <3>1, <3>4 DEF ExitFor, AbortEv, AbortExit
    <3>5. CASE e.ev = "perms" /\ asks = "perms"
      BY <3>1, <3>5 DEF ExitFor
    <3>6. CASE e.ev = "done" /\ out = ran
      BY <3>1, <3>6 DEF ExitFor
    <3>. QED
      BY <3>1, <3>2, <3>3, <3>4, <3>5, <3>6 DEF TrueEnd
  <2>. QED
    BY <2>1, <2>2 DEF ExitCodesSpeakForTheBridge, NoRun, Last
<1>. QED
  BY BridgeInvariant, <1>1, PTL

-----------------------------------------------------------------------------
(* A forwarded run keeps the contract.                                     *)

\* The two instances of RunContract say the same of what may follow.
LEMMA SameFollows ==
  ASSUME NEW s, NEW e
  PROVE  Eng!Follows(s, e) <=> Contract!Follows(s, e)
<1>1. \A T : Contract!Cardinality(T) = Eng!Cardinality(T)
  BY DEF Eng!Cardinality, Contract!Cardinality
<1>2. Eng!LinesDone(s) = Contract!LinesDone(s)
  BY <1>1 DEF Eng!LinesDone, Contract!LinesDone, Eng!IsLine, Contract!IsLine
<1>3. \A S : Eng!Counted(s, S) = Contract!Counted(s, S)
  BY <1>1 DEF Eng!Counted, Contract!Counted, Eng!IsResult, Contract!IsResult
<1>4. Eng!NextLine(s) = Contract!NextLine(s)
  BY <1>2 DEF Eng!NextLine, Contract!NextLine, Eng!MustSkip, Contract!MustSkip,
              Eng!IsLine, Contract!IsLine, Eng!ResultEv, Contract!ResultEv
<1>5. Eng!LateWarns(s) = Contract!LateWarns(s)
  BY <1>1 DEF Eng!LateWarns, Contract!LateWarns, Eng!IsRelease, Contract!IsRelease,
              Eng!IsResult, Contract!IsResult
<1>6. Eng!TrueDone(s) = Contract!TrueDone(s)
  BY <1>3 DEF Eng!TrueDone, Contract!TrueDone, Eng!DoneEv, Contract!DoneEv
<1>7. /\ (Eng!Open(s) <=> Contract!Open(s)) /\ (Eng!AllDone(s) <=> Contract!AllDone(s))
      /\ (Eng!FailedLast(s) <=> Contract!FailedLast(s)) /\ Eng!Extra(s) = Contract!Extra(s)
      /\ (Eng!NoResultYet(s) <=> Contract!NoResultYet(s))
  BY <1>2 DEF Eng!Open, Contract!Open, Eng!Ends, Contract!Ends, Eng!AllDone, Contract!AllDone,
              Eng!FailedLast, Contract!FailedLast, Eng!IsLine, Contract!IsLine,
              Eng!Extra, Contract!Extra, Eng!ResultEv, Contract!ResultEv,
              Eng!NoResultYet, Contract!NoResultYet, Eng!StartEv, Contract!StartEv
<1>. QED
  BY <1>4, <1>5, <1>6, <1>7
     DEF Eng!Follows, Contract!Follows, Eng!StartEv, Contract!StartEv, Eng!ResultEv, Contract!ResultEv,
         Eng!AbortEv, Contract!AbortEv, Eng!AbortCodes, Contract!AbortCodes, Eng!UnknownEv, Contract!UnknownEv

\* An event that may follow is a step of the contract.
LEMMA FollowsIsStep ==
  ASSUME asks = "run", asks' = "run", n' = n, kg' = kg, code' = code, Alive, Alive',
         out # <<>>, out \in Seq(Events), NEW e \in Events, Contract!Follows(out, e), out' = out \o <<e>>
  PROVE  Contract!Next
<1>. DEFINE o == OfRun(out, <<>>)
<1>1. o = out /\ o' = out'
  BY DEF OfRun
<1>2. Contract!Prints(<<e>>)
  BY <1>1 DEF Contract!Prints, OfRun
<1>3. Contract!Started <=> Contract!Open(out)
  BY DEF Contract!Started, Contract!Running, OfRun
<1>4. Contract!Open(out) /\ Contract!Started
  BY <1>1, <1>3 DEF Contract!Follows
<1>5. CASE ~Contract!AllDone(out) /\ e \in Contract!NextLine(out)
  <2>1. Contract!Line
    BY <1>1, <1>2, <1>4, <1>5 DEF Contract!Line
  <2>. QED
    BY <2>1 DEF Contract!Next
<1>6. CASE Contract!FailedLast(out) /\ e \in Contract!Extra(out)
  <2>1. Contract!ExtraCapture
    BY <1>1, <1>2, <1>4, <1>6 DEF Contract!ExtraCapture
  <2>. QED
    BY <2>1 DEF Contract!Next
<1>7. ASSUME Contract!AllDone(out), Contract!LateWarns(out) + 1 <= 1,
             NEW l \in 1..n, e = Contract!ResultEv(l, "warn", "release")
      PROVE  Contract!Next
  <2>1. [i \in 1..1 |-> l] \in [1..1 -> 1..n]
    OBVIOUS
  <2>2. Contract!Warns([i \in 1..1 |-> l]) = <<e>>
    BY <1>7 DEF Contract!Warns
  <2>3. Contract!AutoRelease(1)
    BY <1>1, <1>2, <1>4, <1>7, <2>1, <2>2 DEF Contract!AutoRelease
  <2>. QED
    BY <2>3 DEF Contract!Next
<1>8. ASSUME Contract!NoResultYet(out), NEW c \in Contract!AbortCodes, e = Contract!AbortEv(c)
      PROVE  Contract!Next
  <2>1. Contract!Abort
    BY <1>1, <1>2, <1>4, <1>8 DEF Contract!Abort, Contract!Started
  <2>. QED
    BY <2>1 DEF Contract!Next
<1>9. CASE Contract!AllDone(out) /\ e = Contract!TrueDone(out)
  <2>1. Contract!Done
    BY <1>1, <1>2, <1>4, <1>9 DEF Contract!Done
  <2>. QED
    BY <2>1 DEF Contract!Next
<1>10. CASE e = Contract!UnknownEv
  <2>1. (IF o = <<>> THEN <<Contract!StartEv>> ELSE <<>>) \o <<e>> = <<e>>
    <3>1. (IF o = <<>> THEN <<Contract!StartEv>> ELSE <<>>) = <<>>
      BY <1>1
    <3>2. <<>> \o <<e>> = <<e>>
      OBVIOUS
    <3>. QED
      BY <3>1, <3>2
  <2>2. Contract!DoneUnknown
    BY <1>1, <1>2, <1>4, <1>10, <2>1 DEF Contract!DoneUnknown, Contract!Started
  <2>. QED
    BY <2>2 DEF Contract!Next
<1>. QED
  BY <1>5, <1>6, <1>7, <1>8, <1>9, <1>10 DEF Contract!Follows

\* So is a process that dies, and one that says nothing changes nothing.
LEMMA DiesIsStep ==
  ASSUME asks = "run", asks' = "run", n' = n, kg' = kg, code' = code, Alive, here' = "killed", out' = out
  PROVE  Contract!Next
<1>1. Contract!Killed
  BY DEF Contract!Killed, OfRun, Alive
<1>. QED
  BY <1>1 DEF Contract!Next

LEMMA QuietIsStutter ==
  ASSUME asks' = asks, n' = n, kg' = kg,
         asks = "run" => code' = code /\ out' = out /\ (here' = here \/ (Alive /\ Alive'))
  PROVE  UNCHANGED Contract!vars
BY DEF Contract!vars, OfRun, Alive

\* The refusals of forwardToBridge.
LEMMA AbortsIsStep ==
  ASSUME asks = "run", asks' = "run", n' = n, kg' = kg, code' = code, Alive, out = <<>>,
         NEW c \in AbortCodes, Aborts(c)
  PROVE  Contract!Next
<1>1. Contract!NoResultYet(<<>>) /\ Contract!Open(<<>>) /\ c \in Contract!AbortCodes
  BY DEF Contract!NoResultYet, Contract!Open, Contract!AbortCodes, AbortCodes
<1>2. Contract!Running /\ Contract!NoResultYet(OfRun(out, <<>>)) /\ OfRun(out, <<>>) = <<>>
  BY <1>1 DEF Contract!Running, OfRun
<1>3. CASE out' = <<StartEv, AbortEv(c)>> /\ here' = "ended"
  <2>1. Contract!Prints(<<Contract!StartEv, Contract!AbortEv(c)>>)
    BY <1>3 DEF Contract!Prints, OfRun, Alive, Contract!StartEv, StartEv, Contract!AbortEv, AbortEv
  <2>2. Contract!Abort
    BY <1>1, <1>2, <2>1 DEF Contract!Abort
  <2>. QED
    BY <2>2 DEF Contract!Next
<1>4. CASE out' = <<AbortEv(c)>> /\ here' = "ended"
  <2>1. Contract!Prints(<<Contract!AbortEv(c)>>)
    BY <1>4 DEF Contract!Prints, OfRun, Alive, Contract!AbortEv, AbortEv
  <2>2. Contract!Abort
    BY <1>1, <1>2, <2>1 DEF Contract!Abort
  <2>. QED
    BY <2>2 DEF Contract!Next
<1>5. CASE out' = out /\ here' = "killed"
  BY <1>5, DiesIsStep
<1>6. \/ out' = <<StartEv, AbortEv(c)>> /\ here' = "ended"
      \/ out' = <<AbortEv(c)>> /\ here' = "ended"
      \/ out' = out /\ here' = "killed"
  <2>1. CASE Writes(<<StartEv, AbortEv(c)>>, "ended")
    <3>1. (out' = out \o <<StartEv, AbortEv(c)>> /\ here' = "ended") \/ (out' = out /\ here' = "killed")
      BY <2>1, Zenon DEF Writes
    <3>. QED
      BY <3>1
  <2>2. CASE out' = Append(out, AbortEv(c)) /\ here' = "ended"
    BY <2>2
  <2>. QED
    BY <2>1, <2>2, Zenon DEF Aborts
<1>. QED
  BY <1>3, <1>4, <1>5, <1>6

\* Every step is one of the contract's, or says nothing.
LEMMA StepKeepsContract ==
  ASSUME BridgeInv, BridgeInv', [Next]_bridgeVars
  PROVE  [Contract!Next]_Contract!vars
<1>. USE DEF call, session, forwarder
<1>1. CASE \E e \in Events : SessionWrites(e)
  <2>1. UNCHANGED <<here, out, code, asks, n, kg>>
    BY <1>1 DEF SessionWrites
  <2>. QED
    BY <2>1, QuietIsStutter
<1>2. CASE GivesUp
  BY <1>2, QuietIsStutter DEF GivesUp, HandleStep
<1>3. CASE BeginsRun
  BY <1>3, QuietIsStutter DEF BeginsRun, HandleStep
<1>4. CASE Accept
  BY <1>4, QuietIsStutter DEF Accept, HandleStep
<1>5. CASE ReadsOn
  BY <1>5, QuietIsStutter DEF ReadsOn, HandleStep
<1>6. CASE CloseConn
  BY <1>6, QuietIsStutter DEF CloseConn, HandleStep
<1>7. CASE Quit
  BY <1>7, QuietIsStutter DEF Quit
<1>8. CASE KillBridge
  BY <1>8, QuietIsStutter DEF KillBridge
<1>9. CASE Dial
  <2>1. UNCHANGED call /\ asks' = asks /\ n' = n /\ kg' = kg /\ Alive /\ code' = code
    BY <1>9 DEF Dial, ForwarderStep, call, Alive
  <2>. SUFFICES ASSUME asks = "run" PROVE [Contract!Next]_Contract!vars
    BY <2>1, QuietIsStutter
  <2>2. out = <<>>
    BY <1>9 DEF BridgeInv, OutFollows, Dial, ForwarderStep
  <2>3. CASE Aborts("E_SESSION")
    BY <2>1, <2>2, <2>3, AbortsIsStep DEF AbortCodes
  <2>4. CASE here' = "send" /\ out' = out
    <3>1. Alive'
      BY <2>4 DEF Alive
    <3>. QED
      BY <2>1, <2>4, <3>1, QuietIsStutter
  <2>. QED
    BY <1>9, <2>3, <2>4 DEF Dial
<1>10. CASE Send
  <2>1. UNCHANGED call /\ asks' = asks /\ n' = n /\ kg' = kg /\ Alive /\ code' = code
    BY <1>10 DEF Send, ForwarderStep, call, Alive
  <2>. SUFFICES ASSUME asks = "run" PROVE [Contract!Next]_Contract!vars
    BY <2>1, QuietIsStutter
  <2>2. out = <<>>
    BY <1>10 DEF BridgeInv, OutFollows, Send, ForwarderStep
  <2>3. CASE Aborts("E_CONNECT")
    BY <2>1, <2>2, <2>3, AbortsIsStep DEF AbortCodes
  <2>4. CASE here' \in {"send", "start"} /\ out' = out
    <3>1. Alive'
      BY <2>4 DEF Alive
    <3>. QED
      BY <2>1, <2>4, <3>1, QuietIsStutter
  <2>5. Aborts("E_CONNECT") \/ (here' \in {"send", "start"} /\ out' = out)
    BY <1>10 DEF Send, ForwarderStep
  <2>. QED
    BY <2>3, <2>4, <2>5
<1>11. CASE DiscardStart
  <2>1. UNCHANGED call /\ asks' = asks /\ n' = n /\ kg' = kg /\ Alive /\ code' = code
    BY <1>11 DEF DiscardStart, ForwarderStep, call, Alive
  <2>. SUFFICES ASSUME asks = "run" PROVE [Contract!Next]_Contract!vars
    BY <2>1, QuietIsStutter
  <2>2. out = <<>>
    BY <1>11 DEF BridgeInv, OutFollows, DiscardStart, ForwarderStep
  <2>3. CASE Aborts("E_CONNECT")
    BY <2>1, <2>2, <2>3, AbortsIsStep DEF AbortCodes
  <2>4. CASE here' = "first" /\ out' = out
    <3>1. Alive'
      BY <2>4 DEF Alive
    <3>. QED
      BY <2>1, <2>4, <3>1, QuietIsStutter
  <2>. QED
    BY <1>11, <2>3, <2>4 DEF DiscardStart
<1>12. CASE FirstLine
  <2>1. UNCHANGED call /\ asks' = asks /\ n' = n /\ kg' = kg /\ Alive /\ code' = code
    BY <1>12 DEF FirstLine, ForwarderStep, call, Alive
  <2>. SUFFICES ASSUME asks = "run" PROVE [Contract!Next]_Contract!vars
    BY <2>1, QuietIsStutter
  <2>2. out = <<>>
    BY <1>12 DEF BridgeInv, OutFollows, FirstLine, ForwarderStep
  <2>3. CASE Aborts("E_CONNECT")
    BY <2>1, <2>2, <2>3, AbortsIsStep DEF AbortCodes
  <2>4. ASSUME ran[2] \in Events, ran[2].ev = "abort", Aborts(ran[2].code)
        PROVE  [Contract!Next]_Contract!vars
    <3>1. ran[2].code \in AbortCodes
      BY <2>4 DEF Events, StartEv, UnknownEv, MalformedEv
    <3>. QED
      BY <2>1, <2>2, <2>4, <3>1, AbortsIsStep
  <2>5. ASSUME Len(ran) > 1, ran[2].ev = "perms" PROVE FALSE
    <3>1. 2 \in DOMAIN ran
      BY <2>5 DEF BridgeInv, Typed
    <3>. QED
      BY <2>5, <3>1 DEF BridgeInv, RanFollows
  <2>6. ASSUME Writes(<<StartEv>>, "stream") PROVE [Contract!Next]_Contract!vars
    <3>1. (out' = <<StartEv>> /\ here' = "stream") \/ (out' = out /\ here' = "killed")
      <4>1. (out' = out \o <<StartEv>> /\ here' = "stream") \/ (out' = out /\ here' = "killed")
        BY <2>6, Zenon DEF Writes
      <4>. QED
        BY <2>2, <4>1
    <3>2. CASE out' = <<StartEv>> /\ here' = "stream"
      <4>1. Contract!Open(<<>>)
        BY DEF Contract!Open
      <4>2. Contract!Running /\ OfRun(out, <<>>) = <<>>
        BY <2>1, <2>2, <4>1 DEF Contract!Running, OfRun
      <4>3. Contract!Prints(<<Contract!StartEv>>)
        BY <2>1, <2>2, <3>2 DEF Contract!Prints, OfRun, Alive, Contract!StartEv, StartEv
      <4>4. Contract!Start
        BY <4>2, <4>3 DEF Contract!Start
      <4>. QED
        BY <4>4 DEF Contract!Next
    <3>3. CASE out' = out /\ here' = "killed"
      BY <2>1, <3>3, DiesIsStep
    <3>. QED
      BY <3>1, <3>2, <3>3
  <2>. QED
    BY <1>12, <2>3, <2>4, <2>5, <2>6, FirstCases
<1>13. CASE Relay
  <2>1. UNCHANGED call /\ asks' = asks /\ n' = n /\ kg' = kg /\ Alive /\ code' = code
    BY <1>13 DEF Relay, ForwarderStep, call, Alive
  <2>. SUFFICES ASSUME asks = "run" PROVE [Contract!Next]_Contract!vars
    BY <2>1, QuietIsStutter
  <2>2. /\ here = "stream" /\ read > 0 /\ Len(out) = read /\ \A i \in 1..read : out[i] = ran[i]
        /\ read < carried /\ carried <= Len(ran) /\ ran \in Seq(Events) /\ out \in Seq(Events)
        /\ read \in Nat /\ carried \in Nat
    BY <1>13 DEF BridgeInv, Typed, OutFollows, Carried, Relay, ForwarderStep, Ready
  <2>3. Incoming = ran[read + 1] /\ Incoming \in Events /\ read + 1 \in DOMAIN ran
    BY <2>2 DEF Incoming
  <2>4. out = SubSeq(ran, 1, read)
    <3>1. SubSeq(ran, 1, read) \in Seq(Events) /\ Len(SubSeq(ran, 1, read)) = read
          /\ \A i \in 1..read : SubSeq(ran, 1, read)[i] = ran[i]
      BY <2>2
    <3>. QED
      BY <2>2, <3>1, SeqEqual
  <2>5. Contract!Follows(out, Incoming)
    <3>3. ~Refused
      BY <2>2 DEF BridgeInv, SessionPlace
    <3>1. Eng!Follows(SubSeq(ran, 1, (read + 1) - 1), ran[read + 1])
      BY <2>3, <3>3 DEF BridgeInv, RanFollows
    <3>2. (read + 1) - 1 = read
      BY <2>2
    <3>. QED
      BY <2>3, <2>4, <3>1, <3>2, SameFollows
  <2>6. \/ out' = out /\ here' \in {"killed", "unknown"}
        \/ out' = out \o <<Incoming>> /\ here' \in {"stream", "ended"}
    BY <1>13, Zenon DEF Relay, Relays, Writes
  <2>7. CASE out' = out /\ here' = "killed"
    BY <2>1, <2>7, DiesIsStep
  <2>8. CASE out' = out /\ here' = "unknown"
    <3>1. Alive'
      BY <2>8 DEF Alive
    <3>. QED
      BY <2>1, <2>8, <3>1, QuietIsStutter
  <2>9. CASE out' = out \o <<Incoming>> /\ here' \in {"stream", "ended"}
    <3>1. Alive' /\ out # <<>>
      BY <2>2, <2>9 DEF Alive
    <3>. QED
      BY <2>1, <2>2, <2>3, <2>5, <2>9, <3>1, FollowsIsStep
  <2>. QED
    BY <2>6, <2>7, <2>8, <2>9
<1>14. CASE BridgeLost
  <2>1. UNCHANGED call /\ asks' = asks /\ n' = n /\ kg' = kg /\ Alive /\ code' = code
    BY <1>14 DEF BridgeLost, ForwarderStep, call, Alive
  <2>. SUFFICES ASSUME asks = "run" PROVE [Contract!Next]_Contract!vars
    BY <2>1, QuietIsStutter
  <2>2. out' = out /\ Alive'
    BY <1>14 DEF BridgeLost, ForwarderStep, Alive
  <2>. QED
    BY <2>1, <2>2, QuietIsStutter
<1>15. CASE StateUnknown
  <2>1. UNCHANGED call /\ asks' = asks /\ n' = n /\ kg' = kg /\ Alive /\ code' = code
    BY <1>15 DEF StateUnknown, ForwarderStep, call, Alive
  <2>. SUFFICES ASSUME asks = "run" PROVE [Contract!Next]_Contract!vars
    BY <2>1, QuietIsStutter
  <2>2. /\ out # <<>> /\ out \in Seq(Events) /\ \A i \in DOMAIN out : ~Ends(out[i])
    BY <1>15 DEF BridgeInv, Typed, OutFollows, StateUnknown, ForwarderStep
  <2>3. (out' = out \o <<UnknownEv>> /\ here' = "ended") \/ (out' = out /\ here' = "killed")
    BY <1>15, Zenon DEF StateUnknown, Writes
  <2>4. CASE out' = out /\ here' = "killed"
    BY <2>1, <2>4, DiesIsStep
  <2>5. CASE out' = out \o <<UnknownEv>> /\ here' = "ended"
    <3>1. Alive' /\ UnknownEv \in Events /\ UnknownEv = Contract!UnknownEv
      BY <2>5, EventsMade DEF Alive, UnknownEv, Contract!UnknownEv
    <3>2. ~Ends(out[Len(out)])
      BY <2>2
    <3>3. Contract!Follows(out, UnknownEv)
      BY <2>2, <3>1, <3>2 DEF Contract!Follows, Contract!Open, Contract!Ends, Ends
    <3>. QED
      BY <2>1, <2>2, <2>5, <3>1, <3>3, FollowsIsStep
  <2>. QED
    BY <2>3, <2>4, <2>5
<1>16. CASE Return
  <2>1. /\ asks' = asks /\ n' = n /\ kg' = kg /\ Alive /\ here = "ended" /\ here' = "exited"
        /\ out' = out /\ code' = ExitFor(out[Len(out)])
    BY <1>16 DEF Return, ForwarderStep, Alive, Last
  <2>. SUFFICES ASSUME asks = "run" PROVE [Contract!Next]_Contract!vars
    BY <2>1, QuietIsStutter
  <2>2. out # <<>> /\ Ends(out[Len(out)])
    BY <2>1 DEF BridgeInv, Verdict, TrueEnd, Ends, UnknownEv, AbortEv
  <2>3. ~Contract!Open(out)
    BY <2>2 DEF Contract!Open, Contract!Ends, Ends
  <2>4. OfRun(out, <<>>) = out
    BY DEF OfRun
  <2>5. ExitFor(out[Len(out)]) = Contract!ExitFor(out[Len(out)])
    BY DEF ExitFor, Contract!ExitFor, AbortExit, Contract!AbortExit
  <2>6. Contract!Exit
    BY <2>1, <2>3, <2>4, <2>5 DEF Contract!Exit, OfRun, Alive
  <2>. QED
    BY <2>6 DEF Contract!Next
<1>17. CASE ReaderLeaves
  BY <1>17, QuietIsStutter DEF ReaderLeaves
<1>18. CASE KillForwarder
  <2>1. UNCHANGED <<out, code, asks, n, kg>> /\ Alive /\ here' = "killed"
    BY <1>18 DEF KillForwarder
  <2>2. CASE asks = "run"
    BY <2>1, <2>2, DiesIsStep
  <2>3. CASE asks # "run"
    BY <2>1, <2>3, QuietIsStutter
  <2>. QED
    BY <2>2, <2>3
<1>19. CASE UNCHANGED bridgeVars
  BY <1>19, QuietIsStutter DEF bridgeVars
<1>20. CASE Refuses
  BY <1>20, QuietIsStutter DEF Refuses
<1>. QED
  BY StepCases, <1>1, <1>2, <1>3, <1>4, <1>5, <1>6, <1>7, <1>8, <1>9,
     <1>10, <1>11, <1>12, <1>13, <1>14, <1>15, <1>16, <1>17, <1>18, <1>19, <1>20
     DEF Stands, Forward, BridgeInv

\* A forwarded run keeps the contract the ssh wrapper relies on, for a
\* sequence of any length (forward.go relays what session.go writes).
THEOREM ForwardedRunKeepsContract == Spec => KeepsContract
<1>1. Init => Contract!Init
  BY DEF Init, Contract!Init, OfRun, Alive
<1>2. BridgeInv /\ BridgeInv' /\ [Next]_bridgeVars => [Contract!Next]_Contract!vars
  BY StepKeepsContract
<1>. QED
  BY <1>1, <1>2, BridgeInvariant, PTL DEF Spec, KeepsContract, Contract!Spec

=============================================================================
