----------------------------- MODULE BridgeRun ------------------------------
(***************************************************************************)
(* A run handed to the session bridge: forwardToBridge in the ssh-started  *)
(* process, Session.Handle in the bridge, and one connection in between, a *)
(* unix socket (darwin) or a named pipe (windows).                         *)
(*                                                                         *)
(* `ran` is what Handle wrote or tried to write, the results of engine.Run *)
(* among it; `carried` of these events entered the connection, `read` were *)
(* read by the forwarder.  What has entered stays readable after the far   *)
(* end is closed, except where DisconnectNamedPipe discards it.  What      *)
(* Ctrl-C does to the pipe is one step here; BridgePipe has its parts.     *)
(* engine.Run is known by RunContract, which LocalRun shows it to keep,    *)
(* and by what a cancelled context does to it.                             *)
(***************************************************************************)
EXTENDS Stream, SequencesExt, FiniteSets

CONSTANTS MaxLines, LineStatuses
ASSUME BridgeRunAssumption == MaxLines \in Nat

VARIABLES
  n, kg, asks, jsonl, platform, sameVersion,   \* the request and the builds, fixed
  longLine,     \* the line whose result is over the scanner's 16 MiB, 0 if none
  excess,       \* what the request has over 16 MiB: nothing, what the buffer holds, more
  at, ran, carried, cancelled,                 \* Session.Handle
  serverOpen, quit, dropped,   \* the bridge's end; was it interrupted, its output discarded
  request, here, read, out, code, reader       \* the forwarder and its stdout

call      == <<n, kg, asks, jsonl, platform, sameVersion, longLine, excess>>
session   == <<at, ran, carried, cancelled>>
forwarder == <<request, here, read, out, code, reader>>
bridgeVars == <<call, session, serverOpen, quit, dropped, forwarder>>

Eng == INSTANCE RunContract WITH out <- ran, proc <- "running", code <- 0, MaxHeld <- 1

Init ==
  /\ n \in 0..MaxLines /\ kg \in BOOLEAN /\ jsonl \in BOOLEAN /\ sameVersion \in BOOLEAN
  /\ platform \in {"darwin", "windows"} /\ longLine \in {0, n}
  /\ excess \in {"none", "buffered", "blocking"}
  /\ asks \in {"run", "perms"} /\ (asks = "perms" => platform = "darwin" /\ n = 0)
  /\ (excess # "none" => asks = "run" /\ n > 0)
  /\ at \in {"accept", "absent"} /\ serverOpen = (at = "accept")
  /\ quit = FALSE /\ dropped = FALSE
  /\ ran = <<>> /\ carried = 0 /\ cancelled = FALSE
  /\ request = "undialed" /\ here = "dial" /\ read = 0
  /\ out = <<>> /\ code = 0 /\ reader = TRUE

Alive      == here \notin {"exited", "killed"}
CallerOpen == Alive /\ here # "dial"
Writable   == serverOpen /\ CallerOpen          \* does a write by Handle succeed
Gone       == at \in {"absent", "closed", "killed"}

-----------------------------------------------------------------------------
(* Session.Handle.                                                         *)

HandleStep(from, to) == /\ at = from /\ at' = to
                        /\ UNCHANGED <<call, quit, dropped, forwarder>>

Carries == carried' = IF Writable THEN carried + 1 ELSE carried
Sends(e) == ran' = Append(ran, e) /\ Carries

\* The connection may have waited in the queue, its caller gone since.
Accept == /\ HandleStep("accept", "read") /\ request # "undialed"
          /\ UNCHANGED <<ran, carried, cancelled, serverOpen>>

\* A request that is cut, by its caller or at 16 MiB, does not decode; one of
\* another version may not.
Undecodable ==
  \/ request = "all" /\ (excess # "none" \/ ~sameVersion)
  \/ request = "part" /\ (excess = "blocking" \/ ~CallerOpen)
  \/ request # "none" /\ ~serverOpen

\* Nothing is answered to a connection that ends before its first byte.
ReadRequest ==
  /\ \/ HandleStep("read", "start") /\ request = "all" /\ excess = "none" /\ serverOpen
        /\ UNCHANGED <<ran, carried>>
     \/ HandleStep("read", "close") /\ Undecodable /\ Sends(MalformedEv)
     \/ HandleStep("read", "close") /\ (~serverOpen \/ (request = "none" /\ ~CallerOpen))
        /\ UNCHANGED <<ran, carried>>
  /\ UNCHANGED <<cancelled, serverOpen>>

\* A caller that has gone gets no run.
WriteStart ==
  /\ \/ Writable /\ HandleStep("start", "answer") /\ Sends(StartEv)
     \/ ~Writable /\ HandleStep("start", "close") /\ UNCHANGED <<ran, carried>>
  /\ UNCHANGED <<cancelled, serverOpen>>

Answer ==
  /\ \/ ~sameVersion /\ HandleStep("answer", "close") /\ Sends(AbortEv("E_CONNECT"))
     \/ sameVersion /\ asks = "perms" /\ HandleStep("answer", "close")
        /\ \E e \in {AbortEv("E_VALIDATE"), PermsEv(TRUE), PermsEv(FALSE)} : Sends(e)
     \/ sameVersion /\ asks = "run" /\ HandleStep("answer", "run")
        /\ UNCHANGED <<ran, carried>>
  /\ UNCHANGED <<cancelled, serverOpen>>

EngineResult == Eng!Line \/ Eng!ExtraCapture \/ Eng!AutoRelease(1)

\* Mutant: OnResult ignores the error of its write.
EngineStepUncancelled ==
  /\ HandleStep("run", "run") /\ EngineResult /\ Carries
  /\ UNCHANGED <<cancelled, serverOpen>>

\* A cancelled run skips its lines, and the next write that fails cancels it.
EngineStep ==
  /\ HandleStep("run", "run") /\ EngineResult /\ Carries
  /\ cancelled /\ IsLine(Last(ran')) => Last(ran').status = "skip"
  /\ cancelled' = (cancelled \/ ~Writable)
  /\ UNCHANGED serverOpen

\* engine.Run returns: preflight aborted it, or every line has its result.
EngineReturns ==
  /\ HandleStep("run", "close")
  /\ (ran = <<StartEv>> /\ Sends(AbortEv("E_SESSION"))) \/ (Eng!Done /\ Carries)
  /\ UNCHANGED <<cancelled, serverOpen>>

\* Mutant: the pipe is disconnected without a flush.
CloseConnUnflushed ==
  /\ at = "close" /\ at' = "closed" /\ serverOpen' = FALSE
  /\ dropped' = (platform = "windows" /\ Writable)
  /\ UNCHANGED <<call, quit, forwarder, ran, carried, cancelled>>

\* Mutant: the flush does not end when the caller goes away.
CloseConnFlushedByReader ==
  /\ HandleStep("close", "closed") /\ serverOpen' = FALSE
  /\ platform = "windows" => read = carried
  /\ UNCHANGED <<ran, carried, cancelled>>

\* On Windows the flush waits for the caller to have read everything.
CloseConn ==
  /\ HandleStep("close", "closed") /\ serverOpen' = FALSE
  /\ platform = "windows" /\ Writable => read = carried
  /\ UNCHANGED <<ran, carried, cancelled>>

Handle == \/ Accept \/ ReadRequest \/ WriteStart \/ Answer
          \/ EngineStep \/ EngineReturns \/ CloseConn

\* Ctrl-C closes the listener: a queued connection is cut off.  The pipe's
\* only handle is also the connection's: a flush in progress is cancelled, and
\* what it waited for is discarded if DisconnectNamedPipe still finds the handle.
Quit ==
  /\ ~Gone /\ ~quit /\ quit' = TRUE
  /\ at' = IF at = "accept" THEN "closed" ELSE at
  /\ serverOpen' = (serverOpen /\ platform = "darwin" /\ at # "accept")
  /\ dropped' \in {FALSE, at = "close" /\ platform = "windows"}
  /\ UNCHANGED <<call, ran, carried, cancelled, forwarder>>

KillBridge ==
  /\ ~Gone /\ at' = "killed" /\ serverOpen' = FALSE
  /\ UNCHANGED <<call, ran, carried, cancelled, quit, dropped, forwarder>>

-----------------------------------------------------------------------------
(* forwardToBridge, and requestPerms over the bridge.                      *)

ForwarderStep(from) == /\ here = from
                       /\ UNCHANGED <<call, session, serverOpen, quit, dropped, reader>>

Incoming == ran[read + 1]
TooLong(e) == IsResult(e) /\ e.line = longLine /\ e.src = "op" /\ e.status = "ok"
Ready == read < carried /\ ~dropped /\ ~TooLong(Incoming)

\* scanner.Scan returns false
EOF == ~Ready /\ ((read < carried /\ ~dropped) \/ ~serverOpen)

\* A write to stdout without a reader kills a darwin process and is an error
\* on windows; where that is ignored the line counts as printed.
Writes(evs, next) ==
  IF reader \/ platform = "windows"
  THEN out' = out \o evs /\ here' = next
  ELSE here' = "killed" /\ UNCHANGED out

\* The abort closure: plain goes to stderr.
Aborts(c) ==
  IF jsonl THEN Writes(<<StartEv, AbortEv(c)>>, "ended")
  ELSE out' = Append(out, AbortEv(c)) /\ here' = "ended"

Dial ==
  /\ ForwarderStep("dial")
  /\ \/ at = "accept" /\ here' = "send" /\ request' = "none" /\ UNCHANGED out
     \/ Gone /\ Aborts("E_SESSION") /\ UNCHANGED request
  /\ UNCHANGED <<read, code>>

\* Encoding a validated sequence cannot fail.  Writing more than the far end
\* reads and the connection buffers blocks until the far end is closed.
Send ==
  /\ ForwarderStep("send")
  /\ \/ serverOpen /\ excess # "blocking" /\ here' = "start" /\ request' = "all" /\ UNCHANGED out
     \/ serverOpen /\ excess = "blocking" /\ request = "none" /\ request' = "part"
        /\ UNCHANGED <<here, out>>
     \/ ~serverOpen /\ Aborts("E_CONNECT") /\ UNCHANGED request
  /\ UNCHANGED <<read, code>>

\* The first line is taken for the start object without being looked at.
DiscardStart ==
  /\ ForwarderStep("start")
  /\ \/ Ready /\ read' = read + 1 /\ here' = "first" /\ UNCHANGED out
     \/ EOF /\ Aborts("E_CONNECT") /\ UNCHANGED read
  /\ UNCHANGED <<request, code>>

\* The line after start decides whether a start is printed here.
FirstLine ==
  /\ ForwarderStep("first")
  /\ \/ EOF /\ Aborts("E_CONNECT")
     \/ Ready /\ Incoming.ev = "abort" /\ Aborts(Incoming.code)
     \/ Ready /\ Incoming.ev = "perms"
        /\ Writes((IF jsonl THEN <<StartEv>> ELSE <<>>) \o <<Incoming>>, "ended")
     \/ Ready /\ Incoming.ev \in {"result", "done"} /\ Writes(<<StartEv>>, "stream")
  /\ UNCHANGED <<request, read, code>>

\* A relayed line that cannot be written ends the relay.
Relays == IF reader \/ platform = "darwin"
          THEN Writes(<<Incoming>>, IF Ends(Incoming) THEN "ended" ELSE "stream")
          ELSE here' = "unknown" /\ UNCHANGED out

Relay ==
  /\ ForwarderStep("stream") /\ Ready
  /\ Relays /\ read' = read + 1
  /\ UNCHANGED <<request, code>>

\* Mutant: the end of the stream is taken for the end of the run.
BridgeLostIsDone ==
  /\ ForwarderStep("stream") /\ EOF
  /\ Writes(<<DoneEv(Counted(out, {"ok", "warn"}), Counted(out, {"err"}),
                     Counted(out, {"skip"}))>>, "ended")
  /\ UNCHANGED <<request, read, code>>

BridgeLost == /\ ForwarderStep("stream") /\ EOF
              /\ here' = "unknown"
              /\ UNCHANGED <<request, read, out, code>>

StateUnknown == /\ ForwarderStep("unknown")
                /\ Writes(<<UnknownEv>>, "ended")
                /\ UNCHANGED <<request, read, code>>

\* The deferred conn.Close goes with the process.
Return == /\ ForwarderStep("ended")
          /\ here' = "exited" /\ code' = ExitFor(Last(out))
          /\ UNCHANGED <<request, read, out>>

Forward == \/ Dial \/ Send \/ DiscardStart \/ FirstLine \/ Relay
           \/ BridgeLost \/ StateUnknown \/ Return

ReaderLeaves ==
  /\ Alive /\ reader /\ reader' = FALSE
  /\ UNCHANGED <<call, session, serverOpen, quit, dropped, request, here, read, out, code>>

\* A forwarder that dies while it writes may leave part of its request.
KillForwarder ==
  /\ Alive /\ here' = "killed"
  /\ request' \in IF here = "send" THEN {request, "part"} ELSE {request}
  /\ UNCHANGED <<call, session, serverOpen, quit, dropped, read, out, code, reader>>

Over == ~Alive /\ (Gone \/ request = "undialed") /\ UNCHANGED bridgeVars

Next == \/ Handle \/ Forward
        \/ Quit \/ KillBridge \/ ReaderLeaves \/ KillForwarder
        \/ Over

Spec == Init /\ [][Next]_bridgeVars

\* Bridge and forwarder are scheduled, no exec line hangs in the bridge and the
\* system calls that are not modelled as waiting return; a forwarder that is
\* stopped for good would keep the bridge, which sets no deadline for its caller.
FairSpec == Spec /\ WF_bridgeVars(Handle) /\ WF_bridgeVars(Forward)

-----------------------------------------------------------------------------
\* At most one line is executed whose result found no caller, -k or not, and
\* none if the caller had gone by the time its request was read.
AtMostOneLineUnheard ==
  Cardinality({i \in (carried + 1)..Len(ran) : IsLine(ran[i]) /\ ran[i].status # "skip"})
    <= IF carried = 0 THEN 0 ELSE 1

Broke == at = "killed" \/ quit \/ ~reader \/ ~sameVersion \/ longLine # 0 \/ excess # "none"

\* Up to its last result, what is printed is what the bridge ran.  Exit 0 and 1 are its
\* verdict on a run relayed in full; after 2 or 4 it ran no line, nor will.
\* 3 and 5 tell of something that broke: a bridge that was killed or
\* interrupted, a lost reader, a version that differs, a request or a result over
\* 16 MiB.  A run that went well is not lost because its last lines were still on
\* the way.
ExitCodesSpeakForTheBridge ==
  /\ \A i \in DOMAIN out : IsResult(out[i]) => IsPrefix(SubSeq(out, 1, i), ran)
  /\ here = "exited" /\ code \in {3, 5} => Broke
  /\ here = "exited" /\ asks = "run" =>
       /\ code \in {0, 1} => out = ran
       /\ code \in {2, 4} => /\ \A i \in DOMAIN ran : ~IsResult(ran[i])
                             /\ IF ran = <<>> THEN Gone ELSE Ends(Last(ran))

OfRun(x, other) == IF asks = "run" THEN x ELSE other

Contract == INSTANCE RunContract WITH
  out <- OfRun(out, <<>>), code <- OfRun(code, 0), MaxHeld <- 1,
  proc <- OfRun(IF Alive THEN "running" ELSE here, "running")

\* A forwarded run keeps the contract of a local one, whichever end dies, so
\* that the ssh wrapper may rely on it for both.
KeepsContract == Contract!Spec

\* A caller that still writes what Handle has stopped reading, and Handle's
\* flush, which waits for that caller to read: they hold each other.
Wedged == platform = "windows" /\ at = "close" /\ here = "send" /\ request = "part"

\* The bridge becomes free again for the next caller, whatever becomes of
\* this one; only a pipe's caller whose request is over 16 MiB may hold it.
BridgeIsFreed == (at = "read" ~> Gone) \/ <>[]Wedged
=============================================================================
