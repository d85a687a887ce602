----------------------------- MODULE BridgePipe -----------------------------
(***************************************************************************)
(* The Windows session bridge's endpoint: processes started with --bridge, *)
(* one named pipe with one instance, and the callers that dial it.         *)
(*                                                                         *)
(* The instance is `pipe`: listening, connected, broken (the client has    *)
(* closed its end), disconnected, orphan (the server has closed its end    *)
(* and the client has not) or absent.  Unlike a socket file it goes with   *)
(* its process, but it is one object for all callers in turn, and one      *)
(* handle for the listener, the connection being served and Ctrl-C.        *)
(*                                                                         *)
(* What the pipe calls do is Windows' business: a client may connect from  *)
(* CreateNamedPipe on; ConnectNamedPipe fails on a broken instance until   *)
(* it is disconnected; DisconnectNamedPipe drops what was not read;        *)
(* CancelIoEx ends the calls that are pending and no later ones;           *)
(* CloseHandle waits for a call pending on the handle; the name is free    *)
(* when both ends are closed.                                              *)
(***************************************************************************)
EXTENDS Integers

CONSTANTS Bridges, Callers, RunLines
ASSUME PipeAssumption == RunLines \in Nat /\ "none" \notin Bridges \cup Callers

VARIABLES
  owner,    \* the bridge that has the server end open, or "none"
  pipe,     \* the state of the instance
  client,   \* the caller that has the client end open, or "none"
  early,    \* no ConnectNamedPipe has succeeded on the instance yet
  reply,    \* is the done line in the pipe
  pc,       \* [b |-> where runBridge stands]
  signal,   \* [b |-> where the signal goroutine stands in listener.Close]
  left,     \* [b |-> lines of its run still to execute]
  caller    \* [c |-> where DialBridge or the forwarder stands]

vars == <<owner, pipe, client, early, reply, pc, signal, left, caller>>

Init ==
  /\ owner = "none" /\ pipe = "absent" /\ client = "none" /\ early = TRUE /\ reply = FALSE
  /\ pc = [b \in Bridges |-> "off"]
  /\ signal = [b \in Bridges |-> "waiting"]
  /\ left = [b \in Bridges |-> 0]
  /\ caller = [c \in Callers |-> "idle"]

Moves(b, from, to) == pc[b] = from /\ pc' = [pc EXCEPT ![b] = to]
Becomes(c, from, to) == caller[c] = from /\ caller' = [caller EXCEPT ![c] = to]

\* Mutant: Close does not set l.closed.
NeverClosed(b) == FALSE

\* l.closed is set in Close, which holds l.mu from "closing" to "closed".
Closed(b) == signal[b] \in {"closing", "closed"}
MutexFree(b) == signal[b] # "closing"

Heard(b) == owner = b /\ pipe = "connected"

\* CloseHandle on the server end.
ServerCloses ==
  /\ owner' = "none"
  /\ pipe' = IF client = "none" THEN "absent" ELSE "orphan"
  /\ reply' = (reply /\ client # "none")
  /\ UNCHANGED client

-----------------------------------------------------------------------------
(* runBridge up to its loop.                                               *)

Start(b) == /\ Moves(b, "off", "create")
            /\ UNCHANGED <<early, owner, pipe, client, reply, signal, left, caller>>

\* FILE_FLAG_FIRST_PIPE_INSTANCE: CreateNamedPipe fails while the name exists.
ListenBridge(b) ==
  /\ IF pipe = "absent"
     THEN Moves(b, "create", "open") /\ owner' = b /\ pipe' = "listening" /\ early' = TRUE
     ELSE Moves(b, "create", "refused") /\ UNCHANGED <<owner, pipe, early>>
  /\ UNCHANGED <<client, reply, signal, left, caller>>

\* NewBridge may fail; then runBridge returns through its deferred Close.
OpenBackend(b) ==
  /\ Moves(b, "open", "accept") \/ Moves(b, "open", "close")
  /\ UNCHANGED <<early, owner, pipe, client, reply, signal, left, caller>>

-----------------------------------------------------------------------------
(* Accept.                                                                 *)

Accept(b) ==
  /\ MutexFree(b)
  /\ Moves(b, "accept", IF Closed(b) THEN "close" ELSE "connect")
  /\ UNCHANGED <<early, owner, pipe, client, reply, signal, left, caller>>

\* ConnectNamedPipe: ERROR_PIPE_CONNECTED is a connection, ERROR_NO_DATA and
\* the error of a closed handle are not.
Connect(b) ==
  /\ CASE owner = b /\ pipe = "connected" ->
            Moves(b, "connect", "request") /\ early' = FALSE /\ UNCHANGED pipe
       [] owner = b /\ pipe \in {"listening", "disconnected"} ->
            /\ Moves(b, "connect", IF Closed(b) THEN "late" ELSE "blocked")
            /\ pipe' = "listening" /\ early' = FALSE
       [] OTHER -> Moves(b, "connect", "failed") /\ UNCHANGED <<pipe, early>>
  /\ UNCHANGED <<owner, client, reply, signal, left, caller>>

\* The pending call ends once a client has connected, gone again or not.
Connected(b) ==
  /\ owner = b /\ pipe # "listening"
  /\ Moves(b, "blocked", "request") \/ Moves(b, "late", "request")
  /\ UNCHANGED <<early, owner, pipe, client, reply, signal, left, caller>>

\* Accept's error: runBridge's loop stops for ErrListenerClosed alone.
AcceptFails(b) ==
  /\ MutexFree(b)
  /\ Moves(b, "failed", IF Closed(b) THEN "close" ELSE "accept")
  /\ UNCHANGED <<early, owner, pipe, client, reply, signal, left, caller>>

-----------------------------------------------------------------------------
(* Handle: a run of `left` lines.  Engine and BridgeRun have the rest of   *)
(* it, a request that is refused for its size among it.                    *)

ReadRequest(b) ==
  /\ Moves(b, "request", "run")
  /\ left' = [left EXCEPT ![b] = IF Heard(b) THEN RunLines ELSE 0]
  /\ UNCHANGED <<early, owner, pipe, client, reply, signal, caller>>

\* A result that cannot be written cancels the run.
RunLine(b) ==
  /\ pc[b] = "run" /\ left[b] > 0
  /\ left' = [left EXCEPT ![b] = IF Heard(b) THEN @ - 1 ELSE 0]
  /\ UNCHANGED <<early, owner, pipe, client, reply, pc, signal, caller>>

WriteDone(b) ==
  /\ left[b] = 0 /\ Moves(b, "run", "flush")
  /\ reply' = (reply \/ Heard(b))
  /\ UNCHANGED <<early, owner, pipe, client, signal, left, caller>>

\* Mutant: the pipe is disconnected without a flush.
FlushNothing(b) ==
  /\ Moves(b, "flush", "disconnect")
  /\ UNCHANGED <<early, owner, pipe, client, reply, signal, left, caller>>

\* FlushFileBuffers: until the client has read everything, or the pipe breaks.
Flush(b) ==
  /\ ~(Heard(b) /\ reply)
  /\ Moves(b, "flush", "disconnect")
  /\ UNCHANGED <<early, owner, pipe, client, reply, signal, left, caller>>

\* Mutant: the handle is closed instead.
DisconnectCloses(b) ==
  /\ Moves(b, "disconnect", "accept")
  /\ IF owner = b THEN ServerCloses ELSE UNCHANGED <<owner, pipe, client, reply>>
  /\ UNCHANGED <<early, signal, left, caller>>

\* Mutant: no DisconnectNamedPipe once the client has gone.
DisconnectConnected(b) ==
  /\ Moves(b, "disconnect", "accept")
  /\ IF Heard(b)
     THEN /\ pipe' = "disconnected" /\ client' = "none" /\ reply' = FALSE
          /\ caller' = [caller EXCEPT ![client] = "lost"]
     ELSE UNCHANGED <<pipe, client, reply, caller>>
  /\ UNCHANGED <<early, owner, signal, left>>

\* DisconnectNamedPipe, also after a flush that failed.
Disconnect(b) ==
  /\ Moves(b, "disconnect", "accept")
  /\ IF owner = b
     THEN /\ pipe' = "disconnected" /\ client' = "none" /\ reply' = FALSE
          /\ caller' = [c \in Callers |-> IF c = client THEN "lost" ELSE caller[c]]
     ELSE UNCHANGED <<pipe, client, reply, caller>>
  /\ UNCHANGED <<early, owner, signal, left>>

-----------------------------------------------------------------------------
(* Ctrl-C and kill.                                                        *)

\* The deferred Close, a no-op if the signal goroutine has closed.
DeferredClose(b) ==
  /\ MutexFree(b) /\ Moves(b, "close", "exited")
  /\ IF owner = b THEN ServerCloses ELSE UNCHANGED <<owner, pipe, client, reply>>
  /\ UNCHANGED <<early, signal, left, caller>>

Serving(b) == pc[b] \in {"accept", "connect", "blocked", "late", "failed", "request", "run",
                         "flush", "disconnect"}
Running(b) == Serving(b) \/ pc[b] \in {"create", "open", "close"}

\* Before signal.Notify, Ctrl-C kills like any other signal.
CtrlC(b) ==
  /\ Serving(b) /\ signal[b] = "waiting"
  /\ signal' = [signal EXCEPT ![b] = "asked"]
  /\ UNCHANGED <<early, owner, pipe, client, reply, pc, left, caller>>

\* listener.Close: l.closed and CancelIoEx.
SignalCancels(b) ==
  /\ Running(b) /\ signal[b] = "asked"
  /\ signal' = [signal EXCEPT ![b] = "closing"]
  /\ pc' = [pc EXCEPT ![b] = CASE @ = "blocked" /\ pipe = "listening" -> "failed"
                               [] @ = "flush" -> "disconnect"
                               [] OTHER -> @]
  /\ UNCHANGED <<early, owner, pipe, client, reply, left, caller>>

\* CloseHandle has to wait for a call that CancelIoEx came too early for.
Pending(b) == pc[b] \in {"blocked", "late"} \/ (pc[b] = "flush" /\ Heard(b) /\ reply)

SignalCloses(b) ==
  /\ Running(b) /\ signal[b] = "closing" /\ ~Pending(b)
  /\ signal' = [signal EXCEPT ![b] = "closed"]
  /\ ServerCloses
  /\ UNCHANGED <<early, pc, left, caller>>

Kill(b) ==
  /\ Running(b)
  /\ pc' = [pc EXCEPT ![b] = "killed"]
  /\ IF owner = b THEN ServerCloses ELSE UNCHANGED <<owner, pipe, client, reply>>
  /\ UNCHANGED <<early, signal, left, caller>>

-----------------------------------------------------------------------------
(* Callers: DialBridge and what the forwarder then waits for.              *)

CreateFile(c, from) ==
  /\ CASE pipe = "listening" -> Becomes(c, from, "connected") /\ pipe' = "connected" /\ client' = c
       [] pipe = "absent"    -> Becomes(c, from, "refused") /\ UNCHANGED <<pipe, client>>
       [] OTHER              -> Becomes(c, from, "busy") /\ UNCHANGED <<pipe, client>>
  /\ UNCHANGED <<early, owner, reply, pc, signal, left>>

\* WaitNamedPipe returns when the instance listens, or fails when it is gone.
WaitNamedPipe(c) ==
  /\ \/ pipe = "listening" /\ Becomes(c, "busy", "retry")
     \/ pipe = "absent" /\ Becomes(c, "busy", "refused")
  /\ UNCHANGED <<early, owner, pipe, client, reply, pc, signal, left>>

\* The client end is closed.
ClientCloses ==
  /\ client' = "none" /\ reply' = FALSE
  /\ pipe' = IF pipe = "orphan" THEN "absent" ELSE "broken"

\* The forwarder reads the done line, or the end of a pipe without one.
ReadReply(c) ==
  /\ client = c /\ (reply \/ pipe = "orphan")
  /\ Becomes(c, "connected", IF reply THEN "done" ELSE "lost")
  /\ ClientCloses
  /\ UNCHANGED <<early, owner, pc, signal, left>>

\* The caller's process is killed.
Leave(c) ==
  /\ \/ \E at \in {"busy", "retry"} : Becomes(c, at, "gone") /\ UNCHANGED <<pipe, client, reply>>
     \/ Becomes(c, "connected", "gone") /\ ClientCloses
  /\ UNCHANGED <<early, owner, pc, signal, left>>

-----------------------------------------------------------------------------
BridgeStep(b) ==
  \/ ListenBridge(b) \/ OpenBackend(b) \/ Accept(b) \/ Connect(b) \/ Connected(b) \/ AcceptFails(b)
  \/ ReadRequest(b) \/ RunLine(b) \/ WriteDone(b) \/ Flush(b) \/ Disconnect(b) \/ DeferredClose(b)

SignalStep(b) == SignalCancels(b) \/ SignalCloses(b)
CallerStep(c) == CreateFile(c, "retry") \/ WaitNamedPipe(c) \/ ReadReply(c)

Next ==
  \/ \E b \in Bridges : BridgeStep(b) \/ SignalStep(b) \/ Start(b) \/ CtrlC(b) \/ Kill(b)
  \/ \E c \in Callers : CallerStep(c) \/ CreateFile(c, "idle") \/ Leave(c)

\* The processes are scheduled, and every run ends, as in BridgeSocket; nobody has
\* to start, interrupt or kill one.
Fairness == /\ \A b \in Bridges : WF_vars(BridgeStep(b)) /\ WF_vars(SignalStep(b))
            /\ \A c \in Callers : WF_vars(CallerStep(c))

Spec == Init /\ [][Next]_vars /\ Fairness

-----------------------------------------------------------------------------
TypesOK ==
  /\ owner \in Bridges \cup {"none"} /\ client \in Callers \cup {"none"}
  /\ pipe \in {"absent", "orphan", "listening", "connected", "broken", "disconnected"}
  /\ early \in BOOLEAN /\ reply \in BOOLEAN
  /\ pc \in [Bridges -> {"off", "create", "refused", "open", "accept", "connect", "blocked", "late", "failed",
                         "request", "run", "flush", "disconnect", "close", "exited", "killed"}]
  /\ signal \in [Bridges -> {"waiting", "asked", "closing", "closed"}]
  /\ left \in [Bridges -> 0..RunLines]
  /\ caller \in [Callers -> {"idle", "busy", "retry", "connected", "done", "lost", "refused", "gone"}]

\* The two ends of the pipe: a caller is connected exactly when it has the client end, and
\* the name exists as long as either end is open.
EndsAgree ==
  /\ owner = "none" <=> pipe \in {"absent", "orphan"}
  /\ client # "none" <=> pipe \in {"connected", "orphan"}
  /\ \A c \in Callers : caller[c] = "connected" <=> client = c
  /\ reply => client # "none"

Handling == {"request", "run", "flush", "disconnect"}

\* The one handle: a bridge has the pipe until its handle is closed, a pending
\* ConnectNamedPipe holds the handle, and a connection being handled is the one it was
\* given, broken, or closed.
HandlesAgree ==
  \A b \in Bridges :
    /\ owner = b <=> Running(b) /\ pc[b] # "create" /\ signal[b] # "closed"
    /\ pc[b] \in {"off", "create", "refused", "open"} => signal[b] = "waiting"
    /\ pc[b] \in {"blocked", "late"} => owner = b /\ pipe \in {"listening", "connected", "broken"}
    /\ pc[b] \in Handling /\ owner = b => pipe \in {"connected", "broken"}

\* The types, and what ties the pipe's two ends, the handle and the threads that use it
\* together (bridge_pipe.go): however bridges and callers come, go and die, nobody keeps an
\* end that the other side has lost track of.
PipeInv == TypesOK /\ EndsAgree /\ HandlesAgree

\* A client came before the first ConnectNamedPipe and left: the bridge calls
\* it again and again, it fails, and nothing disconnects the instance.
Jammed == early /\ pipe = "broken"

\* A caller that found the bridge is answered, cut off or refused, however
\* many others dial, leave, stop or kill a bridge: it is not left behind in
\* WaitNamedPipe or on a pipe nobody serves, unless the instance is jammed.
PipeCallersAreAnswered ==
  \A c \in Callers : caller[c] \in {"busy", "retry", "connected"} ~>
                       caller[c] \in {"done", "lost", "refused", "gone"} \/ Jammed

\* A caller that stays reads the end of its run: it loses the connection only
\* to a bridge that was interrupted or killed, never to DisconnectNamedPipe.
DoneIsRead ==
  (\E c \in Callers : caller[c] = "lost") =>
    \E b \in Bridges : pc[b] = "killed" \/ signal[b] # "waiting" \/ pc[b] = "exited"

\* Ctrl-C ends the bridge, wherever it finds the accept loop; only a call of
\* ConnectNamedPipe that is made between CancelIoEx and CloseHandle keeps both
\* threads until the next caller comes.
InterruptStops ==
  \A b \in Bridges : signal[b] = "asked" ~>
    pc[b] \in {"exited", "killed", "late"}
=============================================================================
