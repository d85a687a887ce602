---------------------------- MODULE BridgeSocket ----------------------------
(***************************************************************************)
(* The macOS session bridge's endpoint: processes started with --bridge    *)
(* that compete for one socket path, and the callers that dial it.         *)
(*                                                                         *)
(* `path` is the listener whose socket file is at the path, or "none"; the *)
(* file outlives a killed process, and a listener outlives its file.  A    *)
(* path is removed by name, whosever file is there: by ListenBridge after  *)
(* its probe, and by Close, which runs on Ctrl-C in the signal goroutine   *)
(* and once more when runBridge returns.                                   *)
(*                                                                         *)
(* A run is `left` lines long; what a line does is Engine's business.      *)
(***************************************************************************)
EXTENDS Integers, Sequences, FiniteSets, SequencesExt

CONSTANTS Bridges, Callers, RunLines
ASSUME BridgeAssumption == RunLines \in Nat /\ "none" \notin Bridges \cup Callers

VARIABLES
  path,        \* the socket file
  listening,   \* [b |-> is its listening socket open]
  backlog,     \* [b |-> connections the kernel has queued for it]
  pc,          \* [b |-> where runBridge stands]
  signal,      \* [b |-> where the signal goroutine stands]
  serving,     \* [b |-> the connection Handle serves]
  left,        \* [b |-> lines of that run still to execute]
  caller,      \* [c |-> what the caller knows]
  careful      \* is the user careful (below), fixed

vars == <<path, listening, backlog, pc, signal, serving, left, caller, careful>>

Init ==
  /\ path = "none"
  /\ listening = [b \in Bridges |-> FALSE]
  /\ backlog = [b \in Bridges |-> <<>>]
  /\ pc = [b \in Bridges |-> "off"]
  /\ signal = [b \in Bridges |-> "waiting"]
  /\ serving = [b \in Bridges |-> "none"]
  /\ left = [b \in Bridges |-> 0]
  /\ caller = [c \in Callers |-> "idle"]
  /\ careful \in BOOLEAN

Moves(b, from, to) == pc[b] = from /\ pc' = [pc EXCEPT ![b] = to]

\* A connection is made when the file at the path has a live listener.
Connects == path # "none" /\ listening[path]

\* The callers queued at b are cut off.
CutOff(b) == [c \in Callers |-> IF c \in ToSet(backlog[b]) \cup {serving[b]}
                                THEN "lost" ELSE caller[c]]

-----------------------------------------------------------------------------
(* ListenBridge.                                                           *)

Start(b) == /\ Moves(b, "off", "probe")
            /\ UNCHANGED <<path, listening, backlog, signal, serving, left, caller>>

\* Mutant: the dial probe is left out.
ProbeNothing(b) ==
  /\ Moves(b, "probe", "remove")
  /\ UNCHANGED <<path, listening, backlog, signal, serving, left, caller>>

\* The probe's own connection is closed at once; Handle reads EOF from it.
Probe(b) ==
  /\ Moves(b, "probe", IF Connects THEN "exited" ELSE "remove")
  /\ UNCHANGED <<path, listening, backlog, signal, serving, left, caller>>

\* Mutant: a stale socket file is left where it is.
KeepStale(b) ==
  /\ Moves(b, "remove", "bind")
  /\ UNCHANGED <<path, listening, backlog, signal, serving, left, caller>>

RemoveStale(b) ==
  /\ Moves(b, "remove", "bind")
  /\ path' = "none"
  /\ UNCHANGED <<listening, backlog, signal, serving, left, caller>>

\* bind fails when there is a file at the path.
Bind(b) ==
  /\ IF path = "none"
     THEN Moves(b, "bind", "listen") /\ path' = b
     ELSE Moves(b, "bind", "exited") /\ UNCHANGED path
  /\ UNCHANGED <<listening, backlog, signal, serving, left, caller>>

Listen(b) ==
  /\ Moves(b, "listen", "chmod")
  /\ listening' = [listening EXCEPT ![b] = TRUE]
  /\ UNCHANGED <<path, backlog, signal, serving, left, caller>>

\* UnixListener.Close: the path is unlinked, then the socket closed.
Closes(b) ==
  /\ path' = "none"
  /\ listening' = [listening EXCEPT ![b] = FALSE]
  /\ backlog' = [backlog EXCEPT ![b] = <<>>]
  /\ caller' = [c \in Callers |-> IF c \in ToSet(backlog[b]) THEN "lost" ELSE caller[c]]

\* chmod by name fails when somebody has removed the file.
Chmod(b) ==
  /\ IF path # "none"
     THEN Moves(b, "chmod", "open") /\ UNCHANGED <<path, listening, backlog, caller>>
     ELSE Moves(b, "chmod", "exited") /\ Closes(b)
  /\ UNCHANGED <<signal, serving, left>>

\* NewBridge may fail; then runBridge returns through its deferred Close.
OpenBackend(b) ==
  /\ Moves(b, "open", "accept") \/ Moves(b, "open", "close")
  /\ UNCHANGED <<path, listening, backlog, signal, serving, left, caller>>

-----------------------------------------------------------------------------
(* runBridge's loop: one connection at a time.                             *)

Accept(b) ==
  /\ listening[b] /\ backlog[b] # <<>>
  /\ Moves(b, "accept", "run")
  /\ serving' = [serving EXCEPT ![b] = Head(backlog[b])]
  /\ backlog' = [backlog EXCEPT ![b] = Tail(@)]
  /\ left' = [left EXCEPT ![b] = RunLines]
  /\ UNCHANGED <<path, listening, signal, caller>>

RunLine(b) ==
  /\ pc[b] = "run" /\ left[b] > 0
  /\ left' = [left EXCEPT ![b] = @ - 1]
  /\ UNCHANGED <<path, listening, backlog, pc, signal, serving, caller>>

\* Mutant: Handle returns without closing the connection.
EndRunUnclosed(b) ==
  /\ left[b] = 0 /\ Moves(b, "run", "accept")
  /\ serving' = [serving EXCEPT ![b] = "none"]
  /\ UNCHANGED <<path, listening, backlog, signal, left, caller>>

EndRun(b) ==
  /\ left[b] = 0 /\ Moves(b, "run", "accept")
  /\ caller' = [caller EXCEPT ![serving[b]] = "done"]
  /\ serving' = [serving EXCEPT ![b] = "none"]
  /\ UNCHANGED <<path, listening, backlog, signal, left>>

ListenerClosed(b) ==
  /\ ~listening[b] /\ Moves(b, "accept", "close")
  /\ UNCHANGED <<path, listening, backlog, signal, serving, left, caller>>

\* The deferred Close; its unlink is done once, its os.Remove every time.
DeferredClose(b) ==
  /\ Moves(b, "close", "exited")
  /\ Closes(b)
  /\ UNCHANGED <<signal, serving, left>>

-----------------------------------------------------------------------------
(* Ctrl-C and kill.                                                        *)

Starting(b) == pc[b] \in {"probe", "remove", "bind", "listen", "chmod", "open"}
Serving(b)  == pc[b] \in {"accept", "run"}
Running(b)  == Starting(b) \/ Serving(b) \/ pc[b] = "close"

\* Before signal.Notify, Ctrl-C kills like any other signal.
CtrlC(b) ==
  /\ Serving(b) /\ signal[b] = "waiting"
  /\ signal' = [signal EXCEPT ![b] = "asked"]
  /\ UNCHANGED <<path, listening, backlog, pc, serving, left, caller>>

\* The signal goroutine: listener.Close(), in two steps.
SignalCloses(b) ==
  /\ Running(b) /\ signal[b] = "asked"
  /\ signal' = [signal EXCEPT ![b] = "closed"]
  /\ Closes(b)
  /\ UNCHANGED <<pc, serving, left>>

SignalRemoves(b) ==
  /\ Running(b) /\ signal[b] = "closed"
  /\ signal' = [signal EXCEPT ![b] = "removed"]
  /\ path' = "none"
  /\ UNCHANGED <<listening, backlog, pc, serving, left, caller>>

Kill(b) ==
  /\ Running(b)
  /\ pc' = [pc EXCEPT ![b] = "killed"]
  /\ listening' = [listening EXCEPT ![b] = FALSE]
  /\ backlog' = [backlog EXCEPT ![b] = <<>>]
  /\ serving' = [serving EXCEPT ![b] = "none"]
  /\ caller' = CutOff(b)
  /\ UNCHANGED <<path, signal, left>>

-----------------------------------------------------------------------------
(* Callers.                                                                *)

Dial(c) ==
  /\ caller[c] = "idle"
  /\ IF Connects
     THEN /\ caller' = [caller EXCEPT ![c] = "waiting"]
          /\ backlog' = [backlog EXCEPT ![path] = Append(@, c)]
     ELSE caller' = [caller EXCEPT ![c] = "refused"] /\ UNCHANGED backlog
  /\ UNCHANGED <<path, listening, pc, signal, serving, left>>

-----------------------------------------------------------------------------
BridgeStep(b) ==
  \/ Probe(b) \/ RemoveStale(b) \/ Bind(b) \/ Listen(b) \/ Chmod(b) \/ OpenBackend(b)
  \/ Accept(b) \/ RunLine(b) \/ EndRun(b) \/ ListenerClosed(b) \/ DeferredClose(b)

SignalStep(b) == SignalCloses(b) \/ SignalRemoves(b)

\* A careful user starts or interrupts a bridge only when no other is starting
\* or stopping; what is killed is killed at any time.
Settled == \A b \in Bridges : ~Starting(b) /\ pc[b] # "close"
                              /\ (Serving(b) => signal[b] = "waiting")

UserStep(b) == Kill(b) \/ ((careful => Settled) /\ (Start(b) \/ CtrlC(b)))

Next == /\ \/ \E b \in Bridges : BridgeStep(b) \/ SignalStep(b) \/ UserStep(b)
           \/ \E c \in Callers : Dial(c)
        /\ UNCHANGED careful

\* The processes are scheduled, and every run ends: what Engine's Terminates
\* leaves open, an exec or open line that never returns, is taken not to happen.
Fairness == \A b \in Bridges :
  WF_vars(BridgeStep(b) /\ UNCHANGED careful) /\ WF_vars(SignalStep(b) /\ UNCHANGED careful)

Spec == Init /\ [][Next]_vars /\ Fairness

-----------------------------------------------------------------------------
\* A caller that got through is answered or cut off, whoever starts, stops
\* or is killed, and also by a bridge whose socket file is gone.
CallersAreAnswered == \A c \in Callers : caller[c] = "waiting" ~> caller[c] \in {"done", "lost"}

\* With a careful user, at most one bridge serves, and one that was not
\* interrupted can be dialed: the file at the path is its own.
ServingIsReachable ==
  careful =>
    /\ Cardinality({b \in Bridges : Serving(b)}) <= 1
    /\ \A b \in Bridges : Serving(b) /\ signal[b] = "waiting" => path = b /\ listening[b]

\* With a careful user, what a killed bridge left behind does not keep the
\* next one from starting: it exits 2 only when another one serves.
StaleFileStopsNobody ==
  [][\A b \in Bridges : (careful /\ pc[b] = "bind" => pc'[b] # "exited")]_vars
=============================================================================
