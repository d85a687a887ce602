# gotto-hando in TLA+

gotto-hando runs a short sequence of input commands (keys, clicks, drags, text,
captures, ...) against the desktop of the local machine, of a machine behind
ssh, or of the GUI session of the machine an ssh login landed on. These modules
model what can go wrong in it: inputs left pressed, lines run that nobody is
told about, results that do not say what happened, operations that change on the
way to the machine that runs them, children and callers left behind.

## 1. The system

| Component | State | Operations | Talks to |
|---|---|---|---|
| sequence, `internal/ir` | list of operations | `Validate` (held balance, limits) | parser, engine |
| parser, `internal/syntax` | none | text to `ir.Sequence` | CLI, ssh wrapper |
| IR document, `ir/json.go`, `json_decode.go` | none | operations to the request of a bridge and back | forwarder, bridge session |
| engine, `internal/engine` | `heldState`, the current line, `Summary`, `failed`, `ctx` | `Run`: preflight, one handler per kind, fail-fast and `-k`, `--cap-on-error`, `releaseAll`; the waits of win, open and cap | backend (calls), CLI or bridge (`OnResult` callback) |
| backends, `internal/backend/{darwin,windows,dryrun}` | macOS: modifier flags, held button, click counts; Windows: none | KeyDown, KeyUp, ButtonDown, ... each may fail | the OS |
| exec, `backend/{darwin,windows}/exec.go` | the child, its deadline, a Job Object, the capped output | `Exec` | the child and what it starts |
| output, `internal/output` | none | start, result, done, abort; exit codes | stdout, stderr |
| local run, `cmd/gotto-hando/dispatch.go` | the process, its context | open the backend, run, stream or print, exit | engine, stdout's reader |
| ssh wrapper, `cmd/gotto-hando/remote.go`, `internal/remote` | totals, the scanner, the local files | spawn ssh, wait for start, relay, synthesize done | ssh, the far `gotto-hando local` |
| macOS bridge endpoint, `darwin/bridge_socket.go`, `dispatch_darwin.go` | socket file, listener, accept queue, signal goroutine | probe, remove, bind, listen, chmod, accept, close | other bridges (through the path), callers |
| bridge session, `internal/bridge` | one mutex, the run's context | `Handle`: read the request, start, run, done | forwarder (one connection), engine |
| forwarder, `forwardToBridge`, `bridge_relay.go` | totals | dial, send, discard start, relay | bridge session, stdout |
| Windows bridge endpoint, `windows/bridge_pipe.go` | one pipe instance, one handle | accept, close, flush, disconnect, dial | callers, the signal goroutine |

The engine is one goroutine. Concurrency lies around it: the process that reads
stdout or drops it, the ssh connection and the far process, the bridge's signal
goroutine, other bridges at the same path, the callers in the kernel's queue,
the child of an exec line and the timer that kills it, the desktop whose windows
come and go while a line waits for one.

What each has to get right:

* engine: whatever backend call fails, an input is up again at the end of its
  line unless it is held, and at the end of the run in any case; every line has
  one result, streamed as well as counted; after a stop nothing is pressed.
* local run: its output is a well-formed run, also when the run aborts; when
  the reader has gone the run stops.
* ssh wrapper: what it prints is what the far side printed, and its exit code
  says no more than what it knows.
* bridge endpoint: the path leads to the one bridge that serves; nobody who got
  through waits for ever; what a killed bridge left behind stops nobody; Ctrl-C
  ends the bridge.
* exec: the line's verdict is about the child that ran; nothing it owns is left
  running; the deadline ends it.
* backends: a call that returns nil has happened; what macOS keeps between calls
  agrees with what is down.
* parser, IR document, rewriting for ssh: the operations that run are the ones
  that were accepted, and what is accepted is within the limits.

## 2. Modules

| Module | Models | Code |
|---|---|---|
| `Program` | operations, `Validated` (held balance) | `ir/ops.go`, `ir/validate.go` |
| `Engine` | `engine.Run` against a backend whose calls may fail | `engine/run.go`, `compose.go`, `drag.go`, `held.go`, `capture.go` |
| `EngineProofs` | the theorems about `Engine` and `LocalRun` | |
| `Stream` | the events a run prints, the exit codes | `output/writer.go`, `output/codes.go` |
| `RunContract` | abstract: what any process that runs a sequence promises to its reader | |
| `LocalRun` | the process around `engine.Run`; EXTENDS `Engine` | `dispatch.go` |
| `RemoteRun` | `runRemote`, ssh, and a far process known only by `RunContract` | `remote.go`, `remote/relay.go` |
| `BridgeSocket` | several `--bridge` processes and their callers at one socket path | `bridge_socket.go`, `dispatch_darwin.go` |
| `BridgeRun` | `Session.Handle`, the forwarder and the connection between them, unix socket or named pipe | `bridge/session.go`, `dispatch_darwin.go`, `bridge_relay.go`, `bridge_pipe.go` |
| `BridgePipe` | several `--bridge` processes and their callers at the one instance of the named pipe | `bridge_pipe.go`, `dispatch_windows.go` |
| `ExecChild` | one exec line and the processes it starts, both platforms | `darwin/exec.go`, `windows/exec.go`, `doExec` |
| `Schedule` | one win, open or cap line against a clock | `engine/schedule.go`, `doFocus`, `doOpen`, `doCap` |
| `Input` | the keyboard and mouse calls of both backends | `keyboard.go`, `mouse.go`, `input.go` |
| `Syntax` | a line of text to an operation | `internal/syntax` |
| `IR` | `Validate`, and the IR document both ways; EXTENDS `Syntax` | `validate.go`, `limits.go`, `json.go`, `json_decode.go` |
| `Document` | a sequence from the caller's lines to the engine that runs it; EXTENDS `IR` | `lines.go`, `analyze.go`, `inline.go`, `remote/remote.go`, `bridge/wire.go` |
| `MCEngine`, `MCLocalRun`, `MCExecChild`, `MCInput`, `MCDocument` | the programs, texts, lines and options TLC is given | |
| `BridgeRunProofs`, `BridgeSocketProofs`, `ExecChildProofs` | the theorems about these modules | |
| `ConnectionProofs` | the theorems about the two connections a run is relayed over, `RemoteRun` and `BridgePipe` | |
| `OperationProofs` | the theorems about one operation under the engine, `Input` and `Schedule` | |
| `LineProofs` | of one line: what `Syntax`, `IR` and `Document`'s operators make of it | |
| `DocumentProofs` | the theorems about `Document`; EXTENDS `LineProofs` | |
| `InputDocs`, `RemoteDocs` | statements of the documentation that the code does not keep | |

**Engine.** `phase` says where `Run` and the running handler stand; a handler
with a loop takes one step per backend call, since each of them may fail and
the code then takes another way. `down` is what the OS sees as pressed,
`keys` and `buttons` are `heldState`, `flags` and `chord` the Go locals
`pressed` (`pressMods`) and `down` (`doKey`, the kd branch). A release that
fails leaves its input down and is remembered in `lost`, a variable the code
does not have; the properties speak of runs with `lost = {}` where a failed
release excuses the code. Kinds that take no input (txt, m, scroll, cap,
...) are one call that ends ok, warn or err. So are exec and open, of kind `exec`,
but they wait for another program (`WaitsForProgram`), and nothing obliges that call
to return. `cancelled` is the run's
context: it is cancelled by a failed write in `OnResult`, that is, only when a
result is recorded; in `Engine` that may happen at any streamed result.

**RunContract** has the sequence's length, `-k`, what was printed and the exit
code as its state, and one action per thing that may be printed next: a start;
the next line's result (a skip once a line was skipped, or failed without -k);
the extra capture after an err; the auto-release warns, one by one or together;
a done with the true totals, a done with state=unknown, or, before the first
result, an abort; then the exit code that goes with it. It is the interface
between the parts: `LocalRun`, `BridgeRun` and `RemoteRun` are shown to implement it
(`KeepsContract`, checked and proved), and `RemoteRun` assumes no more of the far
process. `Follows(s, e)` is the contract as a relation, whether event e may follow
the output s; the proofs carry it through the parts.

**LocalRun** conjoins `Engine`'s steps with the process's own: a streamed result
is written in the step that records it. `seen` counts the events that had a
reader. A write without a reader kills the process on Unix (SIGPIPE on
descriptor 1, `main.go` passes `os.Stdout`) and is an error on Windows: `platform`
is chosen at the start and decides which.

**RemoteRun.** `fout` is the far output; ssh delivers a prefix of it. `up` is the
connection; after it ends, some of the `cut` events may still arrive, and the
far process does whatever its contract allows. `here` is where `runRemote`
stands. `files[l]` is the file that line l names, with where its content came
from: its own, clipboard text, a capture, nothing (written empty), or part of a
content whose write failed (`Spoiled`).

**BridgeSocket.** `path` says whose socket file is there. Every system call that
names the path is one step; `Close` is two (the listener's own unlink and the
`os.Remove` that follows), run by the signal goroutine (`signal`) and once more by the
main one (`pc`). A run is a number of lines; what a line does is Engine's.
`careful`, fixed at the start, says whether the user starts and interrupts a bridge
only when no other bridge is starting or stopping; kills come at any time.

**BridgeRun.** One caller and one bridge. `at` is where `Session.Handle` stands,
from the queued connection (`accept`) to the closed one; `ran` is every event it
wrote or tried to write, `carried` how many entered the connection, `read` how
many the forwarder took out. A write fails once either end is closed
(`Writable`), and the first that fails cancels the run. `request` tells how much
of the request was sent, as the forwarder may die while writing it. `excess` is what
the request has over the 16 MiB that `Handle` reads: nothing, no more than the
connection buffers (the write returns), or more (it blocks until the far end is
closed). A request that is cut, or that an older build cannot decode, is answered with a
line that is no event (`MalformedEv`) and closed; the forwarder takes that line for the
start and then reports E_CONNECT. `dropped` says that DisconnectNamedPipe discarded
what was carried, after Ctrl-C has cancelled the flush before it; CancelIoEx and
CloseHandle are one step here and their own steps in `BridgePipe`. engine.Run is
`RunContract` with `ran` as its output, plus what cancellation does to a line; the
forwarder in turn is shown to keep `RunContract`, so `RemoteRun`'s far process may
be a local run or a forwarded one. The two platforms differ in three places: a
write to a lost stdout kills (darwin) or fails (windows); Ctrl-C of the bridge
closes only the listener (darwin) or the one handle of listener and connection
(windows); and closing the connection flushes first on windows. `--request-perms`
takes the same path (`asks`), and has no contract to keep.

**BridgePipe.** `pipe` is the one instance, `owner` the process with its server end,
`client` the caller with the other. A caller may be connected before anybody has
called ConnectNamedPipe, and gone again; `early` remembers that no such call has
succeeded yet. Accept is split where another thread can come between: the check of
`closed`, ConnectNamedPipe, its return. `signal` is `Close` in the signal goroutine,
which holds the mutex from `closing` to `closed`: CancelIoEx ends only what is
pending, so a call made after it (`late`) keeps CloseHandle waiting. What the pipe
does is Windows' business, and is stated at the head of the module.

**ExecChild.** The child may fork once; what it forks is in the job only if the
child was when it forked, and may or may not hold the child's stdout. `Wait`
returns when the child has ended and nobody holds its stdout. On macOS the
deadline runs from before the start and kills the child alone; on Windows it runs
from `select` and kills the job. Output is a stream over three bytes, enough for
valid text, a character cut in two, and a byte that is never valid;
`DecodeCodePage` is the strict decoding of the whole and the scan by shortest
valid character that follows its failure.

**Schedule.** Time is in ticks; `due` bounds the call in progress. `seen` is what the
window list has been since the query began, as its answer may be of any moment in
between; `absentAt` is when no window matched last.

**Input.** `heldFlags`, `heldButton` and `clickState` are the fields of macOS's backend
and live as long as it does; `down`, `at`, `counts` are what the posted events
amounted to. Keys are symbols, and `Keycode` what they come to on the platform.
`missed`, `stale` and `several` are not in the code: they remember that an event
was not created, for which modifier, and that two buttons were down together;
the properties except exactly these.

**Syntax, IR, Document.** A line is kept as its grammar cuts it: command,
modifier tokens, words, or characters where they matter (texts, exec). `Commands`
is `commands.go`'s table, `BuildOp` has one operator for each branch of `buildOp`.
`OpNode` lists an operation's fields as the encoder does and `DecodeOp` as the
decoder does, separately, so a field that one of them forgets is lost. `Document`
runs the whole way: near side, and for ssh the far side again from its first line.
`at` is the line being parsed or the operation being inlined, `request` the IR
document. `Lines` and `IsCut` are what `parseLine` may have cut a line into, and all
that is assumed of a document (`DocumentAssumption`). `Trim` is the
`strings.TrimSpace` that exec's payload goes through and no text does, which is why
a carriage return at its end means nothing there. `f ++ g` puts the fields of
two objects together.

A module's specification is `Spec`, but `LocalSpec`, `RemoteSpec` and `ScheduleSpec` in
`LocalRun`, `RemoteRun` and `Schedule`, which are extended together with another module.
Durations are scaled and converted as the code does it; what becomes of one that
64 bits do not hold is the processor's choice (`bigs`, one for each side).

## 3. Runs

| Run | Checks | Instance |
|---|---|---|
| `engine` | `IInv` (with `TypeOK`), `NothingLeftDown`, `LinesLeaveOnlyHeld`, `ResultsComplete`, `ReleasesNameLinesThatSucceeded`, `StopsPressing`, `Terminates` | all valid programs of at most 2 of the operations of `MCOps` and of 3 of `MCHoldOps`, all options |
| `local` | `AtMostOneLineUnread`, `ExitLeavesNothingDown`, `KeepsContract`, `ProcessEnds` | 2 lines of `LocalOps`, all options, three platforms |
| `remote` | `ExitCodesSpeakForTheFarSide`, `FilesFollowResults`, `KeepsContract`, `WrapperReturns` | 2 lines, each qclip[f] or one that reads a file, statuses ok, err, skip, both output modes |
| `bridge` | `ServingIsReachable`, `CallersAreAnswered`, `StaleFileStopsNobody` | 2 bridges, 2 callers, runs of 2 lines, careful and careless users |
| `bridge_run` | `AtMostOneLineUnheard`, `ExitCodesSpeakForTheBridge`, `KeepsContract`, `BridgeIsFreed` | 2 lines, statuses ok, err, skip, both platforms and output modes, a request within 16 MiB, a little over it, far over it |
| `pipe` | `PipeInv`, `PipeCallersAreAnswered`, `DoneIsRead`, `InterruptStops` | 2 bridges, 2 callers, runs of 2 lines |
| `exec` | `LineSpeaksForTheChild`, `NothingItOwnsIsLeft`, `OutputIsFaithful`, `DeadlineEndsTheLine` | one child, one process it leaves, a cap of 3 bytes, the texts of `MCTexts`, both platforms |
| `schedule` | `PatientAndPunctual`, `BurstKeepsTime`, `LineEnds` | waits of 0, 1, 2 and 5 ticks with a poll interval of 2, queries up to 1 tick; 3 frames 3 ticks apart that take up to 5; sleeps up to 1 late |
| `input` | `NilMeansDone`, `FlagsTellTheModifiers`, `PointerEventsTellTheButtons` | 3 keys, 2 buttons, 2 texts, 1 event that cannot be created, click counts to 2, both platforms |
| `document` | `BridgeCarriesTheOps`, `SshCarriesTheOps`, `AcceptedKeepsLimits` | every line of `MCDocument` alone, twos and threes of those whose verdict depends on others, all destinations |

What the passing runs show, in words:

* No combination of failing calls leaves an input down that the engine does not
  know about, when the releases themselves work; a kd line that fails takes back
  exactly what it took; auto-release warns name lines that succeeded.
* Streamed and returned results agree, one per line, and the totals are theirs
  (the auto-release warns are printed and not counted).
* A run stays for ever only in an exec or open line whose program does not let it
  go; every other failure, loop or lost reader ends it.
* The local process and the ssh wrapper both keep `RunContract`. The wrapper
  does so for runs without cap lines: with them it does not (see below).
* A local file has changed only for a result of its own line that was read, and
  what a line is reported ok for is in its file; wherever the relay ends, no file
  is half written in a run that is reported done. What `FilesFollowResults` admits is
  spelled out in `FileIsOf`, and two of its cases are not what the help promises: the
  picture of a failed line in the file the line reads, which is a finding below, and
  the empty file of a skipped line, which is a known difference. Cap lines are in the
  theorem about the property and not in the run, which checks `KeepsContract` too.
* A bridge used with care is always reachable at its path and alone; without
  care the callers still get an answer or are cut off, never neither.
* A forwarder keeps the contract whichever end dies. It exits 3 or 5 only if the
  bridge was killed or interrupted, its reader left, the builds differ, or a request or
  a result is over 16 MiB. The bridge is freed, but for one caller that holds it: one that
  writes an oversized request into the pipe (`Wedged`, below). A bridge whose caller has
  gone executes at most the line it is in, and none if the caller had gone when
  its request was read; the last lines of a run are not lost on the pipe.
* On the pipe a caller is answered, cut off or refused, whoever stops or dies, and
  reads the end of its run unless the bridge was stopped; Ctrl-C reaches the accept
  loop at every point of it. Two states are excepted by name: the jammed instance
  and the late ConnectNamedPipe (below).
* An exec line that says ok had a child that ended by itself; a child that Exec
  killed is always E_TIMEOUT. The deadline ends the line unless somebody Exec
  cannot reach holds its stdout. Decoding of cut output moves no character.
* A wait is neither shorter than its time nor longer than by one sleep and one
  query, cancelled or not; the frames of a burst do not add up their lateness.
* Every nil answer of a key or text call is true; macOS's modifier flags agree with
  the modifiers that are down over any sequence of lines and runs, and its drags
  name a button that is down.
* What a bridge, or a far side behind ssh, runs is what the caller's process
  accepted; the times and counts of a sequence that is accepted are within LIMITS as
  written. These are d=, ms=, wait=, timeout= and sleep, the keys of k and of a chord,
  scroll ticks, drag points and steps, n= and scale= of cap, and the captures of all
  lines together; the form of a label is not in the property, and set's delays have
  no limit in the code or in LIMITS.

**Bounds.** Two lines are enough for the engine to show a line's effect on the
next (a key held and reused, a failure and a skip); three are used where a
release must find the right one of two entries. The keys are Primary and V,
because paste uses these two itself and every other key is like one of
them; one button. Two bridges race at the path (each modelled process lives once, so
the second is also the one that finds what a killed or stopping one left), and
two callers are one in a run and one in the queue. `MaxHeld` in `RunContract` bounds the
auto-release warns (4 in `LocalRun`, 1 for the far process and in `BridgeRun`). Counters that grow
(`out`, `results`, `fout`) are bounded by the program's length. A request over 16 MiB
takes hundreds of lines of 64 KiB, which LIMITS admits; as nothing of it is run,
`BridgeRun` lets it be a request of any length but 0. Texts of up to
four bytes of three kinds, under a cap of three bytes, put the cut before, in and
after a character. The poll interval divides one wait and not the other, and a
frame may take longer than the interval. The keys of `input` are two that share a
keycode and one that has none; a second event that is not created adds nothing, as
the calls have nothing in common but the fields. `document` has a line for every
command, modifier and complaint, and for the limits a value within and one beyond.

**Fairness.** `Engine`: weak fairness of the run's steps except that of an exec or open
line (`~WaitsForProgram /\ RunStep`). `Run` is one goroutine, its waits are bounded by
LIMITS and the OS answers its calls; but both backends' `Exec` waits, without a
WaitDelay, for whoever holds the child's stdout, also past its timeout and when it
cannot kill that process (`darwin/exec.go:93`, `windows/exec.go:130`), exec with
timeout=0 has no deadline at all, and open on macOS waits for /usr/bin/open
(`darwin/open.go:29`). `Terminates` and `ProcessEnds` therefore say that a run ends or
stays in such a line for good; `ExecChild` says when an exec line does end
(`DeadlineEndsTheLine`). `LocalRun`: the same of the process, whose writes return, as a
reader that stays reads; its user promises nothing. `RemoteRun`: `runRemote` is
scheduled, and ssh ends some time, because `exec.CommandContext` kills it at
`sshDeadline`; the far process may hang. `BridgeRun`: both ends are scheduled until they
exit or are killed; a forwarder that is stopped for good would keep the bridge for
ever, as `Handle` sets no deadline. `BridgeSocket`: bridges and their signal goroutines are
scheduled; nobody has to dial, start, interrupt or kill. In the three bridge modules
no exec line hangs: a run ends by assumption, and while one hangs the bridge is
not freed and its other callers wait.
`BridgePipe`: bridges, signal goroutines and callers are scheduled, ReadFile and
WaitNamedPipe return when they can; nobody has to dial, start, interrupt, leave or
kill. `ExecChild`: timers fire and Exec's own steps are taken; no process is obliged
to write, fork or end. `Schedule`: the clock goes on and calls return in their time.
`Input` and `Document` state no liveness: their calls are sequential and bounded.
Deadlock is checked for `engine`, `local`, `remote` and `bridge_run`; elsewhere the
system really may stop, when all processes have exited, the line is over or the
sequence has been run.

**Statements of the documentation the code does not keep.** Each of these has a
run that expects a counterexample; PROJECT.json "findings" quotes the text and
the code. The cfg of a run is `docs_` and its name.

| Run | The code |
|---|---|
| `separate_lines_are_not_a_double_click` | counts the clicks of two c lines within half a second together on macOS (`darwin/mouse.go:178`; `assets/help-macos.txt:264-265`) |
| `input_files_are_only_read` | writes the capture of a failed txt[f], paste[f] or clip[f] line over the file that the line reads, with `--cap-on-error` and a `<dest>` (`remote/relay.go:151`; `assets/help.txt:219-220`) |

**Known differences without a run.** Seen in the source while modelling, and in
the models as the code has them.

Inputs that stay down or go up:

* When one release of a chord fails the keys below it stay down (`engine/compose.go:87`;
  `assets/help.txt:548-549`).
* A flag or chord that names a held key lifts it (`engine/compose.go:51`;
  `assets/help.txt:533-534`).
* A `--jsonl` run whose reader goes dies of SIGPIPE on Unix before it can release
  (`dispatch.go:198`; the comment at `:184-189` expects an error).
* `releaseAll` lifts keys before buttons (`engine/held.go:60`); `assets/help.txt:542`
  says the reverse order of taking.
* The `--cap-on-error` capture comes before the release (`engine/run.go:169`);
  `assets/help.txt:525-527` tells it the other way round.
* md parses modifier flags and presses none (`engine/run.go:271`; `assets/help.txt:228`).
* A one-point drag jumps to its point before it presses (`engine/drag.go:27`;
  `assets/help.txt:337-338`).
* A local run has no Ctrl-C handler and no deadline (`dispatch.go:192`;
  `assets/help.txt:542-543`, `:555-559`): what it holds stays down.
* After a text or key event that cannot be created TypeText and pressNamed may leave a
  key down (`darwin/keyboard.go:151`); macOS's mouse calls return nil for an event
  that was not created (`darwin/mouse.go:107`).

What a run says of itself:

* A cancelled run exits 0 with skipped lines (`engine/run.go:208`; `assets/help.txt:750`).
* Exit 3 of the ssh wrapper does not mean that nothing ran: the start object may have
  been lost after it (`remote.go:127`; `assets/help-remote.txt:200`).
* A skipped cap is relayed as ok (`remote/relay.go:89`; `assets/help.txt:546-547`).
* The error capture of a failed qclip[f] line is written over the file it was to fill
  with text (`remote/relay.go:151`).
* A skipped cap writes an empty picture file over ssh (`remote/relay.go:89`).
* An exec line whose stdout is held by a process Exec cannot reach never ends, nor does
  its run: `Wait` is called without a WaitDelay (`darwin/exec.go:79-93`,
  `windows/exec.go:129-130`; `assets/help.txt:745-746`, after E_TIMEOUT "the run still
  ends with a normal done line").
* exec on macOS: a deadline that passes before the start is E_EXEC
  (`darwin/exec.go:67`); a child that exited 0 is E_TIMEOUT when a grandchild held
  its stdout to the deadline; `truncated=1` is not printed in plain mode
  (`assets/help.txt:395-396`).
* exec on Windows: closing the job kills a grandchild that had redirected its stdout,
  though nobody waited for it (`windows/exec.go:105-110`).
* A skipped qclip[f] empties its file (`remote/relay.go:94`; `assets/help-remote.txt:39-40`).

Bridges:

* A bridge that was interrupted frees the path before its run has ended, so two runs
  may overlap (`bridge_socket.go:122`; `assets/help-remote.txt:131-132`).
* A caller of the pipe that comes before the first ConnectNamedPipe and leaves jams
  the instance: each later call fails and nothing disconnects it (`bridge_pipe.go:155`).
* Ctrl-C between the check of `closed` and ConnectNamedPipe keeps the bridge until the
  next caller comes (`bridge_pipe.go:172`).
* A bridge finishes its run after Ctrl-C (`dispatch_darwin.go:138`;
  `assets/help-remote.txt:23-26`).
* Two bridges started together: the one may remove the live socket file of the
  other (`bridge_socket.go:80`); this is why `ServingIsReachable` needs a careful user.
* `Close` removes the path by name, whosever file it is (`bridge_socket.go:124`).
* The forwarder prints its start only after the bridge's first result or abort
  (`dispatch_darwin.go:237-253`; `assets/help-remote.txt:54-58` has the start
  first), so a bridge lost in the first line is exit 3 though that line may have run.
* A request over 16 MiB, which LIMITS admits (1000 lines of 64 KiB), is refused after it
  was accepted: `Handle` reads no more (`bridge/session.go:59-60`). The forwarder takes
  the "malformed request" line for the start and exits 3 with a message of its own
  (`dispatch_darwin.go:244`), where the comment at `session.go:57-58` says that the caller
  sees "malformed request".
* On Windows such a request may hold the bridge for good: the forwarder is still in
  its write, while Handle has answered and flushes until that answer is read
  (`bridge_pipe.go:196`). `bridge_pipe.go:237` takes a bridge run to be bounded, and
  `session_test.go:506-509` tests over an in-memory pipe, with a reader beside the
  writer, that Handle returns. `Wedged` is this state.
* The bridge does not enforce `deadline_ms` (`bridge/wire.go:22`;
  `assets/help-remote.txt:82-84`), and a lost caller stops a run only at its next result.

Input, waiting, syntax:

* m, mu and scroll accept modifier-key flags and build an operation without them
  (`syntax/build.go:86`; `assets/help.txt:209-210`).
* With two buttons down, releasing either makes macOS post Moved instead of Dragged
  (`darwin/mouse.go:66-69`). `c[n=2,ms=500]` is two single clicks there.
* TypeText looks at Secure Input once, before the first rune.
* `meta` and `primary` are one keycode on macOS, `ctrl` and `primary` on Windows: one's
  KeyUp lifts the other.
* A cancelled poll goes on to its deadline, with sleeps that return at once
  (`engine/schedule.go:56`).
* A duration past 64 bits becomes the least integer on amd64, which is accepted and
  sleeps 0, and the greatest on arm64, which is refused (`syntax/duration.go:37`).
* The carriage return at the end of an [f] text is lost over ssh, where it ends a line.
* `qclip` without f ignores a path; k's and click's n= have no limit.
* After a kd line that does not parse its ku line is complained of too.

## 4. Proofs

Every theorem holds for every value of the constants, under the assumptions named
below; the runs of section 3 check the same formulas on their instances.

| Theorem | | Module |
|---|---|---|
| `Invariance` | `Spec => []IInv` | `EngineProofs` |
| `TypeCorrect` | `Spec => []TypeOK` | |
| `EndsWithNothingDown` | `Spec => []NothingLeftDown` | |
| `OnlyHeldBetweenLines` | `Spec => []LinesLeaveOnlyHeld` | |
| `NoPressAfterStop` | `Spec => StopsPressing` | |
| `ReportIsComplete` | `Spec => []ResultsComplete` | |
| `WarnsNameLinesThatSucceeded` | `Spec => []ReleasesNameLinesThatSucceeded` | |
| `LocalInvariant` | `LocalSpec => []LocalInv` | |
| `LocalRunKeepsContract` | `LocalSpec => KeepsContract` | |
| `OneLineUnread` | `LocalSpec => []AtMostOneLineUnread` | |
| `ExitIsClean` | `LocalSpec => []ExitLeavesNothingDown` | |
| `BridgeInvariant` | `Spec => []BridgeInv` | `BridgeRunProofs` |
| `ForwardedRunKeepsContract` | `Spec => KeepsContract` | |
| `OneLineUnheard` | `Spec => []AtMostOneLineUnheard` | |
| `ExitCodesAreTrue` | `Spec => []ExitCodesSpeakForTheBridge` | |
| `RemoteInvariant` | `RemoteSpec => []RemoteInv` | `ConnectionProofs` |
| `RelayedRunKeepsContract` | `RemoteSpec => KeepsContract`, no cap lines | |
| `ExitCodesAreTrue` | `RemoteSpec => []ExitCodesSpeakForTheFarSide` | |
| `FilesAreForResults` | `RemoteSpec => []FilesFollowResults` | |
| `PipeInvariant` | `Spec => []PipeInv` (of `BridgePipe`) | |
| `DoneIsReadAlways` | `Spec => []DoneIsRead` | |
| `QueueInvariant` | `Spec => []QueueInv` | `BridgeSocketProofs` |
| `PathInvariant` | `Spec => []PathInv` | |
| `ServingIsAlwaysReachable` | `Spec => []ServingIsReachable` | |
| `StaleFileNeverStopsAnybody` | `Spec => StaleFileStopsNobody` | |
| `LineAlwaysSpeaksForTheChild` | `Spec => []LineSpeaksForTheChild` | `ExecChildProofs` |
| `NothingItOwnsIsEverLeft` | `Spec => []NothingItOwnsIsLeft` | |
| `DecodeSpells` | `Spells(DecodeCodePage(b), b, 0, Len(b))` for every `b \in Seq(Bytes)` | |
| `OutputIsAlwaysFaithful` | `Spec => []OutputIsFaithful` | |
| `FlagsAlwaysTellTheModifiers` | `Spec => []FlagsTellTheModifiers` (of `Input`) | `OperationProofs` |
| `PointerEventsAlwaysTellTheButtons` | `Spec => PointerEventsTellTheButtons` | |
| `NilAlwaysMeansDone` | `Spec => []NilMeansDone` | |
| `AlwaysPatientAndPunctual` | `ScheduleSpec => []PatientAndPunctual` | |
| `BurstsKeepTime` | `ScheduleSpec => []BurstKeepsTime` | |
| `RoundTrip` | `Carried(DecodeOp(OpNode(o))) = Carried(o)` for every operation a line can be built into | `LineProofs` |
| `EscapedIsRead` | `ApplyEscapes(EscapeText(t))` is legal and spells `t`, for every text that fits a line | |
| `LineArrives` | a line sent over ssh is legal there and builds the same operation | |
| `DocumentInvariant` | `Spec => []ArrivesAsMeant` | `DocumentProofs` |
| `BridgeAlwaysCarriesTheOps` | `Spec => []BridgeCarriesTheOps` | |
| `AcceptedAlwaysKeepsLimits` | `Spec => []AcceptedKeepsLimits` | |
| `SshAlwaysCarriesTheOps` | `Spec => []SshCarriesTheOps` | |

The three refinements of `RunContract` make a chain: a local run keeps it because
the engine's results are complete and in order, a forwarded run because the session
keeps it and the forwarder prints a prefix, a relayed run because its far side, a
local or a forwarded run, does.

**Engine.** Any sets of keys and buttons, any programs that `Validate` accepts,
all options. The assumptions are those of the modules: keys and buttons are
disjoint (`InputsDisjoint`), and the programs are validated sequences over them,
with Primary and V among the keys (`ProgramsAssumption`).

`NothingLeftDown` speaks of the end of the run, and is not inductive: in the
middle of a line inputs are down for many reasons. `IInv` names them.
`EveryInputOwned` says that every input that is down is held, or in `flags`, or
in `chord`, or the button of the click or drag in progress, or in `lost`;
`ControlInPlace` says in which phases the transient lists are empty, so that at
the end of a line only held and lost are left, and at the end of the run only
lost; `StoppedForGood` says that a stopped run is in one of the phases that
press nothing, from which `StopsPressing` follows. `TypeStep`, `ControlStep`,
`StoppedStep` and `OwnedStep` prove these conjuncts, action by action.
The delicate case of `OwnedStep` is `Unhold`: a key may be recorded twice, and
dropping its last entry must not lose an input that is still down
(`UnheldInputs`).

The report has four more parts. `ResultsInPlace`: the lines reported so far are
1 to `Reported`, each once, in order; `TotalsInPlace`: the counters are the numbers
of results of each sort, and a failure is one of them (`RecordedCount` says what one
recorded result does to a count). `HeldInPlace`: what is held was taken by a line
that was reported ok, or by the line that is running. That alone is not inductive: a
kd line that fails gives its keys back one by one with `Unhold`, which drops the
newest entry of a key, and nothing in `HeldInPlace` says that this entry is the
line's own. `OwnKeysLast` does: during a kd line its keys are the last ones held, in
its order, and the rollback takes them from there.

**LocalRun** adds one assumption, that a sequence has at most `MaxLines` lines of at
most `KeysPerLine` inputs (`LimitsAssumption`), which bounds the auto-release warns
in the contract (`MaxHeld` is their product); `HeldInBounds` is the count behind it:
after `line - 1` lines the run holds, or has released, no more than
`(line - 1) * KeysPerLine` inputs. `Written` is all that the run has to print up to
its done line, whether or not it has been printed. `WrittenCounts` says that what
the contract counts in it (lines, totals, warns) is what the engine's variables say,
and `WrittenFollows` that each of its events may follow those before it. A streamed
run's output is `Written`, a plain run's a prefix of it (`OutInPlace`), so both
modes follow from the same facts. `StepKeepsContract` goes through the steps of
the process; the warns of the end are the contract's `AutoRelease` of all at once in
a streamed run, and of one each in a plain run.
`AtMostOneLineUnread` needs what makes it true: an unread result means that the run
is cancelled (`UnreadInPlace`), and a cancelled run only skips (`Tells`).

**BridgeRun**: any `MaxLines` and statuses (`BridgeRunAssumption`). The invariant
speaks of one sequence, `ran`, and its two prefixes: `carried` entered the
connection, `read` came out of it. `RanFollows` is the contract on `ran`, event by
event; `Carried` says that a write that failed found the connection closed for good,
and has cancelled the run; `OutFollows` that what is printed is a prefix of `ran` up
to its last result. `ExitCodesSpeakForTheBridge` claims that 3 and 5 are printed only
if something broke (`Broke` lists what), and that is not inductive without
`NothingLost`: as long as no end was killed or interrupted, the builds are the same and
the request is within 16 MiB, everything written was carried, and a connection that
is closed was closed after the last line. Where the request was refused (`Refused`) the
session has written one line that is no event, and the forwarder none but an abort.

**RemoteRun**: any `MaxLines`, statuses and kinds of lines (`RemoteAssumption`).
`FarFollows` is the contract on the far output, `OutFollows` says that what was
printed corresponds to what was read, line by line (a cap line is rewritten, as its
file may fail to be written), and `Verdict` what the last line printed stands for.
A far output that does not begin with a start has a case of its own (`FarKeeps`).
`FilesFollowResults` is inductive with `FilesPlace`, which says where a file may be half
written, and `OutFollows`, which says what has been read.
`RelayedRunKeepsContract` assumes that no line is a cap: with them the contract is
not kept, as section 3 says.

**The other parts.**

* `BridgeSocket`: any number of bridges and callers, none of them called "none", and
  runs of any length (`BridgeAssumption`). `QueueInv` holds whatever the user does: a
  caller that waits is at one bridge and leaves its place when it is answered, for
  which the queues must hold nobody twice (`QueuesAreSets`). `PathInv` is about a
  careful user. A path is removed by name, so whose file is lost depends on who else
  is up: a bridge that is past its probe, or on its way out, is alone (`AloneWhenUnsettled`), since the probe of
  another one finds whoever serves (`ProbeFindsServer`), and what a bridge that is
  alone does to the path is known (`PathInPlace`, `LoneStep`).
* `BridgePipe`: any number of bridges and callers, runs of any length; none of
  them is called "none" (`PipeAssumption`). `PipeInv` is inductive because
  `HandlesAgree` says who may be in a call on the handle: a bridge owns the pipe
  until it ends or its handle is closed, and what it believes to be a connection
  is one, or is broken, or is closed. `DoneIsRead` needs two more facts, that a
  bridge which comes to DisconnectNamedPipe by itself has no caller listening any
  more (`FlushedBeforeDisconnect`), and that a connection was lost only if some
  bridge was stopped (`LostMeansStopped`).
* `ExecChild`: any cap, any texts (`ExecAssumption`). The invariant has one part
  for what the phases of Exec know of the child, one for who killed it, one for
  the job, one for what was returned, one for the line. The delicate step is
  the end of Wait, when the child has ended by itself and the deadline has fired
  too: `ResultOK` admits each of the verdicts the code may reach there. The output
  has an invariant of its own: `OutputOK`, the writer holds what fits of what was
  written, whatever the chunks (`Appends`), `QuietOK`, nobody can write once Wait is
  over, so that (`TextOK`) what was returned is still what is there at the end. The
  rest is about decoding. `TryDecode` and `DecodeCodePage` are recursive functions in a
  LET; `TryDecodeIs` and `DecodeCodePageIs` show that such a function exists and that
  they are it, since a place rests only on later ones (`ParseLooksAhead`). `Spells` says
  that characters take the bytes of a text in order, and holds of whatever is decoded
  (`DecodeSpells`, from the end of the text backwards: `FromTheEnd`). Where the whole
  text is valid, `CutScan` compares the scan of its first bytes with the parse of all
  of them: as no valid character begins another, the scan takes the characters the
  parse takes, up to the one that the cap cuts.
* `Schedule`: any intervals, waits, lateness and durations (natural numbers, the
  intervals not 0: `ScheduleAssumption`). The property speaks of the end; the
  invariant bounds each call: a query begins no later than one late sleep after the
  deadline (`InTime`, from `Remaining`, which never sleeps past it), and a query
  that may still answer "none" has seen none since it began (`Witnessed`). A burst
  has an invariant of its own, `BurstInv`: `BurstControl` says that outside a frame's
  call there are as many results as frames begun, and that a sleep is until the next
  frame is due, so that a frame is in its turn (`InTurn`) when it begins, and begun
  frames are not touched again; each result was told by its frame (`Told`).
* `Input`: any keys, buttons and texts, with buttons named unlike keys and
  texts without modifiers or buttons among their runes (`NamesAssumption`), and
  any number of events that could not be created. Flags and keycodes change
  together in one step (`KeyKeepsFlags`), so the lemmas say which calls change
  neither; for the pointer, which steps move a button and its count. `NilMeansDone`
  needs where a text or a move in progress stands (`ProgressOK`): what was typed is
  what the runes up to `n` come to, and the pointer is `n` of `steps` parts of its
  way. That one rune more is its units more (`SpelledNext`) is a fact about
  FlattenSeq, and is proved by induction over a set of numbers (`Induction`, from the
  library's WFMin, which takes a set where its induction theorems take an operator).

**Document.** Any sequences of lines, of any length, each cut as `parseLine` cuts it;
any contents of files, with the markers that `Contents` uses; either outcome of an
overlong duration on either machine. That is all `DocumentAssumption` says: every
modifier, word and character is quantified over, and the proofs go through the whole
of the command table. They stand on three invariants, each a conjunct of the next.

* `SentAsMeant` says, for each step of the way on the near side, how the operations at
  hand or the request made of them are those that were accepted. What it needs is that
  every operation the parser builds is `Shaped`: fields of other kinds are zero, an
  exec has a command line or arguments, a display number goes with its frame. One
  lemma for each command shows that (`KShape`, `ExecShape`, ...), and `RoundTrip` takes
  a shaped operation through the encoder's object and the decoder, by a lemma for each
  kind, as both list their fields by kind.
* `WrittenAsMeant` adds what was written: `Match` pairs each statement with the
  operation it was built into, by the number of statements before it (`Rank`), and
  what was accepted has passed `Validate`. From it `AcceptedKeepsLimits` follows
  line by line, with a lemma for each limit (`DelayKept`, `KeysKept`, ...):
  `OverDuration` compares a duration as written with what it is converted to, `ModsCount` counts a chord's flags, and `HeldAtStep` unrolls
  Validate's running set into the lines that hold and release.
* `ArrivesAsMeant` adds the far side. What is needed there is `LineArrives`: a line
  rewritten without its f has the same other modifiers (`WithoutFTokens`) and the text
  of the file in its payload; escaping goes rune by rune, so the text read back is the
  text sent (`EscapedIsRead`); and the carriage return that the scanner drops is
  the last rune of a text (`EscapesDropCR`) and nothing of exec's payload, which is
  trimmed (`TrimDropCR`). `Understood` carries
  this through the far side's own reading, parsing, validation and, possibly, bridge;
  that the far `Validate` refuses nothing is `StillValid`, as it looks only at fields
  in which the two operations are alike.

`ApplyEscapes`, `FlattenSeq`, `Captures` and the held set of `Validate` are recursive
functions in a LET. Each has a lemma that the function exists and that the operator
is it (`ApplyEscapesIs`, `FlattensExists`, `CapturesIs`, `HoldsExists`); what they compute
is proved by induction over a set of numbers, downward for the escapes, as a rune is
read from what follows it.

Two mistakes in the model came out of these proofs. `Frame` had been a CASE whose
guards overlap, where the code takes the first that applies; and exec's payload was not
trimmed, so that by the model a carriage return sent over ssh changed an argument,
which in the code it does not.

**Model-checked only.** Liveness (`Terminates`, `ProcessEnds`, `WrapperReturns`,
`CallersAreAnswered`, `PipeCallersAreAnswered`, `InterruptStops`, `DeadlineEndsTheLine`,
`LineEnds`, `BridgeIsFreed`), which is beyond the prover, as is ENABLED. Every invariant
and every other action property of the passing runs has a theorem. No module that is
proved about uses a RECURSIVE operator.

## 5. Not modelled

Result line formats, JSON text, `-q` (plain mode then omits ok lines), coordinates
and window geometry, delays between lines, the content of captures, option parsing,
help texts, `--request-perms` without a bridge, the system calls of the two
backends that keep nothing between them, the build and install scripts. Of the
parser: columns, wording, blanks, letter case, decimal fractions, the limit of 1000
lines, `--delay` and the order of diagnostics. Of the IR document: the defaults
object, and what the decoder says of a document the encoder did not write. Of the
pipe: that Windows may give a closed handle's value to another object. Of a bridge:
its log, the directory's mode. PROJECT.json "components" gives the reason for each
part, "hazards" the lines where they could go wrong.

## 6. Plan

1. Done: `Program`, `Engine`; `RunContract`, `LocalRun`,
   `RemoteRun`; `BridgeSocket`, `BridgePipe`, `BridgeRun`; `ExecChild`, `Schedule`,
   `Input`; `Syntax`, `IR`, `Document`; the proofs about all of them.
2. `Dispatch`: which of the run paths an invocation takes.
