----------------------------- MODULE ExecChild -----------------------------
(***************************************************************************)
(* One exec line, from the backend's Exec to the engine's doExec: the      *)
(* child, one process the child may start (a shell's command, a server     *)
(* left behind), the deadline, and what the line says about them.          *)
(*                                                                         *)
(* macOS kills the direct child only.  Windows puts the child in a Job     *)
(* Object after it has started, so a process it forks before that is not   *)
(* in the job.  On both, Wait returns when the child has ended and nobody  *)
(* holds its stdout any more.                                              *)
(*                                                                         *)
(* Output is one stream over three bytes: "x" is a character, "L" leads a  *)
(* two-byte character whatever follows but "F", and "F" is never valid.    *)
(***************************************************************************)
EXTENDS Naturals, Sequences, SequencesExt

CONSTANTS
  Cap,   \* execOutputCap
  Texts  \* what the processes may write to stdout between them
Bytes == {"x", "L", "F"}
ASSUME ExecAssumption == Cap \in Nat /\ Texts \subseteq Seq(Bytes)

\* What decoding puts for a byte that it cannot read: a character of one byte, none of theirs.
Bad == <<"U+FFFD">>

VARIABLES
  plat, noerr, limited,  \* the host, the line's noerr, timeout > 0
  pc,        \* where Exec stands
  deadline,  \* "off" / "ticking" / "fired"
  child,     \* "none" / "running" / "exited" / "killed"
  exit,      \* the child's exit code
  grand,     \* the process the child started, as child
  holds,     \* it has the child's stdout open
  job,       \* the Job Object: "none" / "open" / "closed"
  inJob,     \* the processes assigned to it
  text, written,  \* what they have to write to stdout, and what they wrote
  buf, truncated,  \* the cappedWriter
  waitErr,   \* what Wait returned
  timedOut,  \* the timer's case of select was taken (Windows)
  result,    \* Exec's ExecResult, or its error
  line       \* the result line

procs == <<child, exit, grand, holds, inJob>>
output == <<written, buf, truncated>>
given == <<plat, noerr, limited, text>>
vars == <<given, pc, deadline, procs, job, output, waitErr, timedOut, result, line>>

Init ==
  /\ plat \in {"darwin", "windows"} /\ noerr \in BOOLEAN /\ limited \in BOOLEAN
  /\ text \in Texts
  /\ pc = "start"
  /\ deadline = IF plat = "darwin" /\ limited THEN "ticking" ELSE "off"
  /\ child = "none" /\ exit = 0 /\ grand = "none" /\ holds = FALSE
  /\ job = "none" /\ inJob = {}
  /\ written = <<>> /\ buf = <<>> /\ truncated = FALSE
  /\ waitErr = "none" /\ timedOut = FALSE
  /\ result = [is |-> "none"] /\ line = [code |-> "none"]

-----------------------------------------------------------------------------
(* The processes and the clock.                                            *)

\* WithTimeout's timer; on Windows NewTimer's, made when select is reached.
Expire ==
  /\ deadline = "ticking" /\ deadline' = "fired"
  /\ UNCHANGED <<given, pc, procs, job, output, waitErr, timedOut, result, line>>

Fork ==
  /\ child = "running" /\ grand = "none"
  /\ grand' = "running" /\ holds' \in BOOLEAN
  /\ inJob' = IF "child" \in inJob THEN inJob \cup {"grand"} ELSE inJob
  /\ UNCHANGED <<given, pc, deadline, child, exit, job, output, waitErr, timedOut, result, line>>

ChildExits ==
  /\ child = "running" /\ child' = "exited" /\ exit' \in {0, 1}
  /\ UNCHANGED <<given, pc, deadline, grand, holds, inJob, job, output, waitErr, timedOut,
                 result, line>>

GrandExits ==
  /\ grand = "running" /\ grand' = "exited" /\ holds' = FALSE
  /\ UNCHANGED <<given, pc, deadline, child, exit, inJob, job, output, waitErr, timedOut,
                 result, line>>

\* Mutant: a chunk that does not fit is dropped as a whole.
DropsTheChunk(p) ==
  IF Len(buf) + Len(p) > Cap
  THEN truncated' = TRUE /\ UNCHANGED buf
  ELSE buf' = buf \o p /\ UNCHANGED truncated

CappedWrite(p) ==
  LET remain == Cap - Len(buf) IN
  /\ buf' = buf \o SubSeq(p, 1, IF Len(p) > remain THEN remain ELSE Len(p))
  /\ truncated' = (truncated \/ Len(p) > remain)

Writes ==
  /\ pc # "done"
  /\ child = "running" \/ (grand = "running" /\ holds)
  /\ \E k \in Len(written) + 1..Len(text) :
       /\ written' = SubSeq(text, 1, k)
       /\ CappedWrite(SubSeq(text, Len(written) + 1, k))
  /\ UNCHANGED <<given, pc, deadline, procs, job, waitErr, timedOut, result, line>>

\* What a set of killed processes leaves.
Killed(ps) ==
  /\ child' = IF "child" \in ps /\ child = "running" THEN "killed" ELSE child
  /\ grand' = IF "grand" \in ps /\ grand = "running" THEN "killed" ELSE grand
  /\ holds' = (holds /\ ~("grand" \in ps))
  /\ exit' = IF "child" \in ps /\ child = "running" THEN 1 ELSE exit
  /\ UNCHANGED inJob

-----------------------------------------------------------------------------
(* Exec.                                                                   *)

\* Start fails when there is no such program; on macOS also when the context is over.
Start ==
  /\ pc = "start"
  /\ \/ /\ ~(plat = "darwin" /\ deadline = "fired")
        /\ child' = "running" /\ pc' = IF plat = "darwin" THEN "wait" ELSE "assign"
        /\ UNCHANGED <<exit, grand, holds, inJob, result>>
     \/ pc' = "returned" /\ result' = [is |-> "error"] /\ UNCHANGED procs
  /\ UNCHANGED <<given, deadline, job, output, waitErr, timedOut, line>>

\* assignToKillOnCloseJob is best effort: 0 when a call of it fails, as it does for a
\* process that has gone.
AssignToKillOnCloseJob ==
  /\ pc = "assign" /\ pc' = "wait"
  /\ \/ child = "running" /\ job' = "open" /\ inJob' = {"child"}
     \/ UNCHANGED <<job, inJob>>
  /\ deadline' = IF limited THEN "ticking" ELSE "off"
  /\ UNCHANGED <<given, child, exit, grand, holds, output, waitErr, timedOut, result, line>>

\* CommandContext's watcher, until the child is reaped.
WatchCtx ==
  /\ plat = "darwin" /\ pc = "wait" /\ deadline = "fired" /\ child = "running"
  /\ Killed({"child"})
  /\ UNCHANGED <<given, pc, deadline, job, output, waitErr, timedOut, result, line>>

\* Mutant: TerminateJobObject is replaced by Process.Kill.
OnlyTheChild == {"child"}

KillJob == IF job = "open" THEN inJob ELSE {"child"}

TimeoutCase ==
  /\ plat = "windows" /\ pc = "wait" /\ deadline = "fired"
  /\ timedOut' = TRUE /\ pc' = "reap" /\ Killed(KillJob)
  /\ UNCHANGED <<given, deadline, job, output, waitErr, result, line>>

WaitEnds == child \in {"exited", "killed"} /\ ~holds

\* cmd.Wait returns: nil, an ExitError, or (rarely) an error of its own.
Wait ==
  /\ pc \in {"wait", "reap"} /\ WaitEnds
  /\ waitErr' \in {IF exit = 0 THEN "nil" ELSE "exit", "other"}
  /\ pc' = "read"
  /\ UNCHANGED <<given, deadline, procs, job, output, timedOut, result, line>>

-----------------------------------------------------------------------------
(* Code page decoding.                                                     *)

\* The characters of a strictly valid text, as spans of bytes.
Spans == {<<"x">>, <<"L", "x">>, <<"L", "L">>}

\* MultiByteToWideChar with MB_ERR_INVALID_CHARS: <<ok, characters>>.
TryDecode(b) ==
  LET parse[i \in 1..Len(b) + 2] ==
        IF i > Len(b) THEN <<i = Len(b) + 1, <<>>>>
        ELSE LET fit == {s \in Spans : IsPrefix(s, SubSeq(b, i, Len(b)))} IN
             IF fit = {} THEN <<FALSE, <<>>>>
             ELSE LET s == CHOOSE t \in fit : TRUE
                      rest == parse[i + Len(s)] IN
                  <<rest[1], <<s>> \o rest[2]>>
  IN parse[1]

\* Mutant: the scan after a failure goes byte by byte.
ByteByByte(b) ==
  IF TryDecode(b)[1] THEN TryDecode(b)[2]
  ELSE [i \in 1..Len(b) |-> IF TryDecode(<<b[i]>>)[1] THEN <<b[i]>> ELSE Bad]

DecodeCodePage(b) ==
  LET scan[i \in 1..Len(b) + 1] ==
        IF i > Len(b) THEN <<>>
        ELSE LET sizes == {n \in 1..4 : /\ i + n - 1 <= Len(b)
                                        /\ TryDecode(SubSeq(b, i, i + n - 1))[1]}
             IN IF sizes = {} THEN <<Bad>> \o scan[i + 1]
                ELSE LET n == CHOOSE k \in sizes : \A j \in sizes : k <= j
                     IN TryDecode(SubSeq(b, i, i + n - 1))[2] \o scan[i + n]
  IN IF TryDecode(b)[1] THEN TryDecode(b)[2] ELSE scan[1]

Text == IF plat = "windows" THEN DecodeCodePage(buf) ELSE buf

-----------------------------------------------------------------------------

TimeIsUp == IF plat = "darwin" THEN deadline = "fired" ELSE timedOut

Outcome ==
  CASE TimeIsUp -> [is |-> "timedout", stdout |-> Text, truncated |-> truncated]
    [] ~TimeIsUp /\ waitErr = "other" -> [is |-> "error"]
    [] ~TimeIsUp /\ waitErr # "other" ->
         [is |-> "exit", exit |-> IF waitErr = "exit" THEN exit ELSE 0,
          stdout |-> Text, truncated |-> truncated]

\* Mutant: the job's handle is not closed.
KeepsTheJob == job' = job /\ UNCHANGED procs

\* The deferred CloseHandle: KILL_ON_JOB_CLOSE.
CloseJob ==
  IF job = "open" THEN job' = "closed" /\ Killed(inJob) ELSE UNCHANGED <<job, procs>>

Return ==
  /\ pc = "read" /\ pc' = "returned"
  /\ result' = Outcome
  /\ CloseJob
  /\ UNCHANGED <<given, deadline, output, waitErr, timedOut, line>>

\* Mutant: noerr is looked at before the timeout.
NoerrFirst ==
  CASE result.is = "error" -> [code |-> "E_EXEC"]
    [] result.is # "error" /\ noerr -> [code |-> "ok", stdout |-> result.stdout]
    [] result.is = "timedout" /\ ~noerr -> [code |-> "E_TIMEOUT", stdout |-> result.stdout]
    [] OTHER -> [code |-> IF result.exit = 0 THEN "ok" ELSE "E_EXEC", stdout |-> result.stdout]

\* doExec's result line: the output follows an err line too, unless Exec gave none.
ExecLine ==
  CASE result.is = "error"    -> [code |-> "E_EXEC"]
    [] result.is = "timedout" -> [code |-> "E_TIMEOUT", stdout |-> result.stdout]
    [] result.is = "exit"     -> [code |-> IF result.exit # 0 /\ ~noerr THEN "E_EXEC" ELSE "ok",
                                  stdout |-> result.stdout]

DoExec ==
  /\ pc = "returned" /\ pc' = "done"
  /\ line' = ExecLine
  /\ UNCHANGED <<given, deadline, procs, job, output, waitErr, timedOut, result>>

Next ==
  \/ Expire \/ Fork \/ ChildExits \/ GrandExits \/ Writes
  \/ Start \/ AssignToKillOnCloseJob \/ WatchCtx \/ TimeoutCase \/ Wait \/ Return \/ DoExec

\* Timers fire and Exec takes its steps; no process is obliged to end.
Spec ==
  /\ Init /\ [][Next]_vars
  /\ WF_vars(Expire) /\ WF_vars(Start) /\ WF_vars(AssignToKillOnCloseJob) /\ WF_vars(WatchCtx)
  /\ WF_vars(TimeoutCase) /\ WF_vars(Wait) /\ WF_vars(Return) /\ WF_vars(DoExec)

-----------------------------------------------------------------------------

Done == pc = "done"

\* The line's verdict is about the child that ran: ok means it ended by itself with 0 or
\* under noerr, E_TIMEOUT that the deadline had passed, E_EXEC that it failed, could not be
\* started or could not be waited for; a child Exec killed is E_TIMEOUT, never softened.
LineSpeaksForTheChild ==
  Done =>
    /\ line.code = "ok" => child = "exited" /\ (exit = 0 \/ noerr)
    /\ line.code = "E_TIMEOUT" => limited /\ deadline = "fired" /\ child \in {"exited", "killed"}
    /\ line.code = "E_EXEC" => \/ child = "none" \/ waitErr = "other"
                               \/ child = "exited" /\ exit # 0 /\ ~noerr
    /\ child = "killed" => line.code = "E_TIMEOUT"

\* When Exec has returned the child is gone, and on Windows so is everything that was put
\* in its job, also what the child left running without its stdout (exec.go:105).
NothingItOwnsIsLeft ==
  pc \in {"returned", "done"} =>
    /\ child # "running"
    /\ "grand" \in inJob => grand # "running"

\* Where the characters of a decoded text end.
Ends(t) ==
  LET end[k \in 0..Len(t)] == IF k = 0 THEN 0 ELSE end[k - 1] + Len(t[k]) IN end

\* The captured output is the first Cap bytes, marked when bytes are missing; decoding
\* replaces single bytes and moves none, and a valid text loses at most the character the
\* cap cuts in two.
OutputIsFaithful ==
  /\ buf = SubSeq(written, 1, IF Len(written) > Cap THEN Cap ELSE Len(written))
  /\ truncated <=> Len(written) > Cap
  /\ Done /\ plat = "windows" /\ "stdout" \in DOMAIN line =>
       LET t == line.stdout IN
       /\ Ends(t)[Len(t)] = Len(buf)
       /\ \A k \in DOMAIN t : t[k] # Bad => t[k] = SubSeq(buf, Ends(t)[k - 1] + 1, Ends(t)[k])
       /\ TryDecode(written)[1] =>
            \A k \in DOMAIN t : t[k] = Bad => k = Len(t) /\ truncated

\* A passed deadline ends the line, whatever the processes do, unless stdout is held by one
\* Exec cannot reach: any process but the child on macOS, one outside the job on Windows.
Unreachable == holds /\ (plat = "darwin" \/ "grand" \notin inJob)
DeadlineEndsTheLine == deadline = "fired" ~> (Done \/ Unreachable)
=============================================================================
