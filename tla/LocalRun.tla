------------------------------ MODULE LocalRun ------------------------------
(***************************************************************************)
(* A run with dest == "local" and no bridge in between: the process around *)
(* engine.Run.  With --jsonl (opt.stream) every result is written as it is *)
(* computed, and a write that fails cancels the run; in plain mode all is  *)
(* printed once the run has ended.  `out` holds what the process wrote,    *)
(* `seen` how many of those events had a reader.                           *)
(*                                                                         *)
(* stdout is os.Stdout (main.go): on Unix a write to a pipe nobody reads   *)
(* kills the process by SIGPIPE before any error is returned; on Windows   *)
(* it returns an error.  Only --bridge handles Ctrl-C.                     *)
(***************************************************************************)
EXTENDS Engine, Stream

CONSTANTS MaxLines, KeysPerLine   \* what ir.Validate lets a sequence have

ASSUME LimitsAssumption ==
  /\ MaxLines \in Nat /\ KeysPerLine \in Nat \ {0}
  /\ \A p \in Programs : /\ Len(p) <= MaxLines
                          /\ \A i \in DOMAIN p : Len(p[i].keys) <= KeysPerLine

VARIABLES
  platform,         \* the GOOS the process was built for, fixed
  proc,             \* where the process stands
  reader,           \* does stdout have a reader
  out, seen, code   \* what was written; how much of it was read; exit code

io        == <<proc, out, seen>>
localVars == <<vars, platform, io, reader, code>>

Alive == proc \notin {"exited", "killed"}

LocalInit ==
  /\ Init
  /\ platform \in {"darwin", "windows", "other"}
  /\ proc = "start" /\ reader = TRUE
  /\ out = <<>> /\ seen = 0 /\ code = 0

Writes(evs, next) ==
  IF reader \/ platform = "windows"
  THEN /\ out' = out \o evs /\ proc' = next
       /\ seen' = IF reader THEN Len(out') ELSE seen
  ELSE proc' = "killed" /\ UNCHANGED <<out, seen>>

\* Aborts of a plain run go to stderr, which is not the pipe.
WritesAbort(c) ==
  IF opt.stream
  THEN Writes(<<AbortEv(c)>>, "ended")
  ELSE out' = Append(out, AbortEv(c)) /\ proc' = "ended" /\ UNCHANGED seen

Begin ==
  /\ proc = "start"
  /\ IF opt.stream
     THEN Writes(<<StartEv>>, "backend")
     ELSE proc' = "backend" /\ UNCHANGED <<out, seen>>
  /\ UNCHANGED <<vars, platform, reader, code>>

\* Mutant: a backend that cannot be opened is tried again.
OpenBackendAgain ==
  /\ proc = "backend"
  /\ \/ platform # "other" /\ proc' = "run" /\ UNCHANGED <<out, seen>>
     \/ platform # "windows" /\ UNCHANGED <<proc, out, seen>>
  /\ UNCHANGED <<vars, platform, reader, code>>

OpenBackend ==
  /\ proc = "backend"
  /\ \/ platform # "other" /\ proc' = "run" /\ UNCHANGED <<out, seen>>
     \/ platform # "windows" /\ WritesAbort("E_VALIDATE")
  /\ UNCHANGED <<vars, platform, reader, code>>

Events(rs) == [i \in DOMAIN rs |-> ResultEv(rs[i].line, rs[i].status, rs[i].src)]
Streamed   == Events(SubSeq(streamed', Len(streamed) + 1, Len(streamed')))

\* Mutant: OnResult ignores the error of its write.
EngineStepUncancelled ==
  /\ proc = "run" /\ RunStep
  /\ cancelled' = cancelled
  /\ IF Streamed = <<>> THEN UNCHANGED io ELSE Writes(Streamed, "run")
  /\ UNCHANGED <<platform, reader, code>>

\* One step of engine.Run; what it hands to OnResult is written, and a write
\* without a reader cancels the run.
EngineStep ==
  /\ proc = "run" /\ RunStep
  /\ IF Streamed = <<>>
     THEN UNCHANGED io
     ELSE Writes(Streamed, "run") /\ cancelled' = (cancelled \/ ~reader)
  /\ UNCHANGED <<platform, reader, code>>

DoneLine == DoneEv(totals.ok, totals.err, totals.skip)

\* Mutant: an aborted run falls through to the done line.
EndRunUnconditionally ==
  /\ proc = "run" /\ phase \in {"aborted", "done"}
  /\ IF opt.stream
     THEN Writes(<<DoneLine>>, "ended")
     ELSE proc' = "print" /\ UNCHANGED <<out, seen>>
  /\ UNCHANGED <<vars, platform, reader, code>>

EndRun ==
  /\ proc = "run" /\ phase \in {"aborted", "done"}
  /\ IF phase = "aborted"
     THEN WritesAbort("E_SESSION")
     ELSE IF opt.stream
     THEN Writes(<<DoneLine>>, "ended")
     ELSE proc' = "print" /\ UNCHANGED <<out, seen>>
  /\ UNCHANGED <<vars, platform, reader, code>>

Page == <<StartEv>> \o Events(results) \o <<DoneLine>>

PrintLine ==
  /\ proc = "print"
  /\ Writes(<<Page[Len(out) + 1]>>,
            IF Len(out) + 1 = Len(Page) THEN "ended" ELSE "print")
  /\ UNCHANGED <<vars, platform, reader, code>>

Exit ==
  /\ proc = "ended"
  /\ proc' = "exited"
  /\ code' = CASE phase = "preflight" -> AbortExit("E_VALIDATE")
               [] phase = "aborted"   -> AbortExit("E_SESSION")
               [] phase = "done"      -> IF exit = "failure" THEN 1 ELSE 0
  /\ UNCHANGED <<vars, platform, out, seen, reader>>

ProcessStep == Begin \/ OpenBackend \/ EngineStep \/ EndRun \/ PrintLine \/ Exit

ReaderLeaves ==
  /\ Alive /\ reader /\ reader' = FALSE
  /\ UNCHANGED <<vars, platform, io, code>>

Interrupt ==
  /\ Alive /\ proc' = "killed"
  /\ UNCHANGED <<vars, platform, out, seen, reader, code>>

Gone == ~Alive /\ UNCHANGED localVars

LocalNext == ProcessStep \/ ReaderLeaves \/ Interrupt \/ Gone
LocalSpec == LocalInit /\ [][LocalNext]_localVars

\* Waiting for another program in an exec or open line.
InProgram == proc = "run" /\ WaitsForProgram

\* The process is scheduled, and its writes return: a reader that stays
\* reads.  The program of an exec line, the reader and the user promise
\* nothing else.
FairLocalSpec == LocalSpec /\ WF_localVars(~InProgram /\ ProcessStep)

-----------------------------------------------------------------------------
\* What a run holds when its last line ends was taken by its lines.
Contract == INSTANCE RunContract WITH
  n <- Len(prog), kg <- opt.keepGoing,
  proc <- IF Alive THEN "running" ELSE proc,
  MaxHeld <- MaxLines * KeysPerLine, LineStatuses <- {"ok", "warn", "err", "skip"}

\* The process keeps RunContract, whatever fails in the run, whenever the
\* reader leaves, and in both output modes.
KeepsContract == Contract!Spec

\* A --jsonl run whose reader has left runs at most the line it is in: every
\* later line is skipped, -k or not.
AtMostOneLineUnread ==
  Cardinality({i \in (seen + 1)..Len(out) :
                 opt.stream /\ IsLine(out[i]) /\ out[i].status # "skip"}) <= 1

\* A process that exited by itself left no input down, and one that exited
\* with an abort code took none.
ExitLeavesNothingDown ==
  proc = "exited" =>
    /\ lost = {} => down = {}
    /\ code \notin {0, 1} => down = {} /\ lost = {} /\ results = <<>>

\* The process ends, also when nobody reads its output, unless an exec or
\* open line waits for ever for its program: then it stays in that line.
ProcessEnds == <>~Alive \/ <>[]InProgram
=============================================================================
