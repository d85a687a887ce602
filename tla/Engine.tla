------------------------------- MODULE Engine -------------------------------
(***************************************************************************)
(* engine.Run: one run of a sequence against a backend.  Every backend     *)
(* call that takes or gives back a key or a button is a step of its own,   *)
(* and every backend call may fail; what the code does next after a        *)
(* failure (return, unwind the chord, roll the kd line back, lift the      *)
(* flags) is the control modelled here.                                    *)
(*                                                                         *)
(* `down` is what the OS sees as pressed; `keys` and `buttons` are the     *)
(* engine's heldState; `flags` and `chord` are the Go locals `pressed` and *)
(* `down` of pressMods, doKey and the kd line.  A KeyUp or ButtonUp that   *)
(* fails leaves its input down and is remembered in `lost`, which the code *)
(* does not keep.                                                          *)
(***************************************************************************)
EXTENDS Program, SequencesExt

CONSTANTS
  Programs,      \* the sequences a run may be given
  Options,       \* the RunOptions a run may be given
  Primary, V     \* the two keys of paste's chord

ASSUME ProgramsAssumption ==
  /\ Programs \subseteq Seq(Op)
  /\ \A prog \in Programs : Validated(prog)
  /\ Options \subseteq [keepGoing : BOOLEAN, capOnError : BOOLEAN, stream : BOOLEAN]
  /\ {Primary, V} \subseteq Keys

VARIABLES
  prog, opt,                   \* the call's arguments, fixed for the run
  phase,                       \* where Run (and the running op) stands
  line,                        \* index of the running op
  status,                      \* the running op's outcome so far
  rest, left, queue,           \* the running op's loops: chords, rounds, keys
  flags, chord,                \* transient keys the running op has pressed
  keys, buttons,               \* heldState
  down, lost,                  \* what the OS sees; failed releases
  results, streamed,           \* Summary.Results; what OnResult was given
  totals, failed, cancelled,   \* Summary counters, failed, ctx.Err()
  released, exit               \* auto-released inputs; Summary.Exit

args    == <<prog, opt>>
loops   == <<rest, left, queue>>
trans   == <<flags, chord>>
held    == <<keys, buttons>>
os      == <<down, lost>>
report  == <<results, streamed, totals, failed, cancelled>>
ending  == <<released, exit>>
vars    == <<args, phase, line, status, loops, trans, held, os, report, ending>>

op == prog[line]

Phases == {"preflight", "loop", "mods", "chord", "press", "unwind", "unpress",
           "move", "click", "clickUp", "dragDown", "dragPath", "dragUp",
           "md", "mu", "kd", "rollback", "ku", "clip", "call", "lift",
           "report", "errcap", "release", "done", "aborted"}

HeldKey == [input : Inputs, line : Nat]
Result  == [line : Nat, status : {"ok", "warn", "err", "skip"},
            src : {"op", "cap", "release"}]

InputsOf(s) == {s[i].input : i \in DOMAIN s}
HeldInputs  == InputsOf(keys) \cup InputsOf(buttons)

Init ==
  /\ prog \in Programs
  /\ opt \in Options
  /\ phase = "preflight" /\ line = 1 /\ status = "ok"
  /\ rest = <<>> /\ left = 0 /\ queue = <<>>
  /\ flags = <<>> /\ chord = <<>>
  /\ keys = <<>> /\ buttons = <<>>
  /\ down = {} /\ lost = {}
  /\ results = <<>> /\ streamed = <<>>
  /\ totals = [ok |-> 0, err |-> 0, skip |-> 0]
  /\ failed = FALSE /\ cancelled = FALSE
  /\ released = <<>> /\ exit = "none"

-----------------------------------------------------------------------------
(* Backend calls and the bookkeeping of heldState.                         *)

Presses(x)   == down' = down \cup {x} /\ UNCHANGED lost
Lifts(x)     == down' = down \ {x} /\ UNCHANGED lost
LiftFails(x) == lost' = lost \cup {x} /\ UNCHANGED down
BestEffortLift(x) == Lifts(x) \/ LiftFails(x)

\* Mutant: the press is not recorded.
HoldNothing(s, x) == s

Hold(s, x) == Append(s, [input |-> x, line |-> line])

LastAt(s, x, i) == /\ i \in DOMAIN s /\ s[i].input = x
                   /\ \A j \in DOMAIN s : s[j].input = x => j <= i

\* Mutant: what was released stays recorded.
UnholdNothing(s, x) == s

\* releaseKey and releaseButton drop the last entry of x, if there is one.
Unhold(s, x) ==
  IF \E i \in DOMAIN s : LastAt(s, x, i)
  THEN RemoveAt(s, CHOOSE i \in DOMAIN s : LastAt(s, x, i))
  ELSE s

Goto(p) == phase' = p /\ UNCHANGED status

\* Mutant: an error return that runs no deferred release.
FailsWithoutDefer == phase' = "report" /\ status' = "err"

Fails == phase' = "lift" /\ status' = "err"

-----------------------------------------------------------------------------
(* Preflight, and the line loop.                                           *)

Preflight ==
  /\ phase = "preflight"
  /\ \/ Goto("loop")
     \/ Goto("aborted")
  /\ UNCHANGED <<args, line, loops, trans, held, os, report, ending>>

\* Mutant: -k carries on even when the caller is gone.
StoppedUnlessKeepGoing == (cancelled \/ failed) /\ ~opt.keepGoing

\* A cancelled run stops whatever -k says; a failed one stops unless -k.
Stopped == cancelled \/ (failed /\ ~opt.keepGoing)

Tally(s) ==
  CASE s = "err"  -> [totals EXCEPT !.err = @ + 1]
    [] s = "skip" -> [totals EXCEPT !.skip = @ + 1]
    [] OTHER      -> [totals EXCEPT !.ok = @ + 1]

\* One result: appended, given to OnResult, counted.
Record(r) ==
  /\ results' = Append(results, r)
  /\ streamed' = IF opt.stream THEN Append(streamed, r) ELSE streamed
  /\ totals' = Tally(r.status)
  /\ \/ cancelled' = cancelled
     \/ opt.stream /\ cancelled' = TRUE      \* the write in OnResult failed

\* Mutant: a skipped line is counted, and never reaches OnResult.
SkipLineUnstreamed ==
  /\ phase = "loop" /\ line <= Len(prog) /\ Stopped
  /\ results' = Append(results, [line |-> line, status |-> "skip", src |-> "op"])
  /\ totals' = Tally("skip")
  /\ line' = line + 1
  /\ UNCHANGED <<args, phase, status, loops, trans, held, os, streamed, failed,
                 cancelled, ending>>

SkipLine ==
  /\ phase = "loop" /\ line <= Len(prog) /\ Stopped
  /\ Record([line |-> line, status |-> "skip", src |-> "op"])
  /\ line' = line + 1
  /\ UNCHANGED <<args, phase, status, loops, trans, held, os, failed, ending>>

Entry == [key |-> "mods", click |-> "mods", drag |-> "mods",
          key_down |-> "kd", key_up |-> "ku", button_up |-> "mu",
          paste |-> "clip", focus |-> "call", call |-> "call", exec |-> "call",
          set |-> "call"]

\* Loop bounds: repeats of k, clicks of c, moves of drag after the press.
Rounds ==
  CASE op.kind = "key"   -> op.repeat
    [] op.kind = "click" -> op.count
    [] op.kind = "drag" /\ op.points > 0 -> op.points - 1
    [] OTHER             -> 0

RunLine ==
  /\ phase = "loop" /\ line <= Len(prog) /\ ~Stopped
  /\ status' = "ok"
  /\ phase' = IF op.kind = "button_down"
              THEN IF op.points > 0 THEN "move" ELSE "md"
              ELSE Entry[op.kind]
  /\ queue' = IF op.kind \in {"key", "click", "drag"} THEN op.mods ELSE <<>>
  /\ rest' = IF op.kind \in {"key_down", "key_up"} THEN op.keys ELSE <<>>
  /\ left' = Rounds
  /\ UNCHANGED <<args, line, trans, held, os, report, ending>>

ReportLine ==
  /\ phase = "report"
  /\ Record([line |-> line, status |-> status, src |-> "op"])
  /\ failed' = (failed \/ status = "err")
  /\ IF status = "err" /\ opt.capOnError
     THEN phase' = "errcap" /\ UNCHANGED line
     ELSE phase' = "loop" /\ line' = line + 1
  /\ UNCHANGED <<args, status, loops, trans, held, os, ending>>

\* The extra --cap-on-error capture; it takes no input and may itself fail.
CaptureOnError ==
  /\ phase = "errcap"
  /\ \E s \in {"ok", "err"} :
       Record([line |-> line, status |-> s, src |-> "cap"])
  /\ phase' = "loop" /\ line' = line + 1
  /\ UNCHANGED <<args, status, loops, trans, held, os, failed, ending>>

-----------------------------------------------------------------------------
(* Modifier flags: pressMods, and its deferred release.                    *)

PressFlag ==
  /\ phase = "mods" /\ queue # <<>>
  /\ \/ /\ Presses(Head(queue))
        /\ flags' = Append(flags, Head(queue))
        /\ queue' = Tail(queue)
        /\ Goto("mods")
     \/ Fails /\ UNCHANGED <<os, flags, queue>>
  /\ UNCHANGED <<args, line, rest, left, chord, held, report, ending>>

FlagsPressed ==
  /\ phase = "mods" /\ queue = <<>>
  /\ Goto(CASE op.kind = "key"   -> "chord"
            [] op.points > 0     -> "move"
            [] op.kind = "click" -> "click"
            [] OTHER             -> "lift")
  /\ UNCHANGED <<args, line, loops, trans, held, os, report, ending>>

LiftFlag ==
  /\ phase = "lift"
  /\ IF flags = <<>>
     THEN Goto("report") /\ UNCHANGED <<flags, os>>
     ELSE /\ BestEffortLift(Last(flags))
          /\ flags' = Front(flags)
          /\ Goto("lift")
  /\ UNCHANGED <<args, line, loops, chord, held, report, ending>>

-----------------------------------------------------------------------------
(* k and paste: chords pressed in order and released in reverse.           *)

NextChord ==
  /\ phase = "chord"
  /\ IF rest # <<>>
     THEN /\ queue' = Head(rest) /\ rest' = Tail(rest)
          /\ Goto("press") /\ UNCHANGED left
     ELSE IF left > 0
     THEN rest' = op.keys /\ left' = left - 1 /\ Goto("chord") /\ UNCHANGED queue
     ELSE Goto("lift") /\ UNCHANGED loops
  /\ UNCHANGED <<args, line, trans, held, os, report, ending>>

SetClipboard ==
  /\ phase = "clip"
  /\ \/ Goto("press") /\ queue' = <<Primary, V>>
     \/ Fails /\ UNCHANGED queue
  /\ UNCHANGED <<args, line, rest, left, trans, held, os, report, ending>>

PressChordKey ==
  /\ phase = "press" /\ queue # <<>>
  /\ \/ /\ Presses(Head(queue))
        /\ chord' = Append(chord, Head(queue))
        /\ queue' = Tail(queue)
        /\ Goto("press")
     \/ /\ phase' = "unwind" /\ status' = "err"
        /\ UNCHANGED <<os, chord, queue>>
  /\ UNCHANGED <<args, line, rest, left, flags, held, report, ending>>

ChordPressed ==
  /\ phase = "press" /\ queue = <<>>
  /\ Goto("unpress")
  /\ UNCHANGED <<args, line, loops, trans, held, os, report, ending>>

\* After a failed press the keys already down come up, best effort.
UnwindChord ==
  /\ phase = "unwind"
  /\ IF chord = <<>>
     THEN Goto("lift") /\ UNCHANGED <<chord, os>>
     ELSE /\ BestEffortLift(Last(chord))
          /\ chord' = Front(chord)
          /\ Goto("unwind")
  /\ UNCHANGED <<args, line, loops, flags, held, report, ending>>

\* The regular release stops at its first failure, and what is still in the
\* chord is forgotten; only paste's `v` is released best effort.
LiftChordKey ==
  /\ phase = "unpress"
  /\ \/ chord = <<>> /\ Goto("chord") /\ UNCHANGED <<chord, os>>
     \/ /\ chord # <<>>
        /\ \/ Lifts(Last(chord))
           \/ op.kind = "paste" /\ Last(chord) = V /\ LiftFails(V)
        /\ chord' = Front(chord)
        /\ Goto("unpress")
     \/ /\ chord # <<>> /\ ~(op.kind = "paste" /\ Last(chord) = V)
        /\ LiftFails(Last(chord))
        /\ chord' = <<>>
        /\ Fails
  /\ UNCHANGED <<args, line, loops, flags, held, report, ending>>

-----------------------------------------------------------------------------
(* c, md, mu and drag.  A move resolves its coordinate first; either the   *)
(* resolution or MouseMove may fail.                                       *)

MovePointer ==
  /\ phase = "move"
  /\ \/ Goto(CASE op.kind = "click" -> "click"
               [] op.kind = "drag"  -> "dragDown"
               [] OTHER             -> "md")
     \/ Fails
  /\ UNCHANGED <<args, line, loops, trans, held, os, report, ending>>

ClickDown ==
  /\ phase = "click"
  /\ IF left = 0
     THEN Goto("lift") /\ UNCHANGED os
     ELSE \/ Presses(op.btn) /\ Goto("clickUp")
          \/ Fails /\ UNCHANGED os
  /\ UNCHANGED <<args, line, loops, trans, held, report, ending>>

\* Mutant: the click count never goes down.
ClickUpUncounted ==
  /\ phase = "clickUp"
  /\ \/ Lifts(op.btn) /\ Goto("click")
     \/ LiftFails(op.btn) /\ Fails
  /\ UNCHANGED <<args, line, loops, trans, held, report, ending>>

ClickUp ==
  /\ phase = "clickUp"
  /\ \/ Lifts(op.btn) /\ left' = left - 1 /\ Goto("click")
     \/ LiftFails(op.btn) /\ Fails /\ UNCHANGED left
  /\ UNCHANGED <<args, line, rest, queue, trans, held, report, ending>>

DragDown ==
  /\ phase = "dragDown"
  /\ \/ Presses(op.btn) /\ Goto("dragPath")
     \/ Fails /\ UNCHANGED os
  /\ UNCHANGED <<args, line, loops, trans, held, report, ending>>

DragPath ==
  /\ phase = "dragPath"
  /\ IF left = 0
     THEN Goto("dragUp") /\ UNCHANGED left
     ELSE \/ Goto("dragPath") /\ left' = left - 1
          \/ phase' = "dragUp" /\ status' = "err" /\ UNCHANGED left
  /\ UNCHANGED <<args, line, rest, queue, trans, held, os, report, ending>>

\* The button comes up whatever happened on the path.
DragUp ==
  /\ phase = "dragUp"
  /\ \/ Lifts(op.btn) /\ Goto("lift")
     \/ LiftFails(op.btn) /\ Fails
  /\ UNCHANGED <<args, line, loops, trans, held, report, ending>>

HoldButton ==
  /\ phase = "md"
  /\ \/ /\ Presses(op.btn)
        /\ buttons' = Hold(buttons, op.btn)
        /\ Goto("lift")
     \/ Fails /\ UNCHANGED <<os, buttons>>
  /\ UNCHANGED <<args, line, loops, trans, keys, report, ending>>

ReleaseButton ==
  /\ phase = "mu"
  /\ \/ /\ Lifts(op.btn)
        /\ buttons' = Unhold(buttons, op.btn)
        /\ Goto("lift")
     \/ LiftFails(op.btn) /\ Fails /\ UNCHANGED buttons
  /\ UNCHANGED <<args, line, loops, trans, keys, report, ending>>

-----------------------------------------------------------------------------
(* kd and ku.                                                              *)

HoldKeys ==
  /\ phase = "kd"
  /\ IF rest = <<>>
     THEN chord' = <<>> /\ Goto("lift") /\ UNCHANGED <<rest, keys, os>>
     ELSE LET k == Head(rest)[1] IN
          \/ /\ Presses(k)
             /\ keys' = Hold(keys, k)
             /\ chord' = Append(chord, k)
             /\ rest' = Tail(rest)
             /\ Goto("kd")
          \/ /\ phase' = "rollback" /\ status' = "err"
             /\ UNCHANGED <<rest, keys, chord, os>>
  /\ UNCHANGED <<args, line, left, queue, flags, buttons, report, ending>>

\* Mutant: the rollback drops the keys from heldState and lifts none.
RollbackKeysUnlifted ==
  /\ phase = "rollback"
  /\ IF chord = <<>>
     THEN Goto("lift") /\ UNCHANGED <<chord, keys>>
     ELSE /\ keys' = Unhold(keys, Last(chord))
          /\ chord' = Front(chord)
          /\ Goto("rollback")
  /\ UNCHANGED <<args, line, loops, flags, buttons, os, report, ending>>

\* rollbackKeys: what this line took comes up and leaves heldState.
RollbackKeys ==
  /\ phase = "rollback"
  /\ IF chord = <<>>
     THEN Goto("lift") /\ UNCHANGED <<chord, keys, os>>
     ELSE /\ BestEffortLift(Last(chord))
          /\ keys' = Unhold(keys, Last(chord))
          /\ chord' = Front(chord)
          /\ Goto("rollback")
  /\ UNCHANGED <<args, line, loops, flags, buttons, report, ending>>

ReleaseKeys ==
  /\ phase = "ku"
  /\ IF rest = <<>>
     THEN Goto("lift") /\ UNCHANGED <<rest, keys, os>>
     ELSE LET k == Head(rest)[1] IN
          \/ /\ Lifts(k)
             /\ keys' = Unhold(keys, k)
             /\ rest' = Tail(rest)
             /\ Goto("ku")
          \/ LiftFails(k) /\ Fails /\ UNCHANGED <<rest, keys>>
  /\ UNCHANGED <<args, line, left, queue, trans, buttons, report, ending>>

-----------------------------------------------------------------------------
(* Every other line: it takes no input, and ends ok, warn or err.          *)

Outcomes == [focus |-> {"ok", "warn", "err"}, call |-> {"ok", "err"},
             exec |-> {"ok", "err"}, set |-> {"ok"}]

\* The line waits for a program that is not this one, and nothing bounds the
\* wait: the backends' exec waits for whoever holds the child's stdout (a
\* process Exec cannot kill included) and has no deadline with timeout=0,
\* and open on macOS waits for /usr/bin/open.  ExecChild has the detail.
WaitsForProgram == phase = "call" /\ op.kind = "exec"

CallBackend ==
  /\ phase = "call"
  /\ status' \in Outcomes[op.kind]
  /\ phase' = "lift"
  /\ UNCHANGED <<args, line, loops, trans, held, os, report, ending>>

-----------------------------------------------------------------------------
(* releaseAll, then the warns it returned and the summary.                 *)

EndLoop ==
  /\ phase = "loop" /\ line > Len(prog)
  /\ Goto("release")
  /\ UNCHANGED <<args, line, loops, trans, held, os, report, ending>>

ReleaseHeldKey ==
  /\ phase = "release" /\ keys # <<>>
  /\ BestEffortLift(Last(keys).input)
  /\ released' = Append(released, Last(keys))
  /\ keys' = Front(keys)
  /\ UNCHANGED <<args, phase, line, status, loops, trans, buttons, report, exit>>

ReleaseHeldButton ==
  /\ phase = "release" /\ keys = <<>> /\ buttons # <<>>
  /\ BestEffortLift(Last(buttons).input)
  /\ released' = Append(released, Last(buttons))
  /\ buttons' = Front(buttons)
  /\ UNCHANGED <<args, phase, line, status, loops, trans, keys, report, exit>>

Warns == [i \in DOMAIN released |->
            [line |-> released[i].line, status |-> "warn", src |-> "release"]]

Finish ==
  /\ phase = "release" /\ keys = <<>> /\ buttons = <<>>
  /\ phase' = "done"
  /\ results' = results \o Warns
  /\ streamed' = IF opt.stream THEN streamed \o Warns ELSE streamed
  /\ exit' = IF failed THEN "failure" ELSE "ok"
  /\ \/ cancelled' = cancelled
     \/ opt.stream /\ released # <<>> /\ cancelled' = TRUE
  /\ UNCHANGED <<args, line, status, loops, trans, held, os, totals, failed,
                 released>>

\* The call has returned.
Returned == phase \in {"done", "aborted"} /\ UNCHANGED vars

RunStep ==
  \/ Preflight \/ SkipLine \/ RunLine \/ ReportLine \/ CaptureOnError \/ EndLoop
  \/ PressFlag \/ FlagsPressed \/ LiftFlag
  \/ NextChord \/ SetClipboard \/ PressChordKey \/ ChordPressed
  \/ UnwindChord \/ LiftChordKey
  \/ MovePointer \/ ClickDown \/ ClickUp \/ DragDown \/ DragPath \/ DragUp
  \/ HoldButton \/ ReleaseButton \/ HoldKeys \/ RollbackKeys \/ ReleaseKeys
  \/ CallBackend \/ ReleaseHeldKey \/ ReleaseHeldButton \/ Finish

Next == RunStep \/ Returned

Spec == Init /\ [][Next]_vars

\* Run is one goroutine, its waits and sleeps are bounded by their LIMITS, and
\* the OS answers every call it is asked; no other program need ever end.
FairSpec == Spec /\ WF_vars(~WaitsForProgram /\ RunStep)

-----------------------------------------------------------------------------
\* The types of the run's state.
TypeOK ==
  /\ prog \in Programs /\ opt \in Options
  /\ phase \in Phases /\ line \in Nat \ {0} /\ status \in {"ok", "warn", "err"}
  /\ rest \in Chords /\ left \in Nat /\ queue \in Seq(Keys)
  /\ flags \in Seq(Keys) /\ chord \in Seq(Keys)
  /\ keys \in Seq([input : Keys, line : Nat])
  /\ buttons \in Seq([input : Buttons, line : Nat])
  /\ down \in SUBSET Inputs /\ lost \in SUBSET Inputs
  /\ results \in Seq(Result) /\ streamed \in Seq(Result)
  /\ totals \in [ok : Nat, err : Nat, skip : Nat]
  /\ failed \in BOOLEAN /\ cancelled \in BOOLEAN
  /\ released \in Seq(HeldKey) /\ exit \in {"none", "ok", "failure"}

Ended == phase \in {"done", "aborted"}

\* When the run has ended and no release it asked for failed, nothing is
\* down, whatever lines failed, were skipped or rolled back on the way.
NothingLeftDown == Ended /\ lost = {} => down = {}

\* Between lines, and as long as no release failed, everything the OS sees
\* as pressed is in heldState: a line's flags, chord and button are never
\* carried into the next line, not even by a line that failed midway.
LinesLeaveOnlyHeld == phase = "loop" /\ lost = {} => down \subseteq HeldInputs

\* The results of these statuses and sources.
Count(S, srcs) ==
  Cardinality({i \in DOMAIN results : results[i].status \in S /\ results[i].src \in srcs})

\* Every line is reported exactly once, in order, and a streaming caller is
\* given every result that Summary.Results has, warns and extras included.
\* The done line's totals are the counts of the results that were printed,
\* auto-release warns apart, and the exit code is 1 iff an err was printed.
ResultsComplete ==
  /\ opt.stream => streamed = results
  /\ phase = "done" =>
    LET ops == {i \in DOMAIN results : results[i].src = "op"} IN
    /\ {results[i].line : i \in ops} = DOMAIN prog
    /\ \A i, j \in ops : i < j => results[i].line < results[j].line
    /\ totals.ok = Count({"ok", "warn"}, {"op", "cap"})
    /\ totals.err = Count({"err"}, {"op", "cap"})
    /\ totals.skip = Count({"skip"}, {"op"})
    /\ Len(released) = Count({"warn"}, {"release"})
    /\ exit = "failure" <=> totals.err > 0

\* An auto-release warn names a kd or md line that succeeded: what a failed
\* line took was given back by the line itself.
ReleasesNameLinesThatSucceeded ==
  \A i \in DOMAIN results :
    results[i].src = "release" =>
      \E j \in DOMAIN results :
        /\ results[j].src = "op" /\ results[j].line = results[i].line
        /\ results[j].status = "ok"

\* Once a line has failed without -k, or the caller is gone, no input goes
\* down any more: what is left of the run only releases.
StopsPressing ==
  [][cancelled \/ (failed /\ ~opt.keepGoing) => down' \subseteq down]_vars

-----------------------------------------------------------------------------
(* The invariant the proofs rest on.                                       *)

\* Inputs the running op itself has down, outside `flags` and `chord`.
OwnButton == IF phase \in {"clickUp", "dragPath", "dragUp"} THEN {op.btn} ELSE {}

BetweenOps == {"preflight", "loop", "report", "errcap", "release", "done", "aborted"}

\* Until a release fails, every input that is down has an owner that will
\* lift it: heldState, or a local of the running op.
EveryInputOwned ==
  lost = {} =>
    down \subseteq HeldInputs \cup ToSet(flags) \cup ToSet(chord) \cup OwnButton

\* Where those owners can be non-empty, and what the op in progress may be.
ControlInPlace ==
  /\ phase \in BetweenOps => flags = <<>>
  /\ chord # <<>> => phase \in {"press", "unwind", "unpress", "kd", "rollback"}
  /\ phase = "kd" => ToSet(chord) \subseteq InputsOf(keys)
  /\ phase \in {"preflight", "aborted", "done"} => keys = <<>> /\ buttons = <<>>
  /\ phase = "clickUp" => left > 0
  /\ phase = "call" => op.kind \in DOMAIN Outcomes
  /\ phase \notin {"preflight", "loop", "release", "done", "aborted"} =>
       line \in DOMAIN prog

\* A run that must stop is past its last op.
StoppedForGood == Stopped => phase \in {"loop", "errcap", "release", "done"}

\* Lines reported so far: during the extra capture the running one already is.
Reported == IF phase = "errcap" THEN line ELSE line - 1

\* The line loop and what it has reported keep pace, and a streaming caller
\* has all of it.
ResultsInPlace ==
  /\ opt.stream => streamed = results
  /\ line <= Len(prog) + 1
  /\ phase \in {"release", "done"} => line = Len(prog) + 1
  /\ phase \in {"preflight", "aborted"} => results = <<>> /\ line = 1
  /\ \A i \in DOMAIN results : results[i].src = "op" => results[i].line \in 1..Reported
  /\ \A l \in 1..Reported : \E i \in DOMAIN results :
       results[i].src = "op" /\ results[i].line = l
  /\ \A i, j \in DOMAIN results :
       results[i].src = "op" /\ results[j].src = "op" /\ i < j
         => results[i].line < results[j].line

\* The counters are those of the results, and a failure is one of them.
TotalsInPlace ==
  /\ totals.ok = Count({"ok", "warn"}, {"op", "cap"})
  /\ totals.err = Count({"err"}, {"op", "cap"})
  /\ totals.skip = Count({"skip"}, {"op"})
  /\ failed <=> totals.err > 0
  /\ phase = "errcap" => failed
  /\ phase # "done" => \A i \in DOMAIN results : results[i].src # "release"
  /\ phase = "done" => /\ Len(released) = Count({"warn"}, {"release"})
                       /\ exit = "failure" <=> failed

\* Line l was reported ok.
OkLine(l) == [line |-> l, status |-> "ok", src |-> "op"] \in ToSet(results)

\* What is held was taken by a line that was reported ok, or by the running
\* one, which is about to be unless it takes everything back.
TakenHere(e)  == e.line = line /\ (status = "ok" \/ phase = "rollback")
TakenSoFar(e) == e.line < line /\ OkLine(e.line)

HeldInPlace ==
  /\ \A e \in ToSet(keys) :
       TakenSoFar(e) \/ (TakenHere(e) /\ phase \in {"kd", "rollback", "lift", "report"})
  /\ \A e \in ToSet(buttons) :
       TakenSoFar(e) \/ (TakenHere(e) /\ phase \in {"lift", "report"})
  /\ \A e \in ToSet(released) : OkLine(e.line)
  /\ phase \in {"mods", "move", "md", "kd"} => status = "ok"
  /\ ReleasesNameLinesThatSucceeded

\* The keys of the running kd line are the last ones held, in its order: the
\* rollback that unholds them, newest first, unholds no other line's.
OwnKeysLast ==
  phase \in {"kd", "rollback"} =>
    /\ Len(chord) <= Len(keys)
    /\ \A i \in DOMAIN keys :
         IF i <= Len(keys) - Len(chord)
         THEN keys[i].line < line
         ELSE keys[i].input = chord[i - (Len(keys) - Len(chord))]

\* The inductive invariant: it holds initially, no step breaks it, and the
\* invariants above and StopsPressing follow from it.
IInv == /\ TypeOK /\ EveryInputOwned /\ ControlInPlace /\ StoppedForGood
        /\ ResultsInPlace /\ TotalsInPlace /\ HeldInPlace /\ OwnKeysLast

\* The run ends, with a summary or aborted by preflight, unless the program
\* one of its exec or open lines waits for never lets it go: there, and at no
\* other step of no other line, a run may stay for ever.
Terminates == <>Ended \/ <>[]WaitsForProgram
=============================================================================
