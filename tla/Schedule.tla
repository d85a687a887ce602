------------------------------ MODULE Schedule ------------------------------
(***************************************************************************)
(* The lines that wait for the machine: win and open with wait=, which     *)
(* poll the window list, and cap with n= and ms=, a burst of frames on     *)
(* absolute deadlines.  One such line runs here against a clock, a desktop *)
(* whose windows come and go, and a caller that may go away (ctx).         *)
(*                                                                         *)
(* Time is counted in ticks.  A query of the backend takes at most         *)
(* MaxQuery, a frame at most MaxShoot, and a sleep ends at most Slack      *)
(* late; `due` is the time by which the call in progress has returned.     *)
(***************************************************************************)
EXTENDS Integers, Sequences

CONSTANTS
  PollInterval,  \* windowPollInterval
  Waits,         \* the values of wait=
  Frames, Interval,  \* n= and ms= of cap
  MaxQuery, MaxShoot, Slack
ASSUME ScheduleAssumption ==
  /\ {PollInterval, Interval, Frames} \subseteq Nat \ {0} /\ Waits \subseteq Nat
  /\ {MaxQuery, MaxShoot, Slack} \subseteq Nat

VARIABLES
  op,        \* the line
  now,       \* the clock
  due,       \* the call in progress returns by then
  there,     \* the windows that match: 0, 1, or 2 for several
  seen,      \* what `there` has been since the query began
  absentAt,  \* when no window matched last
  cancelled, \* ctx.Err() # nil
  pc,        \* "begin" / "query" / "poll_sleep" / "focus" / "frame_sleep" / "shoot" / "done"
  deadline,  \* pollForWindow's
  wake,      \* when the sleep in progress ends by itself
  queries,   \* when the last query began, -1 before the first
  window,    \* st.window is set
  results,   \* runFrameSeries' results
  shots,     \* when each frame's call began and ended
  files,     \* frames written to disk
  res        \* how the line ended

desk == <<there, absentAt, cancelled>>
poll == <<deadline, queries, window>>
burst == <<results, shots, files>>
scheduleVars == <<op, now, due, desk, seen, pc, wake, poll, burst, res>>

Ops == [kind : {"win", "open"}, hasWait : BOOLEAN, wait : Waits]
         \cup [kind : {"cap"}, inline : BOOLEAN]

ScheduleInit ==
  /\ op \in Ops
  /\ now = 0 /\ due = 0
  /\ there \in 0..2 /\ seen = {} /\ absentAt = 0 /\ cancelled = FALSE
  /\ pc = "begin" /\ wake = 0 /\ deadline = 0 /\ queries = -1 /\ window = FALSE
  /\ results = <<>> /\ shots = <<>> /\ files = {}
  /\ res = "none"

-----------------------------------------------------------------------------
(* The clock, the desktop and the caller.                                  *)

Tick ==
  /\ pc # "done" /\ now < due
  /\ now' = now + 1
  /\ absentAt' = IF there = 0 THEN now' ELSE absentAt
  /\ UNCHANGED <<op, due, there, cancelled, seen, pc, wake, poll, burst, res>>

WindowsChange ==
  /\ op.kind # "cap" /\ pc # "done"
  /\ there' \in 0..2 \ {there}
  /\ absentAt' = IF 0 \in {there, there'} THEN now ELSE absentAt
  /\ seen' = seen \cup {there'}
  /\ UNCHANGED <<op, now, due, cancelled, pc, wake, poll, burst, res>>

Cancel ==
  /\ ~cancelled /\ pc # "done" /\ cancelled' = TRUE
  /\ UNCHANGED <<op, now, due, there, absentAt, seen, pc, wake, poll, burst, res>>

\* "query failed", "no match" and "focus failed" are E_NOWINDOW with three messages.
Ends(r) == pc' = "done" /\ res' = r /\ UNCHANGED due
Calls(where, limit) == pc' = where /\ due' = now + limit /\ UNCHANGED res

-----------------------------------------------------------------------------
(* win and open: pollForWindow.                                            *)

\* open without wait= is over when the launch is; the launch may fail.
Begin ==
  /\ pc = "begin" /\ op.kind # "cap"
  /\ deadline' = now + IF op.hasWait THEN op.wait ELSE 0
  /\ \/ /\ op.kind = "open" /\ Ends("E_EXEC") /\ UNCHANGED <<queries, seen>>
     \/ /\ op.kind = "open" /\ ~op.hasWait /\ Ends("ok") /\ UNCHANGED <<queries, seen>>
     \/ /\ op.kind = "win" \/ op.hasWait
        /\ Calls("query", MaxQuery) /\ queries' = now /\ seen' = {there}
  /\ UNCHANGED <<op, now, desk, wake, window, burst>>

Remaining == IF deadline - now < PollInterval THEN deadline - now ELSE PollInterval

\* Mutant: the deadline counts from one interval earlier, as if the next sleep could not fit.
TimedOutEarly == now + PollInterval >= deadline

TimedOut == now >= deadline

QueryFails == /\ pc = "query" /\ Ends("query failed")
              /\ UNCHANGED <<op, now, desk, seen, wake, poll, burst>>

\* The query answers with something that was so while it ran.
QueryAnswers ==
  /\ pc = "query"
  /\ \/ /\ seen # {0}
        /\ IF op.kind = "win" THEN Calls("focus", MaxQuery) ELSE Ends("ok")
        /\ UNCHANGED wake
     \/ /\ 0 \in seen /\ TimedOut /\ Ends("no match") /\ UNCHANGED wake
     \/ /\ 0 \in seen /\ ~TimedOut
        /\ wake' = now + Remaining /\ Calls("poll_sleep", Remaining + Slack)
  /\ UNCHANGED <<op, now, desk, seen, poll, burst>>

\* Mutant: sleepCtx has no case for its timer.
OnlyCtx == cancelled

\* sleepCtx returns when its timer fires or the context is over.
Rested == now >= wake \/ cancelled

PollAgain ==
  /\ pc = "poll_sleep" /\ Rested
  /\ Calls("query", MaxQuery) /\ queries' = now /\ seen' = {there}
  /\ UNCHANGED <<op, now, desk, wake, deadline, window, burst>>

\* The window found may be gone, or refuse; several matches are a warning.
Focus ==
  /\ pc = "focus"
  /\ \/ /\ there # 0 /\ window' = TRUE
        /\ \E w \in seen \ {0} : Ends(IF w = 2 THEN "warn" ELSE "ok")
     \/ Ends("focus failed") /\ UNCHANGED window
  /\ UNCHANGED <<op, now, desk, seen, wake, deadline, queries, burst>>

-----------------------------------------------------------------------------
(* cap: runFrameSeries and its shoot.                                      *)

\* Mutant: each frame waits an interval after the one before it.
AfterTheLast(i) == now + Interval

\* The absolute deadline of frame i, counted from the burst's beginning, which is 0 here.
Scheduled(i) == i * Interval

Shot == [began |-> now, ended |-> -1]

BurstBegins ==
  /\ pc = "begin" /\ op.kind = "cap"
  /\ Calls("shoot", MaxShoot) /\ shots' = <<Shot>>
  /\ UNCHANGED <<op, now, desk, seen, wake, poll, results, files>>

\* The frame is taken, encoded and written; the next one sleeps only if its time is to come.
Shoot ==
  LET i == Len(results)
      taken == [shots EXCEPT ![i + 1] = [began |-> @.began, ended |-> now]] IN
  /\ pc = "shoot"
  /\ files' = IF op.inline THEN files ELSE files \cup {i}
  /\ results' = Append(results, [scheduled |-> i * Interval, actual |-> shots[i + 1].began,
                                 slip |-> shots[i + 1].began - i * Interval])
  /\ \/ i + 1 >= Frames /\ Ends("ok") /\ shots' = taken /\ UNCHANGED wake
     \/ /\ i + 1 < Frames /\ Scheduled(i + 1) > now
        /\ wake' = Scheduled(i + 1) /\ Calls("frame_sleep", wake' - now + Slack)
        /\ shots' = taken
     \/ /\ i + 1 < Frames /\ Scheduled(i + 1) <= now
        /\ Calls("shoot", MaxShoot) /\ shots' = Append(taken, Shot) /\ UNCHANGED wake
  /\ UNCHANGED <<op, now, desk, seen, poll>>

\* Capture, encodePNG or WriteCaptureFile fails: the burst ends and the line names no frame.
ShootFails ==
  /\ pc = "shoot"
  /\ \E code \in {"E_NOWINDOW", "E_BOUNDS", "E_CAPTURE"} : Ends(code)
  /\ UNCHANGED <<op, now, desk, seen, wake, poll, burst>>

FrameDue ==
  /\ pc = "frame_sleep" /\ Rested
  /\ Calls("shoot", MaxShoot) /\ shots' = Append(shots, Shot)
  /\ UNCHANGED <<op, now, desk, seen, wake, poll, results, files>>

ScheduleNext ==
  \/ Tick \/ WindowsChange \/ Cancel
  \/ Begin \/ QueryFails \/ QueryAnswers \/ PollAgain \/ Focus
  \/ BurstBegins \/ Shoot \/ ShootFails \/ FrameDue

ScheduleSpec ==
  /\ ScheduleInit /\ [][ScheduleNext]_scheduleVars /\ WF_scheduleVars(Tick)
  /\ WF_scheduleVars(Begin) /\ WF_scheduleVars(QueryAnswers) /\ WF_scheduleVars(PollAgain)
  /\ WF_scheduleVars(Focus) /\ WF_scheduleVars(BurstBegins) /\ WF_scheduleVars(Shoot)
  /\ WF_scheduleVars(FrameDue)
-----------------------------------------------------------------------------

\* wait= is kept from both sides.  A line says that no window matched only if none did at
\* some moment no earlier than the deadline less one query, cancelled or not: a window that
\* came in time and stayed is found.  And the poll is over one late sleep and one query
\* after the deadline, a win's Focus one call later.
PatientAndPunctual ==
  op.kind # "cap" =>
    /\ res = "no match" => absentAt >= deadline - MaxQuery
    /\ pc \in {"query", "poll_sleep"} => now <= deadline + Slack + MaxQuery
    /\ pc = "done" => now <= deadline + Slack + 2 * MaxQuery
    /\ window <=> res \in {"ok", "warn"} /\ op.kind = "win"

LaterOf(a, b) == IF a < b THEN b ELSE a

\* Lateness does not add up over a burst: a frame is late by one late sleep, or because the
\* frame before it took longer than the interval, and by no more; only a caller that has
\* gone makes it early.  What the results say is when the frames were taken, and a line
\* that is ok has them all, on disk unless they are inline.
BurstKeepsTime ==
  op.kind = "cap" =>
    /\ \A i \in DOMAIN shots :
         /\ shots[i].began >= (i - 1) * Interval \/ cancelled
         /\ i > 1 => shots[i].began <= LaterOf((i - 1) * Interval + Slack, shots[i - 1].ended)
    /\ \A i \in DOMAIN results :
         /\ results[i].actual = shots[i].began
         /\ results[i].slip = shots[i].began - results[i].scheduled
    /\ res = "ok" => /\ Len(results) = Frames
                     /\ files = IF op.inline THEN {} ELSE 0..Frames - 1

\* The line ends, also after a cancellation, when the poll's sleeps return at once and only
\* the clock ends it.
LineEnds == <>(pc = "done")
=============================================================================
