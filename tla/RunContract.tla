---------------------------- MODULE RunContract ----------------------------
(***************************************************************************)
(* What any gotto-hando process that runs a sequence promises to whoever   *)
(* reads its output and its exit code, whether it injects the input itself *)
(* or relays a run that takes place elsewhere:                             *)
(*   - one start, first; at most one done or abort, last, and with it the  *)
(*     exit code;                                                          *)
(*   - one result per line, in order, once; a skip is followed by skips    *)
(*     only, and without -k so is an err; an extra capture follows its     *)
(*     err, the auto-release warns come after the last line;               *)
(*   - an abort only before the first result;                              *)
(*   - the totals of done are those of the results above it; a done that    *)
(*     says state=unknown owes nothing.                                    *)
(* The process may be killed at any time, and then owes nothing.           *)
(***************************************************************************)
EXTENDS Stream

CONSTANTS MaxLines,    \* lines of the longest sequence
          MaxHeld,     \* inputs a run may hold when its last line ends
          LineStatuses \* the statuses a line may end with, "skip" among them

VARIABLES n, kg,       \* lines of the sequence and -k, fixed for the run
          out,         \* what was printed
          proc,        \* "running", "exited", "killed"
          code         \* exit code, once exited

vars == <<n, kg, out, proc, code>>

Init == /\ n \in 0..MaxLines /\ kg \in BOOLEAN
        /\ out = <<>> /\ proc = "running" /\ code = 0

Prints(evs) == /\ out' = out \o evs
               /\ UNCHANGED <<n, kg, proc, code>>

\* What may be printed next depends on what has been printed.
Open(s)     == s # <<>> => ~Ends(s[Len(s)])
AllDone(s)  == LinesDone(s) = n
MustSkip(s) == \E i \in DOMAIN s :
                 /\ IsLine(s[i])
                 /\ s[i].status = "skip" \/ (s[i].status = "err" /\ ~kg)
NextLine(s) == {ResultEv(LinesDone(s) + 1, st, "op") :
                  st \in IF MustSkip(s) THEN {"skip"} ELSE LineStatuses}
FailedLast(s) == IsLine(s[Len(s)]) /\ s[Len(s)].status = "err"
Extra(s)      == {ResultEv(s[Len(s)].line, st, "cap") : st \in {"ok", "err"}}
IsRelease(e)  == IsResult(e) /\ e.src = "release"
LateWarns(s)  == Cardinality({i \in DOMAIN s : IsRelease(s[i])})
NoResultYet(s) == \A i \in DOMAIN s : s[i] = StartEv
TrueDone(s)   == DoneEv(Counted(s, {"ok", "warn"}), Counted(s, {"err"}), Counted(s, {"skip"}))

Running == proc = "running" /\ Open(out)
Started == Running /\ out # <<>>

Start == Running /\ out = <<>> /\ Prints(<<StartEv>>)

Line == Started /\ ~AllDone(out) /\ \E e \in NextLine(out) : Prints(<<e>>)

ExtraCapture == Started /\ FailedLast(out) /\ \E e \in Extra(out) : Prints(<<e>>)

\* What is still held is released after the last line, and named by the
\* line that took it; the warns may come one by one or all at once.
Warns(ls) == [i \in DOMAIN ls |-> ResultEv(ls[i], "warn", "release")]
AutoRelease(k) == /\ Started /\ AllDone(out) /\ LateWarns(out) + k <= MaxHeld
                  /\ \E ls \in [1..k -> 1..n] : Prints(Warns(ls))

Abort == /\ Running /\ NoResultYet(out)
         /\ \E c \in AbortCodes :
              \/ Prints(<<AbortEv(c)>>)
              \/ out = <<>> /\ Prints(<<StartEv, AbortEv(c)>>)

Done == Started /\ AllDone(out) /\ Prints(<<TrueDone(out)>>)

\* The run goes on elsewhere, or ended there unseen.
DoneUnknown ==
  Running /\ Prints((IF out = <<>> THEN <<StartEv>> ELSE <<>>) \o <<UnknownEv>>)

Exit == /\ proc = "running" /\ ~Open(out)
        /\ proc' = "exited" /\ code' = ExitFor(out[Len(out)])
        /\ UNCHANGED <<n, kg, out>>

\* A usage or validation error, or a version mismatch: stderr only.
Refuse == /\ proc = "running" /\ out = <<>>
          /\ proc' = "exited" /\ code' \in {2, 3}
          /\ UNCHANGED <<n, kg, out>>

Killed == proc = "running" /\ proc' = "killed" /\ UNCHANGED <<n, kg, out, code>>

Next == \/ Start \/ Line \/ ExtraCapture \/ Abort \/ Done \/ DoneUnknown
        \/ Exit \/ Refuse \/ Killed
        \/ \E k \in 1..MaxHeld : AutoRelease(k)

Spec == Init /\ [][Next]_vars

-----------------------------------------------------------------------------
\* The contract as a relation, one event at a time: may e follow s?
Follows(s, e) ==
  \/ s = <<>> /\ e = StartEv
  \/ /\ s # <<>> /\ Open(s)
     /\ \/ ~AllDone(s) /\ e \in NextLine(s)
        \/ FailedLast(s) /\ e \in Extra(s)
        \/ /\ AllDone(s) /\ LateWarns(s) + 1 <= MaxHeld
           /\ \E l \in 1..n : e = ResultEv(l, "warn", "release")
        \/ NoResultYet(s) /\ \E c \in AbortCodes : e = AbortEv(c)
        \/ AllDone(s) /\ e = TrueDone(s)
        \/ e = UnknownEv
=============================================================================
