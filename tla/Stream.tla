------------------------------- MODULE Stream -------------------------------
(***************************************************************************)
(* internal/output: the lines a run prints, and the exit code they imply.  *)
(* A line is kept as what it says: its kind, the program line it is about, *)
(* its status and where it comes from (the op itself, the --cap-on-error   *)
(* capture, an auto-release warn).  The plain and the JSONL forms of a     *)
(* line are one event.                                                     *)
(***************************************************************************)
EXTENDS Naturals, Sequences, FiniteSets

StartEv == [ev |-> "start"]
ResultEv(l, s, src) == [ev |-> "result", line |-> l, status |-> s, src |-> src]
DoneEv(ok, err, skip) == [ev |-> "done", ok |-> ok, err |-> err, skip |-> skip]
UnknownEv == [ev |-> "unknown"]             \* a done line with state=unknown
AbortEv(c) == [ev |-> "abort", code |-> c]
MalformedEv == [ev |-> "malformed"]         \* the bridge's "malformed request: ..." line
PermsEv(g) == [ev |-> "perms", granted |-> g]   \* ends a --request-perms

AbortExit(c) == CASE c = "E_VALIDATE" -> 2 [] c = "E_CONNECT" -> 3 [] OTHER -> 4
AbortCodes   == {"E_VALIDATE", "E_CONNECT", "E_SESSION"}

IsResult(e) == e.ev = "result"
IsLine(e)   == e.ev = "result" /\ e.src = "op"
Ends(e)     == e.ev \in {"done", "unknown", "abort", "perms"}

\* The results of out with these statuses, auto-release warns apart.
Counted(out, statuses) ==
  Cardinality({i \in DOMAIN out :
                 IsResult(out[i]) /\ out[i].src # "release" /\ out[i].status \in statuses})

LinesDone(out) == Cardinality({i \in DOMAIN out : IsLine(out[i])})

\* The exit code of a process whose last line is e.
ExitFor(e) == CASE e.ev = "abort"   -> AbortExit(e.code)
                [] e.ev = "unknown" -> 5
                [] e.ev = "perms"   -> IF e.granted THEN 0 ELSE 4
                [] e.ev = "done"    -> IF e.err > 0 THEN 1 ELSE 0
=============================================================================
