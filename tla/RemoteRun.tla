----------------------------- MODULE RemoteRun ------------------------------
(***************************************************************************)
(* A run with a <dest>: runRemote spawns ssh, feeds it the rewritten       *)
(* sequence and relays what `local --jsonl` prints there.                  *)
(*                                                                         *)
(* The far process is any process that keeps RunContract; its output is    *)
(* `fout`, of which ssh delivers a prefix, in order.  `up` is the ssh      *)
(* connection; when it ends (network loss, or the local deadline killing   *)
(* ssh) only some of the `cut` events printed by then may still arrive,    *)
(* and the far process is not told: what it does next is its own contract. *)
(* `read` events have been read by the local scanner.                      *)
(*                                                                         *)
(* `files[l]` is the content of the file that line l names (FilePath): an  *)
(* "input" line (txt, paste, clip with [f]) reads it, a "qclip" line       *)
(* (qclip[f]) and a "cap" line are to write it; a "plain" line names none. *)
(***************************************************************************)
EXTENDS Stream, SequencesExt

CONSTANTS MaxLines, LineKinds, LineStatuses
ASSUME RemoteAssumption ==
  /\ MaxLines \in Nat
  /\ LineKinds \subseteq {"plain", "input", "qclip", "cap"}
  /\ LineStatuses \subseteq {"ok", "warn", "err", "skip"}

VARIABLES
  n, kg, kinds, jsonl,           \* the sequence and the options
  fout, fproc, fcode,            \* the far process
  sent, up, cut, read,           \* ssh was started; the ssh connection
  here, out, code,               \* runRemote: where it is, what it printed
  files

call   == <<n, kg, kinds, jsonl>>
link   == <<sent, up, cut, read>>
local  == <<here, out, code, files>>
remoteVars == <<call, fout, fproc, fcode, link, local>>

Far == INSTANCE RunContract WITH
  out <- fout, proc <- fproc, code <- fcode, MaxHeld <- 1

Alive == here \notin {"exited", "killed"}

RemoteInit ==
  /\ Far!Init
  /\ kinds \in [1..n -> LineKinds] /\ jsonl \in BOOLEAN
  /\ sent = FALSE /\ up = FALSE /\ cut = 0 /\ read = 0
  /\ here = "rewrite" /\ out = <<>> /\ code = 0
  /\ files = [l \in 1..n |-> IF kinds[l] = "plain" THEN "none" ELSE "own"]

-----------------------------------------------------------------------------
(* The far process and the connection.                                     *)

FarStep == /\ sent /\ Far!Next
           /\ UNCHANGED <<kinds, jsonl, link, local>>

SshEnds == /\ up /\ up' = FALSE
           /\ cut' = Len(fout)
           /\ UNCHANGED <<call, fout, fproc, fcode, sent, read, local>>

Arriving == IF up THEN Len(fout) ELSE cut
SshGone  == ~up \/ fproc # "running"       \* cmd.Wait returns
EOF      == SshGone /\ (~up \/ read = Arriving)    \* scanner.Scan returns false
Ready    == read < Arriving
Incoming == fout[read + 1]

-----------------------------------------------------------------------------
(* runRemote.                                                              *)

Prints(evs) == out' = out \o evs

LocalStep(from, to) == /\ here = from /\ here' = to
                       /\ UNCHANGED <<call, fout, fproc, fcode, cut>>
                       /\ sent' = (sent \/ to = "waitForStart")

Rewrite ==
  \/ /\ LocalStep("rewrite", "spawn")
     /\ UNCHANGED <<up, read, out, code, files>>
  \/ /\ LocalStep("rewrite", "exited") /\ code' = 2
     /\ UNCHANGED <<up, read, out, files>>

Spawn ==
  \/ LocalStep("spawn", "waitForStart") /\ up' = TRUE
     /\ UNCHANGED <<read, out, code, files>>
  \/ LocalStep("spawn", "noSpawn")
     /\ UNCHANGED <<up, read, out, code, files>>

\* The abort closure: plain prints one line, jsonl the start object too.
PrintsAbort(c) ==
  Prints(IF jsonl THEN <<StartEv, AbortEv(c)>> ELSE <<AbortEv(c)>>)

ConnectAborts ==
  /\ \/ LocalStep("noSpawn", "ended")
     \/ LocalStep("noStart", "ended") /\ SshGone
  /\ PrintsAbort("E_CONNECT")
  /\ UNCHANGED <<up, read, code, files>>

WaitForStart ==
  \/ /\ LocalStep("waitForStart", "first")
     /\ Ready /\ Incoming = StartEv /\ read' = read + 1
     /\ UNCHANGED <<up, out, code, files>>
  \/ /\ LocalStep("waitForStart", "noStart")
     /\ EOF \/ (Ready /\ Incoming # StartEv)
     /\ UNCHANGED <<up, read, out, code, files>>

\* Nothing is printed before the line after start: it may be an abort, or
\* too long for the scanner.
FirstLine ==
  \/ /\ LocalStep("first", "ended")
     /\ EOF \/ (SshGone /\ Ready /\ IsResult(Incoming))
     /\ Prints(<<StartEv, UnknownEv>>)
     /\ UNCHANGED <<up, read, code, files>>
  \/ /\ LocalStep("first", "aborted") /\ Ready /\ Incoming.ev = "abort"
     /\ UNCHANGED <<up, read, out, code, files>>
  \/ /\ LocalStep("first", "stream") /\ Ready /\ Incoming.ev # "abort"
     /\ Prints(<<StartEv>>)
     /\ UNCHANGED <<up, read, code, files>>

RelayAbort == /\ LocalStep("aborted", "ended") /\ SshGone
              /\ PrintsAbort(Incoming.code)
              /\ UNCHANGED <<up, read, code, files>>

(* Relay.Process: the file a result writes, and the status it is printed   *)
(* with.                                                                   *)
IsCapture(e) == e.src = "cap" \/ (e.src = "op" /\ kinds[e.line] = "cap")

\* A capture goes to the file its line names, whatever kind of line it is;
\* a skip has no data, and writes an empty file.
CapturesTo(e) ==
  IF files[e.line] = "none" THEN files
  ELSE [files EXCEPT ![e.line] = IF e.status = "skip" THEN "empty" ELSE "png"]

SavesClipboard(e) ==
  [files EXCEPT ![e.line] = IF e.status = "skip" THEN "empty" ELSE "text"]

\* Mutant: an err is relayed after its file was written.
SavedOnErr(e) == CASE IsCapture(e)                               -> CapturesTo(e)
                   [] ~IsCapture(e) /\ e.src = "op"
                        /\ kinds[e.line] = "qclip"               -> SavesClipboard(e)
                   [] OTHER                                      -> files

Saved(e) == CASE e.status = "err"                                -> files
              [] e.status # "err" /\ IsCapture(e)                -> CapturesTo(e)
              [] e.status # "err" /\ e.src = "op"
                   /\ kinds[e.line] = "qclip"                    -> SavesClipboard(e)
              [] OTHER                                           -> files

\* A write that fails may leave part of the content behind.
Spoiled(e) == [l \in DOMAIN files |-> IF Saved(e)[l] # files[l] THEN "part" ELSE files[l]]

PrintedStatus(e) ==
  IF e.status # "err" /\ IsCapture(e) THEN "ok" ELSE e.status

RelayResult ==
  /\ Ready /\ IsResult(Incoming) /\ read' = read + 1
  /\ LocalStep("stream", "stream")
  /\ Prints(<<[Incoming EXCEPT !.status = PrintedStatus(Incoming)]>>)
  /\ files' = Saved(Incoming)
  /\ UNCHANGED <<up, code>>

\* Mutant: the relay goes on after a result it could not process.
RelayGoesOn ==
  /\ Ready /\ IsResult(Incoming) /\ read' = read + 1
  /\ LocalStep("stream", "stream")
  /\ UNCHANGED <<up, out, code, files>>

\* A line too long or that does not decode, a file that cannot be written, or a failed
\* write to stdout (--jsonl only) ends the relay; the run goes on over there.
RelayFails ==
  /\ Ready /\ IsResult(Incoming) /\ read' = read + 1
  /\ LocalStep("stream", "unknown")
  /\ UNCHANGED <<up, out, code>>
  /\ \/ files' \in {files, Spoiled(Incoming)}
     \/ jsonl /\ files' = Saved(Incoming)

RelayDone == /\ Ready /\ Incoming.ev \in {"done", "unknown"}
             /\ LocalStep("stream", "drain")
             /\ Prints(<<Incoming>>) /\ read' = read + 1
             /\ UNCHANGED <<up, code, files>>

\* Mutant: the end of the stream is taken for the end of the run.
ConnectionLostIsDone ==
  /\ EOF /\ LocalStep("stream", "drain")
  /\ Prints(<<DoneEv(Counted(out, {"ok", "warn"}), Counted(out, {"err"}),
                     Counted(out, {"skip"}))>>)
  /\ UNCHANGED <<up, read, code, files>>

ConnectionLost == /\ EOF /\ LocalStep("stream", "unknown")
                  /\ UNCHANGED <<up, read, out, code, files>>

\* Mutant: the wait is for the run over there, not for ssh.
StateUnknownAfterRun ==
  /\ LocalStep("unknown", "ended") /\ fproc # "running"
  /\ Prints(<<UnknownEv>>)
  /\ UNCHANGED <<up, read, code, files>>

\* stateUnknownDone waits for ssh before it prints.
StateUnknown == /\ LocalStep("unknown", "ended") /\ SshGone
                /\ Prints(<<UnknownEv>>)
                /\ UNCHANGED <<up, read, code, files>>

\* After a relayed done, runRemote waits for ssh before it returns.
Drain == /\ LocalStep("drain", "ended") /\ SshGone
         /\ UNCHANGED <<up, read, out, code, files>>

Return == /\ LocalStep("ended", "exited")
          /\ code' = ExitFor(Last(out))
          /\ UNCHANGED <<up, read, out, files>>

RunRemote == \/ Rewrite \/ Spawn \/ ConnectAborts \/ WaitForStart \/ FirstLine
             \/ RelayAbort \/ RelayResult \/ RelayFails \/ RelayDone
             \/ ConnectionLost \/ StateUnknown \/ Drain \/ Return

Interrupt == /\ Alive /\ here' = "killed"
             /\ UNCHANGED <<call, fout, fproc, fcode, link, out, code, files>>

Gone == ~Alive /\ ~up /\ UNCHANGED remoteVars

RemoteNext == RunRemote \/ FarStep \/ SshEnds \/ Interrupt \/ Gone

RemoteSpec == RemoteInit /\ [][RemoteNext]_remoteVars

\* runRemote is scheduled, and its deadline ends ssh; the far process
\* promises nothing.
FairRemoteSpec ==
  RemoteSpec /\ WF_remoteVars(RunRemote) /\ WF_remoteVars(SshEnds)

-----------------------------------------------------------------------------
Contract == INSTANCE RunContract WITH
  proc <- IF Alive THEN "running" ELSE here, MaxHeld <- 1

\* Without cap lines, a relayed run keeps the contract of a local one: one
\* start, one end, every line once and in order, totals that match.
KeepsContract == Contract!Spec

SameResult(e, f) == IsResult(f) /\ e.line = f.line /\ e.src = f.src

\* Up to its last result, what is printed is what the far side printed: no
\* result is invented, dropped, doubled or moved, wherever the connection broke.
\* Exit 0 and 1 are the far side's own verdict on a run relayed in full;
\* after exit 2 or 4 no line has run over there, nor will.
ExitCodesSpeakForTheFarSide ==
  /\ \A i \in DOMAIN out :
       IsResult(out[i]) => \A j \in 2..i : j \in DOMAIN fout /\ SameResult(out[j], fout[j])
  /\ here = "exited" =>
    /\ code \in {0, 1} => Len(out) = Len(fout) /\ Last(fout) = Last(out)
    /\ code \in {2, 4} => /\ \A i \in DOMAIN fout : ~IsResult(fout[i])
                          /\ fout # <<>> => Ends(Last(fout))

\* The results read for line l that came from src with one of these statuses.
WasRead(l, src, statuses) ==
  \E i \in 1..read : fout[i] \in {ResultEv(l, s, src) : s \in statuses}

\* Does the line name a file to write, and what does its result put there?
Writes(l)  == kinds[l] \in {"qclip", "cap"}
Content(e) == CASE e.status = "skip" -> "empty"
                [] kinds[e.line] = "cap" /\ e.status # "skip" -> "png"
                [] OTHER -> "text"

\* Whose result the content of line l's file is: text is an ok qclip line's;
\* nothing at all is a skipped qclip or cap line's; a picture is an ok cap
\* line's or, in the file of ANY line that names one, an [f] input included,
\* the extra capture's of that line's failure.
FileIsOf(l) ==
  /\ files[l] = "text"  => kinds[l] = "qclip" /\ WasRead(l, "op", {"ok", "warn"})
  /\ files[l] = "empty" => Writes(l) /\ WasRead(l, "op", {"skip"})
  /\ files[l] = "png"   => \/ kinds[l] = "cap" /\ WasRead(l, "op", {"ok", "warn"})
                           \/ WasRead(l, "cap", {"ok"}) /\ WasRead(l, "op", {"err"})

PrintedIsWritten ==
  \A i \in DOMAIN out :
    IsLine(out[i]) /\ Writes(out[i].line) /\ fout[i].status # "err" =>
      files[out[i].line] = Content(fout[i])

WholeOnceDone ==
  \A l \in 1..n : files[l] = "part" => \A i \in DOMAIN out : out[i].ev # "done"

\* The local files agree with the results, wherever the relay ends.  A file
\* has changed only for a result of its own line that was read, as FileIsOf
\* tells; what a line was printed for, unless as an err, is in its file; and
\* no file is half written in a run whose end was relayed.
FilesFollowResults ==
  (\A l \in 1..n : FileIsOf(l)) /\ PrintedIsWritten /\ WholeOnceDone

\* The wrapper returns, though the far process may hang or the network drop.
WrapperReturns == <>~Alive
=============================================================================
