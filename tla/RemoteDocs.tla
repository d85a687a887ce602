----------------------------- MODULE RemoteDocs -----------------------------
(* What the help says of the files a remote run names, as properties.        *)
EXTENDS RemoteRun

\* assets/help.txt:220: "txt paste clip use the file's contents; qclip writes
\* to it".  A file that a txt, paste or clip line reads keeps the contents the
\* user gave it, whatever becomes of the line and of the run.
InputFilesAreOnlyRead == \A l \in 1..n : kinds[l] = "input" => files[l] = "own"
=============================================================================
