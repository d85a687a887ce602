----------------------------- MODULE InputDocs -----------------------------
EXTENDS MCInput

\* assets/help-macos.txt:264-265: "Double clicks are sent with the click-state field set
\* (c[n=2]); two separate `c` lines are NOT a double click."  So the first press of a
\* button on a line carries a click count of one.
SeparateLinesAreNotADoubleClick ==
  [][ plat = "darwin" =>
       \A b \in fresh : b \in down' \ down => counts'[b] = 1 ]_vars
=============================================================================
