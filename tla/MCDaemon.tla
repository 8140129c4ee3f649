------------------------------ MODULE MCDaemon ------------------------------
(* Both daemons, with every outcome of every step.                          *)
EXTENDS Daemon

\* A message from a clock that is ahead, and a fast and a slow one from clocks
\* that are not.
SomeTimes == {-1, 1, 2}

=============================================================================
