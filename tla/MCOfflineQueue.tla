--------------------------- MODULE MCOfflineQueue ---------------------------
(* OfflineQueue for TLC: the daemon's main thread, which flushes, and one  *)
(* thread of the GUI process.                                              *)
EXTENDS OfflineQueue

CONSTANTS daemon, gui, main, window, r1, r2

MCProcessOf == [t \in Thread |-> IF t = window THEN gui ELSE daemon]

\* The code waits 2, 4, 8, .. units of 15 s; 1, 2, .. keep the runs small.
MCBackoff == [n \in 1..RetryCap |-> n]
=============================================================================
