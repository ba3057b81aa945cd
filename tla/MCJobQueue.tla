----------------------------- MODULE MCJobQueue -----------------------------
(* Instances of JobQueue for TLC.                                          *)
EXTENDS JobQueue

\* 10 s and 60 s stay in order; the last entry repeats.
BackoffTicks == <<1, 2>>
=============================================================================
