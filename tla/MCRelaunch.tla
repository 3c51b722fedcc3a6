----------------------------- MODULE MCRelaunch -----------------------------
(* Instances of Relaunch for TLC.  The bounds stand for 5 relaunches in 30 s: the
   requests suffice to go over the burst and, after a while, over it again. *)
EXTENDS Relaunch
CONSTANTS short, long, ok, magic, failed
=============================================================================
