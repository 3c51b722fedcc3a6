---------------------------- MODULE BurstLimiter ----------------------------
(***************************************************************************)
(* What relaunching promises the user: "more relaunches than this inside   *)
(* LXE_RELAUNCH_WINDOW_MS is a loop, not an update" (relaunch_protocol.h). *)
(***************************************************************************)
EXTENDS Naturals, Sequences

CONSTANTS MaxBurst, Window

VARIABLES now,        \* the clock
          relaunches  \* when the program was relaunched

Allowed == \/ Len(relaunches) < MaxBurst
           \/ now - relaunches[Len(relaunches) - MaxBurst + 1] > Window

BurstInit == now = 0 /\ relaunches = <<>>

Relaunch == Allowed /\ relaunches' = Append(relaunches, now) /\ UNCHANGED now

Pass == now' > now /\ UNCHANGED relaunches

BurstSpec == BurstInit /\ [][Relaunch \/ Pass]_<<now, relaunches>>
=============================================================================
