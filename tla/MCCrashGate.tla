---------------------------- MODULE MCCrashGate -----------------------------
(* Instances of CrashGate for TLC: the main thread and a worker.
   Where lines may fault under the mutex the reporter may really hang: only there is
   deadlock not checked. *)
EXTENDS CrashGate

CONSTANTS main, w1, a1, a2, a3, a4
=============================================================================
