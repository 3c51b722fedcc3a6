----------------------------- MODULE StateLoop -----------------------------
(***************************************************************************)
(* The loop that runs a program's main state, restarts it and ends the     *)
(* process (src/src/lua/state.cpp, src/src/lua/env.h,                      *)
(* src/src/commands/run.h), with the payloads loaded meanwhile             *)
(* (src/src/lua/lef.cpp) and the worker states that read them.             *)
(*                                                                         *)
(* A payload is named by the run that loaded it; 0 is the preview from     *)
(* which bundled DLLs are unpacked.  Memory is explicit: `holds` is what a *)
(* thread owns a reference to, `reads` what it will touch.  A payload is   *)
(* freed when neither the snapshot nor a thread holds it.                  *)
(*                                                                         *)
(* Worker states belong to a Lua module outside this repository.  They may *)
(* open whenever a state runs that can start one, and are detached when    *)
(* the state that started them closes, so they outlive restarts.           *)
(***************************************************************************)
EXTENDS Naturals, Sequences, FiniteSets, Functions

CONSTANTS Main, Workers,  \* the threads
          Callback,       \* on_close functions, among them
          Flush,          \* the one env.relaunch registers
          MaxRuns         \* bound: how often the program may run

ASSUME StateLoopAssumption ==
  /\ Main \notin Workers
  /\ Flush \in Callback
  /\ MaxRuns \in Nat \ {0}

Threads == Workers \cup {Main}
Kinds == {"source", "lef", "exe"}
Flags == {"exit", "restart", "relaunch"}
Outcomes == {"none", "ok", "failed", "relaunched"}

VARIABLES kind,      \* what is run: a script, a .lef, a compiled exe
          main,      \* where the main thread is
          run,       \* how many states the loop has made
          flag,      \* the process-wide should_exit, should_restart, should_relaunch
          requested, \* g_requested
          callbacks, \* on_close, each with the run that registered it
          failed,    \* run.h's failed
          outcome,   \* how the process ended
          snapshot,  \* the payloads find_chunk looks through
          at, reads, holds, \* threads in find_chunk and the loader around it
          last,      \* history: what last happened to the wish to restart, in this run
          raised     \* history: some run raised an error

loop == <<kind, run, outcome>>
payloads == <<snapshot, at, reads, holds>>
wishes == <<flag, requested, last>>
vars == <<kind, main, run, flag, requested, callbacks, failed, outcome, payloads, last, raised>>

NoFlags == [f \in Flags |-> FALSE]

Init == /\ kind \in Kinds
        /\ main = IF kind = "source" THEN "open" ELSE "preview"
        /\ run = 0
        /\ flag = NoFlags /\ requested = FALSE
        /\ callbacks = {}
        /\ failed = FALSE /\ outcome = "none"
        /\ snapshot = <<>>
        /\ at = [t \in Threads |-> IF t = Main THEN "idle" ELSE "none"]
        /\ reads = [t \in Threads |-> <<>>]
        /\ holds = [t \in Threads |-> {}]
        /\ last = "none" /\ raised = FALSE

Goto(from, to) == main = from /\ main' = to
End(how) == main' = "ended" /\ outcome' = how

\* register_loaded: a copy of the snapshot with one more payload replaces it.
Register(p) == snapshot' = Append(snapshot, p)

\* clear_loaded: an empty snapshot replaces it.
Clear == snapshot' = <<>>

\* A Lua program runs in t's state and is not in the middle of a require.
Running(t) == at[t] = "idle" /\ main # "ended" /\ (t = Main => main = "run")
-----------------------------------------------------------------------------
\* extract_bundled_dlls: load_from_memory registers, though this is only a preview.
Preview ==
  /\ main = "preview"
  /\ \/ main' = "unpack" /\ Register(0) /\ UNCHANGED outcome
     \/ End("failed") /\ UNCHANGED snapshot
  /\ UNCHANGED <<kind, run, flag, requested, callbacks, failed, at, reads, holds, last, raised>>

Unpack ==
  /\ Goto("unpack", "open")
  /\ Clear
  /\ UNCHANGED <<loop, wishes, callbacks, failed, at, reads, holds, raised>>

\* The top of the loop: forget the callbacks, make a state, which resets the flags.
OpenState ==
  /\ Goto("open", "clear")
  /\ run' = run + 1
  /\ callbacks' = {}
  /\ flag' = NoFlags /\ last' = "none"
  /\ UNCHANGED <<kind, outcome, requested, failed, payloads, raised>>

\* Mutant of ClearLoaded: the payloads of earlier runs stay.
ClearLoadedSkipped ==
  /\ Goto("clear", "load")
  /\ UNCHANGED <<loop, wishes, callbacks, failed, payloads, raised>>

ClearLoaded ==
  /\ Goto("clear", "load")
  /\ Clear
  /\ UNCHANGED <<loop, wishes, callbacks, failed, at, reads, holds, raised>>

\* The payload is parsed and registered; a script, or a file that is no payload, is not.
Load ==
  /\ Goto("load", "run")
  /\ \/ kind # "source" /\ Register(run)
     \/ kind # "exe" /\ UNCHANGED snapshot
  /\ UNCHANGED <<loop, wishes, callbacks, failed, at, reads, holds, raised>>

\* The program returns or raises; a compiled exe prints the error and goes on.
Return ==
  /\ Running(Main)
  /\ Goto("run", "close")
  /\ \E error \in BOOLEAN :
       /\ failed' = (failed \/ (error /\ kind # "exe"))
       /\ raised' = (raised \/ error)
  /\ UNCHANGED <<loop, wishes, callbacks, payloads>>

\* The callbacks run on the state before it is closed.
CloseState ==
  /\ Goto("close", "decide")
  /\ UNCHANGED <<loop, wishes, callbacks, failed, payloads, raised>>

Decide ==
  /\ main = "decide"
  /\ main' = IF flag["restart"] THEN "open" ELSE "finish"
  /\ UNCHANGED <<loop, wishes, callbacks, failed, payloads, raised>>

\* Mutant of Finish: the flag decides, which every new state resets.
FinishByFlag ==
  /\ main = "finish"
  /\ End(IF flag["relaunch"] THEN "relaunched" ELSE IF failed THEN "failed" ELSE "ok")
  /\ UNCHANGED <<kind, run, wishes, callbacks, failed, payloads, raised>>

\* relaunch::perform is asked first, also for a program that failed.
Finish ==
  /\ main = "finish"
  /\ End(IF requested THEN "relaunched" ELSE IF failed THEN "failed" ELSE "ok")
  /\ UNCHANGED <<kind, run, wishes, callbacks, failed, payloads, raised>>

\* env.exit, from any state: nothing of the above happens any more.
Exit(t) ==
  /\ Running(t)
  /\ \E how \in {"ok", "failed"} : End(how)
  /\ UNCHANGED <<kind, run, wishes, callbacks, failed, payloads, raised>>
-----------------------------------------------------------------------------
\* env.reload.
Reload(t) ==
  /\ Running(t) /\ run < MaxRuns
  /\ flag' = [flag EXCEPT !["restart"] = TRUE] /\ last' = "reload"
  /\ UNCHANGED <<loop, main, requested, callbacks, failed, payloads, raised>>

\* The properties of env that a program may write itself.
SetFlag(t, f, on) ==
  /\ Running(t) /\ (f = "restart" /\ on => run < MaxRuns)
  /\ flag' = [flag EXCEPT ![f] = on]
  /\ last' = IF f # "restart" THEN last ELSE IF on THEN "reload" ELSE "none"
  /\ UNCHANGED <<loop, main, requested, callbacks, failed, payloads, raised>>

\* lua::env::on_close, called by a module in the main state.
RegisterCallback(f) ==
  callbacks' = IF \E c \in callbacks : c[1] = f THEN callbacks ELSE callbacks \cup {<<f, run>>}

OnClose(f) ==
  /\ Running(Main)
  /\ RegisterCallback(f)
  /\ UNCHANGED <<loop, main, wishes, failed, payloads, raised>>

\* Mutant of Relaunch: a restart asked for before it comes first.
RelaunchKeepsRestart ==
  /\ Running(Main)
  /\ requested' = TRUE
  /\ RegisterCallback(Flush)
  /\ flag' = [flag EXCEPT !["exit"] = TRUE, !["relaunch"] = TRUE]
  /\ last' = "relaunch"
  /\ UNCHANGED <<loop, main, failed, payloads, raised>>

\* env.relaunch, from the main state only.
Relaunch ==
  /\ Running(Main)
  /\ requested' = TRUE
  /\ RegisterCallback(Flush)
  /\ flag' = [f \in Flags |-> f # "restart"]
  /\ last' = "relaunch"
  /\ UNCHANGED <<loop, main, failed, payloads, raised>>

\* sigIntHandler and consoleHandler, at any time.
Signal ==
  /\ main \notin {"preview", "unpack", "ended"}
  /\ flag' = [flag EXCEPT !["exit"] = TRUE]
  /\ UNCHANGED <<loop, main, requested, last, callbacks, failed, payloads, raised>>
-----------------------------------------------------------------------------
\* A program starts a worker, whose new_state() resets the flags of the whole process.
OpenWorker(t, w) ==
  /\ Running(t) /\ at[w] = "none"
  /\ at' = [at EXCEPT ![w] = "idle"]
  /\ flag' = NoFlags /\ last' = "opened"
  /\ UNCHANGED <<loop, main, requested, callbacks, failed, snapshot, reads, holds, raised>>

EndWorker(w) ==
  /\ Running(w)
  /\ at' = [at EXCEPT ![w] = "none"]
  /\ UNCHANGED <<loop, main, wishes, callbacks, failed, snapshot, reads, holds, raised>>

\* Mutant of Take: the reader walks the shared vector itself.
TakeRaw(t) ==
  /\ Running(t)
  /\ at' = [at EXCEPT ![t] = "walk"]
  /\ reads' = [reads EXCEPT ![t] = snapshot]
  /\ UNCHANGED <<loop, main, wishes, callbacks, failed, snapshot, holds, raised>>

\* find_chunk takes its own reference to the snapshot, under the lock.
Take(t) ==
  /\ Running(t)
  /\ at' = [at EXCEPT ![t] = "walk"]
  /\ reads' = [reads EXCEPT ![t] = snapshot]
  /\ holds' = [holds EXCEPT ![t] = Range(snapshot)]
  /\ UNCHANGED <<loop, main, wishes, callbacks, failed, snapshot, raised>>

\* The chunk is in payload i: the reference to that payload outlives the one to the snapshot.
Found(t, i) ==
  /\ at[t] = "walk" /\ main # "ended"
  /\ at' = [at EXCEPT ![t] = "load"]
  /\ reads' = [reads EXCEPT ![t] = <<reads[t][i]>>]
  /\ holds' = [holds EXCEPT ![t] = {reads[t][i]}]
  /\ UNCHANGED <<loop, main, wishes, callbacks, failed, snapshot, raised>>

Forget(t) ==
  /\ at' = [at EXCEPT ![t] = "idle"]
  /\ reads' = [reads EXCEPT ![t] = <<>>]
  /\ holds' = [holds EXCEPT ![t] = {}]
  /\ UNCHANGED <<loop, main, wishes, callbacks, failed, snapshot, raised>>

NotFound(t) == at[t] = "walk" /\ main # "ended" /\ Forget(t)

\* luaL_loadbuffer has read the chunk's bytes.
LoadChunk(t) == at[t] = "load" /\ main # "ended" /\ Forget(t)
-----------------------------------------------------------------------------
Next ==
  \/ Preview \/ Unpack
  \/ OpenState \/ ClearLoaded \/ Load \/ Return \/ CloseState \/ Decide \/ Finish
  \/ Relaunch \/ Signal
  \/ \E f \in Callback : OnClose(f)
  \/ \E t \in Threads :
       \/ Exit(t) \/ Reload(t) \/ Take(t) \/ NotFound(t) \/ LoadChunk(t)
       \/ \E f \in Flags, on \in BOOLEAN : SetFlag(t, f, on)
       \/ \E w \in Workers : OpenWorker(t, w)
       \/ \E i \in DOMAIN reads[t] : Found(t, i)
  \/ \E w \in Workers : EndWorker(w)

Spec == Init /\ [][Next]_vars
-----------------------------------------------------------------------------
TypeOK ==
  /\ kind \in Kinds
  /\ main \in {"preview", "unpack", "open", "clear", "load", "run", "close", "decide", "finish", "ended"}
  /\ run \in Nat
  /\ flag \in [Flags -> BOOLEAN]
  /\ requested \in BOOLEAN /\ failed \in BOOLEAN /\ raised \in BOOLEAN
  /\ callbacks \subseteq Callback \X Nat
  /\ outcome \in Outcomes /\ (outcome = "none" <=> main # "ended")
  /\ snapshot \in Seq(Nat)
  /\ at \in [Threads -> {"none", "idle", "walk", "load"}]
  /\ reads \in [Threads -> Seq(Nat)]
  /\ holds \in [Threads -> SUBSET Nat]
  /\ last \in {"none", "reload", "relaunch", "opened"}

Alive == Range(snapshot) \cup UNION {holds[t] : t \in Threads}

\* Nobody reads a freed payload, whatever the main thread clears and registers meanwhile (lef.cpp:68).
NoUseAfterFree == main # "ended" => \A t \in Threads : Range(reads[t]) \subseteq Alive

InProgram == main \in {"run", "close"}

\* The table holds this run's own payload alone: neither a preview nor an older run's (state.cpp:187).
PayloadOfThisRun ==
  /\ main = "load" => snapshot = <<>>
  /\ InProgram => snapshot \in {<<>>, <<run>>}
  /\ InProgram /\ kind = "exe" => snapshot = <<run>>

\* A state is closed with the callbacks registered while it ran (state.cpp:184).
CallbacksOfThisRun == InProgram => \A c \in callbacks : c[2] = run

FreshEachRun == PayloadOfThisRun /\ CallbacksOfThisRun

\* A program is restarted exactly if the last of these was a reload: reload, its
\* withdrawal, env.relaunch, the opening of a state, a worker's included (state.cpp:202).
RestartDecision == [][main = "decide" /\ main' \in {"open", "finish"} => (main' = "open" <=> last = "reload")]_vars

\* However often it was restarted, a program that asked for it is relaunched, and
\* one that raised in any of its runs fails the process (run.h:100).
EndsAsAsked ==
  [][Finish => outcome' = IF requested THEN "relaunched"
                          ELSE IF raised /\ kind # "exe" THEN "failed" ELSE "ok"]_vars
=============================================================================
