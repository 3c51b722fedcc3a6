----------------------------- MODULE CrashGate ------------------------------
(***************************************************************************)
(* The process-wide crash reporter, src/src/stack_tracer.cpp.              *)
(*                                                                         *)
(* A fault runs the vectored handler on the faulting thread, which calls   *)
(* report().  One thread at a time may walk a stack with dbghelp; another  *)
(* waits for it, but not for ever.  The reporter may fault itself (the     *)
(* heap may be corrupted), so report() calls nest on a thread.  When the   *)
(* vectored handler is done the exception goes on: somebody handles it,    *)
(* the process dies, or it reaches the __except filter around the main     *)
(* state (src/src/lua/state.cpp), which must not report it again.          *)
(***************************************************************************)
EXTENDS Naturals, Sequences

CONSTANTS Thread, NoThread,
          Main,         \* the thread of the main state, the only one with the filter
          Address,      \* where exception records lie: reused once they are gone
          NoRecord,
          FaultPlaces,  \* the places inside report() that may fault themselves
          MaxFaults     \* bound: faults per thread

ASSUME GateAssumption == /\ NoThread \notin Thread /\ Main \in Thread
                         /\ NoRecord \notin Address
                         /\ FaultPlaces \subseteq {"walk", "note", "line"}
                         /\ MaxFaults \in Nat

VARIABLES mutex,        \* Gate::mutex, the thread that holds it
          busy,         \* Gate::busy
          gate_owner,   \* gate_owner_id
          in_report,    \* in_report[t], the record t is reporting
          last_report,  \* last_report[t], the record t reported last
          reentered,    \* filter_reentered[t]
          stack,        \* stack[t]: the exceptions in flight on t, the innermost first
          faults,       \* faults[t]: how many t had; also a bound counter
          full,         \* history: full[t][k], full reports of the k-th fault of t
          alive         \* the process

gate == <<mutex, busy, gate_owner, in_report, last_report, reentered>>
vars == <<gate, stack, faults, full, alive>>

Init == /\ mutex = NoThread /\ busy = FALSE /\ gate_owner = NoThread
        /\ in_report = [t \in Thread |-> NoRecord]
        /\ last_report = [t \in Thread |-> NoRecord]
        /\ reentered = [t \in Thread |-> FALSE]
        /\ stack = [t \in Thread |-> <<>>]
        /\ faults = [t \in Thread |-> 0]
        /\ full = [t \in Thread |-> [k \in 1 .. MaxFaults |-> 0]]
        /\ alive = TRUE

Top(t) == Head(stack[t])
At(t, place) == alive /\ stack[t] # <<>> /\ Top(t).at = place
Goto(t, place) == stack' = [stack EXCEPT ![t] = <<[Top(t) EXCEPT !.at = place]>> \o Tail(@)]

\* report() returns: the vectored handler lets the exception go on, the filter has it
\* handled and may be entered again.
LeaveReport(t) ==
  IF Top(t).pass = "filter"
  THEN /\ Goto(t, "unwind")
       /\ reentered' = [reentered EXCEPT ![t] = FALSE]
  ELSE /\ Goto(t, "search")
       /\ UNCHANGED reentered

MayLock(t) == mutex \in {NoThread, t}

\* unique_lock gives the mutex back, unless an interrupted call below has it too.
Unlock(t) == mutex' = IF \E i \in 2 .. Len(stack[t]) : stack[t][i].at = "line"
                      THEN mutex ELSE NoThread
-----------------------------------------------------------------------------
\* A fault, in the program or in the reporter.  The vectored handler leaves C++ and
\* LuaJIT exceptions to the filter, also those of the lines printed outside any try.
Fault(t, a, vectored) ==
  /\ alive
  /\ faults[t] < MaxFaults
  /\ stack[t] # <<>> => Top(t).at \in FaultPlaces
  /\ \A i \in 1 .. Len(stack[t]) : stack[t][i].address # a
  /\ ~vectored => IF stack[t] = <<>> THEN t = Main ELSE Top(t).at \in {"note", "line"}
  /\ faults' = [faults EXCEPT ![t] = @ + 1]
  /\ stack' = [stack EXCEPT ![t] = <<[address |-> a, fault |-> faults[t] + 1, pass |-> "vectored",
                                      at |-> IF vectored THEN "report" ELSE "search"]>> \o @]
  /\ UNCHANGED <<gate, full, alive>>

\* report(): a thread that is reporting already only prints a line.
EnterReport(t) ==
  /\ At(t, "report")
  /\ Goto(t, IF in_report[t] # NoRecord THEN "note" ELSE "lock")
  /\ UNCHANGED <<gate, faults, full, alive>>

Note(t) ==
  /\ At(t, "note")
  /\ LeaveReport(t)
  /\ UNCHANGED <<mutex, busy, gate_owner, in_report, last_report, faults, full, alive>>

\* Mutant of Claim: two threads that fault at once both walk.
ClaimBusy(t) ==
  /\ At(t, "lock") /\ MayLock(t)
  /\ busy' = TRUE
  /\ gate_owner' = t
  /\ in_report' = [in_report EXCEPT ![t] = Top(t).address]
  /\ Goto(t, "walk")
  /\ UNCHANGED <<mutex, last_report, reentered, faults, full, alive>>

\* Under the mutex: nobody reports, so this thread does.
Claim(t) ==
  /\ At(t, "lock") /\ MayLock(t)
  /\ ~busy
  /\ busy' = TRUE
  /\ gate_owner' = t
  /\ in_report' = [in_report EXCEPT ![t] = Top(t).address]
  /\ Goto(t, "walk")
  /\ UNCHANGED <<mutex, last_report, reentered, faults, full, alive>>

\* ... or somebody does: wait for it, without the mutex.
Wait(t) ==
  /\ At(t, "lock") /\ MayLock(t)
  /\ busy
  /\ mutex' = NoThread
  /\ Goto(t, "wait")
  /\ UNCHANGED <<busy, gate_owner, in_report, last_report, reentered, faults, full, alive>>

\* Mutant of Wake: the wait has no bound.
WakeWhenFree(t) ==
  /\ At(t, "wait") /\ mutex = NoThread /\ ~busy
  /\ mutex' = t
  /\ Goto(t, "line")
  /\ UNCHANGED <<busy, gate_owner, in_report, last_report, reentered, faults, full, alive>>

\* The report is over, or kWaitForReporterMs are: the wait ends with the mutex.
Wake(t) ==
  /\ At(t, "wait") /\ mutex = NoThread
  /\ mutex' = t
  /\ Goto(t, "line")
  /\ UNCHANGED <<busy, gate_owner, in_report, last_report, reentered, faults, full, alive>>

\* One line instead of a stack, printed under the mutex.
Line(t) ==
  /\ At(t, "line")
  /\ Unlock(t)
  /\ LeaveReport(t)
  /\ UNCHANGED <<busy, gate_owner, in_report, last_report, faults, full, alive>>

\* The walk ends with a text, or with a C++ exception and a line that says so.
Walk(t) ==
  /\ At(t, "walk")
  /\ Goto(t, "print") \/ Goto(t, "release")
  /\ UNCHANGED <<gate, faults, full, alive>>

\* Mutant of PrintReport: the filter is not told.
PrintForgotten(t) ==
  /\ At(t, "print")
  /\ full' = [full EXCEPT ![t][Top(t).fault] = @ + 1]
  /\ Goto(t, "release")
  /\ UNCHANGED <<gate, faults, alive>>

PrintReport(t) ==
  /\ At(t, "print")
  /\ full' = [full EXCEPT ![t][Top(t).fault] = @ + 1]
  /\ last_report' = [last_report EXCEPT ![t] = Top(t).address]
  /\ Goto(t, "release")
  /\ UNCHANGED <<mutex, busy, gate_owner, in_report, reentered, faults, alive>>

\* ~Release: the next report may start.
Release(t) ==
  /\ At(t, "release") /\ MayLock(t)
  /\ in_report' = [in_report EXCEPT ![t] = NoRecord]
  /\ busy' = FALSE /\ gate_owner' = NoThread
  /\ LeaveReport(t)
  /\ UNCHANGED <<mutex, last_report, faults, full, alive>>
-----------------------------------------------------------------------------
\* A handler of the program's own takes the exception; the reporter has none.
Handled(t) ==
  /\ At(t, "search") /\ Len(stack[t]) = 1
  /\ stack' = [stack EXCEPT ![t] = <<>>]
  /\ UNCHANGED <<gate, faults, full, alive>>

\* Nobody does, and there is no filter: the process dies.
Dies(t) ==
  /\ At(t, "search")
  /\ alive' = FALSE
  /\ UNCHANGED <<gate, stack, faults, full>>

\* filter(): not again while it reports, and not what is or was just reported.
Filter(t) ==
  /\ t = Main /\ At(t, "search")
  /\ IF reentered[t] \/ Top(t).address \in {in_report[t], last_report[t]}
     THEN Goto(t, "unwind") /\ UNCHANGED reentered
     ELSE /\ stack' = [stack EXCEPT ![t] = <<[Top(t) EXCEPT !.at = "report", !.pass = "filter"]>> \o Tail(@)]
          /\ reentered' = [reentered EXCEPT ![t] = TRUE]
  /\ UNCHANGED <<mutex, busy, gate_owner, in_report, last_report, faults, full, alive>>

\* The interrupted calls of t, from the outermost report() to the one that faulted.
Interrupted(t, place) == \E i \in 2 .. Len(stack[t]) : stack[t][i].at = place
InFilter(t) == \E i \in 2 .. Len(stack[t]) : stack[t][i].pass = "filter"

\* The stack unwinds to the run loop.  The reporter is compiled with /EHsc: whether
\* the destructors of interrupted report() and filter() calls run is not defined.
UnwindClean(t) ==
  /\ At(t, "unwind") /\ MayLock(t)
  /\ stack' = [stack EXCEPT ![t] = <<>>]
  /\ IF Interrupted(t, "walk")
     THEN /\ busy' = FALSE /\ gate_owner' = NoThread
          /\ in_report' = [in_report EXCEPT ![t] = NoRecord]
     ELSE UNCHANGED <<busy, gate_owner, in_report>>
  /\ mutex' = IF mutex = t THEN NoThread ELSE mutex
  /\ reentered' = [reentered EXCEPT ![t] = @ /\ ~InFilter(t)]
  /\ UNCHANGED <<last_report, faults, full, alive>>

UnwindHard(t) ==
  /\ At(t, "unwind")
  /\ stack' = [stack EXCEPT ![t] = <<>>]
  /\ UNCHANGED <<gate, faults, full, alive>>

Dead == ~alive /\ UNCHANGED vars
Calm == alive /\ (\A t \in Thread : stack[t] = <<>> /\ faults[t] = MaxFaults) /\ UNCHANGED vars

Step(t) == \/ EnterReport(t) \/ Note(t) \/ Claim(t) \/ Wait(t) \/ Wake(t) \/ Line(t)
           \/ Walk(t) \/ PrintReport(t) \/ Release(t)
           \/ Handled(t) \/ Dies(t) \/ Filter(t) \/ UnwindClean(t) \/ UnwindHard(t)

Next == \/ \E t \in Thread : Step(t) \/ \E a \in Address, vectored \in BOOLEAN : Fault(t, a, vectored)
        \/ Dead \/ Calm

Spec == Init /\ [][Next]_vars

\* Faulting threads are scheduled, their waits time out and their walks end.
FairSpec == Spec /\ \A t \in Thread : WF_vars(Step(t))
-----------------------------------------------------------------------------
Record == [address : Address, fault : 1 .. MaxFaults, pass : {"vectored", "filter"},
           at : {"report", "note", "lock", "wait", "line", "walk", "print", "release",
                 "search", "unwind"}]

TypeOK == /\ mutex \in Thread \cup {NoThread}
          /\ busy \in BOOLEAN /\ gate_owner \in Thread \cup {NoThread}
          /\ in_report \in [Thread -> Address \cup {NoRecord}]
          /\ last_report \in [Thread -> Address \cup {NoRecord}]
          /\ reentered \in [Thread -> BOOLEAN]
          /\ stack \in [Thread -> Seq(Record)]
          /\ faults \in [Thread -> 0 .. MaxFaults]
          /\ full \in [Thread -> [1 .. MaxFaults -> Nat]]
          /\ alive \in BOOLEAN

Walking == {"walk", "print"}

\* dbghelp is entered once at a time, by one thread and by one call of it, and that
\* thread is the owner HandleException asks for.
OneWalker ==
  \A t, u \in Thread : \A i \in 1 .. Len(stack[t]), j \in 1 .. Len(stack[u]) :
    stack[t][i].at \in Walking =>
      /\ gate_owner = t
      /\ stack[u][j].at \in Walking => t = u /\ i = j

\* "The same exception is reported once, even when both the vectored handler and the
\* run loop's __except filter see it", whoever reports what in between.
ReportedOnce == \A t \in Thread, k \in 1 .. MaxFaults : full[t][k] <= 1

\* A thread whose record lies where in_report points is in that report, or it was torn
\* out of it: in_report never silences a thread that walks nothing.
SilencedByItsOwnReport ==
  \A t \in Thread : in_report[t] # NoRecord => gate_owner = t /\ busy

\* Together with TypeOK inductive: who is between claim and release owns the gate; the
\* exceptions in flight are different faults; and of those only the innermost may have
\* been fully reported, which the filter can see.
Frames(t) == 1 .. Len(stack[t])
HolderOwns == \A t \in Thread : \A i \in Frames(t) :
                stack[t][i].at \in {"walk", "print", "release"} => busy /\ gate_owner = t
OneHolder == \A t \in Thread : \A i, j \in Frames(t) :
               {stack[t][i].at, stack[t][j].at} \subseteq {"walk", "print", "release"} => i = j
FaultsDiffer == \A t \in Thread :
                  /\ \A i \in Frames(t) : stack[t][i].fault <= faults[t]
                  /\ \A i, j \in Frames(t) : stack[t][i].fault = stack[t][j].fault => i = j
FullyReported == \A t \in Thread :
                   /\ \A k \in 1 .. MaxFaults : k > faults[t] => full[t][k] = 0
                   /\ \A i \in Frames(t) : full[t][stack[t][i].fault] # 0 =>
                        /\ i = 1 /\ stack[t][i].at \in {"release", "search", "unwind"}
                        /\ last_report[t] = stack[t][i].address
IInv == HolderOwns /\ OneHolder /\ SilencedByItsOwnReport /\ FaultsDiffer /\ FullyReported /\ ReportedOnce

\* "A fault on a thread that is ALREADY inside report() ... never re-enters it ...: it
\* returns at once" (stack_tracer.h): only a thread's first report() goes to the gate.
NestedReturnsAtOnce ==
  \A t \in Thread : stack[t] # <<>> /\ Len(stack[t]) > 1 =>
    Top(t).at \notin {"lock", "wait", "line", "walk", "print", "release"}

\* A thread was torn out of its line, and the mutex is held by nobody that is there.
MutexTorn == mutex # NoThread /\ \A i \in 1 .. Len(stack[mutex]) : stack[mutex][i].at # "line"

\* Every faulting thread gets out of the reporter, also when the owner of the gate was
\* torn out of it; only a fault under the mutex itself can leave the others waiting.
EveryReportReturns ==
  \A t \in Thread : stack[t] # <<>> ~> (stack[t] = <<>> \/ ~alive \/ MutexTorn)
=============================================================================
