-------------------------- MODULE StateLoopProofs --------------------------
(***************************************************************************)
(* What StateLoop promises, for any number of workers and of runs.         *)
(***************************************************************************)
EXTENDS StateLoop, TLAPS

\* A reader owns what it touches.
ReadersOwn == \A t \in Threads : Range(reads[t]) \subseteq holds[t]

\* The table is empty when a payload is registered, and holds that one while it runs.
OneTable ==
  /\ main \in {"preview", "load"} => snapshot = <<>>
  /\ InProgram => snapshot \in {<<>>, <<run>>}
  /\ InProgram /\ kind = "exe" => snapshot = <<run>>

OwnCallbacks == main \in {"clear", "load", "run", "close"} => \A c \in callbacks : c[2] = run

\* The flags and the histories of the same events agree.
Agree ==
  /\ flag["restart"] = (last = "reload")
  /\ failed = (raised /\ kind # "exe")

IInv == TypeOK /\ ReadersOwn /\ OneTable /\ OwnCallbacks /\ Agree
-----------------------------------------------------------------------------
\* Forgetting a reader's references leaves nothing to read.
LEMMA EmptyRange == Range(<<>>) = {}
BY DEF Range

\* A reader that found its chunk touches one payload.
LEMMA SingleRange == ASSUME NEW x PROVE Range(<<x>>) = {x}
BY DEF Range

\* Snapshots are sequences of payload names.
LEMMA RangeOfNats == ASSUME NEW s \in Seq(Nat) PROVE Range(s) \subseteq Nat
BY DEF Range

\* The three flags, and what a new state sets them to.
LEMMA FlagFacts == /\ "restart" \in Flags /\ "exit" \in Flags /\ "relaunch" \in Flags
                   /\ NoFlags \in [Flags -> BOOLEAN] /\ NoFlags["restart"] = FALSE
BY DEF Flags, NoFlags

-----------------------------------------------------------------------------
\* Every step keeps the invariant.
LEMMA Step == IInv /\ [Next]_vars => IInv'
<1> SUFFICES ASSUME IInv, [Next]_vars PROVE IInv'
  OBVIOUS
<1> USE FlagFacts
<1>1. CASE Unpack
  BY <1>1 DEF IInv, TypeOK, ReadersOwn, OneTable, OwnCallbacks, Agree, InProgram, Unpack, Clear, Goto, loop, wishes
<1>2. CASE OpenState
  BY <1>2 DEF IInv, TypeOK, ReadersOwn, OneTable, OwnCallbacks, Agree, InProgram, OpenState, Goto, payloads
<1>3. CASE ClearLoaded
  BY <1>3 DEF IInv, TypeOK, ReadersOwn, OneTable, OwnCallbacks, Agree, InProgram, ClearLoaded, Clear, Goto, loop, wishes
<1>4. CASE Return
  BY <1>4 DEF IInv, TypeOK, ReadersOwn, OneTable, OwnCallbacks, Agree, InProgram, Return, Running, Goto, loop, wishes, payloads
<1>5. CASE CloseState
  BY <1>5 DEF IInv, TypeOK, ReadersOwn, OneTable, OwnCallbacks, Agree, InProgram, CloseState, Goto, loop, wishes, payloads
<1>6. CASE Decide
  BY <1>6 DEF IInv, TypeOK, ReadersOwn, OneTable, OwnCallbacks, Agree, InProgram, Decide, loop, wishes, payloads
<1>7. CASE Finish
  BY <1>7 DEF IInv, TypeOK, ReadersOwn, OneTable, OwnCallbacks, Agree, InProgram, Finish, End, Outcomes, wishes, payloads
<1>8. CASE Signal
  BY <1>8 DEF IInv, TypeOK, ReadersOwn, OneTable, OwnCallbacks, Agree, InProgram, Signal, loop, payloads
<1>9. CASE Preview
  <2>1. Append(snapshot, 0) \in Seq(Nat)
    BY DEF IInv, TypeOK
  <2> QED
    BY <1>9, <2>1 DEF IInv, TypeOK, ReadersOwn, OneTable, OwnCallbacks, Agree, InProgram, Preview, Register, End, Outcomes
<1>10. CASE Load
  <2>1. snapshot = <<>> /\ run \in Nat
    BY <1>10 DEF IInv, TypeOK, OneTable, Load, Goto
  <2>2. snapshot' \in {<<>>, <<run>>} /\ (kind = "exe" => snapshot' = <<run>>)
    <3>1. Append(<<>>, run) = <<run>>
      BY <2>1
    <3> QED
      BY <1>10, <2>1, <3>1 DEF Load, Register
  <2>3. <<>> \in Seq(Nat) /\ <<run>> \in Seq(Nat)
    BY <2>1
  <2> QED
    BY <1>10, <2>2, <2>3 DEF IInv, TypeOK, ReadersOwn, OneTable, OwnCallbacks, Agree, InProgram, Load, Goto, loop, wishes
<1>11. CASE Relaunch
  <2>1. flag' \in [Flags -> BOOLEAN] /\ flag'["restart"] = FALSE
    BY <1>11 DEF Relaunch
  <2>2. /\ callbacks' \subseteq Callback \X Nat
        /\ \A c \in callbacks' : c[2] = run
    BY <1>11, StateLoopAssumption DEF IInv, TypeOK, OwnCallbacks, Relaunch, Running, RegisterCallback
  <2> QED
    BY <1>11, <2>1, <2>2 DEF IInv, TypeOK, ReadersOwn, OneTable, OwnCallbacks, Agree, InProgram, Relaunch, Running, loop, payloads
<1>12. ASSUME NEW f \in Callback, OnClose(f) PROVE IInv'
  BY <1>12 DEF IInv, TypeOK, ReadersOwn, OneTable, OwnCallbacks, Agree, InProgram, OnClose, RegisterCallback, Running, loop, wishes, payloads
<1>13. ASSUME NEW t \in Threads, Exit(t) PROVE IInv'
  BY <1>13, EmptyRange, RangeOfNats DEF IInv, TypeOK, ReadersOwn, OneTable, OwnCallbacks, Agree, InProgram, Exit, Running, End, Outcomes, wishes, payloads
<1>14. ASSUME NEW t \in Threads, Reload(t) PROVE IInv'
  BY <1>14, EmptyRange, RangeOfNats DEF IInv, TypeOK, ReadersOwn, OneTable, OwnCallbacks, Agree, InProgram, Reload, Running, loop, payloads
<1>15. ASSUME NEW t \in Threads, Take(t) PROVE IInv'
  BY <1>15, EmptyRange, RangeOfNats DEF IInv, TypeOK, ReadersOwn, OneTable, OwnCallbacks, Agree, InProgram, Take, Running, loop, wishes
<1>16. ASSUME NEW t \in Threads, NotFound(t) PROVE IInv'
  BY <1>16, EmptyRange, RangeOfNats DEF IInv, TypeOK, ReadersOwn, OneTable, OwnCallbacks, Agree, InProgram, NotFound, Running, Forget, loop, wishes
<1>17. ASSUME NEW t \in Threads, LoadChunk(t) PROVE IInv'
  BY <1>17, EmptyRange, RangeOfNats DEF IInv, TypeOK, ReadersOwn, OneTable, OwnCallbacks, Agree, InProgram, LoadChunk, Running, Forget, loop, wishes
<1>18. ASSUME NEW t \in Threads, NEW f \in Flags, NEW on \in BOOLEAN, SetFlag(t, f, on) PROVE IInv'
  BY <1>18 DEF IInv, TypeOK, ReadersOwn, OneTable, OwnCallbacks, Agree, InProgram, SetFlag, Running, loop, payloads
<1>19. ASSUME NEW t \in Threads, NEW w \in Workers, OpenWorker(t, w) PROVE IInv'
  BY <1>19 DEF IInv, TypeOK, ReadersOwn, OneTable, OwnCallbacks, Agree, InProgram, OpenWorker, Running, loop, Threads
<1>20. ASSUME NEW t \in Threads, NEW i \in DOMAIN reads[t], Found(t, i) PROVE IInv'
  BY <1>20, SingleRange DEF IInv, TypeOK, ReadersOwn, OneTable, OwnCallbacks, Agree, InProgram, Found, loop, wishes
<1>21. ASSUME NEW w \in Workers, EndWorker(w) PROVE IInv'
  BY <1>21 DEF IInv, TypeOK, ReadersOwn, OneTable, OwnCallbacks, Agree, InProgram, EndWorker, loop, wishes, Threads
<1>22. CASE UNCHANGED vars
  BY <1>22 DEF IInv, TypeOK, ReadersOwn, OneTable, OwnCallbacks, Agree, InProgram, vars, payloads
<1> QED
  BY <1>1, <1>2, <1>3, <1>4, <1>5, <1>6, <1>7, <1>8, <1>9, <1>10, <1>11, <1>12, <1>13, <1>14, <1>15, <1>16, <1>17, <1>18, <1>19, <1>20, <1>21, <1>22 DEF Next
\* The loop starts in it.
LEMMA Initially == Init => IInv
<1> SUFFICES ASSUME Init PROVE IInv
  OBVIOUS
<1>1. TypeOK
  <2>1. <<>> \in Seq(Nat) /\ callbacks \subseteq Callback \X Nat
    BY DEF Init
  <2>2. /\ at \in [Threads -> {"none", "idle", "walk", "load"}]
        /\ reads \in [Threads -> Seq(Nat)]
        /\ holds \in [Threads -> SUBSET Nat]
    BY <2>1 DEF Init
  <2> QED
    BY <2>1, <2>2, FlagFacts DEF Init, TypeOK, Outcomes
<1>2. ReadersOwn
  BY EmptyRange DEF Init, ReadersOwn
<1>3. OneTable /\ OwnCallbacks /\ Agree
  BY FlagFacts DEF Init, OneTable, OwnCallbacks, Agree, InProgram
<1> QED
  BY <1>1, <1>2, <1>3 DEF IInv

\* The loop, the table and the histories stay consistent.
THEOREM LoopIsConsistent == Spec => []IInv
BY Initially, Step, PTL DEF Spec
-----------------------------------------------------------------------------
\* No reader, in whatever state and however long detached, touches a freed payload.
THEOREM PayloadsStayAlive == Spec => []NoUseAfterFree
<1>1. IInv => NoUseAfterFree
  <2> SUFFICES ASSUME IInv, NEW t \in Threads PROVE Range(reads[t]) \subseteq Alive
    BY DEF NoUseAfterFree
  <2>1. holds[t] \subseteq Alive
    BY DEF Alive
  <2> QED
    BY <2>1 DEF IInv, ReadersOwn
<1> QED
  BY <1>1, LoopIsConsistent, PTL

\* A run finds no payload and no callback of an earlier one.
THEOREM EveryRunIsFresh == Spec => []FreshEachRun
<1>1. IInv => FreshEachRun
  BY DEF IInv, OneTable, OwnCallbacks, FreshEachRun, PayloadOfThisRun, CallbacksOfThisRun, InProgram
<1> QED
  BY <1>1, LoopIsConsistent, PTL

\* Whether the loop restarts depends on the last reload, relaunch or opened state only.
THEOREM RestartsAsLastAsked == Spec => RestartDecision
<1>1. IInv /\ [Next]_vars =>
        [main = "decide" /\ main' \in {"open", "finish"} => (main' = "open" <=> last = "reload")]_vars
  <2> SUFFICES ASSUME IInv, Next, main = "decide", main' \in {"open", "finish"}
               PROVE  main' = "open" <=> last = "reload"
    OBVIOUS
  <2>1. Decide
    <3>1. CASE \E t \in Threads : Exit(t)
      BY <3>1 DEF Exit, End
    <3> QED
      BY <3>1 DEF Next, Preview, Unpack, OpenState, ClearLoaded, Load, Return, CloseState, Finish, Relaunch,
         Signal, OnClose, Reload, SetFlag, OpenWorker, EndWorker, Take, Found, NotFound, LoadChunk, Forget, Goto, End
  <2> QED
    BY <2>1 DEF Decide, IInv, Agree
<1> QED
  BY <1>1, LoopIsConsistent, PTL DEF Spec, RestartDecision

\* The process ends the way its runs asked for.
THEOREM EndsTheWayItWasAsked == Spec => EndsAsAsked
<1>1. IInv => [Finish => outcome' = IF requested THEN "relaunched"
                                    ELSE IF raised /\ kind # "exe" THEN "failed" ELSE "ok"]_vars
  BY DEF IInv, Agree, Finish, End
<1> QED
  BY <1>1, LoopIsConsistent, PTL DEF EndsAsAsked
=============================================================================
