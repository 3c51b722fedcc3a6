-------------------------- MODULE CrashGateProofs ---------------------------
(***************************************************************************)
(* Proofs about module CrashGate, for every set of threads, every set of   *)
(* addresses and any number of faults.  The inductive invariant is         *)
(* TypeOK /\ IInv.                                                         *)
(***************************************************************************)
EXTENDS CrashGate, TLAPS

Places == {"report", "note", "lock", "wait", "line", "walk", "print", "release", "search", "unwind"}
Holding == {"walk", "print", "release"}

\* How a step changes the stack of its thread: the innermost exception goes on as r, a
\* new one comes on top of it, or none is left.
Retops(t, r) == stack[t] # <<>> /\ stack' = [stack EXCEPT ![t] = <<r>> \o Tail(@)]
Pushes(t, r) == stack' = [stack EXCEPT ![t] = <<r>> \o @]
Clears(t) == stack' = [stack EXCEPT ![t] = <<>>]

LEMMA TopType == ASSUME TypeOK, NEW t \in Thread, stack[t] # <<>>
                 PROVE  Top(t) \in Record /\ Top(t) = stack[t][1] /\ 1 \in Frames(t)
BY DEF TypeOK, Top, Frames

LEMMA RetopSeq ==
  ASSUME NEW S, NEW s \in Seq(S), s # <<>>, NEW r \in S
  PROVE  /\ <<r>> \o Tail(s) \in Seq(S)
         /\ Len(<<r>> \o Tail(s)) = Len(s)
         /\ (<<r>> \o Tail(s))[1] = r
         /\ \A i \in 1 .. Len(s) : i # 1 => (<<r>> \o Tail(s))[i] = s[i]
<1>1. Tail(s) \in Seq(S) /\ Len(Tail(s)) = Len(s) - 1 /\ Len(s) \in Nat \ {0}
  OBVIOUS
<1>2. \A i \in 1 .. Len(s) : i # 1 => Tail(s)[i - 1] = s[i]
  OBVIOUS
<1>3. <<r>> \in Seq(S) /\ Len(<<r>>) = 1
  OBVIOUS
<1> QED BY <1>1, <1>2, <1>3

LEMMA PushSeq ==
  ASSUME NEW S, NEW s \in Seq(S), NEW r \in S
  PROVE  /\ <<r>> \o s \in Seq(S)
         /\ Len(<<r>> \o s) = Len(s) + 1
         /\ (<<r>> \o s)[1] = r
         /\ \A i \in 1 .. Len(s) + 1 : i # 1 => i - 1 \in 1 .. Len(s) /\ (<<r>> \o s)[i] = s[i - 1]
OBVIOUS

\* What Retops means frame by frame.
LEMMA RetopFrames ==
  ASSUME TypeOK, NEW t \in Thread, NEW r \in Record, Retops(t, r)
  PROVE  /\ stack' \in [Thread -> Seq(Record)]
         /\ \A u \in Thread : Frames(u)' = Frames(u)
         /\ \A u \in Thread : u # t => stack'[u] = stack[u]
         /\ stack'[t][1] = r
         /\ \A i \in Frames(t) : i # 1 => stack'[t][i] = stack[t][i]
<1> DEFINE s2 == <<r>> \o Tail(stack[t])
<1>1. stack \in [Thread -> Seq(Record)] /\ stack[t] \in Seq(Record) /\ stack[t] # <<>>
  BY DEF TypeOK, Retops
<1>2. /\ s2 \in Seq(Record) /\ Len(s2) = Len(stack[t]) /\ s2[1] = r
      /\ \A i \in 1 .. Len(stack[t]) : i # 1 => s2[i] = stack[t][i]
  BY <1>1, RetopSeq
<1>3. stack' = [stack EXCEPT ![t] = s2]
  BY DEF Retops
<1> HIDE DEF s2
<1>4. stack'[t] = s2 /\ \A u \in Thread : u # t => stack'[u] = stack[u]
  BY <1>1, <1>3
<1>5. stack' \in [Thread -> Seq(Record)]
  BY <1>1, <1>2, <1>3
<1>6. \A u \in Thread : Frames(u)' = Frames(u)
  BY <1>2, <1>4 DEF Frames
<1> QED BY <1>2, <1>4, <1>5, <1>6 DEF Frames

LEMMA ClearFrames ==
  ASSUME TypeOK, NEW t \in Thread, Clears(t)
  PROVE  /\ stack' \in [Thread -> Seq(Record)]
         /\ Frames(t)' = {}
         /\ \A u \in Thread : u # t => stack'[u] = stack[u] /\ Frames(u)' = Frames(u)
<1>1. stack \in [Thread -> Seq(Record)]
  BY DEF TypeOK
<1>2. stack'[t] = <<>> /\ \A u \in Thread : u # t => stack'[u] = stack[u]
  BY <1>1 DEF Clears
<1>3. <<>> \in Seq(Record) /\ Len(<<>>) = 0 /\ 1 .. 0 = {}
  OBVIOUS
<1>4. stack' \in [Thread -> Seq(Record)]
  BY <1>1, <1>3 DEF Clears
<1> QED BY <1>2, <1>3, <1>4 DEF Frames

\* The innermost exception of t, somewhere else in the reporter.
Moved(t, place) == [Top(t) EXCEPT !.at = place]

LEMMA MovedType ==
  ASSUME TypeOK, NEW t \in Thread, stack[t] # <<>>, NEW place \in Places
  PROVE  /\ Moved(t, place) \in Record
         /\ Moved(t, place).at = place
         /\ Moved(t, place).address = Top(t).address
         /\ Moved(t, place).fault = Top(t).fault
<1>1. Top(t) \in Record
  BY TopType
<1> QED BY <1>1 DEF Record, Moved, Places

LEMMA GotoRetops ==
  ASSUME NEW t \in Thread, NEW place, stack[t] # <<>>, Goto(t, place)
  PROVE  Retops(t, Moved(t, place))
BY DEF Goto, Retops, Moved

\* LeaveReport, as seen by the stack and by the filter's own flag.
LEMMA LeaveReportRetops ==
  ASSUME TypeOK, NEW t \in Thread, stack[t] # <<>>, LeaveReport(t)
  PROVE  /\ \E place \in {"search", "unwind"} : Retops(t, Moved(t, place))
         /\ reentered' \in [Thread -> BOOLEAN]
<1>1. reentered \in [Thread -> BOOLEAN]
  BY DEF TypeOK
<1>2. \E place \in {"search", "unwind"} : Goto(t, place)
  BY DEF LeaveReport
<1> QED BY <1>1, <1>2, GotoRetops DEF LeaveReport
-----------------------------------------------------------------------------
\* Every step of the reporter but those of the unwinding moves the innermost exception.
\* Moves says what such a step leaves alone.
Moves(t) ==
  \E r \in Record :
    /\ Retops(t, r)
    /\ r.address = Top(t).address /\ r.fault = Top(t).fault
    /\ r.at \in Holding => Top(t).at \in Holding
    /\ Top(t).at \in {"release", "search", "unwind"} =>
         r.at \in {"release", "search", "unwind"} \/ Top(t).address # last_report[t]
    /\ UNCHANGED <<busy, gate_owner, in_report, last_report, faults, full, alive>>
    /\ mutex' \in Thread \cup {NoThread} /\ reentered' \in [Thread -> BOOLEAN]

LEMMA GotoMoves ==
  ASSUME TypeOK, NEW t \in Thread, NEW from \in Places, NEW place \in Places,
         At(t, from), Goto(t, place),
         place \in Holding => from \in Holding,
         from \in {"release", "search", "unwind"} => place \in {"release", "search", "unwind"},
         UNCHANGED <<busy, gate_owner, in_report, last_report, faults, full, alive>>,
         mutex' \in Thread \cup {NoThread}, reentered' \in [Thread -> BOOLEAN]
  PROVE  Moves(t)
<1>1. stack[t] # <<>> /\ Top(t).at = from
  BY DEF At
<1>2. Moved(t, place) \in Record /\ Retops(t, Moved(t, place))
  BY <1>1, MovedType, GotoRetops
<1>3. /\ Moved(t, place).at = place /\ Moved(t, place).address = Top(t).address
      /\ Moved(t, place).fault = Top(t).fault
  BY <1>1, MovedType
<1> QED BY <1>1, <1>2, <1>3 DEF Moves

LEMMA LeaveMoves ==
  ASSUME TypeOK, NEW t \in Thread, At(t, "note") \/ At(t, "line"), LeaveReport(t),
         UNCHANGED <<busy, gate_owner, in_report, last_report, faults, full, alive>>,
         mutex' \in Thread \cup {NoThread}
  PROVE  Moves(t)
<1>1. stack[t] # <<>> /\ Top(t).at \in {"note", "line"}
  BY DEF At
<1>2. PICK place \in {"search", "unwind"} : Retops(t, Moved(t, place))
  BY <1>1, LeaveReportRetops
<1>3. reentered' \in [Thread -> BOOLEAN]
  BY <1>1, LeaveReportRetops
<1>4. place \in Places
  BY DEF Places
<1>5. /\ Moved(t, place) \in Record /\ Moved(t, place).at = place
      /\ Moved(t, place).address = Top(t).address /\ Moved(t, place).fault = Top(t).fault
  BY <1>1, <1>4, MovedType
<1> QED BY <1>1, <1>2, <1>3, <1>5 DEF Moves, Holding

LEMMA StepsThatMove ==
  ASSUME TypeOK, NEW t \in Thread,
         \/ EnterReport(t) \/ Note(t) \/ Wait(t) \/ Wake(t) \/ Line(t) \/ Walk(t) \/ Filter(t)
  PROVE  Moves(t)
<1>0. mutex \in Thread \cup {NoThread} /\ reentered \in [Thread -> BOOLEAN]
  BY DEF TypeOK
<1>1. CASE EnterReport(t)
  <2>1. \E place \in {"note", "lock"} : Goto(t, place)
    BY <1>1 DEF EnterReport
  <2> QED BY <1>0, <1>1, <2>1, GotoMoves DEF EnterReport, Places, Holding, gate
<1>2. CASE Note(t)
  BY <1>0, <1>2, LeaveMoves DEF Note
<1>3. CASE Wait(t)
  BY <1>0, <1>3, GotoMoves DEF Wait, Places, Holding
<1>4. CASE Wake(t)
  BY <1>0, <1>4, GotoMoves DEF Wake, Places, Holding
<1>5. CASE Line(t)
  BY <1>0, <1>5, LeaveMoves DEF Line, Unlock
<1>6. CASE Walk(t)
  <2>1. \E place \in {"print", "release"} : Goto(t, place)
    BY <1>6 DEF Walk
  <2> QED BY <1>0, <1>6, <2>1, GotoMoves DEF Walk, Places, Holding, gate
<1>7. CASE Filter(t)
  <2>1. CASE Goto(t, "unwind") /\ UNCHANGED reentered
    BY <1>0, <1>7, <2>1, GotoMoves DEF Filter, Places, Holding
  <2>2. CASE ~(Goto(t, "unwind") /\ UNCHANGED reentered)
    <3> DEFINE r == [Top(t) EXCEPT !.at = "report", !.pass = "filter"]
    <3>1. stack[t] # <<>> /\ Top(t).at = "search" /\ Top(t) \in Record
      BY <1>7, TopType DEF Filter, At
    <3>2. r \in Record /\ r.at = "report" /\ r.address = Top(t).address /\ r.fault = Top(t).fault
      BY <3>1 DEF Record
    <3>3. Retops(t, r) /\ Top(t).address # last_report[t] /\ reentered' = [reentered EXCEPT ![t] = TRUE]
      BY <1>7, <2>2, <3>1 DEF Filter, Retops
    <3>4. UNCHANGED <<mutex, busy, gate_owner, in_report, last_report, faults, full, alive>>
      BY <1>7 DEF Filter
    <3> HIDE DEF r
    <3> QED BY <1>0, <3>1, <3>2, <3>3, <3>4 DEF Moves, Holding
  <2> QED BY <2>1, <2>2
<1> QED BY <1>1, <1>2, <1>3, <1>4, <1>5, <1>6, <1>7
-----------------------------------------------------------------------------
\* The other steps.

LEMMA MovesType == ASSUME TypeOK, NEW t \in Thread, Moves(t) PROVE TypeOK'
<1>1. PICK r \in Record : Retops(t, r)
  BY DEF Moves
<1>2. stack' \in [Thread -> Seq(Record)]
  BY <1>1, RetopFrames
<1> QED BY <1>2 DEF TypeOK, Moves

LEMMA FaultPushes ==
  ASSUME TypeOK, NEW t \in Thread, NEW a \in Address, NEW vectored \in BOOLEAN, Fault(t, a, vectored)
  PROVE  \E r \in Record :
           /\ r.address = a /\ r.fault = faults[t] + 1 /\ r.at \in {"report", "search"}
           /\ Pushes(t, r)
<1> DEFINE r == [address |-> a, fault |-> faults[t] + 1, pass |-> "vectored",
                 at |-> IF vectored THEN "report" ELSE "search"]
<1>0. faults[t] \in 0 .. MaxFaults /\ faults[t] < MaxFaults
  BY DEF TypeOK, Fault
<1>1. faults[t] + 1 \in 1 .. MaxFaults
  BY <1>0, GateAssumption
<1>2. r \in Record /\ r.address = a /\ r.fault = faults[t] + 1 /\ r.at \in {"report", "search"}
  BY <1>1 DEF Record
<1>3. Pushes(t, r)
  BY DEF Fault, Pushes
<1> HIDE DEF r
<1> QED BY <1>2, <1>3

LEMMA PushFrames ==
  ASSUME TypeOK, NEW t \in Thread, NEW r \in Record, Pushes(t, r)
  PROVE  /\ stack' \in [Thread -> Seq(Record)]
         /\ stack'[t][1] = r
         /\ \A i \in Frames(t)' : i # 1 => i - 1 \in Frames(t) /\ stack'[t][i] = stack[t][i - 1]
         /\ \A u \in Thread : u # t => stack'[u] = stack[u] /\ Frames(u)' = Frames(u)
<1> DEFINE s2 == <<r>> \o stack[t]
<1>1. stack \in [Thread -> Seq(Record)] /\ stack[t] \in Seq(Record)
  BY DEF TypeOK
<1>2. /\ s2 \in Seq(Record) /\ Len(s2) = Len(stack[t]) + 1 /\ s2[1] = r
      /\ \A i \in 1 .. Len(stack[t]) + 1 : i # 1 => i - 1 \in 1 .. Len(stack[t]) /\ s2[i] = stack[t][i - 1]
  BY <1>1, PushSeq
<1>3. stack' = [stack EXCEPT ![t] = s2]
  BY DEF Pushes
<1> HIDE DEF s2
<1>4. stack'[t] = s2 /\ \A u \in Thread : u # t => stack'[u] = stack[u]
  BY <1>1, <1>3
<1>5. stack' \in [Thread -> Seq(Record)]
  BY <1>1, <1>2, <1>3
<1> QED BY <1>2, <1>4, <1>5 DEF Frames

\* What Release makes of the innermost exception.
LEMMA ReleaseRetops ==
  ASSUME TypeOK, NEW t \in Thread, Release(t)
  PROVE  /\ \E r \in Record : /\ Retops(t, r) /\ r.address = Top(t).address
                              /\ r.fault = Top(t).fault /\ r.at \in {"search", "unwind"}
         /\ reentered' \in [Thread -> BOOLEAN]
<1>1. stack[t] # <<>> /\ LeaveReport(t)
  BY DEF Release, At
<1>2. reentered' \in [Thread -> BOOLEAN] /\ \E place \in {"search", "unwind"} : Retops(t, Moved(t, place))
  BY <1>1, LeaveReportRetops
<1>3. PICK place \in {"search", "unwind"} : Retops(t, Moved(t, place))
  BY <1>2
<1>4. place \in Places
  BY DEF Places
<1>5. /\ Moved(t, place) \in Record /\ Moved(t, place).at = place
      /\ Moved(t, place).address = Top(t).address /\ Moved(t, place).fault = Top(t).fault
  BY <1>1, <1>4, MovedType
<1> QED BY <1>2, <1>3, <1>5

\* Next, with the actions that share a shape together.
LEMMA NextCases ==
  ASSUME TypeOK, [Next]_vars
  PROVE  \/ UNCHANGED vars
         \/ \E t \in Thread :
              \/ Moves(t) \/ Claim(t) \/ PrintReport(t) \/ Release(t)
              \/ Handled(t) \/ Dies(t) \/ UnwindClean(t) \/ UnwindHard(t)
              \/ \E a \in Address, vectored \in BOOLEAN : Fault(t, a, vectored)
<1>1. ASSUME NEW t \in Thread, Step(t)
      PROVE  \/ Moves(t) \/ Claim(t) \/ PrintReport(t) \/ Release(t)
             \/ Handled(t) \/ Dies(t) \/ UnwindClean(t) \/ UnwindHard(t)
  BY <1>1, StepsThatMove DEF Step
<1>2. CASE Next
  BY <1>1, <1>2 DEF Next, Dead, Calm
<1> QED BY <1>2

\* Every reachable state has values of the declared types.
THEOREM TypeCorrect == Spec => []TypeOK
<1>1. Init => TypeOK
  <2> SUFFICES ASSUME Init PROVE TypeOK
    OBVIOUS
  <2>1. <<>> \in Seq(Record)
    OBVIOUS
  <2>2. stack \in [Thread -> Seq(Record)] /\ faults \in [Thread -> 0 .. MaxFaults]
    BY <2>1, GateAssumption DEF Init
  <2>3. full \in [Thread -> [1 .. MaxFaults -> Nat]]
    BY DEF Init
  <2> QED BY <2>2, <2>3 DEF Init, TypeOK
<1>2. TypeOK /\ [Next]_vars => TypeOK'
  <2> SUFFICES ASSUME TypeOK, [Next]_vars PROVE TypeOK'
    OBVIOUS
  <2>1. CASE UNCHANGED vars
    BY <2>1 DEF TypeOK, vars, gate
  <2>2. ASSUME NEW t \in Thread, Moves(t) PROVE TypeOK'
    BY <2>2, MovesType
  <2>3. ASSUME NEW t \in Thread, Claim(t) PROVE TypeOK'
    <3>1. stack[t] # <<>> /\ Goto(t, "walk") /\ Top(t) \in Record
      BY <2>3, TopType DEF Claim, At
    <3>2. Retops(t, Moved(t, "walk")) /\ Moved(t, "walk") \in Record
      BY <3>1, GotoRetops, MovedType DEF Places
    <3>3. stack' \in [Thread -> Seq(Record)]
      BY <3>2, RetopFrames
    <3>4. Top(t).address \in Address
      BY <3>1 DEF Record
    <3> QED BY <2>3, <3>3, <3>4 DEF TypeOK, Claim
  <2>4. ASSUME NEW t \in Thread, PrintReport(t) PROVE TypeOK'
    <3>1. stack[t] # <<>> /\ Goto(t, "release") /\ Top(t) \in Record
      BY <2>4, TopType DEF PrintReport, At
    <3>2. Retops(t, Moved(t, "release")) /\ Moved(t, "release") \in Record
      BY <3>1, GotoRetops, MovedType DEF Places
    <3>3. stack' \in [Thread -> Seq(Record)]
      BY <3>2, RetopFrames
    <3>4. Top(t).address \in Address /\ Top(t).fault \in 1 .. MaxFaults
      BY <3>1 DEF Record
    <3>5. full' \in [Thread -> [1 .. MaxFaults -> Nat]]
      <4>0. full \in [Thread -> [1 .. MaxFaults -> Nat]]
        BY DEF TypeOK
      <4> DEFINE k == Top(t).fault
      <4>1. full[t] \in [1 .. MaxFaults -> Nat] /\ k \in 1 .. MaxFaults
        BY <3>4, <4>0
      <4> HIDE DEF k
      <4>5. full[t][k] \in Nat
        BY <4>1
      <4>4. full[t][k] + 1 \in Nat
        BY <4>5
      <4>2. [full[t] EXCEPT ![k] = full[t][k] + 1] \in [1 .. MaxFaults -> Nat]
        BY <4>1, <4>4
      <4>3. full' = [full EXCEPT ![t] = [full[t] EXCEPT ![k] = full[t][k] + 1]]
        BY <2>4, <4>0 DEF PrintReport, k
      <4> QED BY <4>0, <4>2, <4>3
    <3> QED BY <2>4, <3>3, <3>4, <3>5 DEF TypeOK, PrintReport
  <2>5. ASSUME NEW t \in Thread, Release(t) PROVE TypeOK'
    <3>1. PICK r \in Record : Retops(t, r)
      BY <2>5, ReleaseRetops
    <3>2. stack' \in [Thread -> Seq(Record)] /\ reentered' \in [Thread -> BOOLEAN]
      BY <2>5, <3>1, RetopFrames, ReleaseRetops
    <3> QED BY <2>5, <3>2 DEF TypeOK, Release
  <2>6. ASSUME NEW t \in Thread, Handled(t) \/ UnwindHard(t) PROVE TypeOK'
    <3>1. Clears(t)
      BY <2>6 DEF Handled, UnwindHard, Clears
    <3>2. stack' \in [Thread -> Seq(Record)]
      BY <3>1, ClearFrames
    <3> QED BY <2>6, <3>2 DEF TypeOK, Handled, UnwindHard, gate
  <2>7. ASSUME NEW t \in Thread, UnwindClean(t) PROVE TypeOK'
    <3>1. stack' \in [Thread -> Seq(Record)]
      BY <2>7, ClearFrames DEF UnwindClean, Clears
    <3>2. mutex' \in Thread \cup {NoThread} /\ reentered' \in [Thread -> BOOLEAN]
      BY <2>7 DEF TypeOK, UnwindClean
    <3>3. /\ busy' \in BOOLEAN /\ gate_owner' \in Thread \cup {NoThread}
          /\ in_report' \in [Thread -> Address \cup {NoRecord}]
      BY <2>7 DEF TypeOK, UnwindClean
    <3> QED BY <2>7, <3>1, <3>2, <3>3 DEF TypeOK, UnwindClean
  <2>8. ASSUME NEW t \in Thread, Dies(t) PROVE TypeOK'
    BY <2>8 DEF TypeOK, Dies, gate
  <2>9. ASSUME NEW t \in Thread, NEW a \in Address, NEW vectored \in BOOLEAN, Fault(t, a, vectored)
        PROVE  TypeOK'
    <3>1. PICK r \in Record : Pushes(t, r)
      BY <2>9, FaultPushes
    <3>3. stack' \in [Thread -> Seq(Record)]
      BY <3>1, PushFrames
    <3>2. faults' \in [Thread -> 0 .. MaxFaults]
      <4>1. faults \in [Thread -> 0 .. MaxFaults] /\ faults[t] < MaxFaults
        BY <2>9 DEF TypeOK, Fault
      <4>2. faults[t] + 1 \in 0 .. MaxFaults
        BY <4>1, GateAssumption
      <4>3. faults' = [faults EXCEPT ![t] = faults[t] + 1]
        BY <2>9 DEF Fault
      <4> QED BY <4>1, <4>2, <4>3
    <3> QED BY <2>9, <3>2, <3>3 DEF TypeOK, Fault, gate
  <2> QED BY <2>1, <2>2, <2>3, <2>4, <2>5, <2>6, <2>7, <2>8, <2>9, NextCases
<1> QED BY <1>1, <1>2, PTL DEF Spec
-----------------------------------------------------------------------------
\* The gate and the reports, one lemma per shape of step.

\* Frame i of t before a step that retops it, and after: the same fault.
LEMMA SameFaults ==
  ASSUME TypeOK, NEW t \in Thread, NEW r \in Record, Retops(t, r), r.fault = Top(t).fault
  PROVE  \A u \in Thread : \A i \in Frames(u) : stack'[u][i].fault = stack[u][i].fault
<1>1. stack[t] # <<>>
  BY DEF Retops
<1> QED BY <1>1, RetopFrames, TopType

LEMMA RetopFaultsDiffer ==
  ASSUME TypeOK, FaultsDiffer, NEW t \in Thread, NEW r \in Record, Retops(t, r),
         r.fault = Top(t).fault, UNCHANGED faults
  PROVE  FaultsDiffer'
<1>1. \A u \in Thread : Frames(u)' = Frames(u)
  BY RetopFrames
<1>2. \A u \in Thread : \A i \in Frames(u) : stack'[u][i].fault = stack[u][i].fault
  BY SameFaults
<1> QED BY <1>1, <1>2 DEF FaultsDiffer

LEMMA MovesKeeps == ASSUME TypeOK, IInv, NEW t \in Thread, Moves(t) PROVE IInv'
<1>1. PICK r \in Record :
        /\ Retops(t, r)
        /\ r.address = Top(t).address /\ r.fault = Top(t).fault
        /\ r.at \in Holding => Top(t).at \in Holding
        /\ Top(t).at \in {"release", "search", "unwind"} =>
             r.at \in {"release", "search", "unwind"} \/ Top(t).address # last_report[t]
  BY DEF Moves
<1>2. UNCHANGED <<busy, gate_owner, in_report, last_report, faults, full>>
  BY DEF Moves
<1>3. stack[t] # <<>> /\ Top(t) = stack[t][1] /\ 1 \in Frames(t)
  BY <1>1, TopType DEF Retops
<1>4. \A u \in Thread : Frames(u)' = Frames(u)
  BY <1>1, RetopFrames
<1>5. /\ \A u \in Thread : u # t => stack'[u] = stack[u]
      /\ stack'[t][1] = r
      /\ \A i \in Frames(t) : i # 1 => stack'[t][i] = stack[t][i]
  BY <1>1, RetopFrames
<1>6. \A u \in Thread : \A i \in Frames(u) : stack'[u][i].at \in Holding => stack[u][i].at \in Holding
  BY <1>1, <1>3, <1>5
<1>7. HolderOwns'
  BY <1>2, <1>4, <1>6 DEF IInv, HolderOwns, Holding
<1>8. OneHolder'
  BY <1>4, <1>6 DEF IInv, OneHolder, Holding
<1>9. FaultsDiffer'
  BY <1>1, <1>2, RetopFaultsDiffer DEF IInv
<1>10. FullyReported'
  <2> SUFFICES ASSUME NEW u \in Thread
               PROVE  /\ \A k \in 1 .. MaxFaults : k > faults[u] => full[u][k] = 0
                      /\ \A i \in Frames(u) : full[u][stack'[u][i].fault] # 0 =>
                           /\ i = 1 /\ stack'[u][i].at \in {"release", "search", "unwind"}
                           /\ last_report[u] = stack'[u][i].address
    BY <1>2, <1>4 DEF FullyReported
  <2>1. \A k \in 1 .. MaxFaults : k > faults[u] => full[u][k] = 0
    BY DEF IInv, FullyReported
  <2>2. \A i \in Frames(u) : full[u][stack[u][i].fault] # 0 =>
          /\ i = 1 /\ stack[u][i].at \in {"release", "search", "unwind"}
          /\ last_report[u] = stack[u][i].address
    BY DEF IInv, FullyReported
  <2>3. CASE u # t
    BY <1>5, <2>1, <2>2, <2>3
  <2>4. CASE u = t
    <3>1. full[t][Top(t).fault] # 0 =>
            Top(t).at \in {"release", "search", "unwind"} /\ last_report[t] = Top(t).address
      BY <1>3, <2>2, <2>4
    <3> QED BY <1>1, <1>3, <1>5, <2>1, <2>2, <2>4, <3>1
  <2> QED BY <2>3, <2>4
<1> QED BY <1>2, <1>7, <1>8, <1>9, <1>10 DEF IInv, SilencedByItsOwnReport, ReportedOnce

LEMMA ClaimKeeps == ASSUME TypeOK, IInv, NEW t \in Thread, Claim(t) PROVE IInv'
<1> DEFINE r == Moved(t, "walk")
<1>1. /\ stack[t] # <<>> /\ Top(t).at = "lock" /\ ~busy
      /\ busy' = TRUE /\ gate_owner' = t
      /\ in_report' = [in_report EXCEPT ![t] = Top(t).address]
      /\ UNCHANGED <<last_report, faults, full>>
  BY DEF Claim, At
<1>2. /\ Retops(t, r) /\ r \in Record /\ r.at = "walk"
      /\ r.address = Top(t).address /\ r.fault = Top(t).fault
  BY <1>1, GotoRetops, MovedType DEF Claim, Places
<1> HIDE DEF r
<1>3. Top(t) = stack[t][1] /\ 1 \in Frames(t)
  BY <1>1, TopType
<1>4. \A u \in Thread : Frames(u)' = Frames(u)
  BY <1>2, RetopFrames
<1>5. /\ \A u \in Thread : u # t => stack'[u] = stack[u]
      /\ stack'[t][1] = r
      /\ \A i \in Frames(t) : i # 1 => stack'[t][i] = stack[t][i]
  BY <1>2, RetopFrames
<1>6. \A u \in Thread : \A i \in Frames(u) : stack[u][i].at \notin Holding
  BY <1>1 DEF IInv, HolderOwns, Holding
<1>7. \A u \in Thread : \A i \in Frames(u) : stack'[u][i].at \in Holding => u = t /\ i = 1
  BY <1>5, <1>6
<1>8. HolderOwns' /\ OneHolder'
  BY <1>1, <1>4, <1>7 DEF HolderOwns, OneHolder, Holding
<1>9. SilencedByItsOwnReport'
  <2>1. \A u \in Thread : u # t => in_report'[u] = NoRecord
    BY <1>1 DEF IInv, SilencedByItsOwnReport, TypeOK
  <2> QED BY <1>1, <2>1 DEF SilencedByItsOwnReport
<1>10. FaultsDiffer'
  BY <1>1, <1>2, RetopFaultsDiffer DEF IInv
<1>11. FullyReported'
  <2> SUFFICES ASSUME NEW u \in Thread
               PROVE  /\ \A k \in 1 .. MaxFaults : k > faults[u] => full[u][k] = 0
                      /\ \A i \in Frames(u) : full[u][stack'[u][i].fault] # 0 =>
                           /\ i = 1 /\ stack'[u][i].at \in {"release", "search", "unwind"}
                           /\ last_report[u] = stack'[u][i].address
    BY <1>1, <1>4 DEF FullyReported
  <2>1. \A k \in 1 .. MaxFaults : k > faults[u] => full[u][k] = 0
    BY DEF IInv, FullyReported
  <2>2. \A i \in Frames(u) : full[u][stack[u][i].fault] # 0 =>
          /\ i = 1 /\ stack[u][i].at \in {"release", "search", "unwind"}
          /\ last_report[u] = stack[u][i].address
    BY DEF IInv, FullyReported
  <2>3. CASE u # t
    BY <1>5, <2>1, <2>2, <2>3
  <2>4. CASE u = t
    <3>1. full[t][Top(t).fault] = 0
      BY <1>1, <1>3, <2>2, <2>4
    <3> QED BY <1>2, <1>3, <1>5, <2>1, <2>2, <2>4, <3>1
  <2> QED BY <2>3, <2>4
<1> QED BY <1>1, <1>8, <1>9, <1>10, <1>11 DEF IInv, ReportedOnce

LEMMA ReleaseKeeps == ASSUME TypeOK, IInv, NEW t \in Thread, Release(t) PROVE IInv'
<1>1. /\ stack[t] # <<>> /\ Top(t).at = "release"
      /\ busy' = FALSE /\ gate_owner' = NoThread
      /\ in_report' = [in_report EXCEPT ![t] = NoRecord]
      /\ UNCHANGED <<last_report, faults, full>>
  BY DEF Release, At
<1>2. PICK r \in Record : /\ Retops(t, r) /\ r.address = Top(t).address
                          /\ r.fault = Top(t).fault /\ r.at \in {"search", "unwind"}
  BY ReleaseRetops
<1>3. Top(t) = stack[t][1] /\ 1 \in Frames(t)
  BY <1>1, TopType
<1>4. \A u \in Thread : Frames(u)' = Frames(u)
  BY <1>2, RetopFrames
<1>5. /\ \A u \in Thread : u # t => stack'[u] = stack[u]
      /\ stack'[t][1] = r
      /\ \A i \in Frames(t) : i # 1 => stack'[t][i] = stack[t][i]
  BY <1>2, RetopFrames
<1>6. gate_owner = t /\ busy
  BY <1>1, <1>3 DEF IInv, HolderOwns
<1>7. \A u \in Thread : \A i \in Frames(u) : stack'[u][i].at \notin Holding
  <2>1. \A u \in Thread : u # t => \A i \in Frames(u) : stack[u][i].at \notin Holding
    BY <1>6 DEF IInv, HolderOwns, Holding
  <2>2. \A i \in Frames(t) : i # 1 => stack[t][i].at \notin Holding
    BY <1>1, <1>3 DEF IInv, OneHolder, Holding
  <2>3. r.at \notin Holding
    BY <1>2 DEF Holding
  <2> QED BY <1>5, <2>1, <2>2, <2>3
<1>8. HolderOwns' /\ OneHolder'
  BY <1>4, <1>7 DEF HolderOwns, OneHolder, Holding
<1>9. SilencedByItsOwnReport'
  <2>1. \A u \in Thread : in_report'[u] = NoRecord
    BY <1>1, <1>6 DEF IInv, SilencedByItsOwnReport, TypeOK
  <2> QED BY <2>1 DEF SilencedByItsOwnReport
<1>10. FaultsDiffer'
  BY <1>1, <1>2, RetopFaultsDiffer DEF IInv
<1>11. FullyReported'
  <2> SUFFICES ASSUME NEW u \in Thread
               PROVE  /\ \A k \in 1 .. MaxFaults : k > faults[u] => full[u][k] = 0
                      /\ \A i \in Frames(u) : full[u][stack'[u][i].fault] # 0 =>
                           /\ i = 1 /\ stack'[u][i].at \in {"release", "search", "unwind"}
                           /\ last_report[u] = stack'[u][i].address
    BY <1>1, <1>4 DEF FullyReported
  <2>1. \A k \in 1 .. MaxFaults : k > faults[u] => full[u][k] = 0
    BY DEF IInv, FullyReported
  <2>2. \A i \in Frames(u) : full[u][stack[u][i].fault] # 0 =>
          /\ i = 1 /\ stack[u][i].at \in {"release", "search", "unwind"}
          /\ last_report[u] = stack[u][i].address
    BY DEF IInv, FullyReported
  <2>3. CASE u # t
    BY <1>5, <2>1, <2>2, <2>3
  <2>4. CASE u = t
    BY <1>2, <1>3, <1>5, <2>1, <2>2, <2>4
  <2> QED BY <2>3, <2>4
<1> QED BY <1>1, <1>8, <1>9, <1>10, <1>11 DEF IInv, ReportedOnce

\* PrintReport: only the innermost exception can be fully reported, and only once.
LEMMA PrintKeeps == ASSUME TypeOK, IInv, NEW t \in Thread, PrintReport(t) PROVE IInv'
<1> DEFINE r == Moved(t, "release")
           k == Top(t).fault
<1>1. /\ stack[t] # <<>> /\ Top(t).at = "print"
      /\ last_report' = [last_report EXCEPT ![t] = Top(t).address]
      /\ UNCHANGED <<busy, gate_owner, in_report, faults>>
  BY DEF PrintReport, At
<1>2. /\ Retops(t, r) /\ r \in Record /\ r.at = "release"
      /\ r.address = Top(t).address /\ r.fault = k
  BY <1>1, GotoRetops, MovedType DEF PrintReport, Places
<1>3. Top(t) = stack[t][1] /\ 1 \in Frames(t) /\ Top(t) \in Record
  BY <1>1, TopType
<1>4. k \in 1 .. MaxFaults /\ k <= faults[t] /\ full[t][k] = 0
  <2>1. k \in 1 .. MaxFaults
    BY <1>3 DEF Record
  <2>2. k <= faults[t]
    BY <1>3 DEF IInv, FaultsDiffer
  <2>3. full[t][k] = 0
    BY <1>1, <1>3 DEF IInv, FullyReported
  <2> QED BY <2>1, <2>2, <2>3
<1>5. full \in [Thread -> [1 .. MaxFaults -> Nat]] /\ last_report \in [Thread -> Address \cup {NoRecord}]
  BY DEF TypeOK
<1>6. full' = [full EXCEPT ![t] = [full[t] EXCEPT ![k] = full[t][k] + 1]]
  BY <1>5 DEF PrintReport
<1> HIDE DEF r, k
<1>7. /\ \A u \in Thread : u # t => full'[u] = full[u] /\ last_report'[u] = last_report[u]
      /\ full'[t][k] = 1 /\ last_report'[t] = Top(t).address
      /\ \A j \in 1 .. MaxFaults : j # k => full'[t][j] = full[t][j]
  <2>1. full'[t] = [full[t] EXCEPT ![k] = full[t][k] + 1] /\ \A u \in Thread : u # t => full'[u] = full[u]
    BY <1>5, <1>6
  <2>2. full[t] \in [1 .. MaxFaults -> Nat]
    BY <1>5
  <2>5. full[t][k] + 1 = 1
    BY <1>4
  <2>6. full'[t] = [full[t] EXCEPT ![k] = 1]
    BY <2>1, <2>5
  <2>3. full'[t][k] = 1 /\ \A j \in 1 .. MaxFaults : j # k => full'[t][j] = full[t][j]
    BY <1>4, <2>2, <2>6
  <2>4. last_report'[t] = Top(t).address /\ \A u \in Thread : u # t => last_report'[u] = last_report[u]
    BY <1>1, <1>5
  <2> QED BY <2>1, <2>3, <2>4
<1>8. \A u \in Thread : Frames(u)' = Frames(u)
  BY <1>2, RetopFrames
<1>9. /\ \A u \in Thread : u # t => stack'[u] = stack[u]
      /\ stack'[t][1] = r
      /\ \A i \in Frames(t) : i # 1 => stack'[t][i] = stack[t][i]
  BY <1>2, RetopFrames
<1>10. \A u \in Thread : \A i \in Frames(u) : stack'[u][i].at \in Holding => stack[u][i].at \in Holding
  BY <1>1, <1>2, <1>3, <1>9 DEF Holding
<1>11. HolderOwns'
  BY <1>1, <1>8, <1>10 DEF IInv, HolderOwns, Holding
<1>12. OneHolder'
  BY <1>8, <1>10 DEF IInv, OneHolder, Holding
<1>13. FaultsDiffer'
  BY <1>1, <1>2, RetopFaultsDiffer DEF IInv, k
<1>14. FullyReported'
  <2> SUFFICES ASSUME NEW u \in Thread
               PROVE  /\ \A j \in 1 .. MaxFaults : j > faults[u] => full'[u][j] = 0
                      /\ \A i \in Frames(u) : full'[u][stack'[u][i].fault] # 0 =>
                           /\ i = 1 /\ stack'[u][i].at \in {"release", "search", "unwind"}
                           /\ last_report'[u] = stack'[u][i].address
    BY <1>1, <1>8 DEF FullyReported
  <2>1. \A j \in 1 .. MaxFaults : j > faults[u] => full[u][j] = 0
    BY DEF IInv, FullyReported
  <2>2. \A i \in Frames(u) : full[u][stack[u][i].fault] # 0 =>
          /\ i = 1 /\ stack[u][i].at \in {"release", "search", "unwind"}
          /\ last_report[u] = stack[u][i].address
    BY DEF IInv, FullyReported
  <2>3. CASE u # t
    BY <1>7, <1>9, <2>1, <2>2, <2>3
  <2>4. CASE u = t
    <3>1. \A j \in 1 .. MaxFaults : j > faults[t] => full'[t][j] = 0
      <4>1. ASSUME NEW j \in 1 .. MaxFaults, j > faults[t] PROVE j # k
        BY <1>4, <4>1 DEF TypeOK
      <4> QED BY <1>7, <2>1, <2>4, <4>1
    <3>2. ASSUME NEW i \in Frames(t), i # 1 PROVE full'[t][stack'[t][i].fault] = 0
      <4>1. stack[t][i] \in Record
        BY DEF TypeOK, Frames
      <4>2. stack[t][i].fault \in 1 .. MaxFaults
        BY <4>1 DEF Record
      <4>3. stack[t][i].fault # k
        BY <1>3, <3>2 DEF IInv, FaultsDiffer, k
      <4>4. full[t][stack[t][i].fault] = 0
        BY <2>2, <2>4, <3>2
      <4> QED BY <1>7, <1>9, <3>2, <4>2, <4>3, <4>4
    <3>3. r.at \in {"release", "search", "unwind"} /\ last_report'[t] = r.address
      BY <1>2, <1>7
    <3> QED BY <1>9, <2>4, <3>1, <3>2, <3>3
  <2> QED BY <2>3, <2>4
<1>15. ReportedOnce'
  BY <1>4, <1>7 DEF IInv, ReportedOnce
<1>16. SilencedByItsOwnReport'
  BY <1>1 DEF IInv, SilencedByItsOwnReport
<1> QED BY <1>11, <1>12, <1>13, <1>14, <1>15, <1>16 DEF IInv

\* A thread whose exceptions are gone: what it leaves behind of the gate.
LEMMA ClearKeeps ==
  ASSUME TypeOK, IInv, NEW t \in Thread, Clears(t),
         UNCHANGED <<last_report, faults, full>>,
         \/ UNCHANGED <<busy, gate_owner, in_report>>
         \/ /\ gate_owner = t
            /\ busy' = FALSE /\ gate_owner' = NoThread
            /\ in_report' = [in_report EXCEPT ![t] = NoRecord]
  PROVE  IInv'
<1>1. /\ Frames(t)' = {}
      /\ \A u \in Thread : u # t => stack'[u] = stack[u] /\ Frames(u)' = Frames(u)
  BY ClearFrames
<1>2. OneHolder' /\ FaultsDiffer'
  BY <1>1 DEF IInv, OneHolder, FaultsDiffer
<1>3. FullyReported' /\ ReportedOnce'
  BY <1>1 DEF IInv, FullyReported, ReportedOnce
<1>4. HolderOwns'
  BY <1>1 DEF IInv, HolderOwns
<1>5. SilencedByItsOwnReport'
  BY DEF IInv, SilencedByItsOwnReport, TypeOK
<1> QED BY <1>2, <1>3, <1>4, <1>5 DEF IInv

LEMMA UnwindCleanKeeps == ASSUME TypeOK, IInv, NEW t \in Thread, UnwindClean(t) PROVE IInv'
<1>1. Clears(t) /\ UNCHANGED <<last_report, faults, full>>
  BY DEF UnwindClean, Clears
<1>2. CASE Interrupted(t, "walk")
  <2>1. gate_owner = t
    BY <1>2 DEF Interrupted, IInv, HolderOwns, Frames, TypeOK
  <2> QED BY <1>1, <1>2, <2>1, ClearKeeps DEF UnwindClean
<1>3. CASE ~Interrupted(t, "walk")
  BY <1>1, <1>3, ClearKeeps DEF UnwindClean
<1> QED BY <1>2, <1>3

LEMMA FaultKeeps ==
  ASSUME TypeOK, IInv, NEW t \in Thread, NEW a \in Address, NEW vectored \in BOOLEAN, Fault(t, a, vectored)
  PROVE  IInv'
<1>1. /\ faults' = [faults EXCEPT ![t] = faults[t] + 1] /\ faults[t] < MaxFaults
      /\ stack[t] # <<>> => Top(t).at \in FaultPlaces
      /\ UNCHANGED <<busy, gate_owner, in_report, last_report, full>>
  BY DEF Fault, gate
<1>2. PICK r \in Record : /\ r.fault = faults[t] + 1 /\ r.at \in {"report", "search"}
                          /\ Pushes(t, r)
  BY FaultPushes
<1>3. /\ stack'[t][1] = r
      /\ \A i \in Frames(t)' : i # 1 => i - 1 \in Frames(t) /\ stack'[t][i] = stack[t][i - 1]
      /\ \A u \in Thread : u # t => stack'[u] = stack[u] /\ Frames(u)' = Frames(u)
  BY <1>2, PushFrames
<1>4. faults \in [Thread -> 0 .. MaxFaults]
  BY DEF TypeOK
<1>5. faults'[t] = faults[t] + 1 /\ \A u \in Thread : u # t => faults'[u] = faults[u]
  BY <1>1, <1>4
<1>6. r.at \notin Holding
  BY <1>2 DEF Holding
<1>7. \A i \in Frames(t)' : i \in Nat /\ i >= 1
  BY DEF Frames
<1>8. HolderOwns'
  BY <1>1, <1>3, <1>6 DEF IInv, HolderOwns, Holding
<1>9. OneHolder'
  <2>1. ASSUME NEW i \in Frames(t)', NEW j \in Frames(t)',
               {stack'[t][i].at, stack'[t][j].at} \subseteq Holding
        PROVE  i = j
    <3>1. i # 1 /\ j # 1
      BY <1>3, <1>6, <2>1
    <3>2. i - 1 = j - 1
      BY <1>3, <2>1, <3>1 DEF IInv, OneHolder, Holding
    <3> QED BY <1>7, <3>2
  <2> QED BY <1>3, <2>1 DEF IInv, OneHolder, Holding
<1>10. \A i \in Frames(t) : stack[t][i].fault <= faults[t] /\ stack[t][i].fault \in Nat
  <2>1. \A i \in Frames(t) : stack[t][i] \in Record
    BY DEF TypeOK, Frames
  <2>2. \A i \in Frames(t) : stack[t][i].fault \in Nat
    BY <2>1 DEF Record
  <2> QED BY <2>2 DEF IInv, FaultsDiffer
<1>11. \A i \in Frames(t)' : i # 1 => stack'[t][i].fault <= faults[t] /\ stack'[t][i].fault \in Nat
  BY <1>3, <1>10
<1>12. faults[t] \in Nat /\ r.fault = faults[t] + 1
  BY <1>2, <1>4
<1>13. FaultsDiffer'
  <2>1. \A i \in Frames(t)' : stack'[t][i].fault <= faults'[t]
    BY <1>3, <1>5, <1>11, <1>12
  <2>2. ASSUME NEW i \in Frames(t)', NEW j \in Frames(t)', stack'[t][i].fault = stack'[t][j].fault
        PROVE  i = j
    <3>1. (i = 1) <=> (j = 1)
      BY <1>3, <1>11, <1>12, <2>2
    <3>2. CASE i # 1 /\ j # 1
      <4>1. i - 1 = j - 1
        BY <1>3, <2>2, <3>2 DEF IInv, FaultsDiffer
      <4> QED BY <1>7, <4>1
    <3> QED BY <3>1, <3>2
  <2> QED BY <1>3, <1>5, <2>1, <2>2 DEF IInv, FaultsDiffer
<1>14. FullyReported'
  <2>1. \A u \in Thread : \A k \in 1 .. MaxFaults : k > faults'[u] => full[u][k] = 0
    BY <1>5, <1>12 DEF IInv, FullyReported
  <2>2. r.fault \in 1 .. MaxFaults /\ r.fault > faults[t]
    BY <1>1, <1>12, GateAssumption DEF Record
  <2>3. full[t][r.fault] = 0
    BY <2>2 DEF IInv, FullyReported
  <2>4. ASSUME NEW i \in Frames(t) PROVE full[t][stack[t][i].fault] = 0
    <3>1. CASE i = 1
      <4>1. stack[t] # <<>>
        BY <2>4 DEF Frames, TypeOK
      <4>2. stack[t][1].at \in {"walk", "note", "line"}
        BY <1>1, <4>1, TopType, GateAssumption
      <4> QED BY <3>1, <4>2 DEF IInv, FullyReported
    <3>2. CASE i # 1
      BY <3>2 DEF IInv, FullyReported
    <3> QED BY <3>1, <3>2
  <2>5. \A i \in Frames(t)' : full[t][stack'[t][i].fault] = 0
    BY <1>3, <2>3, <2>4
  <2> QED BY <1>1, <1>3, <2>1, <2>5 DEF IInv, FullyReported
<1> QED BY <1>1, <1>8, <1>9, <1>13, <1>14 DEF IInv, SilencedByItsOwnReport, ReportedOnce
-----------------------------------------------------------------------------
\* Between claim and release a thread owns the gate, and of the exceptions in flight only
\* the innermost has been fully reported: the inductive invariant of the reporter.
THEOREM GateIsConsistent == Spec => [](TypeOK /\ IInv)
<1>1. Init => IInv
  <2> SUFFICES ASSUME Init PROVE IInv
    OBVIOUS
  <2>1. \A t \in Thread : Frames(t) = {}
    <3>1. Len(<<>>) = 0 /\ 1 .. 0 = {}
      OBVIOUS
    <3> QED BY <3>1 DEF Init, Frames
  <2> QED BY <2>1, GateAssumption
       DEF Init, IInv, HolderOwns, OneHolder, FaultsDiffer, FullyReported, SilencedByItsOwnReport, ReportedOnce
<1>2. TypeOK /\ IInv /\ [Next]_vars => IInv'
  <2> SUFFICES ASSUME TypeOK, IInv, [Next]_vars PROVE IInv'
    OBVIOUS
  <2>1. CASE UNCHANGED vars
    BY <2>1 DEF vars, gate, IInv, HolderOwns, OneHolder, FaultsDiffer, FullyReported,
                SilencedByItsOwnReport, ReportedOnce, Frames
  <2>2. ASSUME NEW t \in Thread, Dies(t) PROVE IInv'
    BY <2>2 DEF Dies, gate, IInv, HolderOwns, OneHolder, FaultsDiffer, FullyReported,
                SilencedByItsOwnReport, ReportedOnce, Frames
  <2>3. ASSUME NEW t \in Thread, Handled(t) \/ UnwindHard(t) PROVE IInv'
    BY <2>3, ClearKeeps DEF Handled, UnwindHard, Clears, gate
  <2> QED BY <2>1, <2>2, <2>3, NextCases, MovesKeeps, ClaimKeeps, PrintKeeps, ReleaseKeeps,
             UnwindCleanKeeps, FaultKeeps
<1> QED BY <1>1, <1>2, TypeCorrect, PTL DEF Spec

\* dbghelp is entered by one thread and one call at a time, whatever number of threads
\* faults at once, and whatever is torn out of the reporter.
THEOREM NeverTwoWalkers == Spec => []OneWalker
<1>1. TypeOK /\ IInv => OneWalker
  BY DEF TypeOK, IInv, HolderOwns, OneHolder, OneWalker, Walking, Frames
<1> QED BY <1>1, GateIsConsistent, PTL

\* No exception is fully reported twice, by the vectored handler and by the filter.
THEOREM NeverReportedTwice == Spec => []ReportedOnce
<1>1. IInv => ReportedOnce
  BY DEF IInv
<1> QED BY <1>1, GateIsConsistent, PTL

\* in_report is set only for the thread that owns the gate.
THEOREM OnlyOwnersAreSilenced == Spec => []SilencedByItsOwnReport
<1>1. IInv => SilencedByItsOwnReport
  BY DEF IInv
<1> QED BY <1>1, GateIsConsistent, PTL
=============================================================================
