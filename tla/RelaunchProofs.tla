---------------------------- MODULE RelaunchProofs ----------------------------
(***************************************************************************)
(* Proofs about module Relaunch, for every burst, window and number of     *)
(* requests and of handshakes that cannot be written.  Every step of a     *)
(* process is of one of five kinds; the invariants are shown kept by each  *)
(* kind.                                                                   *)
(***************************************************************************)
EXTENDS Relaunch, FiniteSetTheorems, TLAPS

Chain == 1 .. Len(proc)

-----------------------------------------------------------------------------
(* The kinds of steps *)

\* Everybody but p stays as it is.
Alone(p) == Len(proc') = Len(proc) /\ \A q \in Chain : q # p => proc'[q] = proc[q]

\* p stays who it is.
Itself(p) == /\ proc'[p].kind = proc[p].kind /\ proc'[p].hand = proc[p].hand
             /\ proc'[p].sequence = proc[p].sequence /\ proc'[p].child = proc[p].child

\* A parent whose child has ended deletes the handshake file.
Cleans(p) == files' = files \/ (ChildEnded(p) /\ Removed(p))

\* The process whose turn it is: it runs or starts a child, or its child has ended.
Turn(p) == At(p, "run") \/ At(p, "written") \/ At(p, "start") \/ ChildEnded(p)

Uncounted(p) == relaunches' = relaunches /\ proc'[p].recent = proc[p].recent

\* A parent counts a relaunch.
Counted(p) == /\ ~TooOften(p)
              /\ relaunches' = Append(relaunches, now)
              /\ proc'[p].recent = Append(Recent(p), now)

Asking(p) == /\ Alone(p) /\ Itself(p)
             /\ At(p, "run") /\ proc'[p].at = "run"
             /\ proc'[p].performs = proc[p].performs /\ proc'[p].code = proc[p].code
             /\ proc'[p].next = proc[p].next
             /\ Uncounted(p) /\ UNCHANGED <<files, lost>>

Handing(p) ==
  LET h == proc[p].hand IN
  /\ Alone(p) /\ Itself(p)
  /\ At(p, "run") /\ proc'[p].at = "written" /\ h # NoHandshake
  /\ files' = {f \in files : f.file # h} \cup {[file |-> h, nonce |-> h, tail |-> proc[p].asked]}
  /\ proc'[p].asked = proc[p].asked
  /\ proc'[p].performs = proc[p].performs /\ proc'[p].code = proc[p].code
  /\ proc'[p].next = proc[p].next
  /\ Uncounted(p) /\ UNCHANGED lost

Ending(p) ==
  /\ Alone(p) /\ Itself(p)
  /\ Turn(p) /\ proc'[p].at = "ended"
  /\ proc'[p].asked = proc[p].asked /\ proc'[p].next = proc[p].next
  /\ \/ proc'[p].performs = proc[p].performs /\ (At(p, "written") => proc'[p].code # Magic)
     \/ At(p, "written") /\ proc'[p].performs = TRUE /\ proc'[p].code = Magic
  /\ ChildEnded(p) => \/ proc'[p].code = Failed
                      \/ ~Asks(p) /\ proc'[p].code = proc[proc[p].child].code
  /\ At(p, "start") => proc'[p].code = Failed
  /\ Cleans(p) /\ Uncounted(p) /\ UNCHANGED lost

\* What the next program is asked to do.
Answers(p) == \/ At(p, "run") /\ proc'[p].next = proc[p].asked
              \/ /\ ChildEnded(p) /\ Asks(p)
                 /\ \E f \in Written(p) : proc'[p].next = f.tail

Preparing(p) ==
  /\ Alone(p) /\ Itself(p)
  /\ proc'[p].at = "start" /\ proc'[p].next # NoTail
  /\ proc'[p].asked = proc[p].asked /\ proc'[p].code = proc[p].code
  /\ Answers(p) /\ Cleans(p)
  /\ \/ At(p, "run") /\ proc[p].hand = NoHandshake /\ UNCHANGED lost
     \/ At(p, "run") /\ lost' = lost + 1
     \/ ChildEnded(p) /\ UNCHANGED lost
  /\ Uncounted(p) \/ (proc[p].kind = "launcher" /\ Counted(p))

Branching(p) ==
  LET n == proc[p].sequence + 1 IN
  /\ Len(proc') = Len(proc) + 1 /\ \A q \in Chain : q # p => proc'[q] = proc[q]
  /\ At(p, "start") /\ proc'[p].at = "wait"
  /\ proc'[p].kind = proc[p].kind /\ proc'[p].hand = proc[p].hand
  /\ proc'[p].sequence = n /\ proc'[p].child = Len(proc) + 1
  /\ proc'[p].asked = proc[p].asked /\ proc'[p].next = proc[p].next
  /\ proc'[p].performs = proc[p].performs /\ proc'[p].code = proc[p].code
  /\ proc'[Len(proc) + 1] = Process("lxe", "run", <<p, n>>)
  /\ Uncounted(p) \/ Counted(p)
  /\ UNCHANGED <<files, lost>>

Moves(p) == /\ Asking(p) \/ Handing(p) \/ Ending(p) \/ Preparing(p) \/ Branching(p)
            /\ UNCHANGED now

-----------------------------------------------------------------------------
(* Every step is of one of them *)

LEMMA ProcessType ==
  ASSUME TypeOK, NEW p \in Chain
  PROVE  proc[p] \in Processes
BY DEF TypeOK, Chain

LEMMA NewProcessType ==
  ASSUME NEW kind \in {"launcher", "lxe"}, NEW at \in {"start", "run"}, NEW hand \in Handshakes
  PROVE  Process(kind, at, hand) \in Processes
BY DEF Process, Processes

LEMMA SetFacts ==
  ASSUME TypeOK, NEW p \in Chain, NEW r \in Processes, Set(p, r)
  PROVE  proc' \in Seq(Processes) /\ Alone(p) /\ proc'[p] = r
BY DEF TypeOK, Chain, Set, Alone

\* A parent r that waits for child c, the n-th it started.
Waiting(r, n, c) == [r EXCEPT !.at = "wait", !.sequence = n, !.child = c]

LEMMA WaitingType ==
  ASSUME NEW r \in Processes, NEW n \in Nat, NEW c \in Nat
  PROVE  Waiting(r, n, c) \in Processes
BY DEF Waiting, Processes

LEMMA StartFacts ==
  ASSUME TypeOK, NEW p \in Chain, NEW r \in Processes, StartChild(p, r)
  PROVE  /\ proc' \in Seq(Processes) /\ Len(proc') = Len(proc) + 1
         /\ \A q \in Chain : q # p => proc'[q] = proc[q]
         /\ proc'[p] = Waiting(r, r.sequence + 1, Len(proc) + 1)
         /\ proc'[Len(proc) + 1] = Process("lxe", "run", <<p, r.sequence + 1>>)
<1> DEFINE n == r.sequence + 1
           mine == Waiting(r, n, Len(proc) + 1)
           its == Process("lxe", "run", <<p, n>>)
<1>1. n \in Nat /\ p \in Nat /\ Len(proc) \in Nat
  <2>1. r.sequence \in Nat
    BY DEF Processes
  <2>2. Len(proc) \in Nat
    BY DEF TypeOK
  <2> QED BY <2>1, <2>2 DEF Chain
<1>2. mine \in Processes
  BY <1>1, WaitingType
<1>3. its \in Processes
  BY <1>1, NewProcessType DEF Handshakes
<1>4. proc' = Append([proc EXCEPT ![p] = mine], its)
  BY DEF StartChild, Waiting
<1> HIDE DEF mine, its
<1>5. [proc EXCEPT ![p] = mine] \in Seq(Processes) /\ Len([proc EXCEPT ![p] = mine]) = Len(proc)
  BY <1>2 DEF TypeOK, Chain
<1>6. /\ proc' \in Seq(Processes) /\ Len(proc') = Len(proc) + 1
      /\ proc'[Len(proc) + 1] = its
      /\ \A q \in Chain : proc'[q] = [proc EXCEPT ![p] = mine][q]
  BY <1>3, <1>4, <1>5 DEF Chain
<1>7. proc'[p] = mine /\ \A q \in Chain : q # p => proc'[q] = proc[q]
  BY <1>6 DEF TypeOK, Chain
<1> QED BY <1>6, <1>7 DEF mine, its

\* What Recent drops is a number d of relaunches at the front, and, as the clock does not
\* go back, none that is inside the window.
LEMMA RecentFacts ==
  ASSUME TypeOK, NEW p \in Chain
  PROVE  \E d \in 0 .. Len(proc[p].recent) :
           /\ Recent(p) \in Seq(Nat) /\ Len(Recent(p)) = Len(proc[p].recent) - d
           /\ \A i \in 1 .. Len(Recent(p)) : Recent(p)[i] = proc[p].recent[i + d]
           /\ \A k \in 1 .. Len(proc[p].recent) :
                now - proc[p].recent[k] <= Window
                  /\ (\A i \in k .. Len(proc[p].recent) : proc[p].recent[k] <= proc[p].recent[i])
                => d < k
<1> DEFINE r == proc[p].recent
           old == {i \in 1 .. Len(r) : now - r[i] > Window}
           d == Cardinality(old)
<1>1. r \in Seq(Nat) /\ Len(r) \in Nat
  BY ProcessType DEF Processes
<1>2. /\ IsFiniteSet(old) /\ d \in Nat /\ d <= Len(r)
  <2>1. IsFiniteSet(1 .. Len(r)) /\ Cardinality(1 .. Len(r)) = Len(r)
    BY <1>1, FS_Interval
  <2>2. old \in SUBSET (1 .. Len(r))
    OBVIOUS
  <2>3. IsFiniteSet(old) /\ d <= Len(r)
    BY <2>1, <2>2, FS_Subset
  <2> QED BY <2>3, FS_CardinalityType
<1>3. Recent(p) = SubSeq(r, d + 1, Len(r))
  BY DEF Recent
<1> HIDE DEF d
<1>4. /\ Recent(p) \in Seq(Nat) /\ Len(Recent(p)) = Len(r) - d
      /\ \A i \in 1 .. Len(Recent(p)) : Recent(p)[i] = r[i + d]
  BY <1>1, <1>2, <1>3
<1>5. ASSUME NEW k \in 1 .. Len(r), now - r[k] <= Window,
             \A i \in k .. Len(r) : r[k] <= r[i]
      PROVE  d < k
  <2>1. ASSUME NEW i \in old PROVE i < k
    <3>1. i \in 1 .. Len(r) /\ now - r[i] > Window
      OBVIOUS
    <3>2. r[i] \in Nat /\ r[k] \in Nat
      BY <1>1, <3>1
    <3>3. now \in Nat /\ Window \in Nat
      BY RelaunchAssumption DEF TypeOK
    <3>4. ASSUME i >= k PROVE FALSE
      <4>1. r[k] <= r[i]
        BY <1>5, <3>1, <3>4
      <4> QED BY <1>5, <3>1, <3>2, <3>3, <4>1
    <3> QED BY <1>1, <3>1, <3>4
  <2>2. old \in SUBSET (1 .. k - 1)
    BY <1>1, <2>1
  <2>3. IsFiniteSet(1 .. k - 1) /\ Cardinality(1 .. k - 1) = k - 1
    <3>1. k - 1 \in Int /\ 1 \in Int /\ k \in Int /\ k >= 1
      BY <1>1
    <3>2. Cardinality(1 .. k - 1) = IF 1 > k - 1 THEN 0 ELSE (k - 1) - 1 + 1
      BY <3>1, FS_Interval
    <3> QED BY <3>1, <3>2, FS_Interval
  <2>4. d <= k - 1
    BY <2>2, <2>3, FS_Subset DEF d
  <2> QED BY <1>1, <1>2, <2>4
<1>6. d \in 0 .. Len(r)
  BY <1>1, <1>2
<1> HIDE DEF r
<1>7. \A k \in 1 .. Len(r) :
        now - r[k] <= Window /\ (\A i \in k .. Len(r) : r[k] <= r[i]) => d < k
  BY <1>5
<1> SUFFICES \E e \in 0 .. Len(r) :
               /\ Recent(p) \in Seq(Nat) /\ Len(Recent(p)) = Len(r) - e
               /\ \A i \in 1 .. Len(Recent(p)) : Recent(p)[i] = r[i + e]
               /\ \A k \in 1 .. Len(r) :
                    now - r[k] <= Window /\ (\A i \in k .. Len(r) : r[k] <= r[i]) => e < k
  BY DEF r
<1> QED BY <1>4, <1>6, <1>7

LEMMA RequestMoves ==
  ASSUME TypeOK, NEW p \in Chain, NEW tail \in Tails, Request(p, tail)
  PROVE  TypeOK' /\ Moves(p)
<1>1. proc[p] \in Processes BY ProcessType
<1> DEFINE r == [proc[p] EXCEPT !.asked = tail]
<1>2. r \in Processes BY <1>1 DEF Processes
<1>3. proc' \in Seq(Processes) /\ Alone(p) /\ proc'[p] = r
  BY <1>2, SetFacts DEF Request
<1>4. Asking(p)
  BY <1>1, <1>3 DEF Request, Processes, Asking, Itself, Uncounted, At
<1>5. TypeOK'
  BY <1>3, RelaunchAssumption DEF Request, TypeOK
<1> QED BY <1>4, <1>5 DEF Moves, Request

LEMMA ExitMoves ==
  ASSUME TypeOK, NEW p \in Chain, NEW code \in Code, Exit(p, code)
  PROVE  TypeOK' /\ Moves(p)
<1>1. proc[p] \in Processes BY ProcessType
<1> DEFINE r == [proc[p] EXCEPT !.at = "ended", !.code = code]
<1>2. r \in Processes BY <1>1 DEF Processes
<1>3. proc' \in Seq(Processes) /\ Alone(p) /\ proc'[p] = r
  BY <1>2, SetFacts DEF Exit, End
<1>4. Ending(p)
  BY <1>1, <1>3 DEF Exit, Processes, Ending, Itself, Uncounted, Turn, Cleans, ChildEnded, At
<1>5. TypeOK'
  BY <1>3 DEF Exit, TypeOK
<1> QED BY <1>4, <1>5 DEF Moves, Exit

LEMMA ExitMagicMoves ==
  ASSUME TypeOK, NEW p \in Chain, ExitMagic(p)
  PROVE  TypeOK' /\ Moves(p)
<1>1. proc[p] \in Processes BY ProcessType
<1> DEFINE r == [proc[p] EXCEPT !.at = "ended", !.performs = TRUE, !.code = Magic]
<1>2. r \in Processes BY <1>1, RelaunchAssumption DEF Processes
<1>3. proc' \in Seq(Processes) /\ Alone(p) /\ proc'[p] = r
  BY <1>2, SetFacts DEF ExitMagic
<1>4. Ending(p)
  BY <1>1, <1>3 DEF ExitMagic, Processes, Ending, Itself, Uncounted, Turn, Cleans, ChildEnded, At
<1>5. TypeOK'
  BY <1>3 DEF ExitMagic, TypeOK
<1> QED BY <1>4, <1>5 DEF Moves, ExitMagic

LEMMA PerformMoves ==
  ASSUME TypeOK, NEW p \in Chain, Perform(p)
  PROVE  TypeOK' /\ Moves(p)
<1>1. proc[p] \in Processes BY ProcessType
<1> DEFINE r == [proc[p] EXCEPT !.at = "written"]
<1>2. r \in Processes BY <1>1 DEF Processes
<1>3. proc' \in Seq(Processes) /\ Alone(p) /\ proc'[p] = r
  BY <1>2, SetFacts DEF Perform
<1>4. Handing(p)
  BY <1>1, <1>3 DEF Perform, Processes, Handing, Itself, Uncounted
<1>5. proc[p].hand \in Handshakes \ {NoHandshake} /\ proc[p].asked \in Tails
  BY <1>1 DEF Perform, Processes
<1>6. TypeOK'
  BY <1>3, <1>5 DEF Perform, TypeOK
<1> QED BY <1>4, <1>6 DEF Moves, Perform

LEMMA PerformHereMoves ==
  ASSUME TypeOK, NEW p \in Chain, PerformNested(p) \/ PerformInPlace(p)
  PROVE  TypeOK' /\ Moves(p)
<1>1. proc[p] \in Processes BY ProcessType
<1> DEFINE r == [proc[p] EXCEPT !.at = "start", !.performs = TRUE, !.next = proc[p].asked]
<1>2. r \in Processes BY <1>1 DEF Processes
<1>3. proc' \in Seq(Processes) /\ Alone(p) /\ proc'[p] = r
  BY <1>2, SetFacts DEF PerformNested, PerformInPlace
<1>4. Preparing(p)
  BY <1>1, <1>3 DEF PerformNested, PerformInPlace, Processes, Preparing, Itself, Uncounted, Answers,
                    Cleans
<1>5. TypeOK'
  BY <1>3, RelaunchAssumption DEF PerformNested, PerformInPlace, TypeOK
<1> QED BY <1>4, <1>5 DEF Moves, PerformNested, PerformInPlace

LEMMA StartsMove ==
  ASSUME TypeOK, NEW p \in Chain, LauncherStarts(p) \/ NestedStarts(p)
  PROVE  TypeOK' /\ Moves(p)
<1>1. proc[p] \in Processes BY ProcessType
<1>2. CASE LauncherStarts(p)
  <2>1. /\ proc' \in Seq(Processes) /\ Len(proc') = Len(proc) + 1
        /\ \A q \in Chain : q # p => proc'[q] = proc[q]
        /\ proc'[p] = Waiting(proc[p], proc[p].sequence + 1, Len(proc) + 1)
        /\ proc'[Len(proc) + 1] = Process("lxe", "run", <<p, proc[p].sequence + 1>>)
    BY <1>1, <1>2, StartFacts DEF LauncherStarts
  <2>2. Branching(p)
    BY <1>1, <1>2, <2>1 DEF LauncherStarts, Waiting, Parent, Branching, Uncounted, Processes
  <2>3. TypeOK'
    BY <1>2, <2>1 DEF LauncherStarts, TypeOK
  <2> QED BY <1>2, <2>2, <2>3 DEF Moves, LauncherStarts
<1>3. CASE NestedStarts(p)
  <2> DEFINE r == [proc[p] EXCEPT !.recent = Append(Recent(p), now)]
  <2>1. Append(Recent(p), now) \in Seq(Nat)
    BY RecentFacts DEF TypeOK
  <2>2. r \in Processes /\ r.sequence = proc[p].sequence
    BY <1>1, <2>1 DEF Processes
  <2>3. /\ proc' \in Seq(Processes) /\ Len(proc') = Len(proc) + 1
        /\ \A q \in Chain : q # p => proc'[q] = proc[q]
        /\ proc'[p] = Waiting(r, r.sequence + 1, Len(proc) + 1)
        /\ proc'[Len(proc) + 1] = Process("lxe", "run", <<p, proc[p].sequence + 1>>)
    <3>1. StartChild(p, r)
      BY <1>3 DEF NestedStarts
    <3> HIDE DEF r
    <3> QED BY <2>2, <3>1, StartFacts
  <2>4. Branching(p)
    BY <1>1, <1>3, <2>1, <2>3 DEF NestedStarts, Waiting, Parent, Branching, Counted, Processes
  <2>5. TypeOK'
    BY <1>3, <2>3 DEF NestedStarts, TypeOK
  <2> QED BY <1>3, <2>4, <2>5 DEF Moves, NestedStarts
<1> QED BY <1>2, <1>3

LEMMA FailuresMove ==
  ASSUME TypeOK, NEW p \in Chain, NestedRefuses(p) \/ StartFails(p) \/ LauncherRefuses(p)
  PROVE  TypeOK' /\ Moves(p)
<1>1. proc[p] \in Processes BY ProcessType
<1> DEFINE r == [proc[p] EXCEPT !.at = "ended", !.code = Failed]
<1>2. r \in Processes BY <1>1, RelaunchAssumption DEF Processes
<1>3. proc' \in Seq(Processes) /\ Alone(p) /\ proc'[p] = r
  BY <1>2, SetFacts DEF NestedRefuses, StartFails, LauncherRefuses, End
<1>4. Ending(p)
  BY <1>1, <1>3 DEF NestedRefuses, StartFails, LauncherRefuses, Parent, Processes, Ending, Itself,
                    Uncounted, Turn, Cleans, ChildEnded, At
<1>5. files' \subseteq files
  BY DEF NestedRefuses, StartFails, LauncherRefuses, Removed
<1>6. TypeOK'
  BY <1>3, <1>5 DEF NestedRefuses, StartFails, LauncherRefuses, TypeOK
<1> QED BY <1>4, <1>6 DEF Moves, NestedRefuses, StartFails, LauncherRefuses

LEMMA PassThroughMoves ==
  ASSUME TypeOK, NEW p \in Chain, proc[p].child \in Chain, PassThrough(p)
  PROVE  TypeOK' /\ Moves(p)
<1>1. proc[p] \in Processes BY ProcessType
<1> DEFINE r == [proc[p] EXCEPT !.at = "ended", !.code = proc[proc[p].child].code]
<1>2. r \in Processes BY <1>1, ProcessType DEF Processes
<1>3. proc' \in Seq(Processes) /\ Alone(p) /\ proc'[p] = r
  BY <1>2, SetFacts DEF PassThrough, End
<1>4. Ending(p)
  BY <1>1, <1>3 DEF PassThrough, Processes, Ending, Itself, Uncounted, Turn, Cleans, ChildEnded, At
<1>5. TypeOK'
  BY <1>3 DEF PassThrough, Removed, TypeOK
<1> QED BY <1>4, <1>5 DEF Moves, PassThrough

LEMMA GoesOnMoves ==
  ASSUME TypeOK, NEW p \in Chain, NestedGoesOn(p) \/ LauncherGoesOn(p)
  PROVE  TypeOK' /\ Moves(p)
<1>1. proc[p] \in Processes BY ProcessType
<1>2. Append(Recent(p), now) \in Seq(Nat)
  BY RecentFacts DEF TypeOK
<1>3. PICK f \in Written(p), kept \in {proc[p].recent, Append(Recent(p), now)} :
        /\ Set(p, [proc[p] EXCEPT !.at = "start", !.next = f.tail, !.recent = kept])
        /\ \/ kept = proc[p].recent /\ relaunches' = relaunches
           \/ /\ kept = Append(Recent(p), now) /\ proc[p].kind = "launcher" /\ ~TooOften(p)
              /\ relaunches' = Append(relaunches, now)
  <2>1. CASE LauncherGoesOn(p)
    BY <2>1 DEF LauncherGoesOn
  <2>2. CASE NestedGoesOn(p)
    <3>1. PICK f \in Written(p) : Set(p, [proc[p] EXCEPT !.at = "start", !.next = f.tail])
      BY <2>2 DEF NestedGoesOn
    <3>2. [proc[p] EXCEPT !.at = "start", !.next = f.tail]
            = [proc[p] EXCEPT !.at = "start", !.next = f.tail, !.recent = proc[p].recent]
      BY <1>1 DEF Processes
    <3> QED BY <2>2, <3>1, <3>2 DEF NestedGoesOn
  <2> QED BY <2>1, <2>2
<1> DEFINE r == [proc[p] EXCEPT !.at = "start", !.next = f.tail, !.recent = kept]
<1>4. f.tail \in Tails
  BY DEF Written, TypeOK
<1>5. kept \in Seq(Nat)
  BY <1>1, <1>2 DEF Processes
<1>6. r \in Processes BY <1>1, <1>4, <1>5 DEF Processes
<1>7. proc' \in Seq(Processes) /\ Alone(p) /\ proc'[p] = r
  BY <1>3, <1>6, SetFacts
<1>8. /\ ChildEnded(p) /\ Asks(p) /\ Removed(p) /\ UNCHANGED <<now, lost, requests>>
  BY DEF NestedGoesOn, LauncherGoesOn
<1>9. /\ r.at = "start" /\ r.next = f.tail /\ r.recent = kept
      /\ r.kind = proc[p].kind /\ r.hand = proc[p].hand /\ r.sequence = proc[p].sequence
      /\ r.child = proc[p].child /\ r.asked = proc[p].asked /\ r.code = proc[p].code
  BY <1>1 DEF Processes
<1> HIDE DEF r
<1>10. Uncounted(p) \/ (proc[p].kind = "launcher" /\ Counted(p))
  BY <1>3, <1>7, <1>9 DEF Uncounted, Counted
<1>11. Answers(p) /\ proc'[p].next # NoTail
  BY <1>4, <1>7, <1>8, <1>9, RelaunchAssumption DEF Answers
<1>12. Preparing(p)
  BY <1>7, <1>8, <1>9, <1>10, <1>11 DEF Preparing, Itself, Cleans
<1>13. relaunches' \in Seq(Nat)
  <2>1. now \in Nat /\ relaunches \in Seq(Nat)
    BY DEF TypeOK
  <2> QED BY <1>3, <2>1
<1>14. TypeOK'
  BY <1>7, <1>8, <1>13 DEF Removed, TypeOK
<1> QED BY <1>8, <1>12, <1>14 DEF Moves


-----------------------------------------------------------------------------
(* The family: who started whom, and whose turn it is *)

Children == 2 .. Len(proc)

\* Every process but the first was started by one of those before it, with a handshake
\* of its own.
Kin ==
  /\ Len(proc) >= 1 /\ proc[1].hand = NoHandshake
  /\ \A p \in Children : /\ proc[p].kind = "lxe"
                         /\ proc[p].hand[1] \in 1 .. p - 1
                         /\ proc[p].hand[2] \in 1 .. proc[proc[p].hand[1]].sequence
  /\ \A p, q \in Children : proc[p].hand = proc[q].hand => p = q

\* A parent waits for the child it started last, and as long as a child lives its
\* parent waits for it.
Waits ==
  /\ \A p \in Chain : At(p, "wait") => /\ proc[p].child \in p + 1 .. Len(proc)
                                       /\ proc[proc[p].child].hand = <<p, proc[p].sequence>>
  /\ \A p \in Children : ~At(p, "ended") => /\ At(proc[p].hand[1], "wait")
                                            /\ proc[proc[p].hand[1]].child = p

\* One process at a time can do anything, and none when the first one has ended.
OneTurn ==
  /\ \A p, q \in Chain : Turn(p) /\ Turn(q) => p = q
  /\ At(1, "ended") => \A p \in Chain : ~Turn(p)

\* The request that the program p hands over.
RequestOf(p) == [file |-> proc[p].hand, nonce |-> proc[p].hand, tail |-> proc[p].asked]

\* Only the last process runs the program; a request that was written is there until
\* its program is gone.
Running ==
  \A p \in Chain :
    /\ At(p, "run") \/ At(p, "written") => p = Len(proc) /\ ~proc[p].performs
    /\ ~At(p, "ended") => proc[p].code = NoCode
    /\ At(p, "written") => proc[p].hand # NoHandshake /\ RequestOf(p) \in files

\* A file holds what the child that has this handshake asked for last.
FilesOf ==
  \A f \in files : \E q \in Children :
    /\ proc[q].hand = f.file /\ proc[q].asked = f.tail
    /\ At(q, "written") \/ At(q, "ended")
    /\ proc[q].code = Magic => proc[q].performs

Family == Kin /\ Waits /\ OneTurn /\ Running /\ FilesOf

\* A step that starts nobody.
Stays(p) == Alone(p) /\ Itself(p) /\ Turn(p) /\ proc'[p].at # "wait"

LEMMA ChainFacts ==
  ASSUME TypeOK, Kin
  PROVE  /\ Len(proc) \in Nat /\ Len(proc) >= 1
         /\ 1 \in Chain /\ Chain \subseteq Nat /\ Children \subseteq Chain
         /\ \A p \in Chain : p # 1 => p \in Children
         /\ \A p \in Children : /\ proc[p].hand[1] \in Chain /\ proc[p].hand[1] < p
                                /\ proc[p].hand # NoHandshake
<1>1. Len(proc) \in Nat
  BY DEF TypeOK
<1>2. ASSUME NEW p \in Children
      PROVE  proc[p].hand[1] \in Chain /\ proc[p].hand[1] < p /\ proc[p].hand # NoHandshake
  <2>1. proc[p].hand[1] \in 1 .. p - 1
    BY DEF Kin
  <2>2. proc[p].hand[1] # 0
    BY <2>1
  <2> QED BY <1>1, <2>1, <2>2 DEF Children, Chain, NoHandshake
<1> QED BY <1>1, <1>2 DEF Kin, Chain, Children

LEMMA PlaceOf ==
  ASSUME TypeOK, NEW p \in Chain
  PROVE  At(p, "run") \/ At(p, "written") \/ At(p, "start") \/ At(p, "wait") \/ At(p, "ended")
BY ProcessType DEF Processes, At

\* Whoever has not the turn waits for a living child or has ended.
LEMMA OthersWait ==
  ASSUME TypeOK, OneTurn, NEW p \in Chain, Turn(p), NEW q \in Chain, q # p
  PROVE  /\ (At(q, "wait") /\ ~ChildEnded(q)) \/ At(q, "ended")
         /\ ~At(q, "run") /\ ~At(q, "written") /\ ~At(q, "start")
<1>1. ~Turn(q)
  BY DEF OneTurn
<1> QED BY <1>1, PlaceOf DEF Turn

LEMMA TurnLives ==
  ASSUME NEW p \in Chain, Turn(p)
  PROVE  ~At(p, "ended") /\ (At(p, "wait") => ChildEnded(p))
BY DEF Turn, At, ChildEnded

\* The child of a waiting parent.
LEMMA ChildFacts ==
  ASSUME TypeOK, Kin, Waits, NEW p \in Chain, At(p, "wait")
  PROVE  /\ proc[p].child \in Children /\ proc[p].child > p
         /\ proc[proc[p].child].hand = <<p, proc[p].sequence>>
<1>1. proc[p].child \in p + 1 .. Len(proc) /\ proc[proc[p].child].hand = <<p, proc[p].sequence>>
  BY DEF Waits
<1>2. Len(proc) \in Nat /\ p \in 1 .. Len(proc)
  BY DEF TypeOK, Chain
<1> QED BY <1>1, <1>2 DEF Children

LEMMA KindsStay ==
  ASSUME NEW p \in Chain, Asking(p) \/ Handing(p) \/ Ending(p) \/ Preparing(p)
  PROVE  Stays(p)
BY DEF Asking, Handing, Ending, Preparing, Answers, Turn, Stays

LEMMA SameIdentities ==
  ASSUME NEW p \in Chain, Alone(p), Itself(p)
  PROVE  /\ Len(proc') = Len(proc) /\ Chain' = Chain /\ Children' = Children
         /\ \A q \in Chain : /\ proc'[q].kind = proc[q].kind /\ proc'[q].hand = proc[q].hand
                             /\ proc'[q].sequence = proc[q].sequence
                             /\ proc'[q].child = proc[q].child
         /\ \A q \in Chain : q # p => proc'[q].at = proc[q].at
BY DEF Alone, Itself, Chain, Children

LEMMA StaysKin ==
  ASSUME TypeOK, Kin, NEW p \in Chain, Stays(p)
  PROVE  Kin'
<1>1. /\ Len(proc') = Len(proc) /\ Children' = Children
      /\ \A q \in Chain : /\ proc'[q].kind = proc[q].kind /\ proc'[q].hand = proc[q].hand
                          /\ proc'[q].sequence = proc[q].sequence
  BY SameIdentities DEF Stays
<1>2. 1 \in Chain /\ \A q \in Children : q \in Chain /\ proc[q].hand[1] \in Chain
  BY ChainFacts
<1>3. Len(proc') >= 1 /\ proc'[1].hand = NoHandshake
  BY <1>1, <1>2 DEF Kin
<1>4. ASSUME NEW q \in Children
      PROVE  /\ proc'[q].kind = "lxe"
             /\ proc'[q].hand[1] \in 1 .. q - 1
             /\ proc'[q].hand[2] \in 1 .. proc'[proc'[q].hand[1]].sequence
  BY <1>1, <1>2 DEF Kin
<1>5. \A q, r \in Children : proc'[q].hand = proc'[r].hand => q = r
  BY <1>1, <1>2 DEF Kin
<1> QED BY <1>1, <1>3, <1>4, <1>5 DEF Kin

LEMMA StaysWaits ==
  ASSUME TypeOK, Kin, Waits, OneTurn, NEW p \in Chain, Stays(p)
  PROVE  Waits'
<1> USE DEF At
<1>1. /\ Len(proc') = Len(proc) /\ Chain' = Chain /\ Children' = Children
      /\ \A q \in Chain : /\ proc'[q].hand = proc[q].hand /\ proc'[q].sequence = proc[q].sequence
                          /\ proc'[q].child = proc[q].child
      /\ \A q \in Chain : q # p => proc'[q].at = proc[q].at
  BY SameIdentities DEF Stays
<1>2. ~At(p, "wait")' /\ Turn(p)
  BY DEF Stays, At
<1>3. ASSUME NEW q \in Chain, At(q, "wait")'
      PROVE  /\ proc'[q].child \in q + 1 .. Len(proc')
             /\ proc'[proc'[q].child].hand = <<q, proc'[q].sequence>>
  <2>1. At(q, "wait")
    BY <1>1, <1>2, <1>3
  <2>2. PICK c \in Chain : c = proc[q].child
    BY <2>1, ChildFacts, ChainFacts
  <2>3. c \in q + 1 .. Len(proc) /\ proc[c].hand = <<q, proc[q].sequence>>
    BY <2>1, <2>2 DEF Waits
  <2>4. proc'[q].child = c /\ proc'[c].hand = <<q, proc'[q].sequence>>
    BY <1>1, <2>2, <2>3
  <2> QED BY <1>1, <2>3, <2>4
<1>4. ASSUME NEW q \in Children, ~At(q, "ended")'
      PROVE  /\ proc'[proc'[q].hand[1]].at = "wait"
             /\ proc'[proc'[q].hand[1]].child = q
  <2>1. q \in Chain /\ proc[q].hand[1] \in Chain
    BY ChainFacts
  <2> PICK parent \in Chain : parent = proc[q].hand[1]
    BY <2>1
  <2>2. ~At(q, "ended")
    BY <1>1, <1>2, <1>4, <2>1, TurnLives
  <2>3. At(parent, "wait") /\ proc[parent].child = q
    BY <2>2 DEF Waits
  <2>4. parent # p
    BY <1>2, <2>2, <2>3, TurnLives DEF ChildEnded
  <2>5. proc'[parent].at = "wait" /\ proc'[parent].child = q
    BY <1>1, <2>3, <2>4
  <2>6. proc'[q].hand[1] = parent
    BY <1>1, <2>1
  <2> QED BY <2>5, <2>6
<1> QED BY <1>1, <1>3, <1>4 DEF Waits

\* When p has ended it is the turn of its parent, else it is still the turn of p.
LEMMA StaysTurn ==
  ASSUME TypeOK, Kin, Waits, OneTurn, NEW p \in Chain, Stays(p), NEW q \in Chain, Turn(q)'
  PROVE  IF At(p, "ended")'
         THEN p \in Children /\ q = proc[p].hand[1] /\ ChildEnded(q)' /\ proc'[q].child = p
         ELSE q = p
<1> USE DEF At
<1>1. /\ \A r \in Chain : proc'[r].child = proc[r].child
      /\ \A r \in Chain : r # p => proc'[r].at = proc[r].at
  BY SameIdentities DEF Stays
<1>2. ~At(p, "wait")' /\ Turn(p)
  BY DEF Stays, At
<1>3. CASE q = p
  BY <1>2, <1>3 DEF Turn, ChildEnded, At
<1>4. CASE q # p
  <2>1. ChildEnded(q)' /\ At(q, "wait") /\ ~ChildEnded(q)
    BY <1>1, <1>2, <1>4, OthersWait DEF Turn, ChildEnded
  <2>2. proc[q].child \in Children /\ proc[q].child \in Chain
        /\ proc[proc[q].child].hand = <<q, proc[q].sequence>>
    BY <2>1, ChildFacts, ChainFacts
  <2>3. proc[q].child = p
    BY <1>1, <2>1, <2>2 DEF ChildEnded
  <2> QED BY <1>1, <2>1, <2>2, <2>3 DEF ChildEnded
<1> QED BY <1>3, <1>4

LEMMA StaysOneTurn ==
  ASSUME TypeOK, Kin, Waits, OneTurn, NEW p \in Chain, Stays(p)
  PROVE  OneTurn'
<1> USE DEF At
<1>1. Chain' = Chain /\ \A r \in Chain : r # p => proc'[r].at = proc[r].at
  BY SameIdentities DEF Stays
<1>2. \A q, r \in Chain : Turn(q)' /\ Turn(r)' => q = r
  BY StaysTurn
<1>3. ASSUME At(1, "ended")', NEW q \in Chain, Turn(q)' PROVE FALSE
  <2>1. 1 = p
    BY <1>1, <1>3, ChainFacts DEF OneTurn, Stays
  <2>2. p \in Children
    BY <1>3, <2>1, StaysTurn
  <2> QED BY <2>1, <2>2 DEF Children
<1> QED BY <1>1, <1>2, <1>3 DEF OneTurn

LEMMA StaysRunning ==
  ASSUME TypeOK, Family, NEW p \in Chain,
         Asking(p) \/ Handing(p) \/ Ending(p) \/ Preparing(p)
  PROVE  Running'
<1> USE DEF At
<1>1. Stays(p)
  BY KindsStay
<1>2. /\ Len(proc') = Len(proc) /\ Chain' = Chain
      /\ \A q \in Chain : q # p => proc'[q] = proc[q]
      /\ proc'[p].hand = proc[p].hand
  BY <1>1, SameIdentities DEF Stays, Alone
<1>3. /\ Turn(p) /\ ~At(p, "ended")
      /\ \A q \in Chain : q # p => ~At(q, "run") /\ ~At(q, "written")
  BY <1>1, TurnLives, OthersWait DEF Stays, Family
<1>4. ASSUME NEW q \in Chain, proc'[q].at = "run" \/ proc'[q].at = "written"
      PROVE  q = p /\ q = Len(proc) /\ ~proc'[q].performs
  <2>1. q = p
    BY <1>2, <1>3, <1>4
  <2>2. At(p, "run")
    BY <1>4, <2>1 DEF Asking, Handing, Ending, Preparing
  <2>3. p = Len(proc) /\ ~proc[p].performs
    BY <2>2 DEF Family, Running
  <2> QED BY <1>4, <2>1, <2>3 DEF Asking, Handing, Ending, Preparing
<1>5. ASSUME NEW q \in Chain, proc'[q].at # "ended" PROVE proc'[q].code = NoCode
  <2>1. CASE q # p
    BY <1>2, <1>5, <2>1 DEF Family, Running
  <2>2. CASE q = p
    <3>1. proc[p].code = NoCode
      BY <1>3 DEF Family, Running
    <3> QED BY <1>5, <2>2, <3>1 DEF Asking, Handing, Ending, Preparing
  <2> QED BY <2>1, <2>2
<1>6. ASSUME NEW q \in Chain, proc'[q].at = "written"
      PROVE  proc'[q].hand # NoHandshake /\ RequestOf(q)' \in files'
  <2>1. q = p
    BY <1>4, <1>6
  <2>2. Handing(p)
    BY <1>6, <2>1 DEF Asking, Ending, Preparing
  <2> QED BY <1>2, <2>1, <2>2 DEF Handing, RequestOf
<1> QED BY <1>2, <1>4, <1>5, <1>6 DEF Running

LEMMA StaysFilesOf ==
  ASSUME TypeOK, Family, NEW p \in Chain,
         Asking(p) \/ Handing(p) \/ Ending(p) \/ Preparing(p)
  PROVE  FilesOf'
<1> USE DEF At
<1>1. Stays(p)
  BY KindsStay
<1>2. /\ Children' = Children /\ Children \subseteq Chain
      /\ \A q \in Chain : q # p => proc'[q] = proc[q]
      /\ proc'[p].hand = proc[p].hand
  BY <1>1, SameIdentities, ChainFacts DEF Stays, Alone, Family
<1>3. ~At(p, "ended")
  BY <1>1, TurnLives DEF Stays
<1> SUFFICES ASSUME NEW f \in files'
             PROVE  \E q \in Children : /\ proc'[q].hand = f.file /\ proc'[q].asked = f.tail
                                        /\ proc'[q].at = "written" \/ proc'[q].at = "ended"
                                        /\ proc'[q].code = Magic => proc'[q].performs
  BY <1>2 DEF FilesOf
<1>4. CASE f \in files
  <2>1. PICK q \in Children : /\ proc[q].hand = f.file /\ proc[q].asked = f.tail
                              /\ At(q, "written") \/ At(q, "ended")
                              /\ proc[q].code = Magic => proc[q].performs
    BY <1>4 DEF Family, FilesOf
  <2>2. CASE q # p
    BY <1>2, <2>1, <2>2
  <2>3. CASE q = p
    <3>1. Ending(p) /\ At(p, "written")
      BY <1>3, <2>1, <2>3 DEF Asking, Handing, Preparing, Answers, ChildEnded
    <3>2. ~ChildEnded(p)
      BY <3>1 DEF ChildEnded
    <3>3. /\ proc'[p].at = "ended" /\ proc'[p].asked = proc[p].asked
          /\ proc'[p].code = Magic => proc'[p].performs
      BY <3>1 DEF Ending
    <3> QED BY <1>2, <2>1, <2>3, <3>3
  <2> QED BY <2>2, <2>3
<1>5. CASE f \notin files
  <2>1. Handing(p)
    BY <1>5 DEF Asking, Ending, Preparing, Cleans, Removed
  <2>2. f = [file |-> proc[p].hand, nonce |-> proc[p].hand, tail |-> proc[p].asked]
    BY <1>5, <2>1 DEF Handing
  <2>3. proc[p].hand # NoHandshake /\ proc'[p].at = "written" /\ proc'[p].asked = proc[p].asked
    BY <2>1 DEF Handing
  <2>4. p \in Children
    BY <2>3, ChainFacts DEF Family, Kin
  <2>5. proc'[p].code = NoCode
    BY <1>3, <2>1 DEF Handing, Family, Running
  <2> QED BY <1>2, <2>2, <2>3, <2>4, <2>5, RelaunchAssumption
<1> QED BY <1>4, <1>5

LEMMA StaysFamily ==
  ASSUME TypeOK, Family, NEW p \in Chain,
         Asking(p) \/ Handing(p) \/ Ending(p) \/ Preparing(p)
  PROVE  Family'
BY KindsStay, StaysKin, StaysWaits, StaysOneTurn, StaysRunning, StaysFilesOf DEF Family

\* A parent starts its next child: who is there afterwards.
LEMMA BranchFacts ==
  ASSUME TypeOK, Family, NEW p \in Chain, Branching(p), NEW c, c = Len(proc) + 1
  PROVE  /\ Len(proc') = c /\ Chain' = Chain \cup {c} /\ Children' = Children \cup {c}
         /\ c \in Nat /\ c \notin Chain /\ c >= 2 /\ p < c
         /\ \A q \in Chain : q # p => proc'[q] = proc[q]
         /\ \A q \in Chain : proc'[q].kind = proc[q].kind /\ proc'[q].hand = proc[q].hand
         /\ \A q \in Chain : q # p => ~Turn(q)
         /\ proc'[p].at = "wait" /\ proc'[p].child = c
         /\ proc'[p].sequence = proc[p].sequence + 1 /\ proc[p].sequence \in Nat
         /\ proc'[c].kind = "lxe" /\ proc'[c].at = "run"
         /\ proc'[c].hand = <<p, proc[p].sequence + 1>> /\ ~proc'[c].performs
         /\ proc'[c].code = NoCode /\ proc'[c].next = NoTail /\ proc'[c].recent = <<>>
<1>1. Len(proc) \in Nat /\ Len(proc) >= 1 /\ Chain \subseteq Nat
  BY ChainFacts DEF Family
<1>2. Len(proc') = c /\ c \in Nat /\ c >= 2 /\ p < c
  BY <1>1 DEF Branching, Chain
<1>3. Chain' = Chain \cup {c} /\ Children' = Children \cup {c} /\ c \notin Chain
  BY <1>1, <1>2 DEF Chain, Children
<1>4. proc[p].sequence \in Nat
  BY ProcessType DEF Processes
<1>5. Turn(p)
  BY DEF Branching, Turn
<1>6. \A q \in Chain : q # p => ~Turn(q)
  BY <1>5 DEF Family, OneTurn
<1>7. proc'[c] = Process("lxe", "run", <<p, proc[p].sequence + 1>>)
  BY DEF Branching
<1> QED BY <1>2, <1>3, <1>4, <1>6, <1>7 DEF Branching, Process

LEMMA BranchingKin ==
  ASSUME TypeOK, Family, NEW p \in Chain, Branching(p)
  PROVE  Kin'
<1> PICK c : c = Len(proc) + 1
  OBVIOUS
<1>1. /\ Len(proc') = c /\ Children' = Children \cup {c}
      /\ c \in Nat /\ c \notin Chain /\ c >= 2 /\ p < c
      /\ \A q \in Chain : q # p => proc'[q] = proc[q]
      /\ \A q \in Chain : proc'[q].kind = proc[q].kind /\ proc'[q].hand = proc[q].hand
      /\ proc'[p].sequence = proc[p].sequence + 1 /\ proc[p].sequence \in Nat
      /\ proc'[c].kind = "lxe" /\ proc'[c].hand = <<p, proc[p].sequence + 1>>
  BY BranchFacts
<1>2. /\ 1 \in Chain /\ Chain \subseteq Nat /\ Children \subseteq Chain
      /\ \A q \in Children : proc[q].hand[1] \in Chain
  BY ChainFacts DEF Family
<1>3. \A q \in Chain : proc'[q].sequence \in {proc[q].sequence, proc[q].sequence + 1}
                       /\ proc[q].sequence \in Nat
  BY <1>1, ProcessType DEF Processes
<1>4. Len(proc') >= 1 /\ proc'[1].hand = NoHandshake
  BY <1>1, <1>2 DEF Family, Kin
<1>5. ASSUME NEW q \in Children
      PROVE  /\ proc'[q].kind = "lxe" /\ proc'[q].hand[1] \in 1 .. q - 1
             /\ proc'[q].hand[2] \in 1 .. proc'[proc'[q].hand[1]].sequence
             /\ proc'[q].hand # proc'[c].hand
  <2> PICK m \in Chain : m = proc[q].hand[1]
    BY <1>2
  <2>1. proc[q].kind = "lxe" /\ m \in 1 .. q - 1 /\ proc[q].hand[2] \in 1 .. proc[m].sequence
    BY DEF Family, Kin
  <2>2. proc'[q].kind = "lxe" /\ proc'[q].hand = proc[q].hand
    BY <1>1, <1>2, <2>1
  <2>3. proc[q].hand[2] \in 1 .. proc'[m].sequence
    BY <1>3, <2>1
  <2>4. ASSUME proc[q].hand = <<p, proc[p].sequence + 1>> PROVE FALSE
    <3>1. m = p /\ proc[q].hand[2] = proc[p].sequence + 1
      BY <2>4
    <3> QED BY <1>1, <2>1, <3>1
  <2> QED BY <1>1, <2>1, <2>2, <2>3, <2>4
<1>6. /\ proc'[c].hand[1] \in 1 .. c - 1
      /\ proc'[c].hand[2] \in 1 .. proc'[proc'[c].hand[1]].sequence
  <2>1. proc'[c].hand[1] = p /\ proc'[c].hand[2] = proc[p].sequence + 1
    BY <1>1
  <2>2. p \in 1 .. c - 1
    BY <1>1, <1>2 DEF Chain
  <2> QED BY <1>1, <2>1, <2>2
<1>7. ASSUME NEW q \in Children', NEW r \in Children', proc'[q].hand = proc'[r].hand
      PROVE  q = r
  BY <1>1, <1>2, <1>5, <1>7 DEF Family, Kin
<1> QED BY <1>1, <1>4, <1>5, <1>6, <1>7 DEF Kin

LEMMA BranchingWaits ==
  ASSUME TypeOK, Family, NEW p \in Chain, Branching(p)
  PROVE  Waits'
<1> USE DEF At
<1> PICK c : c = Len(proc) + 1
  OBVIOUS
<1>1. /\ Len(proc') = c /\ Chain' = Chain \cup {c} /\ Children' = Children \cup {c}
      /\ c \in Nat /\ c \notin Chain /\ p < c
      /\ \A q \in Chain : q # p => proc'[q] = proc[q]
      /\ \A q \in Chain : proc'[q].hand = proc[q].hand
      /\ proc'[p].at = "wait" /\ proc'[p].child = c
      /\ proc'[p].sequence = proc[p].sequence + 1
      /\ proc'[c].at = "run" /\ proc'[c].hand = <<p, proc[p].sequence + 1>>
  BY BranchFacts
<1>2. /\ Len(proc) \in Nat /\ Children \subseteq Chain /\ Chain \subseteq Nat
      /\ \A q \in Children : proc[q].hand[1] \in Chain /\ proc[q].hand[1] # q
  BY ChainFacts DEF Family
<1>3. ASSUME NEW q \in Chain', proc'[q].at = "wait"
      PROVE  /\ proc'[q].child \in q + 1 .. Len(proc')
             /\ proc'[proc'[q].child].hand = <<q, proc'[q].sequence>>
  <2>1. CASE q = p
    BY <1>1, <1>2, <2>1
  <2>2. CASE q # p
    <3>1. q \in Chain /\ proc'[q] = proc[q]
      BY <1>1, <1>3, <2>2
    <3>2. PICK d \in Chain : d = proc[q].child
      BY <1>2, <1>3, <3>1, ChildFacts DEF Family
    <3>3. d \in q + 1 .. Len(proc) /\ proc[d].hand = <<q, proc[q].sequence>>
      BY <1>3, <3>1, <3>2 DEF Family, Waits
    <3>4. proc'[d].hand = <<q, proc'[q].sequence>> /\ proc'[q].child = d
      BY <1>1, <3>1, <3>2, <3>3
    <3> QED BY <1>1, <1>2, <3>3, <3>4
  <2> QED BY <2>1, <2>2
<1>4. ASSUME NEW q \in Children', proc'[q].at # "ended"
      PROVE  /\ proc'[proc'[q].hand[1]].at = "wait"
             /\ proc'[proc'[q].hand[1]].child = q
  <2>1. CASE q = c
    <3>1. proc'[q].hand[1] = p
      BY <1>1, <2>1
    <3> QED BY <1>1, <2>1, <3>1
  <2>2. CASE q # c
    <3>1. q \in Children /\ q \in Chain
      BY <1>1, <1>2, <2>2
    <3> PICK parent \in Chain : parent = proc[q].hand[1]
      BY <1>2, <3>1
    <3>2. At(p, "start")
      BY DEF Branching
    <3>3. proc[q].at # "ended"
      BY <1>1, <1>4, <3>1, <3>2
    <3>4. At(parent, "wait") /\ proc[parent].child = q
      BY <3>1, <3>3 DEF Family, Waits
    <3>5. proc'[parent] = proc[parent] /\ proc'[q].hand[1] = parent
      BY <1>1, <3>1, <3>2, <3>4
    <3> QED BY <3>4, <3>5
  <2> QED BY <2>1, <2>2
<1> QED BY <1>1, <1>3, <1>4 DEF Waits

\* Afterwards it is the child's turn.
LEMMA BranchingTurn ==
  ASSUME TypeOK, Family, NEW p \in Chain, Branching(p)
  PROVE  (\A q \in Chain' : Turn(q)' => q = Len(proc) + 1) /\ ~At(1, "ended")'
<1> USE DEF At
<1> PICK c : c = Len(proc) + 1
  OBVIOUS
<1>1. /\ Chain' = Chain \cup {c}
      /\ \A q \in Chain : q # p => proc'[q] = proc[q]
      /\ \A q \in Chain : q # p => ~Turn(q)
      /\ proc'[p].at = "wait" /\ proc'[p].child = c
      /\ proc'[c].at = "run"
  BY BranchFacts
<1>2. 1 \in Chain /\ Children \subseteq Chain
  BY ChainFacts DEF Family
<1>3. ASSUME NEW q \in Chain, q # p, Turn(q)' PROVE FALSE
  <2>1. ~Turn(q) /\ proc'[q] = proc[q]
    BY <1>1, <1>3
  <2>2. proc[q].at = "wait" /\ proc'[proc[q].child].at = "ended"
    BY <1>3, <2>1 DEF Turn, ChildEnded
  <2>3. PICK d \in Chain : d = proc[q].child
    BY <1>2, <2>2, ChildFacts DEF Family
  <2>4. proc[d].at = "ended"
    BY <1>1, <2>2, <2>3
  <2> QED BY <2>1, <2>2, <2>3, <2>4 DEF Turn, ChildEnded
<1>4. ~Turn(p)'
  BY <1>1 DEF Turn, ChildEnded
<1>5. proc'[1].at # "ended"
  <2>1. Turn(p)
    BY DEF Branching, Turn
  <2>2. ~At(1, "ended")
    BY <2>1 DEF Family, OneTurn
  <2> QED BY <1>1, <1>2, <2>2
<1> QED BY <1>1, <1>3, <1>4, <1>5

LEMMA BranchingFamily ==
  ASSUME TypeOK, Family, NEW p \in Chain, Branching(p)
  PROVE  Family'
<1> USE DEF At
<1> PICK c : c = Len(proc) + 1
  OBVIOUS
<1>1. /\ Len(proc') = c /\ Chain' = Chain \cup {c} /\ Children' = Children \cup {c}
      /\ \A q \in Chain : q # p => proc'[q] = proc[q]
      /\ \A q \in Chain : q # p => ~Turn(q)
      /\ proc'[p].at = "wait"
      /\ proc'[c].at = "run" /\ ~proc'[c].performs /\ proc'[c].code = NoCode
  BY BranchFacts
<1>2. OneTurn'
  BY BranchingTurn DEF OneTurn
<1>3. Running'
  <2>1. ASSUME NEW q \in Chain PROVE proc'[q].at # "run" /\ proc'[q].at # "written"
    BY <1>1 DEF Turn
  <2>2. ASSUME NEW q \in Chain, proc'[q].at # "ended" PROVE proc'[q].code = NoCode
    <3>1. proc[p].code = NoCode /\ proc'[p].code = proc[p].code
      BY DEF Branching, Family, Running
    <3> QED BY <1>1, <2>2, <3>1 DEF Family, Running
  <2> QED BY <1>1, <2>1, <2>2 DEF Running
<1>4. FilesOf'
  <2>1. files' = files /\ At(p, "start") /\ Children \subseteq Chain
    BY ChainFacts DEF Branching, Family
  <2>2. ASSUME NEW f \in files
        PROVE  \E q \in Children : /\ proc'[q].hand = f.file /\ proc'[q].asked = f.tail
                                   /\ proc'[q].at = "written" \/ proc'[q].at = "ended"
                                   /\ proc'[q].code = Magic => proc'[q].performs
    <3>1. PICK q \in Children : /\ proc[q].hand = f.file /\ proc[q].asked = f.tail
                                /\ At(q, "written") \/ At(q, "ended")
                                /\ proc[q].code = Magic => proc[q].performs
      BY DEF Family, FilesOf
    <3>2. proc'[q] = proc[q]
      BY <1>1, <2>1, <3>1
    <3> QED BY <3>1, <3>2
  <2> QED BY <1>1, <2>1, <2>2 DEF FilesOf
<1> QED BY <1>2, <1>3, <1>4, BranchingKin, BranchingWaits DEF Family

-----------------------------------------------------------------------------
(* The invariant *)

IInv == TypeOK /\ Family

LEMMA InitIInv == Init => IInv
<1> SUFFICES ASSUME Init PROVE IInv
  OBVIOUS
<1> PICK r \in {Process("launcher", "start", NoHandshake), Process("lxe", "run", NoHandshake)} :
      proc = <<r>>
  BY DEF Init
<1>1. r \in Processes
  <2>1. NoHandshake \in Handshakes
    BY DEF NoHandshake, Handshakes
  <2> QED BY <2>1, NewProcessType
<1>2. TypeOK
  BY <1>1, RelaunchAssumption DEF Init, TypeOK
<1>3. /\ Len(proc) = 1 /\ Chain = {1} /\ Children = {} /\ proc[1] = r /\ files = {}
  BY DEF Chain, Children, Init
<1>4. r.hand = NoHandshake /\ r.at \in {"start", "run"} /\ r.code = NoCode /\ ~r.performs
  BY DEF Process
<1>5. Kin /\ Waits /\ OneTurn /\ Running /\ FilesOf
  BY <1>3, <1>4 DEF Kin, Waits, OneTurn, Running, FilesOf, At
<1> QED BY <1>2, <1>5 DEF IInv, Family

LEMMA StepMoves ==
  ASSUME IInv, NEW p \in Chain, Programs(p) \/ System(p)
  PROVE  TypeOK' /\ Moves(p)
<1>1. CASE Programs(p)
  BY <1>1, RequestMoves, ExitMoves, PerformMoves, PerformHereMoves DEF IInv, Programs
<1>2. CASE PassThrough(p)
  <2>1. proc[p].child \in Chain
    BY <1>2, ChildFacts, ChainFacts DEF IInv, Family, PassThrough, ChildEnded
  <2> QED BY <1>2, <2>1, PassThroughMoves DEF IInv
<1>3. CASE System(p) /\ ~PassThrough(p)
  BY <1>3, ExitMagicMoves, StartsMove, FailuresMove, GoesOnMoves DEF IInv, System
<1> QED BY <1>1, <1>2, <1>3

\* A step of the system is one of a process, one of the clock, or none.
LEMMA StepKinds ==
  ASSUME IInv, [Next]_vars
  PROVE  \/ TypeOK' /\ \E p \in Chain : Moves(p)
         \/ Pass
         \/ UNCHANGED vars
BY StepMoves DEF Next, Over, Chain

LEMMA MovesFamily ==
  ASSUME IInv, NEW p \in Chain, Moves(p)
  PROVE  Family'
BY StaysFamily, BranchingFamily DEF IInv, Moves

LEMMA SameFamily ==
  ASSUME IInv, UNCHANGED <<proc, files>>
  PROVE  Family'
BY DEF IInv, Family, Kin, Waits, OneTurn, Running, FilesOf, RequestOf, Turn, ChildEnded, At,
       Chain, Children

LEMMA IInvKept ==
  ASSUME IInv, [Next]_vars
  PROVE  IInv'
<1>1. CASE TypeOK' /\ \E p \in Chain : Moves(p)
  BY <1>1, MovesFamily DEF IInv
<1>2. CASE Pass
  <2>1. TypeOK'
    BY <1>2 DEF IInv, TypeOK, Pass
  <2> QED BY <1>2, <2>1, SameFamily DEF IInv, Pass
<1>3. CASE UNCHANGED vars
  <2>1. TypeOK'
    BY <1>3 DEF IInv, TypeOK, vars
  <2> QED BY <1>3, <2>1, SameFamily DEF IInv, vars
<1> QED BY <1>1, <1>2, <1>3, StepKinds

LEMMA Invariant == Spec => []IInv
BY InitIInv, IInvKept, PTL DEF Spec

\* The types: every process and every handshake file is well-formed.
THEOREM TypeCorrect == Spec => []TypeOK
<1>1. IInv => TypeOK
  BY DEF IInv
<1> QED BY <1>1, Invariant, PTL

\* The family: every process but the first has a parent before it and a handshake of its
\* own, a parent waits exactly as long as its last child lives, one process at a time can
\* do anything, and a handshake file holds what its child asked for.
THEOREM OneProcessAtATime == Spec => []Family
<1>1. IInv => Family
  BY DEF IInv
<1> QED BY <1>1, Invariant, PTL

-----------------------------------------------------------------------------
(* What a program asked for is what the next one gets *)

\* The request in a handshake file is the one of the child with this handshake.
LEMMA WrittenFacts ==
  ASSUME IInv, NEW p \in Chain, At(p, "wait"), Asks(p), NEW f \in Written(p)
  PROVE  proc[proc[p].child].performs /\ f.tail = proc[proc[p].child].asked
<1>1. PICK c \in Children : c = proc[p].child
  BY ChildFacts DEF IInv, Family
<1>2. proc[c].hand = <<p, proc[p].sequence>>
  BY <1>1, ChildFacts DEF IInv, Family
<1>3. f \in files /\ f.file = <<p, proc[p].sequence>>
  BY DEF Written
<1>4. PICK q \in Children : /\ proc[q].hand = f.file /\ proc[q].asked = f.tail
                            /\ proc[q].code = Magic => proc[q].performs
  BY <1>3 DEF IInv, Family, FilesOf
<1>5. q = c
  BY <1>2, <1>3, <1>4 DEF IInv, Family, Kin
<1>6. proc[c].code = Magic
  BY <1>1 DEF Asks
<1> QED BY <1>1, <1>4, <1>5, <1>6

\* A program is followed by another one only if it performed a relaunch to its end, and
\* the next one gets the arguments of its last request: an action property of module
\* Relaunch (perform, run_nested and launcher.c read what they are given).
THEOREM RelaunchesTheRequest == Spec => RelaunchesWhatWasAsked
<1> DEFINE Asked(p) == (proc[p].at # "start" /\ proc'[p].at = "start") =>
                         IF proc[p].at = "wait"
                         THEN /\ proc[proc[p].child].performs
                              /\ proc'[p].next = proc[proc[p].child].asked
                         ELSE proc'[p].next = proc[p].asked
<1>1. ASSUME IInv, [Next]_vars, NEW p \in Chain PROVE Asked(p)
  <2> SUFFICES ASSUME proc[p].at # "start", proc'[p].at = "start" PROVE Asked(p)
    OBVIOUS
  <2>1. PICK q \in Chain : Moves(q)
    BY <1>1, StepKinds DEF Pass, vars
  <2>2. q = p
    BY <2>1 DEF Moves, Asking, Handing, Ending, Preparing, Branching, Alone
  <2>3. Answers(p)
    BY <2>1, <2>2 DEF Moves, Asking, Handing, Ending, Preparing, Branching
  <2>4. CASE At(p, "run")
    BY <2>3, <2>4 DEF Answers, At, ChildEnded
  <2>5. CASE ~At(p, "run")
    <3>1. PICK f \in Written(p) : proc'[p].next = f.tail /\ ChildEnded(p) /\ Asks(p)
      BY <2>3, <2>5 DEF Answers
    <3>2. At(p, "wait")
      BY <3>1 DEF ChildEnded
    <3> QED BY <1>1, <3>1, <3>2, WrittenFacts DEF At
  <2> QED BY <2>4, <2>5
<1>2. IInv /\ [Next]_vars => [\A p \in 1 .. Len(proc) : Asked(p)]_vars
  BY <1>1 DEF Chain
<1> QED BY <1>2, Invariant, PTL DEF Spec, RelaunchesWhatWasAsked

-----------------------------------------------------------------------------
(* No request is lost silently *)

\* The last process performed a relaunch that fits into a handshake file.
LastFits == proc[Len(proc)].performs /\ proc[Len(proc)].asked \notin LongTails

\* On its way up, an end is either the request of the last process or a failure.
NotLost ==
  LastFits => /\ \A p \in Chain : ChildEnded(p) => proc[proc[p].child].code = Failed \/ Asks(p)
              /\ At(1, "ended") => proc[1].code = Failed

\* An end that is a failure or a request goes on being one.
LEMMA EndingTells ==
  ASSUME IInv, NEW p \in Chain, Ending(p),
         proc'[p].code = Failed \/ p # 1,
         proc'[p].code = Failed \/ \A q \in Chain : q = proc[p].hand[1] => Asks(q)'
  PROVE  NotLost'
<1>1. Stays(p) /\ TypeOK /\ Kin /\ Waits /\ OneTurn
  BY KindsStay DEF IInv, Family
<1>2. Chain' = Chain /\ \A q \in Chain : q # p => proc'[q] = proc[q]
  BY <1>1, SameIdentities DEF Stays, Alone
<1>3. ASSUME NEW q \in Chain, ChildEnded(q)'
      PROVE  proc'[proc'[q].child].code = Failed \/ Asks(q)'
  <2>1. Turn(q)'
    BY <1>3 DEF Turn
  <2>2. At(p, "ended")'
    BY DEF Ending, At
  <2>3. p \in Children /\ q = proc[p].hand[1] /\ proc'[q].child = p
    BY <1>1, <2>1, <2>2, StaysTurn
  <2> QED BY <2>3
<1>4. ASSUME At(1, "ended")' PROVE proc'[1].code = Failed
  <2>1. 1 \in Chain
    BY <1>1, ChainFacts
  <2>2. 1 = p
    BY <1>1, <1>2, <1>4, <2>1 DEF OneTurn, Stays, At
  <2> QED BY <2>2
<1> QED BY <1>2, <1>3, <1>4 DEF NotLost

LEMMA EndingNotLost ==
  ASSUME IInv, NotLost, NEW p \in Chain, Ending(p)
  PROVE  NotLost'
<1> USE DEF At
<1>1. Stays(p) /\ TypeOK /\ Kin /\ Waits /\ OneTurn /\ Running
  BY KindsStay DEF IInv, Family
<1>2. /\ Len(proc') = Len(proc) /\ Len(proc) \in Chain
      /\ \A q \in Chain : q # p => proc'[q] = proc[q]
      /\ \A q \in Chain : /\ proc'[q].hand = proc[q].hand /\ proc'[q].child = proc[q].child
                          /\ proc'[q].sequence = proc[q].sequence
  BY <1>1, SameIdentities, ChainFacts DEF Stays, Alone, Chain
<1> SUFFICES ASSUME LastFits' PROVE NotLost'
  BY DEF NotLost
<1>3. CASE At(p, "run") \/ (At(p, "written") /\ proc'[p].performs = proc[p].performs)
  <2>1. p = Len(proc) /\ ~proc[p].performs
    BY <1>1, <1>3 DEF Running
  <2>2. proc'[p].performs = proc[p].performs
    BY <1>3 DEF Ending
  <2> QED BY <1>2, <2>1, <2>2 DEF LastFits
<1>4. CASE At(p, "written") /\ proc'[p].performs # proc[p].performs
  <2>1. proc'[p].code = Magic /\ files' = files /\ proc'[p].asked = proc[p].asked
    BY <1>4 DEF Ending, Cleans, ChildEnded
  <2>2. p = Len(proc) /\ RequestOf(p) \in files /\ proc[p].hand # NoHandshake
    BY <1>1, <1>4 DEF Running
  <2>3. p \in Children /\ p # 1
    BY <1>1, <2>2, ChainFacts DEF Kin
  <2> PICK q \in Chain : q = proc[p].hand[1]
    BY <1>1, <2>3, ChainFacts
  <2>4. At(q, "wait") /\ proc[q].child = p
    BY <1>1, <1>4, <2>3 DEF Waits
  <2>5. proc[p].hand = <<q, proc[q].sequence>>
    BY <1>1, <2>4, ChildFacts
  <2>6. proc[p].asked \notin LongTails
    BY <1>2, <2>1, <2>2 DEF LastFits
  <2>7. RequestOf(p) \in Written(q)'
    BY <1>2, <2>1, <2>2, <2>5, <2>6 DEF Written, RequestOf
  <2>8. Asks(q)'
    BY <1>2, <2>1, <2>4, <2>7 DEF Asks
  <2> QED BY <2>3, <2>8, EndingTells
<1>5. CASE At(p, "start")
  <2>1. proc'[p].code = Failed
    BY <1>5 DEF Ending
  <2> QED BY <2>1, EndingTells
<1>6. CASE ChildEnded(p)
  <2>1. proc'[p].code = Failed \/ (~Asks(p) /\ proc'[p].code = proc[proc[p].child].code)
    BY <1>6 DEF Ending
  <2>2. p # Len(proc)
    <3>1. proc[p].child \in Children /\ proc[p].child > p
      BY <1>1, <1>6, ChildFacts DEF ChildEnded
    <3> QED BY <1>1, <3>1, ChainFacts DEF Children
  <2>3. LastFits
    BY <1>2, <2>2 DEF LastFits
  <2>4. proc'[p].code = Failed
    BY <1>6, <2>1, <2>3 DEF NotLost
  <2> QED BY <2>4, EndingTells
<1> QED BY <1>1, <1>3, <1>4, <1>5, <1>6 DEF Stays, Turn

LEMMA MovesNotLost ==
  ASSUME IInv, NotLost, NEW p \in Chain, Moves(p)
  PROVE  NotLost'
<1> USE DEF At
<1>1. TypeOK /\ Kin /\ Waits /\ OneTurn /\ Running
  BY DEF IInv, Family
<1>2. CASE Asking(p) \/ Handing(p)
  <2>1. p = Len(proc) /\ ~proc[p].performs
    BY <1>1, <1>2 DEF Asking, Handing, Running
  <2>2. proc'[p].performs = proc[p].performs /\ Len(proc') = Len(proc)
    BY <1>2 DEF Asking, Handing, Alone
  <2> QED BY <2>1, <2>2 DEF NotLost, LastFits
<1>3. CASE Preparing(p)
  <2>1. Stays(p) /\ proc'[p].at = "start"
    BY <1>3, KindsStay DEF Preparing
  <2>2. \A q \in Chain : Turn(q)' => q = p
    BY <1>1, <2>1, StaysTurn
  <2>3. \A q \in Chain : ~ChildEnded(q)'
    BY <2>1, <2>2 DEF Turn, ChildEnded
  <2>4. Chain' = Chain /\ 1 \in Chain
    BY <1>1, <2>1, SameIdentities, ChainFacts DEF Stays
  <2>5. OneTurn' /\ Turn(p)'
    BY <1>1, <2>1, StaysOneTurn DEF Turn
  <2>6. proc'[1].at # "ended"
    BY <2>4, <2>5 DEF OneTurn
  <2> QED BY <2>3, <2>4, <2>6 DEF NotLost
<1>4. CASE Branching(p)
  <2>1. Len(proc') = Len(proc) + 1 /\ ~proc'[Len(proc) + 1].performs
    BY <1>4, BranchFacts DEF IInv
  <2> QED BY <2>1 DEF NotLost, LastFits
<1> QED BY <1>2, <1>3, <1>4, EndingNotLost DEF Moves

\* "The relaunch would be lost silently" (perform): when everything has ended and the
\* first process reports no failure, the last program asked for nothing, or for more than
\* a handshake file holds.
THEOREM FittingRequestsAreNotLost == Spec => []FittingNeverLost
<1>1. Init => NotLost
  BY DEF Init, NotLost, LastFits, Process
<1>2. IInv /\ NotLost /\ [Next]_vars => NotLost'
  <2> SUFFICES ASSUME IInv, NotLost, [Next]_vars PROVE NotLost'
    OBVIOUS
  <2>1. CASE \E p \in Chain : Moves(p)
    BY <2>1, MovesNotLost
  <2>2. CASE Pass \/ UNCHANGED vars
    BY <2>2 DEF Pass, vars, NotLost, LastFits, ChildEnded, Asks, Written, At, Chain
  <2> QED BY <2>1, <2>2, StepKinds
<1>3. IInv /\ NotLost => FittingNeverLost
  BY DEF NotLost, LastFits, FittingNeverLost, LostSilently
<1> QED BY <1>1, <1>2, <1>3, Invariant, PTL DEF Spec

-----------------------------------------------------------------------------
(* Never a chain of parents *)

\* Those that are a parent, or have been: the first process, and who started the next
\* program in place of its own parent.
Owner(p) == p = 1 \/ proc[p].next # NoTail
Owners == {p \in Chain : Owner(p)}

Parents == /\ \A p \in Chain : At(p, "start") \/ At(p, "wait") => Owner(p)
           /\ IsFiniteSet(Owners) /\ Cardinality(Owners) <= lost + 1

\* Nobody stops being one, and one more there is only with a handshake that was lost.
LEMMA MovesOwners ==
  ASSUME IInv, Parents, NEW p \in Chain, Moves(p)
  PROVE  /\ \A q \in Chain : q \in Chain' /\ (Owner(q) => Owner(q)')
         /\ \A q \in Chain' : At(q, "start")' \/ At(q, "wait")' => Owner(q)'
         /\ \/ Owners' = Owners /\ lost' = lost
            \/ Owners' = Owners \cup {p} /\ lost' = lost + 1
         /\ Preparing(p) \/ Branching(p) => Owner(p)'
<1> USE DEF At
<1>1. TypeOK /\ Kin /\ Waits /\ OneTurn /\ Family
  BY DEF IInv, Family
<1>2. CASE Branching(p)
  <2> PICK c : c = Len(proc) + 1
    OBVIOUS
  <2>1. /\ Chain' = Chain \cup {c} /\ c \notin Chain /\ c >= 2 /\ c \in Nat
        /\ \A q \in Chain : q # p => proc'[q] = proc[q]
        /\ proc'[c].at = "run" /\ proc'[c].next = NoTail
    BY <1>1, <1>2, BranchFacts
  <2>2. proc'[p].next = proc[p].next /\ lost' = lost /\ Owner(p)
    BY <1>2 DEF Branching, Parents
  <2>3. \A q \in Chain : Owner(q)' <=> Owner(q)
    BY <2>1, <2>2 DEF Owner
  <2>4. ~Owner(c)'
    BY <2>1 DEF Owner
  <2>5. Owners' = Owners
    BY <2>1, <2>3, <2>4 DEF Owners
  <2>6. ASSUME NEW q \in Chain', proc'[q].at = "start" \/ proc'[q].at = "wait" PROVE Owner(q)'
    <3>1. q \in Chain
      BY <2>1, <2>6
    <3>2. CASE q = p
      BY <2>2, <2>3, <3>2
    <3>3. CASE q # p
      BY <2>1, <2>3, <2>6, <3>1, <3>3 DEF Parents
    <3> QED BY <3>2, <3>3
  <2> QED BY <2>1, <2>2, <2>3, <2>5, <2>6
<1>3. CASE ~Branching(p)
  <2>1. Asking(p) \/ Handing(p) \/ Ending(p) \/ Preparing(p)
    BY <1>3 DEF Moves
  <2>2. Chain' = Chain /\ \A q \in Chain : q # p => proc'[q] = proc[q]
    BY <2>1, KindsStay, SameIdentities DEF Stays, Alone
  <2>3. \A q \in Chain : q # p => (Owner(q)' <=> Owner(q))
    BY <2>2 DEF Owner
  <2>4. CASE Preparing(p)
    <3>1. Owner(p)'
      BY <2>4 DEF Preparing, Owner
    <3>2. (lost' = lost /\ Owner(p)) \/ lost' = lost + 1
      <4>1. CASE At(p, "run") /\ proc[p].hand = NoHandshake
        BY <1>1, <4>1, ChainFacts, <2>4 DEF Preparing, Owner
      <4>2. CASE ChildEnded(p)
        BY <2>4, <4>2 DEF Preparing, Parents, ChildEnded
      <4> QED BY <2>4, <4>1, <4>2 DEF Preparing
    <3>3. Owners' = Owners \cup {p}
      BY <2>2, <2>3, <3>1 DEF Owners
    <3>4. Owner(p) => Owners' = Owners
      BY <3>3 DEF Owners
    <3>5. \A q \in Chain : proc'[q].at = "start" \/ proc'[q].at = "wait" => Owner(q)'
      BY <2>2, <2>3, <3>1 DEF Parents
    <3> QED BY <2>2, <2>3, <3>1, <3>2, <3>3, <3>4, <3>5
  <2>5. CASE ~Preparing(p)
    <3>1. proc'[p].next = proc[p].next /\ lost' = lost /\ proc'[p].at \notin {"start", "wait"}
      BY <2>1, <2>5 DEF Asking, Handing, Ending
    <3>2. \A q \in Chain : Owner(q)' <=> Owner(q)
      BY <2>3, <3>1 DEF Owner
    <3>3. Owners' = Owners
      BY <2>2, <3>2 DEF Owners
    <3>4. \A q \in Chain : proc'[q].at = "start" \/ proc'[q].at = "wait" => Owner(q)'
      BY <2>2, <3>1, <3>2 DEF Parents
    <3> QED BY <1>3, <2>2, <2>5, <3>1, <3>2, <3>3, <3>4
  <2> QED BY <2>4, <2>5
<1> QED BY <1>2, <1>3

LEMMA ParentsKept ==
  ASSUME IInv, Parents, [Next]_vars
  PROVE  Parents'
<1>1. CASE \E p \in Chain : Moves(p)
  <2> PICK p \in Chain : Moves(p)
    BY <1>1
  <2>1. lost \in Nat /\ Cardinality(Owners) \in Nat
    BY FS_CardinalityType, RelaunchAssumption DEF IInv, TypeOK, Parents
  <2>2. IsFiniteSet(Owners') /\ Cardinality(Owners') <= lost' + 1
    <3>1. CASE Owners' = Owners /\ lost' = lost
      BY <3>1 DEF Parents
    <3>2. CASE Owners' = Owners \cup {p} /\ lost' = lost + 1
      <4>1. /\ IsFiniteSet(Owners \cup {p})
            /\ Cardinality(Owners \cup {p}) \in {Cardinality(Owners), Cardinality(Owners) + 1}
        BY FS_AddElement DEF Parents
      <4> QED BY <2>1, <3>2, <4>1 DEF Parents
    <3> QED BY <3>1, <3>2, MovesOwners
  <2> QED BY <2>2, MovesOwners DEF Parents
<1>2. CASE Pass \/ UNCHANGED vars
  BY <1>2 DEF Pass, vars, Parents, Owners, Owner, At, Chain
<1> QED BY <1>1, <1>2, StepKinds

LEMMA InitParents == Init => Parents
<1> SUFFICES ASSUME Init PROVE Parents
  OBVIOUS
<1> PICK r : proc = <<r>>
  BY DEF Init
<1>1. Len(proc) = 1 /\ Chain = {1} /\ lost = 0
  BY DEF Init, Chain
<1>2. Owners = {1}
  BY <1>1 DEF Owners, Owner
<1>3. IsFiniteSet(Owners) /\ Cardinality(Owners) = 1
  BY <1>2, FS_Singleton
<1> QED BY <1>1, <1>3 DEF Parents, Owner

LEMMA ParentsHold == Spec => []Parents
BY InitParents, Invariant, ParentsKept, PTL DEF Spec

\* "N restarts leave ONE waiting parent, never a chain" (relaunch.h): below the first
\* process no more wait than handshakes could not be written.
THEOREM NoChainOfParents == Spec => []NeverAChain
<1>1. ASSUME IInv, Parents PROVE NeverAChain
  <2> DEFINE waiting == {p \in 2 .. Len(proc) : At(p, "wait")}
  <2>1. lost \in Nat /\ 1 \in Chain /\ Children \subseteq Chain
    BY <1>1, ChainFacts, RelaunchAssumption DEF IInv, Family, TypeOK
  <2>2. /\ IsFiniteSet(Owners \ {1}) /\ Cardinality(Owners \ {1}) = Cardinality(Owners) - 1
        /\ Cardinality(Owners) \in Nat
    BY <1>1, <2>1, FS_RemoveElement, FS_CardinalityType DEF Parents, Owners, Owner
  <2>3. waiting \in SUBSET (Owners \ {1})
    BY <1>1, <2>1 DEF Parents, Owners, Children
  <2>4. IsFiniteSet(waiting) /\ Cardinality(waiting) <= Cardinality(Owners \ {1})
    BY <2>2, <2>3, FS_Subset
  <2>5. Cardinality(waiting) \in Nat
    BY <2>4, FS_CardinalityType
  <2> QED BY <1>1, <2>1, <2>2, <2>4, <2>5 DEF Parents, NeverAChain
<1> QED BY <1>1, Invariant, ParentsHold, PTL

-----------------------------------------------------------------------------
(* No more than one burst, and one for each handshake that was lost *)

\* The times of the sequence s have come, and they are in order.
Ordered(s) == /\ \A i, j \in 1 .. Len(s) : i <= j => s[i] <= s[j]
              /\ \A i \in 1 .. Len(s) : s[i] <= now

Sorted == /\ Ordered(relaunches)
          /\ \A p \in Chain : Ordered(proc[p].recent) /\ Len(proc[p].recent) <= MaxBurst

\* The relaunches inside the window.
Live == {i \in 1 .. Len(relaunches) : now - relaunches[i] <= Window}

\* Each of them is remembered, at a place of its own, by the process that counted it.
Remembers(own, pos) ==
  /\ \A i \in Live : /\ own[i] \in Owners
                     /\ pos[i] \in 1 .. Len(proc[own[i]].recent)
                     /\ proc[own[i]].recent[pos[i]] = relaunches[i]
  /\ \A i, j \in Live : own[i] = own[j] /\ pos[i] = pos[j] => i = j

Ledger == \E own, pos \in [Nat -> Nat] : Remembers(own, pos)

LEMMA AppendOrdered ==
  ASSUME TypeOK, NEW s \in Seq(Nat), Ordered(s)
  PROVE  Ordered(Append(s, now))
<1> DEFINE t == Append(s, now)
<1>1. /\ now \in Nat /\ Len(s) \in Nat /\ Len(t) = Len(s) + 1 /\ t[Len(s) + 1] = now
      /\ \A i \in 1 .. Len(s) : t[i] = s[i] /\ s[i] \in Nat /\ s[i] <= now
  BY DEF TypeOK, Ordered
<1>2. ASSUME NEW i \in 1 .. Len(t), NEW j \in 1 .. Len(t), i <= j
      PROVE  t[i] <= t[j]
  <2>1. CASE j = Len(s) + 1
    BY <1>1, <2>1
  <2>2. CASE j # Len(s) + 1
    <3>1. i \in 1 .. Len(s) /\ j \in 1 .. Len(s)
      BY <1>1, <1>2, <2>2
    <3> QED BY <1>1, <1>2, <3>1 DEF Ordered
  <2> QED BY <2>1, <2>2
<1>3. \A i \in 1 .. Len(t) : t[i] <= now
  BY <1>1
<1> QED BY <1>2, <1>3 DEF Ordered

LEMMA RecentOrdered ==
  ASSUME TypeOK, Sorted, NEW p \in Chain
  PROVE  Recent(p) \in Seq(Nat) /\ Ordered(Recent(p))
<1>1. PICK d \in 0 .. Len(proc[p].recent) :
        /\ Recent(p) \in Seq(Nat) /\ Len(Recent(p)) = Len(proc[p].recent) - d
        /\ \A i \in 1 .. Len(Recent(p)) : Recent(p)[i] = proc[p].recent[i + d]
  BY RecentFacts
<1>2. Ordered(proc[p].recent) /\ Len(proc[p].recent) \in Nat
  BY ProcessType DEF Sorted, Processes
<1>3. \A i \in 1 .. Len(Recent(p)) : i + d \in 1 .. Len(proc[p].recent)
  BY <1>1, <1>2
<1>4. ASSUME NEW i \in 1 .. Len(Recent(p)), NEW j \in 1 .. Len(Recent(p)), i <= j
      PROVE  Recent(p)[i] <= Recent(p)[j]
  <2>1. i + d <= j + d /\ i + d \in 1 .. Len(proc[p].recent) /\ j + d \in 1 .. Len(proc[p].recent)
    BY <1>1, <1>2, <1>3, <1>4
  <2>2. proc[p].recent[i + d] <= proc[p].recent[j + d]
    BY <1>2, <2>1 DEF Ordered
  <2> QED BY <1>1, <2>2
<1>5. \A i \in 1 .. Len(Recent(p)) : Recent(p)[i] <= now
  BY <1>1, <1>2, <1>3 DEF Ordered
<1> QED BY <1>1, <1>4, <1>5 DEF Ordered

\* What a step of p leaves of everybody's records.
LEMMA MovesRecords ==
  ASSUME IInv, Parents, NEW p \in Chain, Moves(p)
  PROVE  /\ \A q \in Chain : q \in Chain' /\ (q # p => proc'[q].recent = proc[q].recent)
         /\ \A q \in Chain' : q \notin Chain => proc'[q].recent = <<>>
         /\ Owners \subseteq Owners'
         /\ Uncounted(p) \/ (Counted(p) /\ p \in Owners)
         /\ now' = now
<1>1. Owners \subseteq Owners'
  BY MovesOwners DEF Owners
<1>2. CASE Branching(p)
  <2> PICK c : c = Len(proc) + 1
    OBVIOUS
  <2>1. /\ Chain' = Chain \cup {c}
        /\ \A q \in Chain : q # p => proc'[q] = proc[q]
        /\ proc'[c].recent = <<>>
    BY <1>2, BranchFacts DEF IInv
  <2>2. p \in Owners
    BY <1>2 DEF Branching, Parents, Owners
  <2> QED BY <1>1, <1>2, <2>1, <2>2 DEF Branching, Moves
<1>3. CASE ~Branching(p)
  <2>1. Asking(p) \/ Handing(p) \/ Ending(p) \/ Preparing(p)
    BY <1>3 DEF Moves
  <2>2. Chain' = Chain /\ \A q \in Chain : q # p => proc'[q] = proc[q]
    BY <2>1, KindsStay, SameIdentities DEF Stays, Alone
  <2>3. Uncounted(p) \/ (Counted(p) /\ proc[p].kind = "launcher")
    BY <2>1 DEF Asking, Handing, Ending, Preparing
  <2>4. proc[p].kind = "launcher" => p \in Owners
    BY ChainFacts DEF IInv, Family, Kin, Owners, Owner
  <2> QED BY <1>1, <2>2, <2>3, <2>4 DEF Moves
<1> QED BY <1>2, <1>3

LEMMA SortedKept ==
  ASSUME IInv, Parents, Sorted, [Next]_vars
  PROVE  Sorted'
<1>1. /\ now \in Nat /\ MaxBurst \in Nat \ {0} /\ relaunches \in Seq(Nat)
      /\ \A q \in Chain : proc[q].recent \in Seq(Nat)
  BY ProcessType, RelaunchAssumption DEF IInv, TypeOK, Processes
<1>2. CASE \E p \in Chain : Moves(p)
  <2> PICK p \in Chain : Moves(p)
    BY <1>2
  <2>1. /\ \A q \in Chain : q \in Chain' /\ (q # p => proc'[q].recent = proc[q].recent)
        /\ \A q \in Chain' : q \notin Chain => proc'[q].recent = <<>>
        /\ Uncounted(p) \/ Counted(p)
        /\ now' = now
    BY MovesRecords
  <2>2. \A s : Ordered(s) => /\ \A i, j \in 1 .. Len(s) : i <= j => s[i] <= s[j]
                             /\ \A i \in 1 .. Len(s) : s[i] <= now'
    BY <2>1 DEF Ordered
  <2>3. Ordered(relaunches')
    BY <1>1, <2>1, AppendOrdered DEF IInv, Sorted, Uncounted, Counted
  <2>4. Ordered(proc'[p].recent) /\ Len(proc'[p].recent) <= MaxBurst
    <3>1. CASE Uncounted(p)
      BY <3>1 DEF Sorted, Uncounted
    <3>2. CASE Counted(p)
      <4>1. /\ Recent(p) \in Seq(Nat) /\ Ordered(Recent(p)) /\ Len(Recent(p)) < MaxBurst
            /\ proc'[p].recent = Append(Recent(p), now)
        BY <1>1, <3>2, RecentOrdered DEF IInv, Counted, TooOften
      <4>2. Ordered(Append(Recent(p), now))
        BY <4>1, AppendOrdered DEF IInv
      <4> QED BY <1>1, <4>1, <4>2
    <3> QED BY <2>1, <3>1, <3>2
  <2>5. ASSUME NEW q \in Chain'
        PROVE  Ordered(proc'[q].recent) /\ Len(proc'[q].recent) <= MaxBurst
    <3>1. CASE q \in Chain /\ q # p
      BY <2>1, <3>1 DEF Sorted
    <3>2. CASE q \notin Chain
      BY <1>1, <2>1, <3>2 DEF Ordered
    <3> QED BY <2>4, <3>1, <3>2
  <2> QED BY <2>2, <2>3, <2>5 DEF Sorted, Ordered
<1>3. CASE Pass
  <2>1. now' = now + 1 /\ UNCHANGED <<proc, relaunches>> /\ Chain' = Chain
    BY <1>3 DEF Pass, Chain
  <2>2. ASSUME NEW s \in Seq(Nat), Ordered(s)
        PROVE  /\ \A i, j \in 1 .. Len(s) : i <= j => s[i] <= s[j]
               /\ \A i \in 1 .. Len(s) : s[i] <= now'
    BY <1>1, <2>1, <2>2 DEF Ordered
  <2> QED BY <1>1, <2>1, <2>2 DEF Sorted, Ordered
<1>4. CASE UNCHANGED vars
  BY <1>4 DEF vars, Sorted, Ordered, Chain
<1> QED BY <1>2, <1>3, <1>4, StepKinds

\* What p drops from its records is not inside the window.
LEMMA LiveIsKept ==
  ASSUME IInv, Sorted, NEW p \in Chain
  PROVE  \E d \in 0 .. Len(proc[p].recent) :
           /\ Len(Recent(p)) = Len(proc[p].recent) - d
           /\ \A i \in 1 .. Len(Recent(p)) : Recent(p)[i] = proc[p].recent[i + d]
           /\ \A k \in 1 .. Len(proc[p].recent) : now - proc[p].recent[k] <= Window => d < k
<1>1. PICK d \in 0 .. Len(proc[p].recent) :
        /\ Len(Recent(p)) = Len(proc[p].recent) - d
        /\ \A i \in 1 .. Len(Recent(p)) : Recent(p)[i] = proc[p].recent[i + d]
        /\ \A k \in 1 .. Len(proc[p].recent) :
             now - proc[p].recent[k] <= Window
               /\ (\A i \in k .. Len(proc[p].recent) : proc[p].recent[k] <= proc[p].recent[i])
             => d < k
  BY RecentFacts DEF IInv
<1>2. Ordered(proc[p].recent) /\ Len(proc[p].recent) \in Nat
  BY ProcessType DEF IInv, Sorted, Processes
<1>3. \A k \in 1 .. Len(proc[p].recent) :
        \A i \in k .. Len(proc[p].recent) : proc[p].recent[k] <= proc[p].recent[i]
  BY <1>2 DEF Ordered
<1> QED BY <1>1, <1>3

LEMMA FewerPlaces ==
  ASSUME NEW a \in Nat, NEW b \in Nat, a <= b
  PROVE  \A i \in 1 .. a : i \in 1 .. b /\ i \in Nat
OBVIOUS

LEMMA OneMorePlace ==
  ASSUME NEW a \in Nat
  PROVE  (\A i \in 1 .. a : i \in 1 .. a + 1 /\ i # a + 1) /\ a + 1 \in 1 .. a + 1
OBVIOUS

LEMMA MovedPlaces ==
  ASSUME NEW a \in Nat, NEW d \in 0 .. a
  PROVE  /\ d \in Nat /\ a - d \in Nat /\ a - d <= a
         /\ \A k \in 1 .. a : k \in Nat /\ (d < k => k - d \in 1 .. a - d /\ (k - d) + d = k)
         /\ \A j, k \in Nat : j - d = k - d => j = k
OBVIOUS

\* The relaunches inside the window at different places, once p has dropped its old ones.
Places(p, own, pos) ==
  /\ \A i \in Live : /\ own[i] \in Owners /\ pos[i] \in 1 .. MaxBurst
                     /\ own[i] # p => pos[i] \in 1 .. Len(proc[own[i]].recent)
                                      /\ proc[own[i]].recent[pos[i]] = relaunches[i]
                     /\ own[i] = p => pos[i] \in 1 .. Len(Recent(p))
                                      /\ Recent(p)[pos[i]] = relaunches[i]
  /\ \A i, j \in Live : own[i] = own[j] /\ pos[i] = pos[j] => i = j

LEMMA PlacesLeft ==
  ASSUME IInv, Sorted, Ledger, NEW p \in Chain, ~TooOften(p)
  PROVE  \E own, pos \in [Nat -> Nat] : Places(p, own, pos)
<1>1. PICK own, pos \in [Nat -> Nat] : Remembers(own, pos)
  BY DEF Ledger
<1>2. ASSUME NEW q \in Chain
      PROVE  Len(proc[q].recent) \in Nat /\ Len(proc[q].recent) <= MaxBurst
  <2>1. proc[q].recent \in Seq(Nat)
    BY ProcessType DEF IInv, Processes
  <2> QED BY <2>1 DEF Sorted
<1>3. PICK many \in Nat : many = Len(proc[p].recent) /\ many <= MaxBurst
  BY <1>2
<1>4. PICK d \in 0 .. many :
        /\ Len(Recent(p)) = many - d
        /\ \A i \in 1 .. Len(Recent(p)) : Recent(p)[i] = proc[p].recent[i + d]
        /\ \A k \in 1 .. many : now - proc[p].recent[k] <= Window => d < k
  BY <1>3, LiveIsKept
<1>5. MaxBurst \in Nat /\ Live \subseteq Nat /\ Owners \subseteq Chain
  BY RelaunchAssumption DEF Live, Owners
<1>6. PICK few \in Nat : few = many - d /\ few <= many
  BY MovedPlaces
<1>7. few <= MaxBurst
  <2>1. many <= MaxBurst
    BY <1>3
  <2> QED BY <1>5, <1>6, <2>1
<1>8. ASSUME NEW i \in Live, own[i] = p
      PROVE  /\ pos[i] - d \in 1 .. few /\ Recent(p)[pos[i] - d] = relaunches[i]
             /\ pos[i] - d \in Nat
  <2>1. pos[i] \in 1 .. many /\ proc[p].recent[pos[i]] = relaunches[i]
    BY <1>1, <1>3, <1>8 DEF Remembers
  <2>2. now - proc[p].recent[pos[i]] <= Window
    BY <2>1 DEF Live
  <2>3. d < pos[i]
    BY <1>4, <2>1, <2>2
  <2>4. pos[i] - d \in 1 .. few /\ (pos[i] - d) + d = pos[i]
    BY <1>6, <2>1, <2>3, MovedPlaces
  <2>5. PICK m \in 1 .. few : m = pos[i] - d
    BY <2>4
  <2>6. Recent(p)[m] = proc[p].recent[m + d]
    BY <1>4, <1>6
  <2>7. m \in Nat
    BY <1>5, <1>7, FewerPlaces
  <2> QED BY <2>1, <2>4, <2>5, <2>6, <2>7
<1> DEFINE left == [i \in Nat |-> IF i \in Live /\ own[i] = p THEN pos[i] - d ELSE pos[i]]
<1>9. left \in [Nat -> Nat]
  BY <1>8
<1>10. \A i \in Live : left[i] = IF own[i] = p THEN pos[i] - d ELSE pos[i]
  BY <1>5
<1> HIDE DEF left
<1>11. ASSUME NEW i \in Live
       PROVE  /\ own[i] \in Owners /\ left[i] \in 1 .. MaxBurst
              /\ own[i] # p => left[i] \in 1 .. Len(proc[own[i]].recent)
                               /\ proc[own[i]].recent[left[i]] = relaunches[i]
              /\ own[i] = p => left[i] \in 1 .. Len(Recent(p))
                               /\ Recent(p)[left[i]] = relaunches[i]
  <2>1. /\ own[i] \in Owners /\ pos[i] \in 1 .. Len(proc[own[i]].recent)
        /\ proc[own[i]].recent[pos[i]] = relaunches[i]
    BY <1>1 DEF Remembers
  <2>2. CASE own[i] = p
    <3>1. left[i] \in 1 .. few /\ Recent(p)[left[i]] = relaunches[i]
      BY <1>8, <1>10, <2>2
    <3>2. left[i] \in 1 .. MaxBurst
      BY <1>5, <1>7, <3>1, FewerPlaces
    <3> QED BY <1>4, <1>6, <2>1, <2>2, <3>1, <3>2
  <2>3. CASE own[i] # p
    <3>1. left[i] = pos[i]
      BY <1>10, <2>3
    <3>2. PICK top \in Nat : top = Len(proc[own[i]].recent) /\ top <= MaxBurst
      BY <1>2, <1>5, <2>1
    <3>3. pos[i] \in 1 .. MaxBurst
      BY <1>5, <2>1, <3>2, FewerPlaces
    <3> QED BY <2>1, <2>3, <3>1, <3>3
  <2> QED BY <2>2, <2>3
<1>12. ASSUME NEW i \in Live, NEW j \in Live, own[i] = own[j], left[i] = left[j]
       PROVE  i = j
  <2>1. CASE own[i] = p
    <3>1. pos[i] - d = pos[j] - d /\ pos[i] \in Nat /\ pos[j] \in Nat
      BY <1>5, <1>10, <1>12, <2>1
    <3>2. pos[i] = pos[j]
      BY <3>1, MovedPlaces
    <3> QED BY <1>1, <1>12, <3>2 DEF Remembers
  <2>2. CASE own[i] # p
    BY <1>1, <1>10, <1>12, <2>2 DEF Remembers
  <2> QED BY <2>1, <2>2
<1>13. Places(p, own, left)
  BY <1>11, <1>12 DEF Places
<1> QED BY <1>9, <1>13

LEMMA CountedLedger ==
  ASSUME IInv, Parents, Sorted, Ledger, NEW p \in Chain, Moves(p), Counted(p), p \in Owners
  PROVE  Ledger'
<1>1. PICK own, pos \in [Nat -> Nat] : Places(p, own, pos)
  BY PlacesLeft DEF Counted
<1>2. /\ \A q \in Chain : q # p => proc'[q].recent = proc[q].recent
      /\ Owners \subseteq Owners' /\ now' = now /\ Owners \subseteq Chain
  BY MovesRecords DEF Owners
<1> p \in Owners'
  BY <1>2
<1>3. relaunches \in Seq(Nat) /\ now \in Nat /\ Recent(p) \in Seq(Nat)
  BY RecentOrdered DEF IInv, TypeOK
<1>4. relaunches' = Append(relaunches, now) /\ proc'[p].recent = Append(Recent(p), now)
  BY DEF Counted
<1>5. PICK m \in Nat : m = Len(relaunches)
  BY <1>3
<1>6. PICK n \in Nat : n = m + 1
  OBVIOUS
<1>7. /\ Len(relaunches') = n /\ relaunches'[n] = now
      /\ \A i \in 1 .. m : relaunches'[i] = relaunches[i]
  BY <1>3, <1>4, <1>5, <1>6
<1>8. Live \subseteq 1 .. m /\ \A i \in 1 .. m : i # n /\ i \in Nat
  <2>1. Live \subseteq 1 .. m
    BY <1>5 DEF Live
  <2>2. \A i \in 1 .. m : i # n
    BY <1>6, OneMorePlace
  <2>3. \A i \in 1 .. m : i \in Nat
    OBVIOUS
  <2> QED BY <2>1, <2>2, <2>3
<1>9. ASSUME NEW i \in Live', i # n PROVE i \in Live /\ relaunches'[i] = relaunches[i]
  <2>1. i \in 1 .. n /\ now - relaunches'[i] <= Window
    BY <1>2, <1>7 DEF Live
  <2>2. i \in 1 .. m
    BY <1>6, <1>9, <2>1
  <2>3. relaunches'[i] = relaunches[i]
    BY <1>7, <2>2
  <2> QED BY <1>5, <2>1, <2>2, <2>3 DEF Live
<1>10. PICK h \in Nat : h = Len(Recent(p))
  BY <1>3
<1>11. PICK k \in Nat : k = h + 1
  OBVIOUS
<1>12. /\ Len(proc'[p].recent) = k /\ proc'[p].recent[k] = now
       /\ \A i \in 1 .. h : proc'[p].recent[i] = Recent(p)[i]
  BY <1>3, <1>4, <1>10, <1>11
<1>13. k \in 1 .. k /\ \A i \in 1 .. h : i \in 1 .. k /\ i # k
  BY <1>11, OneMorePlace
<1> DEFINE own1 == [own EXCEPT ![n] = p]
           pos1 == [pos EXCEPT ![n] = k]
<1>14. own1 \in [Nat -> Nat] /\ pos1 \in [Nat -> Nat]
  BY ChainFacts DEF IInv, Family
<1>15. own1[n] = p /\ pos1[n] = k /\ \A i \in Live : i # n /\ own1[i] = own[i] /\ pos1[i] = pos[i]
  BY <1>8
<1> HIDE DEF own1, pos1
<1>16. ASSUME NEW i \in Live, own[i] = p
       PROVE  pos[i] \in 1 .. k /\ pos[i] # k /\ proc'[p].recent[pos[i]] = relaunches[i]
  <2>1. pos[i] \in 1 .. h /\ Recent(p)[pos[i]] = relaunches[i]
    BY <1>1, <1>10, <1>16 DEF Places
  <2> QED BY <1>12, <1>13, <2>1
<1>17. ASSUME NEW i \in Live'
       PROVE  /\ own1[i] \in Owners' /\ pos1[i] \in 1 .. Len(proc'[own1[i]].recent)
              /\ proc'[own1[i]].recent[pos1[i]] = relaunches'[i]
  <2>1. CASE i = n
    BY <1>7, <1>12, <1>13, <1>15, <2>1
  <2>2. CASE i # n
    <3>1. i \in Live /\ relaunches'[i] = relaunches[i]
      BY <1>9, <2>2
    <3>2. own1[i] = own[i] /\ pos1[i] = pos[i] /\ own[i] \in Owners
      BY <1>1, <1>15, <3>1 DEF Places
    <3>3. CASE own[i] = p
      BY <1>2, <1>12, <1>16, <3>1, <3>2, <3>3
    <3>4. CASE own[i] # p
      <4>1. own[i] \in Owners' /\ proc'[own[i]].recent = proc[own[i]].recent
        BY <1>2, <3>2, <3>4
      <4>2. /\ pos[i] \in 1 .. Len(proc[own[i]].recent)
            /\ proc[own[i]].recent[pos[i]] = relaunches[i]
        BY <1>1, <3>1, <3>4 DEF Places
      <4> QED BY <3>1, <3>2, <4>1, <4>2
    <3> QED BY <3>3, <3>4
  <2> QED BY <2>1, <2>2
<1>18. ASSUME NEW i \in Live', NEW j \in Live', own1[i] = own1[j], pos1[i] = pos1[j]
       PROVE  i = j
  <2>1. CASE i # n /\ j # n
    BY <1>1, <1>9, <1>15, <1>18, <2>1 DEF Places
  <2>2. CASE i = n \/ j = n
    BY <1>9, <1>15, <1>16, <1>18, <2>2
  <2> QED BY <2>1, <2>2
<1>19. Remembers(own1, pos1)'
  BY <1>17, <1>18 DEF Remembers
<1> QED BY <1>14, <1>19 DEF Ledger

LEMMA LedgerKept ==
  ASSUME IInv, Parents, Sorted, Ledger, [Next]_vars
  PROVE  Ledger'
<1>1. ASSUME NEW p \in Chain, Moves(p), Uncounted(p) PROVE Ledger'
  <2>1. PICK own, pos \in [Nat -> Nat] : Remembers(own, pos)
    BY DEF Ledger
  <2>2. /\ \A q \in Chain : proc'[q].recent = proc[q].recent
        /\ Owners \subseteq Owners' /\ Owners \subseteq Chain
        /\ now' = now /\ relaunches' = relaunches
    BY <1>1, MovesRecords DEF Uncounted, Owners
  <2>3. Live' = Live
    BY <2>2 DEF Live
  <2>4. Remembers(own, pos)'
    BY <2>1, <2>2, <2>3 DEF Remembers
  <2> QED BY <2>4 DEF Ledger
<1>2. CASE \E p \in Chain : Moves(p)
  BY <1>1, <1>2, MovesRecords, CountedLedger
<1>3. CASE Pass
  <2>1. PICK own, pos \in [Nat -> Nat] : Remembers(own, pos)
    BY DEF Ledger
  <2>2. now' = now + 1 /\ UNCHANGED <<proc, relaunches>> /\ Owners' = Owners
    BY <1>3 DEF Pass, Owners, Owner, Chain
  <2>3. now \in Nat /\ Window \in Nat /\ relaunches \in Seq(Nat)
    BY RelaunchAssumption DEF IInv, TypeOK
  <2>4. ASSUME NEW i \in Live' PROVE i \in Live
    <3>1. i \in 1 .. Len(relaunches)
      BY <2>2 DEF Live
    <3>2. PICK r \in Nat : r = relaunches[i]
      BY <2>3, <3>1
    <3>3. (now + 1) - r <= Window
      BY <2>2, <3>2 DEF Live
    <3>4. now - r <= Window
      <4>1. now \in Nat /\ Window \in Nat
        BY <2>3
      <4> QED BY <3>3, <4>1
    <3> QED BY <3>1, <3>2, <3>4 DEF Live
  <2>5. Remembers(own, pos)'
    BY <2>1, <2>2, <2>4 DEF Remembers
  <2> QED BY <2>5 DEF Ledger
<1>4. CASE UNCHANGED vars
  <2>1. PICK own, pos \in [Nat -> Nat] : Remembers(own, pos)
    BY DEF Ledger
  <2>2. Remembers(own, pos)'
    BY <1>4, <2>1 DEF vars, Remembers, Live, Owners, Owner, Chain
  <2> QED BY <2>2 DEF Ledger
<1> QED BY <1>2, <1>3, <1>4, StepKinds

LEMMA InitLedger == Init => Sorted /\ Ledger
<1> SUFFICES ASSUME Init PROVE Sorted /\ Ledger
  OBVIOUS
<1>1. relaunches = <<>> /\ Live = {}
  BY DEF Init, Live
<1>2. Ledger
  <2>1. Remembers([i \in Nat |-> 0], [i \in Nat |-> 0])
    BY <1>1 DEF Remembers
  <2> QED BY <2>1 DEF Ledger
<1>3. PICK r : proc = <<r>> /\ r.recent = <<>>
  BY DEF Init, Process
<1>4. Chain = {1} /\ proc[1] = r
  BY <1>3 DEF Chain
<1>5. Sorted
  BY <1>1, <1>3, <1>4, RelaunchAssumption DEF Sorted, Ordered
<1> QED BY <1>2, <1>5

\* The places of n owners.
LEMMA PlacesCounted ==
  ASSUME NEW b \in Nat, NEW c \in Nat, NEW d \in Nat, c <= d,
         NEW S, IsFiniteSet(S), Cardinality(S) = c
  PROVE  /\ IsFiniteSet((1 .. b) \X S)
         /\ Cardinality((1 .. b) \X S) <= b * d
<1>1. \A e \in Nat : IsFiniteSet(1 .. e) /\ Cardinality(1 .. e) = e
  <2> SUFFICES ASSUME NEW e \in Nat PROVE IsFiniteSet(1 .. e) /\ Cardinality(1 .. e) = e
    OBVIOUS
  <2>1. IsFiniteSet(1 .. e) /\ Cardinality(1 .. e) = IF 1 > e THEN 0 ELSE e - 1 + 1
    BY FS_Interval
  <2> QED BY <2>1
<1> DEFINE B == 1 .. b
           C == 1 .. c
           D == 1 .. d
<1>2. /\ IsFiniteSet(B) /\ Cardinality(B) = b
      /\ IsFiniteSet(C) /\ Cardinality(C) = c
      /\ IsFiniteSet(D) /\ Cardinality(D) = d
  BY <1>1
<1>3. C \in SUBSET D
  BY FewerPlaces
<1> HIDE DEF B, C, D
<1>4. IsFiniteSet(B \X S) /\ Cardinality(B \X S) = b * c
  BY <1>2, FS_Product
<1>5. Cardinality(B \X C) = b * c /\ IsFiniteSet(B \X D) /\ Cardinality(B \X D) = b * d
  BY <1>2, FS_Product
<1>6. b * c <= b * d
  <2>1. B \X C \in SUBSET (B \X D)
    BY <1>3
  <2> QED BY <1>5, <2>1, FS_Subset
<1> QED BY <1>4, <1>6 DEF B

\* As many relaunches inside the window as would be too many leave p no place.
LEMMA CountedIsAllowed ==
  ASSUME IInv, Parents, Sorted, Ledger, NEW p \in Owners, Counted(p), NEW m \in Nat, NEW n \in Nat
  PROVE  m = MaxBurst * (MaxLostWrites + 1) /\ n = Len(relaunches) /\ m <= n
           => now - relaunches[n - m + 1] > Window
<1>1. p \in Chain
  BY DEF Owners
<1>2. MaxBurst \in Nat /\ MaxBurst > 0 /\ MaxLostWrites \in Nat /\ Window \in Nat
  BY RelaunchAssumption
<1>3. now \in Nat /\ relaunches \in Seq(Nat) /\ lost \in Nat /\ lost <= MaxLostWrites
  BY <1>2 DEF IInv, TypeOK
<1>4. \A i \in 1 .. Len(relaunches) : relaunches[i] \in Nat
  BY <1>3
<1>5. PICK own, pos \in [Nat -> Nat] : Places(p, own, pos)
  BY <1>1, PlacesLeft DEF Counted
<1> DEFINE places == (1 .. MaxBurst) \X Owners
           free == places \ {<<MaxBurst, p>>}
           last == n - m + 1 .. n
<1>6. IsFiniteSet(places) /\ Cardinality(places) <= MaxBurst * (MaxLostWrites + 1)
  <2>1. IsFiniteSet(Owners) /\ Cardinality(Owners) \in Nat /\ Cardinality(Owners) <= lost + 1
    BY FS_CardinalityType DEF Parents
  <2>2. MaxLostWrites + 1 \in Nat /\ Cardinality(Owners) <= MaxLostWrites + 1
    BY <1>2, <1>3, <2>1
  <2> QED BY <1>2, <2>1, <2>2, PlacesCounted
<1>7. <<MaxBurst, p>> \in places
  BY <1>2
<1>8. ASSUME m = MaxBurst * (MaxLostWrites + 1)
      PROVE  IsFiniteSet(free) /\ Cardinality(free) < m
  <2>1. IsFiniteSet(free) /\ Cardinality(free) = Cardinality(places) - 1
    BY <1>6, <1>7, FS_RemoveElement
  <2>2. Cardinality(places) \in Nat /\ Cardinality(places) <= m
    BY <1>6, <1>8, FS_CardinalityType
  <2> QED BY <2>1, <2>2
<1>9. IsFiniteSet(last) /\ Cardinality(last) = m
  <2>1. n - m + 1 \in Int /\ n \in Int
    OBVIOUS
  <2>2. /\ IsFiniteSet(last)
        /\ Cardinality(last) = IF n - m + 1 > n THEN 0 ELSE n - (n - m + 1) + 1
    BY <2>1, FS_Interval
  <2>3. m = IF n - m + 1 > n THEN 0 ELSE n - (n - m + 1) + 1
    OBVIOUS
  <2> QED BY <2>2, <2>3
<1>10. ASSUME n = Len(relaunches), m <= n, ~(now - relaunches[n - m + 1] > Window), NEW i \in last
      PROVE  i \in Live
  <2>1. i \in 1 .. n /\ n - m + 1 \in 1 .. n /\ n - m + 1 <= i
    BY <1>10
  <2> PICK h \in 1 .. n : h = n - m + 1
    BY <2>1
  <2>2. PICK a \in Nat, c \in Nat : a = relaunches[h] /\ c = relaunches[i]
    <3>1. i \in 1 .. Len(relaunches) /\ h \in 1 .. Len(relaunches)
      BY <1>10, <2>1
    <3>2. relaunches[i] \in Nat /\ relaunches[h] \in Nat
      BY <1>4, <3>1
    <3> QED BY <3>2
  <2>3. a <= c
    BY <1>10, <2>1, <2>2 DEF Sorted, Ordered
  <2>4. ~(now - a > Window)
    BY <1>10, <2>2
  <2>5. now - c <= Window
    BY <1>2, <1>3, <2>3, <2>4
  <2> QED BY <1>10, <2>1, <2>2, <2>5 DEF Live
<1>11. ASSUME NEW i \in Live PROVE <<pos[i], own[i]>> \in free
  <2>1. own[i] \in Owners /\ pos[i] \in 1 .. MaxBurst
    BY <1>5 DEF Places
  <2>2. ASSUME own[i] = p, pos[i] = MaxBurst PROVE FALSE
    <3>1. MaxBurst \in 1 .. Len(Recent(p))
      BY <1>5, <2>2 DEF Places
    <3>2. Recent(p) \in Seq(Nat) /\ ~(Len(Recent(p)) >= MaxBurst)
      BY <1>1, RecentOrdered DEF IInv, Counted, TooOften
    <3>3. Len(Recent(p)) \in Nat
      BY <3>2
    <3> QED BY <1>2, <3>1, <3>2, <3>3
  <2> QED BY <2>1, <2>2
<1> DEFINE f == [i \in last |-> <<pos[i], own[i]>>]
<1>12. ASSUME last \subseteq Live, m = MaxBurst * (MaxLostWrites + 1) PROVE FALSE
  <2>1. f \in [last -> free]
    BY <1>11, <1>12
  <2>2. IsFiniteSet(free) /\ IsFiniteSet(last) /\ Cardinality(free) < Cardinality(last)
    BY <1>8, <1>9, <1>12
  <2>3. PICK i, j \in last : i # j /\ f[i] = f[j]
    <3> HIDE DEF f, last, free
    <3> QED BY <2>1, <2>2, FS_PigeonHole
  <2>4. pos[i] = pos[j] /\ own[i] = own[j]
    BY <2>3
  <2> QED BY <1>5, <1>12, <2>3, <2>4 DEF Places
<1> QED BY <1>10, <1>12

\* However often programs ask for it, they are started again no more often than the burst
\* limiter allows: module Relaunch implements module BurstLimiter, with one more burst for
\* every handshake that could not be written (run_nested, launcher.c).
THEOREM RelaunchImplementsBurstLimiter == Spec => BurstSpec
<1> DEFINE Inv == IInv /\ Parents /\ Sorted /\ Ledger
<1>1. Init => Limiter!BurstInit
  BY DEF Init, Limiter!BurstInit
<1>2. Init => Inv
  BY InitIInv, InitParents, InitLedger
<1>3. Inv /\ [Next]_vars => Inv'
  BY IInvKept, ParentsKept, SortedKept, LedgerKept
<1>4. Inv /\ [Next]_vars => [Limiter!Relaunch \/ Limiter!Pass]_<<now, relaunches>>
  <2> SUFFICES ASSUME Inv, [Next]_vars
               PROVE  \/ Limiter!Relaunch \/ Limiter!Pass
                      \/ UNCHANGED <<now, relaunches>>
    OBVIOUS
  <2>1. now \in Nat /\ relaunches \in Seq(Nat)
    BY DEF IInv, TypeOK
  <2>2. CASE Pass
    <3>1. now' = now + 1 /\ relaunches' = relaunches
      BY <2>2 DEF Pass
    <3> QED BY <2>1, <3>1 DEF Limiter!Pass
  <2>3. CASE UNCHANGED vars
    BY <2>3 DEF vars
  <2>4. ASSUME NEW p \in Chain, Moves(p), ~Uncounted(p)
        PROVE  Limiter!Relaunch
    <3>1. Counted(p) /\ p \in Owners /\ now' = now
      BY <2>4, MovesRecords
    <3>2. PICK m : m = MaxBurst * (MaxLostWrites + 1)
      OBVIOUS
    <3>3. m \in Nat
      BY <3>2, RelaunchAssumption
    <3>4. PICK n \in Nat : n = Len(relaunches)
      BY <2>1
    <3>5. n < m \/ now - relaunches[n - m + 1] > Window
      BY <3>1, <3>2, <3>3, <3>4, CountedIsAllowed
    <3>6. Limiter!Allowed
      BY <3>2, <3>4, <3>5 DEF Limiter!Allowed
    <3> QED BY <3>1, <3>6 DEF Counted, Limiter!Relaunch
  <2>5. CASE \E p \in Chain : Moves(p) /\ Uncounted(p)
    BY <2>5, MovesRecords DEF Uncounted
  <2> QED BY <2>2, <2>3, <2>4, <2>5, StepKinds
<1> QED BY <1>1, <1>2, <1>3, <1>4, PTL DEF Spec, BurstSpec, Limiter!BurstSpec

=============================================================================
