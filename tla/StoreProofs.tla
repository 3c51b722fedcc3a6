---------------------------- MODULE StoreProofs -----------------------------
(***************************************************************************)
(* Proofs about module Store, for every set of workers, processes, modules *)
(* and versions and every registry.  The inductive invariant IInv follows  *)
(* the stack of nested installs of each worker: the version a call works   *)
(* on, the dependencies it has ticked off and its temp folder determine    *)
(* what a publish puts into the store.                                     *)
(***************************************************************************)
EXTENDS Store, TLAPS

LEMMA PushType ==
  ASSUME NEW S, NEW s \in Seq(S), NEW x \in S
  PROVE  /\ <<x>> \o s \in Seq(S)
         /\ Len(<<x>> \o s) = Len(s) + 1
         /\ (<<x>> \o s)[1] = x
         /\ \A i \in 2 .. Len(s) + 1 : (<<x>> \o s)[i] = s[i - 1]
<1>1. /\ <<x>> \o s \in Seq(S) /\ Len(<<x>> \o s) = Len(s) + 1
      /\ (<<x>> \o s)[1] = x
  OBVIOUS
<1>2. ASSUME NEW i \in 2 .. Len(s) + 1 PROVE (<<x>> \o s)[i] = s[i - 1]
  OBVIOUS
<1> QED BY <1>1, <1>2

LEMMA PopType ==
  ASSUME NEW S, NEW s \in Seq(S), s # <<>>
  PROVE  /\ Head(s) \in S /\ Head(s) = s[1] /\ Tail(s) \in Seq(S)
         /\ Len(s) \in Nat /\ Len(s) >= 1 /\ Len(Tail(s)) = Len(s) - 1
         /\ \A i \in 1 .. Len(s) - 1 : Tail(s)[i] = s[i + 1]
OBVIOUS

\* The ways an action changes the stack of its worker: a call changes its locals, or
\* it returns and the call below it is resumed.
LEMMA UpdateShape ==
  ASSUME TypeOK, NEW w \in Worker, NEW f \in Frames, Busy(w), Update(w, f)
  PROVE  /\ stack' \in [Worker -> Seq(Frames)]
         /\ stack'[w] # <<>> /\ stack'[w][1] = f /\ Head(stack'[w]) = f
         /\ Len(stack'[w]) = Len(stack[w])
         /\ \A i \in 2 .. Len(stack[w]) : stack'[w][i] = stack[w][i]
         /\ \A u \in Worker \ {w} : stack'[u] = stack[u]
<1>1. stack[w] \in Seq(Frames) /\ stack[w] # <<>>
  BY DEF TypeOK, Busy
<1>2. /\ Tail(stack[w]) \in Seq(Frames) /\ Len(Tail(stack[w])) = Len(stack[w]) - 1
      /\ \A i \in 1 .. Len(stack[w]) - 1 : Tail(stack[w])[i] = stack[w][i + 1]
      /\ Len(stack[w]) \in Nat
  BY <1>1, PopType
<1>3. stack' = [stack EXCEPT ![w] = <<f>> \o Tail(stack[w])]
  BY DEF Update
<1>4. stack'[w] = <<f>> \o Tail(stack[w]) /\ \A u \in Worker \ {w} : stack'[u] = stack[u]
  BY <1>3 DEF TypeOK
<1>5. /\ stack'[w] \in Seq(Frames) /\ Len(stack'[w]) = Len(stack[w])
      /\ stack'[w][1] = f
      /\ \A i \in 2 .. Len(stack[w]) : stack'[w][i] = Tail(stack[w])[i - 1]
  BY <1>2, <1>4, PushType
<1>6. stack'[w] # <<>> /\ Head(stack'[w]) = f
  BY <1>2, <1>4
<1>7. \A i \in 2 .. Len(stack[w]) : stack'[w][i] = stack[w][i]
  BY <1>2, <1>5
<1> QED BY <1>3, <1>4, <1>5, <1>6, <1>7 DEF TypeOK

LEMMA ReturnShape ==
  ASSUME TypeOK, NEW w \in Worker, NEW v \in Version \cup {NoVersion}, Busy(w), Return(w, v)
  PROVE  /\ stack' \in [Worker -> Seq(Frames)]
         /\ result' \in [Worker -> [name : Name, req : Request, ver : Version \cup {NoVersion}]]
         /\ \A u \in Worker \ {w} : stack'[u] = stack[u]
         /\ \/ stack'[w] = <<>>
            \/ /\ Len(stack[w]) >= 2 /\ Len(stack'[w]) = Len(stack[w]) - 1
               /\ stack'[w] # <<>> /\ Head(stack'[w]) = stack'[w][1]
               /\ \/ /\ v = NoVersion
                     /\ stack'[w][1] = [stack[w][2] EXCEPT !.at = "failed"]
                  \/ /\ v # NoVersion
                     /\ stack'[w][1] = [stack[w][2] EXCEPT !.deps = @ \ {<<Top(w).name, Top(w).req>>}]
               /\ \A i \in 2 .. Len(stack'[w]) : stack'[w][i] = stack[w][i + 1]
<1> DEFINE done == Top(w)
           callers == Tail(stack[w])
           caller == Head(callers)
           resumed == IF v = NoVersion
                      THEN [caller EXCEPT !.at = "failed"]
                      ELSE [caller EXCEPT !.deps = @ \ {<<done.name, done.req>>}]
<1>1. stack[w] \in Seq(Frames) /\ stack[w] # <<>>
  BY DEF TypeOK, Busy
<1>2. /\ done \in Frames /\ callers \in Seq(Frames) /\ Len(stack[w]) \in Nat
      /\ Len(callers) = Len(stack[w]) - 1
      /\ \A i \in 1 .. Len(stack[w]) - 1 : callers[i] = stack[w][i + 1]
  BY <1>1, PopType DEF Top
<1>3. CASE callers = <<>>
  <2>1. /\ stack' = [stack EXCEPT ![w] = <<>>]
        /\ result' = [result EXCEPT ![w] = [name |-> done.name, req |-> done.req, ver |-> v]]
    BY <1>3 DEF Return
  <2>2. [name |-> done.name, req |-> done.req, ver |-> v]
          \in [name : Name, req : Request, ver : Version \cup {NoVersion}]
    BY <1>2 DEF Frames
  <2> QED BY <2>1, <2>2 DEF TypeOK
<1>4. CASE callers # <<>>
  <2>1. stack' = [stack EXCEPT ![w] = <<resumed>> \o Tail(callers)] /\ result' = result
    BY <1>4 DEF Return
  <2> HIDE DEF done, callers, resumed
  <2>2. /\ caller \in Frames /\ caller = stack[w][2] /\ Tail(callers) \in Seq(Frames)
        /\ Len(callers) >= 1 /\ Len(Tail(callers)) = Len(callers) - 1
        /\ \A i \in 1 .. Len(callers) - 1 : Tail(callers)[i] = callers[i + 1]
    <3>1. /\ Head(callers) \in Frames /\ Head(callers) = callers[1] /\ Tail(callers) \in Seq(Frames)
          /\ Len(callers) \in Nat /\ Len(callers) >= 1 /\ Len(Tail(callers)) = Len(callers) - 1
          /\ \A i \in 1 .. Len(callers) - 1 : Tail(callers)[i] = callers[i + 1]
      BY <1>2, <1>4, PopType
    <3>2. callers[1] = stack[w][2]
      BY <1>2, <3>1
    <3> QED BY <3>1, <3>2
  <2>3. resumed \in Frames
    BY <2>2 DEF Frames, resumed
  <2> HIDE DEF caller
  <2>4. stack'[w] = <<resumed>> \o Tail(callers) /\ \A u \in Worker \ {w} : stack'[u] = stack[u]
    BY <2>1 DEF TypeOK
  <2>5. /\ stack'[w] \in Seq(Frames) /\ stack'[w][1] = resumed
        /\ Len(stack'[w]) = Len(callers)
        /\ \A i \in 2 .. Len(callers) : stack'[w][i] = Tail(callers)[i - 1]
    BY <2>2, <2>3, <2>4, PushType
  <2>6. stack'[w] # <<>> /\ Head(stack'[w]) = stack'[w][1]
    BY <2>2, <2>5, PopType
  <2>7. \A i \in 2 .. Len(stack'[w]) : stack'[w][i] = stack[w][i + 1]
    BY <1>2, <2>2, <2>5
  <2>8. stack' \in [Worker -> Seq(Frames)]
    BY <2>1, <2>4, <2>5 DEF TypeOK
  <2>9. /\ v = NoVersion => resumed = [stack[w][2] EXCEPT !.at = "failed"]
        /\ v # NoVersion => resumed = [stack[w][2] EXCEPT !.deps = @ \ {<<Top(w).name, Top(w).req>>}]
    BY <2>2 DEF resumed, done
  <2>10. Len(stack[w]) >= 2 /\ Len(stack'[w]) = Len(stack[w]) - 1
    BY <1>2, <2>2, <2>5
  <2> QED BY <2>1, <2>4, <2>5, <2>6, <2>7, <2>8, <2>9, <2>10 DEF TypeOK
<1> QED BY <1>3, <1>4
-----------------------------------------------------------------------------
\* The frames the actions put on a stack.
LEMMA FrameTypes ==
  ASSUME NEW f \in Frames
  PROVE  /\ \A at \in {"asked", "publish", "published"} : [f EXCEPT !.at = at] \in Frames
         /\ \A v \in Version, D \in SUBSET (Name \X Request) :
              [f EXCEPT !.at = "deps", !.ver = v, !.deps = D] \in Frames
         /\ \A S \in SUBSET File :
              [f EXCEPT !.at = "download", !.left = S] \in Frames /\ [f EXCEPT !.left = S] \in Frames
BY DEF Frames

LEMMA NewFrameType ==
  ASSUME NEW n \in Name, NEW r \in Request, NEW b \in BOOLEAN
  PROVE  Frame(n, r, b) \in Frames
BY DEF Frame, Frames

LEMMA TopType ==
  ASSUME TypeOK, NEW w \in Worker, Busy(w)
  PROVE  /\ Top(w) \in Frames /\ Top(w) = stack[w][1]
         /\ Top(w).name \in Name /\ Top(w).req \in Request
         /\ Top(w).ver \in Version \cup {NoVersion} /\ Top(w).deps \subseteq Name \X Request
         /\ Top(w).left \subseteq File
<1>1. stack[w] \in Seq(Frames) /\ stack[w] # <<>>
  BY DEF TypeOK, Busy
<1>2. Top(w) \in Frames /\ Top(w) = stack[w][1]
  BY <1>1, PopType DEF Top
<1> QED BY <1>2 DEF Frames

LEMMA AlreadyThereType ==
  ASSUME NEW f
  PROVE  AlreadyThere(f) \subseteq Version
BY DEF AlreadyThere, SameInstalled, BestInstalled, Highest, Installed
-----------------------------------------------------------------------------
\* The parts of the invariant, as predicates of the values of the variables, so that
\* they can be said of the state after a step.
HeldIn(sh, dep) == \E u \in Version : sh[dep[1]][u] # NoDir /\ Fits(u, dep[2])

OnShelfIn(sh) ==
  \A n \in Name, v \in Version : sh[n][v] # NoDir =>
    /\ v \in Published[n] /\ sh[n][v] = Files[n][v]
    /\ \A dep \in Deps[n][v] : HeldIn(sh, dep)

FrameIn(sh, f) ==
  f.at \in {"deps", "download", "publish", "published"} =>
    /\ f.ver \in Published[f.name]
    /\ Fits(f.ver, f.req)
    /\ \A dep \in Deps[f.name][f.ver] \ f.deps : HeldIn(sh, dep)
    /\ f.at # "deps" => f.deps = {}
    /\ f.at = "published" => \E u \in Version : sh[f.name][u] # NoDir /\ Rank[u] = Rank[f.ver]

StagingIn(files, f) ==
  /\ f.at = "download" => f.left \subseteq Files[f.name][f.ver] /\ files = Files[f.name][f.ver] \ f.left
  /\ f.at = "publish" => files = Files[f.name][f.ver]

WorkerIn(sh, files, s) ==
  /\ s # <<>> => StagingIn(files, Head(s))
  /\ \A i \in 1 .. Len(s) : FrameIn(sh, s[i])
  /\ \A i \in 2 .. Len(s) : s[i].at = "deps"

LEMMA InvIn ==
  IInv <=> OnShelfIn(shelf) /\ \A w \in Worker : WorkerIn(shelf, staging[w], stack[w])
BY DEF IInv, OnShelf, OnShelfIn, WorkerInv, WorkerIn, StagingInv, StagingIn, FrameInv, FrameIn,
       Held, HeldIn, Busy, Top

LEMMA InvInNext ==
  IInv' <=> OnShelfIn(shelf') /\ \A w \in Worker : WorkerIn(shelf', staging'[w], stack'[w])
BY DEF IInv, OnShelf, OnShelfIn, WorkerInv, WorkerIn, StagingInv, StagingIn, FrameInv, FrameIn,
       Held, HeldIn, Busy, Top

\* A version folder that is there stays as it is.
Grows(sh, next) == \A n \in Name, v \in Version : sh[n][v] # NoDir => next[n][v] = sh[n][v]

LEMMA GrowsKeepsHeld ==
  ASSUME NEW sh, NEW next, Grows(sh, next), NEW dep \in Name \X Request, HeldIn(sh, dep)
  PROVE  HeldIn(next, dep)
BY DEF Grows, HeldIn

LEMMA GrowsKeepsFrame ==
  ASSUME NEW sh, NEW next, Grows(sh, next), NEW f \in Frames, FrameIn(sh, f)
  PROVE  FrameIn(next, f)
<1> SUFFICES ASSUME f.at \in {"deps", "download", "publish", "published"} PROVE FrameIn(next, f)
  BY DEF FrameIn
<1>1. f.name \in Name /\ f.ver \in Published[f.name] /\ f.ver \in Version
  BY StoreAssumption DEF FrameIn, Frames
<1>2. ASSUME NEW dep \in Deps[f.name][f.ver] \ f.deps PROVE HeldIn(next, dep)
  <2>1. dep \in Name \X Request /\ HeldIn(sh, dep)
    BY <1>1, StoreAssumption DEF FrameIn
  <2> QED BY <2>1, GrowsKeepsHeld
<1>3. ASSUME f.at = "published"
      PROVE  \E u \in Version : next[f.name][u] # NoDir /\ Rank[u] = Rank[f.ver]
  BY <1>1, <1>3 DEF FrameIn, Grows
<1> QED BY <1>1, <1>2, <1>3 DEF FrameIn

LEMMA GrowsKeepsWorker ==
  ASSUME NEW sh, NEW next, Grows(sh, next), NEW files, NEW s \in Seq(Frames), WorkerIn(sh, files, s)
  PROVE  WorkerIn(next, files, s)
<1>1. ASSUME NEW i \in 1 .. Len(s) PROVE FrameIn(next, s[i])
  <2>1. s[i] \in Frames /\ FrameIn(sh, s[i])
    BY DEF WorkerIn
  <2> QED BY <2>1, GrowsKeepsFrame
<1> QED BY <1>1 DEF WorkerIn
-----------------------------------------------------------------------------
\* What any step of an install does to its own stack ...
Stacks(w) ==
  \/ \E f \in Frames : /\ Update(w, f) /\ UNCHANGED result
                       /\ FrameIn(shelf', f) /\ StagingIn(staging'[w], f)
  \/ \E v \in Version \cup {NoVersion} :
       /\ Return(w, v)
       /\ v # NoVersion => HeldIn(shelf', <<Top(w).name, Top(w).req>>)
  \/ \E n \in Name, r \in Request :
       /\ Top(w).at = "deps" /\ UNCHANGED result
       /\ stack' = [stack EXCEPT ![w] = <<Frame(n, r, FALSE)>> \o @]

\* ... and to everything else.
Others(w) ==
  /\ shelf' \in [Name -> [Version -> {NoDir} \cup SUBSET File]]
  /\ latest' \in [Name -> [ver : Version \cup {NoVersion}, fresh : BOOLEAN]]
  /\ staging' \in [Worker -> SUBSET File]
  /\ publishing' \in [Process -> Worker \cup {NoWorker}]
  /\ UNCHANGED <<installs, crashes>>
  /\ \A u \in Worker \ {w} : staging'[u] = staging[u]
  /\ Grows(shelf, shelf') /\ OnShelfIn(shelf')

LEMMA UpdateKeeps ==
  ASSUME TypeOK, NEW w \in Worker, Busy(w), WorkerIn(shelf, staging[w], stack[w]),
         Grows(shelf, shelf'), NEW f \in Frames, Update(w, f),
         FrameIn(shelf', f), StagingIn(staging'[w], f)
  PROVE  WorkerIn(shelf', staging'[w], stack'[w])
<1>1. /\ stack'[w] # <<>> /\ stack'[w][1] = f /\ Head(stack'[w]) = f
      /\ Len(stack'[w]) = Len(stack[w])
      /\ \A i \in 2 .. Len(stack[w]) : stack'[w][i] = stack[w][i]
  BY UpdateShape
<1>2. stack[w] \in Seq(Frames) /\ Len(stack[w]) \in Nat
  BY DEF TypeOK
<1>3. ASSUME NEW i \in 2 .. Len(stack'[w])
      PROVE  FrameIn(shelf', stack'[w][i]) /\ stack'[w][i].at = "deps"
  <2>1. i \in 2 .. Len(stack[w]) /\ i \in 1 .. Len(stack[w]) /\ stack'[w][i] = stack[w][i]
    BY <1>1, <1>2
  <2>2. stack[w][i] \in Frames /\ FrameIn(shelf, stack[w][i]) /\ stack[w][i].at = "deps"
    BY <1>2, <2>1 DEF WorkerIn
  <2> QED BY <2>1, <2>2, GrowsKeepsFrame
<1>4. ASSUME NEW i \in 1 .. Len(stack'[w]) PROVE FrameIn(shelf', stack'[w][i])
  <2>1. i = 1 \/ i \in 2 .. Len(stack'[w])
    BY <1>1, <1>2
  <2> QED BY <1>1, <1>3, <2>1
<1> QED BY <1>1, <1>3, <1>4 DEF WorkerIn

\* A call that goes on with one dependency less to install.
LEMMA Resumes ==
  ASSUME NEW sh, NEW f \in Frames, f.at = "deps", FrameIn(sh, f),
         NEW x, HeldIn(sh, x)
  PROVE  FrameIn(sh, [f EXCEPT !.deps = @ \ {x}])
<1> DEFINE g == [f EXCEPT !.deps = @ \ {x}]
<1>1. /\ g.name = f.name /\ g.req = f.req /\ g.ver = f.ver /\ g.at = "deps"
      /\ g.deps = f.deps \ {x}
  BY DEF Frames
<1>2. ASSUME NEW dep \in Deps[f.name][f.ver] \ (f.deps \ {x}) PROVE HeldIn(sh, dep)
  BY <1>2 DEF FrameIn
<1> HIDE DEF g
<1>3. FrameIn(sh, g)
  BY <1>1, <1>2 DEF FrameIn
<1> QED BY <1>3 DEF g

LEMMA ReturnKeeps ==
  ASSUME TypeOK, NEW w \in Worker, Busy(w), WorkerIn(shelf, staging[w], stack[w]),
         Grows(shelf, shelf'), NEW v \in Version \cup {NoVersion}, Return(w, v),
         v # NoVersion => HeldIn(shelf', <<Top(w).name, Top(w).req>>)
  PROVE  WorkerIn(shelf', staging'[w], stack'[w])
<1>1. CASE stack'[w] = <<>>
  <2>1. Len(stack'[w]) = 0 /\ 1 .. 0 = {} /\ 2 .. 0 = {}
    BY <1>1
  <2> QED BY <1>1, <2>1 DEF WorkerIn
<1>2. CASE stack'[w] # <<>>
  <2>1. /\ Len(stack[w]) >= 2 /\ Len(stack'[w]) = Len(stack[w]) - 1
        /\ Head(stack'[w]) = stack'[w][1]
        /\ \/ /\ v = NoVersion
              /\ stack'[w][1] = [stack[w][2] EXCEPT !.at = "failed"]
           \/ /\ v # NoVersion
              /\ stack'[w][1] = [stack[w][2] EXCEPT !.deps = @ \ {<<Top(w).name, Top(w).req>>}]
        /\ \A i \in 2 .. Len(stack'[w]) : stack'[w][i] = stack[w][i + 1]
    BY <1>2, ReturnShape
  <2>2. stack[w] \in Seq(Frames) /\ Len(stack[w]) \in Nat
    BY DEF TypeOK
  <2>3. ASSUME NEW i \in 2 .. Len(stack[w])
        PROVE  stack[w][i] \in Frames /\ FrameIn(shelf', stack[w][i]) /\ stack[w][i].at = "deps"
    <3>1. stack[w][i] \in Frames /\ FrameIn(shelf, stack[w][i]) /\ stack[w][i].at = "deps"
      BY <2>2 DEF WorkerIn
    <3> QED BY <3>1, GrowsKeepsFrame
  <2>4. ASSUME NEW i \in 2 .. Len(stack'[w])
        PROVE  FrameIn(shelf', stack'[w][i]) /\ stack'[w][i].at = "deps"
    <3>1. i + 1 \in 2 .. Len(stack[w]) /\ stack'[w][i] = stack[w][i + 1]
      BY <2>1, <2>2
    <3> QED BY <2>3, <3>1
  <2>5. 2 \in 2 .. Len(stack[w])
    BY <2>1, <2>2
  <2>6. /\ stack[w][2] \in Frames /\ FrameIn(shelf', stack[w][2]) /\ stack[w][2].at = "deps"
    BY <2>3, <2>5
  <2>7. FrameIn(shelf', stack'[w][1]) /\ stack'[w][1].at \in {"deps", "failed"}
    <3>1. CASE v = NoVersion
      <4>1. stack'[w][1] = [stack[w][2] EXCEPT !.at = "failed"]
        BY <2>1, <3>1
      <4>2. stack'[w][1].at = "failed"
        BY <2>6, <4>1 DEF Frames
      <4> QED BY <4>2 DEF FrameIn
    <3>2. CASE v # NoVersion
      <4>1. stack'[w][1] = [stack[w][2] EXCEPT !.deps = @ \ {<<Top(w).name, Top(w).req>>}]
        BY <2>1, <3>2
      <4>2. FrameIn(shelf', [stack[w][2] EXCEPT !.deps = @ \ {<<Top(w).name, Top(w).req>>}])
        BY <2>6, <3>2, Resumes
      <4>3. stack'[w][1].at = "deps"
        BY <2>6, <4>1 DEF Frames
      <4> QED BY <4>1, <4>2, <4>3
    <3> QED BY <3>1, <3>2
  <2>8. StagingIn(staging'[w], Head(stack'[w]))
    BY <2>1, <2>7 DEF StagingIn
  <2>9. ASSUME NEW i \in 1 .. Len(stack'[w]) PROVE FrameIn(shelf', stack'[w][i])
    <3>1. i = 1 \/ i \in 2 .. Len(stack'[w])
      BY <2>1, <2>2
    <3> QED BY <2>4, <2>7, <3>1
  <2> QED BY <2>4, <2>8, <2>9 DEF WorkerIn
<1> QED BY <1>1, <1>2

LEMMA PushKeeps ==
  ASSUME TypeOK, NEW w \in Worker, Busy(w), WorkerIn(shelf, staging[w], stack[w]),
         Grows(shelf, shelf'), NEW n \in Name, NEW r \in Request, Top(w).at = "deps",
         stack' = [stack EXCEPT ![w] = <<Frame(n, r, FALSE)>> \o @]
  PROVE  /\ stack' \in [Worker -> Seq(Frames)]
         /\ \A u \in Worker \ {w} : stack'[u] = stack[u]
         /\ WorkerIn(shelf', staging'[w], stack'[w])
<1> DEFINE f == Frame(n, r, FALSE)
<1>1. f \in Frames /\ f.at = "lookup"
  BY NewFrameType DEF Frame
<1> HIDE DEF f
<1>2. stack[w] \in Seq(Frames) /\ Len(stack[w]) \in Nat /\ stack[w] # <<>>
  BY DEF TypeOK, Busy
<1>3. stack' = [stack EXCEPT ![w] = <<f>> \o stack[w]]
  BY DEF f
<1>4. stack'[w] = <<f>> \o stack[w] /\ \A u \in Worker \ {w} : stack'[u] = stack[u]
  BY <1>3 DEF TypeOK
<1>5. /\ stack'[w] \in Seq(Frames) /\ Len(stack'[w]) = Len(stack[w]) + 1 /\ stack'[w][1] = f
      /\ \A i \in 2 .. Len(stack[w]) + 1 : stack'[w][i] = stack[w][i - 1]
  <2>1. /\ <<f>> \o stack[w] \in Seq(Frames) /\ Len(<<f>> \o stack[w]) = Len(stack[w]) + 1
        /\ (<<f>> \o stack[w])[1] = f
        /\ \A i \in 2 .. Len(stack[w]) + 1 : (<<f>> \o stack[w])[i] = stack[w][i - 1]
    BY <1>1, <1>2, PushType
  <2> QED BY <1>4, <2>1
<1>6. Head(stack'[w]) = f
  <2>1. Len(stack'[w]) >= 1
    BY <1>2, <1>5
  <2>2. stack'[w] # <<>>
    BY <2>1
  <2> QED BY <1>5, <2>2, PopType
<1>7. ASSUME NEW i \in 2 .. Len(stack'[w])
      PROVE  FrameIn(shelf', stack'[w][i]) /\ stack'[w][i].at = "deps"
  <2>1. i - 1 \in 1 .. Len(stack[w]) /\ stack'[w][i] = stack[w][i - 1]
    BY <1>2, <1>5
  <2>2. stack[w][i - 1] \in Frames /\ FrameIn(shelf, stack[w][i - 1])
    BY <1>2, <2>1 DEF WorkerIn
  <2>3. i - 1 = 1 \/ i - 1 \in 2 .. Len(stack[w])
    BY <2>1, <1>2
  <2>4. stack[w][i - 1].at = "deps"
    BY <2>3, TopType DEF WorkerIn
  <2> QED BY <2>1, <2>2, <2>4, GrowsKeepsFrame
<1>8. ASSUME NEW i \in 1 .. Len(stack'[w]) PROVE FrameIn(shelf', stack'[w][i])
  <2>1. i = 1 \/ i \in 2 .. Len(stack'[w])
    BY <1>2, <1>5
  <2> QED BY <1>1, <1>5, <1>7, <2>1 DEF FrameIn
<1>9. StagingIn(staging'[w], Head(stack'[w]))
  BY <1>1, <1>6 DEF StagingIn
<1>10. WorkerIn(shelf', staging'[w], stack'[w])
  BY <1>7, <1>8, <1>9 DEF WorkerIn
<1>11. stack' \in [Worker -> Seq(Frames)]
  BY <1>3, <1>4, <1>5 DEF TypeOK
<1> QED BY <1>4, <1>10, <1>11

LEMMA StepKeeps ==
  ASSUME TypeOK, IInv, NEW w \in Worker, Busy(w), Stacks(w), Others(w)
  PROVE  TypeOK' /\ IInv'
<1>1. \A u \in Worker : WorkerIn(shelf, staging[u], stack[u])
  BY InvIn
<1>2. Grows(shelf, shelf') /\ OnShelfIn(shelf') /\ \A u \in Worker \ {w} : staging'[u] = staging[u]
  BY DEF Others
<1>3. /\ stack' \in [Worker -> Seq(Frames)]
      /\ \A u \in Worker \ {w} : stack'[u] = stack[u]
      /\ WorkerIn(shelf', staging'[w], stack'[w])
      /\ result' \in [Worker -> [name : Name, req : Request, ver : Version \cup {NoVersion}]]
  <2>1. ASSUME NEW f \in Frames, Update(w, f), UNCHANGED result,
               FrameIn(shelf', f), StagingIn(staging'[w], f)
        PROVE  <1>3!:
    <3>1. WorkerIn(shelf', staging'[w], stack'[w])
      BY <1>1, <1>2, <2>1, UpdateKeeps
    <3>2. /\ stack' \in [Worker -> Seq(Frames)]
          /\ \A u \in Worker \ {w} : stack'[u] = stack[u]
      BY <2>1, UpdateShape
    <3> QED BY <2>1, <3>1, <3>2 DEF TypeOK
  <2>2. ASSUME NEW v \in Version \cup {NoVersion}, Return(w, v),
               v # NoVersion => HeldIn(shelf', <<Top(w).name, Top(w).req>>)
        PROVE  <1>3!:
    <3>1. WorkerIn(shelf', staging'[w], stack'[w])
      BY <1>1, <1>2, <2>2, ReturnKeeps
    <3> QED BY <2>2, <3>1, ReturnShape
  <2>3. ASSUME NEW n \in Name, NEW r \in Request, Top(w).at = "deps", UNCHANGED result,
               stack' = [stack EXCEPT ![w] = <<Frame(n, r, FALSE)>> \o @]
        PROVE  <1>3!:
    <3>1. /\ stack' \in [Worker -> Seq(Frames)]
          /\ \A u \in Worker \ {w} : stack'[u] = stack[u]
          /\ WorkerIn(shelf', staging'[w], stack'[w])
      BY <1>1, <1>2, <2>3, PushKeeps
    <3> QED BY <2>3, <3>1 DEF TypeOK
  <2> QED BY <2>1, <2>2, <2>3 DEF Stacks
<1>4. TypeOK'
  BY <1>3 DEF TypeOK, Others
<1>5. ASSUME NEW u \in Worker PROVE WorkerIn(shelf', staging'[u], stack'[u])
  <2>1. CASE u = w
    BY <1>3, <2>1
  <2>2. CASE u # w
    <3>1. /\ stack'[u] = stack[u] /\ staging'[u] = staging[u] /\ stack[u] \in Seq(Frames)
      BY <1>2, <1>3, <2>2 DEF TypeOK
    <3> QED BY <1>1, <1>2, <3>1, GrowsKeepsWorker
  <2> QED BY <2>1, <2>2
<1> QED BY <1>2, <1>4, <1>5, InvInNext
-----------------------------------------------------------------------------
\* What the invariant says of the call a worker is in.
LEMMA TopIn ==
  ASSUME TypeOK, IInv, NEW w \in Worker, Busy(w)
  PROVE  FrameIn(shelf, Top(w)) /\ StagingIn(staging[w], Top(w))
<1>1. WorkerIn(shelf, staging[w], stack[w])
  BY InvIn
<1>2. stack[w] \in Seq(Frames) /\ Len(stack[w]) >= 1 /\ Len(stack[w]) \in Nat
  BY PopType DEF TypeOK, Busy
<1>3. 1 \in 1 .. Len(stack[w])
  BY <1>2
<1>4. Top(w) = stack[w][1] /\ Top(w) = Head(stack[w])
  BY TopType DEF Top
<1> QED BY <1>1, <1>3, <1>4 DEF WorkerIn, Busy

\* A step that leaves the store alone.
LEMMA ShelfKept ==
  ASSUME TypeOK, IInv, UNCHANGED shelf
  PROVE  /\ Grows(shelf, shelf') /\ OnShelfIn(shelf')
         /\ shelf' \in [Name -> [Version -> {NoDir} \cup SUBSET File]]
BY InvIn DEF Grows, TypeOK

\* A call that returns a version that answers its request found it on the shelf.
LEMMA FoundIsHeld ==
  ASSUME TypeOK, NEW f \in Frames, NEW v \in AlreadyThere(f)
  PROVE  HeldIn(shelf, <<f.name, f.req>>)
<1>1. CASE f.req = Latest
  <2>1. v \in Version /\ shelf[f.name][v] # NoDir
    BY <1>1 DEF AlreadyThere, SameInstalled, Installed
  <2> QED BY <1>1, <2>1 DEF HeldIn, Fits
<1>2. CASE f.req # Latest
  <2>1. v \in BestInstalled(f.name, f.req)
    BY <1>2 DEF AlreadyThere
  <2>2. v \in Version /\ shelf[f.name][v] # NoDir /\ <<v, f.req>> \in Satisfies
    BY <2>1 DEF BestInstalled, Highest, Installed
  <2> QED BY <2>2 DEF HeldIn, Fits
<1> QED BY <1>1, <1>2

\* ... and so is a version that compares equal to one that answers it.
LEMMA EqualIsHeld ==
  ASSUME NEW sh, NEW f \in Frames, NEW u \in Version, f.ver \in Version,
         Fits(f.ver, f.req), Rank[u] = Rank[f.ver], sh[f.name][u] # NoDir
  PROVE  HeldIn(sh, <<f.name, f.req>>)
<1>1. f.req \in Request
  BY DEF Frames
<1>2. Fits(u, f.req)
  BY <1>1, StoreAssumption DEF Fits
<1> QED BY <1>2 DEF HeldIn

LEMMA RememberType ==
  ASSUME TypeOK, NEW n \in Name, NEW v \in Version \cup {NoVersion}, NEW r, RememberLatest(n, v, r)
  PROVE  latest' \in [Name -> [ver : Version \cup {NoVersion}, fresh : BOOLEAN]]
<1>1. [ver |-> v, fresh |-> TRUE] \in [ver : Version \cup {NoVersion}, fresh : BOOLEAN]
  OBVIOUS
<1>2. latest' = latest \/ latest' = [latest EXCEPT ![n] = [ver |-> v, fresh |-> TRUE]]
  BY DEF RememberLatest
<1> QED BY <1>1, <1>2 DEF TypeOK

LEMMA LookupSteps ==
  ASSUME TypeOK, IInv, NEW w \in Worker,
         Shortcut(w) \/ AskRegistry(w) \/ RegistryRefuses(w) \/ RegistryAnswers(w)
  PROVE  Busy(w) /\ Stacks(w) /\ Others(w)
<1>1. Busy(w)
  BY DEF Shortcut, AskRegistry, RegistryRefuses, RegistryAnswers, At
<1>2. Others(w)
  <2>1. UNCHANGED <<shelf, latest, staging, publishing, installs, crashes>>
    BY DEF Shortcut, AskRegistry, RegistryRefuses, RegistryAnswers
  <2> QED BY <2>1, ShelfKept DEF Others, TypeOK
<1> DEFINE f == Top(w)
<1>3. f \in Frames /\ f.name \in Name
  BY <1>1, TopType
<1> HIDE DEF f
<1>4. CASE Shortcut(w)
  <2>1. PICK v \in AlreadyThere(f) : Return(w, v)
    BY <1>4 DEF Shortcut, f
  <2>2. v \in Version /\ shelf' = shelf
    BY <1>4, AlreadyThereType DEF Shortcut
  <2>3. HeldIn(shelf, <<f.name, f.req>>)
    BY <1>3, FoundIsHeld
  <2>4. v # NoVersion => HeldIn(shelf', <<Top(w).name, Top(w).req>>)
    BY <2>2, <2>3 DEF f
  <2>5. v \in Version \cup {NoVersion}
    BY <2>2
  <2>6. Stacks(w)
    BY <2>1, <2>4, <2>5 DEF Stacks
  <2> QED BY <1>1, <1>2, <2>6
<1>5. CASE AskRegistry(w)
  <2> DEFINE g == [f EXCEPT !.at = "asked"]
  <2>0. g.at = "asked"
    BY <1>3 DEF Frames
  <2>1. g \in Frames /\ g.at = "asked"
    BY <1>3, <2>0, FrameTypes
  <2>2. Update(w, g) /\ UNCHANGED result
    BY <1>5 DEF AskRegistry, f
  <2> HIDE DEF g
  <2>3. FrameIn(shelf', g) /\ StagingIn(staging'[w], g)
    BY <2>1 DEF FrameIn, StagingIn
  <2> QED BY <1>1, <1>2, <2>1, <2>2, <2>3 DEF Stacks
<1>6. CASE RegistryRefuses(w)
  BY <1>1, <1>2, <1>6 DEF RegistryRefuses, Stacks
<1>7. CASE RegistryAnswers(w)
  <2>1. PICK v \in Published[f.name] :
          Fits(v, f.req) /\ Update(w, [f EXCEPT !.at = "deps", !.ver = v, !.deps = Deps[f.name][v]])
    BY <1>7 DEF RegistryAnswers, f
  <2>2. v \in Version /\ Deps[f.name][v] \in SUBSET (Name \X Request)
    BY <1>3, StoreAssumption
  <2> DEFINE g == [f EXCEPT !.at = "deps", !.ver = v, !.deps = Deps[f.name][v]]
  <2>3. g \in Frames
    BY <1>3, <2>2, FrameTypes
  <2>4. /\ g.at = "deps" /\ g.ver = v /\ g.deps = Deps[f.name][v]
        /\ g.name = f.name /\ g.req = f.req
    BY <1>3 DEF Frames
  <2>5. Update(w, g) /\ UNCHANGED result
    BY <1>7, <2>1 DEF RegistryAnswers
  <2> HIDE DEF g
  <2>6. FrameIn(shelf', g) /\ StagingIn(staging'[w], g)
    BY <2>1, <2>4 DEF FrameIn, StagingIn
  <2> QED BY <1>1, <1>2, <2>3, <2>5, <2>6 DEF Stacks
<1> QED BY <1>4, <1>5, <1>6, <1>7

LEMMA DependencySteps ==
  ASSUME TypeOK, IInv, NEW w \in Worker,
         InstallDependency(w) \/ DependencyFailed(w) \/ FoundAfterAll(w) \/ Stage(w)
  PROVE  Busy(w) /\ Stacks(w) /\ Others(w)
<1>1. Busy(w)
  BY DEF InstallDependency, DependencyFailed, FoundAfterAll, Stage, At
<1> DEFINE f == Top(w)
<1>2. f \in Frames /\ f.name \in Name /\ f.ver \in Version \cup {NoVersion} /\ f.deps \subseteq Name \X Request
  BY <1>1, TopType
<1>3. FrameIn(shelf, f)
  BY <1>1, TopIn
<1> HIDE DEF f
<1>4. CASE InstallDependency(w)
  <2>1. UNCHANGED <<shelf, latest, staging, publishing, installs, crashes>>
    BY <1>4 DEF InstallDependency
  <2>2. Others(w)
    BY <2>1, ShelfKept DEF Others, TypeOK
  <2>3. PICK dep \in f.deps :
          IF Len(stack[w]) > MaxDepth
          THEN Return(w, NoVersion)
          ELSE /\ stack' = [stack EXCEPT ![w] = <<Frame(dep[1], dep[2], FALSE)>> \o @]
               /\ UNCHANGED result
    BY <1>4 DEF InstallDependency, f
  <2>4. dep[1] \in Name /\ dep[2] \in Request /\ f.at = "deps"
    BY <1>2, <1>4 DEF InstallDependency, At, f
  <2>5. Stacks(w)
    BY <2>3, <2>4 DEF Stacks, f
  <2> QED BY <1>1, <2>2, <2>5
<1>5. CASE DependencyFailed(w)
  <2>1. UNCHANGED <<shelf, latest, staging, publishing, installs, crashes>> /\ Return(w, NoVersion)
    BY <1>5 DEF DependencyFailed
  <2>2. Others(w)
    BY <2>1, ShelfKept DEF Others, TypeOK
  <2> QED BY <1>1, <2>1, <2>2 DEF Stacks
<1>6. CASE FoundAfterAll(w)
  <2>1. /\ f.at = "deps" /\ SameInstalled(f.name, f.ver) # {}
        /\ RememberLatest(f.name, f.ver, f.req) /\ Return(w, f.ver)
        /\ UNCHANGED <<shelf, staging, publishing, installs, crashes>>
    BY <1>6 DEF FoundAfterAll, At, f
  <2>2. Others(w)
    BY <1>2, <2>1, ShelfKept, RememberType DEF Others, TypeOK
  <2>3. f.ver \in Version /\ Fits(f.ver, f.req)
    BY <1>2, <1>3, <2>1, StoreAssumption DEF FrameIn
  <2>4. PICK u \in Version : shelf[f.name][u] # NoDir /\ Rank[u] = Rank[f.ver]
    BY <2>1 DEF SameInstalled, Installed
  <2>5. HeldIn(shelf', <<f.name, f.req>>)
    BY <1>2, <2>1, <2>3, <2>4, EqualIsHeld
  <2>6. Stacks(w)
    BY <2>1, <2>3, <2>5 DEF Stacks, f
  <2> QED BY <1>1, <2>2, <2>6
<1>7. CASE Stage(w)
  <2>1. /\ f.at = "deps" /\ f.deps = {}
        /\ UNCHANGED <<shelf, latest, publishing, installs, crashes>>
    BY <1>7 DEF Stage, At, f
  <2>2. /\ f.ver \in Version /\ f.ver \in Published[f.name] /\ Fits(f.ver, f.req)
        /\ \A dep \in Deps[f.name][f.ver] \ f.deps : HeldIn(shelf, dep)
    BY <1>2, <1>3, <2>1, StoreAssumption DEF FrameIn
  <2>3. staging' = staging \/ staging' = [staging EXCEPT ![w] = {}]
    BY <1>7 DEF Stage
  <2>4. staging' \in [Worker -> SUBSET File] /\ \A u \in Worker \ {w} : staging'[u] = staging[u]
    BY <2>3 DEF TypeOK
  <2>5. Others(w)
    BY <2>1, <2>4, ShelfKept DEF Others, TypeOK
  <2>6. CASE Return(w, NoVersion)
    BY <1>1, <2>5, <2>6 DEF Stacks
  <2>7. CASE /\ staging' = [staging EXCEPT ![w] = {}]
             /\ Update(w, [f EXCEPT !.at = "download", !.left = Files[f.name][f.ver]])
             /\ UNCHANGED result
    <3> DEFINE g == [f EXCEPT !.at = "download", !.left = Files[f.name][f.ver]]
    <3>1. Files[f.name][f.ver] \in SUBSET File
      BY <1>2, <2>2, StoreAssumption
    <3>2. g \in Frames
      BY <1>2, <3>1, FrameTypes
    <3>3. /\ g.at = "download" /\ g.left = Files[f.name][f.ver] /\ g.deps = f.deps
          /\ g.name = f.name /\ g.req = f.req /\ g.ver = f.ver
      BY <1>2 DEF Frames
    <3>4. Update(w, g)
      BY <2>7
    <3> HIDE DEF g
    <3>5. FrameIn(shelf', g)
      BY <2>1, <2>2, <3>3 DEF FrameIn
    <3>6. staging'[w] = {}
      BY <2>7 DEF TypeOK
    <3>7. StagingIn(staging'[w], g)
      BY <3>3, <3>6 DEF StagingIn
    <3> QED BY <1>1, <2>5, <2>7, <3>2, <3>4, <3>5, <3>7 DEF Stacks
  <2> QED BY <1>7, <2>6, <2>7 DEF Stage, f
<1> QED BY <1>4, <1>5, <1>6, <1>7

LEMMA DownloadSteps ==
  ASSUME TypeOK, IInv, NEW w \in Worker,
         Download(w) \/ DownloadFails(w) \/ EnterPublish(w)
  PROVE  Busy(w) /\ Stacks(w) /\ Others(w)
<1>1. Busy(w)
  BY DEF Download, DownloadFails, EnterPublish, At
<1> DEFINE f == Top(w)
<1>2. f \in Frames /\ f.name \in Name /\ f.left \subseteq File
  BY <1>1, TopType
<1>3. FrameIn(shelf, f) /\ StagingIn(staging[w], f)
  BY <1>1, TopIn
<1>4. f.at = "download"
  BY DEF Download, DownloadFails, EnterPublish, At, f
<1> HIDE DEF f
<1>5. f.ver \in Version /\ f.ver \in Published[f.name] /\ f.deps = {}
  BY <1>2, <1>3, <1>4, StoreAssumption DEF FrameIn
<1>6. f.left \subseteq Files[f.name][f.ver] /\ staging[w] = Files[f.name][f.ver] \ f.left
  BY <1>3, <1>4 DEF StagingIn
<1>7. CASE Download(w)
  <2>1. PICK x \in f.left : /\ staging' = [staging EXCEPT ![w] = @ \cup {x}]
                            /\ Update(w, [f EXCEPT !.left = @ \ {x}])
    BY <1>7 DEF Download, f
  <2>2. UNCHANGED <<shelf, latest, publishing, result, installs, crashes>>
    BY <1>7 DEF Download
  <2>3. /\ staging' \in [Worker -> SUBSET File] /\ \A u \in Worker \ {w} : staging'[u] = staging[u]
        /\ staging'[w] = staging[w] \cup {x}
    BY <1>2, <2>1 DEF TypeOK
  <2>4. Others(w)
    BY <2>2, <2>3, ShelfKept DEF Others, TypeOK
  <2> DEFINE g == [f EXCEPT !.left = @ \ {x}]
  <2>5. g \in Frames
    BY <1>2, FrameTypes
  <2>6. /\ g.at = "download" /\ g.left = f.left \ {x} /\ g.deps = f.deps
        /\ g.name = f.name /\ g.req = f.req /\ g.ver = f.ver
    BY <1>2, <1>4 DEF Frames
  <2>7. Update(w, g)
    BY <2>1
  <2> HIDE DEF g
  <2>8. FrameIn(shelf', g)
    BY <1>3, <1>4, <2>2, <2>6 DEF FrameIn
  <2>9. StagingIn(staging'[w], g)
    BY <1>6, <2>3, <2>6 DEF StagingIn
  <2> QED BY <1>1, <2>2, <2>4, <2>5, <2>7, <2>8, <2>9 DEF Stacks
<1>8. CASE DownloadFails(w)
  <2>1. /\ staging' = [staging EXCEPT ![w] = {}] /\ Return(w, NoVersion)
        /\ UNCHANGED <<shelf, latest, publishing, installs, crashes>>
    BY <1>8 DEF DownloadFails
  <2>2. staging' \in [Worker -> SUBSET File] /\ \A u \in Worker \ {w} : staging'[u] = staging[u]
    BY <2>1 DEF TypeOK
  <2>3. Others(w)
    BY <2>1, <2>2, ShelfKept DEF Others, TypeOK
  <2> QED BY <1>1, <2>1, <2>3 DEF Stacks
<1>9. CASE EnterPublish(w)
  <2>1. /\ f.left = {} /\ publishing' = [publishing EXCEPT ![ProcessOf[w]] = w]
        /\ Update(w, [f EXCEPT !.at = "publish"])
        /\ UNCHANGED <<shelf, latest, staging, result, installs, crashes>>
    BY <1>9 DEF EnterPublish, f
  <2>2. publishing' \in [Process -> Worker \cup {NoWorker}]
    BY <2>1, StoreAssumption DEF TypeOK
  <2>3. Others(w)
    BY <2>1, <2>2, ShelfKept DEF Others, TypeOK
  <2> DEFINE g == [f EXCEPT !.at = "publish"]
  <2>4. g \in Frames
    BY <1>2, FrameTypes
  <2>5. /\ g.at = "publish" /\ g.deps = f.deps
        /\ g.name = f.name /\ g.req = f.req /\ g.ver = f.ver
    BY <1>2 DEF Frames
  <2>6. Update(w, g)
    BY <2>1
  <2> HIDE DEF g
  <2>7. FrameIn(shelf', g)
    BY <1>3, <1>4, <1>5, <2>1, <2>5 DEF FrameIn
  <2>8. StagingIn(staging'[w], g)
    BY <1>6, <2>1, <2>5 DEF StagingIn
  <2> QED BY <1>1, <2>1, <2>3, <2>4, <2>6, <2>7, <2>8 DEF Stacks
<1> QED BY <1>7, <1>8, <1>9

LEMMA PublishSteps ==
  ASSUME TypeOK, IInv, NEW w \in Worker,
         MoveSucceeds(w) \/ MoveFails(w) \/ FinishPublish(w)
  PROVE  Busy(w) /\ Stacks(w) /\ Others(w)
<1>1. Busy(w)
  BY DEF MoveSucceeds, MoveFails, FinishPublish, At
<1> DEFINE f == Top(w)
           g == [f EXCEPT !.at = "published"]
<1>2. f \in Frames /\ f.name \in Name /\ f.ver \in Version \cup {NoVersion}
  BY <1>1, TopType
<1>3. FrameIn(shelf, f) /\ StagingIn(staging[w], f)
  BY <1>1, TopIn
<1>4. f.at \in {"publish", "published"}
  BY DEF MoveSucceeds, MoveFails, FinishPublish, At, f
<1>5. g \in Frames
  BY <1>2, FrameTypes
<1>6. /\ g.at = "published" /\ g.deps = f.deps
      /\ g.name = f.name /\ g.req = f.req /\ g.ver = f.ver
  BY <1>2 DEF Frames
<1>7. CASE MoveSucceeds(w)
  <2>1. /\ f.at = "publish" /\ shelf[f.name][f.ver] = NoDir
        /\ shelf' = [shelf EXCEPT ![f.name][f.ver] = staging[w]]
        /\ staging' = [staging EXCEPT ![w] = {}]
        /\ Update(w, g)
        /\ UNCHANGED <<latest, publishing, result, installs, crashes>>
    BY <1>7 DEF MoveSucceeds, At
  <2> HIDE DEF f, g
  <2>2. /\ f.ver \in Version /\ f.ver \in Published[f.name] /\ f.deps = {} /\ Fits(f.ver, f.req)
        /\ \A dep \in Deps[f.name][f.ver] : HeldIn(shelf, dep)
    BY <1>2, <1>3, <2>1, StoreAssumption DEF FrameIn
  <2>3. staging[w] = Files[f.name][f.ver] /\ staging[w] \in SUBSET File /\ staging[w] # NoDir
    BY <1>3, <2>1, StoreAssumption DEF StagingIn, TypeOK
  <2>4. /\ \A n \in Name, v \in Version :
             ~(n = f.name /\ v = f.ver) => shelf'[n][v] = shelf[n][v]
        /\ shelf'[f.name][f.ver] = staging[w]
        /\ shelf' \in [Name -> [Version -> {NoDir} \cup SUBSET File]]
    BY <1>2, <2>1, <2>2, <2>3 DEF TypeOK
  <2>5. Grows(shelf, shelf')
    BY <2>1, <2>4 DEF Grows
  <2>6. \A dep \in Deps[f.name][f.ver] : HeldIn(shelf', dep)
    BY <1>2, <2>2, <2>5, GrowsKeepsHeld, StoreAssumption
  <2>7. ASSUME NEW n \in Name, NEW v \in Version, shelf'[n][v] # NoDir
        PROVE  /\ v \in Published[n] /\ shelf'[n][v] = Files[n][v]
               /\ \A dep \in Deps[n][v] : HeldIn(shelf', dep)
    <3>1. CASE n = f.name /\ v = f.ver
      BY <2>2, <2>3, <2>4, <2>6, <3>1
    <3>2. CASE ~(n = f.name /\ v = f.ver)
      <4>1. shelf'[n][v] = shelf[n][v] /\ shelf[n][v] # NoDir
        BY <2>4, <2>7, <3>2
      <4>2. /\ v \in Published[n] /\ shelf[n][v] = Files[n][v]
            /\ \A dep \in Deps[n][v] : HeldIn(shelf, dep)
        BY <4>1, InvIn DEF OnShelfIn
      <4> QED BY <2>5, <4>1, <4>2, GrowsKeepsHeld, StoreAssumption
    <3> QED BY <3>1, <3>2
  <2>8. OnShelfIn(shelf')
    BY <2>7 DEF OnShelfIn
  <2>9. Others(w)
    BY <2>1, <2>4, <2>5, <2>8 DEF Others, TypeOK
  <2>10. shelf'[f.name][f.ver] # NoDir
    BY <2>3, <2>4
  <2>11. FrameIn(shelf', g)
    BY <1>6, <2>2, <2>6, <2>10 DEF FrameIn
  <2>12. StagingIn(staging'[w], g)
    BY <1>6 DEF StagingIn
  <2> QED BY <1>1, <1>5, <2>1, <2>9, <2>11, <2>12 DEF Stacks
<1>8. CASE MoveFails(w)
  <2>1. /\ f.at = "publish" /\ staging' = [staging EXCEPT ![w] = {}]
        /\ UNCHANGED <<shelf, latest, installs, crashes>>
        /\ \/ Update(w, g) /\ UNCHANGED <<result, publishing>> /\ SameInstalled(f.name, f.ver) # {}
           \/ Return(w, NoVersion) /\ publishing' = [publishing EXCEPT ![ProcessOf[w]] = NoWorker]
    BY <1>8 DEF MoveFails, At
  <2> HIDE DEF f, g
  <2>2. staging' \in [Worker -> SUBSET File] /\ \A u \in Worker \ {w} : staging'[u] = staging[u]
    BY <2>1 DEF TypeOK
  <2>3. publishing' \in [Process -> Worker \cup {NoWorker}]
    BY <2>1 DEF TypeOK
  <2>4. Others(w)
    BY <2>1, <2>2, <2>3, ShelfKept DEF Others, TypeOK
  <2>5. CASE Return(w, NoVersion)
    BY <1>1, <2>4, <2>5 DEF Stacks
  <2>6. CASE Update(w, g) /\ UNCHANGED result /\ SameInstalled(f.name, f.ver) # {}
    <3>1. PICK u \in Version : shelf[f.name][u] # NoDir /\ Rank[u] = Rank[f.ver]
      BY <2>6 DEF SameInstalled, Installed
    <3>2. FrameIn(shelf', g)
      BY <1>3, <1>6, <2>1, <3>1 DEF FrameIn
    <3>3. StagingIn(staging'[w], g)
      BY <1>6 DEF StagingIn
    <3> QED BY <1>1, <1>5, <2>4, <2>6, <3>2, <3>3 DEF Stacks
  <2> QED BY <2>1, <2>5, <2>6
<1>9. CASE FinishPublish(w)
  <2>1. /\ f.at = "published" /\ RememberLatest(f.name, f.ver, f.req) /\ Return(w, f.ver)
        /\ publishing' = [publishing EXCEPT ![ProcessOf[w]] = NoWorker]
        /\ UNCHANGED <<shelf, staging, installs, crashes>>
    BY <1>9 DEF FinishPublish, At
  <2> HIDE DEF f, g
  <2>2. publishing' \in [Process -> Worker \cup {NoWorker}]
    BY <2>1 DEF TypeOK
  <2>3. latest' \in [Name -> [ver : Version \cup {NoVersion}, fresh : BOOLEAN]]
    BY <1>2, <2>1, RememberType
  <2>4. Others(w)
    BY <2>1, <2>2, <2>3, ShelfKept DEF Others, TypeOK
  <2>5. /\ f.ver \in Version /\ Fits(f.ver, f.req)
        /\ \E u \in Version : shelf[f.name][u] # NoDir /\ Rank[u] = Rank[f.ver]
    BY <1>2, <1>3, <2>1, StoreAssumption DEF FrameIn
  <2>6. HeldIn(shelf', <<f.name, f.req>>)
    BY <1>2, <2>1, <2>5, EqualIsHeld
  <2>7. Stacks(w)
    BY <2>1, <2>5, <2>6 DEF Stacks, f
  <2> QED BY <1>1, <2>4, <2>7
<1> QED BY <1>7, <1>8, <1>9
-----------------------------------------------------------------------------
LEMMA WorkKeeps ==
  ASSUME TypeOK, IInv, NEW w \in Worker, Work(w)
  PROVE  Busy(w) /\ Others(w) /\ TypeOK' /\ IInv'
<1>1. Busy(w) /\ Stacks(w) /\ Others(w)
  BY LookupSteps, DependencySteps, DownloadSteps, PublishSteps DEF Work
<1> QED BY <1>1, StepKeeps

LEMMA InstallKeeps ==
  ASSUME TypeOK, IInv, NEW w \in Worker, NEW n \in Name, NEW r \in Request, NEW b \in BOOLEAN,
         Install(w, n, r, b)
  PROVE  TypeOK' /\ IInv'
<1> DEFINE f == Frame(n, r, b)
<1>1. f \in Frames /\ f.at = "lookup"
  BY NewFrameType DEF Frame
<1>2. /\ stack' = [stack EXCEPT ![w] = <<f>>] /\ installs' = [installs EXCEPT ![w] = @ + 1]
      /\ UNCHANGED <<shelf, latest, staging, publishing, result, crashes>>
  BY DEF Install
<1> HIDE DEF f
<1>3. /\ stack' \in [Worker -> Seq(Frames)] /\ stack'[w] = <<f>>
      /\ \A u \in Worker \ {w} : stack'[u] = stack[u]
  BY <1>1, <1>2 DEF TypeOK
<1>4. installs' \in [Worker -> Nat]
  BY <1>2 DEF TypeOK
<1>5. TypeOK'
  BY <1>2, <1>3, <1>4 DEF TypeOK
<1>6. FrameIn(shelf', f) /\ StagingIn(staging'[w], f)
  BY <1>1 DEF FrameIn, StagingIn
<1>7. Len(stack'[w]) = 1 /\ stack'[w][1] = f /\ Head(stack'[w]) = f /\ 1 .. 1 = {1} /\ 2 .. 1 = {}
  BY <1>3
<1>8. WorkerIn(shelf', staging'[w], stack'[w])
  BY <1>6, <1>7 DEF WorkerIn
<1>9. ASSUME NEW u \in Worker PROVE WorkerIn(shelf', staging'[u], stack'[u])
  BY <1>2, <1>3, <1>8, InvIn
<1>10. OnShelfIn(shelf')
  BY <1>2, InvIn
<1> QED BY <1>5, <1>9, <1>10, InvInNext

LEMMA CrashKeeps ==
  ASSUME TypeOK, IInv, NEW p \in Process, Crash(p)
  PROVE  TypeOK' /\ IInv'
<1>1. /\ stack' = [w \in Worker |-> IF ProcessOf[w] = p THEN <<>> ELSE stack[w]]
      /\ result' = [w \in Worker |-> IF ProcessOf[w] = p THEN [result[w] EXCEPT !.ver = NoVersion]
                                                         ELSE result[w]]
      /\ publishing' = [publishing EXCEPT ![p] = NoWorker]
      /\ crashes' = crashes + 1
      /\ UNCHANGED <<shelf, latest, staging, installs>>
  BY DEF Crash
<1>2. stack' \in [Worker -> Seq(Frames)]
  BY <1>1 DEF TypeOK
<1>3. result' \in [Worker -> [name : Name, req : Request, ver : Version \cup {NoVersion}]]
  <2>1. ASSUME NEW w \in Worker
        PROVE  [result[w] EXCEPT !.ver = NoVersion]
                 \in [name : Name, req : Request, ver : Version \cup {NoVersion}]
    BY DEF TypeOK
  <2> QED BY <1>1, <2>1 DEF TypeOK
<1>4. TypeOK'
  BY <1>1, <1>2, <1>3 DEF TypeOK
<1>5. ASSUME NEW w \in Worker PROVE WorkerIn(shelf', staging'[w], stack'[w])
  <2>1. CASE ProcessOf[w] = p
    <3>1. stack'[w] = <<>> /\ Len(<<>>) = 0 /\ 1 .. 0 = {} /\ 2 .. 0 = {}
      BY <1>1, <2>1
    <3> QED BY <3>1 DEF WorkerIn
  <2>2. CASE ProcessOf[w] # p
    BY <1>1, <2>2, InvIn
  <2> QED BY <2>1, <2>2
<1>6. OnShelfIn(shelf')
  BY <1>1, InvIn
<1> QED BY <1>4, <1>5, <1>6, InvInNext

LEMMA DayPassesKeeps ==
  ASSUME TypeOK, IInv, NEW n \in Name, DayPasses(n)
  PROVE  TypeOK' /\ IInv'
<1>1. /\ latest' = [latest EXCEPT ![n].fresh = FALSE]
      /\ UNCHANGED <<shelf, staging, publishing, stack, result, installs, crashes>>
  BY DEF DayPasses
<1>2. latest' \in [Name -> [ver : Version \cup {NoVersion}, fresh : BOOLEAN]]
  <2>1. [latest[n] EXCEPT !.fresh = FALSE] \in [ver : Version \cup {NoVersion}, fresh : BOOLEAN]
    BY DEF TypeOK
  <2>2. latest' = [latest EXCEPT ![n] = [latest[n] EXCEPT !.fresh = FALSE]]
    BY <1>1 DEF TypeOK
  <2> QED BY <2>1, <2>2 DEF TypeOK
<1> QED BY <1>1, <1>2, InvIn, InvInNext DEF TypeOK

LEMMA InitHolds == Init => TypeOK /\ IInv
<1> SUFFICES ASSUME Init PROVE TypeOK /\ IInv
  OBVIOUS
<1>1. (CHOOSE n \in Name : TRUE) \in Name
  BY StoreAssumption
<1>2. TypeOK
  <2>1. <<>> \in Seq(Frames) /\ 0 \in Nat
    OBVIOUS
  <2> QED BY <1>1, <2>1, StoreAssumption DEF Init, TypeOK
<1>3. OnShelfIn(shelf)
  BY DEF Init, OnShelfIn
<1>4. ASSUME NEW w \in Worker PROVE WorkerIn(shelf, staging[w], stack[w])
  <2>1. stack[w] = <<>> /\ Len(<<>>) = 0 /\ 1 .. 0 = {} /\ 2 .. 0 = {}
    BY DEF Init
  <2> QED BY <2>1 DEF WorkerIn
<1> QED BY <1>2, <1>3, <1>4, InvIn

\* For any number of workers and processes, any registry and any number of crashes:
\* the variables keep their types, what is in the store is complete with its
\* dependencies, and every nested install is consistent with it.
THEOREM InstallsConsistent == Spec => [](TypeOK /\ IInv)
<1>1. Init => TypeOK /\ IInv
  BY InitHolds
<1>2. TypeOK /\ IInv /\ [Next]_vars => (TypeOK /\ IInv)'
  <2> SUFFICES ASSUME TypeOK, IInv, [Next]_vars PROVE (TypeOK /\ IInv)'
    OBVIOUS
  <2>1. CASE UNCHANGED vars
    BY <2>1, InvIn, InvInNext DEF vars, TypeOK
  <2>2. ASSUME NEW w \in Worker, Work(w) PROVE (TypeOK /\ IInv)'
    BY <2>2, WorkKeeps
  <2>3. ASSUME NEW w \in Worker, NEW n \in Name, NEW r \in Request, NEW b \in BOOLEAN,
               Install(w, n, r, b)
        PROVE  (TypeOK /\ IInv)'
    BY <2>3, InstallKeeps
  <2>4. ASSUME NEW p \in Process, Crash(p) PROVE (TypeOK /\ IInv)'
    BY <2>4, CrashKeeps
  <2>5. ASSUME NEW n \in Name, DayPasses(n) PROVE (TypeOK /\ IInv)'
    BY <2>5, DayPassesKeeps
  <2> QED BY <2>1, <2>2, <2>3, <2>4, <2>5 DEF Next, Finished
<1> QED BY <1>1, <1>2, PTL DEF Spec
-----------------------------------------------------------------------------
\* A version folder that exists holds exactly the files of its version, whatever died
\* or lost a race while installing.
THEOREM FoldersAreComplete == Spec => []FoldersComplete
<1>1. IInv => FoldersComplete
  BY DEF IInv, OnShelf, FoldersComplete
<1> QED BY <1>1, InstallsConsistent, PTL

\* The registry has files for every version it publishes.  Without this the next two
\* theorems fail: the loser of a race then takes the empty folder for no install.
EveryVersionHasFiles == \A n \in Name : \A v \in Published[n] : Files[n][v] # {}

\* What a version in the store depends on is installed.
THEOREM DependenciesComeFirst ==
  ASSUME EveryVersionHasFiles PROVE Spec => []DependenciesInstalled
<1>1. IInv => DependenciesInstalled
  <2> SUFFICES ASSUME IInv, NEW n \in Name, NEW v \in Version, shelf[n][v] # NoDir,
                      NEW dep \in Deps[n][v]
               PROVE  \E u \in Installed(dep[1]) : Fits(u, dep[2])
    BY DEF DependenciesInstalled
  <2>1. dep[1] \in Name
    BY StoreAssumption
  <2>2. PICK u \in Version : shelf[dep[1]][u] # NoDir /\ Fits(u, dep[2])
    BY DEF IInv, OnShelf, Held
  <2>3. shelf[dep[1]][u] = Files[dep[1]][u] /\ u \in Published[dep[1]]
    BY <2>1, <2>2 DEF IInv, OnShelf
  <2>4. u \in Installed(dep[1])
    BY <2>1, <2>2, <2>3 DEF Installed, EveryVersionHasFiles
  <2> QED BY <2>2, <2>4
<1> QED BY <1>1, InstallsConsistent, PTL

\* The store that readers see changes only by whole versions, each once and after its
\* dependencies.
THEOREM ImplementsVersionStore == Spec => StoreSpec
<1>1. Init => VersionStore!StoreInit
  BY DEF Init, VersionStore!StoreInit
<1>2. TypeOK /\ IInv /\ [Next]_vars
        => [\E n \in Name, v \in Version : VersionStore!Add(n, v)]_shelf
  <2> SUFFICES ASSUME TypeOK, IInv, [Next]_vars, shelf' # shelf
               PROVE  \E n \in Name, v \in Version : VersionStore!Add(n, v)
    OBVIOUS
  <2>1. PICK w \in Worker : MoveSucceeds(w)
    BY DEF Next, Work, vars, Install, Crash, DayPasses, Finished, Shortcut, AskRegistry,
           RegistryRefuses, RegistryAnswers, InstallDependency, DependencyFailed,
           FoundAfterAll, Stage, Download, DownloadFails, EnterPublish, MoveFails, FinishPublish
  <2>2. Busy(w) /\ Top(w).at = "publish"
    BY <2>1 DEF MoveSucceeds, At
  <2> DEFINE f == Top(w)
  <2>3. f \in Frames /\ f.name \in Name /\ FrameIn(shelf, f) /\ StagingIn(staging[w], f)
    BY <2>2, TopType, TopIn
  <2>4. /\ shelf[f.name][f.ver] = NoDir
        /\ shelf' = [shelf EXCEPT ![f.name][f.ver] = staging[w]]
    BY <2>1 DEF MoveSucceeds
  <2> HIDE DEF f
  <2>5. f.at = "publish"
    BY <2>2 DEF f
  <2>6. /\ f.ver \in Version /\ staging[w] = Files[f.name][f.ver]
        /\ \A dep \in Deps[f.name][f.ver] : HeldIn(shelf, dep)
    BY <2>3, <2>5, StoreAssumption DEF FrameIn, StagingIn
  <2>7. VersionStore!DependenciesHeld(f.name, f.ver)
    BY <2>6 DEF VersionStore!DependenciesHeld, VersionStore!Fits, HeldIn, Fits
  <2>8. VersionStore!Add(f.name, f.ver)
    BY <2>4, <2>6, <2>7 DEF VersionStore!Add
  <2> QED BY <2>3, <2>6, <2>8
<1> QED BY <1>1, <1>2, InstallsConsistent, PTL DEF Spec, StoreSpec, VersionStore!StoreSpec

\* A move that finds its version folder in place goes on to return it.
THEOREM LosersDoNotFail ==
  ASSUME EveryVersionHasFiles PROVE Spec => LosingTheRaceIsFine
<1> DEFINE Lost(w) == At(w, "publish") /\ shelf[Top(w).name][Top(w).ver] # NoDir
           Goes(w) == At(w, "publish") \/ At(w, "published")
<1>1. ASSUME TypeOK, IInv, [Next]_vars, NEW w \in Worker, Lost(w), crashes' = crashes
      PROVE  Goes(w)'
  <2> DEFINE f == Top(w)
  <2>1. Busy(w) /\ f.at = "publish" /\ shelf[f.name][f.ver] # NoDir
    BY <1>1 DEF At
  <2>2. f \in Frames /\ f.name \in Name /\ FrameIn(shelf, f)
    BY <1>1, <2>1, TopType, TopIn
  <2> HIDE DEF f
  <2>3. f.ver \in Version /\ f.ver \in Published[f.name]
    BY <2>1, <2>2, StoreAssumption DEF FrameIn
  <2>4. f.ver \in SameInstalled(f.name, f.ver)
    <3>1. shelf[f.name][f.ver] = Files[f.name][f.ver]
      BY <1>1, <2>1, <2>2, <2>3 DEF IInv, OnShelf
    <3> QED BY <2>1, <2>2, <2>3, <3>1 DEF SameInstalled, Installed, EveryVersionHasFiles
  <2>5. ASSUME stack'[w] = stack[w] PROVE Goes(w)'
    BY <2>1, <2>5 DEF At, Busy, Top, f
  <2>6. CASE UNCHANGED vars
    BY <2>5, <2>6 DEF vars
  <2>7. ASSUME NEW u \in Worker, u # w, Work(u) PROVE Goes(w)'
    <3>1. Busy(u) /\ Stacks(u)
      BY <1>1, <2>7, LookupSteps, DependencySteps, DownloadSteps, PublishSteps DEF Work
    <3>2. stack'[w] = stack[w]
      <4>1. ASSUME NEW v \in Version \cup {NoVersion}, Return(u, v) PROVE stack'[w] = stack[w]
        BY <1>1, <2>7, <3>1, <4>1, ReturnShape
      <4> QED BY <1>1, <2>7, <3>1, <4>1 DEF Stacks, Update, TypeOK
    <3> QED BY <2>5, <3>2
  <2>8. ASSUME Work(w) PROVE Goes(w)'
    <3>1. MoveFails(w)
      <4>1. ~MoveSucceeds(w)
        BY <2>1 DEF MoveSucceeds, f
      <4> QED BY <2>1, <2>8, <4>1 DEF Work, Shortcut, AskRegistry, RegistryRefuses, RegistryAnswers,
             InstallDependency, DependencyFailed, FoundAfterAll, Stage, Download, DownloadFails,
             EnterPublish, FinishPublish, At, f
    <3> DEFINE g == [f EXCEPT !.at = "published"]
    <3>2. Update(w, g)
      BY <2>4, <3>1 DEF MoveFails, f
    <3>3. g \in Frames
      BY <2>2, FrameTypes
    <3>4. g.at = "published"
      BY <2>2 DEF Frames
    <3> HIDE DEF g
    <3>5. stack'[w] # <<>> /\ Head(stack'[w]) = g
      BY <1>1, <2>1, <3>2, <3>3, UpdateShape
    <3> QED BY <3>4, <3>5 DEF At, Busy, Top
  <2>9. ASSUME NEW u \in Worker, NEW n \in Name, NEW r \in Request, NEW b \in BOOLEAN,
               Install(u, n, r, b)
        PROVE  Goes(w)'
    <3>1. u # w
      BY <2>1, <2>9 DEF Install
    <3>2. stack'[w] = stack[w]
      BY <1>1, <2>9, <3>1 DEF Install, TypeOK
    <3> QED BY <2>5, <3>2
  <2>10. ASSUME NEW p \in Process, Crash(p) PROVE Goes(w)'
    <3>1. crashes' = crashes + 1 /\ crashes \in Nat
      BY <1>1, <2>10 DEF Crash, TypeOK
    <3> QED BY <1>1, <3>1
  <2>11. ASSUME NEW n \in Name, DayPasses(n) PROVE Goes(w)'
    BY <2>5, <2>11 DEF DayPasses
  <2> QED BY <1>1, <2>6, <2>7, <2>8, <2>9, <2>10, <2>11 DEF Next, Finished
<1>2. TypeOK /\ IInv /\ [Next]_vars
        => [\A w \in Worker : (Lost(w) /\ crashes' = crashes) => Goes(w)']_vars
  BY <1>1
<1>3. [](TypeOK /\ IInv) /\ [][Next]_vars
        => [][\A w \in Worker : (Lost(w) /\ crashes' = crashes) => Goes(w)']_vars
  BY <1>2, PTL
<1> QED BY <1>3, InstallsConsistent DEF Spec, LosingTheRaceIsFine
-----------------------------------------------------------------------------
\* What an install returned, and what latest.json names, is published and in the store,
\* up to a version that compares equal to it.
PresentIn(sh, n, v) ==
  v \in Published[n] /\ \E u \in Version : sh[n][u] # NoDir /\ Rank[u] = Rank[v]

AnswersPresent ==
  /\ \A w \in Worker : result[w].ver # NoVersion =>
       /\ PresentIn(shelf, result[w].name, result[w].ver)
       /\ Fits(result[w].ver, result[w].req)
  /\ \A n \in Name : latest[n].ver # NoVersion => PresentIn(shelf, n, latest[n].ver)

LEMMA GrowsKeepsPresent ==
  ASSUME Grows(shelf, shelf'), NEW n \in Name, NEW v, PresentIn(shelf, n, v)
  PROVE  PresentIn(shelf', n, v)
BY DEF Grows, PresentIn

\* How a step of an install changes the result of its worker and latest.json.
Answers(w) ==
  \E v \in Version \cup {NoVersion} :
    /\ v # NoVersion => PresentIn(shelf', Top(w).name, v) /\ Fits(v, Top(w).req)
    /\ \/ UNCHANGED result
       \/ result' = [result EXCEPT ![w] = [name |-> Top(w).name, req |-> Top(w).req, ver |-> v]]
    /\ \/ UNCHANGED latest
       \/ v # NoVersion /\ latest' = [latest EXCEPT ![Top(w).name] = [ver |-> v, fresh |-> TRUE]]

LEMMA ReturnAnswers ==
  ASSUME NEW w \in Worker, NEW v \in Version \cup {NoVersion}, Return(w, v),
         v # NoVersion => PresentIn(shelf', Top(w).name, v) /\ Fits(v, Top(w).req),
         \/ UNCHANGED latest
         \/ v # NoVersion /\ RememberLatest(Top(w).name, v, Top(w).req)
  PROVE  Answers(w)
BY DEF Return, Answers, RememberLatest

LEMMA AnswersKeep ==
  ASSUME TypeOK, AnswersPresent, NEW w \in Worker, Busy(w), Grows(shelf, shelf'), Answers(w)
  PROVE  AnswersPresent'
<1> DEFINE n == Top(w).name  r == Top(w).req
<1>1. n \in Name
  BY TopType
<1> HIDE DEF n, r
<1>2. PICK v \in Version \cup {NoVersion} :
        /\ v # NoVersion => PresentIn(shelf', n, v) /\ Fits(v, r)
        /\ \/ UNCHANGED result
           \/ result' = [result EXCEPT ![w] = [name |-> n, req |-> r, ver |-> v]]
        /\ \/ UNCHANGED latest
           \/ v # NoVersion /\ latest' = [latest EXCEPT ![n] = [ver |-> v, fresh |-> TRUE]]
  BY DEF Answers, n, r
<1>3. ASSUME NEW u \in Worker, result'[u].ver # NoVersion
      PROVE  PresentIn(shelf', result'[u].name, result'[u].ver) /\ Fits(result'[u].ver, result'[u].req)
  <2>1. CASE result'[u] = result[u]
    <3>1. result[u].name \in Name
      BY DEF TypeOK
    <3> QED BY <1>3, <2>1, <3>1, GrowsKeepsPresent DEF AnswersPresent
  <2>2. CASE result'[u] = [name |-> n, req |-> r, ver |-> v]
    BY <1>2, <1>3, <2>2
  <2> QED BY <1>2, <2>1, <2>2 DEF TypeOK
<1>4. ASSUME NEW m \in Name, latest'[m].ver # NoVersion PROVE PresentIn(shelf', m, latest'[m].ver)
  <2>1. CASE latest'[m] = latest[m]
    BY <1>4, <2>1, GrowsKeepsPresent DEF AnswersPresent
  <2>2. CASE m = n /\ v # NoVersion /\ latest'[m] = [ver |-> v, fresh |-> TRUE]
    BY <1>2, <2>2
  <2> QED BY <1>2, <2>1, <2>2 DEF TypeOK
<1> QED BY <1>3, <1>4 DEF AnswersPresent

\* The steps that return a version.
LEMMA FoundAnswers ==
  ASSUME TypeOK, IInv, NEW w \in Worker, Shortcut(w)
  PROVE  Answers(w)
<1> DEFINE f == Top(w)
<1>1. Busy(w) /\ UNCHANGED <<shelf, latest>> /\ f.name \in Name
  BY TopType DEF Shortcut, At
<1>2. PICK v \in AlreadyThere(f) : Return(w, v)
  BY DEF Shortcut
<1> HIDE DEF f
<1>3. v \in Version /\ shelf[f.name][v] # NoDir
  BY DEF AlreadyThere, SameInstalled, BestInstalled, Highest, Installed
<1>4. PresentIn(shelf', f.name, v)
  BY <1>1, <1>3 DEF PresentIn, IInv, OnShelf
<1>5. Fits(v, f.req)
  BY DEF AlreadyThere, BestInstalled, Highest, Fits
<1> QED BY <1>1, <1>2, <1>3, <1>4, <1>5, ReturnAnswers DEF f

LEMMA InstalledAnswers ==
  ASSUME TypeOK, IInv, NEW w \in Worker, FoundAfterAll(w) \/ FinishPublish(w)
  PROVE  Answers(w)
<1> DEFINE f == Top(w)
<1>1. /\ Busy(w) /\ UNCHANGED shelf
      /\ RememberLatest(f.name, f.ver, f.req) /\ Return(w, f.ver)
      /\ \/ f.at = "deps" /\ SameInstalled(f.name, f.ver) # {}
         \/ f.at = "published"
  BY DEF FoundAfterAll, FinishPublish, At
<1>2. f \in Frames /\ f.name \in Name /\ FrameIn(shelf, f)
  BY <1>1, TopType, TopIn
<1> HIDE DEF f
<1>3. f.ver \in Published[f.name] /\ f.ver \in Version /\ Fits(f.ver, f.req)
  BY <1>1, <1>2, StoreAssumption DEF FrameIn
<1>4. \E u \in Version : shelf[f.name][u] # NoDir /\ Rank[u] = Rank[f.ver]
  BY <1>1, <1>2 DEF FrameIn, SameInstalled, Installed
<1>5. PresentIn(shelf', f.name, f.ver)
  BY <1>1, <1>3, <1>4 DEF PresentIn
<1>6. f.ver # NoVersion
  BY <1>3, StoreAssumption
<1> QED BY <1>1, <1>3, <1>5, <1>6, ReturnAnswers DEF f

LEMMA WorkAnswers ==
  ASSUME TypeOK, IInv, NEW w \in Worker, Work(w)
  PROVE  Answers(w)
<1>1. ASSUME Return(w, NoVersion), UNCHANGED latest PROVE Answers(w)
  BY <1>1, ReturnAnswers
<1>2. ASSUME UNCHANGED <<result, latest>> PROVE Answers(w)
  BY <1>2 DEF Answers
<1>3. CASE Shortcut(w) \/ FoundAfterAll(w) \/ FinishPublish(w)
  BY <1>3, FoundAnswers, InstalledAnswers
<1>4. CASE RegistryRefuses(w) \/ DependencyFailed(w) \/ DownloadFails(w)
  BY <1>1, <1>4 DEF RegistryRefuses, DependencyFailed, DownloadFails
<1>5. CASE AskRegistry(w) \/ RegistryAnswers(w) \/ Download(w) \/ EnterPublish(w) \/ MoveSucceeds(w)
  BY <1>2, <1>5 DEF AskRegistry, RegistryAnswers, Download, EnterPublish, MoveSucceeds
<1>6. CASE InstallDependency(w) \/ Stage(w) \/ MoveFails(w)
  BY <1>1, <1>2, <1>6 DEF InstallDependency, Stage, MoveFails
<1> QED BY <1>3, <1>4, <1>5, <1>6 DEF Work

\* An install returns, and latest.json names, a version that was published, answers what
\* was asked and is in the store itself or as a version that compares equal to it.
THEOREM AnswersAreInStore == Spec => []AnswersPresent
<1>1. Init => AnswersPresent
  BY DEF Init, AnswersPresent
<1>2. TypeOK /\ IInv /\ AnswersPresent /\ [Next]_vars => AnswersPresent'
  <2> SUFFICES ASSUME TypeOK, IInv, AnswersPresent, [Next]_vars PROVE AnswersPresent'
    OBVIOUS
  <2>1. ASSUME UNCHANGED <<shelf, result, latest>> PROVE AnswersPresent'
    BY <2>1 DEF AnswersPresent
  <2>2. ASSUME NEW w \in Worker, Work(w) PROVE AnswersPresent'
    <3>1. Busy(w) /\ Grows(shelf, shelf')
      BY <2>2, WorkKeeps DEF Others
    <3> QED BY <2>2, <3>1, WorkAnswers, AnswersKeep
  <2>3. ASSUME NEW p \in Process, Crash(p) PROVE AnswersPresent'
    <3>1. /\ UNCHANGED <<shelf, latest>>
          /\ \A w \in Worker : result'[w] = result[w] \/ result'[w].ver = NoVersion
      BY <2>3 DEF Crash, TypeOK
    <3> QED BY <3>1 DEF AnswersPresent
  <2>4. ASSUME NEW n \in Name, DayPasses(n) PROVE AnswersPresent'
    <3>1. UNCHANGED <<shelf, result>> /\ \A m \in Name : latest'[m].ver = latest[m].ver
      BY <2>4 DEF DayPasses, TypeOK
    <3> QED BY <3>1 DEF AnswersPresent
  <2> QED BY <2>1, <2>2, <2>3, <2>4 DEF Next, Finished, Install, vars
<1> QED BY <1>1, <1>2, InstallsConsistent, PTL DEF Spec

\* No two published versions of a module compare equal.  Versions that differ in build
\* metadata only do; then the loser of a race returns a version whose folder does not
\* exist, and the next two theorems fail.
RanksDistinct == \A n \in Name : \A u, v \in Published[n] : Rank[u] = Rank[v] => u = v

LEMMA PresentIsInstalled ==
  ASSUME EveryVersionHasFiles, RanksDistinct, IInv, NEW n \in Name, NEW v, PresentIn(shelf, n, v)
  PROVE  v \in Installed(n)
<1>1. PICK u \in Version : shelf[n][u] # NoDir /\ Rank[u] = Rank[v]
  BY DEF PresentIn
<1>2. u \in Published[n] /\ shelf[n][u] = Files[n][u]
  BY <1>1 DEF IInv, OnShelf
<1>3. u = v
  BY <1>1, <1>2 DEF PresentIn, RanksDistinct
<1> QED BY <1>1, <1>2, <1>3 DEF Installed, EveryVersionHasFiles

\* What an install returned is a complete folder of the store that answers what was
\* asked, whoever published it and whatever lost the race for it or died meanwhile.
THEOREM ResultsAreInstalled ==
  ASSUME EveryVersionHasFiles, RanksDistinct PROVE Spec => []ResultIsInstalled
<1>1. TypeOK /\ IInv /\ AnswersPresent => ResultIsInstalled
  <2> SUFFICES ASSUME TypeOK, IInv, AnswersPresent, NEW w \in Worker, result[w].ver # NoVersion
               PROVE  /\ result[w].ver \in Installed(result[w].name)
                      /\ Fits(result[w].ver, result[w].req)
    BY DEF ResultIsInstalled
  <2>1. result[w].name \in Name
    BY DEF TypeOK
  <2> QED BY <2>1, PresentIsInstalled DEF AnswersPresent
<1> QED BY <1>1, InstallsConsistent, AnswersAreInStore, PTL

\* latest.json names a version only once that version is installed.
THEOREM LatestAreInstalled ==
  ASSUME EveryVersionHasFiles, RanksDistinct PROVE Spec => []LatestIsInstalled
<1>1. IInv /\ AnswersPresent => LatestIsInstalled
  BY PresentIsInstalled DEF AnswersPresent, LatestIsInstalled
<1> QED BY <1>1, InstallsConsistent, AnswersAreInStore, PTL
=============================================================================
