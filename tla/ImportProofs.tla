---------------------------- MODULE ImportProofs ----------------------------
(***************************************************************************)
(* Proofs about module Import, for every set of threads, names, folders    *)
(* and requests.  The inductive invariant is TypeOK /\ IInv: the entry of  *)
(* a name in resolved_dirs is the property of the installer whose promise  *)
(* it holds, from the promise to the publish, and that ownership is what   *)
(* the lock protects while the network runs outside it.                    *)
(***************************************************************************)
EXTENDS Import, TLAPS

\* The steps of the specification, the calls and the lock's acquisitions reduced to
\* the operators they share.
Steps(t) == \/ \E n \in Name, a \in Request, where \in {"enter", "enterSearch"} :
                 Begin(t, n, a, where)
            \/ \E n \in Name : CachedCall(t, n)
            \/ Lock(t, "enter", "lookup")
            \/ Lock(t, "publish", "publishing")
            \/ Lock(t, "enterSearch", "search")
            \/ FoundReady(t) \/ FoundPending(t) \/ Register(t)
            \/ Resolve(t) \/ Fulfil(t) \/ Publish(t)
            \/ Refuse(t) \/ NothingToLoad(t) \/ StartLoad(t) \/ EndLoad(t)
            \/ Search(t)

LEMMA NextSteps == [Next]_vars => UNCHANGED vars \/ \E t \in Thread : Steps(t)
<1>1. ASSUME NEW t \in Thread, Calls(t) PROVE Steps(t)
  BY <1>1, ImportAssumption DEF Calls, SearchCall, ImportCall, Steps
<1>2. ASSUME NEW t \in Thread, Step(t) PROVE Steps(t)
  BY <1>2 DEF Step, EnterLookup, EnterPublish, EnterSearch, Steps
<1>3. ASSUME NEW t \in Thread, Resolve(t) \/ EndLoad(t) PROVE Steps(t)
  BY <1>3 DEF Steps
<1> QED BY <1>1, <1>2, <1>3 DEF Next, Finished

-----------------------------------------------------------------------------
\* Every reachable state has values of the declared types.

LEMMA ReturnType ==
  ASSUME TypeOK, NEW t \in Thread, Return(t)
  PROVE  /\ pc' \in [Thread -> Places]
         /\ call' \in [Thread -> Call]
         /\ outer' \in [Thread -> Seq(Call)]
<1>1. CASE outer[t] = <<>>
  BY <1>1 DEF TypeOK, Return, Goto, Places
<1>2. CASE outer[t] # <<>>
  <2>1. Head(outer[t]) \in Call /\ Tail(outer[t]) \in Seq(Call)
    BY <1>2 DEF TypeOK
  <2> QED BY <1>2, <2>1 DEF TypeOK, Return, Goto, Places
<1> QED BY <1>1, <1>2

LEMMA BeginType ==
  ASSUME TypeOK, NEW t \in Thread, NEW n \in Name, NEW a \in Request,
         NEW where \in {"enter", "enterSearch"}, Begin(t, n, a, where)
  PROVE  TypeOK'
<1>1. NoCall(n, a) \in Call
  BY DEF NoCall, Call
<1>2. <<call[t]>> \o outer[t] \in Seq(Call)
  BY DEF TypeOK
<1>3. calls' \in [Thread -> Nat] /\ outer' \in [Thread -> Seq(Call)]
  BY <1>2 DEF TypeOK, Begin
<1> QED BY <1>1, <1>3 DEF TypeOK, Begin, Goto, Places

THEOREM TypeCorrect == Spec => []TypeOK
<1>1. Init => TypeOK
  BY ImportAssumption DEF Init, TypeOK, NoCall, Call, Entry, Absent, Places
<1>2. TypeOK /\ [Next]_vars => TypeOK'
  <2> SUFFICES ASSUME TypeOK, [Next]_vars PROVE TypeOK'
    OBVIOUS
  <2>0. CASE UNCHANGED vars
    BY <2>0 DEF TypeOK, vars
  <2>1. ASSUME NEW t \in Thread, Steps(t) PROVE TypeOK'
    <3>1. CASE \E n \in Name, a \in Request, where \in {"enter", "enterSearch"} :
                 Begin(t, n, a, where)
      BY <3>1, BeginType
    <3>2. CASE \E n \in Name : CachedCall(t, n)
      BY <3>2 DEF TypeOK, CachedCall
    <3>3. CASE \/ Lock(t, "enter", "lookup") \/ Lock(t, "publish", "publishing")
               \/ Lock(t, "enterSearch", "search")
      BY <3>3 DEF TypeOK, Lock, Goto, Places
    <3>4. CASE FoundReady(t)
      BY <3>4 DEF TypeOK, FoundReady, Goto, Places, Call, Entry
    <3>5. CASE FoundPending(t)
      <4>1. call[t] \in Call /\ entry[call[t].name].by \in Thread \cup {NoThread}
        BY DEF TypeOK, Call, Entry
      <4>2. [call[t] EXCEPT !.on = entry[call[t].name].by] \in Call
        BY <4>1 DEF Call
      <4> QED BY <3>5, <4>2 DEF TypeOK, FoundPending, Goto, Places
    <3>6. CASE Register(t)
      BY <3>6 DEF TypeOK, Register, Goto, Places, Call, Entry, Pending
    <3>7. CASE Resolve(t)
      <4>1. PICK d \in Folder \cup {NoFolder} : call' = [call EXCEPT ![t].dir = d]
        BY <3>7 DEF Resolve, Answers
      <4>2. [call[t] EXCEPT !.dir = d] \in Call
        BY DEF TypeOK, Call
      <4> QED BY <3>7, <4>1, <4>2 DEF TypeOK, Resolve, Goto, Places
    <3>8. CASE Fulfil(t)
      BY <3>8 DEF TypeOK, Fulfil, Places, Call, Entry, Ready
    <3>9. CASE Publish(t)
      BY <3>9 DEF TypeOK, Publish, Goto, Places, Call, Entry, Absent
    <3>10. CASE Refuse(t) \/ NothingToLoad(t)
      BY <3>10, ReturnType DEF TypeOK, Refuse, NothingToLoad
    <3>11. CASE StartLoad(t)
      <4>1. call[t].name \in Name /\ call[t].dir \in Folder \cup {NoFolder}
        BY DEF TypeOK, Call
      <4>2. Len(outer[t]) + 1 \in Nat
        BY DEF TypeOK
      <4> QED BY <3>11, <4>1, <4>2 DEF TypeOK, StartLoad, Goto, Places
    <3>12. CASE EndLoad(t)
      <4>1. Len(outer[t]) \in Nat /\ call[t].name \in Name
        BY DEF TypeOK, Call
      <4>2. stored[t] \cup {call[t].name} \in SUBSET Name
        BY <4>1 DEF TypeOK
      <4>3. stored' \in [Thread -> SUBSET Name]
        BY <3>12, <4>2 DEF TypeOK, EndLoad
      <4> QED BY <3>12, <4>1, <4>3, ReturnType DEF TypeOK, EndLoad
    <3>13. CASE Search(t)
      <4>1. call[t].name \in Name /\ entry[call[t].name].dir \in Folder \cup {NoFolder}
        BY DEF TypeOK, Call, Entry
      <4>2. used' \subseteq Name \X (Folder \cup {NoFolder})
        BY <3>13, <4>1 DEF TypeOK, Search
      <4> QED BY <3>13, <4>2, ReturnType DEF TypeOK, Search
    <3> QED BY <2>1, <3>1, <3>2, <3>3, <3>4, <3>5, <3>6, <3>7, <3>8, <3>9, <3>10,
               <3>11, <3>12, <3>13 DEF Steps
  <2> QED BY <2>0, <2>1, NextSteps
<1> QED BY <1>1, <1>2, PTL DEF Spec

-----------------------------------------------------------------------------
\* IInv is inductive: one lemma per action that writes a place, a call or an entry
\* it speaks about.

LEMMA ReturnIInv ==
  ASSUME TypeOK, IInv, NEW t \in Thread, Return(t),
         pc[t] \in {"check", "load", "search"}, UNCHANGED entry,
         \A u \in used' : \/ u \in used
                          \/ /\ entry[u[1]].state = "ready"
                             /\ entry[u[1]].dir = u[2] /\ u[2] # NoFolder
  PROVE  IInv'
<1>1. /\ pc' = [pc EXCEPT ![t] = pc'[t]] /\ pc'[t] \in {"idle", "load"}
      /\ \A w \in Thread \ {t} : pc'[w] = pc[w] /\ call'[w] = call[w]
  BY DEF Return, Goto, TypeOK
<1>2. InstallerOwnsEntry'
  BY <1>1 DEF IInv, InstallerOwnsEntry, TypeOK
<1>3. PendingHasInstaller'
  BY <1>1 DEF IInv, PendingHasInstaller
<1>4. NoStrandedWaiter'
  BY <1>1 DEF IInv, NoStrandedWaiter
<1>5. UsedIsSettled'
  BY DEF IInv, UsedIsSettled
<1>6. CheckedIsSettled'
  BY <1>1 DEF IInv, CheckedIsSettled
<1> QED BY <1>2, <1>3, <1>4, <1>5, <1>6 DEF IInv

LEMMA BeginIInv ==
  ASSUME TypeOK, IInv, NEW t \in Thread, NEW n \in Name, NEW a \in Request,
         NEW where \in {"enter", "enterSearch"}, Begin(t, n, a, where)
  PROVE  IInv'
<1>1. /\ pc[t] \in {"idle", "load"} /\ pc'[t] \in {"enter", "enterSearch"}
      /\ \A w \in Thread \ {t} : pc'[w] = pc[w] /\ call'[w] = call[w]
      /\ UNCHANGED <<entry, used>>
  BY DEF Begin, Goto, TypeOK
<1>2. InstallerOwnsEntry'
  BY <1>1 DEF IInv, InstallerOwnsEntry
<1>3. PendingHasInstaller'
  BY <1>1 DEF IInv, PendingHasInstaller
<1>4. NoStrandedWaiter'
  BY <1>1 DEF IInv, NoStrandedWaiter
<1>5. UsedIsSettled'
  BY <1>1 DEF IInv, UsedIsSettled
<1>6. CheckedIsSettled'
  BY <1>1 DEF IInv, CheckedIsSettled
<1> QED BY <1>2, <1>3, <1>4, <1>5, <1>6 DEF IInv

LEMMA LockIInv ==
  ASSUME TypeOK, IInv, NEW t \in Thread, NEW from, NEW to, Lock(t, from, to),
         <<from, to>> \in {<<"enter", "lookup">>, <<"publish", "publishing">>,
                           <<"enterSearch", "search">>}
  PROVE  IInv'
<1>1. /\ pc[t] = from /\ pc'[t] = to
      /\ \A w \in Thread \ {t} : pc'[w] = pc[w]
      /\ UNCHANGED <<call, entry, used>>
  BY DEF Lock, Goto, TypeOK
<1>2. InstallerOwnsEntry'
  BY <1>1 DEF IInv, InstallerOwnsEntry
<1>3. PendingHasInstaller'
  BY <1>1 DEF IInv, PendingHasInstaller
<1>4. NoStrandedWaiter'
  BY <1>1 DEF IInv, NoStrandedWaiter
<1>5. UsedIsSettled'
  BY <1>1 DEF IInv, UsedIsSettled
<1>6. CheckedIsSettled'
  BY <1>1 DEF IInv, CheckedIsSettled
<1> QED BY <1>2, <1>3, <1>4, <1>5, <1>6 DEF IInv

LEMMA FoundReadyIInv ==
  ASSUME TypeOK, IInv, NEW t \in Thread, FoundReady(t)
  PROVE  IInv'
<1>1. /\ pc[t] = "lookup" /\ pc'[t] = "check"
      /\ \A w \in Thread \ {t} : pc'[w] = pc[w] /\ call'[w] = call[w]
      /\ call'[t].name = call[t].name
      /\ call'[t].dir = entry[call[t].name].dir
      /\ entry[call[t].name].state = "ready"
      /\ UNCHANGED <<entry, used>>
  BY DEF FoundReady, Goto, TypeOK, Call
<1>2. InstallerOwnsEntry'
  BY <1>1 DEF IInv, InstallerOwnsEntry
<1>3. PendingHasInstaller'
  BY <1>1 DEF IInv, PendingHasInstaller
<1>4. NoStrandedWaiter'
  BY <1>1 DEF IInv, NoStrandedWaiter
<1>5. UsedIsSettled'
  BY <1>1 DEF IInv, UsedIsSettled
<1>6. CheckedIsSettled'
  BY <1>1 DEF IInv, CheckedIsSettled
<1> QED BY <1>2, <1>3, <1>4, <1>5, <1>6 DEF IInv

LEMMA FoundPendingIInv ==
  ASSUME TypeOK, IInv, NEW t \in Thread, FoundPending(t)
  PROVE  IInv'
<1>1. /\ pc[t] = "lookup" /\ pc'[t] = "wait"
      /\ \A w \in Thread \ {t} : pc'[w] = pc[w] /\ call'[w] = call[w]
      /\ call[t].name \in Name /\ call'[t].name = call[t].name
      /\ call'[t].on = entry[call[t].name].by
      /\ entry[call[t].name].state = "pending"
      /\ UNCHANGED <<entry, used>>
  BY DEF FoundPending, Goto, TypeOK, Call
<1>2. InstallerOwnsEntry'
  BY <1>1 DEF IInv, InstallerOwnsEntry
<1>3. PendingHasInstaller'
  BY <1>1 DEF IInv, PendingHasInstaller
<1>4. NoStrandedWaiter'
  <2>1. \E o \in Thread : /\ call'[t].on = o /\ o # t
                          /\ pc[o] \in {"resolve", "fulfil"}
                          /\ call[o].name = call[t].name
    <3>1. PICK o \in Thread : /\ entry[call[t].name] = Pending(o)
                             /\ pc[o] \in {"resolve", "fulfil"}
                             /\ call[o].name = call[t].name
      BY <1>1 DEF IInv, PendingHasInstaller
    <3>2. entry[call[t].name].by = o
      BY <3>1 DEF Pending
    <3> QED BY <1>1, <3>1, <3>2
  <2>2. ASSUME NEW w \in Thread \ {t}, pc'[w] = "wait"
        PROVE  \E o \in Thread : /\ call'[w].on = o
                                 /\ pc'[o] \in {"resolve", "fulfil"}
                                 /\ call'[o].name = call'[w].name
    <3>1. PICK o \in Thread : /\ call[w].on = o /\ o # t
                             /\ pc[o] \in {"resolve", "fulfil"}
                             /\ call[o].name = call[w].name
      BY <1>1, <2>2 DEF IInv, NoStrandedWaiter
    <3> QED BY <1>1, <3>1
  <2> QED BY <1>1, <2>1, <2>2 DEF NoStrandedWaiter
<1>5. UsedIsSettled'
  BY <1>1 DEF IInv, UsedIsSettled
<1>6. CheckedIsSettled'
  BY <1>1 DEF IInv, CheckedIsSettled
<1> QED BY <1>2, <1>3, <1>4, <1>5, <1>6 DEF IInv

LEMMA RegisterIInv ==
  ASSUME TypeOK, IInv, NEW t \in Thread, Register(t)
  PROVE  IInv'
<1>1. /\ pc[t] = "lookup" /\ pc'[t] = "resolve"
      /\ \A w \in Thread \ {t} : pc'[w] = pc[w]
      /\ call[t].name \in Name /\ entry[call[t].name].state = "absent"
      /\ entry'[call[t].name] = Pending(t)
      /\ \A n \in Name \ {call[t].name} : entry'[n] = entry[n]
      /\ UNCHANGED <<call, used>>
      /\ \A u \in used : u[1] \in Name
      /\ \A w \in Thread : call[w].name \in Name
  BY DEF Register, Goto, TypeOK, Call, Absent
<1>2. InstallerOwnsEntry'
  BY <1>1 DEF IInv, InstallerOwnsEntry, Pending, Ready
<1>3. PendingHasInstaller'
  BY <1>1 DEF IInv, PendingHasInstaller, Pending
<1>4. NoStrandedWaiter'
  BY <1>1 DEF IInv, NoStrandedWaiter
<1>5. UsedIsSettled'
  BY <1>1 DEF IInv, UsedIsSettled
<1>6. CheckedIsSettled'
  BY <1>1 DEF IInv, CheckedIsSettled
<1> QED BY <1>2, <1>3, <1>4, <1>5, <1>6 DEF IInv

LEMMA ResolveIInv ==
  ASSUME TypeOK, IInv, NEW t \in Thread, Resolve(t)
  PROVE  IInv'
<1>1. /\ pc[t] = "resolve" /\ pc'[t] = "fulfil"
      /\ \A w \in Thread \ {t} : pc'[w] = pc[w] /\ call'[w] = call[w]
      /\ call'[t].name = call[t].name
      /\ UNCHANGED <<entry, used>>
  BY DEF Resolve, Goto, TypeOK, Call
<1>2. InstallerOwnsEntry'
  BY <1>1 DEF IInv, InstallerOwnsEntry
<1>3. PendingHasInstaller'
  BY <1>1 DEF IInv, PendingHasInstaller
<1>4. NoStrandedWaiter'
  BY <1>1 DEF IInv, NoStrandedWaiter
<1>5. UsedIsSettled'
  BY <1>1 DEF IInv, UsedIsSettled
<1>6. CheckedIsSettled'
  BY <1>1 DEF IInv, CheckedIsSettled
<1> QED BY <1>2, <1>3, <1>4, <1>5, <1>6 DEF IInv

LEMMA FulfilIInv ==
  ASSUME TypeOK, IInv, NEW t \in Thread, Fulfil(t)
  PROVE  IInv'
<1> DEFINE waiters == {w \in Thread : pc[w] = "wait" /\ call[w].on = t}
           n == call[t].name
           d == call[t].dir
<1>1. /\ pc[t] = "fulfil" /\ pc'[t] = "publish" /\ call'[t] = call[t]
      /\ \A w \in Thread \ ({t} \cup waiters) : pc'[w] = pc[w] /\ call'[w] = call[w]
      /\ \A w \in waiters : /\ pc[w] = "wait" /\ pc'[w] = "check"
                            /\ call'[w].name = call[w].name
                            /\ call'[w].dir = d
      /\ n \in Name /\ entry'[n] = Ready(t, d)
      /\ \A m \in Name \ {n} : entry'[m] = entry[m]
      /\ UNCHANGED used
  BY DEF Fulfil, TypeOK, Call
<1>2. entry[n] = Pending(t)
  BY <1>1 DEF IInv, InstallerOwnsEntry
<1>3. \A w \in waiters : call[w].name = n
  BY <1>1 DEF IInv, NoStrandedWaiter
<1>4. \A w \in Thread : call[w].name \in Name /\ call'[w].name = call[w].name
  BY <1>1 DEF TypeOK, Call
<1>5. InstallerOwnsEntry'
  BY <1>1, <1>2, <1>4 DEF IInv, InstallerOwnsEntry, Pending, Ready
<1>6. PendingHasInstaller'
  <2> SUFFICES ASSUME NEW m \in Name, entry'[m].state = "pending"
               PROVE  \E o \in Thread : /\ entry'[m] = Pending(o)
                                        /\ pc'[o] \in {"resolve", "fulfil"}
                                        /\ call'[o].name = m
    BY DEF PendingHasInstaller, Pending
  <2>1. m # n /\ entry'[m] = entry[m]
    BY <1>1 DEF Ready
  <2>2. PICK o \in Thread : /\ entry[m] = Pending(o)
                           /\ pc[o] \in {"resolve", "fulfil"}
                           /\ call[o].name = m
    BY <2>1 DEF IInv, PendingHasInstaller
  <2>3. o # t /\ o \notin waiters
    BY <2>1, <2>2
  <2> QED BY <1>1, <2>1, <2>2, <2>3
<1>7. NoStrandedWaiter'
  BY <1>1, <1>4 DEF IInv, NoStrandedWaiter
<1>8. UsedIsSettled'
  <2>1. \A u \in used : u[1] \in Name /\ u[1] # n
    BY <1>2 DEF IInv, UsedIsSettled, Pending, TypeOK
  <2> QED BY <1>1, <2>1 DEF IInv, UsedIsSettled
<1>9. CheckedIsSettled'
  BY <1>1, <1>2, <1>3, <1>4 DEF IInv, CheckedIsSettled, Pending, Ready
<1> QED BY <1>5, <1>6, <1>7, <1>8, <1>9 DEF IInv

LEMMA PublishIInv ==
  ASSUME TypeOK, IInv, NEW t \in Thread, Publish(t)
  PROVE  IInv'
<1> DEFINE n == call[t].name
<1>1. /\ pc[t] = "publishing" /\ pc'[t] = "check"
      /\ \A w \in Thread \ {t} : pc'[w] = pc[w]
      /\ UNCHANGED <<call, used>>
      /\ \A w \in Thread : call[w].name \in Name
      /\ \A u \in used : u[1] \in Name
      /\ \A m \in Name \ {n} : entry'[m] = entry[m]
  BY DEF Publish, Goto, TypeOK, Call
<1>2. entry[n] = Ready(t, call[t].dir)
  BY <1>1 DEF IInv, InstallerOwnsEntry
<1>3. \/ entry' = entry /\ call[t].dir # NoFolder
      \/ entry'[n] = Absent /\ entry[n].dir = NoFolder /\ call[t].dir = NoFolder
  BY <1>1, <1>2 DEF Publish, TypeOK, Ready
<1>4. InstallerOwnsEntry'
  BY <1>1, <1>2, <1>3 DEF IInv, InstallerOwnsEntry, Pending, Ready
<1>5. PendingHasInstaller'
  BY <1>1, <1>2, <1>3 DEF IInv, PendingHasInstaller, Absent
<1>6. NoStrandedWaiter'
  BY <1>1 DEF IInv, NoStrandedWaiter
<1>7. UsedIsSettled'
  BY <1>1, <1>3 DEF IInv, UsedIsSettled
<1>8. CheckedIsSettled'
  BY <1>1, <1>2, <1>3 DEF IInv, CheckedIsSettled, Ready
<1> QED BY <1>4, <1>5, <1>6, <1>7, <1>8 DEF IInv

LEMMA StartLoadIInv ==
  ASSUME TypeOK, IInv, NEW t \in Thread, StartLoad(t)
  PROVE  IInv'
<1>1. /\ pc[t] = "check" /\ pc'[t] = "load" /\ call[t].dir # NoFolder
      /\ \A w \in Thread \ {t} : pc'[w] = pc[w]
      /\ used' = used \cup {<<call[t].name, call[t].dir>>}
      /\ UNCHANGED <<call, entry>>
  BY DEF StartLoad, Goto, TypeOK
<1>2. InstallerOwnsEntry'
  BY <1>1 DEF IInv, InstallerOwnsEntry
<1>3. PendingHasInstaller'
  BY <1>1 DEF IInv, PendingHasInstaller
<1>4. NoStrandedWaiter'
  BY <1>1 DEF IInv, NoStrandedWaiter
<1>5. UsedIsSettled'
  BY <1>1 DEF IInv, UsedIsSettled, CheckedIsSettled
<1>6. CheckedIsSettled'
  BY <1>1 DEF IInv, CheckedIsSettled
<1> QED BY <1>2, <1>3, <1>4, <1>5, <1>6 DEF IInv

\* The invariant of the lock and the futures, in every reachable state.
THEOREM PromisesKept == Spec => []IInv
<1>1. Init => IInv
  BY ImportAssumption DEF Init, IInv, InstallerOwnsEntry, PendingHasInstaller,
     NoStrandedWaiter, UsedIsSettled, CheckedIsSettled, Absent
<1>2. TypeOK /\ IInv /\ [Next]_vars => IInv'
  <2> SUFFICES ASSUME TypeOK, IInv, [Next]_vars PROVE IInv'
    OBVIOUS
  <2>0. CASE UNCHANGED vars
    BY <2>0 DEF vars, IInv, InstallerOwnsEntry, PendingHasInstaller,
       NoStrandedWaiter, UsedIsSettled, CheckedIsSettled
  <2>1. ASSUME NEW t \in Thread, Steps(t) PROVE IInv'
    <3>1. CASE \E n \in Name, a \in Request, where \in {"enter", "enterSearch"} :
                 Begin(t, n, a, where)
      BY <3>1, BeginIInv
    <3>2. CASE \E n \in Name : CachedCall(t, n)
      BY <3>2 DEF CachedCall, IInv, InstallerOwnsEntry, PendingHasInstaller,
         NoStrandedWaiter, UsedIsSettled, CheckedIsSettled
    <3>3. CASE \/ Lock(t, "enter", "lookup") \/ Lock(t, "publish", "publishing")
               \/ Lock(t, "enterSearch", "search")
      BY <3>3, LockIInv
    <3>4. CASE FoundReady(t)
      BY <3>4, FoundReadyIInv
    <3>5. CASE FoundPending(t)
      BY <3>5, FoundPendingIInv
    <3>6. CASE Register(t)
      BY <3>6, RegisterIInv
    <3>7. CASE Resolve(t)
      BY <3>7, ResolveIInv
    <3>8. CASE Fulfil(t)
      BY <3>8, FulfilIInv
    <3>9. CASE Publish(t)
      BY <3>9, PublishIInv
    <3>10. CASE Refuse(t) \/ NothingToLoad(t)
      BY <3>10, ReturnIInv DEF Refuse, NothingToLoad
    <3>11. CASE StartLoad(t)
      BY <3>11, StartLoadIInv
    <3>12. CASE EndLoad(t)
      BY <3>12, ReturnIInv DEF EndLoad
    <3>13. CASE Search(t)
      <4>1. \A u \in used' : \/ u \in used
                             \/ /\ entry[u[1]].state = "ready"
                                /\ entry[u[1]].dir = u[2] /\ u[2] # NoFolder
        BY <3>13 DEF Search
      <4> QED BY <3>13, <4>1, ReturnIInv DEF Search
    <3> QED BY <2>1, <3>1, <3>2, <3>3, <3>4, <3>5, <3>6, <3>7, <3>8, <3>9, <3>10,
               <3>11, <3>12, <3>13 DEF Steps
  <2> QED BY <2>0, <2>1, NextSteps
<1> QED BY <1>1, <1>2, TypeCorrect, PTL DEF Spec

\* Nobody waits for a promise that no installer will set.
THEOREM NobodyStranded == Spec => []NoStrandedWaiter
<1>1. IInv => NoStrandedWaiter
  BY DEF IInv
<1> QED BY <1>1, PromisesKept, PTL

\* The lock is free during the network, and still one thread installs a module.
THEOREM SingleInstaller == Spec => []OneInstaller
<1>1. IInv => OneInstaller
  <2> SUFFICES ASSUME IInv PROVE OneInstaller
    OBVIOUS
  <2>1. \A t \in Thread : pc[t] \in Installing => entry[call[t].name].by = t
    <3> SUFFICES ASSUME NEW t \in Thread, pc[t] \in Installing
                 PROVE  entry[call[t].name].by = t
      OBVIOUS
    <3>1. \/ entry[call[t].name] = Pending(t)
          \/ entry[call[t].name] = Ready(t, call[t].dir)
      BY DEF IInv, InstallerOwnsEntry, Installing
    <3> QED BY <3>1 DEF Pending, Ready
  <2> QED BY <2>1 DEF OneInstaller
<1> QED BY <1>1, PromisesKept, PTL

\* One folder per module per process, whatever thread loads a file of it and on
\* whichever path, import or require.
THEOREM FolderUnique == Spec => []OneFolder
<1>1. IInv => OneFolder
  BY DEF IInv, UsedIsSettled, OneFolder
<1> QED BY <1>1, PromisesKept, PTL

\* A future that is ready but empty, between set_value and the erase of a failed
\* install, is never taken for a folder: nothing is loaded from the empty path.
THEOREM NeverLoadedFromWorkingDirectory == Spec => []NeverFromWorkingDirectory
<1>1. IInv => NeverFromWorkingDirectory
  BY DEF IInv, UsedIsSettled, NeverFromWorkingDirectory
<1> QED BY <1>1, PromisesKept, PTL

-----------------------------------------------------------------------------
\* What a thread's stack of loading modules looks like after a call and a return.

Loading(t) == IF pc[t] = "load" THEN 1 ELSE 0

LEMMA StackOfBegin ==
  ASSUME TypeOK, NEW t \in Thread, NEW n \in Name, NEW a \in Request,
         NEW where \in {"enter", "enterSearch"}, Begin(t, n, a, where)
  PROVE  /\ Len(outer'[t]) = Len(outer[t]) + Loading(t)
         /\ \A i \in 1 .. Len(outer'[t]) :
              \/ pc[t] = "load" /\ outer'[t][i] = call[t]
              \/ \E j \in 1 .. Len(outer[t]) : outer'[t][i] = outer[t][j]
<1>0. outer[t] \in Seq(Call) /\ call[t] \in Call
  BY DEF TypeOK
<1>1. CASE pc[t] = "load"
  <2>1. outer'[t] = <<call[t]>> \o outer[t]
    BY <1>1 DEF Begin, TypeOK
  <2>2. Len(outer'[t]) = Len(outer[t]) + 1
    BY <1>0, <2>1
  <2>3. ASSUME NEW i \in 1 .. Len(outer'[t])
        PROVE  \/ outer'[t][i] = call[t]
               \/ \E j \in 1 .. Len(outer[t]) : outer'[t][i] = outer[t][j]
    <3>1. CASE i = 1
      BY <1>0, <2>1, <3>1
    <3>2. CASE i # 1
      <4>1. i - 1 \in 1 .. Len(outer[t]) /\ outer'[t][i] = outer[t][i - 1]
        BY <1>0, <2>1, <2>2, <3>2
      <4> QED BY <4>1
    <3> QED BY <3>1, <3>2
  <2> QED BY <1>1, <2>2, <2>3 DEF Loading
<1>2. CASE pc[t] # "load"
  BY <1>0, <1>2 DEF Begin, Loading
<1> QED BY <1>1, <1>2

LEMMA StackOfReturn ==
  ASSUME TypeOK, NEW t \in Thread, Return(t)
  PROVE  /\ \A w \in Thread \ {t} :
              pc'[w] = pc[w] /\ call'[w] = call[w] /\ outer'[w] = outer[w]
         /\ \/ /\ pc'[t] = "idle" /\ outer[t] = <<>>
               /\ call'[t] = call[t] /\ outer'[t] = outer[t]
            \/ /\ pc'[t] = "load" /\ outer[t] # <<>>
               /\ call'[t] = outer[t][1]
               /\ Len(outer'[t]) = Len(outer[t]) - 1
               /\ \A i \in 1 .. Len(outer'[t]) : outer'[t][i] = outer[t][i + 1]
<1>0. outer[t] \in Seq(Call)
  BY DEF TypeOK
<1>1. CASE outer[t] = <<>>
  BY <1>1 DEF Return, Goto, TypeOK
<1>2. CASE outer[t] # <<>>
  <2>1. /\ pc' = [pc EXCEPT ![t] = "load"]
        /\ call' = [call EXCEPT ![t] = Head(outer[t])]
        /\ outer' = [outer EXCEPT ![t] = Tail(outer[t])]
    BY <1>2 DEF Return, Goto
  <2>2. /\ Head(outer[t]) = outer[t][1]
        /\ Len(Tail(outer[t])) = Len(outer[t]) - 1
        /\ \A i \in 1 .. Len(Tail(outer[t])) : Tail(outer[t])[i] = outer[t][i + 1]
    BY <1>0, <1>2
  <2> QED BY <1>2, <2>1, <2>2 DEF TypeOK
<1> QED BY <1>1, <1>2

\* Fits(c): the folder of a call is not of another version than it asked for.
Fits(c) == c.dir \in StoreFolder => c.asked \in Free \/ <<c.dir, c.asked>> \in Satisfies

StackInv ==
  \A t \in Thread : /\ pc[t] = "load" => Fits(call[t])
                    /\ \A i \in 1 .. Len(outer[t]) : Fits(outer[t][i])
                    /\ arg[t] = Len(outer[t]) + Loading(t)

LEMMA StackStep == TypeOK /\ StackInv /\ [Next]_vars => StackInv'
<1> SUFFICES ASSUME TypeOK, StackInv, [Next]_vars PROVE StackInv'
  OBVIOUS
<1>0. CASE UNCHANGED vars
  BY <1>0 DEF vars, StackInv, Loading, Fits
<1>1. ASSUME NEW t \in Thread, Steps(t) PROVE StackInv'
  <2>0. outer[t] \in Seq(Call) /\ Len(outer[t]) \in Nat
    BY DEF TypeOK
  <2>1. ASSUME NEW n \in Name, NEW a \in Request, NEW where \in {"enter", "enterSearch"},
               Begin(t, n, a, where)
        PROVE  StackInv'
    <3>1. /\ pc'[t] # "load" /\ arg' = arg
          /\ \A w \in Thread \ {t} :
               pc'[w] = pc[w] /\ call'[w] = call[w] /\ outer'[w] = outer[w]
      BY <2>1 DEF Begin, Goto, TypeOK
    <3>2. \A i \in 1 .. Len(outer'[t]) : Fits(outer'[t][i])
      BY <2>1, StackOfBegin DEF StackInv
    <3>3. arg'[t] = Len(outer'[t]) + 0
      BY <2>1, <3>1, StackOfBegin DEF StackInv, TypeOK, Loading
    <3> QED BY <3>1, <3>2, <3>3 DEF StackInv, Loading, Fits
  <2>2. ASSUME NEW w \in Thread, pc[w] # "load", pc'[w] # "load",
               outer'[w] = outer[w], arg'[w] = arg[w]
        PROVE  /\ pc'[w] = "load" => Fits(call'[w])
               /\ \A i \in 1 .. Len(outer'[w]) : Fits(outer'[w][i])
               /\ arg'[w] = Len(outer'[w]) + Loading(w)'
    BY <2>2 DEF StackInv, Loading, Fits
  <2>3. ASSUME NEW w \in Thread, pc'[w] = pc[w], call'[w] = call[w],
               outer'[w] = outer[w], arg'[w] = arg[w]
        PROVE  /\ pc'[w] = "load" => Fits(call'[w])
               /\ \A i \in 1 .. Len(outer'[w]) : Fits(outer'[w][i])
               /\ arg'[w] = Len(outer'[w]) + Loading(w)'
    BY <2>3 DEF StackInv, Loading, Fits
  <2>4. CASE \/ \E n \in Name : CachedCall(t, n)
             \/ Lock(t, "enter", "lookup") \/ Lock(t, "publish", "publishing")
             \/ Lock(t, "enterSearch", "search")
             \/ FoundReady(t) \/ FoundPending(t) \/ Register(t)
             \/ Resolve(t) \/ Publish(t)
    <3>1. /\ outer' = outer /\ arg' = arg
          /\ \A w \in Thread \ {t} : pc'[w] = pc[w] /\ call'[w] = call[w]
          /\ \/ pc'[t] = pc[t] /\ call'[t] = call[t]
             \/ pc[t] # "load" /\ pc'[t] # "load"
      BY <2>4 DEF CachedCall, Lock, FoundReady, FoundPending, Register, Resolve,
         Publish, Goto, TypeOK
    <3> QED BY <3>1, <2>2, <2>3 DEF StackInv
  <2>5. CASE Fulfil(t)
    <3>1. /\ outer' = outer /\ arg' = arg
          /\ \A w \in Thread : \/ pc'[w] = pc[w] /\ call'[w] = call[w]
                               \/ pc[w] # "load" /\ pc'[w] # "load"
      BY <2>5 DEF Fulfil, TypeOK
    <3> QED BY <3>1, <2>2, <2>3 DEF StackInv
  <2>6. CASE StartLoad(t)
    <3>1. /\ outer' = outer /\ call' = call
          /\ pc'[t] = "load" /\ Fits(call[t]) /\ arg'[t] = Len(outer[t]) + 1
          /\ \A w \in Thread \ {t} : pc'[w] = pc[w] /\ arg'[w] = arg[w]
      BY <2>6 DEF StartLoad, Goto, TypeOK, Contradicts, Fits
    <3> QED BY <3>1, <2>3 DEF StackInv, Loading, Fits
  <2>7. ASSUME Return(t), arg'[t] = Len(outer[t]),
               \A w \in Thread \ {t} : arg'[w] = arg[w]
        PROVE  StackInv'
    <3>1. \A i \in 1 .. Len(outer[t]) : Fits(outer[t][i])
      BY DEF StackInv
    <3>4. ASSUME NEW w \in Thread \ {t}
          PROVE  /\ pc'[w] = "load" => Fits(call'[w])
                 /\ \A i \in 1 .. Len(outer'[w]) : Fits(outer'[w][i])
                 /\ arg'[w] = Len(outer'[w]) + Loading(w)'
      BY <2>7, <2>3, StackOfReturn
    <3>5. SUFFICES /\ pc'[t] = "load" => Fits(call'[t])
                   /\ \A i \in 1 .. Len(outer'[t]) : Fits(outer'[t][i])
                   /\ arg'[t] = Len(outer'[t]) + Loading(t)'
      BY <3>4 DEF StackInv, Fits
    <3>2. CASE pc'[t] = "idle" /\ outer[t] = <<>> /\ outer'[t] = outer[t]
      BY <2>0, <2>7, <3>1, <3>2 DEF Loading
    <3>3. CASE /\ pc'[t] = "load" /\ outer[t] # <<>>
               /\ call'[t] = outer[t][1]
               /\ Len(outer'[t]) = Len(outer[t]) - 1
               /\ \A i \in 1 .. Len(outer'[t]) : outer'[t][i] = outer[t][i + 1]
      <4>1. Len(outer[t]) >= 1
        BY <2>0, <3>3
      <4>2. Fits(call'[t]) /\ \A i \in 1 .. Len(outer'[t]) : Fits(outer'[t][i])
        BY <2>0, <3>1, <3>3, <4>1
      <4>3. arg'[t] = Len(outer'[t]) + 1
        BY <2>0, <2>7, <3>3, <4>1
      <4> QED BY <3>3, <4>2, <4>3 DEF Loading
    <3> QED BY <2>7, <3>2, <3>3, StackOfReturn
  <2>8. CASE Refuse(t) \/ NothingToLoad(t) \/ Search(t)
    <3>1. arg' = arg /\ Return(t) /\ pc[t] # "load"
      BY <2>8 DEF Refuse, NothingToLoad, Search
    <3>2. arg'[t] = Len(outer[t])
      <4>1. arg[t] = Len(outer[t]) + 0
        BY <3>1 DEF StackInv, Loading
      <4> QED BY <2>0, <3>1, <4>1
    <3> QED BY <2>7, <3>1, <3>2
  <2>9. CASE EndLoad(t)
    BY <2>7, <2>9 DEF EndLoad, TypeOK
  <2> QED BY <1>1, <2>1, <2>4, <2>5, <2>6, <2>8, <2>9 DEF Steps
<1> QED BY <1>0, <1>1, NextSteps

\* What both theorems below rest on: the stack of loads a thread is in.
LEMMA StackHolds == Spec => []StackInv
<1>1. Init => StackInv
  <2> HAVE Init
  <2>1. ASSUME NEW t \in Thread
        PROVE  /\ pc[t] = "load" => Fits(call[t])
               /\ \A i \in 1 .. Len(outer[t]) : Fits(outer[t][i])
               /\ arg[t] = Len(outer[t]) + Loading(t)
    <3>1. pc[t] # "load" /\ Len(outer[t]) = 0 /\ arg[t] = 0
      BY DEF Init
    <3>2. 1 .. Len(outer[t]) = {}
      BY <3>1
    <3>3. Loading(t) = 0
      BY <3>1 DEF Loading
    <3> QED BY <3>1, <3>2, <3>3
  <2> QED BY <2>1 DEF StackInv
<1> QED BY <1>1, StackStep, TypeCorrect, PTL DEF Spec

\* A module that loads, or waits for a module it imports, has the version its import
\* asked for, whoever installed it.
THEOREM VersionsRight == Spec => []RightVersion
<1>1. StackInv => RightVersion
  BY DEF StackInv, RightVersion, Fits
<1> QED BY <1>1, StackHolds, PTL

\* `arg` is the innermost loading module's and restored by every way out of an import:
\* nested imports, refused versions and modules that raise.
THEOREM ArgsRestored == Spec => []ArgDiscipline
<1>1. StackInv => ArgDiscipline
  BY DEF StackInv, ArgDiscipline, Loading
<1> QED BY <1>1, StackHolds, PTL

-----------------------------------------------------------------------------
\* Import implements ModuleTable: a name gets one folder, once, and everything that
\* is loaded under the name is loaded from it.
THEOREM ImplementsTable == Spec => TableSpec
<1>1. Init => ModuleTable!TableInit
  BY DEF Init, ModuleTable!TableInit, table, Absent
<1>2. TypeOK /\ IInv /\ [Next]_vars => [ModuleTable!TableNext]_(ModuleTable!tableVars)
  <2> SUFFICES ASSUME TypeOK, IInv, [Next]_vars
               PROVE  [ModuleTable!TableNext]_(ModuleTable!tableVars)
    OBVIOUS
  <2>0. ASSUME UNCHANGED <<entry, used>>
        PROVE  UNCHANGED ModuleTable!tableVars
    BY <2>0 DEF ModuleTable!tableVars, table
  <2>1. ASSUME NEW t \in Thread, Fulfil(t)
        PROVE  [ModuleTable!TableNext]_(ModuleTable!tableVars)
    <3> DEFINE n == call[t].name
               d == call[t].dir
    <3>1. /\ n \in Name /\ d \in Folder \cup {NoFolder}
          /\ entry' = [entry EXCEPT ![n] = Ready(t, d)]
          /\ used' = used
      BY <2>1 DEF Fulfil, TypeOK, Call
    <3>2. table[n] = NoFolder
      <4>1. entry[n] = Pending(t)
        BY <2>1 DEF Fulfil, IInv, InstallerOwnsEntry
      <4> QED BY <3>1, <4>1 DEF Pending, table
    <3>3. table' = [table EXCEPT ![n] = d]
      BY <3>1 DEF table, Ready, TypeOK
    <3>4. CASE d = NoFolder
      BY <3>1, <3>2, <3>3, <3>4 DEF ModuleTable!tableVars, table
    <3>5. CASE d \in Folder
      BY <3>1, <3>2, <3>3, <3>5 DEF ModuleTable!TableNext, ModuleTable!Settle
    <3> QED BY <3>1, <3>4, <3>5
  <2>2. ASSUME NEW t \in Thread, StartLoad(t) \/ Search(t)
        PROVE  [ModuleTable!TableNext]_(ModuleTable!tableVars)
    <3> DEFINE n == call[t].name
    <3>1. n \in Name /\ UNCHANGED table
      BY <2>2 DEF StartLoad, Search, TypeOK, Call, table
    <3>2. \/ used' = used
          \/ used' = used \cup {<<n, table[n]>>} /\ table[n] # NoFolder
      BY <2>2, <3>1 DEF StartLoad, Search, IInv, CheckedIsSettled, table
    <3> QED BY <3>1, <3>2 DEF ModuleTable!TableNext, ModuleTable!Use, ModuleTable!tableVars
  <2>3. ASSUME NEW t \in Thread, Register(t) \/ Publish(t)
        PROVE  UNCHANGED ModuleTable!tableVars
    <3>1. used' = used /\ call[t].name \in Name
      BY <2>3 DEF Register, Publish, TypeOK, Call
    <3>2. CASE Register(t)
      BY <3>1, <3>2 DEF Register, table, Absent, Pending, TypeOK, ModuleTable!tableVars
    <3>3. CASE Publish(t)
      <4>1. entry[call[t].name] = Ready(t, call[t].dir)
        BY <3>3 DEF Publish, IInv, InstallerOwnsEntry
      <4> QED BY <3>1, <3>3, <4>1 DEF Publish, table, Absent, Ready, TypeOK,
              ModuleTable!tableVars
    <3> QED BY <2>3, <3>2, <3>3
  <2>4. ASSUME NEW t \in Thread, Steps(t)
        PROVE  \/ UNCHANGED <<entry, used>> \/ Fulfil(t) \/ StartLoad(t)
               \/ Search(t) \/ Register(t) \/ Publish(t)
    BY <2>4 DEF Steps, Begin, CachedCall, Lock, FoundReady, FoundPending, Resolve,
       Refuse, NothingToLoad, EndLoad
  <2> QED BY <2>0, <2>1, <2>2, <2>3, <2>4, NextSteps DEF vars
<1> QED BY <1>1, <1>2, TypeCorrect, PromisesKept, PTL
        DEF Spec, TableSpec, ModuleTable!TableSpec
=============================================================================
