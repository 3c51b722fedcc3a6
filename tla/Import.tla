------------------------------- MODULE Import -------------------------------
(***************************************************************************)
(* import(name, version) and the searcher behind require("name.sub"),      *)
(* src/src/lua/import.h, as the Lua states of ONE process run them.        *)
(*                                                                         *)
(* Every Lua state runs on a thread of its own.  They share import_mutex   *)
(* and the map resolved_dirs from a module name to a shared_future of the  *)
(* folder it resolved to.  The first importer of a name registers a        *)
(* promise under the lock, resolves (registry, downloads) WITHOUT the      *)
(* lock, fulfils the promise, and takes the lock again to keep the entry   *)
(* or, after a failure, to erase it.  Other importers of the name wait on  *)
(* the future, also without the lock.                                      *)
(*                                                                         *)
(* What resolve_module answers is a parameter here: any folder that fits   *)
(* what was asked, or none.  Module ImportStore puts the store behind it.  *)
(***************************************************************************)
EXTENDS Naturals, Sequences

CONSTANTS Thread,        \* the threads that run a Lua state
          NoThread,
          Name,          \* module names (the part before the first dot)
          Folder,        \* the folders a name can resolve to
          StoreFolder,   \* those of them that are version folders of the store
          NoFolder,      \* the empty path: it could not be resolved
          Request,       \* what an import may ask for
          Free,          \* the requests no folder contradicts: "", local, latest
          Satisfies,     \* <<d, a>>: the version of store folder d satisfies a
          MaxCalls,      \* bound: calls each thread makes
          MaxDepth       \* bound: nesting of imports made while a module loads

ASSUME ImportAssumption ==
  /\ NoThread \notin Thread
  /\ NoFolder \notin Folder
  /\ StoreFolder \subseteq Folder
  /\ Name # {} /\ Request # {}
  /\ Free \subseteq Request
  /\ Satisfies \subseteq StoreFolder \X Request
  /\ MaxCalls \in Nat /\ MaxDepth \in Nat

VARIABLES mutex,    \* the thread inside import_mutex, or NoThread
          entry,    \* entry[n]: resolved_dirs[n], the future with its value
          pc,       \* where each thread is
          call,     \* call[t]: the locals of the import or search t is in
          outer,    \* outer[t]: the imports whose module t is still loading
          arg,      \* arg[t]: whose arguments the global `arg` of t holds
          stored,   \* stored[t]: the keys of package.modules in t's state
          used,     \* history: <<n, d>>, a file of n was loaded from folder d
          calls     \* bound counter

vars == <<mutex, entry, pc, call, outer, arg, stored, used, calls>>

Absent == [state |-> "absent", by |-> NoThread, dir |-> NoFolder]
Pending(t) == [state |-> "pending", by |-> t, dir |-> NoFolder]
Ready(t, d) == [state |-> "ready", by |-> t, dir |-> d]

\* The folders resolve_module may answer: a bundled or source folder whatever
\* was asked, a store folder only when its version is what was asked for.
Answers(a) == {d \in Folder : \/ d \notin StoreFolder
                              \/ a \in Free
                              \/ <<d, a>> \in Satisfies}

Installing == {"resolve", "fulfil", "publish", "publishing"}

NoCall(n, a) == [name |-> n, asked |-> a, dir |-> NoFolder, on |-> NoThread]

Init == /\ mutex = NoThread
        /\ entry = [n \in Name |-> Absent]
        /\ pc = [t \in Thread |-> "idle"]
        /\ call = [t \in Thread |-> NoCall(CHOOSE n \in Name : TRUE,
                                           CHOOSE a \in Request : TRUE)]
        /\ outer = [t \in Thread |-> <<>>]
        /\ arg = [t \in Thread |-> 0]
        /\ stored = [t \in Thread |-> {}]
        /\ used = {}
        /\ calls = [t \in Thread |-> 0]

Goto(t, where) == pc' = [pc EXCEPT ![t] = where]

\* The call of t ends: the script goes on, or the module that made it does.
Return(t) == IF outer[t] = <<>>
             THEN /\ Goto(t, "idle")
                  /\ UNCHANGED <<call, outer>>
             ELSE /\ Goto(t, "load")
                  /\ call' = [call EXCEPT ![t] = Head(outer[t])]
                  /\ outer' = [outer EXCEPT ![t] = Tail(@)]

\* A call made by the script, or by a module that is being loaded.
Begin(t, n, a, where) ==
  /\ pc[t] \in {"idle", "load"}
  /\ calls[t] < MaxCalls
  /\ Len(outer[t]) < MaxDepth
  /\ calls' = [calls EXCEPT ![t] = @ + 1]
  /\ outer' = IF pc[t] = "load" THEN [outer EXCEPT ![t] = <<call[t]>> \o @]
                                ELSE outer
  /\ call' = [call EXCEPT ![t] = NoCall(n, a)]
  /\ Goto(t, where)
  /\ UNCHANGED <<mutex, entry, arg, stored, used>>

Lock(t, from, to) == /\ pc[t] = from
                     /\ mutex = NoThread
                     /\ mutex' = t
                     /\ Goto(t, to)
                     /\ UNCHANGED <<entry, call, outer, arg, stored, used, calls>>
-----------------------------------------------------------------------------
\* import() of a name that is not in package.modules yet ...
ImportCall(t, n, a) == n \notin stored[t] /\ Begin(t, n, a, "enter")

\* ... and of one that is: the cached value is returned at once.
CachedCall(t, n) == /\ n \in stored[t]
                    /\ pc[t] \in {"idle", "load"}
                    /\ calls[t] < MaxCalls
                    /\ calls' = [calls EXCEPT ![t] = @ + 1]
                    /\ UNCHANGED <<mutex, entry, pc, call, outer, arg, stored, used>>

EnterLookup(t) == Lock(t, "enter", "lookup")

\* Under the lock: the name resolved before, or its install just failed and is
\* not erased yet (a ready, empty future).
FoundReady(t) ==
  LET found == entry[call[t].name] IN
  /\ pc[t] = "lookup"
  /\ found.state = "ready"
  /\ call' = [call EXCEPT ![t].dir = found.dir]
  /\ mutex' = NoThread
  /\ Goto(t, "check")
  /\ UNCHANGED <<entry, outer, arg, stored, used, calls>>

\* Mutant of FoundPending: waits for the install with the lock held.
FoundPendingKeepsLock(t) ==
  /\ pc[t] = "lookup"
  /\ entry[call[t].name].state = "pending"
  /\ call' = [call EXCEPT ![t].on = entry[call[t].name].by]
  /\ Goto(t, "wait")
  /\ UNCHANGED <<mutex, entry, outer, arg, stored, used, calls>>

\* Under the lock: an install is in flight; copy its future and wait outside.
FoundPending(t) ==
  LET found == entry[call[t].name] IN
  /\ pc[t] = "lookup"
  /\ found.state = "pending"
  /\ call' = [call EXCEPT ![t].on = found.by]
  /\ mutex' = NoThread
  /\ Goto(t, "wait")
  /\ UNCHANGED <<entry, outer, arg, stored, used, calls>>

\* Mutant of Register: an install in flight is taken for no install at all.
RegisterOverPending(t) ==
  /\ pc[t] = "lookup"
  /\ entry[call[t].name].state # "ready"
  /\ entry' = [entry EXCEPT ![call[t].name] = Pending(t)]
  /\ mutex' = NoThread
  /\ Goto(t, "resolve")
  /\ UNCHANGED <<call, outer, arg, stored, used, calls>>

\* Mutant of Register: the lock is kept across the network (as before TB-399).
RegisterKeepsLock(t) ==
  /\ pc[t] = "lookup"
  /\ entry[call[t].name] = Absent
  /\ entry' = [entry EXCEPT ![call[t].name] = Pending(t)]
  /\ Goto(t, "resolve")
  /\ UNCHANGED <<mutex, call, outer, arg, stored, used, calls>>

\* Under the lock: the first importer promises the folder.
Register(t) ==
  /\ pc[t] = "lookup"
  /\ entry[call[t].name] = Absent
  /\ entry' = [entry EXCEPT ![call[t].name] = Pending(t)]
  /\ mutex' = NoThread
  /\ Goto(t, "resolve")
  /\ UNCHANGED <<call, outer, arg, stored, used, calls>>

\* Mutant of Resolve: an exception leaves without fulfilling the promise.
ResolveBreaksPromise(t) ==
  /\ pc[t] = "resolve"
  /\ \E d \in Answers(call[t].asked) \cup {NoFolder} :
       /\ call' = [call EXCEPT ![t].dir = d]
       /\ Goto(t, IF d = NoFolder THEN "publish" ELSE "fulfil")
  /\ UNCHANGED <<mutex, entry, outer, arg, stored, used, calls>>

\* resolve_module, outside the lock; a failure or an exception leaves no folder.
Resolve(t) ==
  /\ pc[t] = "resolve"
  /\ \E d \in Answers(call[t].asked) \cup {NoFolder} :
       call' = [call EXCEPT ![t].dir = d]
  /\ Goto(t, "fulfil")
  /\ UNCHANGED <<mutex, entry, outer, arg, stored, used, calls>>

\* promise.set_value, outside the lock: the entry in the map shares the future,
\* so it is ready from here on, and every waiter has its value.
Fulfil(t) ==
  LET d == call[t].dir
      waiters == {w \in Thread : pc[w] = "wait" /\ call[w].on = t} IN
  /\ pc[t] = "fulfil"
  /\ entry' = [entry EXCEPT ![call[t].name] = Ready(t, d)]
  /\ call' = [w \in Thread |-> IF w \in waiters
                               THEN [call[w] EXCEPT !.dir = d, !.on = NoThread]
                               ELSE call[w]]
  /\ pc' = [w \in Thread |-> IF w = t THEN "publish"
                             ELSE IF w \in waiters THEN "check" ELSE pc[w]]
  /\ UNCHANGED <<mutex, outer, arg, stored, used, calls>>

EnterPublish(t) == Lock(t, "publish", "publishing")

\* Mutant of Publish: the entry is erased whatever the install gave.
PublishErases(t) ==
  /\ pc[t] = "publishing"
  /\ entry' = [entry EXCEPT ![call[t].name] = Absent]
  /\ mutex' = NoThread
  /\ Goto(t, "check")
  /\ UNCHANGED <<call, outer, arg, stored, used, calls>>

\* Mutant of Publish: a future that was moved from is stored.
PublishMovedFuture(t) ==
  /\ pc[t] = "publishing"
  /\ entry' = [entry EXCEPT ![call[t].name].state = "invalid"]
  /\ mutex' = NoThread
  /\ Goto(t, "check")
  /\ UNCHANGED <<call, outer, arg, stored, used, calls>>

\* Under the lock again: keep the folder, or erase a failed install so that the
\* next import retries.
Publish(t) ==
  /\ pc[t] = "publishing"
  /\ entry' = IF call[t].dir = NoFolder
              THEN [entry EXCEPT ![call[t].name] = Absent]
              ELSE entry
  /\ mutex' = NoThread
  /\ Goto(t, "check")
  /\ UNCHANGED <<call, outer, arg, stored, used, calls>>

\* One version per process: a store folder that is not the version asked for.
Contradicts(d, a) == d \in StoreFolder /\ a \notin Free /\ <<d, a>> \notin Satisfies

\* No folder, or a folder of another version: the import raises an error.
Refuse(t) ==
  /\ pc[t] = "check"
  /\ call[t].dir = NoFolder \/ Contradicts(call[t].dir, call[t].asked)
  /\ Return(t)
  /\ UNCHANGED <<mutex, entry, arg, stored, used, calls>>

\* A folder with nothing to load, or without the file that was asked for.
NothingToLoad(t) ==
  /\ pc[t] = "check"
  /\ call[t].dir # NoFolder /\ ~Contradicts(call[t].dir, call[t].asked)
  /\ Return(t)
  /\ UNCHANGED <<mutex, entry, arg, stored, used, calls>>

\* Mutant of StartLoad: the version check of another import's folder is skipped.
StartLoadUnchecked(t) ==
  /\ pc[t] = "check"
  /\ call[t].dir # NoFolder
  /\ arg' = [arg EXCEPT ![t] = Len(outer[t]) + 1]
  /\ used' = used \cup {<<call[t].name, call[t].dir>>}
  /\ Goto(t, "load")
  /\ UNCHANGED <<mutex, entry, call, outer, stored, calls>>

\* The module starts to load and sees its own arguments as `arg`.
StartLoad(t) ==
  /\ pc[t] = "check"
  /\ call[t].dir # NoFolder /\ ~Contradicts(call[t].dir, call[t].asked)
  /\ arg' = [arg EXCEPT ![t] = Len(outer[t]) + 1]
  /\ used' = used \cup {<<call[t].name, call[t].dir>>}
  /\ Goto(t, "load")
  /\ UNCHANGED <<mutex, entry, call, outer, stored, calls>>

\* Mutant of EndLoad: the error path leaves the module's `arg` behind.
EndLoadKeepsArg(t) ==
  /\ pc[t] = "load"
  /\ \/ /\ stored' = [stored EXCEPT ![t] = @ \cup {call[t].name}]
        /\ arg' = [arg EXCEPT ![t] = Len(outer[t])]
     \/ UNCHANGED <<stored, arg>>
  /\ Return(t)
  /\ UNCHANGED <<mutex, entry, used, calls>>

\* The module returned or raised; the caller's `arg` is back either way.  A
\* module loaded from its DLL is kept in package.modules, a Lua file is not.
EndLoad(t) ==
  /\ pc[t] = "load"
  /\ arg' = [arg EXCEPT ![t] = Len(outer[t])]
  /\ \/ stored' = [stored EXCEPT ![t] = @ \cup {call[t].name}]
     \/ UNCHANGED stored
  /\ Return(t)
  /\ UNCHANGED <<mutex, entry, used, calls>>
-----------------------------------------------------------------------------
\* resolved_module_searcher: require("name.sub") reads the map under the lock and
\* never waits; what is not ready, or ready and empty, is not found.
SearchCall(t, n) == \E a \in Free : Begin(t, n, a, "enterSearch")

EnterSearch(t) == Lock(t, "enterSearch", "search")

\* Mutant of Search: a future that is ready but empty is taken for a folder.
SearchEmpty(t) ==
  /\ pc[t] = "search"
  /\ used' = IF entry[call[t].name].state = "ready"
             THEN used \cup {<<call[t].name, entry[call[t].name].dir>>}
             ELSE used
  /\ mutex' = NoThread
  /\ Return(t)
  /\ UNCHANGED <<entry, arg, stored, calls>>

Search(t) ==
  LET found == entry[call[t].name] IN
  /\ pc[t] = "search"
  /\ used' = IF found.state = "ready" /\ found.dir # NoFolder
             THEN used \cup {<<call[t].name, found.dir>>}
             ELSE used
  /\ mutex' = NoThread
  /\ Return(t)
  /\ UNCHANGED <<entry, arg, stored, calls>>
-----------------------------------------------------------------------------
\* What a thread does on its own once it is in a call, the network apart.
Step(t) == \/ EnterLookup(t) \/ FoundReady(t) \/ FoundPending(t) \/ Register(t)
           \/ Fulfil(t) \/ EnterPublish(t) \/ Publish(t)
           \/ Refuse(t) \/ NothingToLoad(t) \/ StartLoad(t)
           \/ EnterSearch(t) \/ Search(t)

Calls(t) == \E n \in Name : \/ CachedCall(t, n)
                            \/ SearchCall(t, n)
                            \/ \E a \in Request : ImportCall(t, n, a)

\* Every script has made its calls: the only state in which nothing is left to do.
Finished == /\ \A t \in Thread : pc[t] = "idle" /\ calls[t] = MaxCalls
            /\ UNCHANGED vars

Next == \/ \E t \in Thread : Calls(t) \/ Step(t) \/ Resolve(t) \/ EndLoad(t)
        \/ Finished

Spec == Init /\ [][Next]_vars

\* Threads keep running; the network may never answer, and a module may load for ever.
FairSpec == Spec /\ \A t \in Thread : WF_vars(Step(t))

\* An install ends, with or without a folder, and so does the loading of a module.
InstallsAndLoadsEnd == \A t \in Thread : WF_vars(Resolve(t)) /\ WF_vars(EndLoad(t))
-----------------------------------------------------------------------------
Places == {"idle", "enter", "lookup", "wait", "resolve", "fulfil", "publish",
           "publishing", "check", "load", "enterSearch", "search"}

Call == [name : Name, asked : Request,
         dir : Folder \cup {NoFolder}, on : Thread \cup {NoThread}]

Entry == [state : {"absent", "pending", "ready"}, by : Thread \cup {NoThread},
          dir : Folder \cup {NoFolder}]

\* The values of the variables (the locals and shared state of import.h).
TypeOK == /\ mutex \in Thread \cup {NoThread}
          /\ entry \in [Name -> Entry]
          /\ pc \in [Thread -> Places]
          /\ call \in [Thread -> Call]
          /\ outer \in [Thread -> Seq(Call)]
          /\ arg \in [Thread -> Nat]
          /\ stored \in [Thread -> SUBSET Name]
          /\ used \subseteq Name \X (Folder \cup {NoFolder})
          /\ calls \in [Thread -> Nat]

\* No two threads of the process install the same module at once, although the
\* lock is not held while they do.
OneInstaller ==
  \A t, u \in Thread : pc[t] \in Installing /\ pc[u] \in Installing /\ t # u
                       => call[t].name # call[u].name

\* A thread that waits on a future waits on an installer that is still at work on
\* that very module and will set its promise: nobody waits on a promise that was
\* destroyed or fulfilled before ("a promise destroyed without a value", import.h).
NoStrandedWaiter ==
  \A t \in Thread : pc[t] = "wait" =>
    \E o \in Thread : /\ call[t].on = o
                      /\ pc[o] \in {"resolve", "fulfil"}
                      /\ call[o].name = call[t].name

\* One folder per module per process: whatever thread loads a file of a module,
\* and whichever way (import or require), it comes from the same folder.
OneFolder == \A u, v \in used : u[1] = v[1] => u[2] = v[2]

\* Nothing is ever loaded relative to the empty path (the working directory): a
\* future that is ready but empty, in the window between set_value and erase, is
\* seen as "not resolved" by importers and searchers alike.
NeverFromWorkingDirectory == \A u \in used : u[2] # NoFolder

\* One version per process, on every path: a module that is loading, or waiting for
\* a module it imports, comes from a folder that satisfies what its import asked
\* for, also when another import installed the folder.
RightVersion ==
  \A t \in Thread :
    LET Fits(c) == c.dir \in StoreFolder => c.asked \in Free \/ <<c.dir, c.asked>> \in Satisfies
    IN /\ pc[t] = "load" => Fits(call[t])
       /\ \A i \in 1 .. Len(outer[t]) : Fits(outer[t][i])

\* The global `arg` always holds the arguments of the innermost module that is
\* loading, and the script's own when none is: every import restores what it found,
\* nested imports and failed ones included.
ArgDiscipline ==
  \A t \in Thread : arg[t] = Len(outer[t]) + (IF pc[t] = "load" THEN 1 ELSE 0)

\* Why the above hold in every reachable state: an installer owns the entry of its
\* name from its promise to its publish, a pending entry has its installer at work,
\* and a folder that was used, or is about to be, is the one in the map.
InstallerOwnsEntry ==
  \A t \in Thread :
    /\ pc[t] \in {"resolve", "fulfil"} => entry[call[t].name] = Pending(t)
    /\ pc[t] \in {"publish", "publishing"} => entry[call[t].name] = Ready(t, call[t].dir)

PendingHasInstaller ==
  \A n \in Name : entry[n].state = "pending" =>
    \E o \in Thread : /\ entry[n] = Pending(o)
                      /\ pc[o] \in {"resolve", "fulfil"}
                      /\ call[o].name = n

UsedIsSettled ==
  \A u \in used : entry[u[1]].state = "ready" /\ entry[u[1]].dir = u[2] /\ u[2] # NoFolder

CheckedIsSettled ==
  \A t \in Thread : pc[t] = "check" /\ call[t].dir # NoFolder =>
    entry[call[t].name].state = "ready" /\ entry[call[t].name].dir = call[t].dir

IInv == InstallerOwnsEntry /\ PendingHasInstaller /\ NoStrandedWaiter
        /\ UsedIsSettled /\ CheckedIsSettled

\* The process-wide table of module folders that these locks and futures implement.
table == [n \in Name |-> IF entry[n].state = "ready" THEN entry[n].dir ELSE NoFolder]
ModuleTable == INSTANCE ModuleTable
TableSpec == ModuleTable!TableSpec

\* Every import and every require comes back, when installs and loads end.
EveryCallReturns ==
  InstallsAndLoadsEnd => \A t \in Thread : pc[t] # "idle" ~> pc[t] = "idle"

\* Whoever wants the lock gets past the critical section even when the network
\* never answers: no import, and no require("name.sub"), is blocked for a download.
LockNeverWaitsForNetwork ==
  \A t \in Thread : pc[t] \in {"enter", "publish", "enterSearch"}
                    ~> pc[t] \in {"wait", "resolve", "check", "load", "idle"}
=============================================================================
