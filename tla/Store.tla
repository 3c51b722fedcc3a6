------------------------------- MODULE Store --------------------------------
(***************************************************************************)
(* lxe's versioned module store and install_into_store, which fills it     *)
(* (src/src/commands/install.h, with installed_versions and best_installed *)
(* of src/src/lua/modules_dir.cpp).                                        *)
(*                                                                         *)
(* Workers are the threads that install: states of one app that import,    *)
(* other apps, `lxe install` on the command line.  They share the store on *)
(* disk; the threads of a process also share publish_mutex.  A worker's    *)
(* installs nest, because a module's dependencies are installed first.  A  *)
(* process may die between any two steps.                                  *)
(*                                                                         *)
(* The registry is external: it may answer any published version, or       *)
(* nothing, and any download may fail.                                     *)
(***************************************************************************)
EXTENDS Naturals, Sequences

CONSTANTS Worker, NoWorker,
          Process, ProcessOf,   \* ProcessOf[w]: the process of worker w
          Name, Version, File,
          NoVersion,            \* no version: an install that failed
          NoDir,                \* a folder that does not exist
          Request,
          Latest,               \* the request "latest" (also "" and "*")
          Exact,                \* Exact[r]: the version r names, or NoVersion
          Satisfies,            \* <<v, r>>: modules_dir::satisfies(v, r)
          Rank,                 \* Rank[v]: the order of compare_versions
          Published,            \* Published[n]: what the registry has of n
          Files,                \* Files[n][v]: the files its record lists
          Deps,                 \* Deps[n][v]: the <<name, request>> it lists
          MaxDepth,             \* the depth install_into_store refuses beyond (16)
          MaxInstalls,          \* bound: installs each worker starts
          MaxCrashes            \* bound: processes that die

ASSUME StoreAssumption ==
  /\ NoWorker \notin Worker /\ ProcessOf \in [Worker -> Process]
  /\ Name # {} /\ NoVersion \notin Version
  /\ \A S \in SUBSET File : S # NoDir
  /\ Latest \in Request /\ Exact \in [Request -> Version \cup {NoVersion}]
  /\ Exact[Latest] = NoVersion
  /\ Satisfies \subseteq Version \X Request
  /\ \A r \in Request : Exact[r] # NoVersion => <<Exact[r], r>> \in Satisfies
  /\ Rank \in [Version -> Nat]
  /\ \A u, v \in Version, r \in Request :
       Rank[u] = Rank[v] /\ <<u, r>> \in Satisfies => <<v, r>> \in Satisfies
  /\ Published \in [Name -> SUBSET Version]
  /\ Files \in [Name -> [Version -> SUBSET File]]
  /\ Deps \in [Name -> [Version -> SUBSET (Name \X Request)]]
  /\ MaxDepth \in Nat /\ MaxInstalls \in Nat /\ MaxCrashes \in Nat

VARIABLES shelf,      \* shelf[n][v]: the files in <store>\n\v, or NoDir
          latest,     \* latest[n]: <store>\n\latest.json, the version and if it is fresh
          staging,    \* staging[w]: the files in w's temp folder beside the target
          publishing, \* publishing[p]: who holds publish_mutex of process p
          stack,      \* stack[w]: the nested install_into_store calls, innermost first
          result,     \* result[w]: what w's last outermost call returned
          installs,   \* bound counter
          crashes     \* bound counter

vars == <<shelf, latest, staging, publishing, stack, result, installs, crashes>>

Fits(v, r) == r = Latest \/ <<v, r>> \in Satisfies

\* A folder without files "is no install".
Installed(n) == {v \in Version : shelf[n][v] # NoDir /\ shelf[n][v] # {}}

\* best_installed: the highest version that matches; versions that compare equal
\* (they differ in build metadata) are sorted in either order.
Highest(vs) == {v \in vs : \A w \in vs : Rank[w] <= Rank[v]}
BestInstalled(n, r) == Highest({v \in Installed(n) : <<v, r>> \in Satisfies})

\* best_installed(n, v) for a version v: what is installed that compares equal to it.
SameInstalled(n, v) == {w \in Installed(n) : Rank[w] = Rank[v]}

Frame(n, r, refresh) == [name |-> n, req |-> r, refresh |-> refresh, at |-> "lookup",
                         ver |-> NoVersion, deps |-> {}, left |-> {}]

Init == /\ shelf = [n \in Name |-> [v \in Version |-> NoDir]]
        /\ latest = [n \in Name |-> [ver |-> NoVersion, fresh |-> FALSE]]
        /\ staging = [w \in Worker |-> {}]
        /\ publishing = [p \in Process |-> NoWorker]
        /\ stack = [w \in Worker |-> <<>>]
        /\ result = [w \in Worker |-> [name |-> CHOOSE n \in Name : TRUE,
                                       req |-> Latest, ver |-> NoVersion]]
        /\ installs = [w \in Worker |-> 0]
        /\ crashes = 0

Busy(w) == stack[w] # <<>>
Top(w) == Head(stack[w])
At(w, where) == Busy(w) /\ Top(w).at = where

\* The innermost call of w changes its own locals.
Update(w, frame) == stack' = [stack EXCEPT ![w] = <<frame>> \o Tail(@)]

\* The innermost call of w returns version v of its module, or NoVersion.  The call
\* that asked for it goes on with its next dependency, or fails with it.
Return(w, v) ==
  LET done == Top(w)
      callers == Tail(stack[w])
      caller == Head(callers)
      resumed == IF v = NoVersion
                 THEN [caller EXCEPT !.at = "failed"]
                 ELSE [caller EXCEPT !.deps = @ \ {<<done.name, done.req>>}]
  IN IF callers = <<>>
     THEN /\ stack' = [stack EXCEPT ![w] = <<>>]
          /\ result' = [result EXCEPT ![w] = [name |-> done.name, req |-> done.req, ver |-> v]]
     ELSE /\ stack' = [stack EXCEPT ![w] = <<resumed>> \o Tail(callers)]
          /\ UNCHANGED result
-----------------------------------------------------------------------------
\* import(), `lxe install` or `lxe upgrade` (refresh) ask for a module.
Install(w, n, r, refresh) ==
  /\ ~Busy(w)
  /\ installs[w] < MaxInstalls
  /\ refresh => r = Latest
  /\ installs' = [installs EXCEPT ![w] = @ + 1]
  /\ stack' = [stack EXCEPT ![w] = <<Frame(n, r, refresh)>>]
  /\ UNCHANGED <<shelf, latest, staging, publishing, result, crashes>>

\* What a call finds installed already: the exact version, the best match of a range,
\* or the version the day-old answer calls the latest.
AlreadyThere(f) ==
  IF f.req = Latest
  THEN IF ~f.refresh /\ latest[f.name].fresh
       THEN SameInstalled(f.name, latest[f.name].ver)
       ELSE {}
  ELSE IF Exact[f.req] # NoVersion
       THEN BestInstalled(f.name, f.req) \cap {Exact[f.req]}
       ELSE BestInstalled(f.name, f.req)

Shortcut(w) ==
  /\ At(w, "lookup")
  /\ \E v \in AlreadyThere(Top(w)) : Return(w, v)
  /\ UNCHANGED <<shelf, latest, staging, publishing, installs, crashes>>

\* Two installed versions may compare equal to an exact request: the other one may
\* come first, and then the call asks the registry.
AskRegistry(w) ==
  /\ At(w, "lookup")
  /\ \/ AlreadyThere(Top(w)) = {}
     \/ Exact[Top(w).req] # NoVersion /\ BestInstalled(Top(w).name, Top(w).req) # AlreadyThere(Top(w))
  /\ Update(w, [Top(w) EXCEPT !.at = "asked"])
  /\ UNCHANGED <<shelf, latest, staging, publishing, result, installs, crashes>>

\* No answer, or the registry's latest instead of a version or range it does not have.
RegistryRefuses(w) ==
  /\ At(w, "asked")
  /\ Return(w, NoVersion)
  /\ UNCHANGED <<shelf, latest, staging, publishing, installs, crashes>>

\* Mutant of RegistryAnswers: whatever the registry falls back to is installed.
RegistryAnswersAnything(w) ==
  /\ At(w, "asked")
  /\ \E v \in Published[Top(w).name] :
       Update(w, [Top(w) EXCEPT !.at = "deps", !.ver = v, !.deps = Deps[Top(w).name][v]])
  /\ UNCHANGED <<shelf, latest, staging, publishing, result, installs, crashes>>

\* Mutant of RegistryAnswers: "latest" is remembered when the registry names it.
RegistryAnswersRemembered(w) ==
  LET f == Top(w) IN
  /\ At(w, "asked")
  /\ \E v \in Published[f.name] :
       /\ Fits(v, f.req)
       /\ Update(w, [f EXCEPT !.at = "deps", !.ver = v, !.deps = Deps[f.name][v]])
       /\ latest' = IF f.req = Latest THEN [latest EXCEPT ![f.name] = [ver |-> v, fresh |-> TRUE]]
                                      ELSE latest
  /\ UNCHANGED <<shelf, staging, publishing, result, installs, crashes>>

RegistryAnswers(w) ==
  /\ At(w, "asked")
  /\ \E v \in Published[Top(w).name] :
       /\ Fits(v, Top(w).req)
       /\ Update(w, [Top(w) EXCEPT !.at = "deps", !.ver = v, !.deps = Deps[Top(w).name][v]])
  /\ UNCHANGED <<shelf, latest, staging, publishing, result, installs, crashes>>

\* The dependencies are installed first, each by a call of its own, unless that is
\* nested too deeply (a cycle).
InstallDependency(w) ==
  /\ At(w, "deps")
  /\ \E dep \in Top(w).deps :
       IF Len(stack[w]) > MaxDepth
       THEN Return(w, NoVersion)
       ELSE /\ stack' = [stack EXCEPT ![w] = <<Frame(dep[1], dep[2], FALSE)>> \o @]
            /\ UNCHANGED result
  /\ UNCHANGED <<shelf, latest, staging, publishing, installs, crashes>>

DependencyFailed(w) ==
  /\ At(w, "failed")
  /\ Return(w, NoVersion)
  /\ UNCHANGED <<shelf, latest, staging, publishing, installs, crashes>>

\* write_atomically of latest.json; its failure is ignored.
RememberLatest(n, v, req) ==
  IF req = Latest
  THEN \/ latest' = [latest EXCEPT ![n] = [ver |-> v, fresh |-> TRUE]]
       \/ UNCHANGED latest
  ELSE UNCHANGED latest

\* Installed by somebody else in the meantime: used, not downloaded again.
FoundAfterAll(w) ==
  LET f == Top(w) IN
  /\ At(w, "deps") /\ f.deps = {}
  /\ SameInstalled(f.name, f.ver) # {}
  /\ RememberLatest(f.name, f.ver, f.req)
  /\ Return(w, f.ver)
  /\ UNCHANGED <<shelf, staging, publishing, installs, crashes>>

\* Mutant of Stage: the module is downloaded before what it depends on.
StageBeforeDependencies(w) ==
  LET f == Top(w) IN
  /\ At(w, "deps")
  /\ SameInstalled(f.name, f.ver) = {}
  /\ staging' = [staging EXCEPT ![w] = {}]
  /\ Update(w, [f EXCEPT !.at = "download", !.left = Files[f.name][f.ver]])
  /\ UNCHANGED <<shelf, latest, publishing, result, installs, crashes>>

\* The temp folder of this thread, emptied of what an earlier install left in it.
Stage(w) ==
  LET f == Top(w) IN
  /\ At(w, "deps") /\ f.deps = {}
  /\ SameInstalled(f.name, f.ver) = {}
  /\ \/ /\ staging' = [staging EXCEPT ![w] = {}]
        /\ Update(w, [f EXCEPT !.at = "download", !.left = Files[f.name][f.ver]])
        /\ UNCHANGED result
     \/ /\ Return(w, NoVersion)          \* it could not be created
        /\ UNCHANGED staging
  /\ UNCHANGED <<shelf, latest, publishing, installs, crashes>>

\* One file of the record is downloaded and has the md5 the record gives.
Download(w) ==
  LET f == Top(w) IN
  /\ At(w, "download")
  /\ \E x \in f.left : /\ staging' = [staging EXCEPT ![w] = @ \cup {x}]
                       /\ Update(w, [f EXCEPT !.left = @ \ {x}])
  /\ UNCHANGED <<shelf, latest, publishing, result, installs, crashes>>

\* Mutant of DownloadFails: the cleanup removes the version folder, not the temp one.
DownloadFailsRemovesTarget(w) ==
  /\ At(w, "download") /\ Top(w).left # {}
  /\ shelf' = [shelf EXCEPT ![Top(w).name][Top(w).ver] = NoDir]
  /\ Return(w, NoVersion)
  /\ UNCHANGED <<latest, staging, publishing, installs, crashes>>

\* ... or not: the whole install fails and leaves nothing behind.
DownloadFails(w) ==
  /\ At(w, "download") /\ Top(w).left # {}
  /\ staging' = [staging EXCEPT ![w] = {}]
  /\ Return(w, NoVersion)
  /\ UNCHANGED <<shelf, latest, publishing, installs, crashes>>

\* Mutant of EnterPublish: published after the first file that could be downloaded.
EnterPublishEarly(w) ==
  /\ At(w, "download") /\ staging[w] # {}
  /\ publishing[ProcessOf[w]] = NoWorker
  /\ publishing' = [publishing EXCEPT ![ProcessOf[w]] = w]
  /\ Update(w, [Top(w) EXCEPT !.at = "publish"])
  /\ UNCHANGED <<shelf, latest, staging, result, installs, crashes>>

EnterPublish(w) ==
  /\ At(w, "download") /\ Top(w).left = {}
  /\ publishing[ProcessOf[w]] = NoWorker
  /\ publishing' = [publishing EXCEPT ![ProcessOf[w]] = w]
  /\ Update(w, [Top(w) EXCEPT !.at = "publish"])
  /\ UNCHANGED <<shelf, latest, staging, result, installs, crashes>>

\* One move publishes the whole version.  It fails when the target exists, and it may
\* fail for reasons of its own.
MoveSucceeds(w) ==
  LET f == Top(w) IN
  /\ At(w, "publish")
  /\ shelf[f.name][f.ver] = NoDir
  /\ shelf' = [shelf EXCEPT ![f.name][f.ver] = staging[w]]
  /\ staging' = [staging EXCEPT ![w] = {}]
  /\ Update(w, [f EXCEPT !.at = "published"])
  /\ UNCHANGED <<latest, publishing, result, installs, crashes>>

\* Mutant of MoveFails: the loser of the race gives up.
MoveFailsForGood(w) ==
  /\ At(w, "publish")
  /\ staging' = [staging EXCEPT ![w] = {}]
  /\ Return(w, NoVersion)
  /\ publishing' = [publishing EXCEPT ![ProcessOf[w]] = NoWorker]
  /\ UNCHANGED <<shelf, latest, installs, crashes>>

\* Mutant of MoveFails: a failed move starts the install over.
MoveFailsRetried(w) ==
  /\ At(w, "publish")
  /\ staging' = [staging EXCEPT ![w] = {}]
  /\ Update(w, [Top(w) EXCEPT !.at = "deps"])
  /\ publishing' = [publishing EXCEPT ![ProcessOf[w]] = NoWorker]
  /\ UNCHANGED <<shelf, latest, result, installs, crashes>>

MoveFails(w) ==
  LET f == Top(w) IN
  /\ At(w, "publish")
  /\ staging' = [staging EXCEPT ![w] = {}]
  /\ IF SameInstalled(f.name, f.ver) # {}
     THEN /\ Update(w, [f EXCEPT !.at = "published"])
          /\ UNCHANGED <<result, publishing>>
     ELSE /\ Return(w, NoVersion)
          /\ publishing' = [publishing EXCEPT ![ProcessOf[w]] = NoWorker]
  /\ UNCHANGED <<shelf, latest, installs, crashes>>

\* Still under the lock: "latest" is remembered once that version is installed.
FinishPublish(w) ==
  LET f == Top(w) IN
  /\ At(w, "published")
  /\ RememberLatest(f.name, f.ver, f.req)
  /\ publishing' = [publishing EXCEPT ![ProcessOf[w]] = NoWorker]
  /\ Return(w, f.ver)
  /\ UNCHANGED <<shelf, staging, installs, crashes>>
-----------------------------------------------------------------------------
\* A process dies: its calls and its mutex are gone, its temp folders stay.
Crash(p) ==
  /\ crashes < MaxCrashes
  /\ \E w \in Worker : ProcessOf[w] = p /\ Busy(w)
  /\ stack' = [w \in Worker |-> IF ProcessOf[w] = p THEN <<>> ELSE stack[w]]
  /\ result' = [w \in Worker |-> IF ProcessOf[w] = p THEN [result[w] EXCEPT !.ver = NoVersion]
                                                     ELSE result[w]]
  /\ publishing' = [publishing EXCEPT ![p] = NoWorker]
  /\ crashes' = crashes + 1
  /\ UNCHANGED <<shelf, latest, staging, installs>>

\* The answer in latest.json is a day old.
DayPasses(n) ==
  /\ latest[n].fresh
  /\ latest' = [latest EXCEPT ![n].fresh = FALSE]
  /\ UNCHANGED <<shelf, staging, publishing, stack, result, installs, crashes>>

Work(w) == \/ Shortcut(w) \/ AskRegistry(w) \/ RegistryRefuses(w) \/ RegistryAnswers(w)
           \/ InstallDependency(w) \/ DependencyFailed(w) \/ FoundAfterAll(w)
           \/ Stage(w) \/ Download(w) \/ DownloadFails(w)
           \/ EnterPublish(w) \/ MoveSucceeds(w) \/ MoveFails(w) \/ FinishPublish(w)

Finished == /\ \A w \in Worker : ~Busy(w) /\ installs[w] = MaxInstalls
            /\ UNCHANGED vars

Next == \/ \E w \in Worker : \/ Work(w)
                             \/ \E n \in Name, r \in Request, refresh \in BOOLEAN :
                                  Install(w, n, r, refresh)
        \/ \E p \in Process : Crash(p)
        \/ \E n \in Name : DayPasses(n)
        \/ Finished

Spec == Init /\ [][Next]_vars

\* A worker that is in an install keeps going, and its downloads end.
FairSpec == Spec /\ \A w \in Worker : WF_vars(Work(w))
-----------------------------------------------------------------------------
Frames == [name : Name, req : Request, refresh : BOOLEAN,
           at : {"lookup", "asked", "deps", "failed", "download", "publish", "published"},
           ver : Version \cup {NoVersion}, deps : SUBSET (Name \X Request),
           left : SUBSET File]

\* The values of the variables of install.h and of the folders on disk.
TypeOK == /\ shelf \in [Name -> [Version -> {NoDir} \cup SUBSET File]]
          /\ latest \in [Name -> [ver : Version \cup {NoVersion}, fresh : BOOLEAN]]
          /\ staging \in [Worker -> SUBSET File]
          /\ publishing \in [Process -> Worker \cup {NoWorker}]
          /\ stack \in [Worker -> Seq(Frames)]
          /\ result \in [Worker -> [name : Name, req : Request, ver : Version \cup {NoVersion}]]
          /\ installs \in [Worker -> Nat]
          /\ crashes \in Nat

\* "A folder that exists is complete and a running program never sees half a module",
\* whatever process dies or loses a race while it installs.
FoldersComplete ==
  \A n \in Name, v \in Version : shelf[n][v] # NoDir =>
    v \in Published[n] /\ shelf[n][v] = Files[n][v]

\* A version in the store has all it depends on in the store, so importing it never
\* has to install anything.
DependenciesInstalled ==
  \A n \in Name, v \in Version : shelf[n][v] # NoDir =>
    \A dep \in Deps[n][v] : \E u \in Installed(dep[1]) : Fits(u, dep[2])

\* What an install returns exists, is complete, and is what was asked for.
ResultIsInstalled ==
  \A w \in Worker : result[w].ver # NoVersion =>
    /\ result[w].ver \in Installed(result[w].name)
    /\ Fits(result[w].ver, result[w].req)

\* "Remembered only once that version really is installed."
LatestIsInstalled ==
  \A n \in Name : latest[n].ver # NoVersion => latest[n].ver \in Installed(n)

\* "Losing the race to another process that installed the same version is fine": a
\* move that finds the version folder in place does not fail the install.
LosingTheRaceIsFine ==
  [][\A w \in Worker :
       (At(w, "publish") /\ shelf[Top(w).name][Top(w).ver] # NoDir /\ crashes' = crashes)
         => (At(w, "publish") \/ At(w, "published"))']_vars

\* Why the above hold: every call, innermost or waiting for a dependency, works on a
\* published version that answers its request; what it has ticked off of that
\* version's dependencies is in the store; and the temp folder of a worker holds
\* exactly the files of its version that are not left to download.
Held(dep) == \E u \in Version : shelf[dep[1]][u] # NoDir /\ Fits(u, dep[2])

FrameInv(f) ==
  f.at \in {"deps", "download", "publish", "published"} =>
    /\ f.ver \in Published[f.name]
    /\ Fits(f.ver, f.req)
    /\ \A dep \in Deps[f.name][f.ver] \ f.deps : Held(dep)
    /\ f.at # "deps" => f.deps = {}
    /\ f.at = "published" => \E u \in Version : shelf[f.name][u] # NoDir /\ Rank[u] = Rank[f.ver]

StagingInv(w) ==
  Busy(w) => /\ Top(w).at = "download" =>
                  /\ Top(w).left \subseteq Files[Top(w).name][Top(w).ver]
                  /\ staging[w] = Files[Top(w).name][Top(w).ver] \ Top(w).left
             /\ Top(w).at = "publish" => staging[w] = Files[Top(w).name][Top(w).ver]

OnShelf ==
  \A n \in Name, v \in Version : shelf[n][v] # NoDir =>
    /\ v \in Published[n] /\ shelf[n][v] = Files[n][v]
    /\ \A dep \in Deps[n][v] : Held(dep)

WorkerInv(w) == /\ StagingInv(w)
                /\ \A i \in 1 .. Len(stack[w]) : FrameInv(stack[w][i])
                /\ \A i \in 2 .. Len(stack[w]) : stack[w][i].at = "deps"

IInv == OnShelf /\ \A w \in Worker : WorkerInv(w)

\* The store that readers see is the one VersionStore describes.
VersionStore == INSTANCE VersionStore
StoreSpec == VersionStore!StoreSpec

\* Every install comes back, dependency cycles and crashes of others included.
EveryInstallReturns == \A w \in Worker : Busy(w) ~> ~Busy(w)
=============================================================================
