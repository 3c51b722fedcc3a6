------------------------------ MODULE Runtime -------------------------------
(***************************************************************************)
(* The one Lua runtime, lua51.dll, as the processes of one machine unpack, *)
(* replace, download and load it (lua_runtime.cpp, lef.cpp, modules_dir.cpp). *)
(*                                                                         *)
(* A file is what it holds and the processes that have it mapped.  A rename *)
(* takes both along; Windows refuses to overwrite or delete a mapped file, *)
(* but renames it.  A process writes "bin" (~\.lxe\bin, shared by all) or  *)
(* "home" (<app>\modules), and its own temp files beside them.  The folder *)
(* of the executable itself is bin or holds no runtime.                    *)
(***************************************************************************)
EXTENDS Naturals, FiniteSets

CONSTANTS Process,
          Carrier,      \* those that run a compiled app with the runtime inside
          Elder,        \* an older lxe that has the first bin\lua51.dll mapped
          MaxStarts,    \* bound: starts of one process
          MaxFailures,  \* bound: file operations that fail without a reason here
          MaxCrashes    \* bound: processes that are killed

ASSUME RuntimeAssumption ==
  /\ Carrier \subseteq Process
  /\ Elder \notin Process
  /\ {MaxStarts, MaxFailures, MaxCrashes} \subseteq Nat

VARIABLES
  target,    \* the two lua51.dll
  aside,     \* the lua51.dll.old-* files
  temp,      \* what the unpack of a process writes (lua51.dll.<pid>-<n>.tmp)
  download,  \* what its download writes (lua51.dll.<pid>.tmp)
  pc,        \* the next step of a process
  at,        \* the place it writes or tries to load
  seen,      \* verified_hash: what the file held when it was hashed
  starts, failures, crashes,
  disturbed  \* history: another process moved a lua51.dll away or back meanwhile

files == <<target, aside, temp, download>>
locals == <<at, seen>>
counters == <<starts, failures, crashes, disturbed>>
vars == <<files, pc, locals, counters>>

Place == {"bin", "home"}
Data == {"absent", "partial", "other", "good"}
File == [data : Data, maps : SUBSET (Process \cup {Elder})]
Aside == [place : Place, owner : Process, run : Nat, file : File]
Writing == {"sweep", "compare", "write", "writing", "recheck", "sweep2", "replace",
            "aside", "movein", "restore", "giveup"}
Loading == {"verify", "hash", "map", "rehash"}
Control == {"off", "unpack", "home", "download", "publish", "run", "failed"}
             \cup Writing \cup Loading

NoFile == [data |-> "absent", maps |-> {}]
Fresh(d) == [data |-> d, maps |-> {}]
Exists(f) == f.data # "absent"

TypeOK ==
  /\ target \in [Place -> File]
  /\ aside \subseteq Aside
  /\ temp \in [Process -> File] /\ download \in [Process -> File]
  /\ pc \in [Process -> Control]
  /\ at \in [Process -> Place \cup {"download"}]
  /\ seen \in [Process -> Data]
  /\ starts \in [Process -> 0..MaxStarts]
  /\ failures \in 0..MaxFailures /\ crashes \in 0..MaxCrashes
  /\ disturbed \in [Process -> BOOLEAN]

Init ==
  /\ \E d \in {"absent", "other", "good"} :
       target = [pl \in Place |-> IF pl = "bin" /\ d # "absent"
                                    THEN [data |-> d, maps |-> {Elder}] ELSE NoFile]
  /\ aside = {}
  /\ temp = [p \in Process |-> NoFile] /\ download = [p \in Process |-> NoFile]
  /\ pc = [p \in Process |-> "off"]
  /\ at = [p \in Process |-> "bin"]
  /\ seen = [p \in Process |-> "absent"]
  /\ starts = [p \in Process |-> 0] /\ failures = 0 /\ crashes = 0
  /\ disturbed = [p \in Process |-> FALSE]

-----------------------------------------------------------------------------
Go(p, l) == pc' = [pc EXCEPT ![p] = l]
Starting(p) == pc[p] \notin {"off", "run", "failed"}

\* A file operation that fails although nothing in this model forbids it.
Glitch == failures < MaxFailures /\ failures' = failures + 1
NoGlitch == UNCHANGED failures

\* Every file without the mappings of the processes in S.
Unmap(f, S) == [f EXCEPT !.maps = @ \ S]
UnmapAll(S) ==
  /\ target' = [pl \in Place |-> Unmap(target[pl], S)]
  /\ aside' = {[a EXCEPT !.file = Unmap(@, S)] : a \in aside}
  /\ temp' = [p \in Process |-> Unmap(temp[p], S)]
  /\ download' = [p \in Process |-> Unmap(download[p], S)]

Start(p) ==
  /\ pc[p] = "off" /\ starts[p] < MaxStarts
  /\ starts' = [starts EXCEPT ![p] = @ + 1]
  /\ Go(p, IF p \in Carrier THEN "unpack" ELSE "verify")
  /\ at' = [at EXCEPT ![p] = "bin"]
  /\ disturbed' = [disturbed EXCEPT ![p] = FALSE]
  /\ UNCHANGED <<files, seen, failures, crashes>>

-----------------------------------------------------------------------------
(* extract_bundled_dlls and write_atomically *)

\* A mutation: any file that is in place is left in place.
UnpackWhereMissing(p) ==
  /\ pc[p] = "unpack"
  /\ Go(p, IF Exists(target["bin"]) THEN "verify" ELSE "sweep")
  /\ UNCHANGED <<files, locals, counters>>

\* The bundled runtime is not written where a verified one is already in place.
Unpack(p) ==
  /\ pc[p] = "unpack"
  /\ Go(p, IF target["bin"].data = "good" THEN "verify" ELSE "sweep")
  /\ UNCHANGED <<files, locals, counters>>

\* write_atomically returned: a runtime that could not go to bin goes next to the app.
Return(p, ok) ==
  /\ Go(p, IF at[p] = "bin" /\ ~ok THEN "home" ELSE "verify")
  /\ at' = [at EXCEPT ![p] = "bin"]

UnpackHome(p) ==
  /\ pc[p] = "home"
  /\ IF target["home"].data = "good"
       THEN Go(p, "verify") /\ UNCHANGED at
       ELSE Go(p, "sweep") /\ at' = [at EXCEPT ![p] = "home"]
  /\ UNCHANGED <<files, seen, counters>>

\* sweep_aside deletes what no process has mapped any more.
Sweep(p) ==
  /\ pc[p] \in {"sweep", "sweep2"}
  /\ aside' = {a \in aside : a.place # at[p] \/ a.file.maps # {}}
  /\ Go(p, IF pc[p] = "sweep" THEN "compare" ELSE "replace")
  /\ UNCHANGED <<target, temp, download, locals, counters>>

Compare(p) ==
  /\ pc[p] = "compare"
  /\ IF target[at[p]].data = "good" THEN Return(p, TRUE) ELSE Go(p, "write") /\ UNCHANGED at
  /\ UNCHANGED <<files, seen, counters>>

WriteBegins(p) ==
  /\ pc[p] = "write" /\ Go(p, "writing")
  /\ temp' = [temp EXCEPT ![p] = Fresh("partial")]
  /\ UNCHANGED <<target, aside, download, locals, counters>>

WriteEnds(p) ==
  /\ pc[p] = "writing" /\ Go(p, "recheck")
  /\ temp' = [temp EXCEPT ![p] = Fresh("good")]
  /\ UNCHANGED <<target, aside, download, locals, counters>>

\* A mutation: the stream is not tested after the write.
WriteFailsUnnoticed(p) ==
  /\ pc[p] = "writing" /\ Glitch
  /\ Go(p, "recheck")
  /\ UNCHANGED <<files, locals, starts, crashes, disturbed>>

WriteFails(p) ==
  /\ pc[p] = "writing" /\ Glitch
  /\ temp' = [temp EXCEPT ![p] = NoFile]
  /\ Return(p, FALSE)
  /\ UNCHANGED <<target, aside, download, seen, starts, crashes, disturbed>>

\* Another process that unpacks the same payload may have been faster.
Recheck(p) ==
  /\ pc[p] = "recheck"
  /\ IF target[at[p]].data = "good"
       THEN Return(p, TRUE) /\ temp' = [temp EXCEPT ![p] = NoFile]
       ELSE Go(p, "sweep2") /\ UNCHANGED <<at, temp>>
  /\ UNCHANGED <<target, aside, download, seen, counters>>

\* replace_with: the move of temp over target, first as it stands and again when the
\* old file is out of the way.
MoveOver(p) ==
  /\ pc[p] \in {"replace", "movein"} /\ target[at[p]].maps = {}
  /\ target' = [target EXCEPT ![at[p]] = temp[p]]
  /\ temp' = [temp EXCEPT ![p] = NoFile]
  /\ Return(p, TRUE)
  /\ UNCHANGED <<aside, download, seen, counters>>

MoveOverFails(p) ==
  /\ pc[p] \in {"replace", "movein"}
  /\ \/ target[at[p]].maps # {} /\ NoGlitch
     \/ Glitch
  /\ Go(p, IF pc[p] = "replace" THEN "aside" ELSE "restore")
  /\ UNCHANGED <<files, locals, starts, crashes, disturbed>>

MyAside(p, f) == [place |-> at[p], owner |-> p, run |-> starts[p], file |-> f]

Disturb(p) == disturbed' = [q \in Process |-> disturbed[q] \/ q # p]

MoveAside(p) ==
  /\ pc[p] = "aside" /\ Exists(target[at[p]])
  /\ aside' = aside \cup {MyAside(p, target[at[p]])}
  /\ target' = [target EXCEPT ![at[p]] = NoFile]
  /\ Go(p, "movein") /\ Disturb(p)
  /\ UNCHANGED <<temp, download, locals, starts, failures, crashes>>

MoveAsideFails(p) ==
  /\ pc[p] = "aside"
  /\ \/ ~Exists(target[at[p]]) /\ NoGlitch
     \/ Glitch
  /\ Go(p, "giveup")
  /\ UNCHANGED <<files, locals, starts, crashes, disturbed>>

\* Back with the old file, unless another process has put one there or swept it away.
Restore(p) ==
  /\ pc[p] = "restore" /\ Go(p, "giveup")
  /\ LET mine == {a \in aside : a = MyAside(p, a.file)} IN
     IF Exists(target[at[p]]) \/ mine = {}
       THEN UNCHANGED <<target, aside, disturbed>>
       ELSE /\ Disturb(p)
            /\ target' = [target EXCEPT ![at[p]] = (CHOOSE a \in mine : TRUE).file]
            /\ aside' = aside \ mine
  /\ UNCHANGED <<temp, download, locals, starts, failures, crashes>>

GiveUp(p) ==
  /\ pc[p] = "giveup"
  /\ temp' = [temp EXCEPT ![p] = NoFile]
  /\ Return(p, target[at[p]].data = "good")
  /\ UNCHANGED <<target, aside, download, seen, counters>>

-----------------------------------------------------------------------------
(* ensure, load_file and download *)

Candidate(p) == IF at[p] = "download" THEN download[p] ELSE target[at[p]]

\* On to the next candidate, after the last one to the download; a download that is
\* refused is not kept.
Refuse(p) ==
  \/ /\ at[p] = "bin" /\ p \in Carrier
     /\ at' = [at EXCEPT ![p] = "home"] /\ Go(p, "verify") /\ UNCHANGED download
  \/ /\ at[p] # "download" /\ ~(at[p] = "bin" /\ p \in Carrier)
     /\ at' = [at EXCEPT ![p] = "download"] /\ Go(p, "download") /\ UNCHANGED download
  \/ /\ at[p] = "download"
     /\ Go(p, "failed") /\ UNCHANGED at
     /\ download' = [download EXCEPT ![p] = NoFile]

Verify(p) ==
  /\ pc[p] = "verify"
  /\ IF Candidate(p).data = "good" THEN Go(p, "hash") /\ UNCHANGED <<at, download>> ELSE Refuse(p)
  /\ UNCHANGED <<target, aside, temp, seen, counters>>

\* A mutation: the path in place of the hash.
HashKeepsPath(p) ==
  /\ pc[p] = "hash" /\ Go(p, "map")
  /\ seen' = [seen EXCEPT ![p] = at[p]]
  /\ UNCHANGED <<files, at, counters>>

Hash(p) ==
  /\ pc[p] = "hash" /\ Go(p, "map")
  /\ seen' = [seen EXCEPT ![p] = Candidate(p).data]
  /\ UNCHANGED <<files, at, counters>>

\* LoadLibraryExW and bind.
Map(p) ==
  /\ pc[p] = "map" /\ Candidate(p).data \in {"good", "other"}
  /\ Go(p, "rehash")
  /\ IF at[p] = "download"
       THEN download' = [download EXCEPT ![p].maps = @ \cup {p}] /\ UNCHANGED target
       ELSE target' = [target EXCEPT ![at[p]].maps = @ \cup {p}] /\ UNCHANGED download
  /\ UNCHANGED <<aside, temp, locals, counters>>

\* The file has gone since, or is a build that lacks an export.
MapFails(p) ==
  /\ pc[p] = "map" /\ Candidate(p).data # "good"
  /\ Refuse(p)
  /\ UNCHANGED <<target, aside, temp, seen, counters>>

\* What the path holds now is compared with what it held when it was hashed.
RehashAgrees(p) ==
  /\ pc[p] = "rehash" /\ seen[p] \in {"absent", Candidate(p).data}
  /\ Go(p, IF at[p] = "download" THEN "publish" ELSE "run")
  /\ UNCHANGED <<files, locals, counters>>

RehashDiffers(p) ==
  /\ pc[p] = "rehash" /\ seen[p] \notin {"absent", Candidate(p).data}
  /\ UnmapAll({p})
  /\ at' = [at EXCEPT ![p] = IF @ = "bin" /\ p \in Carrier THEN "home" ELSE "download"]
  /\ Go(p, IF at[p] = "bin" /\ p \in Carrier THEN "verify" ELSE "download")
  /\ UNCHANGED <<seen, counters>>

\* DownloadFile leaves the whole answer or fails; the answer may be another build.
Download(p) ==
  /\ pc[p] = "download" /\ Go(p, "verify")
  /\ \E d \in {"good", "other"} : download' = [download EXCEPT ![p] = Fresh(d)]
  /\ UNCHANGED <<target, aside, temp, locals, counters>>

DownloadFails(p) ==
  /\ pc[p] = "download" /\ Go(p, "failed")
  /\ download' = [download EXCEPT ![p] = NoFile]
  /\ UNCHANGED <<target, aside, temp, locals, counters>>

\* The verified download gets its final name; it runs from where it is otherwise.
Publish(p) ==
  /\ pc[p] = "publish" /\ Go(p, "run")
  /\ IF target["bin"].maps = {}
       THEN /\ target' = [target EXCEPT !["bin"] = download[p]]
            /\ download' = [download EXCEPT ![p] = NoFile]
       ELSE UNCHANGED <<target, download>>
  /\ UNCHANGED <<aside, temp, locals, counters>>

-----------------------------------------------------------------------------
Leave(p) ==
  /\ Go(p, "off") /\ UnmapAll({p})
  /\ at' = [at EXCEPT ![p] = "bin"] /\ seen' = [seen EXCEPT ![p] = "absent"]

Exit(p) ==
  /\ pc[p] \in {"run", "failed"} /\ Leave(p)
  /\ UNCHANGED counters

Crash(p) ==
  /\ Starting(p) /\ crashes < MaxCrashes
  /\ crashes' = crashes + 1 /\ Leave(p)
  /\ UNCHANGED <<starts, failures, disturbed>>

ElderExits ==
  /\ \E f \in {target[pl] : pl \in Place} \cup {a.file : a \in aside} : Elder \in f.maps
  /\ UnmapAll({Elder})
  /\ UNCHANGED <<pc, locals, counters>>

Step(p) ==
  \/ Unpack(p) \/ UnpackHome(p) \/ Sweep(p) \/ Compare(p)
  \/ WriteBegins(p) \/ WriteEnds(p) \/ WriteFails(p) \/ Recheck(p)
  \/ MoveOver(p) \/ MoveOverFails(p) \/ MoveAside(p) \/ MoveAsideFails(p)
  \/ Restore(p) \/ GiveUp(p)
  \/ Verify(p) \/ Hash(p) \/ Map(p) \/ MapFails(p)
  \/ RehashAgrees(p) \/ RehashDiffers(p)
  \/ Download(p) \/ DownloadFails(p) \/ Publish(p)

Next ==
  \/ ElderExits
  \/ \E p \in Process : Start(p) \/ Step(p) \/ Exit(p) \/ Crash(p)

Spec == Init /\ [][Next]_vars

-----------------------------------------------------------------------------
(* Properties *)

\* Whatever process dies or fails, and wherever, no lua51.dll the loader looks for is
\* ever a half-written one ("never hand a half-written DLL to the loader").
NeverTorn == \A pl \in Place : target[pl].data # "partial"

\* A compiled app that carries a good runtime starts without the network, whatever
\* lies in bin and however a swap before it was killed - unless a file operation fails
\* or another process moves a lua51.dll away (or back) while this one starts.
OnlyRacesStopIt ==
  \A p \in Carrier : pc[p] = "failed" /\ failures = 0 => disturbed[p]

\* lef.cpp:252: a stale or broken copy cannot keep a payload that carries a good
\* one from starting.
BundledStarts == \A p \in Carrier : pc[p] = "failed" => failures > 0
=============================================================================
