---------------------------- MODULE RuntimeProofs ----------------------------
(***************************************************************************)
(* For any number of processes, starts, failures and kills: the variables  *)
(* of Runtime have their types, no lua51.dll is ever half written, and an  *)
(* app that carries the runtime starts unless a file operation fails or    *)
(* another process moves a lua51.dll while it does.                        *)
(***************************************************************************)
EXTENDS Runtime, TLAPS

\* Where a process writes, it writes to a folder; the unpack begins with bin.
Positions ==
  \A p \in Process : /\ pc[p] \in {"unpack", "home"} => at[p] = "bin"
                     /\ pc[p] \in Writing => at[p] \in Place

Written == {"recheck", "sweep2", "replace", "aside", "movein", "restore"}

\* What may become a lua51.dll by a rename is whole.
Whole ==
  /\ \A pl \in Place : target[pl].data # "partial"
  /\ \A a \in aside : a.file.data # "partial"
  /\ \A p \in Process : download[p].data # "partial"
  /\ \A p \in Process : pc[p] \in Written => temp[p].data # "partial"

IInv == TypeOK /\ Positions /\ Whole

FileTypes ==
  /\ target \in [Place -> File] /\ aside \subseteq Aside
  /\ temp \in [Process -> File] /\ download \in [Process -> File]

-----------------------------------------------------------------------------
(* Lemmas *)

LEMMA FileFacts ==
  /\ NoFile \in File /\ NoFile.data = "absent"
  /\ \A d \in Data : Fresh(d) \in File /\ Fresh(d).data = d
  /\ \A S : \A f \in File : Unmap(f, S) \in File /\ Unmap(f, S).data = f.data
BY DEF NoFile, Fresh, Unmap, File, Data

\* Processes that end leave the contents of all files as they are.
LEMMA UnmapAllKeeps ==
  ASSUME FileTypes, Whole, NEW S, UnmapAll(S)
  PROVE  /\ FileTypes'
         /\ \A pl \in Place : target'[pl].data # "partial"
         /\ \A a \in aside' : a.file.data # "partial"
         /\ \A p \in Process : download'[p].data # "partial" /\ temp'[p].data = temp[p].data
<1>1. target' \in [Place -> File] /\ \A pl \in Place : target'[pl].data # "partial"
  BY FileFacts DEF UnmapAll, FileTypes, Whole
<1>2. /\ temp' \in [Process -> File] /\ download' \in [Process -> File]
      /\ \A p \in Process : download'[p].data # "partial" /\ temp'[p].data = temp[p].data
  BY FileFacts DEF UnmapAll, FileTypes, Whole
<1>3. \A a \in aside : /\ [a EXCEPT !.file = Unmap(@, S)] \in Aside
                       /\ [a EXCEPT !.file = Unmap(@, S)].file.data # "partial"
  <2> SUFFICES ASSUME NEW a \in aside
               PROVE  /\ [a EXCEPT !.file = Unmap(@, S)] \in Aside
                      /\ [a EXCEPT !.file = Unmap(@, S)].file.data # "partial"
    OBVIOUS
  <2>1. a \in Aside /\ a.file \in File /\ a.file.data # "partial" BY DEF FileTypes, Whole, Aside
  <2>2. Unmap(a.file, S) \in File /\ Unmap(a.file, S).data # "partial" BY <2>1, FileFacts
  <2> QED BY <2>1, <2>2 DEF Aside
<1>4. aside' \subseteq Aside /\ \A a \in aside' : a.file.data # "partial"
  BY <1>3 DEF UnmapAll
<1> QED BY <1>1, <1>2, <1>4 DEF FileTypes

\* A step of one process in the program.
LEMMA GoKeeps ==
  ASSUME NEW p \in Process, NEW l \in Control, pc \in [Process -> Control], Go(p, l)
  PROVE  pc' \in [Process -> Control] /\ pc'[p] = l /\ \A q \in Process \ {p} : pc'[q] = pc[q]
BY DEF Go

LEMMA InitInv == Init => IInv
<1> SUFFICES ASSUME Init PROVE IInv OBVIOUS
<1> USE DEF Init
<1>1. TypeOK
  <2>1. target \in [Place -> File]
    <3>1. PICK d \in {"absent", "other", "good"} :
            target = [pl \in Place |-> IF pl = "bin" /\ d # "absent"
                                         THEN [data |-> d, maps |-> {Elder}] ELSE NoFile]
      OBVIOUS
    <3>2. [data |-> d, maps |-> {Elder}] \in File BY DEF File, Data
    <3> QED BY <3>1, <3>2, FileFacts
  <2>2. temp \in [Process -> File] /\ download \in [Process -> File] BY FileFacts
  <2> QED BY <2>1, <2>2, RuntimeAssumption DEF TypeOK, Control, Data, Place
<1>2. Positions BY DEF Positions, Writing
<1>3. Whole
  <2>1. \A p \in Process : pc[p] \notin Written BY DEF Written
  <2>2. \A pl \in Place : target[pl].data # "partial" BY FileFacts
  <2> QED BY <2>1, <2>2, FileFacts DEF Whole
<1> QED BY <1>1, <1>2, <1>3 DEF IInv

LEMMA StartKeeps ==
  ASSUME IInv, NEW p \in Process, Start(p) PROVE IInv'
<1> USE FileFacts DEF IInv
<1>1. TypeOK' BY RuntimeAssumption DEF TypeOK, Start, Go, files, Place, Control, Loading
<1>2. Positions' BY DEF TypeOK, Positions, Start, Go, Place
<1>3. Whole' BY DEF Whole, Written, Start, Go, files
<1> QED BY <1>1, <1>2, <1>3

LEMMA UnpackKeeps ==
  ASSUME IInv, NEW p \in Process, Unpack(p) PROVE IInv'
<1> USE FileFacts DEF IInv
<1>1. TypeOK' BY DEF TypeOK, Unpack, Go, files, locals, counters, Control, Writing, Loading
<1>2. Positions' BY DEF TypeOK, Positions, Unpack, Go, locals
<1>3. Whole' BY DEF Whole, Written, Unpack, Go, files
<1> QED BY <1>1, <1>2, <1>3

LEMMA UnpackHomeKeeps ==
  ASSUME IInv, NEW p \in Process, UnpackHome(p) PROVE IInv'
<1> USE FileFacts DEF IInv
<1>1. TypeOK' BY DEF TypeOK, UnpackHome, Go, files, counters, Place, Control, Writing, Loading
<1>2. Positions' BY DEF TypeOK, Positions, UnpackHome, Go, Place
<1>3. Whole' BY DEF TypeOK, Whole, Written, UnpackHome, Go, files
<1> QED BY <1>1, <1>2, <1>3

LEMMA CompareKeeps ==
  ASSUME IInv, NEW p \in Process, Compare(p) PROVE IInv'
<1> USE FileFacts DEF IInv
<1>1. TypeOK'
  BY DEF TypeOK, Compare, Return, Go, files, counters, Place, Control, Writing, Loading
<1>2. Positions' BY DEF TypeOK, Positions, Compare, Return, Go, Writing
<1>3. Whole' BY DEF TypeOK, Whole, Written, Compare, Return, Go, files
<1> QED BY <1>1, <1>2, <1>3

LEMMA WriteBeginsKeeps ==
  ASSUME IInv, NEW p \in Process, WriteBegins(p) PROVE IInv'
<1> USE FileFacts DEF IInv
<1>1. TypeOK' BY DEF TypeOK, WriteBegins, Go, locals, counters, Data, Control, Writing
<1>2. Positions' BY DEF Positions, WriteBegins, Go, locals, Writing
<1>3. Whole' BY DEF Whole, Written, WriteBegins, Go
<1> QED BY <1>1, <1>2, <1>3

LEMMA WriteEndsKeeps ==
  ASSUME IInv, NEW p \in Process, WriteEnds(p) PROVE IInv'
<1> USE FileFacts DEF IInv
<1>1. TypeOK' BY DEF TypeOK, WriteEnds, Go, locals, counters, Data, Control, Writing
<1>2. Positions' BY DEF Positions, WriteEnds, Go, locals, Writing
<1>3. Whole' BY DEF TypeOK, Whole, WriteEnds, Go, Data
<1> QED BY <1>1, <1>2, <1>3

LEMMA WriteFailsKeeps ==
  ASSUME IInv, NEW p \in Process, WriteFails(p) PROVE IInv'
<1> USE FileFacts DEF IInv
<1>1. TypeOK'
  BY RuntimeAssumption DEF TypeOK, WriteFails, Return, Glitch, Go, Place, Control, Loading
<1>2. Positions' BY DEF TypeOK, Positions, WriteFails, Return, Go, Place
<1>3. Whole' BY DEF TypeOK, Whole, WriteFails, Return, Go
<1> QED BY <1>1, <1>2, <1>3

LEMMA RecheckKeeps ==
  ASSUME IInv, NEW p \in Process, Recheck(p) PROVE IInv'
<1> USE FileFacts DEF IInv
<1>1. TypeOK' BY DEF TypeOK, Recheck, Return, Go, counters, Place, Control, Writing, Loading
<1>2. Positions' BY DEF TypeOK, Positions, Recheck, Return, Go, Writing
<1>3. Whole' BY DEF TypeOK, Whole, Written, Recheck, Return, Go
<1> QED BY <1>1, <1>2, <1>3

LEMMA MoveOverKeeps ==
  ASSUME IInv, NEW p \in Process, MoveOver(p) PROVE IInv'
<1> USE FileFacts DEF IInv
<1>1. TypeOK' BY DEF TypeOK, MoveOver, Return, Go, counters, Place, Control, Loading
<1>2. Positions' BY DEF TypeOK, Positions, MoveOver, Return, Go, Place
<1>3. Whole' BY DEF Whole, Written, MoveOver, Return, Go
<1> QED BY <1>1, <1>2, <1>3

LEMMA MoveOverFailsKeeps ==
  ASSUME IInv, NEW p \in Process, MoveOverFails(p) PROVE IInv'
<1> USE FileFacts DEF IInv
<1>1. TypeOK'
  BY RuntimeAssumption
    DEF TypeOK, MoveOverFails, NoGlitch, Glitch, Go, files, locals, Control, Writing
<1>2. Positions' BY DEF Positions, MoveOverFails, Go, locals, Writing
<1>3. Whole' BY DEF Whole, Written, MoveOverFails, Go, files
<1> QED BY <1>1, <1>2, <1>3

LEMMA MoveAsideFailsKeeps ==
  ASSUME IInv, NEW p \in Process, MoveAsideFails(p) PROVE IInv'
<1> USE FileFacts DEF IInv
<1>1. TypeOK'
  BY RuntimeAssumption
    DEF TypeOK, MoveAsideFails, NoGlitch, Glitch, Go, files, locals, Control, Writing
<1>2. Positions' BY DEF Positions, MoveAsideFails, Go, locals, Writing
<1>3. Whole' BY DEF Whole, Written, MoveAsideFails, Go, files
<1> QED BY <1>1, <1>2, <1>3

LEMMA GiveUpKeeps ==
  ASSUME IInv, NEW p \in Process, GiveUp(p) PROVE IInv'
<1> USE FileFacts DEF IInv
<1>1. TypeOK' BY DEF TypeOK, GiveUp, Return, Go, counters, Place, Control, Loading
<1>2. Positions' BY DEF TypeOK, Positions, GiveUp, Return, Go, Place
<1>3. Whole' BY DEF TypeOK, Whole, GiveUp, Return, Go
<1> QED BY <1>1, <1>2, <1>3

LEMMA VerifyKeeps ==
  ASSUME IInv, NEW p \in Process, Verify(p) PROVE IInv'
<1> USE FileFacts DEF IInv
<1>1. TypeOK' BY DEF TypeOK, Verify, Refuse, Go, counters, Place, Control, Loading
<1>2. Positions' BY DEF TypeOK, Positions, Verify, Refuse, Go, Writing
<1>3. Whole' BY DEF TypeOK, Whole, Written, Verify, Refuse, Go
<1> QED BY <1>1, <1>2, <1>3

LEMMA HashKeeps ==
  ASSUME IInv, NEW p \in Process, Hash(p) PROVE IInv'
<1> USE FileFacts DEF IInv
<1>1. TypeOK'
  <2>1. Candidate(p).data \in Data BY DEF TypeOK, Candidate, File
  <2> QED BY <2>1 DEF TypeOK, Hash, Go, files, locals, counters, Control, Loading
<1>2. Positions' BY DEF Positions, Hash, Go, Writing
<1>3. Whole' BY DEF Whole, Written, Hash, Go, files
<1> QED BY <1>1, <1>2, <1>3

LEMMA MapFailsKeeps ==
  ASSUME IInv, NEW p \in Process, MapFails(p) PROVE IInv'
<1> USE FileFacts DEF IInv
<1>1. TypeOK' BY DEF TypeOK, MapFails, Refuse, Go, counters, Place, Control, Loading
<1>2. Positions' BY DEF TypeOK, Positions, MapFails, Refuse, Go, Writing
<1>3. Whole' BY DEF TypeOK, Whole, Written, MapFails, Refuse, Go, Place
<1> QED BY <1>1, <1>2, <1>3

LEMMA RehashAgreesKeeps ==
  ASSUME IInv, NEW p \in Process, RehashAgrees(p) PROVE IInv'
<1> USE FileFacts DEF IInv
<1>1. TypeOK' BY DEF TypeOK, RehashAgrees, Go, files, locals, counters, Control
<1>2. Positions' BY DEF Positions, RehashAgrees, Go, locals, Writing
<1>3. Whole' BY DEF Whole, Written, RehashAgrees, Go, files
<1> QED BY <1>1, <1>2, <1>3

LEMMA DownloadKeeps ==
  ASSUME IInv, NEW p \in Process, Download(p) PROVE IInv'
<1> USE FileFacts DEF IInv
<1>1. TypeOK' BY DEF TypeOK, Download, Go, locals, counters, Data, Control, Loading
<1>2. Positions' BY DEF Positions, Download, Go, locals, Writing
<1>3. Whole' BY DEF Whole, Written, Download, Go, Data
<1> QED BY <1>1, <1>2, <1>3

LEMMA DownloadFailsKeeps ==
  ASSUME IInv, NEW p \in Process, DownloadFails(p) PROVE IInv'
<1> USE FileFacts DEF IInv
<1>1. TypeOK' BY DEF TypeOK, DownloadFails, Go, locals, counters, Control
<1>2. Positions' BY DEF Positions, DownloadFails, Go, locals, Writing
<1>3. Whole' BY DEF Whole, Written, DownloadFails, Go
<1> QED BY <1>1, <1>2, <1>3

LEMMA PublishKeeps ==
  ASSUME IInv, NEW p \in Process, Publish(p) PROVE IInv'
<1> USE FileFacts DEF IInv
<1>1. TypeOK' BY DEF TypeOK, Publish, Go, locals, counters, Control
<1>2. Positions' BY DEF Positions, Publish, Go, locals, Writing
<1>3. Whole' BY DEF TypeOK, Whole, Written, Publish, Go, Data
<1> QED BY <1>1, <1>2, <1>3


LEMMA SweepKeeps ==
  ASSUME IInv, NEW p \in Process, Sweep(p) PROVE IInv'
<1>1. aside' \subseteq aside BY DEF Sweep
<1>2. TypeOK' BY <1>1 DEF IInv, TypeOK, Sweep, Go, locals, counters, Control, Writing
<1>3. Positions' BY DEF IInv, TypeOK, Positions, Sweep, Go, locals, Control, Writing
<1>4. Whole' BY <1>1 DEF IInv, TypeOK, Positions, Whole, Written, Sweep, Go, Control, Writing
<1> QED BY <1>2, <1>3, <1>4 DEF IInv

LEMMA MoveAsideKeeps ==
  ASSUME IInv, NEW p \in Process, MoveAside(p) PROVE IInv'
<1>1. at[p] \in Place BY DEF IInv, Positions, MoveAside, Writing
<1>2. /\ target[at[p]] \in File /\ target[at[p]].data # "partial"
  BY <1>1 DEF IInv, TypeOK, Whole
<1>3. /\ MyAside(p, target[at[p]]) \in Aside
      /\ MyAside(p, target[at[p]]).file.data # "partial"
  BY <1>1, <1>2 DEF MyAside, Aside, IInv, TypeOK
<1>4. aside' \subseteq Aside /\ \A a \in aside' : a.file.data # "partial"
  BY <1>3 DEF MoveAside, IInv, TypeOK, Whole
<1>5. target' \in [Place -> File] /\ \A pl \in Place : target'[pl].data # "partial"
  BY FileFacts DEF MoveAside, IInv, TypeOK, Whole
<1>6. disturbed' \in [Process -> BOOLEAN] BY DEF MoveAside, Disturb, IInv, TypeOK
<1>7. TypeOK'
  BY <1>4, <1>5, <1>6 DEF IInv, TypeOK, MoveAside, Go, locals, Control, Writing
<1>8. Positions' BY DEF IInv, TypeOK, Positions, MoveAside, Go, locals, Control, Writing
<1>9. Whole' BY <1>4, <1>5 DEF IInv, TypeOK, Whole, Written, MoveAside, Go, Control, Writing
<1> QED BY <1>7, <1>8, <1>9 DEF IInv

LEMMA RestoreKeeps ==
  ASSUME IInv, NEW p \in Process, Restore(p) PROVE IInv'
<1> DEFINE mine == {a \in aside : a = MyAside(p, a.file)}
<1>1. /\ aside' \subseteq aside
      /\ target' \in [Place -> File] /\ \A pl \in Place : target'[pl].data # "partial"
      /\ disturbed' \in [Process -> BOOLEAN]
  <2>1. CASE Exists(target[at[p]]) \/ mine = {}
    BY <2>1 DEF Restore, IInv, TypeOK, Whole
  <2>2. CASE ~(Exists(target[at[p]]) \/ mine = {})
    <3> DEFINE back == (CHOOSE a \in mine : TRUE).file
    <3>1. PICK b \in mine : b = CHOOSE a \in mine : TRUE BY <2>2
    <3>2. back \in File /\ back.data # "partial" BY <3>1 DEF IInv, TypeOK, Aside, Whole
    <3>3. /\ target' = [target EXCEPT ![at[p]] = back]
          /\ aside' = aside \ mine
          /\ disturbed' \in [Process -> BOOLEAN]
      BY <2>2 DEF Restore, Disturb, IInv, TypeOK
    <3> HIDE DEF back, mine
    <3> QED BY <3>2, <3>3 DEF IInv, TypeOK, Whole
  <2> QED BY <2>1, <2>2
<1>2. TypeOK' BY <1>1 DEF IInv, TypeOK, Restore, Go, locals, Control, Writing
<1>3. Positions' BY DEF IInv, TypeOK, Positions, Restore, Go, locals, Control, Writing
<1>4. Whole' BY <1>1 DEF IInv, TypeOK, Whole, Written, Restore, Go, Control, Writing
<1> QED BY <1>2, <1>3, <1>4 DEF IInv

LEMMA MapKeeps ==
  ASSUME IInv, NEW p \in Process, Map(p) PROVE IInv'
<1>1. \A f \in File : /\ [f EXCEPT !.maps = @ \cup {p}] \in File
                      /\ [f EXCEPT !.maps = @ \cup {p}].data = f.data
  BY DEF File
<1> DEFINE mapped(f) == [f EXCEPT !.maps = @ \cup {p}]
<1>2. target' \in [Place -> File] /\ \A pl \in Place : target'[pl].data # "partial"
  <2>1. CASE at[p] = "download" BY <2>1 DEF IInv, TypeOK, Whole, Map
  <2>2. CASE at[p] # "download"
    <3>1. at[p] \in Place BY <2>2 DEF IInv, TypeOK
    <3>2. target[at[p]] \in File /\ target[at[p]].data # "partial"
      BY <3>1 DEF IInv, TypeOK, Whole
    <3>3. mapped(target[at[p]]) \in File /\ mapped(target[at[p]]).data # "partial" BY <1>1, <3>2
    <3>4. target' = [target EXCEPT ![at[p]] = mapped(@)] BY <2>2 DEF Map
    <3> HIDE DEF mapped
    <3> QED BY <3>3, <3>4 DEF IInv, TypeOK, Whole
  <2> QED BY <2>1, <2>2
<1>3. download' \in [Process -> File] /\ \A q \in Process : download'[q].data # "partial"
  <2>1. CASE at[p] # "download" BY <2>1 DEF IInv, TypeOK, Whole, Map
  <2>2. CASE at[p] = "download"
    <3>1. download[p] \in File /\ download[p].data # "partial" BY DEF IInv, TypeOK, Whole
    <3>2. mapped(download[p]) \in File /\ mapped(download[p]).data # "partial" BY <1>1, <3>1
    <3>3. download' = [download EXCEPT ![p] = mapped(@)] BY <2>2 DEF Map
    <3> HIDE DEF mapped
    <3> QED BY <3>2, <3>3 DEF IInv, TypeOK, Whole
  <2> QED BY <2>1, <2>2
<1>4. TypeOK' BY <1>2, <1>3 DEF IInv, TypeOK, Map, Go, locals, counters, Control, Loading
<1>5. Positions' BY DEF IInv, TypeOK, Positions, Map, Go, locals, Control, Writing, Loading
<1>6. Whole' BY <1>2, <1>3 DEF IInv, TypeOK, Whole, Written, Map, Go, Control, Loading
<1> QED BY <1>4, <1>5, <1>6 DEF IInv

LEMMA RehashDiffersKeeps ==
  ASSUME IInv, NEW p \in Process, RehashDiffers(p) PROVE IInv'
<1>1. /\ FileTypes'
      /\ \A pl \in Place : target'[pl].data # "partial"
      /\ \A a \in aside' : a.file.data # "partial"
      /\ \A q \in Process : download'[q].data # "partial" /\ temp'[q].data = temp[q].data
  BY UnmapAllKeeps DEF RehashDiffers, IInv, TypeOK, FileTypes
<1>2. TypeOK'
  BY <1>1 DEF IInv, TypeOK, FileTypes, RehashDiffers, Go, counters, Control, Loading, Place
<1>3. Positions' BY DEF IInv, Positions, RehashDiffers, Go, Writing
<1>4. Whole' BY <1>1 DEF IInv, TypeOK, Whole, Written, RehashDiffers, Go, Control, Loading
<1> QED BY <1>2, <1>3, <1>4 DEF IInv

\* A process that ends, in order or not, and an old one.
LEMMA LeaveKeeps ==
  ASSUME IInv, NEW p \in Process, Leave(p), starts' = starts, failures' = failures,
         crashes' \in 0..MaxCrashes, disturbed' = disturbed
  PROVE  IInv'
<1>1. /\ FileTypes'
      /\ \A pl \in Place : target'[pl].data # "partial"
      /\ \A a \in aside' : a.file.data # "partial"
      /\ \A q \in Process : download'[q].data # "partial" /\ temp'[q].data = temp[q].data
  BY UnmapAllKeeps DEF Leave, IInv, TypeOK, FileTypes
<1>2. TypeOK'
  BY <1>1 DEF IInv, TypeOK, FileTypes, Leave, Go, Control, Place, Data
<1>3. Positions' BY DEF IInv, TypeOK, Positions, Leave, Go, Control, Writing, Place
<1>4. Whole' BY <1>1 DEF IInv, TypeOK, Whole, Written, Leave, Go, Control
<1> QED BY <1>2, <1>3, <1>4 DEF IInv

LEMMA ElderExitsKeeps ==
  ASSUME IInv, ElderExits PROVE IInv'
<1>1. /\ FileTypes'
      /\ \A pl \in Place : target'[pl].data # "partial"
      /\ \A a \in aside' : a.file.data # "partial"
      /\ \A q \in Process : download'[q].data # "partial" /\ temp'[q].data = temp[q].data
  BY UnmapAllKeeps DEF ElderExits, IInv, TypeOK, FileTypes
<1>2. TypeOK' BY <1>1 DEF IInv, TypeOK, FileTypes, ElderExits, locals, counters
<1>3. Positions' BY DEF IInv, Positions, ElderExits, locals
<1>4. Whole' BY <1>1 DEF IInv, Whole, ElderExits
<1> QED BY <1>2, <1>3, <1>4 DEF IInv

LEMMA NextInv == IInv /\ [Next]_vars => IInv'
<1> SUFFICES ASSUME IInv, [Next]_vars PROVE IInv' OBVIOUS
<1>1. CASE ElderExits BY <1>1, ElderExitsKeeps
<1>2. ASSUME NEW p \in Process, Start(p) PROVE IInv' BY <1>2, StartKeeps
<1>3. ASSUME NEW p \in Process, Step(p) PROVE IInv'
  <2>1. CASE Unpack(p) BY <2>1, UnpackKeeps
  <2>2. CASE UnpackHome(p) BY <2>2, UnpackHomeKeeps
  <2>3. CASE Sweep(p) BY <2>3, SweepKeeps
  <2>4. CASE Compare(p) BY <2>4, CompareKeeps
  <2>5. CASE WriteBegins(p) BY <2>5, WriteBeginsKeeps
  <2>6. CASE WriteEnds(p) BY <2>6, WriteEndsKeeps
  <2>7. CASE WriteFails(p) BY <2>7, WriteFailsKeeps
  <2>8. CASE Recheck(p) BY <2>8, RecheckKeeps
  <2>9. CASE MoveOver(p) BY <2>9, MoveOverKeeps
  <2>10. CASE MoveOverFails(p) BY <2>10, MoveOverFailsKeeps
  <2>11. CASE MoveAside(p) BY <2>11, MoveAsideKeeps
  <2>12. CASE MoveAsideFails(p) BY <2>12, MoveAsideFailsKeeps
  <2>13. CASE Restore(p) BY <2>13, RestoreKeeps
  <2>14. CASE GiveUp(p) BY <2>14, GiveUpKeeps
  <2>15. CASE Verify(p) BY <2>15, VerifyKeeps
  <2>16. CASE Hash(p) BY <2>16, HashKeeps
  <2>17. CASE Map(p) BY <2>17, MapKeeps
  <2>18. CASE MapFails(p) BY <2>18, MapFailsKeeps
  <2>19. CASE RehashAgrees(p) BY <2>19, RehashAgreesKeeps
  <2>20. CASE RehashDiffers(p) BY <2>20, RehashDiffersKeeps
  <2>21. CASE Download(p) BY <2>21, DownloadKeeps
  <2>22. CASE DownloadFails(p) BY <2>22, DownloadFailsKeeps
  <2>23. CASE Publish(p) BY <2>23, PublishKeeps
  <2> QED
    BY <1>3, <2>1, <2>2, <2>3, <2>4, <2>5, <2>6, <2>7, <2>8, <2>9, <2>10, <2>11, <2>12, <2>13,
       <2>14, <2>15, <2>16, <2>17, <2>18, <2>19, <2>20, <2>21, <2>22, <2>23 DEF Step
<1>4. ASSUME NEW p \in Process, Exit(p) PROVE IInv'
  BY <1>4, LeaveKeeps DEF Exit, counters, IInv, TypeOK
<1>5. ASSUME NEW p \in Process, Crash(p) PROVE IInv'
  <2>1. crashes' \in 0..MaxCrashes BY <1>5, RuntimeAssumption DEF Crash, IInv, TypeOK
  <2> QED BY <1>5, <2>1, LeaveKeeps DEF Crash
<1>6. CASE UNCHANGED vars
  BY <1>6 DEF IInv, TypeOK, Positions, Whole, vars, files, locals, counters
<1> QED BY <1>1, <1>2, <1>3, <1>4, <1>5, <1>6 DEF Next

-----------------------------------------------------------------------------
(* Theorems *)

\* The inductive invariant: where a process is, it writes to a folder, and whatever
\* file may get the name lua51.dll by a rename is whole.
THEOREM FilesStayWhole == Spec => []IInv
<1>1. Init => IInv BY InitInv
<1>2. IInv /\ [Next]_vars => IInv' BY NextInv
<1> QED BY <1>1, <1>2, PTL DEF Spec

\* Every reachable state has values of the declared types.
THEOREM TypeCorrect == Spec => []TypeOK
<1>1. IInv => TypeOK BY DEF IInv
<1> QED BY <1>1, FilesStayWhole, PTL

\* However many processes write, swap, restore, download and publish lua51.dll, and
\* wherever they fail or are killed, its name never leads to a half-written file.
THEOREM NobodyLoadsATornRuntime == Spec => []NeverTorn
<1>1. IInv => NeverTorn BY DEF IInv, Whole, NeverTorn
<1> QED BY <1>1, FilesStayWhole, PTL

-----------------------------------------------------------------------------
(* Why an app that carries the runtime starts *)

\* What may get the name lua51.dll by a rename is the good runtime, or a file that
\* had the name before; a name that leads nowhere has nothing mapped.
Supply ==
  /\ \A pl \in Place : target[pl].data = "absent" => target[pl].maps = {}
  /\ \A a \in aside : Exists(a.file)
  /\ \A p \in Process : pc[p] \in Written => temp[p].data = "good"
  /\ \A p \in Process :
       /\ at[p] = "download" /\ pc[p] \in {"hash", "map", "rehash"} => download[p].data = "good"
       /\ pc[p] = "publish" => download[p].data = "good"

\* How far an undisturbed start of p has got, and what it may rely on from there.
Provided(p) ==
  failures = 0 /\ ~disturbed[p] /\ pc[p] \notin {"off", "run"} =>
    /\ at[p] = "bin" /\ pc[p] \notin {"home", "download", "publish", "failed"}
    /\ pc[p] \in Loading \cup {"restore", "giveup"} => target["bin"].data = "good"
    /\ pc[p] \in {"map", "rehash"} => seen[p] = "good"
    /\ pc[p] = "aside" => Exists(target["bin"])
    /\ pc[p] = "movein" => target["bin"].data \in {"absent", "good"}

AllProvided == \A p \in Carrier : Provided(p)

\* What a step of p does to the start of another process: the runtime it finds stays
\* what it was or becomes the good one, or the start is disturbed.
Spares(p) ==
  /\ failures' = 0 => failures = 0
  /\ \A q \in Process \ {p} :
       /\ pc'[q] = pc[q] /\ at'[q] = at[q] /\ seen'[q] = seen[q]
       /\ disturbed[q] => disturbed'[q]
       /\ \/ target'["bin"].data \in {target["bin"].data, "good"}
          \/ disturbed'[q]

\* The starts of the other processes are provided for by a step that spares them.
LEMMA OthersProvided ==
  ASSUME IInv, AllProvided, NEW p \in Process, Spares(p), p \in Carrier => Provided(p)'
  PROVE  AllProvided'
<1> SUFFICES ASSUME NEW q \in Carrier, q # p PROVE Provided(q)'
  BY DEF AllProvided
<1>1. q \in Process /\ Provided(q) BY RuntimeAssumption DEF AllProvided
<1>2. /\ pc'[q] = pc[q] /\ at'[q] = at[q] /\ seen'[q] = seen[q]
      /\ disturbed[q] => disturbed'[q]
      /\ failures' = 0 => failures = 0
  BY <1>1 DEF Spares
<1>3. CASE disturbed'[q] BY <1>3 DEF Provided
<1>4. CASE target'["bin"].data \in {target["bin"].data, "good"}
  BY <1>1, <1>2, <1>4 DEF Provided, Exists
<1> QED BY <1>1, <1>3, <1>4 DEF Spares

\* Each step of a process leaves it with what it relies on, and spares the others.
LEMMA UnpackProvides ==
  ASSUME IInv, Supply, AllProvided, NEW p \in Process, Unpack(p)
  PROVE  Supply' /\ AllProvided'
<1> USE FileFacts DEF IInv
<1>1. Supply' BY DEF Supply, Written, Unpack, Go, files, locals
<1>2. Spares(p) BY DEF Spares, Unpack, Go, files, locals, counters
<1>3. p \in Carrier => Provided(p)'
  BY DEF AllProvided, Provided, Loading, Unpack, Go, files, locals, counters
<1> QED BY <1>1, <1>2, <1>3, OthersProvided

LEMMA UnpackHomeProvides ==
  ASSUME IInv, Supply, AllProvided, NEW p \in Process, UnpackHome(p)
  PROVE  Supply' /\ AllProvided'
<1> USE FileFacts DEF IInv
<1>1. Supply' BY DEF TypeOK, Supply, Written, UnpackHome, Go, files
<1>2. Spares(p) BY DEF TypeOK, Spares, UnpackHome, Go, files, counters
<1>3. p \in Carrier => Provided(p)' BY DEF AllProvided, Provided, UnpackHome, counters
<1> QED BY <1>1, <1>2, <1>3, OthersProvided

LEMMA SweepProvides ==
  ASSUME IInv, Supply, AllProvided, NEW p \in Process, Sweep(p)
  PROVE  Supply' /\ AllProvided'
<1> USE FileFacts DEF IInv
<1>1. Supply' BY DEF Supply, Written, Sweep, Go, locals
<1>2. Spares(p) BY DEF Spares, Sweep, Go, locals, counters
<1>3. p \in Carrier => Provided(p)'
  BY DEF AllProvided, Provided, Loading, Sweep, Go, locals, counters
<1> QED BY <1>1, <1>2, <1>3, OthersProvided

LEMMA CompareProvides ==
  ASSUME IInv, Supply, AllProvided, NEW p \in Process, Compare(p)
  PROVE  Supply' /\ AllProvided'
<1> USE FileFacts DEF IInv
<1>1. Supply' BY DEF TypeOK, Supply, Written, Compare, Return, Go, files
<1>2. Spares(p) BY DEF TypeOK, Spares, Compare, Return, Go, files, counters
<1>3. p \in Carrier => Provided(p)'
  BY DEF AllProvided, Provided, TypeOK, Loading, Compare, Return, Go, files, counters
<1> QED BY <1>1, <1>2, <1>3, OthersProvided

LEMMA WriteBeginsProvides ==
  ASSUME IInv, Supply, AllProvided, NEW p \in Process, WriteBegins(p)
  PROVE  Supply' /\ AllProvided'
<1> USE FileFacts DEF IInv
<1>1. Supply' BY DEF Supply, Written, WriteBegins, Go, locals
<1>2. Spares(p) BY DEF Spares, WriteBegins, Go, locals, counters
<1>3. p \in Carrier => Provided(p)'
  BY DEF AllProvided, Provided, Loading, WriteBegins, Go, locals, counters
<1> QED BY <1>1, <1>2, <1>3, OthersProvided

LEMMA WriteEndsProvides ==
  ASSUME IInv, Supply, AllProvided, NEW p \in Process, WriteEnds(p)
  PROVE  Supply' /\ AllProvided'
<1> USE FileFacts DEF IInv
<1>1. Supply' BY DEF TypeOK, Supply, Data, WriteEnds, Go, locals
<1>2. Spares(p) BY DEF Spares, WriteEnds, Go, locals, counters
<1>3. p \in Carrier => Provided(p)'
  BY DEF AllProvided, Provided, Loading, WriteEnds, Go, locals, counters
<1> QED BY <1>1, <1>2, <1>3, OthersProvided

LEMMA WriteFailsProvides ==
  ASSUME IInv, Supply, AllProvided, NEW p \in Process, WriteFails(p)
  PROVE  Supply' /\ AllProvided'
<1> USE FileFacts DEF IInv
<1>1. Supply' BY DEF Supply, Written, WriteFails, Return, Go
<1>2. Spares(p) BY DEF TypeOK, Spares, WriteFails, Return, Glitch, Go
<1>3. p \in Carrier => Provided(p)' BY DEF AllProvided, Provided, TypeOK, WriteFails, Glitch
<1> QED BY <1>1, <1>2, <1>3, OthersProvided

LEMMA RecheckProvides ==
  ASSUME IInv, Supply, AllProvided, NEW p \in Process, Recheck(p)
  PROVE  Supply' /\ AllProvided'
<1> USE FileFacts DEF IInv
<1>1. Supply' BY DEF TypeOK, Supply, Written, Recheck, Return, Go
<1>2. Spares(p) BY DEF TypeOK, Spares, Recheck, Return, Go, counters
<1>3. p \in Carrier => Provided(p)'
  BY DEF AllProvided, Provided, TypeOK, Loading, Recheck, Return, Go, counters
<1> QED BY <1>1, <1>2, <1>3, OthersProvided

LEMMA MoveOverProvides ==
  ASSUME IInv, Supply, AllProvided, NEW p \in Process, MoveOver(p)
  PROVE  Supply' /\ AllProvided'
<1> USE FileFacts DEF IInv
<1>1. Supply' BY DEF TypeOK, Supply, Written, MoveOver, Return, Go
<1>2. Spares(p) BY DEF Supply, Written, Spares, MoveOver, Return, Go, counters
<1>3. p \in Carrier => Provided(p)'
  BY DEF AllProvided, Provided, TypeOK, Supply, Written, MoveOver, Return, Go, counters
<1> QED BY <1>1, <1>2, <1>3, OthersProvided

LEMMA MoveOverFailsProvides ==
  ASSUME IInv, Supply, AllProvided, NEW p \in Process, MoveOverFails(p)
  PROVE  Supply' /\ AllProvided'
<1> USE FileFacts DEF IInv
<1>1. Supply' BY DEF Supply, Written, MoveOverFails, Go, files, locals
<1>2. Spares(p) BY DEF TypeOK, Spares, MoveOverFails, NoGlitch, Glitch, Go, files, locals
<1>3. p \in Carrier => Provided(p)'
  BY
    DEF AllProvided, Provided, TypeOK, Supply, Exists, Loading, MoveOverFails, NoGlitch, Glitch,
        Go, files, locals
<1> QED BY <1>1, <1>2, <1>3, OthersProvided

LEMMA MoveAsideProvides ==
  ASSUME IInv, Supply, AllProvided, NEW p \in Process, MoveAside(p)
  PROVE  Supply' /\ AllProvided'
<1> USE FileFacts DEF IInv
<1>1. Supply'
  <2>1. at[p] \in Place /\ Exists(MyAside(p, target[at[p]]).file)
    BY DEF Positions, MoveAside, MyAside, Writing
  <2>2. \A a \in aside' : Exists(a.file) BY <2>1 DEF Supply, MoveAside
  <2>3. \A pl \in Place : target'[pl].data = "absent" => target'[pl].maps = {}
    BY <2>1 DEF TypeOK, Supply, MoveAside, NoFile
  <2> QED BY <2>2, <2>3 DEF TypeOK, Supply, Written, MoveAside, Go, locals
<1>2. Spares(p) BY DEF TypeOK, Positions, Spares, MoveAside, Disturb, Go, locals
<1>3. p \in Carrier => Provided(p)'
  BY
    DEF AllProvided, Provided, TypeOK, Positions, Supply, Written, Exists, Loading, MoveAside,
        Disturb, Go, locals
<1> QED BY <1>1, <1>2, <1>3, OthersProvided

LEMMA MoveAsideFailsProvides ==
  ASSUME IInv, Supply, AllProvided, NEW p \in Process, MoveAsideFails(p)
  PROVE  Supply' /\ AllProvided'
<1> USE FileFacts DEF IInv
<1>1. Supply' BY DEF Supply, Written, MoveAsideFails, Go, files, locals
<1>2. Spares(p) BY DEF TypeOK, Spares, MoveAsideFails, NoGlitch, Glitch, Go, files, locals
<1>3. p \in Carrier => Provided(p)'
  BY DEF AllProvided, Provided, TypeOK, MoveAsideFails, NoGlitch, Glitch
<1> QED BY <1>1, <1>2, <1>3, OthersProvided

LEMMA GiveUpProvides ==
  ASSUME IInv, Supply, AllProvided, NEW p \in Process, GiveUp(p)
  PROVE  Supply' /\ AllProvided'
<1> USE FileFacts DEF IInv
<1>1. Supply' BY DEF Supply, Written, GiveUp, Return, Go
<1>2. Spares(p) BY DEF Spares, GiveUp, Return, Go, counters
<1>3. p \in Carrier => Provided(p)' BY DEF AllProvided, Provided, GiveUp, Return, Go, counters
<1> QED BY <1>1, <1>2, <1>3, OthersProvided

LEMMA VerifyProvides ==
  ASSUME IInv, Supply, AllProvided, NEW p \in Process, Verify(p)
  PROVE  Supply' /\ AllProvided'
<1> USE FileFacts DEF IInv
<1>1. Supply' BY DEF TypeOK, Supply, Written, Verify, Refuse, Candidate, Go
<1>2. Spares(p) BY DEF TypeOK, Spares, Verify, Refuse, Go, counters
<1>3. p \in Carrier => Provided(p)'
  BY DEF AllProvided, Provided, TypeOK, Loading, Verify, Candidate, Go, counters
<1> QED BY <1>1, <1>2, <1>3, OthersProvided

LEMMA HashProvides ==
  ASSUME IInv, Supply, AllProvided, NEW p \in Process, Hash(p)
  PROVE  Supply' /\ AllProvided'
<1> USE FileFacts DEF IInv
<1>1. Supply' BY DEF Supply, Written, Hash, Go, files
<1>2. Spares(p) BY DEF Spares, Hash, Go, files, counters
<1>3. p \in Carrier => Provided(p)'
  BY DEF AllProvided, Provided, TypeOK, Loading, Hash, Candidate, Go, files, counters
<1> QED BY <1>1, <1>2, <1>3, OthersProvided

LEMMA MapFailsProvides ==
  ASSUME IInv, Supply, AllProvided, NEW p \in Process, MapFails(p)
  PROVE  Supply' /\ AllProvided'
<1> USE FileFacts DEF IInv
<1>1. Supply' BY DEF TypeOK, Supply, Written, MapFails, Refuse, Go
<1>2. Spares(p) BY DEF TypeOK, Spares, MapFails, Refuse, Go, counters
<1>3. p \in Carrier => Provided(p)'
  BY DEF AllProvided, Provided, Loading, MapFails, Candidate, counters
<1> QED BY <1>1, <1>2, <1>3, OthersProvided

LEMMA RehashAgreesProvides ==
  ASSUME IInv, Supply, AllProvided, NEW p \in Process, RehashAgrees(p)
  PROVE  Supply' /\ AllProvided'
<1> USE FileFacts DEF IInv
<1>1. Supply' BY DEF Supply, Written, RehashAgrees, Go, files, locals
<1>2. Spares(p) BY DEF Spares, RehashAgrees, Go, files, locals, counters
<1>3. p \in Carrier => Provided(p)'
  BY DEF AllProvided, Provided, TypeOK, RehashAgrees, Go, counters
<1> QED BY <1>1, <1>2, <1>3, OthersProvided

LEMMA DownloadProvides ==
  ASSUME IInv, Supply, AllProvided, NEW p \in Process, Download(p)
  PROVE  Supply' /\ AllProvided'
<1> USE FileFacts DEF IInv
<1>1. Supply' BY DEF Supply, Written, Download, Go, locals
<1>2. Spares(p) BY DEF Spares, Download, Go, locals, counters
<1>3. p \in Carrier => Provided(p)' BY DEF AllProvided, Provided, Download, counters
<1> QED BY <1>1, <1>2, <1>3, OthersProvided

LEMMA DownloadFailsProvides ==
  ASSUME IInv, Supply, AllProvided, NEW p \in Process, DownloadFails(p)
  PROVE  Supply' /\ AllProvided'
<1> USE FileFacts DEF IInv
<1>1. Supply' BY DEF Supply, Written, DownloadFails, Go, locals
<1>2. Spares(p) BY DEF Spares, DownloadFails, Go, locals, counters
<1>3. p \in Carrier => Provided(p)' BY DEF AllProvided, Provided, DownloadFails, counters
<1> QED BY <1>1, <1>2, <1>3, OthersProvided

LEMMA PublishProvides ==
  ASSUME IInv, Supply, AllProvided, NEW p \in Process, Publish(p)
  PROVE  Supply' /\ AllProvided'
<1> USE FileFacts DEF IInv
<1>1. Supply' BY DEF TypeOK, Supply, Written, Publish, Go, locals
<1>2. Spares(p) BY DEF TypeOK, Supply, Spares, Publish, Go, locals, counters
<1>3. p \in Carrier => Provided(p)' BY DEF AllProvided, Provided, TypeOK, Publish, Go
<1> QED BY <1>1, <1>2, <1>3, OthersProvided

LEMMA StartProvides ==
  ASSUME IInv, Supply, AllProvided, NEW p \in Process, Start(p)
  PROVE  Supply' /\ AllProvided'
<1> USE FileFacts DEF IInv
<1>1. Supply' BY DEF Supply, Written, Start, Go, files
<1>2. Spares(p) BY DEF Spares, Start, Go, files
<1>3. p \in Carrier => Provided(p)' BY DEF AllProvided, Provided, TypeOK, Loading, Start, Go, 
        files
<1> QED BY <1>1, <1>2, <1>3, OthersProvided

\* Where a file is put back, it is one that had the name before.
LEMMA RestoreProvides ==
  ASSUME IInv, Supply, AllProvided, NEW p \in Process, Restore(p)
  PROVE  Supply' /\ AllProvided'
<1> DEFINE mine == {a \in aside : a = MyAside(p, a.file)}
<1>1. at[p] \in Place /\ pc \in [Process -> Control]
  BY DEF IInv, TypeOK, Positions, Restore, Writing
<1>2. /\ aside' \subseteq aside
      /\ \/ UNCHANGED <<target, disturbed>>
         \/ /\ ~Exists(target[at[p]]) /\ Disturb(p)
            /\ \E f : Exists(f) /\ target' = [target EXCEPT ![at[p]] = f]
  <2>1. CASE Exists(target[at[p]]) \/ mine = {}
    BY <2>1 DEF Restore
  <2>2. CASE ~(Exists(target[at[p]]) \/ mine = {})
    <3> DEFINE back == (CHOOSE a \in mine : TRUE).file
    <3>1. PICK b \in mine : b = CHOOSE a \in mine : TRUE BY <2>2
    <3>2. Exists(back) BY <3>1 DEF Supply
    <3>3. target' = [target EXCEPT ![at[p]] = back] /\ aside' = aside \ mine /\ Disturb(p)
      BY <2>2 DEF Restore
    <3> HIDE DEF back, mine
    <3> QED BY <2>2, <3>2, <3>3
  <2> QED BY <2>1, <2>2
<1>3. /\ UNCHANGED <<temp, download, at, seen, failures>> /\ pc[p] = "restore"
      /\ pc' = [pc EXCEPT ![p] = "giveup"]
  BY DEF Restore, Go, locals
<1>4. Supply'
  BY <1>1, <1>2, <1>3 DEF IInv, TypeOK, Supply, Written, Exists
<1>5. Spares(p)
  BY <1>1, <1>2, <1>3 DEF IInv, TypeOK, Spares, Disturb
<1>6. p \in Carrier => Provided(p)'
  BY <1>1, <1>2, <1>3 DEF IInv, TypeOK, AllProvided, Provided, Exists, Disturb, Loading
<1> QED BY <1>4, <1>5, <1>6, OthersProvided

\* LoadLibrary maps a file and leaves what it holds.
LEMMA MapProvides ==
  ASSUME IInv, Supply, AllProvided, NEW p \in Process, Map(p)
  PROVE  Supply' /\ AllProvided'
<1> DEFINE mapped(f) == [f EXCEPT !.maps = @ \cup {p}]
<1>1. \A f \in File : mapped(f) \in File /\ mapped(f).data = f.data
  BY DEF File
<1>2. /\ \A pl \in Place : /\ target'[pl].data = target[pl].data
                           /\ target'[pl].data = "absent" => target'[pl].maps = {}
      /\ \A q \in Process : download'[q].data = download[q].data
  <2>1. CASE at[p] = "download"
    <3>1. target' = target /\ download' = [download EXCEPT ![p] = mapped(@)]
      BY <2>1 DEF Map
    <3> HIDE DEF mapped
    <3> QED BY <1>1, <3>1 DEF IInv, TypeOK, Supply
  <2>2. CASE at[p] # "download"
    <3>1. /\ download' = download /\ target' = [target EXCEPT ![at[p]] = mapped(@)]
          /\ target[at[p]].data # "absent" /\ at[p] \in Place
      BY <2>2 DEF Map, Candidate, IInv, TypeOK
    <3> HIDE DEF mapped
    <3> QED BY <1>1, <3>1 DEF IInv, TypeOK, Supply
  <2> QED BY <2>1, <2>2
<1>3. /\ UNCHANGED <<aside, temp, locals, counters>> /\ pc[p] = "map"
      /\ pc' = [pc EXCEPT ![p] = "rehash"]
  BY DEF Map, Go
<1>4. Supply'
  BY <1>2, <1>3 DEF IInv, TypeOK, Supply, Written, locals
<1>5. Spares(p)
  BY <1>2, <1>3 DEF IInv, TypeOK, Spares, Place, locals, counters
<1>6. p \in Carrier => Provided(p)'
  BY <1>2, <1>3 DEF IInv, TypeOK, AllProvided, Provided, Loading, Place, locals, counters
<1> QED BY <1>4, <1>5, <1>6, OthersProvided

\* Processes that end leave what the files hold.
LEMMA UnmapAllSupplies ==
  ASSUME IInv, Supply, NEW S, UnmapAll(S)
  PROVE  /\ \A pl \in Place : /\ target'[pl].data = target[pl].data
                              /\ target'[pl].data = "absent" => target'[pl].maps = {}
         /\ \A a \in aside' : Exists(a.file)
         /\ \A q \in Process : /\ temp'[q].data = temp[q].data
                               /\ download'[q].data = download[q].data
<1>1. \A f \in File : Unmap(f, S).data = f.data /\ (f.maps = {} => Unmap(f, S).maps = {})
  BY DEF Unmap, File
<1>2. \A a \in aside : Exists([a EXCEPT !.file = Unmap(@, S)].file)
  <2> SUFFICES ASSUME NEW a \in aside PROVE Exists([a EXCEPT !.file = Unmap(@, S)].file)
    OBVIOUS
  <2>1. a \in Aside /\ a.file \in File /\ Exists(a.file) BY DEF IInv, TypeOK, Supply, Aside
  <2>2. Exists(Unmap(a.file, S)) BY <1>1, <2>1 DEF Exists
  <2> QED BY <2>1, <2>2 DEF Aside
<1>3. \A a \in aside' : Exists(a.file)
  BY <1>2 DEF UnmapAll
<1>4. \A pl \in Place : /\ target'[pl].data = target[pl].data
                        /\ target'[pl].data = "absent" => target'[pl].maps = {}
  BY <1>1 DEF IInv, TypeOK, Supply, UnmapAll
<1>5. \A q \in Process : temp'[q].data = temp[q].data /\ download'[q].data = download[q].data
  BY <1>1 DEF IInv, TypeOK, UnmapAll
<1> QED BY <1>3, <1>4, <1>5

LEMMA RehashDiffersProvides ==
  ASSUME IInv, Supply, AllProvided, NEW p \in Process, RehashDiffers(p)
  PROVE  Supply' /\ AllProvided'
<1>1. /\ \A pl \in Place : /\ target'[pl].data = target[pl].data
                           /\ target'[pl].data = "absent" => target'[pl].maps = {}
      /\ \A a \in aside' : Exists(a.file)
      /\ \A q \in Process : /\ temp'[q].data = temp[q].data
                            /\ download'[q].data = download[q].data
  BY UnmapAllSupplies DEF RehashDiffers
<1>2. Supply'
  BY <1>1 DEF IInv, TypeOK, Supply, Written, RehashDiffers, Go
<1>3. Spares(p)
  BY <1>1 DEF IInv, TypeOK, Spares, Place, RehashDiffers, Go, counters
<1>4. p \in Carrier => Provided(p)'
  BY <1>1
    DEF IInv, TypeOK, AllProvided, Provided, Loading, Place, Candidate, RehashDiffers, Go, counters
<1> QED BY <1>2, <1>3, <1>4, OthersProvided

LEMMA LeaveProvides ==
  ASSUME IInv, Supply, AllProvided, NEW p \in Process, Leave(p),
         UNCHANGED <<failures, disturbed>>
  PROVE  Supply' /\ AllProvided'
<1>1. /\ \A pl \in Place : /\ target'[pl].data = target[pl].data
                           /\ target'[pl].data = "absent" => target'[pl].maps = {}
      /\ \A a \in aside' : Exists(a.file)
      /\ \A q \in Process : /\ temp'[q].data = temp[q].data
                            /\ download'[q].data = download[q].data
  BY UnmapAllSupplies DEF Leave
<1>2. Supply'
  BY <1>1 DEF IInv, TypeOK, Supply, Written, Leave, Go
<1>3. Spares(p)
  BY <1>1 DEF IInv, TypeOK, Spares, Place, Leave, Go
<1>4. p \in Carrier => Provided(p)'
  BY DEF IInv, TypeOK, Provided, Leave, Go
<1> QED BY <1>2, <1>3, <1>4, OthersProvided

LEMMA ElderExitsProvides ==
  ASSUME IInv, Supply, AllProvided, ElderExits PROVE Supply' /\ AllProvided'
<1>1. /\ \A pl \in Place : /\ target'[pl].data = target[pl].data
                           /\ target'[pl].data = "absent" => target'[pl].maps = {}
      /\ \A a \in aside' : Exists(a.file)
      /\ \A q \in Process : /\ temp'[q].data = temp[q].data
                            /\ download'[q].data = download[q].data
  BY UnmapAllSupplies DEF ElderExits
<1>2. UNCHANGED <<pc, at, seen, failures, disturbed>>
  BY DEF ElderExits, locals, counters
<1>3. Supply' BY <1>1, <1>2 DEF Supply
<1>4. AllProvided' BY <1>1, <1>2 DEF AllProvided, Provided, Exists, Place
<1> QED BY <1>3, <1>4

\* At first nobody starts.
LEMMA InitProvides == Init => Supply /\ AllProvided
<1> SUFFICES ASSUME Init PROVE Supply /\ AllProvided OBVIOUS
<1>1. PICK d \in {"absent", "other", "good"} :
        target = [pl \in Place |-> IF pl = "bin" /\ d # "absent"
                                     THEN [data |-> d, maps |-> {Elder}] ELSE NoFile]
  BY DEF Init
<1>2. \A pl \in Place : target[pl].data = "absent" => target[pl].maps = {}
  BY <1>1 DEF NoFile
<1>3. aside = {} /\ \A p \in Process : pc[p] = "off" BY DEF Init
<1>4. Supply BY <1>2, <1>3 DEF Supply, Written
<1>5. AllProvided BY <1>3, RuntimeAssumption DEF AllProvided, Provided
<1> QED BY <1>4, <1>5

LEMMA NextProvides == IInv /\ Supply /\ AllProvided /\ [Next]_vars => Supply' /\ AllProvided'
<1> SUFFICES ASSUME IInv, Supply, AllProvided, [Next]_vars PROVE Supply' /\ AllProvided' OBVIOUS
<1>1. CASE ElderExits BY <1>1, ElderExitsProvides
<1>2. ASSUME NEW p \in Process, Start(p) PROVE Supply' /\ AllProvided' BY <1>2, StartProvides
<1>3. ASSUME NEW p \in Process, Step(p) PROVE Supply' /\ AllProvided'
  <2>1. CASE Unpack(p) \/ UnpackHome(p) \/ Sweep(p) \/ Compare(p)
    BY <2>1, UnpackProvides, UnpackHomeProvides, SweepProvides, CompareProvides
  <2>2. CASE WriteBegins(p) \/ WriteEnds(p) \/ WriteFails(p) \/ Recheck(p)
    BY <2>2, WriteBeginsProvides, WriteEndsProvides, WriteFailsProvides, RecheckProvides
  <2>3. CASE MoveOver(p) \/ MoveOverFails(p) \/ MoveAside(p) \/ MoveAsideFails(p)
    BY <2>3, MoveOverProvides, MoveOverFailsProvides, MoveAsideProvides, MoveAsideFailsProvides
  <2>4. CASE Restore(p) \/ GiveUp(p)
    BY <2>4, RestoreProvides, GiveUpProvides
  <2>5. CASE Verify(p) \/ Hash(p) \/ Map(p) \/ MapFails(p)
    BY <2>5, VerifyProvides, HashProvides, MapProvides, MapFailsProvides
  <2>6. CASE RehashAgrees(p) \/ RehashDiffers(p)
    BY <2>6, RehashAgreesProvides, RehashDiffersProvides
  <2>7. CASE Download(p) \/ DownloadFails(p) \/ Publish(p)
    BY <2>7, DownloadProvides, DownloadFailsProvides, PublishProvides
  <2> QED BY <1>3, <2>1, <2>2, <2>3, <2>4, <2>5, <2>6, <2>7 DEF Step
<1>4. ASSUME NEW p \in Process, Exit(p) \/ Crash(p) PROVE Supply' /\ AllProvided'
  BY <1>4, LeaveProvides DEF Exit, Crash, counters
<1>5. CASE UNCHANGED vars
  BY <1>5 DEF Supply, AllProvided, Provided, Exists, vars, files, locals, counters
<1> QED BY <1>1, <1>2, <1>3, <1>4, <1>5 DEF Next

\* The inductive invariant of a start that nothing disturbs: it finds or writes the good
\* runtime in bin, and from there on bin keeps it.
THEOREM StartsAreProvided == Spec => [](Supply /\ AllProvided)
<1>1. Init => Supply /\ AllProvided BY InitProvides
<1>2. IInv /\ Supply /\ AllProvided /\ [Next]_vars => (Supply /\ AllProvided)' BY NextProvides
<1> QED BY <1>1, <1>2, FilesStayWhole, PTL DEF Spec

\* An app that carries a good runtime starts without the network, whatever lies in bin
\* and however an earlier swap was killed, unless a file operation fails or another
\* process moves a lua51.dll away (or back) while it starts.
THEOREM OnlyRacesStopAnApp == Spec => []OnlyRacesStopIt
<1>1. AllProvided /\ TypeOK => OnlyRacesStopIt
  BY RuntimeAssumption DEF AllProvided, Provided, OnlyRacesStopIt, TypeOK
<1> QED BY <1>1, StartsAreProvided, TypeCorrect, PTL
=============================================================================
