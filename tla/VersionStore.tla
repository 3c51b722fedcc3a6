---------------------------- MODULE VersionStore ----------------------------
(***************************************************************************)
(* What lxe's module store promises everyone who reads it: a version       *)
(* folder is absent or complete, it appears in one step, nothing in it is  *)
(* ever overwritten or removed, and what it depends on was there before it *)
(* ("a folder that exists is complete ... Nothing in a version folder is   *)
(* ever overwritten", src/src/commands/install.h).                         *)
(***************************************************************************)
CONSTANTS Name, Version,
          Latest,      \* the request any version answers
          Files,       \* Files[n][v]: the files of version v of module n
          Deps,        \* Deps[n][v]: the <<module, request>> pairs it depends on
          Satisfies,   \* <<v, r>>: version v is an answer to request r
          NoDir        \* a version folder that does not exist

VARIABLE shelf         \* shelf[n][v]: the files in <store>\n\v, or NoDir

Fits(v, r) == r = Latest \/ <<v, r>> \in Satisfies

DependenciesHeld(n, v) ==
  \A dep \in Deps[n][v] : \E w \in Version : shelf[dep[1]][w] # NoDir /\ Fits(w, dep[2])

StoreInit == shelf = [n \in Name |-> [v \in Version |-> NoDir]]

Add(n, v) == /\ shelf[n][v] = NoDir
             /\ DependenciesHeld(n, v)
             /\ shelf' = [shelf EXCEPT ![n][v] = Files[n][v]]

StoreSpec == StoreInit /\ [][\E n \in Name, v \in Version : Add(n, v)]_shelf
=============================================================================
