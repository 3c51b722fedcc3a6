---------------------------- MODULE ModuleTable ----------------------------
(***************************************************************************)
(* What import() promises a process, without locks or futures: one folder  *)
(* per module name.  A name has no folder until some import resolves it;   *)
(* from then on it has that folder for as long as the process lives, and   *)
(* whatever is loaded under the name is loaded from there.                 *)
(* ("One folder per module per process", src/src/lua/import.h.)            *)
(***************************************************************************)
CONSTANTS Name,      \* the module names the program imports
          Folder,    \* the folders a module can be loaded from
          NoFolder   \* the empty path

VARIABLES table,     \* table[n]: the folder name n resolved to, or NoFolder
          used       \* <<n, d>>: something of module n was loaded from folder d

tableVars == <<table, used>>

TableInit == /\ table = [n \in Name |-> NoFolder]
             /\ used = {}

\* A name gets its folder, once.
Settle(n, d) == /\ table[n] = NoFolder
                /\ table' = [table EXCEPT ![n] = d]
                /\ UNCHANGED used

\* An import or a require("name.sub") loads a file of a settled module.
Use(n) == /\ table[n] # NoFolder
          /\ used' = used \cup {<<n, table[n]>>}
          /\ UNCHANGED table

TableNext == \E n \in Name : Use(n) \/ \E d \in Folder : Settle(n, d)

TableSpec == TableInit /\ [][TableNext]_tableVars
=============================================================================
