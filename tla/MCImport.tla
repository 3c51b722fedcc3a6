------------------------------ MODULE MCImport ------------------------------
(* Instances of Import for TLC: up to two versions of a module in the store, ranges
   that one of them satisfies, and a bundled folder. *)
EXTENDS Import, TLC

CONSTANTS v1, v2, bundled, any, only1, only2

MCStoreFolder == {v1, v2} \cap Folder
MCSatisfies == {<<v1, only1>>, <<v2, only2>>} \cap (MCStoreFolder \X Request)
=============================================================================
