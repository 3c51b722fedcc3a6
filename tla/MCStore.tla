------------------------------ MODULE MCStore -------------------------------
(* Instances of Store for TLC.  Module a depends on c; the versions of both are v1
   and v2, and a range that both satisfy.  The variants give modules that depend on
   each other and versions that compare equal. *)
EXTENDS Store, TLC

CONSTANTS w1, w2, w3, p, q, a, c, v1, v2, file1, file2, latestReq, exact1, range

MCProcessOf == [w \in Worker |-> IF w = w3 THEN q ELSE p]
MCExact == [r \in Request |-> IF r = exact1 THEN v1 ELSE NoVersion]
MCSatisfies == ({<<v1, exact1>>} \cup {<<v, range>> : v \in Version}) \cap (Version \X Request)
MCRank == [v \in Version |-> IF v = v1 THEN 1 ELSE 2]
MCFiles == [n \in Name |-> [v \in Version |-> IF v = v1 THEN {file1, file2} ELSE {file2}]]

\* a depends on c, and v2 of c depends on a: a cycle, unless c is answered with v1.
CyclicDeps == [n \in Name |-> [v \in Version |->
                 CASE n = a -> {<<c, range>>}
                   [] n # a /\ v = v2 -> {<<a, range>>}
                   [] OTHER -> {}]]
\* v1 and v2 differ in build metadata only, and an exact request of one is
\* satisfied by the other.
EqualRank == [v \in Version |-> 1]
EqualSatisfies == {<<v, r>> : v \in Version, r \in {exact1, range}}
AllPublished == [n \in Name |-> Version]
NoDeps == [n \in Name |-> [v \in Version |-> {}]]
=============================================================================
