------------------------------ MODULE Versions ------------------------------
(***************************************************************************)
(* The version grammar of the module store (modules_dir.cpp): how versions *)
(* compare and which ones a range accepts.  A version is what parse makes  *)
(* of a text: three numbers, how many of them were written, the pre-release *)
(* (0 for none, otherwise its place among the pre-release texts; build     *)
(* metadata is cut off) and whether the text was a version at all.         *)
(***************************************************************************)
EXTENDS Integers

Version == [part : [1..3 -> Nat], given : 0..3, pre : Nat, ok : BOOLEAN]

-----------------------------------------------------------------------------
\* A mutation: parts that differ further left are not looked at.
BelowAnyPart(a, b) ==
  \/ \E i \in 1..3 : a.part[i] < b.part[i]
  \/ a.part = b.part /\ a.pre # 0 /\ (b.pre = 0 \/ a.pre < b.pre)

\* compare(a, b) < 0: the first part that differs decides, then the pre-release;
\* a release is above its pre-releases.
Below(a, b) ==
  \/ \E i \in 1..3 : /\ a.part[i] < b.part[i]
                     /\ \A j \in 1..(i - 1) : a.part[j] = b.part[j]
  \/ /\ \A i \in 1..3 : a.part[i] = b.part[i]
     /\ a.pre # 0
     /\ b.pre = 0 \/ a.pre < b.pre

\* compare_versions(left, right) < 0: what is no version is below every version.
Precedes(a, b) == IF a.ok = b.ok THEN Below(a, b) ELSE b.ok

\* The smallest version above all those that share v's first i parts.
Bump(v, i) ==
  [v EXCEPT !.part = [j \in 1..3 |-> IF j < i THEN v.part[j] ELSE IF j = i THEN v.part[j] + 1 ELSE 0],
            !.pre = 0]

\* v is at least w and shares its first i parts.
Within(v, w, i) == ~Below(v, w) /\ Below(v, Bump(w, i))

\* A mutation: the parts that were not written count as zeros.
CaretIndexOfFull(w) ==
  CASE w.part[1] # 0 -> 1 [] w.part[1] = 0 /\ w.part[2] # 0 -> 2 [] OTHER -> 3

\* The part a caret range may not change: the leftmost that is not 0.
CaretIndex(w) ==
  CASE w.given = 1 \/ w.part[1] # 0 -> 1
    [] w.given # 1 /\ w.part[1] = 0 /\ (w.part[2] # 0 \/ w.given < 3) -> 2
    [] OTHER -> 3

\* A comparator is an operator and a version; "any" stands for *, x and latest.
SatisfiesOne(v, c) ==
  LET w == c.want IN
  IF c.op = "any" THEN v.pre = 0
  ELSE /\ w.ok
       /\ v.pre # 0 => w.pre # 0
       /\ CASE c.op = ">=" -> ~Below(v, w)
            [] c.op = ">"  -> Below(w, v)
            [] c.op = "<=" -> ~Below(w, v)
            [] c.op = "<"  -> Below(v, w)
            [] c.op = "^"  -> Within(v, w, CaretIndex(w))
            [] c.op = "~"  -> Within(v, w, IF w.given >= 2 THEN 2 ELSE 1)
            [] OTHER -> IF w.given = 3 THEN ~Below(v, w) /\ ~Below(w, v) ELSE Within(v, w, w.given)

\* A range is a set of alternatives, an alternative a set of comparators that must all
\* hold; an empty one accepts any release.
Satisfies(v, range) ==
  /\ v.ok
  /\ \E alt \in range : /\ \A c \in alt : SatisfiesOne(v, c)
                        /\ alt # {} \/ v.pre = 0

IsVersion(v) == v.ok /\ v.given = 3

\* best_installed: the first of the installed versions, highest first, that satisfies.
Best(installed, range) ==
  LET fit == {v \in installed : IsVersion(v) /\ Satisfies(v, range)} IN
  {v \in fit : \A u \in fit : ~Precedes(v, u)}
=============================================================================
