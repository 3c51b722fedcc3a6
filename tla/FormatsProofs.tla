---------------------------- MODULE FormatsProofs ---------------------------
(***************************************************************************)
(* What the run of MCFormats checks on small inputs, for all: the order of *)
(* versions is one that std::sort may be given, a range accepts what its   *)
(* comments promise, a .lef payload of any size is read back as written or *)
(* refused, a bundled module is unpacked wholly or not at all, and an HTTP *)
(* body is read whole however it is cut.                                   *)
(***************************************************************************)
EXTENDS MCFormats, FiniteSetTheorems, WellFoundedInduction, SequenceTheorems, TLAPS

Equal(a, b) ==
  a.part[1] = b.part[1] /\ a.part[2] = b.part[2] /\ a.part[3] = b.part[3] /\ a.pre = b.pre
Same(a, b) == ~Precedes(a, b) /\ ~Precedes(b, a)

-----------------------------------------------------------------------------
(* Lemmas *)

\* The definition without quantifiers, as compare() is written.
LEMMA BelowCases ==
  ASSUME NEW a \in Version, NEW b \in Version
  PROVE  Below(a, b) <=>
           \/ a.part[1] < b.part[1]
           \/ a.part[1] = b.part[1] /\ a.part[2] < b.part[2]
           \/ a.part[1] = b.part[1] /\ a.part[2] = b.part[2] /\ a.part[3] < b.part[3]
           \/ /\ a.part[1] = b.part[1] /\ a.part[2] = b.part[2] /\ a.part[3] = b.part[3]
              /\ a.pre # 0 /\ (b.pre = 0 \/ a.pre < b.pre)
<1>1. 1 \in 1..3 /\ 2 \in 1..3 /\ 3 \in 1..3 OBVIOUS
<1>2. \A i \in 1..3 : i = 1 \/ i = 2 \/ i = 3 OBVIOUS
<1> QED BY <1>1, <1>2 DEF Below, Version

LEMMA PartsAreNumbers ==
  ASSUME NEW a \in Version
  PROVE  a.part[1] \in Nat /\ a.part[2] \in Nat /\ a.part[3] \in Nat /\ a.pre \in Nat
BY DEF Version

LEMMA BelowTransitive ==
  ASSUME NEW a \in Version, NEW b \in Version, NEW c \in Version, Below(a, b), Below(b, c)
  PROVE  Below(a, c)
BY BelowCases, PartsAreNumbers

\* Two versions of which none is below the other have the same parts and pre-release.
LEMMA BelowIsTotal ==
  ASSUME NEW a \in Version, NEW b \in Version
  PROVE  Below(a, b) \/ Below(b, a) \/ Equal(a, b)
BY BelowCases, PartsAreNumbers DEF Equal

LEMMA EqualIsNotBelow ==
  ASSUME NEW a \in Version, NEW b \in Version, Equal(a, b)
  PROVE  ~Below(a, b) /\ ~Below(b, a)
BY BelowCases, PartsAreNumbers DEF Equal

-----------------------------------------------------------------------------
(* Theorems about the operators *)

\* What compare_versions (modules_dir.cpp:181) gives std::sort is a strict order.
THEOREM PrecedesIsStrictOrder ==
  ASSUME NEW a \in Version, NEW b \in Version, NEW c \in Version
  PROVE  /\ ~(Precedes(a, b) /\ Precedes(b, a))
         /\ Precedes(a, b) /\ Precedes(b, c) => Precedes(a, c)
<1>1. a.ok \in BOOLEAN /\ b.ok \in BOOLEAN /\ c.ok \in BOOLEAN BY DEF Version
<1>2. ~(Below(a, b) /\ Below(b, a)) BY BelowCases, PartsAreNumbers
<1>3. Below(a, b) /\ Below(b, c) => Below(a, c) BY BelowTransitive
<1> QED BY <1>1, <1>2, <1>3 DEF Precedes

\* And a weak one: "compares equal" is transitive.
THEOREM SameIsTransitive ==
  ASSUME NEW a \in Version, NEW b \in Version, NEW c \in Version, Same(a, b), Same(b, c)
  PROVE  Same(a, c)
<1>1. a.ok \in BOOLEAN /\ b.ok \in BOOLEAN /\ c.ok \in BOOLEAN BY DEF Version
<1>2. a.ok = b.ok /\ b.ok = c.ok BY <1>1 DEF Same, Precedes
<1>3. Equal(a, b) /\ Equal(b, c) BY <1>2, BelowIsTotal DEF Same, Precedes
<1>4. Equal(a, c) BY <1>3 DEF Equal
<1> QED BY <1>2, <1>4, EqualIsNotBelow DEF Same, Precedes

\* A release between the bounds of ^, ~ or a partial version (bump, modules_dir.cpp:131)
\* is one that is not below the version asked for and shares its first parts.
THEOREM WithinSharesParts ==
  ASSUME NEW v \in Version, NEW w \in Version, NEW i \in 1..3, v.pre = 0
  PROVE  Within(v, w, i) <=> ~Below(v, w) /\ \A j \in 1..i : v.part[j] = w.part[j]
<1> DEFINE u == Bump(w, i)
<1> DEFINE p == [j \in 1..3 |-> IF j < i THEN w.part[j] ELSE IF j = i THEN w.part[j] + 1 ELSE 0]
<1>1. /\ u \in Version
      /\ u.pre = 0
      /\ \A j \in 1..3 : u.part[j] = IF j < i THEN w.part[j] ELSE IF j = i THEN w.part[j] + 1 ELSE 0
  <2>1. \A j \in 1..3 : w.part[j] \in Nat BY DEF Version
  <2>2. p \in [1..3 -> Nat] BY <2>1
  <2>3. u = [w EXCEPT !.part = p, !.pre = 0] BY DEF Bump
  <2> HIDE DEF p, u
  <2>4. u.part = p /\ u.pre = 0 /\ u.given = w.given /\ u.ok = w.ok /\ u \in Version
    BY <2>2, <2>3 DEF Version
  <2> QED BY <2>4 DEF p
<1>2. 1 \in 1..3 /\ 2 \in 1..3 /\ 3 \in 1..3 OBVIOUS
<1>3. Below(v, u) <=> \/ v.part[1] < u.part[1]
                      \/ v.part[1] = u.part[1] /\ v.part[2] < u.part[2]
                      \/ v.part[1] = u.part[1] /\ v.part[2] = u.part[2] /\ v.part[3] < u.part[3]
  BY <1>1, BelowCases
<1>4. ~Below(v, w) => \/ v.part[1] > w.part[1]
                      \/ v.part[1] = w.part[1] /\ v.part[2] > w.part[2]
                      \/ v.part[1] = w.part[1] /\ v.part[2] = w.part[2] /\ v.part[3] >= w.part[3]
  BY BelowCases, PartsAreNumbers
<1>5. CASE i = 1
  <2>1. u.part[1] = w.part[1] + 1 /\ u.part[2] = 0 /\ u.part[3] = 0 BY <1>1, <1>2, <1>5
  <2>2. (\A j \in 1..i : v.part[j] = w.part[j]) <=> v.part[1] = w.part[1] BY <1>5
  <2> QED BY <1>3, <1>4, <2>1, <2>2, PartsAreNumbers DEF Within
<1>6. CASE i = 2
  <2>1. u.part[1] = w.part[1] /\ u.part[2] = w.part[2] + 1 /\ u.part[3] = 0 BY <1>1, <1>2, <1>6
  <2>2. (\A j \in 1..i : v.part[j] = w.part[j]) <=> v.part[1] = w.part[1] /\ v.part[2] = w.part[2]
    BY <1>6
  <2> QED BY <1>3, <1>4, <2>1, <2>2, PartsAreNumbers DEF Within
<1>7. CASE i = 3
  <2>1. u.part[1] = w.part[1] /\ u.part[2] = w.part[2] /\ u.part[3] = w.part[3] + 1
    BY <1>1, <1>2, <1>7
  <2>2. (\A j \in 1..i : v.part[j] = w.part[j])
          <=> v.part[1] = w.part[1] /\ v.part[2] = w.part[2] /\ v.part[3] = w.part[3]
    BY <1>7
  <2> QED BY <1>3, <1>4, <2>1, <2>2, PartsAreNumbers DEF Within
<1> QED BY <1>5, <1>6, <1>7

\* The part a caret keeps is the leftmost that is not 0, or the last that was written
\* (modules_dir.cpp:158); the parts before it are 0.
THEOREM CaretKeepsLeftmost ==
  ASSUME NEW w \in Version, w.given \in 1..3, \A j \in 1..3 : j > w.given => w.part[j] = 0
  PROVE  /\ CaretIndex(w) \in 1..w.given
         /\ \A j \in 1..(CaretIndex(w) - 1) : w.part[j] = 0
         /\ w.part[CaretIndex(w)] # 0 \/ CaretIndex(w) = w.given
<1>1. 1 \in 1..3 /\ 2 \in 1..3 /\ 3 \in 1..3 OBVIOUS
<1>2. CASE w.given = 1 \/ w.part[1] # 0
  <2>1. CaretIndex(w) = 1 BY <1>2 DEF CaretIndex
  <2> QED BY <1>2, <2>1
<1>3. CASE w.given # 1 /\ w.part[1] = 0 /\ (w.part[2] # 0 \/ w.given < 3)
  <2>1. CaretIndex(w) = 2 BY <1>3 DEF CaretIndex
  <2>2. \A j \in 1..(2 - 1) : j = 1 OBVIOUS
  <2> QED BY <1>3, <2>1, <2>2
<1>4. CASE w.given = 3 /\ w.part[1] = 0 /\ w.part[2] = 0
  <2>1. CaretIndex(w) = 3 BY <1>4 DEF CaretIndex
  <2>2. \A j \in 1..(3 - 1) : j = 1 \/ j = 2 OBVIOUS
  <2> QED BY <1>4, <2>1, <2>2
<1> QED BY <1>2, <1>3, <1>4

-----------------------------------------------------------------------------
(* The loops of LefFormat: recursive functions, by induction on their argument *)

\* A set of numbers has a least one.
LEMMA Least ==
  ASSUME NEW T \in SUBSET Nat, T # {}
  PROVE  \E x \in T : \A y \in T : x <= y
<1> DEFINE R == OpToRel(<, Nat)
<1>1. IsWellFoundedOn(R, Nat) BY NatLessThanWellFounded
<1>2. \A x, y \in Nat : y < x => <<y, x>> \in R  BY DEF OpToRel
<1> HIDE DEF R
<1>3. \E x \in T : \A y \in T : ~(<<y, x>> \in R) BY <1>1, WFMin
<1>4. PICK x \in T : \A y \in T : ~(<<y, x>> \in R) BY <1>3
<1>5. \A y \in T : x <= y
  <2> TAKE y \in T
  <2>1. x \in Nat /\ y \in Nat OBVIOUS
  <2>2. ~(y < x) BY <1>2, <1>4, <2>1
  <2> QED BY <2>1, <2>2
<1> QED BY <1>5

\* Induction, for a set of numbers.
LEMMA Induction ==
  ASSUME NEW S, 0 \in S, \A n \in Nat : n \in S => n + 1 \in S
  PROVE  Nat \subseteq S
<1> SUFFICES ASSUME NEW k \in Nat, k \notin S PROVE FALSE OBVIOUS
<1> DEFINE T == {n \in Nat : n \notin S}
<1>1. T \in SUBSET Nat /\ T # {} OBVIOUS
<1>2. PICK x \in T : \A y \in T : x <= y BY <1>1, Least
<1>3. x \in Nat /\ x # 0 /\ x \notin S OBVIOUS
<1>4. x - 1 \in Nat /\ ~(x <= x - 1) BY <1>3
<1>5. x - 1 \in S BY <1>2, <1>4
<1>6. x - 1 + 1 = x BY <1>3
<1> QED BY <1>3, <1>4, <1>5, <1>6

\* The loop of the writer over the arguments.
LEMMA ArgByArg ==
  ASSUME NEW args, Len(args) \in Nat
  PROVE  /\ ArgCells(args)[0] = <<>>
         /\ \A n \in 1..Len(args) :
              ArgCells(args)[n] = ArgCells(args)[n - 1] \o ArgEntry(args[n])
<1> DEFINE len == Len(args)
           base == <<>>
           Then(f, n) == f[n - 1] \o ArgEntry(args[n])
           Loop(f, m) == [n \in 0..m |-> IF n = 0 THEN base ELSE Then(f, n)]
           S == {m \in Nat : \E f : f = Loop(f, m)}
<1>1. 0 \in S
  <2> DEFINE f == [n \in 0..0 |-> base]
  <2>1. f = Loop(f, 0) OBVIOUS
  <2> QED BY <2>1
<1>2. ASSUME NEW m \in Nat, m \in S PROVE m + 1 \in S
  <2>1. PICK f : f = Loop(f, m) BY <1>2
  <2> DEFINE g == [n \in 0..(m + 1) |-> IF n = m + 1 THEN Then(f, n) ELSE f[n]]
  <2>2. \A n \in 0..(m + 1) : g[n] = IF n = 0 THEN base ELSE Then(g, n)
    <3> TAKE n \in 0..(m + 1)
    <3>1. n # 0 => n - 1 \in 0..m /\ n - 1 \in 0..(m + 1) /\ n - 1 # m + 1 OBVIOUS
    <3>2. n # 0 => g[n - 1] = f[n - 1] BY <3>1
    <3>3. CASE n = m + 1
      <4>1. n # 0 BY <3>3
      <4>2. g[n] = Then(f, n) BY <3>3, Zenon
      <4> HIDE DEF g
      <4> QED BY <3>2, <4>1, <4>2
    <3>4. CASE n # m + 1
      <4>1. n \in 0..m BY <3>4
      <4>2. f[n] = IF n = 0 THEN base ELSE Then(f, n) BY <2>1, <4>1
      <4> QED BY <3>2, <3>4, <4>1, <4>2
    <3> QED BY <3>3, <3>4
  <2>3. g = Loop(g, m + 1)
    <3>1. \A n \in 0..(m + 1) : g[n] = Loop(g, m + 1)[n] BY <2>2
    <3> HIDE DEF g
    <3> QED BY <3>1 DEF g
  <2> HIDE DEF g, Loop
  <2>4. \E x : x = Loop(x, m + 1) BY <2>3
  <2> QED BY <2>4
<1>3. len \in S BY <1>1, <1>2, Induction
<1>4. \E f : f = Loop(f, len) BY <1>3
<1>5. ArgCells(args) = CHOOSE f : f = Loop(f, len)
  BY DEF ArgCells
<1> HIDE DEF Loop
<1>6. ArgCells(args) = Loop(ArgCells(args), len) BY <1>4, <1>5
<1>7. ArgCells(args) =
        [n \in 0..len |-> IF n = 0 THEN base ELSE Then(ArgCells(args), n)]
  BY <1>6 DEF Loop
<1>8. 0 \in 0..len /\ \A n \in 1..len : n \in 0..len /\ n # 0 OBVIOUS
<1>9. ArgCells(args)[0] = base BY <1>7, <1>8, Zenon
<1>10. \A n \in 1..len : ArgCells(args)[n] = Then(ArgCells(args), n)
  BY <1>7, <1>8, Zenon
<1> QED BY <1>9, <1>10

\* And over the files.
LEMMA FileByFile ==
  ASSUME NEW files, NEW dlls, Len(files) \in Nat
  PROVE  /\ FileCells(files, dlls)[0] = <<>>
         /\ \A n \in 1..Len(files) :
              FileCells(files, dlls)[n] = FileCells(files, dlls)[n - 1] \o FileEntry(files[n], dlls)
<1> DEFINE len == Len(files)
           base == <<>>
           Then(f, n) == f[n - 1] \o FileEntry(files[n], dlls)
           Loop(f, m) == [n \in 0..m |-> IF n = 0 THEN base ELSE Then(f, n)]
           S == {m \in Nat : \E f : f = Loop(f, m)}
<1>1. 0 \in S
  <2> DEFINE f == [n \in 0..0 |-> base]
  <2>1. f = Loop(f, 0) OBVIOUS
  <2> QED BY <2>1
<1>2. ASSUME NEW m \in Nat, m \in S PROVE m + 1 \in S
  <2>1. PICK f : f = Loop(f, m) BY <1>2
  <2> DEFINE g == [n \in 0..(m + 1) |-> IF n = m + 1 THEN Then(f, n) ELSE f[n]]
  <2>2. \A n \in 0..(m + 1) : g[n] = IF n = 0 THEN base ELSE Then(g, n)
    <3> TAKE n \in 0..(m + 1)
    <3>1. n # 0 => n - 1 \in 0..m /\ n - 1 \in 0..(m + 1) /\ n - 1 # m + 1 OBVIOUS
    <3>2. n # 0 => g[n - 1] = f[n - 1] BY <3>1
    <3>3. CASE n = m + 1
      <4>1. n # 0 BY <3>3
      <4>2. g[n] = Then(f, n) BY <3>3, Zenon
      <4> HIDE DEF g
      <4> QED BY <3>2, <4>1, <4>2
    <3>4. CASE n # m + 1
      <4>1. n \in 0..m BY <3>4
      <4>2. f[n] = IF n = 0 THEN base ELSE Then(f, n) BY <2>1, <4>1
      <4> QED BY <3>2, <3>4, <4>1, <4>2
    <3> QED BY <3>3, <3>4
  <2>3. g = Loop(g, m + 1)
    <3>1. \A n \in 0..(m + 1) : g[n] = Loop(g, m + 1)[n] BY <2>2
    <3> HIDE DEF g
    <3> QED BY <3>1 DEF g
  <2> HIDE DEF g, Loop
  <2>4. \E x : x = Loop(x, m + 1) BY <2>3
  <2> QED BY <2>4
<1>3. len \in S BY <1>1, <1>2, Induction
<1>4. \E f : f = Loop(f, len) BY <1>3
<1>5. FileCells(files, dlls) = CHOOSE f : f = Loop(f, len)
  BY DEF FileCells
<1> HIDE DEF Loop
<1>6. FileCells(files, dlls) = Loop(FileCells(files, dlls), len) BY <1>4, <1>5
<1>7. FileCells(files, dlls) =
        [n \in 0..len |-> IF n = 0 THEN base ELSE Then(FileCells(files, dlls), n)]
  BY <1>6 DEF Loop
<1>8. 0 \in 0..len /\ \A n \in 1..len : n \in 0..len /\ n # 0 OBVIOUS
<1>9. FileCells(files, dlls)[0] = base BY <1>7, <1>8, Zenon
<1>10. \A n \in 1..len : FileCells(files, dlls)[n] = Then(FileCells(files, dlls), n)
  BY <1>7, <1>8, Zenon
<1> QED BY <1>9, <1>10

\* The loop of the reader over the arguments.
LEMMA ArgReadByArg ==
  ASSUME NEW data, data[4] \in Nat
  PROVE  /\ ArgsRead(data)[0] = [Nothing EXCEPT !.ok = TRUE, !.pos = HeaderSize]
         /\ \A n \in 1..data[4] :
              ArgsRead(data)[n] = ReadArg(data, ArgsRead(data)[n - 1])
<1> DEFINE len == data[4]
           base == [Nothing EXCEPT !.ok = TRUE, !.pos = HeaderSize]
           Then(f, n) == ReadArg(data, f[n - 1])
           Loop(f, m) == [n \in 0..m |-> IF n = 0 THEN base ELSE Then(f, n)]
           S == {m \in Nat : \E f : f = Loop(f, m)}
<1>1. 0 \in S
  <2> DEFINE f == [n \in 0..0 |-> base]
  <2>1. f = Loop(f, 0) OBVIOUS
  <2> QED BY <2>1
<1>2. ASSUME NEW m \in Nat, m \in S PROVE m + 1 \in S
  <2>1. PICK f : f = Loop(f, m) BY <1>2
  <2> DEFINE g == [n \in 0..(m + 1) |-> IF n = m + 1 THEN Then(f, n) ELSE f[n]]
  <2>2. \A n \in 0..(m + 1) : g[n] = IF n = 0 THEN base ELSE Then(g, n)
    <3> TAKE n \in 0..(m + 1)
    <3>1. n # 0 => n - 1 \in 0..m /\ n - 1 \in 0..(m + 1) /\ n - 1 # m + 1 OBVIOUS
    <3>2. n # 0 => g[n - 1] = f[n - 1] BY <3>1
    <3>3. CASE n = m + 1
      <4>1. n # 0 BY <3>3
      <4>2. g[n] = Then(f, n) BY <3>3, Zenon
      <4> HIDE DEF g
      <4> QED BY <3>2, <4>1, <4>2
    <3>4. CASE n # m + 1
      <4>1. n \in 0..m BY <3>4
      <4>2. f[n] = IF n = 0 THEN base ELSE Then(f, n) BY <2>1, <4>1
      <4> QED BY <3>2, <3>4, <4>1, <4>2
    <3> QED BY <3>3, <3>4
  <2>3. g = Loop(g, m + 1)
    <3>1. \A n \in 0..(m + 1) : g[n] = Loop(g, m + 1)[n] BY <2>2
    <3> HIDE DEF g
    <3> QED BY <3>1 DEF g
  <2> HIDE DEF g, Loop
  <2>4. \E x : x = Loop(x, m + 1) BY <2>3
  <2> QED BY <2>4
<1>3. len \in S BY <1>1, <1>2, Induction
<1>4. \E f : f = Loop(f, len) BY <1>3
<1>5. ArgsRead(data) = CHOOSE f : f = Loop(f, len)
  BY DEF ArgsRead
<1> HIDE DEF Loop
<1>6. ArgsRead(data) = Loop(ArgsRead(data), len) BY <1>4, <1>5
<1>7. ArgsRead(data) =
        [n \in 0..len |-> IF n = 0 THEN base ELSE Then(ArgsRead(data), n)]
  BY <1>6 DEF Loop
<1>8. 0 \in 0..len /\ \A n \in 1..len : n \in 0..len /\ n # 0 OBVIOUS
<1>9. ArgsRead(data)[0] = base BY <1>7, <1>8, Zenon
<1>10. \A n \in 1..len : ArgsRead(data)[n] = Then(ArgsRead(data), n)
  BY <1>7, <1>8, Zenon
<1> QED BY <1>9, <1>10

\* And over the files.
LEMMA FileReadByFile ==
  ASSUME NEW data, NEW args, data[2] \in Nat
  PROVE  /\ FilesRead(data, args)[0] = [args EXCEPT !.pos = data[3]]
         /\ \A n \in 1..data[2] :
              FilesRead(data, args)[n] = ReadFile(data, data[1] = V2, FilesRead(data, args)[n - 1])
<1> DEFINE len == data[2]
           base == [args EXCEPT !.pos = data[3]]
           Then(f, n) == ReadFile(data, data[1] = V2, f[n - 1])
           Loop(f, m) == [n \in 0..m |-> IF n = 0 THEN base ELSE Then(f, n)]
           S == {m \in Nat : \E f : f = Loop(f, m)}
<1>1. 0 \in S
  <2> DEFINE f == [n \in 0..0 |-> base]
  <2>1. f = Loop(f, 0) OBVIOUS
  <2> QED BY <2>1
<1>2. ASSUME NEW m \in Nat, m \in S PROVE m + 1 \in S
  <2>1. PICK f : f = Loop(f, m) BY <1>2
  <2> DEFINE g == [n \in 0..(m + 1) |-> IF n = m + 1 THEN Then(f, n) ELSE f[n]]
  <2>2. \A n \in 0..(m + 1) : g[n] = IF n = 0 THEN base ELSE Then(g, n)
    <3> TAKE n \in 0..(m + 1)
    <3>1. n # 0 => n - 1 \in 0..m /\ n - 1 \in 0..(m + 1) /\ n - 1 # m + 1 OBVIOUS
    <3>2. n # 0 => g[n - 1] = f[n - 1] BY <3>1
    <3>3. CASE n = m + 1
      <4>1. n # 0 BY <3>3
      <4>2. g[n] = Then(f, n) BY <3>3, Zenon
      <4> HIDE DEF g
      <4> QED BY <3>2, <4>1, <4>2
    <3>4. CASE n # m + 1
      <4>1. n \in 0..m BY <3>4
      <4>2. f[n] = IF n = 0 THEN base ELSE Then(f, n) BY <2>1, <4>1
      <4> QED BY <3>2, <3>4, <4>1, <4>2
    <3> QED BY <3>3, <3>4
  <2>3. g = Loop(g, m + 1)
    <3>1. \A n \in 0..(m + 1) : g[n] = Loop(g, m + 1)[n] BY <2>2
    <3> HIDE DEF g
    <3> QED BY <3>1 DEF g
  <2> HIDE DEF g, Loop
  <2>4. \E x : x = Loop(x, m + 1) BY <2>3
  <2> QED BY <2>4
<1>3. len \in S BY <1>1, <1>2, Induction
<1>4. \E f : f = Loop(f, len) BY <1>3
<1>5. FilesRead(data, args) = CHOOSE f : f = Loop(f, len)
  BY DEF FilesRead
<1> HIDE DEF Loop
<1>6. FilesRead(data, args) = Loop(FilesRead(data, args), len) BY <1>4, <1>5
<1>7. FilesRead(data, args) =
        [n \in 0..len |-> IF n = 0 THEN base ELSE Then(FilesRead(data, args), n)]
  BY <1>6 DEF Loop
<1>8. 0 \in 0..len /\ \A n \in 1..len : n \in 0..len /\ n # 0 OBVIOUS
<1>9. FilesRead(data, args)[0] = base BY <1>7, <1>8, Zenon
<1>10. \A n \in 1..len : FilesRead(data, args)[n] = Then(FilesRead(data, args), n)
  BY <1>7, <1>8, Zenon
<1> QED BY <1>9, <1>10

\* The loop of the unpack.
LEMMA UnpackedByFile ==
  ASSUME NEW files, Len(files) \in Nat
  PROVE  /\ Unpacked(files)[0] = <<>>
         /\ \A n \in 1..Len(files) :
              Unpacked(files)[n] = Record(Unpacked(files)[n - 1], files[n])
<1> DEFINE len == Len(files)
           base == <<>>
           Then(f, n) == Record(f[n - 1], files[n])
           Loop(f, m) == [n \in 0..m |-> IF n = 0 THEN base ELSE Then(f, n)]
           S == {m \in Nat : \E f : f = Loop(f, m)}
<1>1. 0 \in S
  <2> DEFINE f == [n \in 0..0 |-> base]
  <2>1. f = Loop(f, 0) OBVIOUS
  <2> QED BY <2>1
<1>2. ASSUME NEW m \in Nat, m \in S PROVE m + 1 \in S
  <2>1. PICK f : f = Loop(f, m) BY <1>2
  <2> DEFINE g == [n \in 0..(m + 1) |-> IF n = m + 1 THEN Then(f, n) ELSE f[n]]
  <2>2. \A n \in 0..(m + 1) : g[n] = IF n = 0 THEN base ELSE Then(g, n)
    <3> TAKE n \in 0..(m + 1)
    <3>1. n # 0 => n - 1 \in 0..m /\ n - 1 \in 0..(m + 1) /\ n - 1 # m + 1 OBVIOUS
    <3>2. n # 0 => g[n - 1] = f[n - 1] BY <3>1
    <3>3. CASE n = m + 1
      <4>1. n # 0 BY <3>3
      <4>2. g[n] = Then(f, n) BY <3>3, Zenon
      <4> HIDE DEF g
      <4> QED BY <3>2, <4>1, <4>2
    <3>4. CASE n # m + 1
      <4>1. n \in 0..m BY <3>4
      <4>2. f[n] = IF n = 0 THEN base ELSE Then(f, n) BY <2>1, <4>1
      <4> QED BY <3>2, <3>4, <4>1, <4>2
    <3> QED BY <3>3, <3>4
  <2>3. g = Loop(g, m + 1)
    <3>1. \A n \in 0..(m + 1) : g[n] = Loop(g, m + 1)[n] BY <2>2
    <3> HIDE DEF g
    <3> QED BY <3>1 DEF g
  <2> HIDE DEF g, Loop
  <2>4. \E x : x = Loop(x, m + 1) BY <2>3
  <2> QED BY <2>4
<1>3. len \in S BY <1>1, <1>2, Induction
<1>4. \E f : f = Loop(f, len) BY <1>3
<1>5. Unpacked(files) = CHOOSE f : f = Loop(f, len)
  BY DEF Unpacked
<1> HIDE DEF Loop
<1>6. Unpacked(files) = Loop(Unpacked(files), len) BY <1>4, <1>5
<1>7. Unpacked(files) =
        [n \in 0..len |-> IF n = 0 THEN base ELSE Then(Unpacked(files), n)]
  BY <1>6 DEF Loop
<1>8. 0 \in 0..len /\ \A n \in 1..len : n \in 0..len /\ n # 0 OBVIOUS
<1>9. Unpacked(files)[0] = base BY <1>7, <1>8, Zenon
<1>10. \A n \in 1..len : Unpacked(files)[n] = Then(Unpacked(files), n)
  BY <1>7, <1>8, Zenon
<1> QED BY <1>9, <1>10

-----------------------------------------------------------------------------
(* What is written is read back *)

\* The cells of data from pos on are s.
At(data, pos, s) == pos + Len(s) <= Len(data) /\ \A i \in 1..Len(s) : data[pos + i] = s[i]

\* Two runs of cells make one.
LEMMA Concatenated ==
  ASSUME NEW s \in Seq(Nat), NEW t \in Seq(Nat)
  PROVE  s \o t \in Seq(Nat) /\ Len(s \o t) = Len(s) + Len(t)
OBVIOUS

\* And lie in the data one behind the other.
LEMMA AtConcat ==
  ASSUME NEW S, NEW data \in Seq(S), NEW pos \in Nat, NEW s \in Seq(S), NEW t \in Seq(S)
  PROVE  /\ s \o t \in Seq(S) /\ Len(s \o t) = Len(s) + Len(t)
         /\ At(data, pos, s \o t) <=> At(data, pos, s) /\ At(data, pos + Len(s), t)
<1> DEFINE u == s \o t
           m == Len(s)
           n == Len(t)
<1>1. m \in Nat /\ n \in Nat OBVIOUS
<1>2. /\ u \in Seq(S) /\ Len(u) = m + n
      /\ \A i \in 1..m : u[i] = s[i]
      /\ \A i \in 1..n : u[m + i] = t[i]
  OBVIOUS
<1>3. Len(data) \in Nat OBVIOUS
<1> HIDE DEF u, m, n
<1>4. ASSUME At(data, pos, u) PROVE At(data, pos, s) /\ At(data, pos + m, t)
  <2>1. pos + (m + n) <= Len(data) /\ \A i \in 1..(m + n) : data[pos + i] = u[i]
    BY <1>2, <1>4 DEF At
  <2>2. \A i \in 1..m : i \in 1..(m + n) BY <1>1
  <2>3. \A i \in 1..n : m + i \in 1..(m + n) /\ pos + (m + i) = pos + m + i BY <1>1
  <2>4. \A i \in 1..m : data[pos + i] = s[i] BY <1>2, <2>1, <2>2
  <2>5. \A i \in 1..n : data[pos + m + i] = t[i] BY <1>2, <2>1, <2>3
  <2>6. pos + m <= Len(data) /\ pos + m + n <= Len(data) BY <1>1, <1>3, <2>1
  <2>7. At(data, pos, s) BY <2>4, <2>6 DEF At, m
  <2>8. At(data, pos + m, t) BY <2>5, <2>6 DEF At, n
  <2> QED BY <2>7, <2>8
<1>5. ASSUME At(data, pos, s), At(data, pos + m, t) PROVE At(data, pos, u)
  <2>1. /\ pos + m + n <= Len(data)
        /\ \A i \in 1..m : data[pos + i] = s[i]
        /\ \A i \in 1..n : data[pos + m + i] = t[i]
    BY <1>5 DEF At, m, n
  <2>2. \A i \in 1..(m + n) : data[pos + i] = u[i]
    <3> TAKE i \in 1..(m + n)
    <3>1. CASE i <= m BY <1>1, <1>2, <2>1, <3>1
    <3>2. CASE ~(i <= m)
      <4>1. i - m \in 1..n /\ m + (i - m) = i /\ pos + m + (i - m) = pos + i BY <1>1, <3>2
      <4> QED BY <1>2, <2>1, <4>1
    <3> QED BY <3>1, <3>2
  <2> QED BY <1>1, <1>2, <2>1, <2>2 DEF At
<1> QED BY <1>2, <1>4, <1>5 DEF u, m, n

\* Entries one behind the other: each lies where those before it end.
LEMMA InPlace ==
  ASSUME NEW S, NEW len \in Nat, NEW cells, NEW entry, NEW data \in Seq(S), NEW pos \in Nat,
         cells[0] = <<>>,
         \A n \in 1..len : entry[n] \in Seq(S) /\ cells[n] = cells[n - 1] \o entry[n]
  PROVE  /\ \A n \in 0..len : cells[n] \in Seq(S)
         /\ \A n \in 1..len : Len(cells[n]) = Len(cells[n - 1]) + Len(entry[n])
         /\ \A n \in 0..len : Len(cells[n]) <= Len(cells[len])
         /\ At(data, pos, cells[len]) =>
              \A n \in 1..len : At(data, pos + Len(cells[n - 1]), entry[n])
<1> DEFINE size(n) == Len(cells[n])
           below == {n \in Nat : n <= len => size(len - n) <= size(len)}
           typed == {n \in Nat : n <= len => cells[n] \in Seq(S)}
           back == {n \in Nat : n <= len => At(data, pos, cells[len - n])}
<1>1. 0 \in typed
  <2>1. cells[0] \in Seq(S) OBVIOUS
  <2> QED BY <2>1
<1>2. ASSUME NEW n \in Nat, n \in typed PROVE n + 1 \in typed
  <2> SUFFICES ASSUME n + 1 <= len PROVE cells[n + 1] \in Seq(S) OBVIOUS
  <2>1. PICK k \in 1..len : k = n + 1 OBVIOUS
  <2>2. k - 1 = n /\ n <= len BY <2>1
  <2>3. cells[k - 1] \in Seq(S) BY <1>2, <2>2
  <2>4. entry[k] \in Seq(S) /\ cells[k] = cells[k - 1] \o entry[k] OBVIOUS
  <2> DEFINE s == cells[k - 1]
             t == entry[k]
  <2>5. s \in Seq(S) /\ t \in Seq(S) /\ cells[k] = s \o t BY <2>3, <2>4
  <2> HIDE DEF s, t
  <2>6. s \o t \in Seq(S) BY <2>5, AtConcat
  <2> QED BY <2>1, <2>5, <2>6
<1>3. Nat \subseteq typed BY <1>1, <1>2, Induction
<1>4. \A n \in 0..len : cells[n] \in Seq(S)
  <2> TAKE n \in 0..len
  <2>1. n \in Nat /\ n <= len OBVIOUS
  <2> QED BY <1>3, <2>1
<1>5. ASSUME NEW n \in 1..len
      PROVE  /\ Len(cells[n]) = Len(cells[n - 1]) + Len(entry[n])
             /\ At(data, pos, cells[n]) =>
                  At(data, pos, cells[n - 1]) /\ At(data, pos + Len(cells[n - 1]), entry[n])
  <2>1. n - 1 \in 0..len OBVIOUS
  <2>2. cells[n - 1] \in Seq(S) BY <1>4, <2>1
  <2>3. entry[n] \in Seq(S) /\ cells[n] = cells[n - 1] \o entry[n] OBVIOUS
  <2> DEFINE s == cells[n - 1]
             t == entry[n]
  <2>4. s \in Seq(S) /\ t \in Seq(S) /\ cells[n] = s \o t BY <2>2, <2>3
  <2> HIDE DEF s, t
  <2>5. /\ Len(s \o t) = Len(s) + Len(t)
        /\ At(data, pos, s \o t) => At(data, pos, s) /\ At(data, pos + Len(s), t)
    BY <2>4, AtConcat
  <2> QED BY <2>4, <2>5 DEF s, t
<1>6. ASSUME At(data, pos, cells[len]), NEW n \in 1..len
      PROVE  At(data, pos + Len(cells[n - 1]), entry[n])
  <2>1. 0 \in back
    <3>1. len - 0 = len OBVIOUS
    <3> QED BY <1>6, <3>1
  <2>2. ASSUME NEW k \in Nat, k \in back PROVE k + 1 \in back
    <3> SUFFICES ASSUME k + 1 <= len PROVE At(data, pos, cells[len - (k + 1)]) OBVIOUS
    <3>1. len - k \in 1..len /\ len - k - 1 = len - (k + 1) /\ k <= len OBVIOUS
    <3>2. At(data, pos, cells[len - k]) BY <2>2, <3>1
    <3>3. At(data, pos, cells[len - k - 1]) BY <1>5, <3>1, <3>2
    <3> QED BY <3>1, <3>3
  <2>3. Nat \subseteq back BY <2>1, <2>2, Induction
  <2>4. len - n \in Nat /\ len - n <= len /\ len - (len - n) = n OBVIOUS
  <2>5. At(data, pos, cells[len - (len - n)]) BY <2>3, <2>4
  <2> QED BY <1>5, <2>4, <2>5
<1>7. \A n \in 0..len : size(n) \in Nat
  <2> TAKE n \in 0..len
  <2>1. cells[n] \in Seq(S) BY <1>4
  <2> QED BY <2>1
<1>8. \A n \in 1..len : size(n - 1) <= size(n)
  <2> TAKE n \in 1..len
  <2>1. n - 1 \in 0..len /\ n \in 0..len OBVIOUS
  <2>2. size(n - 1) \in Nat /\ size(n) \in Nat BY <1>7, <2>1
  <2>3. entry[n] \in Seq(S) OBVIOUS
  <2>4. Len(entry[n]) \in Nat BY <2>3
  <2>5. size(n) = size(n - 1) + Len(entry[n]) BY <1>5
  <2> HIDE DEF size
  <2> QED BY <2>2, <2>4, <2>5
<1>9. \A n \in 0..len : size(n) <= size(len)
  <2> HIDE DEF size
  <2>1. 0 \in below
    <3>1. len - 0 = len /\ len \in 0..len OBVIOUS
    <3>2. size(len) <= size(len) BY <1>7, <3>1
    <3> QED BY <3>1, <3>2
  <2>2. ASSUME NEW k \in Nat, k \in below PROVE k + 1 \in below
    <3> SUFFICES ASSUME k + 1 <= len PROVE size(len - (k + 1)) <= size(len) OBVIOUS
    <3>1. len - k \in 1..len /\ len - k - 1 = len - (k + 1) /\ k <= len OBVIOUS
    <3>2. size(len - k) <= size(len) BY <2>2, <3>1
    <3>3. size(len - k - 1) <= size(len - k) BY <1>8, <3>1
    <3>4. len - k - 1 \in 0..len /\ len - k \in 0..len /\ len \in 0..len BY <3>1
    <3>5. size(len - k - 1) \in Nat /\ size(len - k) \in Nat /\ size(len) \in Nat BY <1>7, <3>4
    <3>6. size(len - k - 1) <= size(len) BY <3>2, <3>3, <3>5
    <3> QED BY <3>1, <3>6
  <2>3. Nat \subseteq below BY <2>1, <2>2, Induction
  <2> TAKE n \in 0..len
  <2>4. len - n \in Nat /\ len - n <= len /\ len - (len - n) = n OBVIOUS
  <2>5. size(len - (len - n)) <= size(len) BY <2>3, <2>4
  <2> QED BY <2>4, <2>5
<1> QED BY <1>4, <1>5, <1>6, <1>9

File == [name : Seq(Nat), data : Seq(Nat), type : Types]

\* The cells in front of the name of a file.
Fields(dlls) == IF dlls THEN 3 ELSE 2

\* What an entry is and how long.
LEMMA EntriesAreCells ==
  /\ \A arg \in Seq(Nat) : ArgEntry(arg) \in Seq(Nat) /\ Len(ArgEntry(arg)) = 1 + Len(arg)
  /\ \A f \in File, dlls \in BOOLEAN :
       /\ FileEntry(f, dlls) \in Seq(Nat)
       /\ Len(FileEntry(f, dlls)) = (IF dlls THEN 3 ELSE 2) + Len(f.name) + Len(f.data)
<1>1. ASSUME NEW arg \in Seq(Nat)
      PROVE  ArgEntry(arg) \in Seq(Nat) /\ Len(ArgEntry(arg)) = 1 + Len(arg)
  <2>1. Len(arg) \in Nat /\ Len(arg) % W \in Nat BY WAssumption
  <2>2. <<Len(arg) % W>> \in Seq(Nat) /\ Len(<<Len(arg) % W>>) = 1 BY <2>1
  <2> DEFINE s == <<Len(arg) % W>>
  <2> HIDE DEF s
  <2>3. s \o arg \in Seq(Nat) /\ Len(s \o arg) = 1 + Len(arg) BY <2>2 DEF s
  <2> QED BY <2>3 DEF s, ArgEntry
<1>2. ASSUME NEW f \in File, NEW dlls \in BOOLEAN
      PROVE  /\ FileEntry(f, dlls) \in Seq(Nat)
             /\ Len(FileEntry(f, dlls)) = (IF dlls THEN 3 ELSE 2) + Len(f.name) + Len(f.data)
  <2> DEFINE s == IF dlls THEN <<f.type>> ELSE <<>>
             t == <<Len(f.data), Len(f.name)>>
  <2>1. f.name \in Seq(Nat) /\ f.data \in Seq(Nat) /\ f.type \in Nat BY DEF File, Types
  <2>2. s \in Seq(Nat) /\ Len(s) = IF dlls THEN 1 ELSE 0 BY <2>1
  <2>3. t \in Seq(Nat) /\ Len(t) = 2 BY <2>1
  <2> DEFINE st == s \o t
             stn == st \o f.name
  <2>4. FileEntry(f, dlls) = stn \o f.data BY DEF FileEntry
  <2> HIDE DEF s, t
  <2>5. st \in Seq(Nat) /\ Len(st) = Len(s) + Len(t) BY <2>2, <2>3, Concatenated
  <2>6. Len(s) + Len(t) = IF dlls THEN 3 ELSE 2 BY <2>2, <2>3
  <2> HIDE DEF st
  <2>7. stn \in Seq(Nat) /\ Len(stn) = Len(st) + Len(f.name) BY <2>1, <2>5, Concatenated
  <2> HIDE DEF stn
  <2>8. stn \o f.data \in Seq(Nat) /\ Len(stn \o f.data) = Len(stn) + Len(f.data)
    BY <2>1, <2>7, Concatenated
  <2> QED BY <2>4, <2>5, <2>6, <2>7, <2>8
<1> QED BY <1>1, <1>2


\* A file that was cut short.
Prefix(d, whole) ==
  d \in Seq(Nat) /\ Len(d) <= Len(whole) /\ \A i \in 1..Len(d) : d[i] = whole[i]

\* What lies before the cut is as it was.
LEMMA AtPrefix ==
  ASSUME NEW whole \in Seq(Nat), NEW d, Prefix(d, whole), NEW pos \in Nat, NEW s \in Seq(Nat),
         At(whole, pos, s), pos + Len(s) <= Len(d)
  PROVE  At(d, pos, s)
<1>1. Len(s) \in Nat /\ Len(d) \in Nat BY DEF Prefix
<1>2. \A i \in 1..Len(s) : pos + i \in 1..Len(d) BY <1>1
<1> QED BY <1>1, <1>2 DEF At, Prefix

\* The reader takes from the data just the cells that were put there.
LEMMA BytesAt ==
  ASSUME NEW d \in Seq(Nat), NEW pos \in Nat, NEW s \in Seq(Nat), At(d, pos, s)
  PROVE  Bytes(d, pos, Len(s)) = s
<1> DEFINE n == Len(s)
           b == SubSeq(d, pos + 1, pos + n)
<1>1. n \in Nat /\ Len(d) \in Nat OBVIOUS
<1>2. pos + n <= Len(d) /\ \A i \in 1..n : d[pos + i] = s[i] BY DEF At
<1>3. b \in Seq(Nat) /\ Len(b) = n /\ \A i \in 1..n : b[i] = d[pos + i]
  BY <1>1, <1>2
<1> HIDE DEF b
<1>4. b = s BY <1>1, <1>2, <1>3, SeqEqual
<1> QED BY <1>4 DEF Bytes, b

LEMMA ModSmall == ASSUME NEW n \in Nat, NEW w \in Nat \ {0}, n < w PROVE n % w = n
OBVIOUS

\* A step of the reader over the cells of an argument: it takes it, or refuses one that is
\* empty or not all there.
LEMMA ReadsArg ==
  ASSUME NEW whole \in Seq(Nat), NEW d, Prefix(d, whole), NEW arg \in Seq(Nat), Len(arg) < W,
         NEW r, r.ok, r.pos \in Nat, At(whole, r.pos, ArgEntry(arg))
  PROVE  ReadArg(d, r) =
           IF arg # <<>> /\ r.pos + Len(ArgEntry(arg)) <= Len(d)
             THEN [r EXCEPT !.pos = @ + Len(ArgEntry(arg)), !.args = Append(@, arg)]
             ELSE Refused(r)
<1> DEFINE pos == r.pos
           n == Len(arg)
           head == <<n % W>>
<1>1. /\ n \in Nat /\ n % W = n /\ pos \in Nat /\ Len(d) \in Nat /\ d \in Seq(Nat)
      /\ arg = <<>> <=> n = 0
  <2>1. n \in Nat /\ n < W /\ (arg = <<>> <=> n = 0) OBVIOUS
  <2>2. n % W = n BY <2>1, WAssumption, ModSmall
  <2>3. Len(d) \in Nat /\ d \in Seq(Nat) BY DEF Prefix
  <2> QED BY <2>1, <2>2, <2>3
<1>2. ArgEntry(arg) = head \o arg BY DEF ArgEntry
<1>3. head \in Seq(Nat) /\ Len(head) = 1 /\ head[1] = n BY <1>1
<1> HIDE DEF head
<1>4. At(whole, pos, head) /\ At(whole, pos + 1, arg) /\ Len(ArgEntry(arg)) = 1 + n
  <2>1. At(whole, pos, head \o arg) BY <1>2
  <2>2. Len(head \o arg) = 1 + n BY <1>3, Concatenated
  <2> QED BY <1>1, <1>2, <1>3, <2>1, <2>2, AtConcat
<1>5. CASE ~(pos + 1 <= Len(d))
  <2>1. ~Fits(d, pos, 1) BY <1>1, <1>5 DEF Fits
  <2>2. ~(pos + Len(ArgEntry(arg)) <= Len(d)) BY <1>1, <1>4, <1>5
  <2> QED BY <2>1, <2>2 DEF ReadArg
<1>6. CASE pos + 1 <= Len(d)
  <2>1. Fits(d, pos, 1) BY <1>1, <1>6 DEF Fits
  <2>2. At(d, pos, head) BY <1>1, <1>3, <1>4, <1>6, AtPrefix
  <2>3. Cell(d, pos) = n BY <1>1, <1>3, <2>2 DEF At, Cell
  <2>4. Fits(d, pos + 1, n) <=> pos + 1 + n <= Len(d) BY <1>1, <1>6 DEF Fits
  <2>5. CASE n = 0 \/ ~(pos + 1 + n <= Len(d))
    BY <1>1, <1>4, <2>1, <2>3, <2>4, <2>5 DEF ReadArg
  <2>6. CASE n # 0 /\ pos + 1 + n <= Len(d)
    <3>1. At(d, pos + 1, arg) BY <1>1, <1>4, <2>6, AtPrefix
    <3>2. Bytes(d, pos + 1, n) = arg BY <1>1, <3>1, BytesAt
    <3>3. pos + 1 + n = pos + (1 + n)
      <4> HIDE DEF pos, n
      <4> QED BY <1>1
    <3>4. ReadArg(d, r) = [r EXCEPT !.pos = @ + 1 + n, !.args = Append(@, arg)]
      BY <2>1, <2>3, <2>4, <2>6, <3>2 DEF ReadArg
    <3> QED BY <1>1, <1>4, <2>6, <3>3, <3>4
  <2> QED BY <2>5, <2>6
<1> QED BY <1>5, <1>6

\* A file as it is read back: its type is only written when there are DLLs.
ReadBack(f, dlls) == [name |-> f.name, type |-> IF dlls THEN f.type ELSE 0, data |-> f.data]

\* Where the parts of the entry of a file lie.
LEMMA EntryAt ==
  ASSUME NEW data \in Seq(Nat), NEW f \in File, NEW dlls \in BOOLEAN, NEW pos \in Nat,
         At(data, pos, FileEntry(f, dlls))
  PROVE  /\ pos + Fields(dlls) + Len(f.name) + Len(f.data) <= Len(data)
         /\ dlls => data[pos + 1] = f.type
         /\ data[pos + Fields(dlls) - 1] = Len(f.data) /\ data[pos + Fields(dlls)] = Len(f.name)
         /\ At(data, pos + Fields(dlls), f.name)
         /\ At(data, pos + Fields(dlls) + Len(f.name), f.data)
<1> DEFINE fields == Fields(dlls)
           s == IF dlls THEN <<f.type>> ELSE <<>>
           t == <<Len(f.data), Len(f.name)>>
           st == s \o t
           stn == st \o f.name
<1>1. f.name \in Seq(Nat) /\ f.data \in Seq(Nat) /\ f.type \in Nat BY DEF File, Types
<1>2. /\ s \in Seq(Nat) /\ Len(s) = (IF dlls THEN 1 ELSE 0) /\ (dlls => s[1] = f.type)
  BY <1>1
<1>3. t \in Seq(Nat) /\ Len(t) = 2 /\ t[1] = Len(f.data) /\ t[2] = Len(f.name) BY <1>1
<1>4. FileEntry(f, dlls) = stn \o f.data BY DEF FileEntry
<1>5. Len(f.name) \in Nat /\ Len(f.data) \in Nat BY <1>1
<1> HIDE DEF s, t
<1>6. st \in Seq(Nat) /\ Len(st) = Len(s) + Len(t) BY <1>2, <1>3, Concatenated
<1>7. Len(st) = fields BY <1>2, <1>3, <1>6 DEF Fields
<1> HIDE DEF fields
<1> HIDE DEF st
<1>8. stn \in Seq(Nat) /\ Len(stn) = fields + Len(f.name) BY <1>1, <1>6, <1>7, Concatenated
<1> HIDE DEF stn
<1>9. At(data, pos, stn) /\ At(data, pos + (fields + Len(f.name)), f.data)
  <2>1. At(data, pos, stn \o f.data) BY <1>4
  <2>2. At(data, pos, stn) /\ At(data, pos + Len(stn), f.data) BY <1>1, <1>8, <2>1, AtConcat
  <2> QED BY <1>8, <2>2
<1>10. At(data, pos, st) /\ At(data, pos + fields, f.name)
  <2>1. At(data, pos, st \o f.name) BY <1>9 DEF stn
  <2>2. At(data, pos, st) /\ At(data, pos + Len(st), f.name) BY <1>1, <1>6, <2>1, AtConcat
  <2> QED BY <1>7, <2>2
<1>11. At(data, pos, s) /\ At(data, pos + Len(s), t) BY <1>2, <1>3, <1>10, AtConcat DEF st
<1>12. dlls => data[pos + 1] = f.type BY <1>2, <1>11 DEF At
<1>13. data[pos + Len(s) + 1] = Len(f.data) /\ data[pos + Len(s) + 2] = Len(f.name)
  <2>1. \A i \in 1..2 : data[pos + Len(s) + i] = t[i] BY <1>3, <1>11 DEF At
  <2>2. 1 \in 1..2 /\ 2 \in 1..2 OBVIOUS
  <2> QED BY <1>3, <2>1, <2>2
<1>14. /\ fields \in Nat /\ pos + Len(s) + 1 = pos + fields - 1 /\ pos + Len(s) + 2 = pos + fields
       /\ pos + (fields + Len(f.name)) = pos + fields + Len(f.name)
  <2> DEFINE k == Len(s)
             n == Len(f.name)
  <2>1. k = (IF dlls THEN 1 ELSE 0) /\ n \in Nat BY <1>2, <1>5
  <2>2. fields = k + 2 BY <2>1 DEF fields, Fields
  <2> HIDE DEF k, n
  <2>3. /\ fields \in Nat /\ pos + k + 1 = pos + fields - 1 /\ pos + k + 2 = pos + fields
        /\ pos + (fields + n) = pos + fields + n
    BY <2>1, <2>2
  <2> QED BY <2>3 DEF k, n
<1>15. pos + fields + Len(f.name) + Len(f.data) <= Len(data) BY <1>9, <1>14 DEF At
<1> QED BY <1>9, <1>10, <1>12, <1>13, <1>14, <1>15 DEF fields

FileTaken(d, dlls, r, f) ==
  IF f.name # <<>> /\ f.data # <<>> /\ r.pos + Len(FileEntry(f, dlls)) <= Len(d)
    THEN [r EXCEPT !.pos = @ + Len(FileEntry(f, dlls)), !.files = Append(@, ReadBack(f, dlls))]
    ELSE Refused(r)

\* A step of the reader over the cells of a file.
LEMMA ReadsFile ==
  ASSUME NEW whole \in Seq(Nat), NEW d, Prefix(d, whole), NEW f \in File, NEW dlls \in BOOLEAN,
         NEW r, r.ok, r.pos \in Nat, At(whole, r.pos, FileEntry(f, dlls))
  PROVE  ReadFile(d, dlls, r) = FileTaken(d, dlls, r, f)
<1> USE DEF FileTaken
<1>1. /\ f.name \in Seq(Nat) /\ f.data \in Seq(Nat) /\ f.type \in Types
      /\ Len(f.name) \in Nat /\ Len(f.data) \in Nat
      /\ Len(d) \in Nat /\ d \in Seq(Nat)
      /\ (f.name = <<>> <=> Len(f.name) = 0) /\ (f.data = <<>> <=> Len(f.data) = 0)
  BY DEF File, Prefix
<1>0. /\ dlls => whole[r.pos + 1] = f.type
      /\ whole[r.pos + Fields(dlls) - 1] = Len(f.data)
      /\ whole[r.pos + Fields(dlls)] = Len(f.name)
      /\ At(whole, r.pos + Fields(dlls), f.name)
      /\ At(whole, r.pos + Fields(dlls) + Len(f.name), f.data)
  BY EntryAt
<1>2. PICK pos, fields, len, nameLen, name, type :
        /\ pos = r.pos /\ fields = (IF dlls THEN 3 ELSE 2)
        /\ len = Len(f.data) /\ nameLen = Len(f.name)
        /\ name = pos + fields /\ type = (IF dlls THEN f.type ELSE 0)
  OBVIOUS
<1>3. PICK size, end : size = Len(d) /\ end = name + nameLen + len OBVIOUS
<1>4. /\ pos \in Nat /\ fields \in {2, 3} /\ len \in Nat /\ nameLen \in Nat /\ name \in Nat
      /\ size \in Nat /\ end \in Nat /\ type \in Types
  <2>1. pos \in Nat /\ fields \in {2, 3} /\ len \in Nat /\ nameLen \in Nat /\ size \in Nat
    BY <1>1, <1>2, <1>3
  <2>2. type \in Types BY <1>1, <1>2 DEF Types
  <2>3. name = pos + fields /\ end = name + nameLen + len BY <1>2, <1>3
  <2>4. name \in Nat /\ end \in Nat BY <2>1, <2>3
  <2> QED BY <2>1, <2>2, <2>4
<1>5. pos + Len(FileEntry(f, dlls)) = end
  <2>1. Len(FileEntry(f, dlls)) = fields + nameLen + len BY <1>2, EntriesAreCells
  <2>2. name = pos + fields /\ end = name + nameLen + len BY <1>2, <1>3
  <2>3. pos + (fields + nameLen + len) = end BY <1>4, <2>2
  <2> QED BY <2>1, <2>3
<1>6. /\ dlls => whole[pos + 1] = f.type
      /\ whole[pos + fields - 1] = len /\ whole[pos + fields] = nameLen
      /\ At(whole, name, f.name) /\ At(whole, name + nameLen, f.data)
  <2>1. fields = Fields(dlls) BY <1>2 DEF Fields
  <2> QED BY <1>0, <1>2, <2>1
<1>7. ReadFile(d, dlls, r) =
        IF ~Fits(d, pos, fields) THEN Refused(r)
        ELSE LET type2 == IF dlls THEN Cell(d, pos) ELSE 0
                 len2 == Cell(d, pos + fields - 2)
                 nameLen2 == Cell(d, pos + fields - 1)
             IN IF \/ len2 = 0 \/ nameLen2 = 0 \/ type2 \notin Types
                   \/ ~Fits(d, name, nameLen2) \/ ~Fits(d, name + nameLen2, len2)
                  THEN Refused(r)
                  ELSE [r EXCEPT !.pos = name + nameLen2 + len2,
                                 !.files = Append(@, [name |-> Bytes(d, name, nameLen2), type |-> type2,
                                                      data |-> Bytes(d, name + nameLen2, len2)])]
  BY <1>2, Zenon DEF ReadFile
<1>8. CASE ~(name <= size)
  <2>1. ~Fits(d, pos, fields) BY <1>2, <1>3, <1>4, <1>8 DEF Fits
  <2>2. ~(end <= size) BY <1>3, <1>4, <1>8
  <2> QED BY <1>2, <1>3, <1>5, <1>7, <2>1, <2>2
<1>9. CASE name <= size
  <2>1. Fits(d, pos, fields) BY <1>2, <1>3, <1>4, <1>9 DEF Fits
  <2>2. /\ dlls => Cell(d, pos) = f.type
        /\ Cell(d, pos + fields - 2) = len /\ Cell(d, pos + fields - 1) = nameLen
    <3>1. pos + 1 \in 1..size /\ pos + fields - 1 \in 1..size /\ pos + fields \in 1..size
      BY <1>2, <1>4, <1>9
    <3>2. pos + fields - 2 + 1 = pos + fields - 1 /\ pos + fields - 1 + 1 = pos + fields BY <1>4
    <3>3. \A i \in 1..size : d[i] = whole[i] BY <1>3 DEF Prefix
    <3> QED BY <1>6, <3>1, <3>2, <3>3 DEF Cell
  <2>3. /\ Fits(d, name, nameLen) /\ Fits(d, name + nameLen, len) <=> end <= size
    BY <1>3, <1>4, <1>9 DEF Fits
  <2>4. (IF dlls THEN Cell(d, pos) ELSE 0) = type BY <1>2, <2>2
  <2>5. CASE len = 0 \/ nameLen = 0 \/ ~(end <= size)
    <3>1. ReadFile(d, dlls, r) = Refused(r) BY <1>7, <2>1, <2>2, <2>3, <2>5
    <3> QED BY <1>1, <1>2, <1>3, <1>5, <2>5, <3>1
  <2>6. CASE len # 0 /\ nameLen # 0 /\ end <= size
    <3>1. name + nameLen <= size /\ name + nameLen \in Nat BY <1>3, <1>4, <2>6
    <3>2. At(d, name, f.name) /\ At(d, name + nameLen, f.data)
      BY <1>1, <1>2, <1>3, <1>4, <1>6, <2>6, <3>1, AtPrefix
    <3>3. Bytes(d, name, nameLen) = f.name /\ Bytes(d, name + nameLen, len) = f.data
      BY <1>1, <1>2, <1>4, <3>1, <3>2, BytesAt
    <3>4. ReadBack(f, dlls) = [name |-> f.name, type |-> type, data |-> f.data]
      BY <1>2 DEF ReadBack
    <3>5. ReadFile(d, dlls, r) = [r EXCEPT !.pos = end, !.files = Append(@, ReadBack(f, dlls))]
      BY <1>3, <1>4, <1>7, <2>1, <2>2, <2>3, <2>4, <2>6, <3>3, <3>4
    <3> QED BY <1>1, <1>2, <1>3, <1>5, <2>6, <3>5
  <2> QED BY <2>5, <2>6
<1> QED BY <1>8, <1>9

\* Where the arguments, and the files, lie in a payload.
ArgsLaid(whole, args) ==
  /\ ArgCells(args)[0] = <<>>
  /\ \A n \in 0..Len(args) : ArgCells(args)[n] \in Seq(Nat)
  /\ \A n \in 1..Len(args) :
       /\ Len(ArgCells(args)[n]) = Len(ArgCells(args)[n - 1]) + Len(ArgEntry(args[n]))
       /\ At(whole, HeaderSize + Len(ArgCells(args)[n - 1]), ArgEntry(args[n]))
FilesLaid(whole, start, files, dlls) ==
  /\ FileCells(files, dlls)[0] = <<>>
  /\ \A n \in 0..Len(files) : FileCells(files, dlls)[n] \in Seq(Nat)
  /\ \A n \in 1..Len(files) :
       /\ Len(FileCells(files, dlls)[n]) =
            Len(FileCells(files, dlls)[n - 1]) + Len(FileEntry(files[n], dlls))
       /\ At(whole, start + Len(FileCells(files, dlls)[n - 1]), FileEntry(files[n], dlls))
Laid(whole, args, files, dlls, argCells, fileCells) ==
  /\ whole \in Seq(Nat) /\ argCells \in Seq(Nat) /\ fileCells \in Seq(Nat)
  /\ Len(whole) = HeaderSize + Len(argCells) + Len(fileCells)
  /\ whole[1] = (IF dlls THEN V2 ELSE V1) /\ whole[2] = Len(files) % W
  /\ whole[3] = HeaderSize + Len(argCells) /\ whole[4] = Len(args) % W
  /\ ArgsLaid(whole, args) /\ FilesLaid(whole, whole[3], files, dlls)
  /\ \A n \in 0..Len(args) : Len(ArgCells(args)[n]) <= Len(argCells)
  /\ \A n \in 0..Len(files) : Len(FileCells(files, dlls)[n]) <= Len(fileCells)

\* What the writer puts where.
LEMMA WriteCells ==
  ASSUME NEW args \in Seq(Seq(Nat)), NEW files \in Seq(File), NEW dlls \in BOOLEAN,
         NEW whole, whole = Write(args, files, dlls),
         NEW argCells, argCells = ArgCells(args)[Len(args)],
         NEW fileCells, fileCells = FileCells(files, dlls)[Len(files)]
  PROVE  Laid(whole, args, files, dlls, argCells, fileCells)
<1> DEFINE header == <<IF dlls THEN V2 ELSE V1, Len(files) % W,
                       HeaderSize + Len(argCells), Len(args) % W>>
           argEntry == [n \in 1..Len(args) |-> ArgEntry(args[n])]
           fileEntry == [n \in 1..Len(files) |-> FileEntry(files[n], dlls)]
           a == ArgCells(args)
           f == FileCells(files, dlls)
<1>1. Len(args) \in Nat /\ Len(files) \in Nat OBVIOUS
<1>2. /\ a[0] = <<>>
      /\ \A n \in 1..Len(args) : argEntry[n] \in Seq(Nat) /\ a[n] = a[n - 1] \o argEntry[n]
  <2>1. \A n \in 1..Len(args) : args[n] \in Seq(Nat) OBVIOUS
  <2>2. \A n \in 1..Len(args) : argEntry[n] = ArgEntry(args[n]) OBVIOUS
  <2> HIDE DEF argEntry
  <2> QED BY <1>1, <2>1, <2>2, EntriesAreCells, ArgByArg
<1>3. /\ f[0] = <<>>
      /\ \A n \in 1..Len(files) : fileEntry[n] \in Seq(Nat) /\ f[n] = f[n - 1] \o fileEntry[n]
  <2>1. \A n \in 1..Len(files) : files[n] \in File OBVIOUS
  <2>2. \A n \in 1..Len(files) : fileEntry[n] = FileEntry(files[n], dlls) OBVIOUS
  <2>3. f[0] = <<>> /\ \A n \in 1..Len(files) : f[n] = f[n - 1] \o FileEntry(files[n], dlls)
    BY <1>1, FileByFile
  <2>4. \A n \in 1..Len(files) : FileEntry(files[n], dlls) \in Seq(Nat) BY <2>1, EntriesAreCells
  <2> HIDE DEF fileEntry, f
  <2> QED BY <2>2, <2>3, <2>4
<1>4. \A n \in 1..Len(args) : argEntry[n] = ArgEntry(args[n]) OBVIOUS
<1>5. \A n \in 1..Len(files) : fileEntry[n] = FileEntry(files[n], dlls) OBVIOUS
<1> HIDE DEF argEntry, fileEntry, a, f
<1>6. \A data \in Seq(Nat), pos \in Nat :
        /\ \A n \in 0..Len(args) : a[n] \in Seq(Nat)
        /\ \A n \in 1..Len(args) : Len(a[n]) = Len(a[n - 1]) + Len(argEntry[n])
        /\ \A n \in 0..Len(args) : Len(a[n]) <= Len(a[Len(args)])
        /\ At(data, pos, a[Len(args)]) =>
             \A n \in 1..Len(args) : At(data, pos + Len(a[n - 1]), argEntry[n])
  BY <1>1, <1>2, InPlace
<1>7. \A data \in Seq(Nat), pos \in Nat :
        /\ \A n \in 0..Len(files) : f[n] \in Seq(Nat)
        /\ \A n \in 1..Len(files) : Len(f[n]) = Len(f[n - 1]) + Len(fileEntry[n])
        /\ \A n \in 0..Len(files) : Len(f[n]) <= Len(f[Len(files)])
        /\ At(data, pos, f[Len(files)]) =>
             \A n \in 1..Len(files) : At(data, pos + Len(f[n - 1]), fileEntry[n])
  BY <1>1, <1>3, InPlace
<1>8. <<>> \in Seq(Nat) /\ 0 \in Nat OBVIOUS
<1>9. argCells = a[Len(args)] /\ fileCells = f[Len(files)] BY DEF a, f
<1>10. argCells \in Seq(Nat) /\ fileCells \in Seq(Nat)
  <2>1. Len(args) \in 0..Len(args) /\ Len(files) \in 0..Len(files) BY <1>1
  <2>2. \A n \in 0..Len(args) : a[n] \in Seq(Nat) BY <1>6, <1>8
  <2>3. \A n \in 0..Len(files) : f[n] \in Seq(Nat) BY <1>7, <1>8
  <2> QED BY <1>9, <2>1, <2>2, <2>3
<1>11. /\ header \in Seq(Nat) /\ Len(header) = HeaderSize
       /\ header[1] = (IF dlls THEN V2 ELSE V1) /\ header[2] = Len(files) % W
       /\ header[3] = HeaderSize + Len(argCells) /\ header[4] = Len(args) % W
  <2>1. Len(files) % W \in Nat /\ Len(args) % W \in Nat BY <1>1, WAssumption
  <2>2. HeaderSize + Len(argCells) \in Nat /\ (IF dlls THEN V2 ELSE V1) \in Nat
    BY <1>10 DEF HeaderSize, V1, V2
  <2> QED BY <2>1, <2>2 DEF HeaderSize
<1> DEFINE ha == header \o argCells
<1>12. whole = ha \o fileCells BY DEF Write
<1> HIDE DEF header
<1>13. ha \in Seq(Nat) /\ Len(ha) = HeaderSize + Len(argCells) BY <1>10, <1>11, Concatenated
<1> HIDE DEF ha
<1>14. whole \in Seq(Nat) /\ Len(whole) = HeaderSize + Len(argCells) + Len(fileCells)
  BY <1>10, <1>12, <1>13, Concatenated
<1>15. At(whole, 0, whole) BY <1>14 DEF At
<1>16. At(whole, 0, ha) /\ At(whole, 0 + Len(ha), fileCells)
  <2>1. At(whole, 0, ha \o fileCells) BY <1>12, <1>15
  <2> QED BY <1>8, <1>10, <1>13, <1>14, <2>1, AtConcat
<1>17. At(whole, 0, header) /\ At(whole, 0 + Len(header), argCells)
  BY <1>8, <1>10, <1>11, <1>14, <1>16, AtConcat DEF ha
<1>18. \A i \in 1..4 : whole[0 + i] = header[i] BY <1>11, <1>17 DEF At, HeaderSize
<1>19. whole[1] = header[1] /\ whole[2] = header[2] /\ whole[3] = header[3] /\ whole[4] = header[4]
  BY <1>18
<1>20. HeaderSize \in Nat /\ 0 + HeaderSize = HeaderSize /\ HeaderSize + Len(argCells) \in Nat
       /\ 0 + (HeaderSize + Len(argCells)) = HeaderSize + Len(argCells)
  BY <1>10 DEF HeaderSize
<1>21. At(whole, HeaderSize, a[Len(args)]) BY <1>9, <1>11, <1>17, <1>20
<1>22. At(whole, whole[3], f[Len(files)]) BY <1>9, <1>11, <1>13, <1>16, <1>19, <1>20
<1>23. whole[3] \in Nat BY <1>11, <1>19, <1>20
<1>24. /\ \A n \in 0..Len(args) : a[n] \in Seq(Nat)
       /\ \A n \in 1..Len(args) :
            Len(a[n]) = Len(a[n - 1]) + Len(argEntry[n])
              /\ At(whole, HeaderSize + Len(a[n - 1]), argEntry[n])
  BY <1>6, <1>14, <1>20, <1>21
<1>25. /\ \A n \in 0..Len(files) : f[n] \in Seq(Nat)
       /\ \A n \in 1..Len(files) :
            Len(f[n]) = Len(f[n - 1]) + Len(fileEntry[n])
              /\ At(whole, whole[3] + Len(f[n - 1]), fileEntry[n])
  BY <1>7, <1>14, <1>22, <1>23
<1>26. /\ \A n \in 0..Len(args) : Len(a[n]) <= Len(argCells)
       /\ \A n \in 0..Len(files) : Len(f[n]) <= Len(fileCells)
  BY <1>6, <1>7, <1>8, <1>9
<1>27. ArgsLaid(whole, args) BY <1>2, <1>4, <1>24 DEF a, ArgsLaid
<1>28. FilesLaid(whole, whole[3], files, dlls) BY <1>3, <1>5, <1>25 DEF f, FilesLaid
<1> QED BY <1>10, <1>11, <1>14, <1>19, <1>26, <1>27, <1>28 DEF a, f, Laid

Reader == [ok : BOOLEAN, pos : Nat, args : Seq(Seq(Nat)), files : Seq(File)]
Refusals == [ok : {FALSE}, pos : Nat, args : Seq(Seq(Nat)), files : Seq(File)]

\* Who was refused stays so.
LEMMA RefusedIsRefusal == ASSUME NEW r \in Reader PROVE Refused(r) \in Refusals
BY DEF Refused, Reader, Refusals

\* The first n of a sequence.
LEMMA Initials ==
  ASSUME NEW S, NEW s \in Seq(S)
  PROVE  /\ SubSeq(s, 1, 0) = <<>>
         /\ \A n \in 0..Len(s) :
              /\ SubSeq(s, 1, n) \in Seq(S) /\ Len(SubSeq(s, 1, n)) = n
              /\ \A i \in 1..n : SubSeq(s, 1, n)[i] = s[i]
         /\ \A n \in 1..Len(s) : Append(SubSeq(s, 1, n - 1), s[n]) = SubSeq(s, 1, n)
<1>1. SubSeq(s, 1, 0) = <<>> OBVIOUS
<1>2. Len(s) \in Nat /\ \A i \in 1..Len(s) : s[i] \in S OBVIOUS
<1>3. ASSUME NEW n \in 0..Len(s)
      PROVE  /\ SubSeq(s, 1, n) \in Seq(S) /\ Len(SubSeq(s, 1, n)) = n
             /\ \A i \in 1..n : SubSeq(s, 1, n)[i] = s[i]
  BY <1>2
<1>4. ASSUME NEW n \in 1..Len(s)
      PROVE  Append(SubSeq(s, 1, n - 1), s[n]) = SubSeq(s, 1, n)
  <2> DEFINE t == SubSeq(s, 1, n - 1)
             u == SubSeq(s, 1, n)
  <2>1. n - 1 \in 0..Len(s) /\ n \in 0..Len(s) /\ n \in Nat /\ n - 1 \in Nat BY <1>2
  <2>2. /\ t \in Seq(S) /\ Len(t) = n - 1 /\ \A i \in 1..(n - 1) : t[i] = s[i]
        /\ u \in Seq(S) /\ Len(u) = n /\ \A i \in 1..n : u[i] = s[i]
    BY <1>3, <2>1
  <2> HIDE DEF t, u
  <2>3. /\ Append(t, s[n]) \in Seq(S) /\ Len(Append(t, s[n])) = n
        /\ \A i \in 1..n : Append(t, s[n])[i] = s[i]
    BY <1>2, <2>1, <2>2
  <2>4. Append(t, s[n]) = u BY <2>2, <2>3, SeqEqual
  <2> QED BY <2>4 DEF t, u
<1> QED BY <1>1, <1>3, <1>4

\* What the reader has after n arguments, unless one was empty or not all there.
ArgsFit(d, args, n) ==
  (\A i \in 1..n : args[i] # <<>>) /\ HeaderSize + Len(ArgCells(args)[n]) <= Len(d)
ArgsTaken(args, n) ==
  [ok |-> TRUE, pos |-> HeaderSize + Len(ArgCells(args)[n]), args |-> SubSeq(args, 1, n),
   files |-> <<>>]

\* The loop over the arguments, by induction on how many were read.
LEMMA ArgsReadBack ==
  ASSUME NEW args \in Seq(Seq(Nat)), \A i \in 1..Len(args) : Len(args[i]) < W,
         NEW whole \in Seq(Nat), NEW d, Prefix(d, whole), HeaderSize <= Len(d),
         d[4] \in 0..Len(args),
         ArgsLaid(whole, args)
  PROVE  \A n \in 0..d[4] :
           IF ArgsFit(d, args, n) THEN ArgsRead(d)[n] = ArgsTaken(args, n)
                                  ELSE ArgsRead(d)[n] \in Refusals
<1> DEFINE Reads(n) == IF ArgsFit(d, args, n) THEN ArgsRead(d)[n] = ArgsTaken(args, n)
                                              ELSE ArgsRead(d)[n] \in Refusals
           S == {n \in Nat : n <= d[4] => Reads(n)}
<1> USE DEF ArgsLaid
<1>1. Len(args) \in Nat /\ d[4] \in Nat /\ Len(d) \in Nat /\ HeaderSize \in Nat
  BY DEF Prefix, HeaderSize
<1>2. /\ ArgsRead(d)[0] = [Nothing EXCEPT !.ok = TRUE, !.pos = HeaderSize]
      /\ \A n \in 1..d[4] : ArgsRead(d)[n] = ReadArg(d, ArgsRead(d)[n - 1])
  BY <1>1, ArgReadByArg
<1>3. 0 \in S
  <2>1. Len(ArgCells(args)[0]) = 0 OBVIOUS
  <2>2. ArgsFit(d, args, 0) BY <1>1, <2>1 DEF ArgsFit
  <2>3. ArgsTaken(args, 0) = [ok |-> TRUE, pos |-> HeaderSize, args |-> <<>>, files |-> <<>>]
    <3>1. HeaderSize + Len(ArgCells(args)[0]) = HeaderSize BY <1>1, <2>1
    <3>2. SubSeq(args, 1, 0) = <<>> BY Initials
    <3> QED BY <3>1, <3>2 DEF ArgsTaken
  <2> QED BY <1>2, <2>2, <2>3 DEF Nothing
<1>4. ASSUME NEW m \in Nat, m \in S PROVE m + 1 \in S
  <2> SUFFICES ASSUME m + 1 <= d[4] PROVE Reads(m + 1) OBVIOUS
  <2>1. PICK n \in 1..d[4] : n = m + 1 BY <1>1
  <2>2. n - 1 = m /\ n \in Nat /\ m <= d[4] /\ n \in 1..Len(args) /\ m \in 0..Len(args)
    BY <1>1, <2>1
  <2>3. Reads(m) BY <1>4, <2>2
  <2>4. ArgsRead(d)[n] = ReadArg(d, ArgsRead(d)[m]) BY <1>2, <2>2
  <2> DEFINE k == Len(ArgCells(args)[m])
             l == Len(ArgCells(args)[n])
             e == Len(ArgEntry(args[n]))
  <2>5. args[n] \in Seq(Nat) /\ Len(args[n]) < W BY <2>2
  <2>6. k \in Nat /\ e \in Nat /\ e # 0 /\ l = k + e
    <3>1. ArgCells(args)[m] \in Seq(Nat) BY <2>2
    <3>2. \A a \in Seq(Nat) : Len(ArgEntry(a)) = 1 + Len(a) /\ Len(a) \in Nat
      BY EntriesAreCells
    <3>3. e \in Nat /\ e # 0 BY <2>5, <3>2
    <3>4. k \in Nat BY <3>1
    <3>5. l = k + e BY <2>2
    <3> QED BY <3>3, <3>4, <3>5
  <2>7. At(whole, HeaderSize + k, ArgEntry(args[n])) BY <2>2
  <2> HIDE DEF k, l, e
  <2>8. ArgsFit(d, args, n) <=>
          ArgsFit(d, args, m) /\ args[n] # <<>> /\ HeaderSize + k + e <= Len(d)
    <3>1. (\A i \in 1..n : args[i] # <<>>) <=> (\A i \in 1..m : args[i] # <<>>) /\ args[n] # <<>>
      <4>1. \A i \in 1..n : i \in 1..m \/ i = n BY <2>1, <2>2
      <4>2. n \in 1..n /\ \A i \in 1..m : i \in 1..n BY <2>1, <2>2
      <4> QED BY <4>1, <4>2
    <3>2. HeaderSize + l = HeaderSize + k + e /\ HeaderSize + k <= HeaderSize + k + e
      BY <1>1, <2>6
    <3>3. HeaderSize + k + e <= Len(d) => HeaderSize + k <= Len(d) BY <1>1, <2>6
    <3>4. ArgsFit(d, args, n) <=> (\A i \in 1..n : args[i] # <<>>) /\ HeaderSize + l <= Len(d)
      BY DEF ArgsFit, l
    <3>5. ArgsFit(d, args, m) <=> (\A i \in 1..m : args[i] # <<>>) /\ HeaderSize + k <= Len(d)
      BY DEF ArgsFit, k
    <3> QED BY <3>1, <3>2, <3>3, <3>4, <3>5
  <2>9. CASE ~ArgsFit(d, args, m)
    <3>1. ArgsRead(d)[m] \in Refusals BY <2>3, <2>9
    <3>2. ArgsRead(d)[n] = Refused(ArgsRead(d)[m]) BY <2>4, <3>1 DEF ReadArg, Refusals
    <3>3. ArgsRead(d)[n] \in Refusals BY <3>1, <3>2 DEF Refused, Refusals
    <3> QED BY <2>1, <2>8, <2>9, <3>3
  <2>10. CASE ArgsFit(d, args, m)
    <3> DEFINE r == ArgsTaken(args, m)
    <3>1. r = [ok |-> TRUE, pos |-> HeaderSize + k, args |-> SubSeq(args, 1, m), files |-> <<>>]
      BY DEF ArgsTaken, k
    <3>2. r.ok /\ r.pos = HeaderSize + k /\ r.pos \in Nat BY <1>1, <2>6, <3>1
    <3>3. ArgsRead(d)[n] = ReadArg(d, r) BY <2>3, <2>4, <2>10
    <3> HIDE DEF r
    <3>4. ReadArg(d, r) = IF args[n] # <<>> /\ HeaderSize + k + e <= Len(d)
                            THEN [r EXCEPT !.pos = @ + e, !.args = Append(@, args[n])]
                            ELSE Refused(r)
      <4>1. At(whole, r.pos, ArgEntry(args[n])) BY <2>7, <3>2
      <4> QED BY <2>5, <3>2, <4>1, ReadsArg DEF e
    <3>5. CASE ArgsFit(d, args, n)
      <4>1. Append(SubSeq(args, 1, m), args[n]) = SubSeq(args, 1, n) BY <2>2, Initials
      <4>2. HeaderSize + k + e = HeaderSize + l BY <1>1, <2>6
      <4>3. ArgsRead(d)[n] = [r EXCEPT !.pos = @ + e, !.args = Append(@, args[n])]
        BY <2>8, <3>3, <3>4, <3>5
      <4>4. ArgsRead(d)[n] = [ok |-> TRUE, pos |-> HeaderSize + l, args |-> SubSeq(args, 1, n),
                              files |-> <<>>]
        BY <3>1, <4>1, <4>2, <4>3
      <4>5. ArgsRead(d)[n] = ArgsTaken(args, n) BY <4>4 DEF ArgsTaken, l
      <4> QED BY <2>1, <3>5, <4>5
    <3>6. CASE ~ArgsFit(d, args, n)
      <4>1. ArgsRead(d)[n] = Refused(r) BY <2>8, <2>10, <3>3, <3>4, <3>6
      <4>2. SubSeq(args, 1, m) \in Seq(Seq(Nat)) BY <2>2, Initials
      <4>3. HeaderSize + k \in Nat /\ <<>> \in Seq(File) BY <1>1, <2>6
      <4>4. r \in Reader BY <3>1, <4>2, <4>3 DEF Reader
      <4>5. Refused(r) \in Refusals BY <4>4, RefusedIsRefusal
      <4> QED BY <2>1, <3>6, <4>1, <4>5
    <3> QED BY <3>5, <3>6
  <2> QED BY <2>9, <2>10
<1>5. Nat \subseteq S BY <1>3, <1>4, Induction
<1> QED BY <1>1, <1>5

\* And after n files.
FilesFit(d, files, dlls, n) ==
  /\ \A i \in 1..n : files[i].name # <<>> /\ files[i].data # <<>>
  /\ d[3] + Len(FileCells(files, dlls)[n]) <= Len(d)
Some(files, dlls, n) == [i \in 1..n |-> ReadBack(files[i], dlls)]
FilesTaken(args, d, files, dlls, n) ==
  [ok |-> TRUE, pos |-> d[3] + Len(FileCells(files, dlls)[n]), args |-> args,
   files |-> Some(files, dlls, n)]

\* The first n files as they are read back.
LEMMA SomeFiles ==
  ASSUME NEW files \in Seq(File), NEW dlls \in BOOLEAN
  PROVE  /\ Some(files, dlls, 0) = <<>>
         /\ \A n \in 0..Len(files) : Some(files, dlls, n) \in Seq(File)
         /\ \A n \in 1..Len(files) :
              Append(Some(files, dlls, n - 1), ReadBack(files[n], dlls)) = Some(files, dlls, n)
<1>1. Len(files) \in Nat OBVIOUS
<1>2. \A i \in 1..Len(files) : ReadBack(files[i], dlls) \in File
  <2> TAKE i \in 1..Len(files)
  <2>1. files[i] \in File OBVIOUS
  <2> QED BY <2>1 DEF ReadBack, File, Types
<1>3. ASSUME NEW n \in 0..Len(files)
      PROVE  /\ Some(files, dlls, n) \in Seq(File) /\ Len(Some(files, dlls, n)) = n
             /\ \A i \in 1..n : Some(files, dlls, n)[i] = ReadBack(files[i], dlls)
  <2>1. n \in Nat /\ \A i \in 1..n : i \in 1..Len(files) BY <1>1
  <2>2. \A i \in 1..n : ReadBack(files[i], dlls) \in File BY <1>2, <2>1
  <2>3. Some(files, dlls, n) \in Seq(File) BY <2>1, <2>2 DEF Some
  <2> QED BY <2>1, <2>3 DEF Some
<1>4. Some(files, dlls, 0) = <<>>
  <2>1. 0 \in 0..Len(files) BY <1>1
  <2>2. Some(files, dlls, 0) \in Seq(File) /\ Len(Some(files, dlls, 0)) = 0 BY <1>3, <2>1
  <2> QED BY <2>2
<1>5. ASSUME NEW n \in 1..Len(files)
      PROVE  Append(Some(files, dlls, n - 1), ReadBack(files[n], dlls)) = Some(files, dlls, n)
  <2> DEFINE t == Some(files, dlls, n - 1)
             u == Some(files, dlls, n)
             x == ReadBack(files[n], dlls)
  <2>1. n - 1 \in 0..Len(files) /\ n \in 0..Len(files) /\ n \in Nat /\ n - 1 \in Nat BY <1>1
  <2>2. /\ t \in Seq(File) /\ Len(t) = n - 1
        /\ \A i \in 1..(n - 1) : t[i] = ReadBack(files[i], dlls)
    BY <1>3, <2>1
  <2>3. /\ u \in Seq(File) /\ Len(u) = n
        /\ \A i \in 1..n : u[i] = ReadBack(files[i], dlls)
    BY <1>3, <2>1
  <2>4. x \in File /\ u[n] = x BY <1>2, <2>1, <2>3
  <2> HIDE DEF t, u, x
  <2>5. /\ Append(t, x) \in Seq(File) /\ Len(Append(t, x)) = n
        /\ \A i \in 1..(n - 1) : Append(t, x)[i] = t[i]
        /\ Append(t, x)[n] = x
    BY <2>1, <2>2, <2>4
  <2>6. \A i \in 1..n : i \in 1..(n - 1) \/ i = n BY <2>1
  <2>7. \A i \in 1..n : Append(t, x)[i] = u[i] BY <2>2, <2>3, <2>4, <2>5, <2>6
  <2>8. Append(t, x) = u BY <2>3, <2>5, <2>7, SeqEqual
  <2> QED BY <2>8 DEF t, u, x
<1> QED BY <1>3, <1>4, <1>5

Started(start, pos, args) == start = [ok |-> TRUE, pos |-> pos, args |-> args, files |-> <<>>]

\* The reader goes from the arguments to the offset of the files.
LEMMA Starts ==
  ASSUME NEW pos \in Nat, NEW p \in Nat, NEW args \in Seq(Seq(Nat)),
         NEW start, Started(start, p, args), NEW r, r = [start EXCEPT !.pos = pos]
  PROVE  r = [ok |-> TRUE, pos |-> pos, args |-> args, files |-> <<>>]
BY DEF Started

LEMMA NatSum == \A x, y \in Nat : x + y \in Nat
OBVIOUS

LEMMA EntrySize ==
  ASSUME NEW f \in File, NEW dlls \in BOOLEAN
  PROVE  Len(FileEntry(f, dlls)) \in Nat /\ Len(FileEntry(f, dlls)) # 0
<1> DEFINE e == Len(FileEntry(f, dlls))
           n == Len(f.name)
           m == Len(f.data)
<1>1. f.name \in Seq(Nat) /\ f.data \in Seq(Nat) BY DEF File
<1>2. n \in Nat /\ m \in Nat BY <1>1
<1>3. e = (IF dlls THEN 3 ELSE 2) + n + m BY EntriesAreCells
<1> HIDE DEF e, n, m
<1>4. e \in Nat /\ e # 0 BY <1>2, <1>3
<1> QED BY <1>4 DEF e

FilesReadAs(d, dlls, files, start, args) ==
  \A n \in 0..d[2] :
    IF FilesFit(d, files, dlls, n)
      THEN FilesRead(d, start)[n] = FilesTaken(args, d, files, dlls, n)
      ELSE FilesRead(d, start)[n] \in Refusals
HasType(d, dlls) == (d[1] = V2) = dlls

\* The loop over the files, by induction on how many were read.
LEMMA FilesReadBack ==
  ASSUME NEW files \in Seq(File), NEW dlls \in BOOLEAN,
         NEW whole \in Seq(Nat), NEW d, Prefix(d, whole), d[3] \in Nat, d[3] <= Len(d),
         d[2] \in 0..Len(files), HasType(d, dlls),
         NEW args \in Seq(Seq(Nat)), NEW pos \in Nat,
         NEW start, Started(start, pos, args),
         FilesLaid(whole, d[3], files, dlls)
  PROVE  FilesReadAs(d, dlls, files, start, args)
<1> DEFINE Cells(n) == FileCells(files, dlls)[n]
           Fit(n) == FilesFit(d, files, dlls, n)
           Reads(n) == IF Fit(n) THEN FilesRead(d, start)[n] = FilesTaken(args, d, files, dlls, n)
                                 ELSE FilesRead(d, start)[n] \in Refusals
           S == {n \in Nat : n <= d[2] => Reads(n)}
<1> USE DEF FilesLaid, HasType, FilesReadAs
<1>1. Len(files) \in Nat /\ d[2] \in Nat /\ Len(d) \in Nat BY DEF Prefix
<1>2. /\ FilesRead(d, start)[0] = [start EXCEPT !.pos = d[3]]
      /\ \A n \in 1..d[2] : FilesRead(d, start)[n] = ReadFile(d, dlls, FilesRead(d, start)[n - 1])
  BY <1>1, FileReadByFile
<1>3. 0 \in S
  <2>1. Len(Cells(0)) = 0 OBVIOUS
  <2>2. d[3] + Len(Cells(0)) = d[3] BY <2>1
  <2>3. Fit(0) BY <1>1, <2>2 DEF FilesFit
  <2>4. FilesTaken(args, d, files, dlls, 0) =
          [ok |-> TRUE, pos |-> d[3], args |-> args, files |-> <<>>]
    BY <2>2, SomeFiles DEF FilesTaken
  <2>5. [start EXCEPT !.pos = d[3]] =
          [ok |-> TRUE, pos |-> d[3], args |-> args, files |-> <<>>]
    BY Starts
  <2> QED BY <1>2, <2>3, <2>4, <2>5
<1>4. ASSUME NEW m \in Nat, m \in S PROVE m + 1 \in S
  <2> SUFFICES ASSUME m + 1 <= d[2] PROVE Reads(m + 1) OBVIOUS
  <2>1. PICK n \in 1..d[2] : n = m + 1 BY <1>1
  <2>2. n - 1 = m /\ n \in Nat /\ m <= d[2] /\ n \in 1..Len(files) /\ m \in 0..Len(files)
    BY <1>1, <2>1
  <2>3. Reads(m) BY <1>4, <2>2
  <2>4. FilesRead(d, start)[n] = ReadFile(d, dlls, FilesRead(d, start)[m]) BY <1>2, <2>2
  <2> DEFINE k == Len(Cells(m))
             l == Len(Cells(n))
             e == Len(FileEntry(files[n], dlls))
             f == files[n]
             full == f.name # <<>> /\ f.data # <<>>
  <2>5. f \in File BY <2>2
  <2>6. k \in Nat /\ e \in Nat /\ e # 0 /\ l = k + e
    <3>1. Cells(m) \in Seq(Nat) BY <2>2
    <3>5. e \in Nat /\ e # 0 BY <2>5, EntrySize
    <3>6. k \in Nat BY <3>1
    <3>7. l = k + e BY <2>2
    <3> QED BY <3>5, <3>6, <3>7
  <2>7. At(whole, d[3] + k, FileEntry(f, dlls)) BY <2>2
  <2> HIDE DEF k, l, e, f
  <2>8. Fit(n) <=> Fit(m) /\ full /\ d[3] + k + e <= Len(d)
    <3>1. (\A i \in 1..n : files[i].name # <<>> /\ files[i].data # <<>>) <=>
             (\A i \in 1..m : files[i].name # <<>> /\ files[i].data # <<>>) /\ full
      <4>1. \A i \in 1..n : i \in 1..m \/ i = n BY <2>1, <2>2
      <4>2. n \in 1..n /\ \A i \in 1..m : i \in 1..n BY <2>1, <2>2
      <4> QED BY <4>1, <4>2 DEF f
    <3>2. d[3] + l = d[3] + k + e /\ (d[3] + k + e <= Len(d) => d[3] + k <= Len(d))
      <4>1. PICK x, z : x = d[3] /\ z = Len(d) OBVIOUS
      <4>2. x \in Nat /\ z \in Nat BY <1>1, <4>1
      <4>3. x + l = x + k + e /\ (x + k + e <= z => x + k <= z) BY <2>6, <4>2
      <4> QED BY <4>1, <4>3
    <3>3. Fit(n) <=> (\A i \in 1..n : files[i].name # <<>> /\ files[i].data # <<>>)
                        /\ d[3] + l <= Len(d)
      BY DEF FilesFit, l
    <3>4. Fit(m) <=> (\A i \in 1..m : files[i].name # <<>> /\ files[i].data # <<>>)
                        /\ d[3] + k <= Len(d)
      BY DEF FilesFit, k
    <3> QED BY <3>1, <3>2, <3>3, <3>4
  <2>9. CASE ~Fit(m)
    <3>1. FilesRead(d, start)[m] \in Refusals BY <2>3, <2>9
    <3>2. FilesRead(d, start)[n] = Refused(FilesRead(d, start)[m])
      BY <2>4, <3>1 DEF ReadFile, Refusals
    <3>3. FilesRead(d, start)[n] \in Refusals BY <3>1, <3>2 DEF Refused, Refusals
    <3> QED BY <2>1, <2>8, <2>9, <3>3
  <2>10. CASE Fit(m)
    <3> DEFINE r == FilesTaken(args, d, files, dlls, m)
    <3>1. r = [ok |-> TRUE, pos |-> d[3] + k, args |-> args, files |-> Some(files, dlls, m)]
      BY DEF FilesTaken, k
    <3>2. r.ok /\ r.pos = d[3] + k /\ r.pos \in Nat
      <4>1. r.ok /\ r.pos = d[3] + k BY <3>1
      <4>2. d[3] + k \in Nat BY <2>6, NatSum
      <4> HIDE DEF r
      <4> QED BY <4>1, <4>2
    <3>3. FilesRead(d, start)[n] = ReadFile(d, dlls, r) BY <2>3, <2>4, <2>10
    <3> HIDE DEF r
    <3>4. ReadFile(d, dlls, r) =
            IF full /\ d[3] + k + e <= Len(d)
              THEN [r EXCEPT !.pos = @ + e, !.files = Append(@, ReadBack(f, dlls))]
              ELSE Refused(r)
      <4>1. At(whole, r.pos, FileEntry(f, dlls)) BY <2>7, <3>2
      <4>2. e = Len(FileEntry(f, dlls)) BY DEF e, f
      <4>3. ReadFile(d, dlls, r) = FileTaken(d, dlls, r, f)
        BY <2>5, <3>2, <4>1, ReadsFile
      <4> QED BY <3>2, <4>2, <4>3 DEF FileTaken
    <3>5. CASE Fit(n)
      <4>1. Append(Some(files, dlls, m), ReadBack(f, dlls)) = Some(files, dlls, n)
        BY <2>2, SomeFiles DEF f
      <4>2. d[3] + k + e = d[3] + l BY <1>1, <2>6
      <4>3. FilesRead(d, start)[n] = [r EXCEPT !.pos = @ + e, !.files = Append(@, ReadBack(f, dlls))]
        BY <2>8, <3>3, <3>4, <3>5
      <4>4. FilesRead(d, start)[n] =
              [ok |-> TRUE, pos |-> d[3] + l, args |-> args, files |-> Some(files, dlls, n)]
        BY <3>1, <4>1, <4>2, <4>3
      <4>5. FilesRead(d, start)[n] = FilesTaken(args, d, files, dlls, n)
        BY <4>4 DEF FilesTaken, l
      <4> QED BY <2>1, <3>5, <4>5
    <3>6. CASE ~Fit(n)
      <4>1. FilesRead(d, start)[n] = Refused(r) BY <2>8, <2>10, <3>3, <3>4, <3>6
      <4>2. d[3] + k \in Nat /\ Some(files, dlls, m) \in Seq(File)
        BY <2>2, <2>6, NatSum, SomeFiles
      <4>3. r \in Reader BY <3>1, <4>2 DEF Reader
      <4>4. Refused(r) \in Refusals BY <4>3, RefusedIsRefusal
      <4> QED BY <2>1, <3>6, <4>1, <4>4
    <3> QED BY <3>5, <3>6
  <2> QED BY <2>9, <2>10
<1>5. Nat \subseteq S BY <1>3, <1>4, Induction
<1> QED BY <1>1, <1>5


\* What the reader makes of a payload of which it has the first cells.
PayloadFits(d, args, files, m, n, size) ==
  /\ n > 0
  /\ \A i \in 1..m : args[i] # <<>>
  /\ \A i \in 1..n : files[i].name # <<>> /\ files[i].data # <<>>
  /\ size <= Len(d)

LEMMA ModBelow == \A k \in Nat, w \in Nat \ {0} : k % w \in 0..k
OBVIOUS

\* load_from_memory (lef.cpp:108) reads back what store_as_lef (lef.cpp:554) wrote: as many
\* arguments and files as the 16 bits of the counts leave, if none of them is empty and the
\* file was not cut before the last of them, and else nothing.
THEOREM PayloadReadBack ==
  ASSUME NEW args \in Seq(Seq(Nat)), \A i \in 1..Len(args) : Len(args[i]) < W,
         NEW files \in Seq(File), NEW dlls \in BOOLEAN,
         NEW d, Prefix(d, Write(args, files, dlls)),
         NEW m, m = Len(args) % W, NEW n, n = Len(files) % W,
         NEW size,
         size = HeaderSize + Len(ArgCells(args)[Len(args)]) + Len(FileCells(files, dlls)[n])
  PROVE  IF PayloadFits(d, args, files, m, n, size)
           THEN /\ Read(d).ok /\ Read(d).args = SubSeq(args, 1, m)
                /\ Read(d).files = Some(files, dlls, n)
           ELSE ~Read(d).ok
<1>1. PICK whole, argCells, fileCells :
        /\ whole = Write(args, files, dlls)
        /\ argCells = ArgCells(args)[Len(args)]
        /\ fileCells = FileCells(files, dlls)[Len(files)]
  OBVIOUS
<1>2. Laid(whole, args, files, dlls, argCells, fileCells) BY <1>1, WriteCells
<1>3. /\ whole \in Seq(Nat) /\ argCells \in Seq(Nat) /\ fileCells \in Seq(Nat)
      /\ whole[1] = (IF dlls THEN V2 ELSE V1) /\ whole[2] = n
      /\ whole[3] = HeaderSize + Len(argCells) /\ whole[4] = m
      /\ ArgsLaid(whole, args) /\ FilesLaid(whole, whole[3], files, dlls)
      /\ \A k \in 0..Len(args) : Len(ArgCells(args)[k]) <= Len(argCells)
  BY <1>2 DEF Laid
<1>4. /\ \A k \in 0..Len(args) : ArgCells(args)[k] \in Seq(Nat)
      /\ \A k \in 0..Len(files) : FileCells(files, dlls)[k] \in Seq(Nat)
  BY <1>3 DEF ArgsLaid, FilesLaid
<1>5. Prefix(d, whole) /\ d \in Seq(Nat) /\ Len(d) \in Nat BY <1>1 DEF Prefix
<1>6. /\ Len(args) \in Nat /\ Len(files) \in Nat /\ m \in 0..Len(args) /\ n \in 0..Len(files)
  <2>1. Len(args) \in Nat /\ Len(files) \in Nat OBVIOUS
  <2> QED BY <2>1, WAssumption, ModBelow
<1>7. PICK header, a, k, l :
        /\ header = HeaderSize /\ a = Len(argCells)
        /\ k = Len(ArgCells(args)[m]) /\ l = Len(FileCells(files, dlls)[n])
  OBVIOUS
<1>8. /\ header \in Nat /\ a \in Nat /\ k \in Nat /\ l \in Nat /\ k <= a /\ size = header + a + l
  <2>1. header \in Nat BY <1>7 DEF HeaderSize
  <2>2. a \in Nat BY <1>3, <1>7
  <2>3. k \in Nat
    <3>1. ArgCells(args)[m] \in Seq(Nat) BY <1>4, <1>6
    <3> QED BY <1>7, <3>1
  <2>4. l \in Nat
    <3>1. FileCells(files, dlls)[n] \in Seq(Nat) BY <1>4, <1>6
    <3> QED BY <1>7, <3>1
  <2>5. k <= a BY <1>3, <1>6, <1>7
  <2>6. size = header + a + l BY <1>1, <1>7
  <2> QED BY <2>1, <2>2, <2>3, <2>4, <2>5, <2>6
<1>9. CASE Len(d) < header
  <2>1. Read(d) = Nothing BY <1>7, <1>9 DEF Read
  <2>2. ~(size <= Len(d)) BY <1>5, <1>8, <1>9
  <2> QED BY <2>1, <2>2 DEF Nothing, PayloadFits
<1>10. CASE ~(Len(d) < header)
  <2>1. /\ d[1] = (IF dlls THEN V2 ELSE V1) /\ d[2] = n /\ d[3] = header + a /\ d[4] = m
        /\ HeaderSize <= Len(d)
    <3>1. header = 4 BY <1>7 DEF HeaderSize
    <3>2. 1 \in 1..Len(d) /\ 2 \in 1..Len(d) /\ 3 \in 1..Len(d) /\ 4 \in 1..Len(d)
      BY <1>5, <1>10, <3>1
    <3>3. d[1] = whole[1] /\ d[2] = whole[2] /\ d[3] = whole[3] /\ d[4] = whole[4]
      BY <1>5, <3>2 DEF Prefix
    <3>4. HeaderSize <= Len(d) BY <1>5, <1>7, <1>8, <1>10
    <3> QED BY <1>3, <1>7, <3>3, <3>4
  <2>2. d[1] \in {V1, V2} /\ (d[1] = V2) = dlls BY <2>1 DEF V1, V2
  <2> DEFINE start == ArgsRead(d)[m]
             all == FilesRead(d, start)[n]
  <2>3. Read(d) = IF n = 0 THEN Nothing
                  ELSE IF start.ok /\ d[3] <= Len(d) /\ all.ok THEN all ELSE Nothing
    BY <1>7, <1>10, <2>1, <2>2 DEF Read
  <2>4. IF ArgsFit(d, args, m) THEN start = ArgsTaken(args, m) ELSE start \in Refusals
    <3>1. \A j \in 0..d[4] : IF ArgsFit(d, args, j) THEN ArgsRead(d)[j] = ArgsTaken(args, j)
                                                    ELSE ArgsRead(d)[j] \in Refusals
      BY <1>3, <1>5, <1>6, <2>1, ArgsReadBack
    <3>2. m \in 0..d[4] BY <1>6, <2>1
    <3> QED BY <3>1, <3>2
  <2>5. ArgsFit(d, args, m) <=> (\A i \in 1..m : args[i] # <<>>) /\ header + k <= Len(d)
    BY <1>7 DEF ArgsFit
  <2>6. size <= Len(d) => header + k <= Len(d) /\ header + a <= Len(d) BY <1>5, <1>8
  <2> HIDE DEF start
  <2>7. CASE n = 0 \/ ~ArgsFit(d, args, m) \/ ~(d[3] <= Len(d))
    <3>1. ~PayloadFits(d, args, files, m, n, size) BY <1>6, <2>1, <2>5, <2>6, <2>7 DEF PayloadFits
    <3>2. ~ArgsFit(d, args, m) => ~start.ok BY <2>4 DEF Refusals
    <3>3. Read(d) = Nothing BY <2>3, <2>7, <3>2
    <3> QED BY <3>1, <3>3 DEF Nothing
  <2>8. CASE n # 0 /\ ArgsFit(d, args, m) /\ d[3] <= Len(d)
    <3>1. start = ArgsTaken(args, m) BY <2>4, <2>8
    <3>2. start.ok BY <3>1 DEF ArgsTaken
    <3>3. SubSeq(args, 1, m) \in Seq(Seq(Nat)) BY <1>6, Initials
    <3>4. header + k \in Nat /\ d[3] \in Nat BY <1>8, <2>1
    <3>5. Started(start, header + k, SubSeq(args, 1, m)) BY <1>7, <3>1 DEF Started, ArgsTaken
    <3>6. IF FilesFit(d, files, dlls, n)
            THEN all = FilesTaken(SubSeq(args, 1, m), d, files, dlls, n)
            ELSE all \in Refusals
      <4>1. d[2] \in 0..Len(files) /\ n \in 0..d[2] BY <1>6, <2>1
      <4>2. FilesLaid(whole, d[3], files, dlls) BY <1>3, <1>7, <2>1
      <4>3. HasType(d, dlls) BY <2>2 DEF HasType
      <4>4. PICK p, some : p = header + k /\ some = SubSeq(args, 1, m) OBVIOUS
      <4>5. p \in Nat /\ some \in Seq(Seq(Nat)) /\ Started(start, p, some)
        BY <3>3, <3>4, <3>5, <4>4
      <4>6. whole \in Seq(Nat) BY <1>3
      <4>7. FilesReadAs(d, dlls, files, start, some)
        BY <1>5, <2>8, <3>4, <4>1, <4>2, <4>3, <4>5, <4>6, FilesReadBack
      <4> QED BY <4>1, <4>4, <4>7 DEF FilesReadAs
    <3>7. FilesFit(d, files, dlls, n) <=> PayloadFits(d, args, files, m, n, size)
      <4>1. d[3] + l = size BY <1>8, <2>1
      <4>2. n > 0 BY <1>6, <2>8
      <4>3. FilesFit(d, files, dlls, n) <=>
              (\A i \in 1..n : files[i].name # <<>> /\ files[i].data # <<>>) /\ d[3] + l <= Len(d)
        BY <1>7 DEF FilesFit
      <4> QED BY <2>5, <2>8, <4>1, <4>2, <4>3 DEF PayloadFits
    <3> HIDE DEF all
    <3>8. CASE FilesFit(d, files, dlls, n)
      <4>1. all.ok /\ all.args = SubSeq(args, 1, m) /\ all.files = Some(files, dlls, n)
        BY <3>6, <3>8 DEF FilesTaken
      <4>2. Read(d) = all BY <2>3, <2>8, <3>2, <4>1
      <4> QED BY <3>7, <3>8, <4>1, <4>2
    <3>9. CASE ~FilesFit(d, files, dlls, n)
      <4>1. ~all.ok BY <3>6, <3>9 DEF Refusals
      <4>2. Read(d) = Nothing BY <2>3, <2>8, <4>1
      <4> QED BY <3>7, <3>9, <4>2 DEF Nothing
    <3> QED BY <3>8, <3>9
  <2> QED BY <2>7, <2>8
<1> QED BY <1>9, <1>10

\* The main file is first, and nothing is lost.
LEMMA MainIsFirst ==
  ASSUME NEW files \in Seq(File), NEW main
  PROVE  /\ MainFirst(files, main) \in Seq(File) /\ Len(MainFirst(files, main)) = Len(files)
         /\ (\E i \in DOMAIN files : files[i].name = main) => MainFirst(files, main)[1].name = main
<1> DEFINE Is(i) == files[i].name = main
           T == {i \in DOMAIN files : Is(i)}
<1>1. Len(files) \in Nat /\ DOMAIN files = 1..Len(files) OBVIOUS
<1>2. CASE T = {} BY <1>2 DEF MainFirst
<1>3. CASE T # {}
  <2> DEFINE First(i) == i \in DOMAIN files /\ Is(i) /\ \A j \in 1..(i - 1) : ~Is(j)
             i == CHOOSE i \in DOMAIN files : Is(i) /\ \A j \in 1..(i - 1) : files[j].name # main
             rest == RemoveAt(files, i)
  <2>1. \E k : First(k)
    <3>1. T \in SUBSET Nat BY <1>1
    <3>2. PICK k \in T : \A y \in T : k <= y BY <1>3, <3>1, Least
    <3>3. \A j \in 1..(k - 1) : j \in 1..Len(files) /\ ~(k <= j) BY <1>1
    <3>4. First(k) BY <1>1, <3>2, <3>3
    <3> QED BY <3>4
  <2>2. First(i) BY <2>1
  <2>3. MainFirst(files, main) = <<files[i]>> \o rest BY <1>3, Zenon DEF MainFirst
  <2> HIDE DEF i
  <2>4. i \in 1..Len(files) /\ files[i] \in File /\ files[i].name = main BY <1>1, <2>2
  <2>5. rest \in Seq(File) /\ Len(rest) = Len(files) - 1
    <3> DEFINE s == SubSeq(files, 1, i - 1)
               t == SubSeq(files, i + 1, Len(files))
    <3>1. s \in Seq(File) /\ Len(s) = i - 1
      <4>1. \A j \in 1..(i - 1) : j \in 1..Len(files) BY <1>1, <2>4
      <4>2. i - 1 \in Nat BY <2>4
      <4> QED BY <1>1, <4>1, <4>2
    <3>2. t \in Seq(File) /\ Len(t) = Len(files) - i
      <4>1. i + 1 \in 1..(Len(files) + 1) /\ Len(files) \in ((i + 1) - 1)..Len(files)
            /\ Len(files) - (i + 1) + 1 = Len(files) - i
        BY <1>1, <2>4
      <4> QED BY <4>1, SubSeqProperties
    <3> HIDE DEF s, t
    <3>3. s \o t \in Seq(File) /\ Len(s \o t) = Len(s) + Len(t) BY <3>1, <3>2
    <3>4. (i - 1) + (Len(files) - i) = Len(files) - 1 BY <1>1, <2>4
    <3> QED BY <3>1, <3>2, <3>3, <3>4 DEF RemoveAt, s, t
  <2> HIDE DEF rest
  <2> DEFINE head == <<files[i]>>
  <2>6. /\ head \o rest \in Seq(File) /\ Len(head \o rest) = 1 + (Len(files) - 1)
        /\ (head \o rest)[1] = files[i]
    <3>1. head \in Seq(File) /\ Len(head) = 1 /\ head[1] = files[i] BY <2>4
    <3> HIDE DEF head
    <3>2. /\ head \o rest \in Seq(File) /\ Len(head \o rest) = Len(head) + Len(rest)
          /\ (head \o rest)[1] = head[1]
      <4>1. 1 \in 1..(Len(head) + Len(rest)) /\ 1 <= Len(head) BY <1>1, <2>4, <2>5, <3>1
      <4>2. rest \in Seq(File) BY <2>5
      <4>3. /\ head \o rest \in Seq(File) /\ Len(head \o rest) = Len(head) + Len(rest)
            /\ \A j \in 1..(Len(head) + Len(rest)) :
                 (head \o rest)[j] = IF j <= Len(head) THEN head[j] ELSE rest[j - Len(head)]
        BY <3>1, <4>2, ConcatProperties
      <4> QED BY <4>1, <4>3
    <3> QED BY <2>5, <3>1, <3>2
  <2>7. 1 + (Len(files) - 1) = Len(files) BY <1>1
  <2> QED BY <2>3, <2>4, <2>6, <2>7
<1> QED BY <1>2, <1>3

\* The bounded inputs are sequences.
LEMMA BoundedIsSeq ==
  ASSUME NEW S, NEW n \in Nat, NEW s \in UNION {[1..k -> S] : k \in 0..n}
  PROVE  s \in Seq(S) /\ Len(s) <= n
<1>1. PICK k \in 0..n : s \in [1..k -> S] OBVIOUS
<1>2. k \in Nat OBVIOUS
<1>3. s \in Seq(S) BY <1>1, <1>2, SeqDef
<1>4. Len(s) = k BY <1>1, <1>2, <1>3
<1> QED BY <1>3, <1>4

LEMMA PayloadsAreTyped ==
  /\ \A args \in Upto(Text(W - 1), MaxArgs) :
       args \in Seq(Seq(Nat)) /\ \A i \in 1..Len(args) : Len(args[i]) < W
  /\ \A files \in Upto(Files, MaxFiles) : files \in Seq(File)
<1>1. W - 1 \in Nat /\ W \in Nat /\ MaxArgs \in Nat /\ MaxFiles \in Nat
  BY WAssumption, FormatsAssumption
<1>2. \A n \in Nat : \A s \in Text(n) : s \in Seq(Nat) /\ Len(s) <= n
  <2> TAKE n \in Nat
  <2> TAKE s \in Text(n)
  <2>1. s \in Seq({7}) /\ Len(s) <= n BY BoundedIsSeq DEF Text
  <2>2. \A i \in 1..Len(s) : s[i] \in Nat BY <2>1
  <2> QED BY <2>1, <2>2
<1>3. ASSUME NEW args \in Upto(Text(W - 1), MaxArgs)
      PROVE  args \in Seq(Seq(Nat)) /\ \A i \in 1..Len(args) : Len(args[i]) < W
  <2>1. args \in Seq(Text(W - 1)) BY <1>1, BoundedIsSeq DEF Upto
  <2>2. \A i \in 1..Len(args) : args[i] \in Text(W - 1) BY <2>1
  <2>3. \A i \in 1..Len(args) : args[i] \in Seq(Nat) /\ Len(args[i]) <= W - 1 BY <1>1, <1>2, <2>2
  <2>4. \A i \in 1..Len(args) : Len(args[i]) < W
    <3> TAKE i \in 1..Len(args)
    <3>1. Len(args[i]) \in Nat /\ Len(args[i]) <= W - 1 BY <2>3
    <3> QED BY <1>1, <3>1
  <2> QED BY <2>1, <2>3, <2>4
<1>4. ASSUME NEW files \in Upto(Files, MaxFiles) PROVE files \in Seq(File)
  <2>1. files \in Seq(Files) BY <1>1, BoundedIsSeq DEF Upto
  <2>2. {<<8>>, <<9>>, <<>>} \subseteq Seq(Nat) /\ Text(W) \subseteq Seq(Nat) BY <1>1, <1>2
  <2>3. \A f \in Files : f \in File BY <2>2 DEF Files, File
  <2> QED BY <2>1, <2>3
<1> QED BY <1>3, <1>4

LEMMA CutShort ==
  ASSUME NEW s \in Seq(Nat), NEW k \in 0..Len(s)
  PROVE  Prefix(SubSeq(s, 1, k), s) /\ Len(SubSeq(s, 1, k)) = k
<1>1. /\ SubSeq(s, 1, k) \in Seq(Nat) /\ Len(SubSeq(s, 1, k)) = k
      /\ \A i \in 1..k : SubSeq(s, 1, k)[i] = s[i]
  BY Initials
<1>2. k <= Len(s) OBVIOUS
<1> QED BY <1>1, <1>2 DEF Prefix

-----------------------------------------------------------------------------
(* What the unpack records *)

BundledFile == [mod : {"m", "n"}, folder : {"f", "g"}, written : BOOLEAN]
Recorded(files, n, bundled) ==
  /\ DOMAIN bundled = {files[i].mod : i \in 1..n}
  /\ \A m \in DOMAIN bundled : \E first \in 1..n :
       /\ files[first].mod = m /\ \A i \in 1..n : files[i].mod = m => first <= i
       /\ bundled[m] = IF \A i \in 1..n : files[i].mod = m => files[i].written
                         THEN files[first].folder ELSE "empty"

\* A file more.
LEMMA RecordsNext ==
  ASSUME NEW files, NEW n \in Nat \ {0}, NEW before, Recorded(files, n - 1, before)
  PROVE  Recorded(files, n, Record(before, files[n]))
<1> DEFINE f == files[n]
           after == Record(before, f)
           Mods(k) == {files[i].mod : i \in 1..k}
<1>1. /\ n \in 1..n /\ \A i \in 1..n : i \in 1..(n - 1) \/ i = n
      /\ \A i \in 1..(n - 1) : i \in 1..n /\ i <= n /\ ~(n <= i)
  OBVIOUS
<1>2. DOMAIN before = Mods(n - 1) BY DEF Recorded
<1>3. Mods(n) = Mods(n - 1) \cup {f.mod} BY <1>1
<1>4. after = IF ~f.written \/ f.mod \notin DOMAIN before
                THEN [m \in DOMAIN before \cup {f.mod} |->
                        IF m # f.mod THEN before[m] ELSE IF f.written THEN f.folder ELSE "empty"]
                ELSE before
  BY DEF Record
<1> HIDE DEF f, after
<1>5. /\ DOMAIN after = DOMAIN before \cup {f.mod}
      /\ \A m \in DOMAIN before : m # f.mod \/ f.written => after[m] = before[m]
      /\ f.mod \notin DOMAIN before => after[f.mod] = IF f.written THEN f.folder ELSE "empty"
      /\ ~f.written => after[f.mod] = "empty"
  <2>1. CASE ~f.written \/ f.mod \notin DOMAIN before
    <3>1. after = [m \in DOMAIN before \cup {f.mod} |->
                    IF m # f.mod THEN before[m] ELSE IF f.written THEN f.folder ELSE "empty"]
      BY <1>4, <2>1
    <3> QED BY <2>1, <3>1
  <2>2. CASE f.written /\ f.mod \in DOMAIN before
    <3>1. after = before BY <1>4, <2>2
    <3>2. DOMAIN before \cup {f.mod} = DOMAIN before BY <2>2
    <3> QED BY <2>2, <3>1, <3>2
  <2> QED BY <2>1, <2>2
<1>6. DOMAIN after = Mods(n) BY <1>2, <1>3, <1>5
<1>7. ASSUME NEW m \in DOMAIN after
      PROVE  \E first \in 1..n :
               /\ files[first].mod = m /\ \A i \in 1..n : files[i].mod = m => first <= i
               /\ after[m] = IF \A i \in 1..n : files[i].mod = m => files[i].written
                               THEN files[first].folder ELSE "empty"
  <2>1. CASE m \in DOMAIN before
    <3>1. PICK first \in 1..(n - 1) :
            /\ files[first].mod = m /\ \A i \in 1..(n - 1) : files[i].mod = m => first <= i
            /\ before[m] = IF \A i \in 1..(n - 1) : files[i].mod = m => files[i].written
                             THEN files[first].folder ELSE "empty"
      BY <2>1 DEF Recorded
    <3>2. first \in 1..n /\ \A i \in 1..n : files[i].mod = m => first <= i BY <1>1, <3>1
    <3>3. after[m] = IF \A i \in 1..n : files[i].mod = m => files[i].written
                       THEN files[first].folder ELSE "empty"
      <4>1. CASE m # f.mod \/ f.written
        <5>1. after[m] = before[m] BY <1>5, <2>1, <4>1
        <5>2. (\A i \in 1..n : files[i].mod = m => files[i].written) <=>
                \A i \in 1..(n - 1) : files[i].mod = m => files[i].written
          BY <1>1, <4>1 DEF f
        <5> QED BY <3>1, <5>1, <5>2
      <4>2. CASE m = f.mod /\ ~f.written
        <5>1. ~\A i \in 1..n : files[i].mod = m => files[i].written BY <1>1, <4>2 DEF f
        <5> QED BY <1>5, <4>2, <5>1
      <4> QED BY <4>1, <4>2
    <3> QED BY <3>1, <3>2, <3>3
  <2>2. CASE m \notin DOMAIN before
    <3>1. m = f.mod BY <1>5, <2>2
    <3>2. \A i \in 1..(n - 1) : files[i].mod # m BY <1>2, <2>2
    <3>3. \A i \in 1..n : files[i].mod = m => i = n BY <1>1, <3>2
    <3>4. (\A i \in 1..n : files[i].mod = m => files[i].written) <=> f.written
      BY <1>1, <3>1, <3>3 DEF f
    <3>5. after[m] = IF f.written THEN f.folder ELSE "empty" BY <1>5, <2>2, <3>1
    <3>6. /\ files[n].mod = m /\ files[n].folder = f.folder
          /\ \A i \in 1..n : files[i].mod = m => n <= i
      BY <3>1, <3>3 DEF f
    <3> QED BY <1>1, <3>4, <3>5, <3>6
  <2> QED BY <2>1, <2>2
<1> QED BY <1>6, <1>7 DEF Recorded, f, after

\* All files, by induction on how many were unpacked.
LEMMA UnpackRecords ==
  ASSUME NEW files, Len(files) \in Nat
  PROVE  Recorded(files, Len(files), Unpack(files))
<1> DEFINE S == {n \in Nat : n <= Len(files) => Recorded(files, n, Unpacked(files)[n])}
<1>1. /\ Unpacked(files)[0] = <<>>
      /\ \A n \in 1..Len(files) : Unpacked(files)[n] = Record(Unpacked(files)[n - 1], files[n])
  BY UnpackedByFile
<1>2. 0 \in S
  <2>1. DOMAIN <<>> = {} /\ 1..0 = {} OBVIOUS
  <2>2. Recorded(files, 0, <<>>) BY <2>1 DEF Recorded
  <2> QED BY <1>1, <2>2
<1>3. ASSUME NEW k \in Nat, k \in S PROVE k + 1 \in S
  <2> SUFFICES ASSUME k + 1 <= Len(files) PROVE Recorded(files, k + 1, Unpacked(files)[k + 1])
    OBVIOUS
  <2>1. PICK n \in 1..Len(files) : n = k + 1 OBVIOUS
  <2>2. n \in Nat \ {0} /\ n - 1 = k /\ k <= Len(files) BY <2>1
  <2>3. Recorded(files, n - 1, Unpacked(files)[n - 1]) BY <1>3, <2>2
  <2>4. Recorded(files, n, Unpacked(files)[n]) BY <1>1, <2>2, <2>3, RecordsNext
  <2> QED BY <2>1, <2>4
<1>4. Nat \subseteq S BY <1>2, <1>3, Induction
<1> QED BY <1>4 DEF Unpack

-----------------------------------------------------------------------------
(* How a response is read *)

\* Sequences one behind the other.
LEMMA OneByOne ==
  ASSUME NEW seqs, Len(seqs) \in Nat
  PROVE  /\ Joined(seqs)[0] = <<>>
         /\ \A n \in 1..Len(seqs) : Joined(seqs)[n] = Joined(seqs)[n - 1] \o seqs[n]
<1> DEFINE len == Len(seqs)
           base == <<>>
           Then(f, n) == f[n - 1] \o seqs[n]
           Loop(f, m) == [n \in 0..m |-> IF n = 0 THEN base ELSE Then(f, n)]
           S == {m \in Nat : \E f : f = Loop(f, m)}
<1>1. 0 \in S
  <2> DEFINE f == [n \in 0..0 |-> base]
  <2>1. f = Loop(f, 0) OBVIOUS
  <2> QED BY <2>1
<1>2. ASSUME NEW m \in Nat, m \in S PROVE m + 1 \in S
  <2>1. PICK f : f = Loop(f, m) BY <1>2
  <2> DEFINE g == [n \in 0..(m + 1) |-> IF n = m + 1 THEN Then(f, n) ELSE f[n]]
  <2>2. \A n \in 0..(m + 1) : g[n] = IF n = 0 THEN base ELSE Then(g, n)
    <3> TAKE n \in 0..(m + 1)
    <3>1. n # 0 => n - 1 \in 0..m /\ n - 1 \in 0..(m + 1) /\ n - 1 # m + 1 OBVIOUS
    <3>2. n # 0 => g[n - 1] = f[n - 1] BY <3>1
    <3>3. CASE n = m + 1
      <4>1. n # 0 BY <3>3
      <4>2. g[n] = Then(f, n) BY <3>3, Zenon
      <4> HIDE DEF g
      <4> QED BY <3>2, <4>1, <4>2
    <3>4. CASE n # m + 1
      <4>1. n \in 0..m BY <3>4
      <4>2. f[n] = IF n = 0 THEN base ELSE Then(f, n) BY <2>1, <4>1
      <4> QED BY <3>2, <3>4, <4>1, <4>2
    <3> QED BY <3>3, <3>4
  <2>3. g = Loop(g, m + 1)
    <3>1. \A n \in 0..(m + 1) : g[n] = Loop(g, m + 1)[n] BY <2>2
    <3> HIDE DEF g
    <3> QED BY <3>1 DEF g
  <2> HIDE DEF g, Loop
  <2>4. \E x : x = Loop(x, m + 1) BY <2>3
  <2> QED BY <2>4
<1>3. len \in S BY <1>1, <1>2, Induction
<1>4. \E f : f = Loop(f, len) BY <1>3
<1>5. Joined(seqs) = CHOOSE f : f = Loop(f, len)
  BY DEF Joined
<1> HIDE DEF Loop
<1>6. Joined(seqs) = Loop(Joined(seqs), len) BY <1>4, <1>5
<1>7. Joined(seqs) =
        [n \in 0..len |-> IF n = 0 THEN base ELSE Then(Joined(seqs), n)]
  BY <1>6 DEF Loop
<1>8. 0 \in 0..len /\ \A n \in 1..len : n \in 0..len /\ n # 0 OBVIOUS
<1>9. Joined(seqs)[0] = base BY <1>7, <1>8, Zenon
<1>10. \A n \in 1..len : Joined(seqs)[n] = Then(Joined(seqs), n)
  BY <1>7, <1>8, Zenon
<1> QED BY <1>9, <1>10

\* The rounds of WorkOnBody.
LEMMA RoundByRound ==
  ASSUME NEW s, Len(s.body) + 1 \in Nat
  PROVE  /\ Rounds(s)[0] = [s EXCEPT !.go = TRUE]
         /\ \A n \in 1..(Len(s.body) + 1) : Rounds(s)[n] = WorkOnBody(Rounds(s)[n - 1])
<1> DEFINE len == Len(s.body) + 1
           base == [s EXCEPT !.go = TRUE]
           Then(f, n) == WorkOnBody(f[n - 1])
           Loop(f, m) == [n \in 0..m |-> IF n = 0 THEN base ELSE Then(f, n)]
           S == {m \in Nat : \E f : f = Loop(f, m)}
<1>1. 0 \in S
  <2> DEFINE f == [n \in 0..0 |-> base]
  <2>1. f = Loop(f, 0) OBVIOUS
  <2> QED BY <2>1
<1>2. ASSUME NEW m \in Nat, m \in S PROVE m + 1 \in S
  <2>1. PICK f : f = Loop(f, m) BY <1>2
  <2> DEFINE g == [n \in 0..(m + 1) |-> IF n = m + 1 THEN Then(f, n) ELSE f[n]]
  <2>2. \A n \in 0..(m + 1) : g[n] = IF n = 0 THEN base ELSE Then(g, n)
    <3> TAKE n \in 0..(m + 1)
    <3>1. n # 0 => n - 1 \in 0..m /\ n - 1 \in 0..(m + 1) /\ n - 1 # m + 1 OBVIOUS
    <3>2. n # 0 => g[n - 1] = f[n - 1] BY <3>1
    <3>3. CASE n = m + 1
      <4>1. n # 0 BY <3>3
      <4>2. g[n] = Then(f, n) BY <3>3, Zenon
      <4> HIDE DEF g
      <4> QED BY <3>2, <4>1, <4>2
    <3>4. CASE n # m + 1
      <4>1. n \in 0..m BY <3>4
      <4>2. f[n] = IF n = 0 THEN base ELSE Then(f, n) BY <2>1, <4>1
      <4> QED BY <3>2, <3>4, <4>1, <4>2
    <3> QED BY <3>3, <3>4
  <2>3. g = Loop(g, m + 1)
    <3>1. \A n \in 0..(m + 1) : g[n] = Loop(g, m + 1)[n] BY <2>2
    <3> HIDE DEF g
    <3> QED BY <3>1 DEF g
  <2> HIDE DEF g, Loop
  <2>4. \E x : x = Loop(x, m + 1) BY <2>3
  <2> QED BY <2>4
<1>3. len \in S BY <1>1, <1>2, Induction
<1>4. \E f : f = Loop(f, len) BY <1>3
<1>5. Rounds(s) = CHOOSE f : f = Loop(f, len)
  BY DEF Rounds
<1> HIDE DEF Loop
<1>6. Rounds(s) = Loop(Rounds(s), len) BY <1>4, <1>5
<1>7. Rounds(s) =
        [n \in 0..len |-> IF n = 0 THEN base ELSE Then(Rounds(s), n)]
  BY <1>6 DEF Loop
<1>8. 0 \in 0..len /\ \A n \in 1..len : n \in 0..len /\ n # 0 OBVIOUS
<1>9. Rounds(s)[0] = base BY <1>7, <1>8, Zenon
<1>10. \A n \in 1..len : Rounds(s)[n] = Then(Rounds(s), n)
  BY <1>7, <1>8, Zenon
<1> QED BY <1>9, <1>10

\* And the pieces of a response.
LEMMA PieceByPiece ==
  ASSUME NEW r, NEW exact, NEW pieces, Len(pieces) \in Nat
  PROVE  /\ Received(r, exact, pieces)[0] = Empty
         /\ \A n \in 1..Len(pieces) :
              Received(r, exact, pieces)[n] =
                Receive(r, exact, Received(r, exact, pieces)[n - 1], pieces[n])
<1> DEFINE len == Len(pieces)
           base == Empty
           Then(f, n) == Receive(r, exact, f[n - 1], pieces[n])
           Loop(f, m) == [n \in 0..m |-> IF n = 0 THEN base ELSE Then(f, n)]
           S == {m \in Nat : \E f : f = Loop(f, m)}
<1>1. 0 \in S
  <2> DEFINE f == [n \in 0..0 |-> base]
  <2>1. f = Loop(f, 0) OBVIOUS
  <2> QED BY <2>1
<1>2. ASSUME NEW m \in Nat, m \in S PROVE m + 1 \in S
  <2>1. PICK f : f = Loop(f, m) BY <1>2
  <2> DEFINE g == [n \in 0..(m + 1) |-> IF n = m + 1 THEN Then(f, n) ELSE f[n]]
  <2>2. \A n \in 0..(m + 1) : g[n] = IF n = 0 THEN base ELSE Then(g, n)
    <3> TAKE n \in 0..(m + 1)
    <3>1. n # 0 => n - 1 \in 0..m /\ n - 1 \in 0..(m + 1) /\ n - 1 # m + 1 OBVIOUS
    <3>2. n # 0 => g[n - 1] = f[n - 1] BY <3>1
    <3>3. CASE n = m + 1
      <4>1. n # 0 BY <3>3
      <4>2. g[n] = Then(f, n) BY <3>3, Zenon
      <4> HIDE DEF g
      <4> QED BY <3>2, <4>1, <4>2
    <3>4. CASE n # m + 1
      <4>1. n \in 0..m BY <3>4
      <4>2. f[n] = IF n = 0 THEN base ELSE Then(f, n) BY <2>1, <4>1
      <4> QED BY <3>2, <3>4, <4>1, <4>2
    <3> QED BY <3>3, <3>4
  <2>3. g = Loop(g, m + 1)
    <3>1. \A n \in 0..(m + 1) : g[n] = Loop(g, m + 1)[n] BY <2>2
    <3> HIDE DEF g
    <3> QED BY <3>1 DEF g
  <2> HIDE DEF g, Loop
  <2>4. \E x : x = Loop(x, m + 1) BY <2>3
  <2> QED BY <2>4
<1>3. len \in S BY <1>1, <1>2, Induction
<1>4. \E f : f = Loop(f, len) BY <1>3
<1>5. Received(r, exact, pieces) = CHOOSE f : f = Loop(f, len)
  BY DEF Received
<1> HIDE DEF Loop
<1>6. Received(r, exact, pieces) = Loop(Received(r, exact, pieces), len) BY <1>4, <1>5
<1>7. Received(r, exact, pieces) =
        [n \in 0..len |-> IF n = 0 THEN base ELSE Then(Received(r, exact, pieces), n)]
  BY <1>6 DEF Loop
<1>8. 0 \in 0..len /\ \A n \in 1..len : n \in 0..len /\ n # 0 OBVIOUS
<1>9. Received(r, exact, pieces)[0] = base BY <1>7, <1>8, Zenon
<1>10. \A n \in 1..len : Received(r, exact, pieces)[n] = Then(Received(r, exact, pieces), n)
  BY <1>7, <1>8, Zenon
<1> QED BY <1>9, <1>10

\* A byte, where "d" is any that means nothing to the reader.
Byte == {"h", "1", "0", "CR", "LF", "d"}

\* Where the size lines begin: behind n chunks; their length and the line break after each of them.
Start(chunks) ==
  [n \in 0..Len(chunks) |-> Len(Joined([i \in DOMAIN chunks |-> Chunk(chunks[i])])[n])]
LineLength(chunks, n) == IF n < Len(chunks) THEN Len(chunks[n + 1]) ELSE 1
LineEnd(chunks, start, n) == start[n] + (LineLength(chunks, n) + 1)

\* The cells of a chunk in the coding, behind the first `at`.
ChunkLaid(coded, at, s) ==
  LET size == Len(s) IN
  /\ \A i \in 1..size : coded[at + i] = "1" /\ coded[at + (size + 2) + i] = s[i]
  /\ coded[at + (size + 1)] = "CR" /\ coded[at + (size + 2)] = "LF"
  /\ coded[at + (size + size + 3)] = "CR" /\ coded[at + (size + size + 4)] = "LF"

\* And those of all chunks and of the end.
ChunksLaid(coded, chunks, start) ==
  LET last == Len(chunks) IN
  /\ coded \in Seq(Byte) /\ Len(coded) = start[last] + 5
  /\ coded[start[last] + 1] = "0"
  /\ coded[start[last] + 2] = "CR" /\ coded[start[last] + 3] = "LF"
  /\ coded[start[last] + 4] = "CR" /\ coded[start[last] + 5] = "LF"
  /\ start[0] = 0
  /\ \A n \in 0..last : start[n] \in Nat /\ start[n] <= start[last]
  /\ \A n \in 1..last : /\ start[n] = start[n - 1] + Len(chunks[n]) + Len(chunks[n]) + 4
                        /\ ChunkLaid(coded, start[n - 1], chunks[n])

\* The cells of s, m of them, and behind them the n of t.
IsJoint(u, s, t, m, n) ==
  /\ Len(u) = m + n
  /\ \A i \in 1..m : u[i] = s[i]
  /\ \A i \in 1..n : u[m + i] = t[i]

\* Of a concatenation.
LEMMA Joint ==
  ASSUME NEW S, NEW s \in Seq(S), NEW t \in Seq(S), NEW m, NEW n, Len(s) = m, Len(t) = n
  PROVE  s \o t \in Seq(S) /\ IsJoint(s \o t, s, t, m, n)
BY DEF IsJoint

\* Of one chunk.
LEMMA ChunkCells ==
  ASSUME NEW s \in Seq(Byte)
  PROVE  /\ Chunk(s) \in Seq(Byte) /\ Len(Chunk(s)) = Len(s) + Len(s) + 4
         /\ \A i \in 1..Len(s) : Chunk(s)[i] = "1" /\ Chunk(s)[(Len(s) + 2) + i] = s[i]
         /\ Chunk(s)[Len(s) + 1] = "CR" /\ Chunk(s)[Len(s) + 2] = "LF"
         /\ Chunk(s)[Len(s) + Len(s) + 3] = "CR" /\ Chunk(s)[Len(s) + Len(s) + 4] = "LF"
<1> DEFINE m == Len(s)
           a == [i \in 1..m |-> "1"]
           b == <<"CR", "LF">>
           ab == a \o b
           abs == ab \o s
           absb == abs \o b
<1>1. m \in Nat /\ s \in Seq(Byte) /\ Len(s) = m OBVIOUS
<1>2. a \in Seq(Byte) /\ Len(a) = m /\ \A i \in 1..m : a[i] = "1"
  <2>1. a \in [1..m -> Byte] BY DEF Byte
  <2>2. a \in Seq(Byte) BY <1>1, <2>1
  <2> QED BY <1>1, <2>2
<1>3. b \in Seq(Byte) /\ Len(b) = 2 /\ b[1] = "CR" /\ b[2] = "LF" BY DEF Byte
<1>4. Chunk(s) = absb BY DEF Chunk
<1> HIDE DEF m, a, b
<1>5. /\ ab \in Seq(Byte) /\ Len(ab) = m + 2 /\ \A i \in 1..m : ab[i] = "1"
      /\ ab[m + 1] = "CR" /\ ab[m + 2] = "LF"
  <2>1. ab \in Seq(Byte) /\ IsJoint(ab, a, b, m, 2) BY <1>2, <1>3, Joint, Zenon
  <2> HIDE DEF ab
  <2> QED BY <1>1, <1>2, <1>3, <2>1 DEF IsJoint
<1> HIDE DEF ab
<1>6. /\ abs \in Seq(Byte) /\ Len(abs) = m + 2 + m /\ \A i \in 1..m : abs[i] = "1"
      /\ abs[m + 1] = "CR" /\ abs[m + 2] = "LF"
      /\ \A i \in 1..m : abs[(m + 2) + i] = s[i]
  <2>1. /\ abs \in Seq(Byte) /\ Len(abs) = m + 2 + m
        /\ \A i \in 1..(m + 2) : abs[i] = ab[i]
        /\ \A i \in 1..m : abs[(m + 2) + i] = s[i]
    <3>1. abs \in Seq(Byte) /\ IsJoint(abs, ab, s, m + 2, m) BY <1>1, <1>5, Joint, Zenon
    <3> QED BY <3>1 DEF IsJoint
  <2>2. m + 1 \in 1..(m + 2) /\ m + 2 \in 1..(m + 2) /\ \A i \in 1..m : i \in 1..(m + 2) BY <1>1
  <2> HIDE DEF abs
  <2> QED BY <1>5, <2>1, <2>2
<1> HIDE DEF abs
<1>7. /\ absb \in Seq(Byte) /\ Len(absb) = (m + 2 + m) + 2
      /\ \A i \in 1..(m + 2 + m) : absb[i] = abs[i]
      /\ \A i \in 1..2 : absb[(m + 2 + m) + i] = b[i]
  <2>1. absb \in Seq(Byte) /\ IsJoint(absb, abs, b, m + 2 + m, 2) BY <1>3, <1>6, Joint, Zenon
  <2> QED BY <2>1 DEF IsJoint
<1> HIDE DEF absb
<1>8. /\ m + 1 \in 1..(m + 2 + m) /\ m + 2 \in 1..(m + 2 + m)
      /\ \A i \in 1..m : i \in 1..(m + 2 + m) /\ (m + 2) + i \in 1..(m + 2 + m)
      /\ (m + 2 + m) + 1 = m + m + 3 /\ (m + 2 + m) + 2 = m + m + 4
      /\ 1 \in 1..2 /\ 2 \in 1..2
  BY <1>1
<1>9. absb[m + m + 3] = "CR" /\ absb[m + m + 4] = "LF" BY <1>3, <1>7, <1>8
<1>10. absb[m + 1] = "CR" /\ absb[m + 2] = "LF" BY <1>6, <1>7, <1>8
<1>11. \A i \in 1..m : absb[i] = "1" /\ absb[(m + 2) + i] = s[i] BY <1>6, <1>7, <1>8
<1> QED BY <1>4, <1>7, <1>8, <1>9, <1>10, <1>11 DEF m

\* Of one chunk inside the coding.
LEMMA ChunkInPlace ==
  ASSUME NEW s \in Seq(Byte), NEW coded, NEW at \in Nat, At(coded, at, Chunk(s))
  PROVE  ChunkLaid(coded, at, s)
<1>1. PICK e, size : e = Chunk(s) /\ size = Len(s) OBVIOUS
<1>2. size \in Nat
  <2>1. Len(s) \in Nat OBVIOUS
  <2> QED BY <1>1, <2>1
<1>3. /\ Len(e) = size + size + 4
      /\ \A i \in 1..size : e[i] = "1" /\ e[(size + 2) + i] = s[i]
      /\ e[size + 1] = "CR" /\ e[size + 2] = "LF"
      /\ e[size + size + 3] = "CR" /\ e[size + size + 4] = "LF"
  BY <1>1, ChunkCells, Zenon
<1>4. \A i \in 1..(size + size + 4) : coded[at + i] = e[i] BY <1>1, <1>3 DEF At
<1>5. \A i \in 1..size : coded[at + i] = "1" /\ coded[at + (size + 2) + i] = s[i]
  <2> TAKE i \in 1..size
  <2>1. /\ i \in 1..(size + size + 4) /\ (size + 2) + i \in 1..(size + size + 4)
        /\ at + (size + 2) + i = at + ((size + 2) + i)
    BY <1>2
  <2> QED BY <1>3, <1>4, <2>1
<1>6. /\ size + 1 \in 1..(size + size + 4) /\ size + 2 \in 1..(size + size + 4)
      /\ size + size + 3 \in 1..(size + size + 4) /\ size + size + 4 \in 1..(size + size + 4)
  BY <1>2
<1> QED BY <1>1, <1>3, <1>4, <1>5, <1>6 DEF ChunkLaid

\* The coding of any chunks is laid out like that.
LEMMA CodedIsLaid ==
  ASSUME NEW chunks \in Seq(Seq(Byte))
  PROVE  ChunksLaid(Coded(chunks), chunks, Start(chunks))
<1> DEFINE last == Len(chunks)
           entry == [i \in DOMAIN chunks |-> Chunk(chunks[i])]
           cells == Joined(entry)
           tail == <<"0", "CR", "LF", "CR", "LF">>
           coded == cells[last] \o tail
           start == [n \in 0..last |-> Len(cells[n])]
<1>1. last \in Nat /\ DOMAIN chunks = 1..last /\ \A n \in 1..last : chunks[n] \in Seq(Byte)
  OBVIOUS
<1>2. \A n \in 1..last : entry[n] = Chunk(chunks[n]) /\ entry[n] \in Seq(Byte)
  BY <1>1, ChunkCells
<1>3. entry \in Seq(Seq(Byte)) /\ Len(entry) = last
  <2>1. entry \in [1..last -> Seq(Byte)] BY <1>1, <1>2
  <2>2. entry \in Seq(Seq(Byte)) BY <1>1, <2>1
  <2> QED BY <1>1, <2>1, <2>2
<1>4. cells[0] = <<>> /\ \A n \in 1..last : cells[n] = cells[n - 1] \o entry[n]
  <2> HIDE DEF entry
  <2>1. /\ cells[0] = <<>>
        /\ \A n \in 1..Len(entry) : cells[n] = cells[n - 1] \o entry[n]
    BY <1>1, <1>3, OneByOne
  <2> QED BY <1>3, <2>1
<1>5. Coded(chunks) = coded /\ Start(chunks) = start BY <1>3 DEF Coded, All, Start
<1> HIDE DEF last, entry, cells
<1>6. tail \in Seq(Byte) /\ Len(tail) = 5 BY DEF Byte
<1>7. cells[last] \in Seq(Byte) /\ Len(cells[last]) \in Nat
  <2>1. <<>> \in Seq(Byte) /\ 0 \in Nat OBVIOUS
  <2>2. \A n \in 0..last : cells[n] \in Seq(Byte)
    BY <1>1, <1>2, <1>4, <2>1, InPlace
  <2>3. cells[last] \in Seq(Byte) BY <1>1, <2>2
  <2> QED BY <2>3
<1>8. /\ coded \in Seq(Byte) /\ Len(coded) = Len(cells[last]) + 5
      /\ \A i \in 1..5 : coded[Len(cells[last]) + i] = tail[i]
      /\ At(coded, 0, cells[last])
  <2>1. /\ coded \in Seq(Byte) /\ Len(coded) = Len(cells[last]) + 5
        /\ \A i \in 1..Len(cells[last]) : coded[i] = cells[last][i]
        /\ \A i \in 1..5 : coded[Len(cells[last]) + i] = tail[i]
    BY <1>6, <1>7
  <2> HIDE DEF coded
  <2>2. \A i \in 1..Len(cells[last]) : coded[0 + i] = cells[last][i]
    <3> TAKE i \in 1..Len(cells[last])
    <3>1. 0 + i = i BY <1>7
    <3> QED BY <2>1, <3>1
  <2>3. 0 + Len(cells[last]) <= Len(coded) BY <1>7, <2>1
  <2> QED BY <2>1, <2>2, <2>3 DEF At
<1> HIDE DEF coded
<1>9. /\ \A n \in 0..last : cells[n] \in Seq(Byte)
      /\ \A n \in 1..last : Len(cells[n]) = Len(cells[n - 1]) + Len(entry[n])
      /\ \A n \in 0..last : Len(cells[n]) <= Len(cells[last])
      /\ \A n \in 1..last : At(coded, 0 + Len(cells[n - 1]), entry[n])
  <2>1. 0 \in Nat /\ \A n \in 1..last : entry[n] \in Seq(Byte) /\ cells[n] = cells[n - 1] \o entry[n]
    BY <1>2, <1>4
  <2>2. coded \in Seq(Byte) /\ At(coded, 0, cells[last]) BY <1>8
  <2>3. last \in Nat /\ cells[0] = <<>> BY <1>1, <1>4
  <2>4. /\ \A n \in 0..last : cells[n] \in Seq(Byte)
        /\ \A n \in 1..last : Len(cells[n]) = Len(cells[n - 1]) + Len(entry[n])
        /\ \A n \in 0..last : Len(cells[n]) <= Len(cells[last])
        /\ At(coded, 0, cells[last]) =>
             \A n \in 1..last : At(coded, 0 + Len(cells[n - 1]), entry[n])
    BY <2>1, <2>2, <2>3, InPlace, Zenon
  <2> QED BY <2>2, <2>4
<1>10. /\ last \in 0..last /\ 0 \in 0..last
       /\ \A n \in 1..last : n - 1 \in 0..last /\ n \in 0..last
  BY <1>1
<1>11. \A n \in 0..last : start[n] = Len(cells[n]) /\ start[n] \in Nat /\ start[n] <= start[last]
  BY <1>9, <1>10
<1>12. start[0] = 0 BY <1>4, <1>10
<1>13. /\ coded \in Seq(Byte) /\ Len(coded) = start[last] + 5
       /\ coded[start[last] + 1] = "0"
       /\ coded[start[last] + 2] = "CR" /\ coded[start[last] + 3] = "LF"
       /\ coded[start[last] + 4] = "CR" /\ coded[start[last] + 5] = "LF"
  BY <1>8, <1>10, <1>11
<1> HIDE DEF start
<1>14. ASSUME NEW n \in 1..last
       PROVE  /\ start[n] = start[n - 1] + Len(chunks[n]) + Len(chunks[n]) + 4
              /\ ChunkLaid(coded, start[n - 1], chunks[n])
  <2>1. PICK s, at : s = chunks[n] /\ at = start[n - 1] OBVIOUS
  <2>2. s \in Seq(Byte) /\ Len(s) \in Nat
    <3>1. s \in Seq(Byte) BY <1>1, <2>1
    <3> QED BY <3>1
  <2>3. at = Len(cells[n - 1]) /\ at \in Nat /\ start[n] = Len(cells[n])
    BY <1>10, <1>11, <2>1
  <2>4. entry[n] = Chunk(s) BY <1>2, <2>1
  <2>5. Len(entry[n]) = Len(s) + Len(s) + 4 BY <2>2, <2>4, ChunkCells
  <2>6. start[n] = at + (Len(s) + Len(s) + 4) BY <1>9, <2>3, <2>5
  <2>7. start[n] = at + Len(s) + Len(s) + 4
    <3>1. PICK k : k = Len(s) OBVIOUS
    <3>2. k \in Nat BY <2>2, <3>1
    <3>3. at \in Nat BY <2>3
    <3>4. at + (k + k + 4) = at + k + k + 4 BY <3>2, <3>3
    <3> QED BY <2>6, <3>1, <3>4
  <2>8. At(coded, at, Chunk(s))
    <3>1. 0 + at = at BY <2>3
    <3> QED BY <1>9, <2>3, <2>4, <3>1
  <2>9. ChunkLaid(coded, at, s) BY <2>2, <2>3, <2>8, ChunkInPlace
  <2> QED BY <2>1, <2>7, <2>9
<1>15. ChunksLaid(coded, chunks, start)
  BY <1>11, <1>12, <1>13, <1>14 DEF ChunksLaid, last
<1> QED BY <1>5, <1>15

\* The cells of s behind the first i, up to the j-th.
Cut(s, i, j) == SubSeq(s, i + 1, j)
IsCut(c, s, i, j) == Len(c) = j - i /\ \A x \in 1..(j - i) : c[x] = s[i + x]

\* A cut has the cells it should.
LEMMA CutCells ==
  ASSUME NEW S, NEW s \in Seq(S), NEW i \in Nat, NEW j \in Nat, i <= j, j <= Len(s)
  PROVE  Cut(s, i, j) \in Seq(S) /\ IsCut(Cut(s, i, j), s, i, j)
<1>1. i + 1 \in Int /\ j \in Int /\ \A x \in (i + 1)..j : x \in 1..Len(s) OBVIOUS
<1>2. \A x \in (i + 1)..j : s[x] \in S BY <1>1
<1>3. PICK a : a = i + 1 OBVIOUS
<1>4. /\ SubSeq(s, a, j) \in Seq(S)
      /\ Len(SubSeq(s, a, j)) = IF a <= j THEN j - a + 1 ELSE 0
      /\ \A x \in 1..(j - a + 1) : SubSeq(s, a, j)[x] = s[a + x - 1]
  <2>1. a \in Int /\ j \in Int /\ \A x \in a..j : s[x] \in S BY <1>1, <1>2, <1>3
  <2> QED BY <2>1, SubSeqProperties
<1>5. Cut(s, i, j) = SubSeq(s, a, j) BY <1>3 DEF Cut
<1>6. j - a + 1 = j - i /\ (a <= j \/ j - i = 0) /\ \A x \in 1..(j - i) : a + x - 1 = i + x
  BY <1>3
<1> QED BY <1>4, <1>5, <1>6 DEF IsCut

LEMMA SameCells ==
  ASSUME NEW S, NEW s \in Seq(S), NEW t \in Seq(S), Len(s) = Len(t),
         \A i \in 1..Len(s) : s[i] = t[i]
  PROVE  s = t
BY SeqEqual

\* A cut of a cut is a cut.
LEMMA CutOfCut ==
  ASSUME NEW S, NEW s \in Seq(S), NEW i \in Nat, NEW j \in Nat, i <= j, j <= Len(s),
         NEW a \in Nat, NEW b \in Nat, a <= b, b <= j - i
  PROVE  Cut(Cut(s, i, j), a, b) = Cut(s, i + a, i + b)
<1>1. PICK c : c = Cut(s, i, j) OBVIOUS
<1>2. c \in Seq(S) /\ Len(c) = j - i /\ \A x \in 1..(j - i) : c[x] = s[i + x]
  BY <1>1, CutCells DEF IsCut
<1>3. PICK d, e : d = Cut(c, a, b) /\ e = Cut(s, i + a, i + b) OBVIOUS
<1>4. d \in Seq(S) /\ Len(d) = b - a /\ \A x \in 1..(b - a) : d[x] = c[a + x]
  <2>1. b <= Len(c) BY <1>2
  <2>2. d \in Seq(S) /\ IsCut(d, c, a, b) BY <1>2, <1>3, <2>1, CutCells, Zenon
  <2> QED BY <2>2 DEF IsCut
<1>5. e \in Seq(S) /\ Len(e) = b - a /\ \A x \in 1..(b - a) : e[x] = s[i + a + x]
  <2>1. PICK p, q : p = i + a /\ q = i + b OBVIOUS
  <2>2. p \in Nat /\ q \in Nat /\ p <= q /\ q <= Len(s) /\ q - p = b - a BY <2>1
  <2>3. e \in Seq(S) /\ IsCut(e, s, p, q) BY <1>3, <2>1, <2>2, CutCells, Zenon
  <2> QED BY <2>1, <2>2, <2>3 DEF IsCut
<1>6. \A x \in 1..(b - a) : d[x] = e[x]
  <2> TAKE x \in 1..(b - a)
  <2>1. a + x \in 1..(j - i) /\ i + (a + x) = i + a + x OBVIOUS
  <2> QED BY <1>2, <1>4, <1>5, <2>1
<1>7. d = e BY <1>4, <1>5, <1>6, SameCells
<1> QED BY <1>1, <1>3, <1>7

\* Two adjacent cuts make one.
LEMMA CutsJoin ==
  ASSUME NEW S, NEW s \in Seq(S), NEW i \in Nat, NEW j \in Nat, NEW k \in Nat,
         i <= j, j <= k, k <= Len(s)
  PROVE  Cut(s, i, j) \o Cut(s, j, k) = Cut(s, i, k)
<1>1. /\ i + 1 \in 1..(Len(s) + 1) /\ j \in (i + 1 - 1)..Len(s) /\ k \in j..Len(s)
  OBVIOUS
<1>2. PICK a : a = i + 1 OBVIOUS
<1>3. SubSeq(s, a, j) \o SubSeq(s, j + 1, k) = SubSeq(s, a, k)
  <2>1. a \in 1..(Len(s) + 1) /\ j \in (a - 1)..Len(s) /\ k \in j..Len(s) BY <1>1, <1>2
  <2> QED BY <2>1, ConcatAdjacentSubSeq
<1> QED BY <1>2, <1>3 DEF Cut

\* The ends of cuts.
LEMMA CutWhole ==
  ASSUME NEW S, NEW s \in Seq(S)
  PROVE  Cut(s, 0, Len(s)) = s
<1>1. 0 + 1 = 1 OBVIOUS
<1>2. SubSeq(s, 1, Len(s)) = s BY SubSeqFull
<1> QED BY <1>1, <1>2 DEF Cut

LEMMA CutNothing ==
  ASSUME NEW S, NEW s \in Seq(S), NEW i \in Nat, i <= Len(s)
  PROVE  Cut(s, i, i) = <<>>
<1>1. i + 1 \in Int /\ i \in Int /\ i < i + 1 OBVIOUS
<1>2. SubSeq(s, i + 1, i) = <<>> BY <1>1, SubSeqEmpty
<1> QED BY <1>2 DEF Cut

\* The least of some numbers, and how many there are.
LEMMA MinIsLeast ==
  ASSUME NEW T \in SUBSET Nat, NEW x \in T, \A y \in T : x <= y
  PROVE  Min(T) = x
<1>1. \A z \in T : (\A y \in T : z <= y) => z = x
  <2> TAKE z \in T
  <2> HAVE \A y \in T : z <= y
  <2>1. z <= x /\ x <= z /\ x \in Nat /\ z \in Nat OBVIOUS
  <2> QED BY <2>1
<1>2. Min(T) = CHOOSE z \in T : \A y \in T : z <= y BY DEF Min
<1> QED BY <1>1, <1>2

LEMMA CountOfNone == Cardinality({}) = 0
BY FS_EmptySet

LEMMA CountToNumber == ASSUME NEW n \in Nat PROVE Cardinality(1..n) = n
<1>1. 1 \in Int /\ n \in Int /\ (1 > n => n = 0) /\ n - 1 + 1 = n OBVIOUS
<1>2. Cardinality(1..n) = IF 1 > n THEN 0 ELSE n - 1 + 1 BY <1>1, FS_Interval
<1> QED BY <1>1, <1>2

\* A size line behind the first p cells: marks that say the size, and a line break.
SizeLine(coded, p, length, mark) ==
  /\ \A i \in 1..length : coded[p + i] = mark
  /\ coded[p + (length + 1)] = "CR"

\* What the reader makes of one when k cells have come.
LineRead(r, s, coded, p, k, length, mark) ==
  /\ k < p + (length + 1) => r = [s EXCEPT !.go = FALSE]
  /\ k = p + (length + 1) => r = [s EXCEPT !.go = FALSE, !.end = "throws"]
  /\ k > p + (length + 1) =>
       r = IF mark = "0"
             THEN [s EXCEPT !.go = FALSE, !.size = -1, !.body = Cut(coded, p + (length + 2), k)]
             ELSE [s EXCEPT !.size = length, !.body = Cut(coded, p + (length + 2), k)]

\* That is what WorkOnLine does.
LEMMA LineRound ==
  ASSUME NEW coded \in Seq(Byte), NEW p \in Nat, NEW k \in Nat, NEW length \in Nat \ {0},
         NEW mark \in {"1", "0"}, NEW s,
         p <= k, k <= Len(coded), SizeLine(coded, p, length, mark), s.body = Cut(coded, p, k)
  PROVE  LineRead(WorkOnLine(s), s, coded, p, k, length, mark)
<1>1. PICK body, size, e : body = s.body /\ size = k - p /\ e = length + 1 OBVIOUS
<1>2. /\ size \in Nat /\ e \in Nat /\ e > 1 /\ length = e - 1
      /\ (k < p + e <=> size < e) /\ (k = p + e <=> size = e) /\ (k > p + e <=> size > e)
  BY <1>1
<1>3. body \in Seq(Byte) /\ Len(body) = size /\ \A i \in 1..size : body[i] = coded[p + i]
  <2>1. Cut(coded, p, k) \in Seq(Byte) /\ IsCut(Cut(coded, p, k), coded, p, k)
    BY CutCells
  <2> QED BY <1>1, <2>1 DEF IsCut
<1>4. Ends(body) = {i \in 1..size : body[i] \in Breaks}
  <2>1. DOMAIN body = 1..size BY <1>3
  <2> QED BY <2>1 DEF Ends
<1>5. \A i \in 1..size : i < e => body[i] = mark /\ i \notin Ends(body)
  <2> TAKE i \in 1..size
  <2> HAVE i < e
  <2>1. i \in 1..length BY <1>2
  <2>2. body[i] = mark BY <1>3, <2>1 DEF SizeLine
  <2> QED BY <1>4, <2>2 DEF Breaks
<1>6. CASE size < e
  <2>1. Ends(body) = {} BY <1>2, <1>4, <1>5, <1>6
  <2>2. WorkOnLine(s) = [s EXCEPT !.go = FALSE] BY <1>1, <2>1 DEF WorkOnLine
  <2> QED BY <1>1, <1>2, <1>6, <2>2 DEF LineRead
<1>7. CASE size >= e
  <2>1. e \in 1..size BY <1>2, <1>7
  <2>2. body[e] = "CR" BY <1>1, <1>3, <2>1 DEF SizeLine
  <2>3. e \in Ends(body) /\ \A y \in Ends(body) : e <= y
    <3>1. e \in Ends(body) BY <1>4, <2>1, <2>2 DEF Breaks
    <3>2. \A y \in Ends(body) : y \in 1..size /\ ~(y < e) BY <1>4, <1>5
    <3> QED BY <1>2, <3>1, <3>2
  <2>4. Ends(body) \in SUBSET Nat BY <1>4
  <2>5. Min(Ends(body)) = e BY <2>3, <2>4, MinIsLeast
  <2>6. Ends(body) # {} BY <2>3
  <2>7. CASE size = e
    <3>1. WorkOnLine(s) = [s EXCEPT !.go = FALSE, !.end = "throws"]
      BY <1>1, <1>3, <2>5, <2>6, <2>7 DEF WorkOnLine
    <3> QED BY <1>1, <1>2, <2>7, <3>1 DEF LineRead
  <2>8. CASE size # e
    <3>1. size > e /\ ~(e = Len(body) \/ e = 1) BY <1>2, <1>3, <1>7, <2>8
    <3>2. WorkOnLine(s) =
            IF FirstSize(body) = 0
              THEN [s EXCEPT !.go = FALSE, !.size = -1, !.body = From(body, e + 2)]
              ELSE [s EXCEPT !.size = FirstSize(body), !.body = From(body, e + 2)]
      BY <1>1, <2>5, <2>6, <3>1 DEF WorkOnLine
    <3>3. FirstSize(body) = IF mark = "0" THEN 0 ELSE length
      <4>1. FirstSize(body) = Cardinality({i \in 1..length : body[i] = "1"})
        BY <1>2, <2>5 DEF FirstSize
      <4>2. \A i \in 1..length : body[i] = mark
        <5> TAKE i \in 1..length
        <5>1. i \in 1..size /\ i < e BY <1>2, <1>7
        <5> QED BY <1>5, <5>1
      <4>3. CASE mark = "0"
        <5>1. {i \in 1..length : body[i] = "1"} = {} BY <4>2, <4>3
        <5> QED BY <4>1, <4>3, <5>1, CountOfNone
      <4>4. CASE mark = "1"
        <5>1. {i \in 1..length : body[i] = "1"} = 1..length BY <4>2, <4>4
        <5> QED BY <4>1, <4>4, <5>1, CountToNumber
      <4> QED BY <4>3, <4>4
    <3>4. From(body, e + 2) = Cut(coded, p + (length + 2), k)
      <4>1. PICK a : a = e + 1 OBVIOUS
      <4>2. a \in Nat /\ size \in Nat /\ a <= size /\ size <= k - p BY <1>1, <1>2, <3>1, <4>1
      <4>3. Cut(Cut(coded, p, k), a, size) = Cut(coded, p + a, p + size)
        BY <4>2, CutOfCut
      <4>4. p + size = k /\ p + a = p + (length + 2) /\ e + 2 = a + 1 BY <1>1, <1>2, <4>1
      <4>5. From(body, e + 2) = Cut(body, a, size) BY <1>3, <4>4 DEF From, Cut
      <4> QED BY <1>1, <4>3, <4>4, <4>5
    <3>5. length # 0 OBVIOUS
    <3>6. ~(k < p + (length + 1)) /\ k # p + (length + 1) BY <1>1, <1>2, <3>1
    <3>7. CASE mark = "0"
      <4>1. FirstSize(body) = 0 BY <3>3, <3>7
      <4>2. WorkOnLine(s) =
              [s EXCEPT !.go = FALSE, !.size = -1, !.body = Cut(coded, p + (length + 2), k)]
        BY <3>2, <3>4, <4>1
      <4> QED BY <3>6, <3>7, <4>2 DEF LineRead
    <3>8. CASE mark # "0"
      <4>1. FirstSize(body) = length BY <3>3, <3>8
      <4>2. WorkOnLine(s) = [s EXCEPT !.size = length, !.body = Cut(coded, p + (length + 2), k)]
        BY <3>2, <3>4, <3>5, <4>1
      <4> QED BY <3>6, <3>8, <4>2 DEF LineRead
    <3> QED BY <3>7, <3>8
  <2> QED BY <2>7, <2>8
<1> QED BY <1>2, <1>6, <1>7

Coding(coded, chunks, start) ==
  /\ ChunksLaid(coded, chunks, start)
  /\ chunks \in Seq(Seq(Byte)) /\ \A n \in 1..Len(chunks) : chunks[n] # <<>>

HttpState ==
  [received : Seq(Byte), body : Seq(Byte), chunks : Seq(Byte), size : Int, go : BOOLEAN,
   end : {"more", "done", "throws"}]

\* The last of the cells in front of the data of the n-th chunk.
DataAt(chunks, start, n) == start[n - 1] + (Len(chunks[n]) + 2)

\* Of k cells the reader has used those of n chunks; or of n - 1 and a size line.
Between(q, coded, chunks, start, n, k) ==
  /\ n \in 0..Len(chunks) /\ start[n] <= k
  /\ q.size = 0 /\ q.body = Cut(coded, start[n], k) /\ q.chunks = Joined(chunks)[n]
InChunk(q, coded, chunks, start, n, k) ==
  /\ n \in 1..Len(chunks) /\ DataAt(chunks, start, n) <= k
  /\ q.size = Len(chunks[n]) /\ q.body = Cut(coded, DataAt(chunks, start, n), k)
  /\ q.chunks = Joined(chunks)[n - 1]

\* The rounds of WorkOnBody go on; or have ended as there is too little, in the middle
\* of a line break, or with the whole body.
Moving(q, coded, chunks, start, k) ==
  /\ q.go /\ q.end = "more"
  /\ \E n \in 0..Len(chunks) :
       Between(q, coded, chunks, start, n, k) \/ InChunk(q, coded, chunks, start, n, k)
Short(q, coded, chunks, start, k) ==
  /\ ~q.go /\ q.end = "more"
  /\ \E n \in 0..Len(chunks) :
       \/ Between(q, coded, chunks, start, n, k) /\ k < LineEnd(chunks, start, n)
       \/ InChunk(q, coded, chunks, start, n, k) /\ k < start[n]
Torn(q, chunks, start, k) ==
  /\ ~q.go /\ q.end = "throws" /\ q.size = 0
  /\ \E n \in 0..Len(chunks) : k = LineEnd(chunks, start, n)
Over(q, chunks, start, k) ==
  /\ ~q.go /\ q.end = "more" /\ q.size = -1
  /\ q.chunks = Joined(chunks)[Len(chunks)] /\ k >= start[Len(chunks)] + 3
Settled(q, coded, chunks, start, k) ==
  Short(q, coded, chunks, start, k) \/ Torn(q, chunks, start, k) \/ Over(q, chunks, start, k)

\* Facts about the places.
LEMMA Places ==
  ASSUME NEW coded, NEW chunks, NEW start, Coding(coded, chunks, start)
  PROVE  /\ Len(chunks) \in Nat /\ coded \in Seq(Byte)
         /\ Len(coded) \in Nat /\ Len(coded) = start[Len(chunks)] + 5
         /\ \A n \in 0..Len(chunks) : start[n] \in Nat /\ start[n] <= start[Len(chunks)]
         /\ \A n \in 1..Len(chunks) :
              /\ chunks[n] \in Seq(Byte) /\ Len(chunks[n]) \in Nat \ {0}
              /\ start[n] = start[n - 1] + Len(chunks[n]) + Len(chunks[n]) + 4
<1>1. Len(chunks) \in Nat /\ \A n \in 1..Len(chunks) : chunks[n] \in Seq(Byte) BY DEF Coding
<1>2. ASSUME NEW n \in 1..Len(chunks) PROVE Len(chunks[n]) \in Nat \ {0}
  <2>1. chunks[n] \in Seq(Byte) /\ chunks[n] # <<>> BY <1>1 DEF Coding
  <2> QED BY <2>1
<1>3. /\ coded \in Seq(Byte) /\ Len(coded) = start[Len(chunks)] + 5
      /\ \A n \in 0..Len(chunks) : start[n] \in Nat /\ start[n] <= start[Len(chunks)]
      /\ \A n \in 1..Len(chunks) :
           start[n] = start[n - 1] + Len(chunks[n]) + Len(chunks[n]) + 4
  BY DEF Coding, ChunksLaid
<1>4. Len(coded) \in Nat BY <1>3
<1> QED BY <1>1, <1>2, <1>3, <1>4

\* Every size line, that of the end included.
LEMMA LineLaid ==
  ASSUME NEW coded, NEW chunks, NEW start, Coding(coded, chunks, start),
         NEW n \in 0..Len(chunks), NEW length, length = LineLength(chunks, n)
  PROVE  /\ length \in Nat \ {0}
         /\ SizeLine(coded, start[n], length, IF n < Len(chunks) THEN "1" ELSE "0")
         /\ LineEnd(chunks, start, n) = start[n] + (length + 1)
         /\ LineEnd(chunks, start, n) \in Nat
         /\ LineEnd(chunks, start, n) <= start[Len(chunks)] + 2
         /\ n < Len(chunks) => /\ length = Len(chunks[n + 1])
                               /\ DataAt(chunks, start, n + 1) = start[n] + (length + 2)
                               /\ start[n + 1] = start[n] + length + length + 4
<1>1. LineEnd(chunks, start, n) = start[n] + (length + 1) BY DEF LineEnd
<1>2. Len(chunks) \in Nat /\ start[n] \in Nat /\ start[Len(chunks)] \in Nat
  BY Places
<1>3. CASE n < Len(chunks)
  <2>1. PICK m : m = n + 1 OBVIOUS
  <2>2. m \in 1..Len(chunks) /\ m - 1 = n /\ m \in 0..Len(chunks) BY <1>2, <1>3, <2>1
  <2>3. length = Len(chunks[m]) BY <1>3, <2>1 DEF LineLength
  <2>4. /\ length \in Nat \ {0} /\ start[m] \in Nat /\ start[m] <= start[Len(chunks)]
        /\ start[m] = start[n] + length + length + 4
    BY <2>2, <2>3, Places
  <2>5. ChunkLaid(coded, start[n], chunks[m]) BY <2>2 DEF Coding, ChunksLaid
  <2>6. SizeLine(coded, start[n], length, "1") BY <2>3, <2>5 DEF ChunkLaid, SizeLine
  <2>7. start[n] + (length + 1) \in Nat /\ start[n] + (length + 1) <= start[Len(chunks)] + 2
    <3>1. PICK a, b, c : a = start[n] /\ b = start[Len(chunks)] /\ c = start[m] OBVIOUS
    <3>2. a \in Nat /\ b \in Nat /\ c \in Nat /\ c <= b /\ c = a + length + length + 4
      BY <1>2, <2>4, <3>1
    <3>3. length \in Nat \ {0} BY <2>4
    <3>4. a + (length + 1) \in Nat /\ a + (length + 1) <= b + 2 BY <3>2, <3>3
    <3> QED BY <3>1, <3>4
  <2>8. DataAt(chunks, start, m) = start[n] + (length + 2) BY <2>2, <2>3 DEF DataAt
  <2> QED BY <1>1, <1>3, <2>1, <2>3, <2>4, <2>6, <2>7, <2>8
<1>4. CASE ~(n < Len(chunks))
  <2>1. n = Len(chunks) BY <1>2, <1>4
  <2>2. length = 1 BY <1>4 DEF LineLength
  <2>3. coded[start[n] + 1] = "0" /\ coded[start[n] + 2] = "CR"
    BY <2>1 DEF Coding, ChunksLaid
  <2>4. 1 + 1 = 2 /\ \A i \in 1..1 : i = 1 OBVIOUS
  <2>5. SizeLine(coded, start[n], length, "0") BY <2>2, <2>3, <2>4 DEF SizeLine
  <2>6. start[n] + (length + 1) \in Nat /\ start[n] + (length + 1) <= start[Len(chunks)] + 2
    BY <1>2, <2>1, <2>2
  <2> QED BY <1>1, <1>4, <2>2, <2>5, <2>6
<1> QED BY <1>3, <1>4

\* The body without the coding, chunk by chunk.
LEMMA BodyByChunk ==
  ASSUME NEW chunks \in Seq(Seq(Byte))
  PROVE  /\ Joined(chunks)[0] = <<>>
         /\ \A n \in 0..Len(chunks) : Joined(chunks)[n] \in Seq(Byte)
         /\ \A n \in 1..Len(chunks) : Joined(chunks)[n] = Joined(chunks)[n - 1] \o chunks[n]
<1>1. Len(chunks) \in Nat /\ \A n \in 1..Len(chunks) : chunks[n] \in Seq(Byte) OBVIOUS
<1>2. PICK j : j = Joined(chunks) OBVIOUS
<1>3. j[0] = <<>> /\ \A n \in 1..Len(chunks) : j[n] = j[n - 1] \o chunks[n]
  BY <1>1, <1>2, OneByOne
<1>4. 0 \in Nat /\ <<>> \in Seq(Byte) OBVIOUS
<1>5. \A n \in 0..Len(chunks) : j[n] \in Seq(Byte)
  BY <1>1, <1>3, <1>4, InPlace
<1> QED BY <1>2, <1>3, <1>5

\* WorkOnBody in a size line.
LEMMA RoundOfLine ==
  ASSUME NEW coded, NEW chunks, NEW start, Coding(coded, chunks, start),
         NEW k \in Nat, k <= Len(coded), NEW n, NEW q \in HttpState, q.go, q.end = "more",
         Between(q, coded, chunks, start, n, k), NEW r, r = WorkOnBody(q)
  PROVE  /\ r \in HttpState /\ r.received = q.received
         /\ \/ Moving(r, coded, chunks, start, k) /\ Len(r.body) < Len(q.body)
            \/ Settled(r, coded, chunks, start, k)
<1>1. /\ n \in 0..Len(chunks) /\ start[n] <= k /\ q.size = 0
      /\ q.body = Cut(coded, start[n], k) /\ q.chunks = Joined(chunks)[n]
  BY DEF Between
<1>2. PICK p, length, mark :
        /\ p = start[n] /\ length = LineLength(chunks, n)
        /\ mark = IF n < Len(chunks) THEN "1" ELSE "0"
  OBVIOUS
<1>3. coded \in Seq(Byte) /\ p \in Nat /\ Len(chunks) \in Nat /\ start[Len(chunks)] \in Nat
  BY <1>1, <1>2, Places
<1>4. /\ length \in Nat \ {0} /\ SizeLine(coded, p, length, mark)
      /\ LineEnd(chunks, start, n) = p + (length + 1)
      /\ n < Len(chunks) => /\ length = Len(chunks[n + 1])
                            /\ DataAt(chunks, start, n + 1) = p + (length + 2)
  BY <1>1, <1>2, LineLaid
<1>5. mark \in {"1", "0"} BY <1>2
<1>6. r = WorkOnLine(q) BY <1>1 DEF WorkOnBody
<1>7. /\ k < p + (length + 1) => r = [q EXCEPT !.go = FALSE]
      /\ k = p + (length + 1) => r = [q EXCEPT !.go = FALSE, !.end = "throws"]
      /\ k > p + (length + 1) =>
           r = IF mark = "0"
                 THEN [q EXCEPT !.go = FALSE, !.size = -1, !.body = Cut(coded, p + (length + 2), k)]
                 ELSE [q EXCEPT !.size = length, !.body = Cut(coded, p + (length + 2), k)]
  <2>1. p <= k /\ q.body = Cut(coded, p, k) BY <1>1, <1>2
  <2>2. k <= Len(coded) /\ SizeLine(coded, p, length, mark) /\ length \in Nat \ {0} BY <1>4
  <2>3. LineRead(WorkOnLine(q), q, coded, p, k, length, mark)
    BY <1>3, <1>5, <2>1, <2>2, LineRound
  <2> QED BY <1>6, <2>3 DEF LineRead
<1>8. CASE k < p + (length + 1)
  <2>1. r \in HttpState /\ r.received = q.received BY <1>7, <1>8 DEF HttpState
  <2>2. ~r.go /\ r.end = "more" /\ r.size = q.size /\ r.body = q.body /\ r.chunks = q.chunks
    BY <1>7, <1>8 DEF HttpState
  <2>3. Between(r, coded, chunks, start, n, k) BY <2>2 DEF Between
  <2>4. Short(r, coded, chunks, start, k) BY <1>1, <1>4, <1>8, <2>2, <2>3 DEF Short
  <2> QED BY <2>1, <2>4 DEF Settled
<1>9. CASE k = p + (length + 1)
  <2>1. r \in HttpState /\ r.received = q.received BY <1>7, <1>9 DEF HttpState
  <2>2. ~r.go /\ r.end = "throws" /\ r.size = 0 BY <1>1, <1>7, <1>9 DEF HttpState
  <2>3. Torn(r, chunks, start, k) BY <1>1, <1>4, <1>9, <2>2 DEF Torn
  <2> QED BY <2>1, <2>3 DEF Settled
<1>10. CASE k > p + (length + 1)
  <2>1. PICK at : at = p + (length + 2) OBVIOUS
  <2>2. at \in Nat /\ at <= k /\ k - at < k - p /\ k - at \in Nat
    BY <1>3, <1>4, <1>10, <2>1
  <2>3. Cut(coded, at, k) \in Seq(Byte) /\ Len(Cut(coded, at, k)) = k - at
    <3>1. Cut(coded, at, k) \in Seq(Byte) /\ IsCut(Cut(coded, at, k), coded, at, k)
      BY <1>3, <2>2, CutCells
    <3> QED BY <3>1 DEF IsCut
  <2>4. Len(q.body) = k - p
    <3>1. IsCut(Cut(coded, p, k), coded, p, k) BY <1>1, <1>2, <1>3, CutCells
    <3> QED BY <1>1, <1>2, <3>1 DEF IsCut
  <2>5. CASE n < Len(chunks)
    <3>1. r = [q EXCEPT !.size = length, !.body = Cut(coded, at, k)]
      BY <1>2, <1>7, <1>10, <2>1, <2>5
    <3>2. length \in Int BY <1>4
    <3>3. r \in HttpState /\ r.received = q.received BY <2>3, <3>1, <3>2 DEF HttpState
    <3>4. /\ r.go /\ r.end = "more" /\ r.size = length /\ r.body = Cut(coded, at, k)
          /\ r.chunks = q.chunks
      BY <3>1 DEF HttpState
    <3>5. PICK m : m = n + 1 OBVIOUS
    <3>6. m \in 1..Len(chunks) /\ m \in 0..Len(chunks) /\ m - 1 = n BY <1>1, <1>3, <2>5, <3>5
    <3>7. InChunk(r, coded, chunks, start, m, k)
      BY <1>1, <1>4, <2>1, <2>2, <2>5, <3>4, <3>5, <3>6 DEF InChunk
    <3>8. Moving(r, coded, chunks, start, k) BY <3>4, <3>6, <3>7 DEF Moving
    <3>9. Len(r.body) < Len(q.body) BY <2>2, <2>3, <2>4, <3>4
    <3> QED BY <3>3, <3>8, <3>9
  <2>6. CASE ~(n < Len(chunks))
    <3>1. r = [q EXCEPT !.go = FALSE, !.size = -1, !.body = Cut(coded, at, k)]
      BY <1>2, <1>7, <1>10, <2>1, <2>6
    <3>2. r \in HttpState /\ r.received = q.received
      <4>1. PICK b, m : b = Cut(coded, at, k) /\ m = -1 OBVIOUS
      <4>2. b \in Seq(Byte) /\ m \in Int BY <2>3, <4>1
      <4>3. r = [q EXCEPT !.go = FALSE, !.size = m, !.body = b] BY <3>1, <4>1
      <4> QED BY <4>2, <4>3 DEF HttpState
    <3>3. ~r.go /\ r.end = "more" /\ r.size = -1 /\ r.chunks = q.chunks
      BY <3>1 DEF HttpState
    <3>4. n = Len(chunks) /\ length = 1 BY <1>1, <1>2, <1>3, <2>6 DEF LineLength
    <3>5. k >= start[Len(chunks)] + 3 BY <1>2, <1>3, <1>10, <3>4
    <3>6. Over(r, chunks, start, k) BY <1>1, <3>3, <3>4, <3>5 DEF Over
    <3> QED BY <3>2, <3>6 DEF Settled
  <2> QED BY <2>5, <2>6
<1>11. p + (length + 1) \in Nat BY <1>3, <1>4
<1> QED BY <1>8, <1>9, <1>10, <1>11

\* WorkOnBody in the data of a chunk.
LEMMA RoundOfChunk ==
  ASSUME NEW coded, NEW chunks, NEW start, Coding(coded, chunks, start),
         NEW k \in Nat, k <= Len(coded), NEW n, NEW q \in HttpState, q.go, q.end = "more",
         InChunk(q, coded, chunks, start, n, k), NEW r, r = WorkOnBody(q)
  PROVE  /\ r \in HttpState /\ r.received = q.received
         /\ \/ Moving(r, coded, chunks, start, k) /\ Len(r.body) < Len(q.body)
            \/ Settled(r, coded, chunks, start, k)
<1>1. PICK at, size :
        at = DataAt(chunks, start, n) /\ size = Len(chunks[n])
  OBVIOUS
<1>2. /\ n \in 1..Len(chunks) /\ at <= k /\ q.size = size
      /\ q.body = Cut(coded, at, k) /\ q.chunks = Joined(chunks)[n - 1]
  BY <1>1 DEF InChunk
<1>3. /\ coded \in Seq(Byte) /\ Len(chunks) \in Nat /\ size \in Nat \ {0}
      /\ chunks[n] \in Seq(Byte)
  BY <1>1, <1>2, Places
<1>4. n \in 0..Len(chunks) /\ n - 1 \in 0..Len(chunks) BY <1>2, <1>3
<1>5. PICK before, next : before = start[n - 1] /\ next = start[n] OBVIOUS
<1>6. before \in Nat /\ next \in Nat /\ next = before + size + size + 4 /\ at = before + (size + 2)
  BY <1>1, <1>2, <1>4, <1>5, Places DEF DataAt
<1>7. at \in Nat /\ next = at + (size + 2) /\ next <= Len(coded)
  <2>1. next <= start[Len(chunks)] /\ Len(coded) = start[Len(chunks)] + 5
    BY <1>4, <1>5, Places
  <2>2. start[Len(chunks)] \in Nat BY <1>3, Places
  <2> QED BY <1>3, <1>6, <2>1, <2>2
<1>8. q.body \in Seq(Byte) /\ Len(q.body) = k - at
  <2>1. Cut(coded, at, k) \in Seq(Byte) /\ IsCut(Cut(coded, at, k), coded, at, k)
    BY <1>2, <1>3, <1>7, CutCells
  <2> QED BY <1>2, <2>1 DEF IsCut
<1>9. HasChunk(q) <=> k >= next BY <1>2, <1>3, <1>7, <1>8 DEF HasChunk
<1>10. r = IF HasChunk(q)
             THEN [q EXCEPT !.chunks = @ \o SubSeq(q.body, 1, q.size),
                            !.body = From(@, q.size + 3), !.size = 0]
             ELSE [q EXCEPT !.go = FALSE]
  <2>1. q.size # 0 BY <1>2, <1>3
  <2> QED BY <2>1 DEF WorkOnBody
<1>11. CASE k >= next
  <2>1. SubSeq(q.body, 1, q.size) = chunks[n]
    <3>1. Cut(Cut(coded, at, k), 0, size) = Cut(coded, at + 0, at + size)
      <4>1. 0 \in Nat /\ 0 <= size /\ size <= k - at BY <1>3, <1>7, <1>11
      <4> QED BY <1>2, <1>3, <1>7, <4>1, CutOfCut
    <3>2. PICK c, e : c = Cut(coded, at, e) /\ e = at + size OBVIOUS
    <3>3. e \in Nat /\ at <= e /\ e <= Len(coded) /\ e - at = size BY <1>3, <1>7, <3>2
    <3>4. c \in Seq(Byte) /\ IsCut(c, coded, at, e) BY <1>3, <1>7, <3>2, <3>3, CutCells
    <3>5. Len(c) = size /\ \A i \in 1..size : c[i] = coded[at + i]
      BY <3>3, <3>4 DEF IsCut
    <3>6. ChunkLaid(coded, before, chunks[n]) BY <1>2, <1>5 DEF Coding, ChunksLaid
    <3>7. \A i \in 1..size : coded[before + (size + 2) + i] = chunks[n][i]
      BY <1>1, <3>6 DEF ChunkLaid
    <3>8. c = chunks[n]
      <4>1. \A i \in 1..size : c[i] = chunks[n][i] BY <1>6, <3>5, <3>7
      <4> QED BY <1>1, <1>3, <3>4, <3>5, <4>1, SameCells
    <3>9. at + 0 = at /\ 0 + 1 = 1 BY <1>7
    <3> QED BY <1>2, <3>1, <3>2, <3>8, <3>9 DEF Cut
  <2>2. From(q.body, q.size + 3) = Cut(coded, next, k)
    <3>1. PICK a, b : a = size + 2 /\ b = k - at OBVIOUS
    <3>2. a \in Nat /\ b \in Nat /\ a <= b /\ b <= k - at BY <1>2, <1>3, <1>7, <1>11, <3>1
    <3>3. Cut(Cut(coded, at, k), a, b) = Cut(coded, at + a, at + b)
      BY <1>2, <1>3, <1>7, <3>2, CutOfCut
    <3>4. at + a = next /\ at + b = k /\ size + 3 = a + 1 BY <1>2, <1>3, <1>7, <3>1
    <3>5. From(q.body, q.size + 3) = Cut(q.body, a, b) BY <1>2, <1>8, <3>1, <3>4 DEF From, Cut
    <3> QED BY <1>2, <3>3, <3>4, <3>5
  <2>3. q.chunks \o chunks[n] = Joined(chunks)[n] /\ Joined(chunks)[n] \in Seq(Byte)
    BY <1>2, <1>4, BodyByChunk DEF Coding
  <2>4. r = [q EXCEPT !.chunks = Joined(chunks)[n], !.body = Cut(coded, next, k), !.size = 0]
    BY <1>9, <1>10, <1>11, <2>1, <2>2, <2>3
  <2>5. Cut(coded, next, k) \in Seq(Byte) /\ Len(Cut(coded, next, k)) = k - next
    <3>1. Cut(coded, next, k) \in Seq(Byte) /\ IsCut(Cut(coded, next, k), coded, next, k)
      BY <1>3, <1>6, <1>11, CutCells
    <3> QED BY <3>1 DEF IsCut
  <2>6. r \in HttpState /\ r.received = q.received
    <3>1. PICK b, c : b = Cut(coded, next, k) /\ c = Joined(chunks)[n] OBVIOUS
    <3>2. b \in Seq(Byte) /\ c \in Seq(Byte) BY <2>3, <2>5, <3>1
    <3>3. r = [q EXCEPT !.chunks = c, !.body = b, !.size = 0] BY <2>4, <3>1
    <3>4. 0 \in Int OBVIOUS
    <3> QED BY <3>2, <3>3, <3>4 DEF HttpState
  <2>7. /\ r.go /\ r.end = "more" /\ r.size = 0 /\ r.body = Cut(coded, next, k)
        /\ r.chunks = Joined(chunks)[n]
    BY <2>4 DEF HttpState
  <2>8. Between(r, coded, chunks, start, n, k) BY <1>4, <1>5, <1>11, <2>7 DEF Between
  <2>9. Moving(r, coded, chunks, start, k) BY <1>4, <2>7, <2>8 DEF Moving
  <2>10. k - next < k - at BY <1>3, <1>6, <1>7
  <2>11. Len(r.body) < Len(q.body) BY <1>8, <2>5, <2>7, <2>10
  <2> QED BY <2>6, <2>9, <2>11
<1>12. CASE ~(k >= next)
  <2>1. r = [q EXCEPT !.go = FALSE] BY <1>9, <1>10, <1>12
  <2>2. r \in HttpState /\ r.received = q.received BY <2>1 DEF HttpState
  <2>3. ~r.go /\ r.end = "more" /\ r.size = q.size /\ r.body = q.body /\ r.chunks = q.chunks
    BY <2>1 DEF HttpState
  <2>4. InChunk(r, coded, chunks, start, n, k) BY <2>3 DEF InChunk
  <2>5. k < start[n] BY <1>5, <1>6, <1>12
  <2>6. Short(r, coded, chunks, start, k) BY <1>4, <2>3, <2>4, <2>5 DEF Short
  <2> QED BY <2>2, <2>6 DEF Settled
<1> QED BY <1>11, <1>12

\* while (WorkOnBody(...)) ends, and how.
WorkEnds(u, s, coded, chunks, start, k) ==
  u \in HttpState /\ u.received = s.received /\ Settled(u, coded, chunks, start, k)

LEMMA RoundsSettle ==
  ASSUME NEW coded, NEW chunks, NEW start, Coding(coded, chunks, start),
         NEW k \in Nat, k <= Len(coded), NEW s \in HttpState,
         Moving([s EXCEPT !.go = TRUE], coded, chunks, start, k)
  PROVE  WorkEnds(WorkOnAll(s), s, coded, chunks, start, k)
<1>0. PICK q : q = [s EXCEPT !.go = TRUE] OBVIOUS
<1> DEFINE len == Len(s.body)
           after == Rounds(s)
           Good(n) ==
             /\ after[n] \in HttpState /\ after[n].received = s.received
             /\ \/ Moving(after[n], coded, chunks, start, k) /\ Len(after[n].body) + n <= len
                \/ Settled(after[n], coded, chunks, start, k)
           T == {n \in Nat : n <= len + 1 => Good(n)}
<1>1. len \in Nat /\ len + 1 \in Nat
  <2>1. s.body \in Seq(Byte) BY DEF HttpState
  <2> QED BY <2>1
<1>2. after[0] = q /\ \A n \in 1..(len + 1) : after[n] = WorkOnBody(after[n - 1])
  BY <1>0, <1>1, RoundByRound
<1>3. q \in HttpState /\ q.received = s.received /\ q.body = s.body BY <1>0 DEF HttpState
<1>4. WorkOnAll(s) = after[len + 1] BY DEF WorkOnAll
<1> HIDE DEF len, after
<1>5. 0 \in T
  <2>1. Len(q.body) + 0 <= len BY <1>1, <1>3 DEF len
  <2> QED BY <1>0, <1>2, <1>3, <2>1
<1>6. ASSUME NEW n \in Nat, n \in T PROVE n + 1 \in T
  <2> SUFFICES ASSUME n + 1 <= len + 1 PROVE Good(n + 1) BY <1>6
  <2>1. PICK m : m = n + 1 OBVIOUS
  <2>2. m \in 1..(len + 1) /\ m - 1 = n /\ n <= len + 1 BY <1>1, <2>1
  <2>3. Good(n) BY <1>6, <2>2
  <2>4. PICK t, r : t = after[n] /\ r = after[m] OBVIOUS
  <2>5. r = WorkOnBody(t) BY <1>2, <2>2, <2>4
  <2>6. CASE Settled(t, coded, chunks, start, k)
    <3>1. ~t.go BY <2>6 DEF Settled, Short, Torn, Over
    <3>2. r = t BY <2>5, <3>1 DEF WorkOnBody
    <3> QED BY <2>1, <2>3, <2>4, <2>6, <3>2
  <2>7. CASE ~Settled(t, coded, chunks, start, k)
    <3>1. Moving(t, coded, chunks, start, k) /\ Len(t.body) + n <= len /\ t \in HttpState
      BY <2>3, <2>4, <2>7
    <3>2. PICK i \in 0..Len(chunks) :
            Between(t, coded, chunks, start, i, k) \/ InChunk(t, coded, chunks, start, i, k)
      BY <3>1 DEF Moving
    <3>3. t.go /\ t.end = "more" BY <3>1 DEF Moving
    <3>4. /\ r \in HttpState /\ r.received = t.received
          /\ \/ Moving(r, coded, chunks, start, k) /\ Len(r.body) < Len(t.body)
             \/ Settled(r, coded, chunks, start, k)
      <4>1. CASE Between(t, coded, chunks, start, i, k)
        BY <2>5, <3>1, <3>3, <4>1, RoundOfLine
      <4>2. CASE InChunk(t, coded, chunks, start, i, k)
        BY <2>5, <3>1, <3>3, <4>2, RoundOfChunk
      <4> QED BY <3>2, <4>1, <4>2
    <3>5. Len(r.body) \in Nat /\ Len(t.body) \in Nat
      <4>1. r.body \in Seq(Byte) /\ t.body \in Seq(Byte) BY <3>1, <3>4 DEF HttpState
      <4> QED BY <4>1
    <3>6. Len(r.body) < Len(t.body) => Len(r.body) + m <= len BY <1>1, <2>1, <3>1, <3>5
    <3> QED BY <2>1, <2>3, <2>4, <3>4, <3>6
  <2> QED BY <2>6, <2>7
<1>7. Nat \subseteq T BY <1>5, <1>6, Induction
<1>8. Good(len + 1) BY <1>1, <1>7
<1>9. ~(Len(after[len + 1].body) + (len + 1) <= len)
  <2>1. after[len + 1].body \in Seq(Byte) BY <1>8 DEF HttpState
  <2>2. Len(after[len + 1].body) \in Nat BY <2>1
  <2> QED BY <1>1, <2>2
<1> QED BY <1>4, <1>8, <1>9 DEF WorkEnds

\* A response: a header, the blank line, the body.
WireLaid(wire, coded) ==
  /\ wire \in Seq(Byte) /\ coded \in Seq(Byte) /\ Len(wire) = Len(coded) + 5
  /\ wire[1] = "h" /\ wire[2] = "CR" /\ wire[3] = "LF" /\ wire[4] = "CR" /\ wire[5] = "LF"
  /\ \A i \in 1..Len(coded) : wire[5 + i] = coded[i]

\* That is what the wire is.
LEMMA WireIsLaid ==
  ASSUME NEW r, r.coded \in Seq(Byte)
  PROVE  WireLaid(Wire(r), r.coded)
<1> DEFINE a == <<"h">>
           b == BlankLine
           ab == a \o b
           wire == ab \o r.coded
<1>1. a \in Seq(Byte) /\ Len(a) = 1 /\ a[1] = "h" BY DEF Byte
<1>2. /\ b \in Seq(Byte) /\ Len(b) = 4
      /\ b[1] = "CR" /\ b[2] = "LF" /\ b[3] = "CR" /\ b[4] = "LF"
  BY DEF Byte, BlankLine
<1>3. Wire(r) = wire BY DEF Wire
<1> HIDE DEF a, b
<1>4. ab \in Seq(Byte) /\ IsJoint(ab, a, b, 1, 4) BY <1>1, <1>2, Joint, Zenon
<1>5. /\ Len(ab) = 5
      /\ ab[1] = "h" /\ ab[2] = "CR" /\ ab[3] = "LF" /\ ab[4] = "CR" /\ ab[5] = "LF"
  <2>1. Len(ab) = 1 + 4 /\ (\A i \in 1..1 : ab[i] = a[i]) /\ \A i \in 1..4 : ab[1 + i] = b[i]
    BY <1>4 DEF IsJoint
  <2>2. /\ 1 \in 1..1 /\ 1 \in 1..4 /\ 2 \in 1..4 /\ 3 \in 1..4 /\ 4 \in 1..4
        /\ 1 + 1 = 2 /\ 1 + 2 = 3 /\ 1 + 3 = 4 /\ 1 + 4 = 5
    OBVIOUS
  <2> HIDE DEF ab
  <2> QED BY <1>1, <1>2, <2>1, <2>2
<1> HIDE DEF ab
<1>6. PICK n : n = Len(r.coded) OBVIOUS
<1>7. n \in Nat
  <2>1. Len(r.coded) \in Nat OBVIOUS
  <2> QED BY <1>6, <2>1
<1>8. wire \in Seq(Byte) /\ IsJoint(wire, ab, r.coded, 5, n)
  BY <1>4, <1>5, <1>6, Joint, Zenon
<1> HIDE DEF wire
<1>9. Len(wire) = n + 5 /\ \A i \in 1..n : wire[5 + i] = r.coded[i] BY <1>7, <1>8 DEF IsJoint
<1>10. wire[1] = ab[1] /\ wire[2] = ab[2] /\ wire[3] = ab[3] /\ wire[4] = ab[4] /\ wire[5] = ab[5]
  <2>1. \A i \in 1..5 : wire[i] = ab[i] BY <1>8 DEF IsJoint
  <2>2. 1 \in 1..5 /\ 2 \in 1..5 /\ 3 \in 1..5 /\ 4 \in 1..5 /\ 5 \in 1..5 OBVIOUS
  <2> QED BY <2>1, <2>2
<1> QED BY <1>3, <1>5, <1>6, <1>8, <1>9, <1>10 DEF WireLaid

\* The body is found as soon as five cells are there.
LEMMA BodyIsFound ==
  ASSUME NEW wire, NEW coded, WireLaid(wire, coded), NEW k \in Nat, k <= Len(wire)
  PROVE  BodyAt(Cut(wire, 0, k)) = IF k >= 5 THEN 6 ELSE 0
<1>1. PICK c : c = Cut(wire, 0, k) OBVIOUS
<1>2. wire \in Seq(Byte) BY DEF WireLaid
<1>3. c \in Seq(Byte) /\ Len(c) = k /\ \A i \in 1..k : c[i] = wire[i]
  <2>1. 0 \in Nat /\ 0 <= k /\ k - 0 = k /\ \A i \in 1..k : 0 + i = i OBVIOUS
  <2>2. c \in Seq(Byte) /\ IsCut(c, wire, 0, k) BY <1>1, <1>2, <2>1, CutCells
  <2> QED BY <2>1, <2>2 DEF IsCut
<1>4. ASSUME NEW i \in 4..k
      PROVE  SubSeq(c, i - 3, i) = BlankLine <=>
               c[i - 3] = "CR" /\ c[i - 2] = "LF" /\ c[i - 1] = "CR" /\ c[i] = "LF"
  <2>1. PICK a, d : a = i - 4 /\ d = SubSeq(c, i - 3, i) OBVIOUS
  <2>2. a \in Nat /\ i \in Nat /\ a <= i /\ i <= Len(c) /\ a + 1 = i - 3 /\ i - a = 4
    BY <1>3, <2>1
  <2>3. d = Cut(c, a, i) BY <2>1, <2>2 DEF Cut
  <2>4. d \in Seq(Byte) /\ IsCut(d, c, a, i) BY <1>3, <2>2, <2>3, CutCells
  <2>5. Len(d) = 4 /\ \A x \in 1..4 : d[x] = c[a + x] BY <2>2, <2>4 DEF IsCut
  <2>6. /\ 1 \in 1..4 /\ 2 \in 1..4 /\ 3 \in 1..4 /\ 4 \in 1..4
        /\ a + 1 = i - 3 /\ a + 2 = i - 2 /\ a + 3 = i - 1 /\ a + 4 = i
    BY <2>1
  <2>7. d[1] = c[i - 3] /\ d[2] = c[i - 2] /\ d[3] = c[i - 1] /\ d[4] = c[i] BY <2>5, <2>6
  <2>8. /\ BlankLine \in Seq(Byte) /\ Len(BlankLine) = 4
        /\ BlankLine[1] = "CR" /\ BlankLine[2] = "LF"
        /\ BlankLine[3] = "CR" /\ BlankLine[4] = "LF"
    BY DEF BlankLine, Byte
  <2>9. d = BlankLine <=> d[1] = "CR" /\ d[2] = "LF" /\ d[3] = "CR" /\ d[4] = "LF"
    <3>1. ASSUME d[1] = "CR", d[2] = "LF", d[3] = "CR", d[4] = "LF" PROVE d = BlankLine
      <4>1. \A x \in 1..4 : x = 1 \/ x = 2 \/ x = 3 \/ x = 4 OBVIOUS
      <4>2. \A x \in 1..4 : d[x] = BlankLine[x] BY <2>8, <3>1, <4>1
      <4> QED BY <2>4, <2>5, <2>8, <4>2, SameCells
    <3> QED BY <2>8, <3>1
  <2> QED BY <2>1, <2>7, <2>9
<1> DEFINE ends == {i \in 4..k : SubSeq(c, i - 3, i) = BlankLine}
<1>5. BodyAt(c) = IF ends = {} THEN 0 ELSE Min(ends) + 1 BY <1>3 DEF BodyAt
<1>6. wire[1] = "h" /\ wire[2] = "CR" /\ wire[3] = "LF" /\ wire[4] = "CR" /\ wire[5] = "LF"
  BY DEF WireLaid
<1>7. ends \in SUBSET Nat /\ ends \subseteq 4..k OBVIOUS
<1>8. 4 \notin ends
  <2> SUFFICES ASSUME 4 \in 4..k PROVE SubSeq(c, 4 - 3, 4) # BlankLine OBVIOUS
  <2>1. 4 - 3 = 1 /\ 1 \in 1..k OBVIOUS
  <2>2. c[4 - 3] = "h" BY <1>3, <1>6, <2>1
  <2> QED BY <1>4, <2>2
<1>9. CASE k < 5
  <2>1. \A i \in 4..k : i = 4 BY <1>9
  <2>2. ends = {} BY <1>7, <1>8, <2>1
  <2> QED BY <1>1, <1>5, <1>9, <2>2
<1>10. CASE k >= 5
  <2>1. /\ 5 \in 4..k /\ 5 - 3 = 2 /\ 5 - 2 = 3 /\ 5 - 1 = 4
        /\ 2 \in 1..k /\ 3 \in 1..k /\ 4 \in 1..k /\ 5 \in 1..k
    BY <1>10
  <2>2. c[5 - 3] = "CR" /\ c[5 - 2] = "LF" /\ c[5 - 1] = "CR" /\ c[5] = "LF"
    BY <1>3, <1>6, <2>1
  <2>3. 5 \in ends BY <1>4, <2>1, <2>2
  <2>4. \A y \in ends : 5 <= y
    <3> TAKE y \in ends
    <3>1. y \in 4..k /\ y # 4 BY <1>7, <1>8
    <3> QED BY <3>1
  <2> HIDE DEF ends
  <2>5. Min(ends) = 5 BY <1>7, <2>3, <2>4, MinIsLeast
  <2>6. ends # {} BY <2>3
  <2> QED BY <1>1, <1>5, <1>10, <2>5, <2>6
<1> QED BY <1>9, <1>10

\* What is cut out of the response behind the blank line is cut out of the body.
LEMMA CutOfWire ==
  ASSUME NEW wire, NEW coded, WireLaid(wire, coded), NEW i \in Nat, NEW j \in Nat,
         5 <= i, i <= j, j <= Len(wire)
  PROVE  Cut(wire, i, j) = Cut(coded, i - 5, j - 5)
<1>1. PICK a, b, c, d :
        a = i - 5 /\ b = j - 5 /\ c = Cut(wire, i, j) /\ d = Cut(coded, a, b)
  OBVIOUS
<1>2. /\ wire \in Seq(Byte) /\ coded \in Seq(Byte) /\ Len(wire) = Len(coded) + 5
      /\ \A x \in 1..Len(coded) : wire[5 + x] = coded[x]
  BY DEF WireLaid
<1>3. Len(coded) \in Nat BY <1>2
<1>4. a \in Nat /\ b \in Nat /\ a <= b /\ b <= Len(coded) /\ b - a = j - i
  BY <1>1, <1>2, <1>3
<1>5. c \in Seq(Byte) /\ IsCut(c, wire, i, j) BY <1>1, <1>2, CutCells
<1>6. d \in Seq(Byte) /\ IsCut(d, coded, a, b) BY <1>1, <1>2, <1>4, CutCells
<1>7. \A x \in 1..(j - i) : c[x] = d[x]
  <2> TAKE x \in 1..(j - i)
  <2>1. a + x \in 1..Len(coded) /\ 5 + (a + x) = i + x BY <1>1, <1>3, <1>4
  <2>2. wire[i + x] = coded[a + x] BY <1>2, <2>1
  <2> QED BY <1>4, <1>5, <1>6, <2>2 DEF IsCut
<1>8. Len(c) = j - i /\ Len(d) = j - i BY <1>4, <1>5, <1>6 DEF IsCut
<1>9. c = d BY <1>5, <1>6, <1>7, <1>8, SameCells
<1> QED BY <1>1, <1>9

\* The state after a piece, the cells up to the j-th behind the first i.
Arrived(s, coded, i, j) ==
  IF j < 5 THEN <<>> ELSE
  IF i < 5 THEN Cut(coded, 0, j - 5) ELSE s.body \o Cut(coded, i - 5, j - 5)
GrownTo(t, s, wire, coded, i, j) ==
  /\ t \in HttpState
  /\ t = [s EXCEPT !.received = Cut(wire, 0, j), !.body = Arrived(s, coded, i, j)]
  /\ BodyAt(t.received) = IF j >= 5 THEN 6 ELSE 0

\* That is what Grown does.
LEMMA Grows ==
  ASSUME NEW wire, NEW coded, WireLaid(wire, coded), NEW i \in Nat, NEW j \in Nat,
         i <= j, j <= Len(wire), NEW s \in HttpState, s.received = Cut(wire, 0, i),
         NEW piece, piece = Cut(wire, i, j)
  PROVE  GrownTo(Grown(s, piece), s, wire, coded, i, j)
<1>0. PICK t, body : t = Grown(s, piece) /\ body = Arrived(s, coded, i, j) OBVIOUS
<1>1. /\ wire \in Seq(Byte) /\ coded \in Seq(Byte) /\ Len(wire) = Len(coded) + 5
      /\ Len(coded) \in Nat /\ i <= Len(wire)
  BY DEF WireLaid
<1>2. PICK received : received = Cut(wire, 0, j) OBVIOUS
<1>3. s.received \o piece = received
  <2>1. PICK z : z = 0 OBVIOUS
  <2>2. z \in Nat /\ z <= i BY <2>1
  <2>3. Cut(wire, z, i) \o Cut(wire, i, j) = Cut(wire, z, j) BY <1>1, <2>2, CutsJoin
  <2> QED BY <1>2, <2>1, <2>3
<1>4. received \in Seq(Byte) /\ Len(received) = j
  <2>1. 0 \in Nat /\ 0 <= j /\ j - 0 = j OBVIOUS
  <2>2. received \in Seq(Byte) /\ IsCut(received, wire, 0, j) BY <1>1, <1>2, <2>1, CutCells
  <2> QED BY <2>1, <2>2 DEF IsCut
<1>5. /\ BodyAt(received) = IF j >= 5 THEN 6 ELSE 0
      /\ BodyAt(s.received) = IF i >= 5 THEN 6 ELSE 0
  BY <1>1, <1>2, BodyIsFound
<1>6. s.body \in Seq(Byte) BY DEF HttpState
<1>7. PICK x, y, f, g : /\ x = BodyAt(received) /\ y = BodyAt(s.received)
                        /\ f = From(received, x) /\ g = s.body \o piece
  OBVIOUS
<1>8. PICK b : b = CASE x = 0 -> <<>> [] x # 0 /\ y = 0 -> f [] OTHER -> g OBVIOUS
<1>9. t = [s EXCEPT !.received = received, !.body = b] BY <1>0, <1>3, <1>7, <1>8 DEF Grown
<1>10. CASE j < 5
  <2>1. BodyAt(received) = 0 /\ body = <<>> BY <1>0, <1>5, <1>10 DEF Arrived
  <2>2. t = [s EXCEPT !.received = received, !.body = body]
    <3>1. b = body BY <1>7, <1>8, <2>1
    <3> QED BY <1>9, <3>1
  <2>3. t \in HttpState /\ t.received = received
    <3>1. body \in Seq(Byte)
      <4>1. <<>> \in Seq(Byte) OBVIOUS
      <4> QED BY <2>1, <4>1
    <3> QED BY <1>4, <2>2, <3>1 DEF HttpState
  <2> QED BY <1>0, <1>2, <1>5, <2>2, <2>3 DEF GrownTo
<1>11. CASE ~(j < 5) /\ i < 5
  <2>1. BodyAt(received) = 6 /\ BodyAt(s.received) = 0 BY <1>5, <1>11
  <2>2. From(received, 6) = Cut(coded, 0, j - 5)
    <3>1. PICK m : m = 5 OBVIOUS
    <3>2. m \in Nat /\ m <= j /\ 5 <= m BY <1>11, <3>1
    <3>3. Cut(Cut(wire, 0, j), m, j) = Cut(wire, m, j)
      <4>1. PICK z : z = 0 OBVIOUS
      <4>2. z \in Nat /\ z <= j /\ j <= j - z /\ z + m = m /\ z + j = j BY <3>2, <4>1
      <4>3. Cut(Cut(wire, z, j), m, j) = Cut(wire, z + m, z + j)
        BY <1>1, <3>2, <4>2, CutOfCut
      <4> QED BY <4>1, <4>2, <4>3
    <3>4. 6 = m + 1 /\ m - 5 = 0 BY <3>1
    <3>5. From(received, 6) = Cut(received, m, j) BY <1>4, <3>4 DEF From, Cut
    <3>6. Cut(wire, m, j) = Cut(coded, m - 5, j - 5)
      <4>1. m \in Nat /\ j \in Nat /\ 5 <= m /\ m <= j /\ j <= Len(wire) BY <3>2
      <4> QED BY ONLY WireLaid(wire, coded), <4>1, CutOfWire
    <3> QED BY <1>2, <3>3, <3>4, <3>5, <3>6
  <2>3. body = Cut(coded, 0, j - 5) BY <1>0, <1>11 DEF Arrived
  <2>4. t = [s EXCEPT !.received = received, !.body = body]
    <3>1. x # 0 /\ y = 0 BY <1>7, <2>1
    <3>2. f = body BY <1>7, <2>1, <2>2, <2>3, Zenon
    <3>3. b = body BY <1>8, <3>1, <3>2
    <3> QED BY <1>9, <3>3
  <2>5. body \in Seq(Byte)
    <3>1. PICK m : m = j - 5 OBVIOUS
    <3>2. 0 \in Nat /\ m \in Nat /\ 0 <= m /\ m <= Len(coded) BY <1>1, <1>11, <3>1
    <3> QED BY <1>1, <2>3, <3>1, <3>2, CutCells
  <2>6. t \in HttpState /\ t.received = received BY <1>4, <2>4, <2>5 DEF HttpState
  <2> QED BY <1>0, <1>2, <1>5, <2>4, <2>6 DEF GrownTo
<1>12. CASE ~(j < 5) /\ ~(i < 5)
  <2>1. BodyAt(received) = 6 /\ BodyAt(s.received) = 6 BY <1>5, <1>12
  <2>2. piece = Cut(coded, i - 5, j - 5)
    <3>1. 5 <= i BY <1>12
    <3> QED BY <1>2, <3>1, CutOfWire
  <2>3. body = s.body \o piece BY <1>0, <1>12, <2>2 DEF Arrived
  <2>4. t = [s EXCEPT !.received = received, !.body = body]
    <3>1. x # 0 /\ y # 0 BY <1>7, <2>1
    <3>2. g = body BY <1>7, <2>3, Zenon
    <3>3. b = body BY <1>8, <3>1, <3>2
    <3> QED BY <1>9, <3>3
  <2>5. piece \in Seq(Byte) BY <1>1, <1>2, CutCells
  <2>6. body \in Seq(Byte)
    <3>1. s.body \o piece \in Seq(Byte) BY <1>6, <2>5, Joint, Zenon
    <3> QED BY <2>3, <3>1
  <2>7. t \in HttpState /\ t.received = received BY <1>4, <2>4, <2>6 DEF HttpState
  <2> QED BY <1>0, <1>2, <1>5, <2>4, <2>7 DEF GrownTo
<1> QED BY <1>10, <1>11, <1>12

\* A line ends before any later one begins.
LEMMA LinesAscend ==
  ASSUME NEW coded, NEW chunks, NEW start, Coding(coded, chunks, start),
         NEW m \in 0..Len(chunks), NEW n \in 0..Len(chunks), m < n
  PROVE  LineEnd(chunks, start, m) < start[n]
<1> DEFINE T == {d \in Nat : m + (d + 1) <= Len(chunks) =>
                               LineEnd(chunks, start, m) < start[m + (d + 1)]}
<1>1. Len(chunks) \in Nat BY Places
<1>2. LineEnd(chunks, start, m) \in Nat BY LineLaid
<1>3. 0 \in T
  <2> SUFFICES ASSUME m + (0 + 1) <= Len(chunks)
               PROVE  LineEnd(chunks, start, m) < start[m + (0 + 1)]
    OBVIOUS
  <2>1. PICK length, a, b :
          length = LineLength(chunks, m) /\ a = start[m] /\ b = start[m + 1]
    OBVIOUS
  <2>2. m < Len(chunks) /\ m + (0 + 1) = m + 1 BY <1>1
  <2>3. /\ length \in Nat \ {0} /\ LineEnd(chunks, start, m) = a + (length + 1)
        /\ b = a + length + length + 4
    BY <2>1, <2>2, LineLaid
  <2>4. a \in Nat BY <2>1, Places
  <2>5. a + (length + 1) < b BY <2>3, <2>4
  <2> QED BY <2>1, <2>2, <2>3, <2>5
<1>4. ASSUME NEW d \in Nat, d \in T PROVE d + 1 \in T
  <2> SUFFICES ASSUME m + (d + 1 + 1) <= Len(chunks)
               PROVE  LineEnd(chunks, start, m) < start[m + (d + 1 + 1)]
    OBVIOUS
  <2>1. PICK x, y : x = m + (d + 1) /\ y = m + (d + 1 + 1) OBVIOUS
  <2>2. y \in 1..Len(chunks) /\ y - 1 = x /\ x <= Len(chunks) /\ x \in 0..Len(chunks)
        /\ y \in 0..Len(chunks)
    BY <1>1, <2>1
  <2>3. LineEnd(chunks, start, m) < start[x] BY <1>4, <2>1, <2>2
  <2>4. PICK a, b, c : a = start[x] /\ b = start[y] /\ c = Len(chunks[y]) OBVIOUS
  <2>5. a \in Nat /\ c \in Nat /\ b = a + c + c + 4 BY <2>2, <2>4, Places
  <2>6. a < b BY <2>5
  <2>7. b \in Nat BY <2>5
  <2>8. PICK e : e = LineEnd(chunks, start, m) OBVIOUS
  <2>9. e < b BY <1>2, <2>3, <2>4, <2>5, <2>6, <2>7, <2>8
  <2> QED BY <2>1, <2>4, <2>8, <2>9
<1>5. Nat \subseteq T BY <1>3, <1>4, Induction
<1>6. n - m - 1 \in Nat /\ m + ((n - m - 1) + 1) = n BY <1>1
<1>7. n <= Len(chunks) BY <1>1
<1> QED BY <1>5, <1>6, <1>7

\* Who waits for more has not got a size line up to the middle of its end.
LEMMA ShortIsWhole ==
  ASSUME NEW coded, NEW chunks, NEW start, Coding(coded, chunks, start), NEW k \in Nat,
         NEW q, Short(q, coded, chunks, start, k), NEW m \in 0..Len(chunks)
  PROVE  k # LineEnd(chunks, start, m)
<1>1. Len(chunks) \in Nat BY Places
<1>2. PICK n \in 0..Len(chunks) :
        \/ Between(q, coded, chunks, start, n, k) /\ k < LineEnd(chunks, start, n)
        \/ InChunk(q, coded, chunks, start, n, k) /\ k < start[n]
  BY DEF Short
<1>3. \A x \in 0..Len(chunks) : /\ start[x] \in Nat /\ LineEnd(chunks, start, x) \in Nat
                                /\ start[x] < LineEnd(chunks, start, x)
  <2> TAKE x \in 0..Len(chunks)
  <2>1. PICK length, a : length = LineLength(chunks, x) /\ a = start[x] OBVIOUS
  <2>2. a \in Nat BY <2>1, Places
  <2>3. length \in Nat \ {0} /\ LineEnd(chunks, start, x) = a + (length + 1) BY <2>1, LineLaid
  <2>4. a + (length + 1) \in Nat /\ a < a + (length + 1) BY <2>2, <2>3
  <2> QED BY <2>1, <2>2, <2>3, <2>4
<1>4. PICK e : e = LineEnd(chunks, start, m) OBVIOUS
<1>5. e \in Nat BY <1>3, <1>4
<1>6. CASE Between(q, coded, chunks, start, n, k) /\ k < LineEnd(chunks, start, n)
  <2>1. start[n] <= k BY <1>6 DEF Between
  <2>2. CASE m < n
    <3>1. e < start[n] /\ start[n] \in Nat BY <1>3, <1>4, <2>2, LinesAscend
    <3> QED BY <1>4, <1>5, <2>1, <3>1
  <2>3. CASE m = n BY <1>3, <1>6, <2>3
  <2>4. CASE n < m
    <3>1. PICK f : f = LineEnd(chunks, start, n) OBVIOUS
    <3>2. f < start[m] /\ start[m] < e /\ f \in Nat /\ start[m] \in Nat /\ k < f
      BY <1>3, <1>4, <1>6, <2>4, <3>1, LinesAscend
    <3> QED BY <1>4, <1>5, <3>2
  <2> QED BY <1>1, <2>2, <2>3, <2>4
<1>7. CASE InChunk(q, coded, chunks, start, n, k) /\ k < start[n]
  <2>1. n \in 1..Len(chunks) /\ DataAt(chunks, start, n) <= k BY <1>7 DEF InChunk
  <2>2. PICK b : b = n - 1 OBVIOUS
  <2>3. b \in 0..Len(chunks) /\ b + 1 = n /\ b < Len(chunks) BY <1>1, <2>1, <2>2
  <2>4. LineEnd(chunks, start, b) < k
    <3>1. PICK length, a : length = LineLength(chunks, b) /\ a = start[b] OBVIOUS
    <3>2. a \in Nat BY <2>3, <3>1, Places
    <3>3. /\ length \in Nat \ {0} /\ LineEnd(chunks, start, b) = a + (length + 1)
          /\ DataAt(chunks, start, n) = a + (length + 2)
      BY <2>3, <3>1, LineLaid
    <3>4. /\ a + (length + 1) < a + (length + 2)
          /\ a + (length + 2) \in Nat /\ a + (length + 1) \in Nat
      BY <3>2, <3>3
    <3> QED BY <2>1, <3>3, <3>4
  <2>5. PICK f : f = LineEnd(chunks, start, b) OBVIOUS
  <2>6. f \in Nat /\ f < k /\ start[b] < f /\ start[b] \in Nat BY <1>3, <2>3, <2>4, <2>5
  <2>7. CASE m < b
    <3>1. e < start[b] BY <1>4, <2>3, <2>7, LinesAscend
    <3> QED BY <1>4, <1>5, <2>6, <3>1
  <2>8. CASE m = b BY <1>4, <2>5, <2>6, <2>8
  <2>9. CASE m > b
    <3>1. m \in Nat /\ n \in Nat /\ (m = n \/ n < m) BY <1>1, <2>2, <2>9
    <3>2. start[n] <= start[m]
      <4>1. CASE m = n BY <1>3, <4>1
      <4>2. CASE n < m
        <5>1. PICK g, x, y : g = LineEnd(chunks, start, n) /\ x = start[n] /\ y = start[m]
          OBVIOUS
        <5>2. g \in Nat /\ x \in Nat /\ y \in Nat /\ x < g /\ g < y
          BY <1>3, <4>2, <5>1, LinesAscend
        <5>3. x <= y BY <5>2
        <5> QED BY <5>1, <5>3
      <4> QED BY <3>1, <4>1, <4>2
    <3>3. PICK x, y : x = start[n] /\ y = start[m] OBVIOUS
    <3>4. x \in Nat /\ y \in Nat /\ x <= y /\ y < e /\ k < x BY <1>3, <1>4, <1>7, <3>2, <3>3
    <3> QED BY <1>4, <1>5, <3>4
  <2> QED BY <1>1, <2>2, <2>7, <2>8, <2>9
<1> QED BY <1>2, <1>6, <1>7

\* A cut in the middle of the line break behind a size.
Broken(chunks, start, i) == \E n \in 0..Len(chunks) : i = LineEnd(chunks, start, n) + 5

\* The reader that wants more after i cells.
Unfinished(q, wire, coded, chunks, start, i) ==
  /\ q.received = Cut(wire, 0, i)
  /\ i < 5 => q.end = "more" /\ q.size = 0 /\ q.chunks = <<>>
  /\ i >= 5 => Short(q, coded, chunks, start, i - 5)

\* One that does not.
Finished(q, chunks, start, i) ==
  /\ q.end = "done" /\ q.body = Joined(chunks)[Len(chunks)]
  /\ i >= start[Len(chunks)] + 8

\* Neither has met a broken line.
LEMMA UnfinishedIsWhole ==
  ASSUME NEW coded, NEW chunks, NEW start, Coding(coded, chunks, start), NEW i \in Nat,
         NEW q, NEW wire, Unfinished(q, wire, coded, chunks, start, i)
  PROVE  q.end = "more" /\ ~Broken(chunks, start, i)
<1>1. q.end = "more" BY DEF Unfinished, Short
<1>2. ASSUME NEW n \in 0..Len(chunks), i = LineEnd(chunks, start, n) + 5 PROVE FALSE
  <2>1. PICK e : e = LineEnd(chunks, start, n) OBVIOUS
  <2>2. e \in Nat BY <2>1, LineLaid
  <2>3. i >= 5 /\ i - 5 = e /\ i - 5 \in Nat BY <1>2, <2>1, <2>2
  <2>4. Short(q, coded, chunks, start, i - 5) BY <2>3 DEF Unfinished
  <2>5. i - 5 # LineEnd(chunks, start, n) BY <2>3, <2>4, ShortIsWhole
  <2> QED BY <2>1, <2>3, <2>5
<1> QED BY <1>1, <1>2 DEF Broken

LEMMA FinishedIsWhole ==
  ASSUME NEW coded, NEW chunks, NEW start, Coding(coded, chunks, start), NEW i \in Nat,
         i >= start[Len(chunks)] + 8
  PROVE  ~Broken(chunks, start, i)
<1> SUFFICES ASSUME NEW n \in 0..Len(chunks), i = LineEnd(chunks, start, n) + 5 PROVE FALSE
  BY DEF Broken
<1>1. PICK e, b : e = LineEnd(chunks, start, n) /\ b = start[Len(chunks)] OBVIOUS
<1>2. Len(chunks) \in 0..Len(chunks)
  <2>1. Len(chunks) \in Nat BY Places
  <2> QED BY <2>1
<1>3. b \in Nat BY <1>1, <1>2, Places
<1>4. e \in Nat /\ e <= b + 2 BY <1>1, LineLaid
<1> QED BY <1>1, <1>3, <1>4

\* One piece of a chunked response.
LEMMA ChunkedPiece ==
  ASSUME NEW wire, NEW coded, WireLaid(wire, coded), NEW chunks, NEW start,
         Coding(coded, chunks, start), NEW i \in Nat, NEW j \in Nat, i <= j, j <= Len(wire),
         NEW q \in HttpState, Unfinished(q, wire, coded, chunks, start, i),
         NEW r, r.chunked, NEW exact, NEW v, v = Receive(r, exact, q, Cut(wire, i, j))
  PROVE  /\ v \in HttpState
         /\ \/ Unfinished(v, wire, coded, chunks, start, j)
            \/ Finished(v, chunks, start, j)
            \/ v.end = "throws" /\ Broken(chunks, start, j)
<1>1. PICK piece, body, t, u :
        /\ piece = Cut(wire, i, j) /\ body = Arrived(q, coded, i, j)
        /\ t = Grown(q, piece) /\ u = WorkOnAll(t)
  OBVIOUS
<1>2. q.received = Cut(wire, 0, i) /\ q.end = "more"
  BY UnfinishedIsWhole DEF Unfinished
<1>3. /\ t \in HttpState /\ t = [q EXCEPT !.received = Cut(wire, 0, j), !.body = body]
      /\ BodyAt(t.received) = IF j >= 5 THEN 6 ELSE 0
  <2>1. GrownTo(Grown(q, piece), q, wire, coded, i, j) BY <1>1, <1>2, Grows
  <2> QED BY <1>1, <2>1 DEF GrownTo
<1>4. /\ t.received = Cut(wire, 0, j) /\ t.body = body /\ t.end = "more"
      /\ t.size = q.size /\ t.chunks = q.chunks /\ t.go = q.go
  BY <1>2, <1>3 DEF HttpState
<1>5. v = IF BodyAt(t.received) = 0 THEN t
          ELSE IF u.size = -1 THEN [u EXCEPT !.end = "done", !.body = u.chunks] ELSE u
  BY <1>1, <1>2 DEF Receive
<1>6. CASE j < 5
  <2>1. v = t BY <1>3, <1>5, <1>6
  <2>2. i < 5 BY <1>6
  <2>3. q.size = 0 /\ q.chunks = <<>> BY <2>2 DEF Unfinished
  <2>4. ~(j >= 5) BY <1>6
  <2>5. Unfinished(t, wire, coded, chunks, start, j) BY <1>4, <2>3, <2>4 DEF Unfinished
  <2> QED BY <1>3, <2>1, <2>5
<1>7. CASE ~(j < 5)
  <2>1. PICK k : k = j - 5 OBVIOUS
  <2>2. /\ k \in Nat /\ k <= Len(coded) /\ coded \in Seq(Byte) /\ Len(coded) \in Nat
        /\ j >= 5 /\ j = k + 5
    <3>1. coded \in Seq(Byte) /\ Len(wire) = Len(coded) + 5 BY DEF WireLaid
    <3>2. Len(coded) \in Nat BY <3>1
    <3> QED BY <1>7, <2>1, <3>1, <3>2
  <2>3. PICK s : s = [t EXCEPT !.go = TRUE] OBVIOUS
  <2>4. /\ s.go /\ s.end = "more" /\ s.size = q.size /\ s.chunks = q.chunks /\ s.body = body
    BY <1>3, <1>4, <2>3 DEF HttpState
  <2>5. Moving(s, coded, chunks, start, k)
    <3>1. Len(chunks) \in Nat /\ 0 \in 0..Len(chunks)
      <4>1. Len(chunks) \in Nat BY Places
      <4> QED BY <4>1
    <3>2. CASE i < 5
      <4>1. q.size = 0 /\ q.chunks = <<>> BY <3>2 DEF Unfinished
      <4>2. body = Cut(coded, 0, k) BY <1>1, <1>7, <2>1, <3>2 DEF Arrived
      <4>3. start[0] = 0 BY DEF Coding, ChunksLaid
      <4>4. Joined(chunks)[0] = <<>> BY BodyByChunk DEF Coding
      <4>5. 0 <= k BY <2>2
      <4>6. Between(s, coded, chunks, start, 0, k)
        BY <2>4, <3>1, <4>1, <4>2, <4>3, <4>4, <4>5 DEF Between
      <4> QED BY <2>4, <3>1, <4>6 DEF Moving
    <3>3. CASE ~(i < 5)
      <4>1. PICK m : m = i - 5 OBVIOUS
      <4>2. m \in Nat /\ m <= k /\ i >= 5 BY <2>1, <3>3, <4>1
      <4>3. Short(q, coded, chunks, start, m) BY <4>1, <4>2 DEF Unfinished
      <4>4. body = q.body \o Cut(coded, m, k) BY <1>1, <1>7, <2>1, <3>3, <4>1 DEF Arrived
      <4>5. PICK n \in 0..Len(chunks) :
              Between(q, coded, chunks, start, n, m) \/ InChunk(q, coded, chunks, start, n, m)
        BY <4>3 DEF Short
      <4>6. CASE Between(q, coded, chunks, start, n, m)
        <5>1. PICK p : p = start[n] OBVIOUS
        <5>2. p \in Nat BY <5>1, Places
        <5>3. /\ p <= m /\ q.size = 0 /\ q.body = Cut(coded, p, m) /\ q.chunks = Joined(chunks)[n]
          BY <4>6, <5>1 DEF Between
        <5>4. body = Cut(coded, p, k)
          <6>1. Cut(coded, p, m) \o Cut(coded, m, k) = Cut(coded, p, k)
            BY <2>2, <4>2, <5>2, <5>3, CutsJoin
          <6> QED BY <4>4, <5>2, <5>3, <6>1
        <5>5. p <= k BY <2>2, <4>2, <5>2, <5>3
        <5>6. Between(s, coded, chunks, start, n, k)
          BY <2>4, <5>1, <5>3, <5>4, <5>5 DEF Between
        <5> QED BY <2>4, <5>6 DEF Moving
      <4>7. CASE InChunk(q, coded, chunks, start, n, m)
        <5>1. PICK p : p = DataAt(chunks, start, n) OBVIOUS
        <5>2. /\ n \in 1..Len(chunks) /\ p <= m /\ q.size = Len(chunks[n])
              /\ q.body = Cut(coded, p, m) /\ q.chunks = Joined(chunks)[n - 1]
          BY <4>7, <5>1 DEF InChunk
        <5>3. p \in Nat
          <6>1. PICK a, b : a = start[n - 1] /\ b = Len(chunks[n]) OBVIOUS
          <6>2. n - 1 \in 0..Len(chunks) BY <3>1, <5>2
          <6>3. a \in Nat /\ b \in Nat BY <5>2, <6>1, <6>2, Places
          <6>4. p = a + (b + 2) BY <5>1, <6>1 DEF DataAt
          <6> QED BY <6>3, <6>4
        <5>4. body = Cut(coded, p, k)
          <6>1. Cut(coded, p, m) \o Cut(coded, m, k) = Cut(coded, p, k)
            BY <2>2, <4>2, <5>2, <5>3, CutsJoin
          <6> QED BY <4>4, <5>2, <5>3, <6>1
        <5>5. p <= k BY <2>2, <4>2, <5>2, <5>3
        <5>6. InChunk(s, coded, chunks, start, n, k)
          BY <2>4, <5>1, <5>2, <5>4, <5>5 DEF InChunk
        <5> QED BY <2>4, <5>6 DEF Moving
      <4> QED BY <4>5, <4>6, <4>7
    <3> QED BY <3>2, <3>3
  <2>6. u \in HttpState /\ u.received = t.received /\ Settled(u, coded, chunks, start, k)
    <3>1. Moving([t EXCEPT !.go = TRUE], coded, chunks, start, k) BY <2>3, <2>5
    <3>2. WorkEnds(WorkOnAll(t), t, coded, chunks, start, k) BY <1>3, <2>2, <3>1, RoundsSettle
    <3> QED BY <1>1, <3>2 DEF WorkEnds
  <2>7. v = IF u.size = -1 THEN [u EXCEPT !.end = "done", !.body = u.chunks] ELSE u
    BY <1>3, <1>5, <2>2
  <2>8. CASE Short(u, coded, chunks, start, k)
    <3>1. u.size # -1
      <4>1. PICK n \in 0..Len(chunks) :
              Between(u, coded, chunks, start, n, k) \/ InChunk(u, coded, chunks, start, n, k)
        BY <2>8 DEF Short
      <4>2. CASE Between(u, coded, chunks, start, n, k) BY <4>2 DEF Between
      <4>3. CASE InChunk(u, coded, chunks, start, n, k)
        <5>1. n \in 1..Len(chunks) /\ u.size = Len(chunks[n]) BY <4>3 DEF InChunk
        <5>2. Len(chunks[n]) \in Nat BY <5>1, Places
        <5> QED BY <5>1, <5>2
      <4> QED BY <4>1, <4>2, <4>3
    <3>2. v = u BY <2>7, <3>1
    <3>3. ~(j < 5) /\ j - 5 = k BY <1>7, <2>1
    <3>4. Unfinished(v, wire, coded, chunks, start, j)
      BY <1>4, <2>6, <2>8, <3>2, <3>3 DEF Unfinished
    <3> QED BY <2>6, <3>2, <3>4
  <2>9. CASE Torn(u, chunks, start, k)
    <3>1. u.size = 0 /\ u.end = "throws" BY <2>9 DEF Torn
    <3>2. v = u BY <2>7, <3>1
    <3>3. Broken(chunks, start, j) BY <2>2, <2>9 DEF Torn, Broken
    <3> QED BY <2>6, <3>1, <3>2, <3>3
  <2>10. CASE Over(u, chunks, start, k)
    <3>1. /\ u.size = -1 /\ u.chunks = Joined(chunks)[Len(chunks)]
          /\ k >= start[Len(chunks)] + 3
      BY <2>10 DEF Over
    <3>2. v = [u EXCEPT !.end = "done", !.body = u.chunks] BY <2>7, <3>1
    <3>3. v \in HttpState /\ v.end = "done" /\ v.body = u.chunks BY <2>6, <3>2 DEF HttpState
    <3>4. j >= start[Len(chunks)] + 8
      <4>1. Len(chunks) \in 0..Len(chunks)
        <5>1. Len(chunks) \in Nat BY Places
        <5> QED BY <5>1
      <4>2. PICK b : b = start[Len(chunks)] OBVIOUS
      <4>3. b \in Nat BY <4>1, <4>2, Places
      <4> QED BY <2>2, <3>1, <4>2, <4>3
    <3> QED BY <3>1, <3>3, <3>4 DEF Finished
  <2> QED BY <2>6, <2>8, <2>9, <2>10 DEF Settled
<1> QED BY <1>6, <1>7

\* The pieces of a response, cut behind so many cells.
CutUp(pieces, wire, cut) ==
  /\ Len(pieces) \in Nat /\ cut[0] = 0
  /\ \A n \in 0..Len(pieces) : cut[n] \in Nat /\ cut[n] <= Len(wire)
  /\ \A n \in 1..Len(pieces) :
       cut[n - 1] <= cut[n] /\ pieces[n] = Cut(wire, cut[n - 1], cut[n])

LEMMA EmptyState == Empty \in HttpState
<1>1. <<>> \in Seq(Byte) /\ 0 \in Int OBVIOUS
<1> QED BY <1>1 DEF Empty, HttpState

\* The reader of a chunked response after n pieces.
ChunkedRead(q, wire, coded, chunks, start, cut, n) ==
  /\ q \in HttpState
  /\ \/ /\ Unfinished(q, wire, coded, chunks, start, cut[n])
        /\ \A m \in 1..n : ~Broken(chunks, start, cut[m])
     \/ /\ Finished(q, chunks, start, cut[n])
        /\ \A m \in 1..n : ~Broken(chunks, start, cut[m])
     \/ q.end = "throws" /\ \E m \in 1..n : Broken(chunks, start, cut[m])

\* However many pieces: by induction.
LEMMA ChunkedReads ==
  ASSUME NEW wire, NEW coded, WireLaid(wire, coded), NEW chunks, NEW start,
         Coding(coded, chunks, start), NEW pieces, NEW cut, CutUp(pieces, wire, cut),
         NEW r, r.chunked, NEW exact
  PROVE  ChunkedRead(Pieces(r, exact, pieces), wire, coded, chunks, start, cut, Len(pieces))
<1> DEFINE after == Received(r, exact, pieces)
           len == Len(pieces)
           Good(n) == ChunkedRead(after[n], wire, coded, chunks, start, cut, n)
           T == {n \in Nat : n <= len => Good(n)}
<1>1. /\ len \in Nat /\ cut[0] = 0
      /\ \A n \in 0..len : cut[n] \in Nat /\ cut[n] <= Len(wire)
      /\ \A n \in 1..len : cut[n - 1] <= cut[n] /\ pieces[n] = Cut(wire, cut[n - 1], cut[n])
  BY DEF CutUp
<1>2. after[0] = Empty /\ \A n \in 1..len : after[n] = Receive(r, exact, after[n - 1], pieces[n])
  BY <1>1, PieceByPiece
<1>3. Pieces(r, exact, pieces) = after[len] BY DEF Pieces
<1> HIDE DEF after, len
<1>4. 0 \in T
  <2>1. Unfinished(Empty, wire, coded, chunks, start, 0)
    <3>1. wire \in Seq(Byte) /\ Len(wire) \in Nat
      <4>1. wire \in Seq(Byte) BY DEF WireLaid
      <4> QED BY <4>1
    <3>2. 0 <= Len(wire) /\ 0 \in Nat /\ ~(0 >= 5) BY <3>1
    <3>3. Cut(wire, 0, 0) = <<>> BY <3>1, <3>2, CutNothing
    <3> QED BY <3>2, <3>3 DEF Unfinished, Empty
  <2>2. \A m \in 1..0 : FALSE OBVIOUS
  <2>3. Good(0) BY <1>1, <1>2, <2>1, <2>2, EmptyState DEF ChunkedRead
  <2> QED BY <2>3
<1>5. ASSUME NEW n \in Nat, n \in T PROVE n + 1 \in T
  <2> SUFFICES ASSUME n + 1 <= len PROVE Good(n + 1) BY <1>5
  <2>1. PICK m : m = n + 1 OBVIOUS
  <2>2. /\ m \in 1..len /\ m - 1 = n /\ n <= len /\ n \in 0..len /\ m \in 0..len
        /\ m \in 1..m /\ n \in 0..m /\ \A x \in 1..n : x \in 1..m
        /\ \A x \in 1..m : x \in 1..n \/ x = m
    BY <1>1, <2>1
  <2>3. PICK i, j, q, v : i = cut[n] /\ j = cut[m] /\ q = after[n] /\ v = after[m] OBVIOUS
  <2>4. /\ i \in Nat /\ j \in Nat /\ i <= j /\ j <= Len(wire)
        /\ v = Receive(r, exact, q, Cut(wire, i, j))
    BY <1>1, <1>2, <2>2, <2>3
  <2>5. ChunkedRead(q, wire, coded, chunks, start, cut, n) BY <1>5, <2>2, <2>3
  <2>6. q \in HttpState BY <2>5 DEF ChunkedRead
  <2>7. q.end # "more" => v = q BY <2>4 DEF Receive
  <2>8. CASE /\ Unfinished(q, wire, coded, chunks, start, i)
             /\ \A x \in 1..n : ~Broken(chunks, start, cut[x])
    <3>1. /\ v \in HttpState
          /\ \/ Unfinished(v, wire, coded, chunks, start, j)
             \/ Finished(v, chunks, start, j)
             \/ v.end = "throws" /\ Broken(chunks, start, j)
      BY <2>4, <2>6, <2>8, ChunkedPiece
    <3>2. CASE Unfinished(v, wire, coded, chunks, start, j)
      <4>1. ~Broken(chunks, start, j) BY <2>4, <3>2, UnfinishedIsWhole
      <4>2. \A x \in 1..m : ~Broken(chunks, start, cut[x]) BY <2>2, <2>3, <2>8, <4>1
      <4> QED BY <2>1, <2>3, <3>1, <3>2, <4>2 DEF ChunkedRead
    <3>3. CASE Finished(v, chunks, start, j)
      <4>1. j >= start[Len(chunks)] + 8 BY <3>3 DEF Finished
      <4>2. ~Broken(chunks, start, j) BY <2>4, <4>1, FinishedIsWhole
      <4>3. \A x \in 1..m : ~Broken(chunks, start, cut[x]) BY <2>2, <2>3, <2>8, <4>2
      <4> QED BY <2>1, <2>3, <3>1, <3>3, <4>3 DEF ChunkedRead
    <3>4. CASE v.end = "throws" /\ Broken(chunks, start, j)
      BY <2>1, <2>2, <2>3, <3>1, <3>4 DEF ChunkedRead
    <3> QED BY <3>1, <3>2, <3>3, <3>4
  <2>9. CASE /\ Finished(q, chunks, start, i)
             /\ \A x \in 1..n : ~Broken(chunks, start, cut[x])
    <3>1. v = q BY <2>7, <2>9 DEF Finished
    <3>2. PICK b : b = start[Len(chunks)] OBVIOUS
    <3>3. b \in Nat
      <4>1. Len(chunks) \in Nat BY Places
      <4>2. Len(chunks) \in 0..Len(chunks) BY <4>1
      <4> QED BY <3>2, <4>2, Places
    <3>4. i >= b + 8 BY <2>9, <3>2 DEF Finished
    <3>5. j >= b + 8 BY <2>4, <3>3, <3>4
    <3>6. Finished(v, chunks, start, j) BY <2>9, <3>1, <3>2, <3>5 DEF Finished
    <3>7. ~Broken(chunks, start, j) BY <2>4, <3>2, <3>5, FinishedIsWhole
    <3>8. \A x \in 1..m : ~Broken(chunks, start, cut[x]) BY <2>2, <2>3, <2>9, <3>7
    <3> QED BY <2>1, <2>3, <2>6, <3>1, <3>6, <3>8 DEF ChunkedRead
  <2>10. CASE q.end = "throws" /\ \E x \in 1..n : Broken(chunks, start, cut[x])
    <3>1. v = q BY <2>7, <2>10
    <3>2. \E x \in 1..m : Broken(chunks, start, cut[x]) BY <2>2, <2>10
    <3> QED BY <2>1, <2>3, <2>6, <2>10, <3>1, <3>2 DEF ChunkedRead
  <2> QED BY <2>3, <2>5, <2>8, <2>9, <2>10 DEF ChunkedRead
<1>6. Nat \subseteq T BY <1>4, <1>5, Induction
<1>7. Good(len) BY <1>1, <1>6
<1> QED BY <1>3, <1>7 DEF len

\* Whoever has got all of the response has finished.
LEMMA AllIsEnough ==
  ASSUME NEW wire, NEW coded, WireLaid(wire, coded), NEW chunks, NEW start,
         Coding(coded, chunks, start), NEW q
  PROVE  ~Unfinished(q, wire, coded, chunks, start, Len(wire))
<1> SUFFICES ASSUME Unfinished(q, wire, coded, chunks, start, Len(wire)) PROVE FALSE
  OBVIOUS
<1>1. PICK k, b : k = Len(coded) /\ b = start[Len(chunks)] OBVIOUS
<1>2. k \in Nat /\ k = b + 5 /\ Len(chunks) \in Nat BY <1>1, Places
<1>3. Len(chunks) \in 0..Len(chunks) BY <1>2
<1>4. b \in Nat BY <1>1, <1>3, Places
<1>5. Len(wire) = k + 5 BY <1>1 DEF WireLaid
<1>6. Len(wire) >= 5 /\ Len(wire) - 5 = k BY <1>2, <1>5
<1>7. Short(q, coded, chunks, start, k) BY <1>6 DEF Unfinished
<1>8. PICK n \in 0..Len(chunks) : k < LineEnd(chunks, start, n) \/ k < start[n]
  BY <1>7 DEF Short
<1>9. PICK e, a : e = LineEnd(chunks, start, n) /\ a = start[n] OBVIOUS
<1>10. e \in Nat /\ e <= b + 2 BY <1>1, <1>9, LineLaid
<1>11. a \in Nat /\ a <= b BY <1>1, <1>9, Places
<1> QED BY <1>2, <1>4, <1>8, <1>9, <1>10, <1>11

\* What the two readers answer to the pieces: they throw if one ends badly, return the
\* body if all of it has come, and save it if there is something to save.
Answered(r, pieces, body, unlucky, whole, saves) ==
  /\ WebRequest(r, pieces).end = "throws" <=> unlucky
  /\ WebRequest(r, pieces).end = "done" => WebRequest(r, pieces).body = body
  /\ whole /\ ~unlucky => WebRequest(r, pieces).end = "done"
  /\ DownloadFile(r, pieces).end = "saved" => DownloadFile(r, pieces).body = body
  /\ DownloadFile(r, pieces).end = "saved" <=> saves

\* A chunked response.
LEMMA ChunkedAnswered ==
  ASSUME NEW wire, NEW coded, WireLaid(wire, coded), NEW chunks, NEW start,
         Coding(coded, chunks, start), NEW pieces, NEW cut, CutUp(pieces, wire, cut),
         NEW r, r.chunked
  PROVE  Answered(r, pieces, Joined(chunks)[Len(chunks)],
                  \E m \in 1..Len(pieces) : Broken(chunks, start, cut[m]),
                  cut[Len(pieces)] = Len(wire), FALSE)
<1> DEFINE unlucky == \E m \in 1..Len(pieces) : Broken(chunks, start, cut[m])
<1>1. PICK q, n : q = Pieces(r, TRUE, pieces) /\ n = Len(pieces) OBVIOUS
<1>2. ChunkedRead(q, wire, coded, chunks, start, cut, n) BY <1>1, ChunkedReads
<1>3. /\ WebRequest(r, pieces).end = IF q.end = "more" THEN "endless" ELSE q.end
      /\ WebRequest(r, pieces).body = q.body
  BY <1>1 DEF WebRequest
<1>4. DownloadFile(r, pieces).end # "saved" BY DEF DownloadFile
<1>5. n \in Nat /\ cut[n] \in Nat
  <2>1. n \in Nat BY <1>1 DEF CutUp
  <2>2. n \in 0..n BY <2>1
  <2> QED BY <1>1, <2>1, <2>2 DEF CutUp
<1>6. CASE Unfinished(q, wire, coded, chunks, start, cut[n]) /\ ~unlucky
  <2>1. q.end = "more" BY <1>5, <1>6, UnfinishedIsWhole
  <2>2. WebRequest(r, pieces).end = "endless" BY <1>3, <2>1
  <2>3. cut[n] # Len(wire) BY <1>6, AllIsEnough
  <2> QED BY <1>1, <1>4, <1>6, <2>2, <2>3 DEF Answered
<1>7. CASE Finished(q, chunks, start, cut[n]) /\ ~unlucky
  <2>1. q.end = "done" /\ q.body = Joined(chunks)[Len(chunks)] BY <1>7 DEF Finished
  <2>2. /\ WebRequest(r, pieces).end = "done"
        /\ WebRequest(r, pieces).body = Joined(chunks)[Len(chunks)]
    BY <1>3, <2>1
  <2> QED BY <1>4, <1>7, <2>2 DEF Answered
<1>8. CASE q.end = "throws" /\ unlucky
  <2>1. WebRequest(r, pieces).end = "throws" BY <1>3, <1>8
  <2> QED BY <1>4, <1>8, <2>1 DEF Answered
<1> QED BY <1>1, <1>2, <1>6, <1>7, <1>8 DEF ChunkedRead

\* The reader of a response that is not chunked, after i cells.
PlainRead(q, wire, coded, length, i) ==
  /\ q \in HttpState
  /\ \/ /\ q.end = "more" /\ q.received = Cut(wire, 0, i)
        /\ i >= 5 => length >= 0 /\ i < Len(wire) /\ q.body = Cut(coded, 0, i - 5)
     \/ /\ q.end = "done" /\ q.received = Cut(wire, 0, i) /\ length >= 0
        /\ i = Len(wire) /\ q.body = coded
     \/ q.end = "throws" /\ length < 0 /\ i >= 5

\* One piece of such a response.
LEMMA PlainPiece ==
  ASSUME NEW wire, NEW coded, WireLaid(wire, coded), NEW i \in Nat, NEW j \in Nat,
         i <= j, j <= Len(wire), NEW r, ~r.chunked, NEW length \in Int, r.length = length,
         length < 0 \/ length = Len(coded), NEW exact, NEW q,
         PlainRead(q, wire, coded, length, i),
         NEW v, v = Receive(r, exact, q, Cut(wire, i, j))
  PROVE  PlainRead(v, wire, coded, length, j)
<1>1. q \in HttpState BY DEF PlainRead
<1>2. q.end # "more" => v = q BY DEF Receive
<1>3. PICK k, size : k = j - 5 /\ size = Len(coded) OBVIOUS
<1>4. /\ coded \in Seq(Byte) /\ size \in Nat /\ Len(wire) = size + 5
      /\ Len(wire) \in Nat
  <2>1. coded \in Seq(Byte) /\ Len(wire) = size + 5 BY <1>3 DEF WireLaid
  <2>2. size \in Nat BY <1>3, <2>1
  <2> QED BY <2>1, <2>2
<1>5. CASE q.end = "done"
  <2>1. q.received = Cut(wire, 0, i) /\ length >= 0 /\ i = Len(wire) /\ q.body = coded
    BY <1>5 DEF PlainRead
  <2>2. j = i BY <1>4, <2>1
  <2> QED BY <1>1, <1>2, <1>5, <2>1, <2>2 DEF PlainRead
<1>6. CASE q.end = "throws"
  <2>1. length < 0 /\ i >= 5 BY <1>6 DEF PlainRead
  <2>2. j >= 5 BY <2>1
  <2> QED BY <1>1, <1>2, <1>6, <2>1, <2>2 DEF PlainRead
<1>7. CASE q.end = "more"
  <2>1. /\ q.received = Cut(wire, 0, i)
        /\ i >= 5 => length >= 0 /\ i < Len(wire) /\ q.body = Cut(coded, 0, i - 5)
    BY <1>7 DEF PlainRead
  <2>2. PICK piece, body, t :
          piece = Cut(wire, i, j) /\ body = Arrived(q, coded, i, j) /\ t = Grown(q, piece)
    OBVIOUS
  <2>3. /\ t \in HttpState /\ t = [q EXCEPT !.received = Cut(wire, 0, j), !.body = body]
        /\ BodyAt(t.received) = IF j >= 5 THEN 6 ELSE 0
    <3>1. GrownTo(Grown(q, piece), q, wire, coded, i, j) BY <1>1, <2>1, <2>2, Grows
    <3> QED BY <2>2, <3>1 DEF GrownTo
  <2>4. t.received = Cut(wire, 0, j) /\ t.body = body /\ t.end = "more"
    BY <1>1, <1>7, <2>3 DEF HttpState
  <2>5. v = IF BodyAt(t.received) = 0 THEN t
            ELSE IF length < 0 THEN [t EXCEPT !.end = "throws"]
            ELSE IF Complete(exact, Len(t.body), length) THEN [t EXCEPT !.end = "done"] ELSE t
    BY <1>7, <2>2 DEF Receive
  <2>6. CASE j < 5
    <3>1. v = t /\ ~(j >= 5) BY <2>3, <2>5, <2>6
    <3> QED BY <2>3, <2>4, <3>1 DEF PlainRead
  <2>7. CASE ~(j < 5)
    <3>1. k \in Nat /\ k <= size /\ j >= 5 /\ j - 5 = k /\ j = k + 5
      BY <1>3, <1>4, <2>7
    <3>2. v = IF length < 0 THEN [t EXCEPT !.end = "throws"]
              ELSE IF Complete(exact, Len(t.body), length) THEN [t EXCEPT !.end = "done"] ELSE t
      BY <2>3, <2>5, <3>1
    <3>3. body = Cut(coded, 0, k)
      <4>1. CASE i < 5 BY <2>2, <2>7, <3>1, <4>1 DEF Arrived
      <4>2. CASE ~(i < 5)
        <5>1. PICK m, z : m = i - 5 /\ z = 0 OBVIOUS
        <5>2. m \in Nat /\ z \in Nat /\ z <= m /\ m <= k /\ i >= 5 BY <3>1, <4>2, <5>1
        <5>3. body = q.body \o Cut(coded, m, k) BY <2>2, <2>7, <3>1, <4>2, <5>1 DEF Arrived
        <5>4. q.body = Cut(coded, z, m) BY <2>1, <5>1, <5>2
        <5>5. Cut(coded, z, m) \o Cut(coded, m, k) = Cut(coded, z, k)
          <6>1. k <= Len(coded) BY <1>3, <3>1
          <6> QED BY <1>4, <3>1, <5>2, <6>1, CutsJoin
        <5> QED BY <5>1, <5>3, <5>4, <5>5
      <4> QED BY <4>1, <4>2
    <3>4. Len(body) = k
      <4>1. PICK z : z = 0 OBVIOUS
      <4>2. z \in Nat /\ z <= k /\ k - z = k BY <3>1, <4>1
      <4>3. IsCut(Cut(coded, z, k), coded, z, k) BY <1>3, <1>4, <3>1, <4>2, CutCells
      <4> QED BY <3>3, <4>1, <4>2, <4>3 DEF IsCut
    <3>5. CASE length < 0
      <4>1. v = [t EXCEPT !.end = "throws"] BY <3>2, <3>5
      <4>2. v \in HttpState /\ v.end = "throws" BY <2>3, <4>1 DEF HttpState
      <4> QED BY <3>1, <3>5, <4>2 DEF PlainRead
    <3>6. CASE ~(length < 0) /\ k = size
      <4>1. length = size /\ length >= 0 /\ j = Len(wire) BY <1>3, <1>4, <3>1, <3>6
      <4>2. Complete(exact, Len(t.body), length)
        <5>1. Len(t.body) = length BY <2>4, <3>4, <3>6, <4>1
        <5>2. length >= length OBVIOUS
        <5> QED BY <5>1, <5>2 DEF Complete
      <4>3. v = [t EXCEPT !.end = "done"] BY <3>2, <3>6, <4>2
      <4>4. /\ v \in HttpState /\ v.end = "done" /\ v.received = t.received /\ v.body = t.body
        BY <2>3, <4>3 DEF HttpState
      <4>5. body = coded BY <1>3, <1>4, <3>3, <3>6, CutWhole
      <4> QED BY <2>4, <4>1, <4>4, <4>5 DEF PlainRead
    <3>7. CASE ~(length < 0) /\ k # size
      <4>1. length = size /\ length >= 0 /\ j < Len(wire) BY <1>3, <1>4, <3>1, <3>7
      <4>2. ~Complete(exact, Len(t.body), length)
        <5>1. Len(t.body) = k BY <2>4, <3>4
        <5>2. k # length /\ ~(k >= length) BY <3>1, <3>7, <4>1
        <5> QED BY <5>1, <5>2 DEF Complete
      <4>3. v = t BY <3>2, <3>7, <4>2
      <4>4. v.body = Cut(coded, 0, j - 5) BY <2>4, <3>1, <3>3, <4>3
      <4> QED BY <2>3, <2>4, <4>1, <4>3, <4>4 DEF PlainRead
    <3> QED BY <3>5, <3>6, <3>7
  <2> QED BY <2>6, <2>7
<1> QED BY <1>5, <1>6, <1>7, <1>1 DEF HttpState

\* However many pieces.
LEMMA PlainReads ==
  ASSUME NEW wire, NEW coded, WireLaid(wire, coded), NEW pieces, NEW cut,
         CutUp(pieces, wire, cut), NEW r, ~r.chunked, NEW length \in Int, r.length = length,
         length < 0 \/ length = Len(coded), NEW exact
  PROVE  PlainRead(Pieces(r, exact, pieces), wire, coded, length, cut[Len(pieces)])
<1> DEFINE after == Received(r, exact, pieces)
           len == Len(pieces)
           Good(n) == PlainRead(after[n], wire, coded, length, cut[n])
           T == {n \in Nat : n <= len => Good(n)}
<1>1. /\ len \in Nat /\ cut[0] = 0
      /\ \A n \in 0..len : cut[n] \in Nat /\ cut[n] <= Len(wire)
      /\ \A n \in 1..len : cut[n - 1] <= cut[n] /\ pieces[n] = Cut(wire, cut[n - 1], cut[n])
  BY DEF CutUp
<1>2. after[0] = Empty /\ \A n \in 1..len : after[n] = Receive(r, exact, after[n - 1], pieces[n])
  BY <1>1, PieceByPiece
<1>3. Pieces(r, exact, pieces) = after[len] BY DEF Pieces
<1> HIDE DEF after, len
<1>4. 0 \in T
  <2>1. wire \in Seq(Byte) /\ Len(wire) \in Nat
    <3>1. wire \in Seq(Byte) BY DEF WireLaid
    <3> QED BY <3>1
  <2>2. 0 <= Len(wire) /\ 0 \in Nat /\ ~(0 >= 5) BY <2>1
  <2>3. Cut(wire, 0, 0) = <<>> BY <2>1, <2>2, CutNothing
  <2>4. Empty.end = "more" /\ Empty.received = <<>> BY DEF Empty
  <2>5. Good(0) BY <1>1, <1>2, <2>2, <2>3, <2>4, EmptyState DEF PlainRead
  <2> QED BY <2>5
<1>5. ASSUME NEW n \in Nat, n \in T PROVE n + 1 \in T
  <2> SUFFICES ASSUME n + 1 <= len PROVE Good(n + 1) BY <1>5
  <2>1. PICK m : m = n + 1 OBVIOUS
  <2>2. m \in 1..len /\ m - 1 = n /\ n <= len /\ n \in 0..len /\ m \in 0..len
    BY <1>1, <2>1
  <2>3. PICK i, j, q, v : i = cut[n] /\ j = cut[m] /\ q = after[n] /\ v = after[m] OBVIOUS
  <2>4. /\ i \in Nat /\ j \in Nat /\ i <= j /\ j <= Len(wire)
        /\ v = Receive(r, exact, q, Cut(wire, i, j))
    BY <1>1, <1>2, <2>2, <2>3
  <2>5. PlainRead(q, wire, coded, length, i) BY <1>5, <2>2, <2>3
  <2>6. PlainRead(v, wire, coded, length, j) BY <2>4, <2>5, PlainPiece
  <2> QED BY <2>1, <2>3, <2>6
<1>6. Nat \subseteq T BY <1>4, <1>5, Induction
<1>7. Good(len) BY <1>1, <1>6
<1> QED BY <1>3, <1>7 DEF len

\* A response that is not chunked, when k cells have come in all.
PlainAnswer(r, pieces, wire, coded, length, k) ==
  Answered(r, pieces, coded, length < 0 /\ k >= 5, k = Len(wire), length > 0 /\ k = Len(wire))

LEMMA PlainAnswered ==
  ASSUME NEW wire, NEW coded, WireLaid(wire, coded), NEW pieces, NEW cut,
         CutUp(pieces, wire, cut), NEW r, ~r.chunked, NEW length \in Int, r.length = length,
         length < 0 \/ length = Len(coded)
  PROVE  PlainAnswer(r, pieces, wire, coded, length, cut[Len(pieces)])
<1>1. PICK q, p, i, size : /\ q = Pieces(r, TRUE, pieces) /\ p = Pieces(r, FALSE, pieces)
                           /\ i = cut[Len(pieces)] /\ size = Len(coded)
  OBVIOUS
<1>2. PlainRead(q, wire, coded, length, i) /\ PlainRead(p, wire, coded, length, i)
  BY <1>1, PlainReads
<1>3. i \in Nat /\ i <= Len(wire)
  <2>1. Len(pieces) \in 0..Len(pieces)
    <3>1. Len(pieces) \in Nat BY DEF CutUp
    <3> QED BY <3>1
  <2> QED BY <1>1, <2>1 DEF CutUp
<1>4. coded \in Seq(Byte) /\ size \in Nat /\ Len(wire) = size + 5
  <2>1. coded \in Seq(Byte) /\ Len(wire) = size + 5 BY <1>1 DEF WireLaid
  <2> QED BY <1>1, <2>1
<1>5. /\ WebRequest(r, pieces).end = IF q.end = "more" THEN "endless" ELSE q.end
      /\ WebRequest(r, pieces).body = q.body
  BY <1>1 DEF WebRequest
<1>6. /\ WebRequest(r, pieces).end = "throws" <=> length < 0 /\ i >= 5
      /\ WebRequest(r, pieces).end = "done" => WebRequest(r, pieces).body = coded
      /\ i = Len(wire) /\ ~(length < 0 /\ i >= 5) => WebRequest(r, pieces).end = "done"
  <2>1. CASE q.end = "more"
    <3>1. i >= 5 => length >= 0 /\ i < Len(wire) BY <1>2, <2>1 DEF PlainRead
    <3>2. WebRequest(r, pieces).end = "endless" BY <1>5, <2>1
    <3>3. ~(length < 0 /\ i >= 5) /\ i # Len(wire) BY <1>3, <1>4, <3>1
    <3> QED BY <3>2, <3>3
  <2>2. CASE q.end = "done"
    <3>1. length >= 0 /\ q.body = coded BY <1>2, <2>2 DEF PlainRead
    <3>2. ~(length < 0) BY <3>1
    <3> QED BY <1>5, <2>2, <3>1, <3>2
  <2>3. CASE q.end = "throws"
    <3>1. length < 0 /\ i >= 5 BY <1>2, <2>3 DEF PlainRead
    <3> QED BY <1>5, <2>3, <3>1
  <2> QED BY <1>2, <2>1, <2>2, <2>3 DEF PlainRead
<1>7. PICK size2 : size2 = IF r.chunked \/ BodyAt(p.received) = 0 THEN 0 ELSE r.length OBVIOUS
<1>8. DownloadFile(r, pieces) =
        IF p.end = "throws" THEN [end |-> "throws", body |-> <<>>]
        ELSE IF Len(p.body) < size2 \/ size2 = 0 THEN [end |-> "failed", body |-> <<>>]
        ELSE [end |-> "saved", body |-> SubSeq(p.body, 1, size2)]
  BY <1>1, <1>7 DEF DownloadFile
<1>9. BodyAt(Cut(wire, 0, i)) = IF i >= 5 THEN 6 ELSE 0 BY <1>3, BodyIsFound
<1>10. /\ DownloadFile(r, pieces).end = "saved" => DownloadFile(r, pieces).body = coded
       /\ DownloadFile(r, pieces).end = "saved" <=> length > 0 /\ i = Len(wire)
  <2>1. CASE p.end = "more"
    <3>1. /\ p.received = Cut(wire, 0, i)
          /\ i >= 5 => length >= 0 /\ i < Len(wire) /\ p.body = Cut(coded, 0, i - 5)
      BY <1>2, <2>1 DEF PlainRead
    <3>2. CASE i < 5
      <4>1. BodyAt(p.received) = 0 BY <1>3, <1>9, <3>1, <3>2
      <4>2. DownloadFile(r, pieces).end = "failed" BY <1>7, <1>8, <2>1, <4>1
      <4>3. i # Len(wire) BY <1>4, <3>2
      <4> QED BY <4>2, <4>3
    <3>3. CASE ~(i < 5)
      <4>1. PICK k, z : k = i - 5 /\ z = 0 OBVIOUS
      <4>2. /\ k \in Nat /\ z \in Nat /\ z <= k /\ k <= size /\ k - z = k /\ i >= 5
            /\ i < Len(wire) /\ k < size
        BY <1>3, <1>4, <3>1, <3>3, <4>1
      <4>3. p.body = Cut(coded, z, k) BY <3>1, <4>1, <4>2
      <4>4. IsCut(Cut(coded, z, k), coded, z, k) BY <1>1, <1>4, <4>2, CutCells
      <4>5. Len(p.body) = k BY <4>2, <4>3, <4>4 DEF IsCut
      <4>6. BodyAt(p.received) # 0 BY <1>9, <3>1, <4>2
      <4>7. size2 = length BY <1>7, <4>6
      <4>8. length = size
        <5>1. ~(length < 0) BY <3>1, <4>2
        <5> QED BY <1>1, <5>1
      <4>9. Len(p.body) < size2 BY <4>2, <4>5, <4>7, <4>8
      <4>10. DownloadFile(r, pieces).end = "failed" BY <1>8, <2>1, <4>9
      <4>11. i # Len(wire) BY <1>3, <1>4, <4>2
      <4> QED BY <4>10, <4>11
    <3> QED BY <3>2, <3>3
  <2>2. CASE p.end = "done"
    <3>1. /\ p.received = Cut(wire, 0, i) /\ length >= 0 /\ i = Len(wire) /\ p.body = coded
      BY <1>2, <2>2 DEF PlainRead
    <3>2. length = size
      <4>1. ~(length < 0) BY <3>1
      <4> QED BY <1>1, <4>1
    <3>3. i >= 5 BY <1>4, <3>1
    <3>4. BodyAt(p.received) # 0 BY <1>9, <3>1, <3>3
    <3>5. size2 = size BY <1>7, <3>2, <3>4
    <3>6. CASE size = 0
      <4>1. DownloadFile(r, pieces).end = "failed" BY <1>8, <2>2, <3>5, <3>6
      <4>2. ~(length > 0) BY <3>2, <3>6
      <4> QED BY <4>1, <4>2
    <3>7. CASE size # 0
      <4>1. ~(size < size) /\ length > 0 BY <1>4, <3>2, <3>7
      <4>2. Len(p.body) = size BY <1>1, <3>1
      <4>3. DownloadFile(r, pieces) = [end |-> "saved", body |-> SubSeq(p.body, 1, size)]
        BY <1>8, <2>2, <3>5, <3>7, <4>1, <4>2
      <4>4. SubSeq(p.body, 1, size) = coded BY <1>1, <1>4, <3>1, SubSeqFull
      <4> QED BY <3>1, <4>1, <4>3, <4>4
    <3> QED BY <3>6, <3>7
  <2>3. CASE p.end = "throws"
    <3>1. length < 0 BY <1>2, <2>3 DEF PlainRead
    <3>2. DownloadFile(r, pieces).end = "throws" BY <1>8, <2>3
    <3>3. ~(length > 0) BY <3>1
    <3> QED BY <3>2, <3>3
  <2> QED BY <1>2, <2>1, <2>2, <2>3 DEF PlainRead
<1> QED BY <1>1, <1>6, <1>10 DEF PlainAnswer, Answered

\* What the bytes of a body are in the run; none is a digit.
Data == {"d", "CR", "LF"}

\* The line breaks behind a digit.
SizeEnds(wire) == {i \in 2..Len(wire) : wire[i] = "CR" /\ wire[i - 1] \in {"1", "0"}}

\* A digit in front of a line break is in the body.
LEMMA DigitInBody ==
  ASSUME NEW wire, NEW coded, WireLaid(wire, coded), NEW i
  PROVE  i \in SizeEnds(wire) <=>
           \E x \in 1..Len(coded) : /\ i = x + 6 /\ x + 1 \in 1..Len(coded)
                                    /\ coded[x + 1] = "CR" /\ coded[x] \in {"1", "0"}
<1>1. PICK size : size = Len(coded) OBVIOUS
<1>2. /\ coded \in Seq(Byte) /\ size \in Nat /\ Len(wire) = size + 5
      /\ wire[1] = "h" /\ wire[2] = "CR" /\ wire[3] = "LF" /\ wire[4] = "CR" /\ wire[5] = "LF"
      /\ \A x \in 1..size : wire[5 + x] = coded[x]
  <2>1. coded \in Seq(Byte) BY DEF WireLaid
  <2>2. size \in Nat BY <1>1, <2>1
  <2> QED BY <1>1, <2>1, <2>2 DEF WireLaid
<1>3. ASSUME i \in SizeEnds(wire)
      PROVE  \E x \in 1..size : /\ i = x + 6 /\ x + 1 \in 1..size
                                /\ coded[x + 1] = "CR" /\ coded[x] \in {"1", "0"}
  <2>1. i \in 2..(size + 5) /\ wire[i] = "CR" /\ wire[i - 1] \in {"1", "0"}
    BY <1>2, <1>3 DEF SizeEnds
  <2>2. PICK j, x : j = i - 1 /\ x = i - 6 OBVIOUS
  <2>3. wire[j] \in {"1", "0"} BY <2>1, <2>2
  <2>4. j # 1 /\ j # 2 /\ j # 3 /\ j # 4 /\ j # 5 BY <1>2, <2>3
  <2>5. x \in 1..size /\ x + 1 \in 1..size /\ i = x + 6 /\ 5 + x = j /\ 5 + (x + 1) = i
    BY <1>2, <2>1, <2>2, <2>4
  <2>6. coded[x] = wire[j] /\ coded[x + 1] = wire[i] BY <1>2, <2>5
  <2> QED BY <2>1, <2>3, <2>5, <2>6
<1>4. ASSUME NEW x \in 1..size, i = x + 6, x + 1 \in 1..size, coded[x + 1] = "CR",
             coded[x] \in {"1", "0"}
      PROVE  i \in SizeEnds(wire)
  <2>1. i \in 2..(size + 5) /\ 5 + x = i - 1 /\ 5 + (x + 1) = i BY <1>2, <1>4
  <2>2. wire[i] = "CR" /\ wire[i - 1] \in {"1", "0"} BY <1>2, <1>4, <2>1
  <2> QED BY <1>2, <2>1, <2>2 DEF SizeEnds
<1> QED BY <1>1, <1>3, <1>4

\* A body of data has none.
LEMMA PlainHasNone ==
  ASSUME NEW wire, NEW coded \in Seq(Data), WireLaid(wire, coded)
  PROVE  SizeEnds(wire) = {}
<1> SUFFICES ASSUME NEW i \in SizeEnds(wire) PROVE FALSE OBVIOUS
<1>1. PICK x \in 1..Len(coded) : coded[x] \in {"1", "0"} BY DigitInBody
<1>2. coded[x] \in Data OBVIOUS
<1> QED BY <1>1, <1>2 DEF Data

\* Every cell of the coding is in a chunk or behind the last.
LEMMA InSomeChunk ==
  ASSUME NEW coded, NEW chunks, NEW start, Coding(coded, chunks, start), NEW x \in Nat \ {0},
         x <= start[Len(chunks)]
  PROVE  \E n \in 1..Len(chunks) : start[n - 1] < x /\ x <= start[n]
<1> DEFINE T == {n \in Nat : n <= Len(chunks) /\ x <= start[n] =>
                               \E m \in 1..n : start[m - 1] < x /\ x <= start[m]}
<1>1. Len(chunks) \in Nat /\ \A n \in 0..Len(chunks) : start[n] \in Nat BY Places
<1>2. 0 \in T
  <2>1. start[0] = 0 BY DEF Coding, ChunksLaid
  <2>2. ~(x <= 0) OBVIOUS
  <2> QED BY <2>1, <2>2
<1>3. ASSUME NEW n \in Nat, n \in T PROVE n + 1 \in T
  <2> SUFFICES ASSUME n + 1 <= Len(chunks), x <= start[n + 1]
               PROVE  \E m \in 1..(n + 1) : start[m - 1] < x /\ x <= start[m]
    OBVIOUS
  <2>1. /\ n \in 0..Len(chunks) /\ n <= Len(chunks) /\ n + 1 \in 1..(n + 1) /\ (n + 1) - 1 = n
        /\ \A m \in 1..n : m \in 1..(n + 1)
    BY <1>1
  <2>2. CASE x <= start[n] BY <1>3, <2>1, <2>2
  <2>3. CASE ~(x <= start[n])
    <3>1. PICK m : m = n + 1 OBVIOUS
    <3>2. m - 1 = n /\ m \in 1..(n + 1) /\ x <= start[m] BY <2>1, <3>1
    <3>3. start[m - 1] < x BY <1>1, <2>1, <2>3, <3>2
    <3> QED BY <3>2, <3>3
  <2> QED BY <2>2, <2>3
<1>4. Nat \subseteq T BY <1>2, <1>3, Induction
<1>5. Len(chunks) <= Len(chunks) BY <1>1
<1> QED BY <1>1, <1>4, <1>5

\* The line breaks behind a digit are those of the size lines.
LEMMA SizesEndLines ==
  ASSUME NEW wire, NEW coded, WireLaid(wire, coded), NEW chunks, NEW start,
         Coding(coded, chunks, start), \A n \in 1..Len(chunks) : chunks[n] \in Seq(Data), NEW i
  PROVE  i \in SizeEnds(wire) <=> Broken(chunks, start, i)
<1>1. /\ Len(chunks) \in Nat /\ Len(coded) \in Nat /\ Len(coded) = start[Len(chunks)] + 5
      /\ Len(chunks) \in 0..Len(chunks)
  <2>1. Len(chunks) \in Nat /\ Len(coded) \in Nat /\ Len(coded) = start[Len(chunks)] + 5
    BY Places
  <2> QED BY <2>1
<1>2. PICK size, last : size = Len(coded) /\ last = start[Len(chunks)] OBVIOUS
<1>3. size \in Nat /\ last \in Nat /\ size = last + 5 BY <1>1, <1>2, Places
<1>4. ASSUME NEW n \in 0..Len(chunks), i = LineEnd(chunks, start, n) + 5
      PROVE  i \in SizeEnds(wire)
  <2>1. PICK length, p, mark :
          /\ length = LineLength(chunks, n) /\ p = start[n]
          /\ mark = IF n < Len(chunks) THEN "1" ELSE "0"
    OBVIOUS
  <2>2. p \in Nat /\ p <= last BY <1>2, <2>1, Places
  <2>3. /\ length \in Nat \ {0} /\ SizeLine(coded, p, length, mark)
        /\ LineEnd(chunks, start, n) = p + (length + 1)
        /\ p + (length + 1) <= last + 2
    BY <1>2, <2>1, LineLaid
  <2>4. PICK x : x = p + length OBVIOUS
  <2>5. /\ x \in 1..size /\ x + 1 \in 1..size /\ x + 1 = p + (length + 1) /\ i = x + 6
        /\ length \in 1..length
    BY <1>3, <1>4, <2>2, <2>3, <2>4
  <2>6. coded[x + 1] = "CR" BY <2>3, <2>5 DEF SizeLine
  <2>7. coded[x] = mark BY <2>3, <2>4, <2>5 DEF SizeLine
  <2>8. mark \in {"1", "0"} BY <2>1
  <2> QED BY <1>2, <2>5, <2>6, <2>7, <2>8, DigitInBody
<1>5. ASSUME i \in SizeEnds(wire) PROVE Broken(chunks, start, i)
  <2>1. PICK x \in 1..size : /\ i = x + 6 /\ x + 1 \in 1..size
                             /\ coded[x + 1] = "CR" /\ coded[x] \in {"1", "0"}
    BY <1>2, <1>5, DigitInBody
  <2>2. CASE x > last
    <3>1. /\ coded[last + 1] = "0"
          /\ coded[last + 2] = "CR" /\ coded[last + 3] = "LF"
          /\ coded[last + 4] = "CR" /\ coded[last + 5] = "LF"
      BY <1>2 DEF Coding, ChunksLaid
    <3>2. x = last + 1 \/ x = last + 2 \/ x = last + 3 \/ x = last + 4 \/ x = last + 5
      BY <1>3, <2>1, <2>2
    <3>3. x = last + 1 BY <2>1, <3>1, <3>2
    <3>4. PICK n : n = Len(chunks) OBVIOUS
    <3>5. n \in 0..Len(chunks) /\ ~(n < Len(chunks)) BY <1>1, <3>4
    <3>6. LineLength(chunks, n) = 1 BY <3>5 DEF LineLength
    <3>7. LineEnd(chunks, start, n) = last + (1 + 1) BY <1>2, <3>4, <3>6 DEF LineEnd
    <3>8. last + (1 + 1) + 5 = x + 6 BY <1>3, <3>3
    <3> QED BY <2>1, <3>5, <3>7, <3>8 DEF Broken
  <2>3. CASE ~(x > last)
    <3>1. x \in Nat \ {0} /\ x <= last BY <1>3, <2>1, <2>3
    <3>2. PICK n \in 1..Len(chunks) : start[n - 1] < x /\ x <= start[n]
      BY <1>2, <3>1, InSomeChunk
    <3>3. PICK m, at, s, length :
            m = n - 1 /\ at = start[m] /\ s = chunks[n] /\ length = Len(s)
      OBVIOUS
    <3>4. m \in 0..Len(chunks) /\ m < Len(chunks) /\ m + 1 = n BY <1>1, <3>3
    <3>5. at \in Nat /\ length \in Nat \ {0} /\ s \in Seq(Data)
          /\ start[n] = at + length + length + 4
      BY <3>2, <3>3, <3>4, Places
    <3>6. ChunkLaid(coded, at, s) BY <3>2, <3>3 DEF Coding, ChunksLaid
    <3>7. PICK y : y = x - at OBVIOUS
    <3>8. y \in 1..(length + length + 4) /\ x = at + y
      <4>1. at \in Nat /\ length \in Nat /\ x \in Nat BY <3>1, <3>5
      <4>2. at < x /\ x <= at + length + length + 4 BY <3>2, <3>3, <3>5
      <4> QED BY <3>7, <4>1, <4>2
    <3>9. /\ \A j \in 1..length : coded[at + j] = "1" /\ coded[at + (length + 2) + j] = s[j]
          /\ coded[at + (length + 1)] = "CR" /\ coded[at + (length + 2)] = "LF"
          /\ coded[at + (length + length + 3)] = "CR"
          /\ coded[at + (length + length + 4)] = "LF"
      BY <3>3, <3>6 DEF ChunkLaid
    <3>10. y = length
      <4>1. CASE y \in 1..length /\ y # length
        <5>1. y + 1 \in 1..length /\ x + 1 = at + (y + 1) BY <3>5, <3>8, <4>1
        <5> QED BY <2>1, <3>9, <5>1
      <4>2. CASE y \in (length + 3)..(length + length + 2)
        <5>1. PICK j : j = y - (length + 2) OBVIOUS
        <5>2. j \in 1..length /\ x = at + (length + 2) + j BY <3>5, <3>8, <4>2, <5>1
        <5>3. s[j] \in Data BY <3>3, <3>5, <5>2
        <5>4. coded[x] = s[j] BY <3>9, <5>2
        <5> QED BY <2>1, <5>3, <5>4 DEF Data
      <4>3. \/ y = length
            \/ (y \in 1..length /\ y # length)
            \/ y = length + 1
            \/ y = length + 2
            \/ y \in (length + 3)..(length + length + 2)
            \/ y = length + length + 3
            \/ y = length + length + 4
        <5>1. length \in Nat \ {0} BY <3>5
        <5> QED BY <3>8, <5>1
      <4>4. /\ y # length + 1 /\ y # length + 2
            /\ y # length + length + 3 /\ y # length + length + 4
        BY <2>1, <3>8, <3>9
      <4> QED BY <4>1, <4>2, <4>3, <4>4
    <3>11. LineLength(chunks, m) = length BY <3>3, <3>4 DEF LineLength
    <3>12. LineEnd(chunks, start, m) = at + (length + 1) BY <3>3, <3>11 DEF LineEnd
    <3>13. at + (length + 1) + 5 = x + 6 BY <3>5, <3>8, <3>10
    <3> QED BY <2>1, <3>4, <3>12, <3>13 DEF Broken
  <2> QED BY <2>2, <2>3
<1> QED BY <1>4, <1>5 DEF Broken

-----------------------------------------------------------------------------
(* What the checked properties say of every input *)

Inputs ==
  /\ input.kind = "versions" => {input.u, input.v} \subseteq FullVersions \cup {NoVersion}
  /\ input.kind = "range" => input.v \in FullVersions /\ input.c \in Comparators
  /\ input.kind = "payload" => /\ input.args \in Upto(Text(W - 1), MaxArgs)
                               /\ input.files \in Upto(Files, MaxFiles) /\ input.dlls \in BOOLEAN
  /\ input.kind = "unpack" => input.files \in Upto(Bundled, 3)
  /\ input.kind = "response" =>
       /\ input.r \in Responses
       /\ {input.first, input.second, input.last} \subseteq 1..Len(Wire(input.r))
       /\ input.first < input.second /\ input.second <= input.last

LEMMA AreVersions ==
  /\ \A v \in AllVersions : /\ v \in Version /\ v.ok /\ v.given \in 1..3
                            /\ \A i \in 1..3 : i > v.given => v.part[i] = 0
  /\ FullVersions \subseteq Version /\ \A v \in FullVersions : IsVersion(v)
  /\ NoVersion \in Version /\ ~NoVersion.ok
<1>1. 0..MaxPart \subseteq Nat /\ 0..MaxPre \subseteq Nat BY FormatsAssumption
<1>2. \A p \in Parts : p \in [1..3 -> Nat] BY <1>1 DEF Parts
<1>3. \A v \in AllVersions : v \in Parsed /\ \A i \in 1..3 : i > v.given => v.part[i] = 0
  BY DEF AllVersions
<1>4. \A v \in Parsed : v \in Version /\ v.ok /\ v.given \in 1..3
  <2> TAKE v \in Parsed
  <2>1. PICK p \in Parts, g \in 1..3, pre \in 0..MaxPre :
          v = [part |-> p, given |-> g, pre |-> pre, ok |-> TRUE]
    BY DEF Parsed
  <2>2. p \in [1..3 -> Nat] /\ g \in 0..3 /\ pre \in Nat BY <1>1, <1>2
  <2> QED BY <2>1, <2>2 DEF Version
<1>5. \A v \in FullVersions : v \in AllVersions /\ IsVersion(v) BY DEF FullVersions
<1>6. NoVersion \in Version /\ ~NoVersion.ok
  <2>1. [i \in 1..3 |-> 0] \in [1..3 -> Nat] OBVIOUS
  <2> QED BY <2>1 DEF NoVersion, Version
<1> QED BY <1>3, <1>4, <1>5, <1>6

LEMMA InputsStay == Spec => []Inputs
<1>1. Init => Inputs BY DEF Init, Inputs
<1>2. Inputs /\ [Next]_input => Inputs' BY DEF Next, Inputs
<1> QED BY <1>1, <1>2, PTL DEF Spec

\* A version fits the range that asks for it or its pre-releases and above.
LEMMA FitsItself ==
  ASSUME NEW v \in Version, IsVersion(v)
  PROVE  Satisfies(v, {{[op |-> ">=", want |-> [v EXCEPT !.pre = 1]]}})
<1> DEFINE w == [v EXCEPT !.pre = 1]
           c == [op |-> ">=", want |-> w]
<1>1. w \in Version /\ w.part = v.part /\ w.pre = 1 /\ w.ok BY DEF Version, IsVersion
<1>2. c.op = ">=" /\ c.want = w OBVIOUS
<1> HIDE DEF w, c
<1>3. ~Below(v, w) BY <1>1, BelowCases, PartsAreNumbers
<1>4. SatisfiesOne(v, c) BY <1>1, <1>2, <1>3 DEF SatisfiesOne
<1>5. Satisfies(v, {{c}}) BY <1>4 DEF Satisfies, IsVersion
<1> QED BY <1>5 DEF c, w

LEMMA OrderOfInputs == Inputs => CompareIsOrder
<1> SUFFICES ASSUME Inputs, input.kind = "versions" PROVE CompareIsOrder BY DEF CompareIsOrder
<1> DEFINE u == input.u
           v == input.v
           range == {{[op |-> ">=", want |-> [v EXCEPT !.pre = 1]]}}
           best == Best({u, v}, range)
<1>1. u \in Version /\ v \in Version BY AreVersions DEF Inputs
<1>2. FullVersions \cup {NoVersion} \subseteq Version BY AreVersions
<1>3. ~(Precedes(u, v) /\ Precedes(v, u)) BY <1>1, PrecedesIsStrictOrder
<1>4. ASSUME NEW w \in FullVersions \cup {NoVersion}
      PROVE  /\ Precedes(u, v) /\ Precedes(v, w) => Precedes(u, w)
             /\ Same(u, v) /\ Same(v, w) => Same(u, w)
  BY <1>1, <1>2, PrecedesIsStrictOrder, SameIsTransitive
<1>5. ASSUME IsVersion(v) PROVE best # {} /\ \A x, y \in best : Same(x, y)
  <2> DEFINE fit == {x \in {u, v} : IsVersion(x) /\ Satisfies(x, range)}
  <2>1. best = {x \in fit : \A y \in fit : ~Precedes(x, y)} BY DEF Best
  <2>2. v \in fit BY <1>1, <1>5, FitsItself
  <2>3. \A x \in fit : x = u \/ x = v OBVIOUS
  <2>4. \A x \in {u, v} : ~Precedes(x, x) BY <1>1, PrecedesIsStrictOrder
  <2> HIDE DEF fit, best
  <2>5. v \in best \/ u \in best BY <1>3, <2>1, <2>2, <2>3, <2>4
  <2>6. \A x, y \in best : Same(x, y) BY <2>1 DEF Same
  <2> QED BY <2>5, <2>6
<1> QED BY <1>3, <1>4, <1>5 DEF CompareIsOrder, Same
\* The part that a caret may not change is what the comments call the leftmost.
LEMMA CaretIsLeftmost ==
  ASSUME NEW w \in AllVersions
  PROVE  CaretIndex(w) = Leftmost(w)
<1> DEFINE set == {i \in 1..w.given : w.part[i] # 0}
           caret == CaretIndex(w)
<1>1. /\ w \in Version /\ w.given \in 1..3
      /\ \A i \in 1..3 : i > w.given => w.part[i] = 0
  BY AreVersions
<1>2. /\ caret \in 1..w.given /\ \A j \in 1..(caret - 1) : w.part[j] = 0
      /\ w.part[caret] # 0 \/ caret = w.given
  BY <1>1, CaretKeepsLeftmost
<1>3. Leftmost(w) = IF set = {} THEN w.given ELSE Min(set) BY DEF Leftmost
<1> HIDE DEF caret
<1>4. CASE set = {}
  <2>1. w.part[caret] = 0 BY <1>2, <1>4
  <2> QED BY <1>2, <1>3, <1>4, <2>1 DEF caret
<1>5. CASE set # {}
  <2>1. caret \in set
    <3> SUFFICES ASSUME w.part[caret] = 0 PROVE FALSE BY <1>2
    <3>1. caret = w.given BY <1>2
    <3>2. \A j \in 1..w.given : w.part[j] = 0 BY <1>1, <1>2, <3>1
    <3> QED BY <1>5, <3>2
  <2>2. \A y \in set : caret <= y BY <1>1, <1>2
  <2>3. \A x \in set : x \in Int BY <1>1
  <2> HIDE DEF set
  <2>4. \A x \in set : (\A y \in set : x <= y) => x = caret BY <2>1, <2>2, <2>3
  <2>5. Min(set) = caret BY <2>1, <2>2, <2>4 DEF Min
  <2> QED BY <1>3, <1>5, <2>5 DEF caret
<1> QED BY <1>4, <1>5

LEMMA MinWithTwo ==
  ASSUME NEW n \in 1..3 PROVE Min({n, 2}) = IF n >= 2 THEN 2 ELSE 1
<1> DEFINE least == IF n >= 2 THEN 2 ELSE 1
<1>1. least \in {n, 2} /\ \A y \in {n, 2} : least <= y OBVIOUS
<1>2. \A x \in {n, 2} : (\A y \in {n, 2} : x <= y) => x = least BY <1>1
<1> HIDE DEF least
<1>3. Min({n, 2}) = least BY <1>1, <1>2 DEF Min
<1> QED BY <1>3 DEF least

LEMMA EqualParts ==
  ASSUME NEW a \in Version, NEW b \in Version
  PROVE  Equal(a, b) <=> a.part = b.part /\ a.pre = b.pre
<1>1. a.part \in [1..3 -> Nat] /\ b.part \in [1..3 -> Nat] BY DEF Version
<1>2. \A i \in 1..3 : i = 1 \/ i = 2 \/ i = 3 OBVIOUS
<1> QED BY <1>1, <1>2 DEF Equal

\* A release satisfies a comparator exactly when the comparator promises it.
LEMMA ReleasesAsPromised ==
  ASSUME NEW v \in FullVersions, v.pre = 0, NEW c \in Comparators, c.op # "any", c.want.ok
  PROVE  SatisfiesOne(v, c) <=> Promised(v, c)
<1> DEFINE w == c.want
<1>1. /\ v \in Version /\ w \in AllVersions /\ w \in Version /\ w.given \in 1..3
      /\ c.op \in {">=", ">", "<=", "<", "^", "~", "="}
  BY AreVersions DEF Comparators
<1>2. \A i \in 1..3 : Within(v, w, i) <=> Keeps(v, w, i) BY <1>1, WithinSharesParts DEF Keeps
<1>3. \/ Below(v, w) /\ ~Below(w, v) /\ ~Equal(v, w)
      \/ ~Below(v, w) /\ Below(w, v) /\ ~Equal(v, w)
      \/ ~Below(v, w) /\ ~Below(w, v) /\ Equal(v, w)
  BY <1>1, BelowIsTotal, EqualIsNotBelow, BelowCases, PartsAreNumbers DEF Equal
<1>4. Equal(v, w) <=> v.part = w.part /\ v.pre = w.pre BY <1>1, EqualParts
<1> HIDE DEF w
<1>5. CASE c.op \in {">=", ">", "<=", "<"}
  BY <1>3, <1>4, <1>5 DEF SatisfiesOne, Promised, w
<1>6. CASE c.op = "^"
  <2>1. CaretIndex(w) = Leftmost(w) /\ CaretIndex(w) \in 1..3
    BY <1>1, AreVersions, CaretIsLeftmost, CaretKeepsLeftmost
  <2> QED BY <1>2, <1>6, <2>1 DEF SatisfiesOne, Promised, w
<1>7. CASE c.op = "~"
  <2>1. Min({w.given, 2}) = IF w.given >= 2 THEN 2 ELSE 1 BY <1>1, MinWithTwo
  <2>2. (IF w.given >= 2 THEN 2 ELSE 1) \in 1..3 OBVIOUS
  <2> QED BY <1>2, <1>7, <2>1, <2>2 DEF SatisfiesOne, Promised, w
<1>8. CASE c.op = "="
  BY <1>1, <1>2, <1>3, <1>4, <1>8 DEF SatisfiesOne, Promised, w
<1> QED BY <1>1, <1>5, <1>6, <1>7, <1>8

LEMMA RangesOfInputs == Inputs => SatisfiesAsDocumented
<1> SUFFICES ASSUME Inputs, input.kind = "range" PROVE SatisfiesAsDocumented
  BY DEF SatisfiesAsDocumented
<1> DEFINE v == input.v
           c == input.c
<1>1. /\ v \in FullVersions /\ v \in Version /\ v.ok /\ v.pre \in Nat
      /\ c \in Comparators /\ c.op \in {"any", ">=", ">", "<=", "<", "^", "~", "="}
  BY AreVersions, PartsAreNumbers DEF Inputs, FullVersions, IsVersion, Comparators
<1> HIDE DEF v, c
<1>2. ASSUME v.pre = 0
      PROVE  SatisfiesOne(v, c) <=> (c.op = "any" \/ c.want.ok) /\ Promised(v, c)
  <2>1. CASE c.op = "any" BY <1>2, <2>1 DEF SatisfiesOne, Promised
  <2>2. CASE c.op # "any" /\ ~c.want.ok BY <2>2 DEF SatisfiesOne
  <2>3. CASE c.op # "any" /\ c.want.ok BY <1>1, <1>2, <2>3, ReleasesAsPromised
  <2> QED BY <2>1, <2>2, <2>3
<1>3. v.pre # 0 /\ SatisfiesOne(v, c) => c.op # "any" /\ c.want.pre # 0 BY DEF SatisfiesOne
<1>4. Satisfies(v, {{c}, {}}) <=> SatisfiesOne(v, c) \/ v.pre = 0
  <2>1. \A x \in {c} : x = c OBVIOUS
  <2> QED BY <1>1, <2>1 DEF Satisfies
<1> QED BY <1>2, <1>3, <1>4 DEF SatisfiesAsDocumented, v, c

\* LefRoundTrip of one input, its parts named.
RoundTrip(inFiles, files, args, kept, data, got, dlls) ==
  IF \/ \E i \in DOMAIN args : args[i] = <<>>
     \/ \E i \in DOMAIN kept : kept[i].name = <<>> \/ kept[i].data = <<>>
     \/ kept = <<>>
    THEN ~got.ok
    ELSE /\ got.ok /\ got.args = args
         /\ got.files = [i \in DOMAIN kept |-> [kept[i] EXCEPT !.type = IF dlls THEN @ ELSE 0]]
         /\ (\E i \in DOMAIN inFiles : inFiles[i].name = <<9>>) => got.files[1].name = <<9>>
         /\ Len(files) < W => \A n \in 0..(Len(data) - 1) : ~Read(SubSeq(data, 1, n)).ok

LEMMA RoundTripOfInput ==
  LET files == MainFirst(input.files, <<9>>)
      args == SubSeq(input.args, 1, Len(input.args) % W)
      kept == SubSeq(files, 1, Len(files) % W)
      data == Write(input.args, files, input.dlls)
  IN RoundTrip(input.files, files, args, kept, data, Read(data), input.dlls) => LefRoundTrip
BY DEF RoundTrip, LefRoundTrip

LEMMA PayloadsOfInputs == Inputs => LefRoundTrip
<1> SUFFICES ASSUME Inputs, input.kind = "payload" PROVE LefRoundTrip BY DEF LefRoundTrip
<1>1. PICK in, files, dlls :
        in = input.args /\ files = MainFirst(input.files, <<9>>) /\ dlls = input.dlls
  OBVIOUS
<1>2. /\ in \in Seq(Seq(Nat)) /\ \A i \in 1..Len(in) : Len(in[i]) < W
      /\ input.files \in Seq(File) /\ dlls \in BOOLEAN
  BY <1>1, PayloadsAreTyped DEF Inputs
<1>3. /\ files \in Seq(File) /\ Len(files) \in Nat /\ Len(in) \in Nat
      /\ (\E i \in DOMAIN input.files : input.files[i].name = <<9>>) => files[1].name = <<9>>
  <2>1. /\ MainFirst(input.files, <<9>>) \in Seq(File)
        /\ (\E i \in DOMAIN input.files : input.files[i].name = <<9>>) =>
             MainFirst(input.files, <<9>>)[1].name = <<9>>
    BY <1>2, MainIsFirst
  <2> QED BY <1>1, <1>2, <2>1
<1>4. PICK m, n, size, whole :
        /\ m = Len(in) % W /\ n = Len(files) % W /\ whole = Write(in, files, dlls)
        /\ size = HeaderSize + Len(ArgCells(in)[Len(in)]) + Len(FileCells(files, dlls)[n])
  OBVIOUS
<1>5. m \in 0..Len(in) /\ n \in 0..Len(files) BY <1>3, <1>4, WAssumption, ModBelow
<1>6. PICK args, kept : args = SubSeq(in, 1, m) /\ kept = SubSeq(files, 1, n) OBVIOUS
<1>7. /\ DOMAIN args = 1..m /\ \A i \in 1..m : args[i] = in[i]
      /\ DOMAIN kept = 1..n /\ \A i \in 1..n : kept[i] = files[i] /\ files[i] \in File
      /\ kept = <<>> <=> n = 0
  <2>1. /\ args \in Seq(Seq(Nat)) /\ Len(args) = m /\ \A i \in 1..m : args[i] = in[i]
    BY <1>2, <1>5, <1>6, Initials
  <2>2. /\ kept \in Seq(File) /\ Len(kept) = n /\ \A i \in 1..n : kept[i] = files[i]
    BY <1>3, <1>5, <1>6, Initials
  <2>3. \A i \in 1..n : files[i] \in File BY <1>3, <1>5
  <2> QED BY <2>1, <2>2, <2>3
<1> DEFINE empty == \/ \E i \in DOMAIN args : args[i] = <<>>
                    \/ \E i \in DOMAIN kept : kept[i].name = <<>> \/ kept[i].data = <<>>
<1>8. \A d : PayloadFits(d, in, files, m, n, size) <=> ~empty /\ kept # <<>> /\ size <= Len(d)
  <2>1. n > 0 <=> kept # <<>> BY <1>3, <1>5, <1>7
  <2> QED BY <1>7, <2>1 DEF PayloadFits
<1>9. ASSUME NEW d, Prefix(d, whole)
      PROVE  IF PayloadFits(d, in, files, m, n, size)
               THEN /\ Read(d).ok /\ Read(d).args = args
                    /\ Read(d).files = Some(files, dlls, n)
               ELSE ~Read(d).ok
  BY <1>2, <1>3, <1>4, <1>6, <1>9, PayloadReadBack
<1>10. /\ whole \in Seq(Nat) /\ Len(whole) \in Nat /\ size \in Nat /\ size <= Len(whole)
       /\ n = Len(files) => size = Len(whole)
  <2>1. PICK a, f : a = ArgCells(in)[Len(in)] /\ f = FileCells(files, dlls)[Len(files)] OBVIOUS
  <2>2. Laid(whole, in, files, dlls, a, f) BY <1>2, <1>3, <1>4, <2>1, WriteCells
  <2>3. PICK h, x, y, z :
          h = HeaderSize /\ x = Len(a) /\ y = Len(f) /\ z = Len(FileCells(files, dlls)[n])
    OBVIOUS
  <2>4. FileCells(files, dlls)[n] \in Seq(Nat) BY <1>5, <2>2 DEF Laid, FilesLaid
  <2>5. h \in Nat /\ x \in Nat /\ y \in Nat /\ z \in Nat BY <2>2, <2>3, <2>4 DEF Laid, HeaderSize
  <2>6. Len(whole) = h + x + y /\ whole \in Seq(Nat) /\ z <= y BY <1>5, <2>2, <2>3 DEF Laid
  <2>7. size = h + x + z BY <1>4, <2>1, <2>3
  <2>8. n = Len(files) => z = y BY <2>1, <2>3
  <2> QED BY <2>5, <2>6, <2>7, <2>8
<1>11. Prefix(whole, whole) BY <1>10 DEF Prefix
<1>12. RoundTrip(input.files, files, args, kept, whole, Read(whole), dlls)
  <2>1. CASE empty \/ kept = <<>>
    <3>1. ~Read(whole).ok BY <1>8, <1>9, <1>11, <2>1
    <3> QED BY <2>1, <3>1 DEF RoundTrip
  <2>2. CASE ~(empty \/ kept = <<>>)
    <3>1. Read(whole).ok /\ Read(whole).args = args /\ Read(whole).files = Some(files, dlls, n)
      BY <1>8, <1>9, <1>10, <1>11, <2>2
    <3>2. Some(files, dlls, n) =
            [i \in DOMAIN kept |-> [kept[i] EXCEPT !.type = IF dlls THEN @ ELSE 0]]
      <4>1. \A i \in 1..n :
              ReadBack(files[i], dlls) = [kept[i] EXCEPT !.type = IF dlls THEN @ ELSE 0]
        <5> TAKE i \in 1..n
        <5>1. files[i] \in File /\ kept[i] = files[i] BY <1>7
        <5> QED BY <5>1 DEF File, ReadBack
      <4> QED BY <1>7, <4>1 DEF Some
    <3>3. (\E i \in DOMAIN input.files : input.files[i].name = <<9>>) =>
            Read(whole).files[1].name = <<9>>
      <4>1. 1 \in 1..n BY <1>3, <1>5, <1>7, <2>2
      <4>2. Some(files, dlls, n)[1].name = files[1].name BY <4>1 DEF Some, ReadBack
      <4> QED BY <1>3, <3>1, <4>2
    <3>4. Len(files) < W => \A k \in 0..(Len(whole) - 1) : ~Read(SubSeq(whole, 1, k)).ok
      <4> SUFFICES ASSUME Len(files) < W, NEW k \in 0..(Len(whole) - 1)
                   PROVE  ~Read(SubSeq(whole, 1, k)).ok
        OBVIOUS
      <4>1. n = Len(files) BY <1>3, <1>4, WAssumption, ModSmall
      <4>2. k \in 0..Len(whole) /\ ~(Len(whole) <= k) BY <1>10
      <4>3. Prefix(SubSeq(whole, 1, k), whole) /\ Len(SubSeq(whole, 1, k)) = k
        BY <1>10, <4>2, CutShort
      <4>4. ~(size <= Len(SubSeq(whole, 1, k))) BY <1>10, <4>1, <4>2, <4>3
      <4>5. ~PayloadFits(SubSeq(whole, 1, k), in, files, m, n, size) BY <1>8, <4>4
      <4> QED BY <1>9, <4>3, <4>5
    <3> QED BY <2>2, <3>1, <3>2, <3>3, <3>4 DEF RoundTrip
  <2> QED BY <2>1, <2>2
<1> QED BY <1>1, <1>4, <1>6, <1>12, RoundTripOfInput

LEMMA UnpacksOfInputs == Inputs => UnpackAllOrNothing
<1> SUFFICES ASSUME Inputs, input.kind = "unpack" PROVE UnpackAllOrNothing
  BY DEF UnpackAllOrNothing
<1> DEFINE files == input.files
           bundled == Unpack(files)
           of(m) == {i \in DOMAIN files : files[i].mod = m}
<1>1. 3 \in Nat /\ files \in Upto(Bundled, 3) BY DEF Inputs
<1>2. files \in Seq(Bundled) BY <1>1, BoundedIsSeq DEF Upto
<1>3. Len(files) \in Nat /\ DOMAIN files = 1..Len(files) BY <1>2
<1>4. Recorded(files, Len(files), bundled) BY <1>3, UnpackRecords
<1> HIDE DEF files, bundled
<1>5. DOMAIN bundled = {files[i].mod : i \in DOMAIN files} BY <1>3, <1>4 DEF Recorded
<1>6. ASSUME NEW m \in DOMAIN bundled
      PROVE  \E first \in of(m) :
               /\ \A i \in of(m) : first <= i
               /\ bundled[m] = IF \A i \in of(m) : files[i].written THEN files[first].folder ELSE "empty"
  <2>1. PICK first \in 1..Len(files) :
          /\ files[first].mod = m /\ \A i \in 1..Len(files) : files[i].mod = m => first <= i
          /\ bundled[m] = IF \A i \in 1..Len(files) : files[i].mod = m => files[i].written
                            THEN files[first].folder ELSE "empty"
    BY <1>4 DEF Recorded
  <2>2. first \in of(m) /\ \A i \in of(m) : first <= i BY <1>3, <2>1
  <2>3. (\A i \in 1..Len(files) : files[i].mod = m => files[i].written) <=>
          \A i \in of(m) : files[i].written
    BY <1>3
  <2>4. bundled[m] = IF \A i \in of(m) : files[i].written THEN files[first].folder ELSE "empty"
    BY <2>1, <2>3
  <2> QED BY <2>2, <2>4
<1> QED BY <1>5, <1>6 DEF UnpackAllOrNothing, files, bundled

\* A body in the run, and the chunks it comes in.
LEMMA DataIsBytes == \A s \in Seq(Data) : s \in Seq(Byte)
<1> TAKE s \in Seq(Data)
<1>1. Len(s) \in Nat /\ \A i \in 1..Len(s) : s[i] \in Byte BY DEF Data, Byte
<1>2. s = [i \in 1..Len(s) |-> s[i]] OBVIOUS
<1> QED BY <1>1, <1>2

LEMMA BodiesAreData == Bodies \subseteq Seq(Data)
<1>1. MaxBody \in Nat BY FormatsAssumption
<1> QED BY <1>1, BoundedIsSeq DEF Bodies, Upto, Data

\* The chunks of a chunked one hold no digit and are not empty.
LEMMA ChunkedIsData ==
  ASSUME NEW c \in Chunked
  PROVE  /\ c \in Seq(Seq(Byte))
         /\ \A n \in 1..Len(c) : c[n] \in Seq(Data) /\ c[n] # <<>>
<1>1. \A s \in Upto({"d", "CR"}, 1) : s \in Seq(Data)
  <2> TAKE s \in Upto({"d", "CR"}, 1)
  <2>1. 1 \in Nat OBVIOUS
  <2>2. s \in Seq({"d", "CR"}) BY <2>1, BoundedIsSeq DEF Upto
  <2>3. Len(s) \in Nat /\ \A i \in 1..Len(s) : s[i] \in Data BY <2>2 DEF Data
  <2>4. s = [i \in 1..Len(s) |-> s[i]] BY <2>2
  <2> QED BY <2>3, <2>4
<1>2. CASE \E b \in Bodies \ {<<>>} : c = <<b>>
  <2>1. PICK b \in Bodies \ {<<>>} : c = <<b>> BY <1>2
  <2>2. b \in Seq(Data) /\ b \in Seq(Byte) /\ b # <<>> BY BodiesAreData, DataIsBytes
  <2> HIDE DEF Data
  <2>3. c \in Seq(Seq(Byte)) /\ Len(c) = 1 /\ c[1] = b BY <2>1, <2>2
  <2>4. \A n \in 1..1 : n = 1 OBVIOUS
  <2> QED BY <2>2, <2>3, <2>4
<1>3. CASE \E a, b \in Upto({"d", "CR"}, 1) \ {<<>>} : c = <<a, b>>
  <2>1. PICK a \in Upto({"d", "CR"}, 1) \ {<<>>}, b \in Upto({"d", "CR"}, 1) \ {<<>>} :
          c = <<a, b>>
    BY <1>3
  <2>2. /\ a \in Seq(Data) /\ a \in Seq(Byte) /\ a # <<>>
        /\ b \in Seq(Data) /\ b \in Seq(Byte) /\ b # <<>>
    BY <1>1, DataIsBytes
  <2>3. c \in Seq(Seq(Byte)) /\ Len(c) = 2 /\ c[1] = a /\ c[2] = b BY <2>1, <2>2
  <2>4. \A n \in 1..2 : n = 1 \/ n = 2 OBVIOUS
  <2> QED BY <2>2, <2>3, <2>4
<1> QED BY <1>2, <1>3 DEF Chunked

\* The pieces of an input.
ThreeOf(wire, i, j, k) == <<SubSeq(wire, 1, i), SubSeq(wire, i + 1, j), SubSeq(wire, j + 1, k)>>
CutsOf(i, j, k) ==
  [n \in 0..3 |-> CASE n = 0 -> 0 [] n = 1 -> i [] n = 2 -> j [] OTHER -> k]

\* They are cut out of the response.
LEMMA ThreeCutUp ==
  ASSUME NEW wire, NEW i \in 1..Len(wire), NEW j \in 1..Len(wire), NEW k \in 1..Len(wire),
         i < j, j <= k
  PROVE  /\ CutUp(ThreeOf(wire, i, j, k), wire, CutsOf(i, j, k))
         /\ Len(ThreeOf(wire, i, j, k)) = 3
         /\ CutsOf(i, j, k)[1] = i /\ CutsOf(i, j, k)[2] = j /\ CutsOf(i, j, k)[3] = k
<1>1. PICK pieces, cut : pieces = ThreeOf(wire, i, j, k) /\ cut = CutsOf(i, j, k) OBVIOUS
<1>2. 0 \in 0..3 /\ 1 \in 0..3 /\ 2 \in 0..3 /\ 3 \in 0..3 OBVIOUS
<1>3. cut[0] = 0 /\ cut[1] = i /\ cut[2] = j /\ cut[3] = k BY <1>1, <1>2 DEF CutsOf
<1>4. Len(pieces) = 3 BY <1>1 DEF ThreeOf
<1>5. /\ pieces[1] = SubSeq(wire, 1, i) /\ pieces[2] = SubSeq(wire, i + 1, j)
      /\ pieces[3] = SubSeq(wire, j + 1, k)
  BY <1>1 DEF ThreeOf
<1>6. /\ pieces[1] = Cut(wire, 0, i) /\ pieces[2] = Cut(wire, i, j)
      /\ pieces[3] = Cut(wire, j, k)
  <2>1. 0 + 1 = 1 OBVIOUS
  <2> QED BY <1>5, <2>1 DEF Cut
<1>7. i \in Nat /\ j \in Nat /\ k \in Nat /\ 0 \in Nat /\ 0 <= i /\ i <= j /\ j <= k OBVIOUS
<1>8. ASSUME NEW n \in 0..3 PROVE cut[n] \in Nat /\ cut[n] <= Len(wire)
  <2>1. n = 0 \/ n = 1 \/ n = 2 \/ n = 3 OBVIOUS
  <2>2. 0 <= Len(wire) /\ i <= Len(wire) /\ j <= Len(wire) /\ k <= Len(wire) OBVIOUS
  <2> QED BY <1>3, <1>7, <2>1, <2>2
<1>9. ASSUME NEW n \in 1..3
      PROVE  cut[n - 1] <= cut[n] /\ pieces[n] = Cut(wire, cut[n - 1], cut[n])
  <2>1. n = 1 \/ n = 2 \/ n = 3 OBVIOUS
  <2>2. 1 - 1 = 0 /\ 2 - 1 = 1 /\ 3 - 1 = 2 OBVIOUS
  <2> QED BY <1>3, <1>6, <1>7, <2>1, <2>2
<1>10. CutUp(pieces, wire, cut) BY <1>3, <1>4, <1>8, <1>9 DEF CutUp
<1> QED BY <1>1, <1>3, <1>4, <1>10

\* Every response is whole or chunked.
LEMMA AreResponses ==
  ASSUME NEW r \in Responses
  PROVE  \/ /\ ~r.chunked /\ r.coded = r.body /\ r.body \in Seq(Data)
            /\ r.length \in Int /\ (r.length < 0 \/ r.length = Len(r.coded))
         \/ /\ r.chunked /\ r.length = -1
            /\ \E c \in Chunked : r.body = All(c) /\ r.coded = Coded(c)
<1>1. CASE \E b \in Bodies, n \in {-1} :
             r = [chunked |-> FALSE, length |-> n, body |-> b, coded |-> b]
  <2>1. PICK b \in Bodies :
          r = [chunked |-> FALSE, length |-> -1, body |-> b, coded |-> b]
    BY <1>1
  <2>2. b \in Seq(Data) BY BodiesAreData
  <2>3. -1 \in Int /\ -1 < 0 OBVIOUS
  <2> QED BY <2>1, <2>2, <2>3
<1>2. CASE \E b \in Bodies :
             r = [chunked |-> FALSE, length |-> Len(b), body |-> b, coded |-> b]
  <2>1. PICK b \in Bodies :
          r = [chunked |-> FALSE, length |-> Len(b), body |-> b, coded |-> b]
    BY <1>2
  <2>2. b \in Seq(Data) BY BodiesAreData
  <2>3. Len(b) \in Int BY <2>2
  <2> QED BY <2>1, <2>2, <2>3
<1>3. CASE \E c \in Chunked :
             r = [chunked |-> TRUE, length |-> -1, body |-> All(c), coded |-> Coded(c)]
  BY <1>3
<1> QED BY <1>1, <1>2, <1>3 DEF Responses

\* Each input that is a response is answered as BodyIsWhole says.
LEMMA ResponsesOfInputs == Inputs => BodyIsWhole
<1> SUFFICES ASSUME Inputs, input.kind = "response" PROVE BodyIsWhole BY DEF BodyIsWhole
<1>1. PICK r, wire, i, j, k :
        r = input.r /\ wire = Wire(r) /\ i = input.first /\ j = input.second /\ k = input.last
  OBVIOUS
<1>2. /\ r \in Responses /\ i \in 1..Len(wire) /\ j \in 1..Len(wire) /\ k \in 1..Len(wire)
      /\ i < j /\ j <= k
  BY <1>1 DEF Inputs
<1>3. PICK pieces, cut : pieces = ThreeOf(wire, i, j, k) /\ cut = CutsOf(i, j, k) OBVIOUS
<1>4. /\ CutUp(pieces, wire, cut) /\ Len(pieces) = 3
      /\ cut[1] = i /\ cut[2] = j /\ cut[3] = k
  BY <1>2, <1>3, ThreeCutUp
<1> DEFINE torn == {i, j, k} \cap SizeEnds(wire) # {}
           unlucky == torn \/ (~r.chunked /\ r.length < 0 /\ k >= 5)
<1>5. Answered(r, pieces, r.body, unlucky, k = Len(wire), r.length > 0 /\ k = Len(wire))
  <2>1. CASE /\ ~r.chunked /\ r.coded = r.body /\ r.body \in Seq(Data)
             /\ r.length \in Int /\ (r.length < 0 \/ r.length = Len(r.coded))
    <3>1. PICK coded, length : coded = r.coded /\ length = r.length OBVIOUS
    <3>2. coded \in Seq(Data) /\ coded \in Seq(Byte) BY <2>1, <3>1, DataIsBytes
    <3>3. WireLaid(wire, coded) BY <1>1, <3>1, <3>2, WireIsLaid
    <3>4. ~torn BY <3>2, <3>3, PlainHasNone
    <3>5. PlainAnswer(r, pieces, wire, coded, length, cut[Len(pieces)])
      <4>1. /\ length \in Int /\ r.length = length /\ ~r.chunked
            /\ length < 0 \/ length = Len(coded)
        BY <2>1, <3>1
      <4> QED BY <1>4, <3>3, <4>1, PlainAnswered
    <3>6. cut[Len(pieces)] = k BY <1>4
    <3>7. unlucky <=> length < 0 /\ cut[Len(pieces)] >= 5 BY <2>1, <3>1, <3>4, <3>6
    <3> QED BY <2>1, <3>1, <3>5, <3>6, <3>7 DEF PlainAnswer, Answered
  <2>2. CASE /\ r.chunked /\ r.length = -1
             /\ \E c \in Chunked : r.body = All(c) /\ r.coded = Coded(c)
    <3>1. PICK c \in Chunked : r.body = All(c) /\ r.coded = Coded(c) BY <2>2
    <3>2. /\ c \in Seq(Seq(Byte))
          /\ \A n \in 1..Len(c) : c[n] \in Seq(Data) /\ c[n] # <<>>
      BY ChunkedIsData
    <3>3. PICK coded, start : coded = r.coded /\ start = Start(c) OBVIOUS
    <3>4. ChunksLaid(coded, c, start) BY <3>1, <3>2, <3>3, CodedIsLaid
    <3>5. Coding(coded, c, start) BY <3>2, <3>4 DEF Coding
    <3>6. coded \in Seq(Byte) BY <3>4 DEF ChunksLaid
    <3>7. WireLaid(wire, coded) BY <1>1, <3>3, <3>6, WireIsLaid
    <3>8. \A x : x \in SizeEnds(wire) <=> Broken(c, start, x)
      BY <3>2, <3>5, <3>7, SizesEndLines
    <3>9. Answered(r, pieces, Joined(c)[Len(c)],
                   \E m \in 1..Len(pieces) : Broken(c, start, cut[m]),
                   cut[Len(pieces)] = Len(wire), FALSE)
      BY <1>4, <2>2, <3>5, <3>7, ChunkedAnswered
    <3>10. cut[Len(pieces)] = k BY <1>4
    <3>11. unlucky <=> \E m \in 1..Len(pieces) : Broken(c, start, cut[m])
      <4>1. \A m \in 1..3 : m = 1 \/ m = 2 \/ m = 3 OBVIOUS
      <4>2. 1 \in 1..3 /\ 2 \in 1..3 /\ 3 \in 1..3 OBVIOUS
      <4>3. (\E m \in 1..3 : Broken(c, start, cut[m])) <=>
              Broken(c, start, i) \/ Broken(c, start, j) \/ Broken(c, start, k)
        BY <1>4, <4>1, <4>2
      <4>4. torn <=> Broken(c, start, i) \/ Broken(c, start, j) \/ Broken(c, start, k)
        BY <3>8
      <4> QED BY <1>4, <2>2, <4>3, <4>4
    <3>12. r.body = Joined(c)[Len(c)] BY <3>1 DEF All
    <3>13. ~(r.length > 0)
      <4>1. ~(-1 > 0) OBVIOUS
      <4> QED BY <2>2, <4>1
    <3> QED BY <3>9, <3>10, <3>11, <3>12, <3>13 DEF Answered
  <2> QED BY <1>2, <2>1, <2>2, AreResponses
<1> HIDE DEF torn
<1>6. torn <=> {input.first, input.second, input.last} \cap
                 {x \in 2..Len(wire) : wire[x] = "CR" /\ wire[x - 1] \in {"1", "0"}} # {}
  BY <1>1 DEF torn, SizeEnds
<1> QED BY <1>1, <1>3, <1>5, <1>6 DEF BodyIsWhole, Answered, ThreeOf

-----------------------------------------------------------------------------
(* Theorems *)

\* compare_versions (modules_dir.cpp:181) is an order for all versions that may be
\* installed, and best_installed (modules_dir.cpp:235) finds one if one satisfies.
THEOREM CompareIsAnOrder == Spec => []CompareIsOrder
BY OrderOfInputs, InputsStay, PTL

\* Every range accepts what its comments promise (modules_dir.cpp:139): a caret and a
\* tilde keep the parts they should, and pre-releases are only found when asked for.
THEOREM RangesAreAsDocumented == Spec => []SatisfiesAsDocumented
BY RangesOfInputs, InputsStay, PTL

\* What store_as_lef writes (lef.cpp:554) load_from_memory reads back (lef.cpp:108) or
\* refuses, wherever the file is cut and however many arguments and files there are.
THEOREM LefIsReadBack == Spec => []LefRoundTrip
BY PayloadsOfInputs, InputsStay, PTL

\* extract_bundled_dlls (lef.cpp:237) records a module whose files were all written under
\* the folder of the first, and any other as empty.
THEOREM UnpackIsAllOrNothing == Spec => []UnpackAllOrNothing
BY UnpacksOfInputs, InputsStay, PTL

\* A chunked response, of any number of chunks and cut into any number of pieces, is read
\* back: WebRequest (API.cpp:55) returns the data of all chunks, and throws just when a
\* piece ends inside the line break behind a size; DownloadFile saves nothing.
THEOREM ChunkedIsReadBack ==
  ASSUME NEW chunks \in Seq(Seq(Byte)), \A n \in 1..Len(chunks) : chunks[n] # <<>>,
         NEW r, r.chunked, r.coded = Coded(chunks),
         NEW pieces, NEW cut, CutUp(pieces, Wire(r), cut)
  PROVE  Answered(r, pieces, All(chunks),
                  \E m \in 1..Len(pieces) : Broken(chunks, Start(chunks), cut[m]),
                  cut[Len(pieces)] = Len(Wire(r)), FALSE)
<1>1. PICK coded, start, wire : coded = r.coded /\ start = Start(chunks) /\ wire = Wire(r)
  OBVIOUS
<1>2. ChunksLaid(coded, chunks, start) BY <1>1, CodedIsLaid
<1>3. Coding(coded, chunks, start) BY <1>2 DEF Coding
<1>4. coded \in Seq(Byte) BY <1>2 DEF ChunksLaid
<1>5. WireLaid(wire, coded) BY <1>1, <1>4, WireIsLaid
<1>6. Answered(r, pieces, Joined(chunks)[Len(chunks)],
               \E m \in 1..Len(pieces) : Broken(chunks, start, cut[m]),
               cut[Len(pieces)] = Len(wire), FALSE)
  BY <1>1, <1>3, <1>5, ChunkedAnswered
<1> QED BY <1>1, <1>6 DEF All

\* And so is one with a Content-Length, or none, cut into any number of pieces: a length
\* is the whole body's, without one WebRequest throws as soon as the header is there.
THEOREM PlainIsReadBack ==
  ASSUME NEW r, ~r.chunked, r.coded \in Seq(Byte), NEW length \in Int, r.length = length,
         length < 0 \/ length = Len(r.coded),
         NEW pieces, NEW cut, CutUp(pieces, Wire(r), cut)
  PROVE  PlainAnswer(r, pieces, Wire(r), r.coded, length, cut[Len(pieces)])
<1>1. PICK coded, wire : coded = r.coded /\ wire = Wire(r) OBVIOUS
<1>2. WireLaid(wire, coded) BY <1>1, WireIsLaid
<1>3. CutUp(pieces, wire, cut) /\ (length < 0 \/ length = Len(coded)) BY <1>1
<1>4. PlainAnswer(r, pieces, wire, coded, length, cut[Len(pieces)])
  BY <1>2, <1>3, PlainAnswered
<1> QED BY <1>1, <1>4

\* However a response is cut and however long it is: WebRequest (API.cpp:55) returns the
\* whole body or nothing, throws just when a piece ends inside the line break of a chunk
\* size or no length is given, and DownloadFile (API.cpp:198) saves all or nothing.
THEOREM BodyIsReadWhole == Spec => []BodyIsWhole
BY ResponsesOfInputs, InputsStay, PTL
=============================================================================
