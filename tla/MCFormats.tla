----------------------------- MODULE MCFormats ------------------------------
(***************************************************************************)
(* The pure parts, checked over bounded inputs: versions and ranges, the   *)
(* .lef buffer, the unpack of bundled modules and the HTTP readers.  An    *)
(* initial state is one input; nothing happens to it.                      *)
(***************************************************************************)
EXTENDS Versions, LefFormat, Http

CONSTANTS MaxPart, MaxPre,       \* bounds on versions
          MaxArgs, MaxFiles,     \* on payloads
          MaxBody                \* and on the body of a response
ASSUME FormatsAssumption == {MaxPart, MaxPre, MaxArgs, MaxFiles, MaxBody} \subseteq Nat

VARIABLE input

Parts == {p \in [1..3 -> 0..MaxPart] : TRUE}
\* What parse yields: the parts that were not written are 0.
Parsed == {[part |-> p, given |-> g, pre |-> pre, ok |-> TRUE] :
             p \in Parts, g \in 1..3, pre \in 0..MaxPre}
AllVersions == {v \in Parsed : \A i \in 1..3 : i > v.given => v.part[i] = 0}
NoVersion == [part |-> [i \in 1..3 |-> 0], given |-> 0, pre |-> 0, ok |-> FALSE]
FullVersions == {v \in AllVersions : IsVersion(v)}
Comparators == [op : {"any", ">=", ">", "<=", "<", "^", "~", "="}, want : AllVersions \cup {NoVersion}]

Text(n) == UNION {[1..k -> {7}] : k \in 0..n}
Files == [name : {<<8>>, <<9>>, <<>>}, data : Text(W), type : Types]
Upto(S, n) == UNION {[1..k -> S] : k \in 0..n}
Bundled == [mod : {"m", "n"}, folder : {"f", "g"}, written : BOOLEAN]

\* Sequences one behind the other, the first n of them, and all.
Joined(seqs) ==
  LET upto[n \in 0..Len(seqs)] == IF n = 0 THEN <<>> ELSE upto[n - 1] \o seqs[n]
  IN upto
All(seqs) == Joined(seqs)[Len(seqs)]

\* The chunked coding of a body that comes in chunks.
Chunk(s) == [i \in 1..Len(s) |-> "1"] \o <<"CR", "LF">> \o s \o <<"CR", "LF">>
Coded(chunks) ==
  All([i \in DOMAIN chunks |-> Chunk(chunks[i])]) \o <<"0", "CR", "LF", "CR", "LF">>
Bodies == Upto({"d", "CR", "LF"}, MaxBody)
Chunked == {<<b>> : b \in Bodies \ {<<>>}} \cup {<<a, b>> : a, b \in Upto({"d", "CR"}, 1) \ {<<>>}}
Responses ==
  {[chunked |-> FALSE, length |-> n, body |-> b, coded |-> b] : b \in Bodies, n \in {-1}}
    \cup {[chunked |-> FALSE, length |-> Len(b), body |-> b, coded |-> b] : b \in Bodies}
    \cup {[chunked |-> TRUE, length |-> -1, body |-> All(c), coded |-> Coded(c)] : c \in Chunked}
Wire(r) == <<"h">> \o BlankLine \o r.coded

Init ==
  \/ \E u, v \in FullVersions \cup {NoVersion} : input = [kind |-> "versions", u |-> u, v |-> v]
  \/ \E v \in FullVersions, c \in Comparators : input = [kind |-> "range", v |-> v, c |-> c]
  \/ \E args \in Upto(Text(W - 1), MaxArgs), files \in Upto(Files, MaxFiles), dlls \in BOOLEAN :
       input = [kind |-> "payload", args |-> args, files |-> files, dlls |-> dlls]
  \/ \E files \in Upto(Bundled, 3) : input = [kind |-> "unpack", files |-> files]
  \/ \E r \in Responses : \E i, j, k \in 1..Len(Wire(r)) :
       i < j /\ j <= k /\ input = [kind |-> "response", r |-> r, first |-> i, second |-> j, last |-> k]

Next == UNCHANGED input
Spec == Init /\ [][Next]_input

-----------------------------------------------------------------------------
(* Properties *)

\* compare_versions is an order std::sort may be given: no version precedes itself,
\* precedence and "neither precedes" are transitive; so best_installed finds a version
\* whenever an installed one satisfies, and what it finds compares equal.
CompareIsOrder ==
  input.kind = "versions" =>
    LET u == input.u  v == input.v
        Same(a, b) == ~Precedes(a, b) /\ ~Precedes(b, a)
    IN /\ ~(Precedes(u, v) /\ Precedes(v, u))
       /\ \A w \in FullVersions \cup {NoVersion} :
            /\ Precedes(u, v) /\ Precedes(v, w) => Precedes(u, w)
            /\ Same(u, v) /\ Same(v, w) => Same(u, w)
       /\ LET fit == {x \in {u, v} : IsVersion(x)}
              best == Best({u, v}, {{[op |-> ">=", want |-> [v EXCEPT !.pre = 1]]}})
          IN IsVersion(v) => best # {} /\ \A x, y \in best : Same(x, y)

\* What modules_dir.h and the comments promise of a range, said by parts instead of by
\* bounds: a caret keeps the parts up to the leftmost that is not 0, a tilde and a bare
\* partial version the parts that were written (a tilde at most two).
Keeps(v, w, n) == ~Below(v, w) /\ \A i \in 1..n : v.part[i] = w.part[i]
Leftmost(w) ==
  LET set == {i \in 1..w.given : w.part[i] # 0} IN IF set = {} THEN w.given ELSE Min(set)
Promised(v, c) ==
  LET w == c.want IN
  CASE c.op = "^" -> Keeps(v, w, Leftmost(w))
    [] c.op = "~" -> Keeps(v, w, Min({w.given, 2}))
    [] c.op = "=" /\ w.given < 3 -> Keeps(v, w, w.given)
    [] c.op = "=" /\ w.given = 3 -> v.part = w.part /\ v.pre = w.pre
    [] c.op = ">=" -> Below(w, v) \/ (v.part = w.part /\ v.pre = w.pre)
    [] c.op = "<=" -> Below(v, w) \/ (v.part = w.part /\ v.pre = w.pre)
    [] c.op = ">" -> Below(w, v)
    [] c.op = "<" -> Below(v, w)
    [] OTHER -> TRUE

\* Releases satisfy exactly what is promised; a pre-release satisfies no range that
\* names none; and a range with several alternatives is their union.
SatisfiesAsDocumented ==
  input.kind = "range" =>
    LET v == input.v  c == input.c IN
    /\ v.pre = 0 => (SatisfiesOne(v, c) <=> (c.op = "any" \/ c.want.ok) /\ Promised(v, c))
    /\ v.pre # 0 /\ SatisfiesOne(v, c) => c.op # "any" /\ c.want.pre # 0
    /\ Satisfies(v, {{c}, {}}) <=> SatisfiesOne(v, c) \/ v.pre = 0

\* What store_as_lef writes load_from_memory reads back, the main file first, and
\* refuses when the file is cut short anywhere.  More files or arguments than a count
\* holds are cut to what it holds, and an empty argument, name or file among them makes
\* the whole payload unreadable.
LefRoundTrip ==
  input.kind = "payload" =>
    LET files == MainFirst(input.files, <<9>>)
        args == SubSeq(input.args, 1, Len(input.args) % W)
        kept == SubSeq(files, 1, Len(files) % W)
        data == Write(input.args, files, input.dlls)
        got == Read(data)
        empty == \/ \E i \in DOMAIN args : args[i] = <<>>
                 \/ \E i \in DOMAIN kept : kept[i].name = <<>> \/ kept[i].data = <<>>
    IN IF empty \/ kept = <<>> THEN ~got.ok
       ELSE /\ got.ok /\ got.args = args
            /\ got.files = [i \in DOMAIN kept |->
                              [kept[i] EXCEPT !.type = IF input.dlls THEN @ ELSE 0]]
            /\ (\E i \in DOMAIN input.files : input.files[i].name = <<9>>) => got.files[1].name = <<9>>
            /\ Len(files) < W => \A n \in 0..(Len(data) - 1) : ~Read(SubSeq(data, 1, n)).ok

\* import() loads a bundled module only from the folder its first file was unpacked to,
\* and only if all its files were: one that failed, first or last, leaves it empty.
UnpackAllOrNothing ==
  input.kind = "unpack" =>
    LET files == input.files
        bundled == Unpack(files)
        of(m) == {i \in DOMAIN files : files[i].mod = m}
    IN /\ DOMAIN bundled = {files[i].mod : i \in DOMAIN files}
       /\ \A m \in DOMAIN bundled : \E first \in of(m) :
            /\ \A i \in of(m) : first <= i
            /\ bundled[m] = IF \A i \in of(m) : files[i].written THEN files[first].folder ELSE "empty"

\* However the response is cut, WebRequest answers the whole body or nothing; it
\* throws just when a piece ends between CR and LF of a chunk size, or there is no
\* length at all, and DownloadFile saves a file exactly when all of it has come.
BodyIsWhole ==
  input.kind = "response" =>
    LET r == input.r
        wire == Wire(r)
        pieces == <<SubSeq(wire, 1, input.first), SubSeq(wire, input.first + 1, input.second),
                    SubSeq(wire, input.second + 1, input.last)>>
        sizeEnds == {i \in 2..Len(wire) : wire[i] = "CR" /\ wire[i - 1] \in {"1", "0"}}
        web == WebRequest(r, pieces)
        file == DownloadFile(r, pieces)
        unlucky == \/ {input.first, input.second, input.last} \cap sizeEnds # {}
                   \/ ~r.chunked /\ r.length < 0 /\ input.last >= 5
    IN /\ web.end = "throws" <=> unlucky
       /\ web.end = "done" => web.body = r.body
       /\ input.last = Len(wire) /\ ~unlucky => web.end = "done"
       /\ file.end = "saved" => file.body = r.body
       /\ file.end = "saved" <=> r.length > 0 /\ input.last = Len(wire)
=============================================================================
