----------------------------- MODULE LefFormat ------------------------------
(***************************************************************************)
(* A .lef payload on disk: what store_as_lef writes, load_from_memory      *)
(* reads and extract_bundled_dlls unpacks (lef.cpp).  A buffer is a        *)
(* sequence of cells; a fixed-width field takes one cell, and so does a    *)
(* byte of an argument, a name or a file.  The counts and the lengths of   *)
(* arguments are 16 bit in the file, W here.                               *)
(***************************************************************************)
EXTENDS Naturals, Sequences, SequencesExt

CONSTANT W
ASSUME WAssumption == W \in Nat \ {0}

V1 == 1
V2 == 2
HeaderSize == 4
Types == {0, 1}

\* std::rotate: the main file first, the others in their order; without one the
\* order of the directory walk.
MainFirst(files, main) ==
  IF \E i \in DOMAIN files : files[i].name = main
    THEN LET i == CHOOSE i \in DOMAIN files :
                    files[i].name = main /\ \A j \in 1..(i - 1) : files[j].name # main
         IN <<files[i]>> \o RemoveAt(files, i)
    ELSE files

ArgEntry(arg) == <<Len(arg) % W>> \o arg

FileEntry(f, dlls) ==
  (IF dlls THEN <<f.type>> ELSE <<>>) \o <<Len(f.data), Len(f.name)>> \o f.name \o f.data

\* The cells of the first n arguments and of the first n files.
ArgCells(args) ==
  LET upto[n \in 0..Len(args)] == IF n = 0 THEN <<>> ELSE upto[n - 1] \o ArgEntry(args[n])
  IN upto

FileCells(files, dlls) ==
  LET upto[n \in 0..Len(files)] ==
        IF n = 0 THEN <<>> ELSE upto[n - 1] \o FileEntry(files[n], dlls)
  IN upto

Write(args, files, dlls) ==
  LET argCells == ArgCells(args)[Len(args)]
  IN <<IF dlls THEN V2 ELSE V1, Len(files) % W, HeaderSize + Len(argCells), Len(args) % W>>
       \o argCells \o FileCells(files, dlls)[Len(files)]

-----------------------------------------------------------------------------
\* The reader is at cell r.pos (from 0) with what it has read so far; r.ok is FALSE
\* once it has refused the buffer.
Fits(data, pos, n) == pos <= Len(data) /\ n <= Len(data) - pos
Cell(data, pos) == data[pos + 1]
Bytes(data, pos, n) == SubSeq(data, pos + 1, pos + n)
Refused(r) == [r EXCEPT !.ok = FALSE]

\* A mutation: an argument may be empty.
ReadAnyArg(data, r) ==
  IF ~r.ok \/ ~Fits(data, r.pos, 1) \/ ~Fits(data, r.pos + 1, Cell(data, r.pos)) THEN Refused(r)
  ELSE [r EXCEPT !.pos = @ + 1 + Cell(data, r.pos),
                 !.args = Append(@, Bytes(data, r.pos + 1, Cell(data, r.pos)))]

ReadArg(data, r) ==
  IF ~r.ok \/ ~Fits(data, r.pos, 1) THEN Refused(r)
  ELSE LET length == Cell(data, r.pos) IN
       IF length = 0 \/ ~Fits(data, r.pos + 1, length) THEN Refused(r)
       ELSE [r EXCEPT !.pos = @ + 1 + length,
                      !.args = Append(@, Bytes(data, r.pos + 1, length))]

ReadFile(data, v2, r) ==
  LET fields == IF v2 THEN 3 ELSE 2 IN
  IF ~r.ok \/ ~Fits(data, r.pos, fields) THEN Refused(r)
  ELSE LET type == IF v2 THEN Cell(data, r.pos) ELSE 0
           len == Cell(data, r.pos + fields - 2)
           nameLen == Cell(data, r.pos + fields - 1)
           name == r.pos + fields
       IN IF \/ len = 0 \/ nameLen = 0 \/ type \notin Types
             \/ ~Fits(data, name, nameLen) \/ ~Fits(data, name + nameLen, len)
            THEN Refused(r)
            ELSE [r EXCEPT !.pos = name + nameLen + len,
                           !.files = Append(@, [name |-> Bytes(data, name, nameLen), type |-> type,
                                                data |-> Bytes(data, name + nameLen, len)])]

Nothing == [ok |-> FALSE, pos |-> 0, args |-> <<>>, files |-> <<>>]

\* What the reader has after n arguments, and after n files.
ArgsRead(data) ==
  LET after[n \in 0..data[4]] ==
        IF n = 0 THEN [Nothing EXCEPT !.ok = TRUE, !.pos = HeaderSize] ELSE ReadArg(data, after[n - 1])
  IN after

FilesRead(data, args) ==
  LET after[n \in 0..data[2]] ==
        IF n = 0 THEN [args EXCEPT !.pos = data[3]] ELSE ReadFile(data, data[1] = V2, after[n - 1])
  IN after

Read(data) ==
  IF \/ Len(data) < HeaderSize
     \/ data[1] \notin {V1, V2} \/ data[2] = 0
    THEN Nothing
    ELSE LET args == ArgsRead(data)[data[4]]
             all == FilesRead(data, args)[data[2]]
         IN IF args.ok /\ data[3] <= Len(data) /\ all.ok THEN all ELSE Nothing

-----------------------------------------------------------------------------
\* A mutation: the last file of a module decides.
RecordLast(bundled, f) ==
  [m \in DOMAIN bundled \cup {f.mod} |->
     IF m # f.mod THEN bundled[m] ELSE IF f.written THEN f.folder ELSE "empty"]

\* bundled_modules after the unpack of `files`, each a file [mod, folder, written] of a
\* bundled module: a file that cannot be written leaves an empty entry.
Record(bundled, f) ==
  IF ~f.written \/ f.mod \notin DOMAIN bundled
    THEN [m \in DOMAIN bundled \cup {f.mod} |->
            IF m # f.mod THEN bundled[m] ELSE IF f.written THEN f.folder ELSE "empty"]
    ELSE bundled

Unpacked(files) ==
  LET after[n \in 0..Len(files)] == IF n = 0 THEN <<>> ELSE Record(after[n - 1], files[n])
  IN after

Unpack(files) == Unpacked(files)[Len(files)]
=============================================================================
