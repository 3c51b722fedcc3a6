-------------------------------- MODULE Http --------------------------------
(***************************************************************************)
(* The two HTTP readers of API.cpp, WebRequest and DownloadFile, over a    *)
(* response that arrives in pieces cut anywhere.  The response is a        *)
(* sequence of bytes; its header is "h" and the blank line, a chunk size   *)
(* is written in unary ("1" n times, "0" for the last one).  What the      *)
(* header says is r = [chunked, length], length < 0 without Content-Length. *)
(***************************************************************************)
EXTENDS Integers, Sequences, FiniteSets, SequencesExt, FiniteSetsExt

Breaks == {"CR", "LF"}
BlankLine == <<"CR", "LF", "CR", "LF">>

\* The first cell behind the blank line, 0 while it has not arrived.
BodyAt(received) ==
  LET ends == {i \in 4..Len(received) : SubSeq(received, i - 3, i) = BlankLine}
  IN IF ends = {} THEN 0 ELSE Min(ends) + 1

From(s, i) == SubSeq(s, i, Len(s))

\* Where lines of the body may end, and the number on the first line.
Ends(body) == {i \in DOMAIN body : body[i] \in Breaks}
FirstSize(body) == Cardinality({i \in 1..(Min(Ends(body)) - 1) : body[i] = "1"})

\* A mutation: the line break behind the data is not waited for.
HasData(s) == Len(s.body) >= s.size

\* The chunk and the line break behind it have arrived.
HasChunk(s) == Len(s.body) >= s.size + 2

\* WorkOnBody between two chunks.  A size line cut between CR and LF is taken for a
\* whole one, and the body behind it cannot be cut out.
WorkOnLine(s) ==
  LET stop == [s EXCEPT !.go = FALSE]
      eol == Min(Ends(s.body))
  IN CASE Ends(s.body) = {} -> stop
       [] Ends(s.body) # {} /\ (eol = Len(s.body) \/ eol = 1) -> [stop EXCEPT !.end = "throws"]
       [] OTHER -> IF FirstSize(s.body) = 0
                     THEN [stop EXCEPT !.size = -1, !.body = From(@, eol + 2)]
                     ELSE [s EXCEPT !.size = FirstSize(s.body), !.body = From(@, eol + 2)]

\* WorkOnBody, and go: what it returned.
WorkOnBody(s) ==
  CASE ~s.go -> s
    [] s.go /\ s.size = 0 -> WorkOnLine(s)
    [] OTHER -> IF HasChunk(s)
                  THEN [s EXCEPT !.chunks = @ \o SubSeq(s.body, 1, s.size),
                                 !.body = From(@, s.size + 3), !.size = 0]
                  ELSE [s EXCEPT !.go = FALSE]

\* while (WorkOnBody(...)): s after n rounds; every round that goes on takes something
\* off the body.
Rounds(s) ==
  LET after[n \in 0..(Len(s.body) + 1)] ==
        IF n = 0 THEN [s EXCEPT !.go = TRUE] ELSE WorkOnBody(after[n - 1])
  IN after
WorkOnAll(s) == Rounds(s)[Len(s.body) + 1]

\* A body with Content-Length is complete: exactly, or also when more has come.
Complete(exact, n, length) == IF exact THEN n = length ELSE n >= length

\* The state with the piece in it.
Grown(s, piece) ==
  LET received == s.received \o piece
  IN [s EXCEPT !.received = received,
               !.body = CASE BodyAt(received) = 0 -> <<>>
                          [] BodyAt(received) # 0 /\ BodyAt(s.received) = 0 -> From(received, BodyAt(received))
                          [] OTHER -> @ \o piece]

\* One Recv that brought a piece.
Receive(r, exact, s, piece) ==
  LET t == Grown(s, piece)
      u == WorkOnAll(t)
  IN IF s.end # "more" THEN s
     ELSE IF BodyAt(t.received) = 0 THEN t
     ELSE IF r.chunked THEN (IF u.size = -1 THEN [u EXCEPT !.end = "done", !.body = u.chunks] ELSE u)
     ELSE IF r.length < 0 THEN [t EXCEPT !.end = "throws"]
     ELSE IF Complete(exact, Len(t.body), r.length) THEN [t EXCEPT !.end = "done"] ELSE t

\* The reader after the first n pieces.
Empty == [received |-> <<>>, body |-> <<>>, chunks |-> <<>>, size |-> 0, go |-> FALSE, end |-> "more"]
Received(r, exact, pieces) ==
  LET after[n \in 0..Len(pieces)] ==
        IF n = 0 THEN Empty ELSE Receive(r, exact, after[n - 1], pieces[n])
  IN after
Pieces(r, exact, pieces) == Received(r, exact, pieces)[Len(pieces)]

\* WebRequest asks for the exact length, and goes on asking when nothing more comes.
WebRequest(r, pieces) ==
  LET s == Pieces(r, TRUE, pieces)
  IN [end |-> IF s.end = "more" THEN "endless" ELSE s.end, body |-> s.body]

\* DownloadFile ends when the connection does; a chunked answer has length 0 and is
\* cut down to nothing.
DownloadFile(r, pieces) ==
  LET s == Pieces(r, FALSE, pieces)
      length == IF r.chunked \/ BodyAt(s.received) = 0 THEN 0 ELSE r.length
  IN IF s.end = "throws" THEN [end |-> "throws", body |-> <<>>]
     ELSE IF Len(s.body) < length \/ length = 0 THEN [end |-> "failed", body |-> <<>>]
     ELSE [end |-> "saved", body |-> SubSeq(s.body, 1, length)]
=============================================================================
