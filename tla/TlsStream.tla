----------------------------- MODULE TlsStream ------------------------------
(***************************************************************************)
(* How an HTTPS answer gets from the socket to its reader: CSSLClient's    *)
(* Recv and negotiation (SSLClient.cpp) over CBaseSock's overlapped reads  *)
(* (BaseSock.cpp).                                                         *)
(*                                                                         *)
(* The server sends records; the network hands their bytes over in pieces  *)
(* cut anywhere.  A byte is its number in the stream.  readBuffer is an    *)
(* array; a read that timed out stays active, and the system writes into   *)
(* the array whenever its bytes come.  Decryption is Schannel's: it takes  *)
(* whole records, in order, and nothing else.                              *)
(***************************************************************************)
EXTENDS Integers, Sequences, SequencesExt

CONSTANTS BufferSize,   \* sizeof(readBuffer)
          Ask,          \* what a caller wants at most of one Recv
          Overhead,     \* header and trailer of a record
          Length,       \* the plaintext lengths of records
          MaxRecords    \* bound: records the server sends

Kind == {"hello", "finished", "data", "close", "renegotiate"}
Record == [kind : Kind, length : Length]
Size(r) == r.length + Overhead

ASSUME TlsAssumption ==
  /\ Ask \in Nat \ {0} /\ Overhead \in Nat \ {0} /\ MaxRecords \in Nat
  /\ Length \subseteq Nat
  /\ BufferSize \in Nat \ {0}
  /\ \A n \in Length : n + Overhead <= BufferSize

VARIABLES
  records,      \* what the server has sent
  sent,         \* the bytes of all that
  taken,        \* how many of them the system has written into readBuffer
  open,         \* the connection stands
  readBuffer, readPtr, readBufferBytes,
  pending,      \* the overlapped read: where it writes, how much it may, what it got
  plainText,    \* decrypted bytes that the caller had no room for
  next,         \* the record that Schannel expects, and the byte it begins with
  first,
  pc,
  delivered     \* what Recv has returned, byte by byte: <<record, number>>

wire == <<records, sent, taken, open>>
buffer == <<readBuffer, readPtr, readBufferBytes, pending>>
schannel == <<next, first>>
vars == <<wire, buffer, plainText, schannel, pc, delivered>>

NoRead == [active |-> FALSE, at |-> 0, room |-> 0, got |-> -1]
Read(a, n) == [active |-> TRUE, at |-> a, room |-> n, got |-> -1]
Pending == [active : BOOLEAN, at : 0..BufferSize, room : 0..BufferSize, got : -1..BufferSize]
Index == 0..(BufferSize - 1)
Control == {"negotiate", "nread", "nwait", "failed",
            "caller", "saved", "decrypt", "read", "reread", "wait", "closed", "left"}

TypeOK ==
  /\ records \in Seq(Record)
  /\ {sent, taken, first} \subseteq Nat /\ next \in Nat \ {0} /\ open \in BOOLEAN
  /\ readBuffer \in [Index -> Nat] /\ readPtr \in 0..BufferSize
  /\ readBufferBytes \in 0..BufferSize
  /\ pending \in Pending
  /\ plainText \in Seq(Nat \X Nat) /\ delivered \in Seq(Nat \X Nat)
  /\ pc \in Control

Init ==
  /\ records = <<>> /\ sent = 0 /\ taken = 0 /\ open = TRUE
  /\ readBuffer = [i \in Index |-> 0] /\ readPtr = 0 /\ readBufferBytes = 0
  /\ pending = NoRead
  /\ plainText = <<>> /\ delivered = <<>>
  /\ next = 1 /\ first = 1
  /\ pc = "nread"

-----------------------------------------------------------------------------
(* The server and the system *)

Negotiated == \E i \in 1..Len(records) : records[i].kind = "finished"
Closed == records # <<>> /\ Last(records).kind = "close"

\* The server negotiates, then sends its answer, and may close at the end.
ServerSends ==
  /\ open /\ ~Closed /\ Len(records) < MaxRecords
  /\ \E r \in Record :
       /\ r.kind \in IF Negotiated THEN {"data", "close", "renegotiate"} ELSE {"hello", "finished"}
       /\ records' = Append(records, r)
       /\ sent' = sent + Size(r)
  /\ UNCHANGED <<taken, open, buffer, plainText, schannel, pc, delivered>>

ConnectionEnds ==
  /\ open /\ open' = FALSE
  /\ UNCHANGED <<records, sent, taken, buffer, plainText, schannel, pc, delivered>>

\* An active read gets some of the bytes that have come, wherever the program is.
SystemReads ==
  /\ pending.active /\ pending.got = -1
  /\ \E n \in 1..pending.room :
       /\ taken + n <= sent
       /\ taken' = taken + n
       /\ readBuffer' = [i \in Index |-> IF i \in pending.at..(pending.at + n - 1)
                                           THEN taken + 1 + (i - pending.at) ELSE readBuffer[i]]
       /\ pending' = [pending EXCEPT !.got = n]
  /\ UNCHANGED <<records, sent, open, readPtr, readBufferBytes, plainText, schannel, pc, delivered>>

\* A read of a connection that has ended gets nothing, early or late.
SystemEndsRead ==
  /\ pending.active /\ pending.got = -1 /\ ~open
  /\ pending' = [pending EXCEPT !.got = 0]
  /\ UNCHANGED <<wire, readBuffer, readPtr, readBufferBytes, plainText, schannel, pc, delivered>>

-----------------------------------------------------------------------------
(* Schannel *)

\* The bytes from p on are the first n of the record that is expected.
InPlace(p, n) == \A i \in 0..(n - 1) : readBuffer[p + i] = first + i

Holds(p, n) ==
  /\ next <= Len(records)
  /\ InPlace(p, IF n < Size(records[next]) THEN n ELSE Size(records[next]))

Incomplete(n) == n < Size(records[next])

\* A record is taken in place: what was its ciphertext is none any more.
Take(p) ==
  /\ next' = next + 1 /\ first' = first + Size(records[next])
  /\ readBuffer' = [i \in Index |-> IF i \in p..(p + Size(records[next]) - 1)
                                      THEN 0 ELSE readBuffer[i]]

-----------------------------------------------------------------------------
(* CBaseSock::Recv into readBuffer at a, which has room for n *)

BeginRead(a, n) == pending' = IF pending.active THEN pending ELSE Read(a, n)

Got == pending.active /\ pending.got > 0

-----------------------------------------------------------------------------
(* SSPINegotiateLoop *)

NegotiationReads ==
  /\ pc = "nread" /\ pc' = "nwait"
  /\ BeginRead(readBufferBytes, BufferSize - readBufferBytes)
  /\ UNCHANGED <<wire, readBuffer, readPtr, readBufferBytes, plainText, schannel, delivered>>

NegotiationReceives ==
  /\ pc = "nwait" /\ Got /\ pc' = "negotiate"
  /\ readBufferBytes' = readBufferBytes + pending.got
  /\ pending' = NoRead
  /\ UNCHANGED <<wire, readBuffer, readPtr, plainText, schannel, delivered>>

\* A negotiation that meets an error or waits too long is not tried again.
NegotiationFails ==
  /\ \/ pc = "nwait" /\ ~Got
     \/ pc = "negotiate" /\ ~Holds(0, readBufferBytes)
  /\ pc' = "failed"
  /\ UNCHANGED <<wire, buffer, plainText, schannel, delivered>>

\* A message of the server is answered; what came behind it moves to the front.
Negotiate ==
  /\ pc = "negotiate" /\ Holds(0, readBufferBytes) /\ ~Incomplete(readBufferBytes)
  /\ LET size == Size(records[next]) IN
     /\ next' = next + 1 /\ first' = first + size
     /\ readBufferBytes' = readBufferBytes - size
     /\ readBuffer' = [i \in Index |-> IF i < readBufferBytes - size
                                         THEN readBuffer[i + size] ELSE 0]
  /\ pc' = IF records[next].kind = "finished" THEN "caller"
           ELSE IF readBufferBytes' = 0 THEN "nread" ELSE "negotiate"
  /\ UNCHANGED <<wire, readPtr, pending, plainText, delivered>>

NegotiateMore ==
  /\ pc = "negotiate" /\ Holds(0, readBufferBytes) /\ Incomplete(readBufferBytes)
  /\ pc' = "nread"
  /\ UNCHANGED <<wire, buffer, plainText, schannel, delivered>>

-----------------------------------------------------------------------------
(* Recv and RecvPartialEncrypted *)

Smaller(a, b) == IF a < b THEN a ELSE b

\* The caller is served from plainText as long as there is any.
RecvStored ==
  /\ pc = "caller" /\ plainText # <<>>
  /\ LET n == Smaller(Ask, Len(plainText)) IN
     /\ delivered' = delivered \o SubSeq(plainText, 1, n)
     /\ plainText' = SubSeq(plainText, n + 1, Len(plainText))
  /\ UNCHANGED <<wire, buffer, schannel, pc>>

\* A mutation: bytes that were read before are only looked at when more have come.
RecvStartsReading ==
  /\ pc = "caller" /\ plainText = <<>> /\ pc' = "read"
  /\ UNCHANGED <<wire, buffer, plainText, schannel, delivered>>

RecvStarts ==
  /\ pc = "caller" /\ plainText = <<>>
  /\ pc' = IF readBufferBytes = 0 THEN "read" ELSE "saved"
  /\ UNCHANGED <<wire, buffer, plainText, schannel, delivered>>

\* A mutation: readPtr still points behind when the bytes have moved to the front.
MakeRoomKeepsPointer ==
  /\ pc \in {"read", "reread"}
  /\ LET end == BufferSize - readBufferBytes - readPtr IN
     IF end = 0
       THEN /\ readPtr > 0
            /\ readBuffer' = [i \in Index |-> IF i < BufferSize - readPtr
                                                THEN readBuffer[i + readPtr] ELSE readBuffer[i]]
            /\ BeginRead(readPtr + readBufferBytes, readPtr)
       ELSE BeginRead(readPtr + readBufferBytes, end) /\ UNCHANGED readBuffer
  /\ pc' = "wait"
  /\ UNCHANGED <<wire, readPtr, readBufferBytes, plainText, schannel, delivered>>

\* Room is made at the end of the buffer if there is none; then it reads.
MakeRoomAndRead ==
  /\ pc \in {"read", "reread"}
  /\ LET end == BufferSize - readBufferBytes - readPtr IN
     IF end = 0
       THEN /\ readPtr > 0
            /\ readBuffer' = [i \in Index |-> IF i < BufferSize - readPtr
                                                THEN readBuffer[i + readPtr] ELSE readBuffer[i]]
            /\ readPtr' = 0
            /\ BeginRead(readBufferBytes, readPtr)
       ELSE BeginRead(readPtr + readBufferBytes, end) /\ UNCHANGED <<readBuffer, readPtr>>
  /\ pc' = "wait"
  /\ UNCHANGED <<wire, readBufferBytes, plainText, schannel, delivered>>

Receive ==
  /\ pc = "wait" /\ Got /\ pc' = "decrypt"
  /\ readBufferBytes' = readBufferBytes + pending.got
  /\ pending' = NoRead
  /\ UNCHANGED <<wire, readBuffer, readPtr, plainText, schannel, delivered>>

\* The time for the whole record is over; the read stays active.
TimeOut ==
  /\ pc = "wait" /\ pending.got = -1 /\ pc' = "caller"
  /\ UNCHANGED <<wire, buffer, plainText, schannel, delivered>>

ReadEnds ==
  /\ pc = "wait" /\ pending.got = 0 /\ pc' = "caller"
  /\ pending' = NoRead
  /\ UNCHANGED <<wire, readBuffer, readPtr, readBufferBytes, plainText, schannel, delivered>>

\* It was over before another read began.
TimeOutBetween ==
  /\ pc = "reread" /\ pc' = "caller"
  /\ IF BufferSize - readBufferBytes - readPtr = 0
       THEN /\ readBuffer' = [i \in Index |-> IF i < BufferSize - readPtr
                                                THEN readBuffer[i + readPtr] ELSE readBuffer[i]]
            /\ readPtr' = 0
       ELSE UNCHANGED <<readBuffer, readPtr>>
  /\ UNCHANGED <<wire, readBufferBytes, pending, plainText, schannel, delivered>>

DecryptMore ==
  /\ pc \in {"saved", "decrypt"}
  /\ Holds(readPtr, readBufferBytes) /\ Incomplete(readBufferBytes)
  /\ pc' = IF pc = "saved" THEN "read" ELSE "reread"
  /\ UNCHANGED <<wire, buffer, plainText, schannel, delivered>>

Plain(i) == [k \in 1..records[i].length |-> <<i, k>>]

\* A mutation: the bytes behind the record are dropped with it.
DecryptDropsExtra ==
  /\ pc \in {"saved", "decrypt"}
  /\ Holds(readPtr, readBufferBytes) /\ ~Incomplete(readBufferBytes)
  /\ records[next].kind = "data"
  /\ Take(readPtr)
  /\ LET n == Smaller(Ask, records[next].length) IN
     /\ delivered' = delivered \o SubSeq(Plain(next), 1, n)
     /\ plainText' = SubSeq(Plain(next), n + 1, records[next].length)
  /\ readBufferBytes' = 0 /\ readPtr' = 0
  /\ pc' = "caller"
  /\ UNCHANGED <<wire, pending>>

\* A record: the caller gets what it has room for, the rest is stored, and what was
\* read behind the record is kept for the next time.
Decrypt ==
  /\ pc \in {"saved", "decrypt"}
  /\ Holds(readPtr, readBufferBytes) /\ ~Incomplete(readBufferBytes)
  /\ records[next].kind = "data"
  /\ Take(readPtr)
  /\ LET n == Smaller(Ask, records[next].length) IN
     /\ delivered' = delivered \o SubSeq(Plain(next), 1, n)
     /\ plainText' = SubSeq(Plain(next), n + 1, records[next].length)
  /\ readBufferBytes' = readBufferBytes - Size(records[next])
  /\ readPtr' = IF readBufferBytes' = 0 THEN 0 ELSE readPtr + Size(records[next])
  /\ pc' = "caller"
  /\ UNCHANGED <<wire, pending>>

\* The end of the session, a renegotiation, or bytes that are no record: no Recv
\* returns anything after it.
DecryptFails ==
  /\ pc \in {"saved", "decrypt"}
  /\ \/ ~Holds(readPtr, readBufferBytes)
     \/ Holds(readPtr, readBufferBytes) /\ ~Incomplete(readBufferBytes) /\ records[next].kind # "data"
  /\ pc' = "closed"
  /\ UNCHANGED <<wire, buffer, plainText, schannel, delivered>>

\* DownloadFile gives up at an error and at an empty record.
CallerLeaves ==
  /\ pc \in {"caller", "closed"} /\ plainText = <<>> /\ pc' = "left"
  /\ UNCHANGED <<wire, buffer, plainText, schannel, delivered>>

Program ==
  \/ NegotiationReads \/ NegotiationReceives \/ Negotiate \/ NegotiateMore
  \/ RecvStored \/ RecvStarts \/ MakeRoomAndRead \/ Receive \/ ReadEnds
  \/ DecryptMore \/ Decrypt \/ DecryptFails

Next ==
  \/ ServerSends \/ ConnectionEnds \/ SystemReads \/ SystemEndsRead \/ Program
  \/ NegotiationFails \/ TimeOut \/ TimeOutBetween \/ CallerLeaves

Spec == Init /\ [][Next]_vars

\* The program runs and the network delivers; the server need not send anything.
FairSpec == Spec /\ WF_vars(Program) /\ WF_vars(SystemReads)

-----------------------------------------------------------------------------
(* Properties *)

\* The plaintext bytes of the records that Schannel took, and their order.
Answer == UNION {{i} \X (1..records[i].length) :
                   i \in {n \in 1..(next - 1) : records[n].kind = "data"}}
Before(b, c) == b[1] < c[1] \/ (b[1] = c[1] /\ b[2] < c[2])
InOrder(bytes) == \A i, j \in DOMAIN bytes : i < j => Before(bytes[i], bytes[j])

\* Recv has returned, or keeps for later, the contents of the records that Schannel
\* took, each byte once and in order; and Schannel is only ever shown the server's
\* bytes in their order, so that nothing but the server ends the answer.
StreamIsWhole ==
  /\ Range(delivered \o plainText) = Answer
  /\ InOrder(delivered \o plainText)
  /\ pc = "closed" => records[next].kind # "data"

\* A read, also one that an earlier Recv left active, writes behind the bytes that wait
\* to be decrypted and not beyond the buffer; and whoever must read has room to.
ReadLandsInPlace ==
  /\ pending.active => /\ pending.at = readPtr + readBufferBytes
                       /\ pending.at + pending.room <= BufferSize
  /\ pc \in {"nread", "read", "reread"} => readBufferBytes < BufferSize

\* While the connection stands, whatever the server sends before it ends its answer
\* reaches a caller that asks again, however often a Recv timed out.
EveryRecordArrives ==
  \A n \in 1..MaxRecords :
    (n <= Len(records) /\ \A i \in 1..n : records[i].kind \notin {"close", "renegotiate"})
      ~> \/ next > n /\ plainText = <<>>
         \/ ~open \/ pc \in {"failed", "left"}
=============================================================================
