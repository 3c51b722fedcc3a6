--------------------------- MODULE TlsStreamProofs ---------------------------
(***************************************************************************)
(* A read that outlives its Recv lands where its bytes belong, and the     *)
(* answer arrives whole: for every size of buffer and records, however the *)
(* network cuts the stream and however often reads time out.               *)
(***************************************************************************)
EXTENDS TlsStream, SequenceTheorems, TLAPS

Overlapped == [active : BOOLEAN, at : Nat, room : Nat, got : Int]

Types ==
  /\ records \in Seq(Record) /\ next \in Nat \ {0} /\ pc \in Control
  /\ readPtr \in Nat /\ readBufferBytes \in Nat /\ pending \in Overlapped

\* The waiting bytes lie in the buffer, and a read that is active writes behind them.
Geometry ==
  /\ readPtr + readBufferBytes <= BufferSize
  /\ pending.active => /\ pending.at = readPtr + readBufferBytes
                       /\ pending.room > 0 /\ pending.at + pending.room <= BufferSize
                       /\ pending.got <= pending.room

\* The bytes that wait are less than a record.
LessThanRecord ==
  readBufferBytes = 0 \/ (next <= Len(records) /\ readBufferBytes < Size(records[next]))

\* A read is only begun, and only left active, when more bytes are needed.
Reading ==
  /\ pending.active => LessThanRecord /\ pc \notin {"negotiate", "nread", "decrypt", "reread"}
  /\ pc \in {"nread", "read", "reread"} => LessThanRecord
  /\ pc \in {"negotiate", "nread", "nwait"} => readPtr = 0

IInv == Types /\ Geometry /\ Reading

-----------------------------------------------------------------------------
(* Lemmas *)

\* Every record fits into the buffer.
LEMMA RecordsFit ==
  ASSUME Types, next <= Len(records)
  PROVE  Size(records[next]) \in 1..BufferSize
<1>1. records[next] \in Record BY DEF Types
<1>2. records[next].length \in Length BY <1>1 DEF Record
<1>3. records[next].length \in Nat /\ records[next].length + Overhead <= BufferSize
  BY <1>2, TlsAssumption
<1> QED BY <1>3, TlsAssumption DEF Size

LEMMA LessThanBuffer ==
  ASSUME Types, LessThanRecord PROVE readBufferBytes < BufferSize
BY RecordsFit, TlsAssumption DEF Types, LessThanRecord

\* Records that the server sends later change nothing about those that were sent.
LEMMA MoreRecords ==
  ASSUME Types, NEW r \in Record, records' = Append(records, r), next' = next,
         readBufferBytes' = readBufferBytes
  PROVE  records' \in Seq(Record) /\ (LessThanRecord => LessThanRecord')
BY DEF Types, LessThanRecord

LEMMA InitInv == Init => IInv
BY TlsAssumption
  DEF Init, IInv, Types, Geometry, Reading, LessThanRecord, NoRead, Overlapped, Control

LEMMA BeginReadKeeps ==
  ASSUME Types, Geometry, NEW a \in Nat, NEW n \in Nat \ {0}, a + n <= BufferSize, BeginRead(a, n),
         pending.active \/ a = readPtr' + readBufferBytes',
         pending.active => readPtr' = readPtr /\ readBufferBytes' = readBufferBytes
  PROVE  /\ pending' \in Overlapped
         /\ pending'.active
         /\ pending'.at = readPtr' + readBufferBytes'
         /\ pending'.room > 0 /\ pending'.at + pending'.room <= BufferSize
         /\ pending'.got <= pending'.room
BY DEF Types, Geometry, BeginRead, Read, Overlapped

LEMMA NextInv == IInv /\ [Next]_vars => IInv'
<1> SUFFICES ASSUME IInv, [Next]_vars PROVE IInv' OBVIOUS
<1> USE DEF IInv
<1>1. CASE ServerSends
  <2>1. PICK r \in Record : records' = Append(records, r) BY <1>1 DEF ServerSends
  <2>2. /\ UNCHANGED <<readPtr, readBufferBytes, pending, next, pc>>
        /\ records' \in Seq(Record) /\ (LessThanRecord => LessThanRecord')
    BY <1>1, <2>1, MoreRecords DEF ServerSends, buffer, schannel
  <2> QED BY <2>2 DEF Types, Geometry, Reading
<1>2. CASE ConnectionEnds \/ CallerLeaves \/ RecvStored \/ TimeOut
  BY <1>2 DEF ConnectionEnds, CallerLeaves, RecvStored, TimeOut, wire, buffer, schannel,
       Types, Geometry, Reading, LessThanRecord, Control
<1>3. CASE SystemReads \/ SystemEndsRead
  BY <1>3
    DEF SystemReads, SystemEndsRead, wire, schannel, Types, Geometry, Reading, LessThanRecord,
        Overlapped
<1>4. CASE NegotiationReads
  <2>1. /\ pc = "nread" /\ pc' = "nwait" /\ readPtr = 0 /\ LessThanRecord
        /\ UNCHANGED <<records, next, readPtr, readBufferBytes>>
        /\ BeginRead(readBufferBytes, BufferSize - readBufferBytes)
    BY <1>4 DEF NegotiationReads, wire, schannel, Reading
  <2>2. readBufferBytes \in Nat /\ readBufferBytes < BufferSize /\ BufferSize \in Nat
    BY <2>1, LessThanBuffer, TlsAssumption DEF Types
  <2>3. /\ pending' \in Overlapped /\ pending'.at = readPtr' + readBufferBytes'
        /\ pending'.room > 0 /\ pending'.at + pending'.room <= BufferSize
        /\ pending'.got <= pending'.room
    BY <2>1, <2>2, BeginReadKeeps
  <2>4. Types' BY <2>1, <2>3 DEF Types, Control
  <2>5. Geometry' BY <2>1, <2>3 DEF Geometry
  <2>6. Reading' BY <2>1 DEF Reading, LessThanRecord
  <2> QED BY <2>4, <2>5, <2>6
<1>5. CASE NegotiationReceives \/ Receive
  <2>1. /\ Got /\ pc' \in {"negotiate", "decrypt"} /\ pending' = NoRead
        /\ readBufferBytes' = readBufferBytes + pending.got
        /\ UNCHANGED <<records, next, readPtr>>
        /\ pc' = "negotiate" => readPtr = 0
    BY <1>5 DEF NegotiationReceives, Receive, wire, schannel, Reading
  <2>2. /\ pending.got \in Nat
        /\ readPtr + (readBufferBytes + pending.got) <= BufferSize
    BY <2>1, TlsAssumption DEF Got, Types, Geometry, Overlapped
  <2>3. pending' \in Overlapped /\ ~pending'.active BY <2>1 DEF NoRead, Overlapped
  <2>4. Types' BY <2>1, <2>2, <2>3 DEF Types, Control
  <2>5. Geometry' BY <2>1, <2>2, <2>3 DEF Geometry
  <2>6. Reading' BY <2>1, <2>3 DEF Reading
  <2> QED BY <2>4, <2>5, <2>6
<1>6. CASE ReadEnds
  <2>1. /\ pc' = "caller" /\ pending' = NoRead
        /\ UNCHANGED <<records, next, readPtr, readBufferBytes>>
    BY <1>6 DEF ReadEnds, wire, schannel
  <2>2. pending' \in Overlapped /\ ~pending'.active BY <2>1 DEF NoRead, Overlapped
  <2> QED BY <2>1, <2>2 DEF Types, Geometry, Reading, Control
<1>7. CASE NegotiationFails \/ DecryptFails
  BY <1>7
    DEF NegotiationFails, DecryptFails, wire, buffer, schannel, Types, Geometry, Reading,
        LessThanRecord, Control
<1>8. CASE NegotiateMore \/ DecryptMore
  BY <1>8
    DEF NegotiateMore, DecryptMore, Holds, Incomplete, wire, buffer, schannel, Types, Geometry,
        Reading, LessThanRecord, Control
<1>9. CASE Negotiate
  <2>1. /\ pc = "negotiate" /\ pc' \in {"caller", "nread", "negotiate"}
        /\ next' = next + 1 /\ UNCHANGED <<records, readPtr, pending>>
        /\ readBufferBytes' = readBufferBytes - Size(records[next])
        /\ pc' = "nread" => readBufferBytes' = 0
    BY <1>9 DEF Negotiate, wire
  <2>2. next <= Len(records) /\ ~(readBufferBytes < Size(records[next]))
    BY <1>9 DEF Negotiate, Holds, Incomplete
  <2>3. readBufferBytes' \in Nat /\ readBufferBytes' <= readBufferBytes
    BY <2>1, <2>2, RecordsFit, TlsAssumption DEF Types
  <2>4. readPtr = 0 /\ ~pending.active BY <2>1 DEF Reading
  <2>5. Types' BY <2>1, <2>3 DEF Types, Control
  <2>6. Geometry' BY <2>1, <2>3, <2>4, TlsAssumption DEF Types, Geometry
  <2>7. Reading' BY <2>1, <2>4 DEF Reading, LessThanRecord
  <2> QED BY <2>5, <2>6, <2>7
<1>10. CASE RecvStarts
  BY <1>10
    DEF RecvStarts, wire, buffer, schannel, Types, Geometry, Reading, LessThanRecord, Control
<1>11. CASE MakeRoomAndRead
  <2> DEFINE end == BufferSize - readBufferBytes - readPtr
  <2>1. /\ pc \in {"read", "reread"} /\ pc' = "wait" /\ LessThanRecord
        /\ UNCHANGED <<records, next, readBufferBytes>>
    BY <1>11 DEF MakeRoomAndRead, wire, schannel, Reading
  <2>2. /\ {readPtr, readBufferBytes, BufferSize} \subseteq Nat /\ readBufferBytes < BufferSize
        /\ readPtr + readBufferBytes <= BufferSize
    BY <2>1, LessThanBuffer, TlsAssumption DEF Types, Geometry
  <2>3. /\ readPtr' \in Nat /\ readPtr' + readBufferBytes' <= BufferSize
        /\ pending' \in Overlapped /\ pending'.at = readPtr' + readBufferBytes'
        /\ pending'.room > 0 /\ pending'.at + pending'.room <= BufferSize
        /\ pending'.got <= pending'.room
    <3>1. CASE end = 0
      <4>1. readPtr' = 0 /\ BeginRead(readBufferBytes, readPtr)
        BY <1>11, <3>1 DEF MakeRoomAndRead
      <4>2. readPtr \in Nat \ {0} /\ readBufferBytes + readPtr = BufferSize BY <2>2, <3>1
      <4>3. ~pending.active BY <4>2, <2>2 DEF Geometry, Types, Overlapped
      <4> QED BY <4>1, <4>2, <4>3, <2>1, <2>2, BeginReadKeeps
    <3>2. CASE end # 0
      <4>1. readPtr' = readPtr /\ BeginRead(readPtr + readBufferBytes, end)
        BY <1>11, <3>2 DEF MakeRoomAndRead
      <4>2. /\ end \in Nat \ {0} /\ readPtr + readBufferBytes \in Nat
            /\ readPtr + readBufferBytes + end <= BufferSize
        BY <2>2, <3>2
      <4> HIDE DEF end
      <4> QED BY <4>1, <4>2, <2>1, <2>2, BeginReadKeeps
    <3> QED BY <3>1, <3>2
  <2>4. Types' BY <2>1, <2>3 DEF Types, Control
  <2>5. Geometry' BY <2>1, <2>3 DEF Geometry
  <2>6. Reading' BY <2>1 DEF Reading, LessThanRecord
  <2> QED BY <2>4, <2>5, <2>6
<1>12. CASE TimeOutBetween
  <2>1. /\ pc = "reread" /\ pc' = "caller" /\ readPtr' \in {0, readPtr}
        /\ UNCHANGED <<records, next, readBufferBytes, pending>>
    BY <1>12 DEF TimeOutBetween, wire, schannel
  <2>2. ~pending.active BY <2>1 DEF Reading
  <2>3. {readPtr, readBufferBytes, BufferSize} \subseteq Nat BY TlsAssumption DEF Types
  <2>4. readPtr' + readBufferBytes <= BufferSize BY <2>1, <2>3 DEF Geometry
  <2>5. Types' BY <2>1 DEF Types, Control
  <2>6. Geometry' BY <2>1, <2>2, <2>4 DEF Geometry
  <2>7. Reading' BY <2>1, <2>2 DEF Reading
  <2> QED BY <2>5, <2>6, <2>7
<1>13. CASE Decrypt
  <2>1. /\ pc \in {"saved", "decrypt"} /\ pc' = "caller"
        /\ next' = next + 1 /\ UNCHANGED <<records, pending>>
        /\ readBufferBytes' = readBufferBytes - Size(records[next])
        /\ readPtr' \in {0, readPtr + Size(records[next])}
    BY <1>13 DEF Decrypt, Take, wire
  <2>2. next <= Len(records) /\ ~(readBufferBytes < Size(records[next]))
    BY <1>13 DEF Decrypt, Holds, Incomplete
  <2>3. Size(records[next]) \in Nat \ {0} BY <2>2, RecordsFit
  <2>4. ~pending.active BY <2>2, <2>3 DEF Reading, LessThanRecord, Types
  <2>5. /\ readBufferBytes' \in Nat /\ readPtr' \in Nat
        /\ readPtr' + readBufferBytes' <= BufferSize
    BY <2>1, <2>2, <2>3, TlsAssumption DEF Types, Geometry
  <2>6. Types' BY <2>1, <2>5 DEF Types, Control
  <2>7. Geometry' BY <2>1, <2>4, <2>5 DEF Geometry
  <2>8. Reading' BY <2>1, <2>4 DEF Reading
  <2> QED BY <2>6, <2>7, <2>8
<1>14. CASE UNCHANGED vars
  BY <1>14 DEF vars, wire, buffer, schannel, Types, Geometry, Reading, LessThanRecord
<1> QED BY <1>1, <1>2, <1>3, <1>4, <1>5, <1>6, <1>7, <1>8, <1>9, <1>10, <1>11, <1>12, <1>13,
    <1>14
  DEF Next, Program

-----------------------------------------------------------------------------
(* Theorems *)

\* The inductive invariant: the bytes that wait lie in the buffer, a read is only
\* active while they are less than a record, and it writes behind them.
THEOREM BufferIsConsistent == Spec => []IInv
<1>1. Init => IInv BY InitInv
<1>2. IInv /\ [Next]_vars => IInv' BY NextInv
<1> QED BY <1>1, <1>2, PTL DEF Spec

\* However often a Recv times out, the read it left behind never writes anywhere but
\* behind the bytes that wait, and there is always room to read.
THEOREM LateReadsLandInPlace == Spec => []ReadLandsInPlace
<1>1. IInv => ReadLandsInPlace
  BY LessThanBuffer DEF IInv, Types, Geometry, Reading, ReadLandsInPlace
<1> QED BY <1>1, BufferIsConsistent, PTL

-----------------------------------------------------------------------------
(* Why the answer is whole *)

Bytes ==
  /\ {sent, taken, first} \subseteq Nat /\ readBuffer \in [Index -> Nat]
  /\ plainText \in Seq(Nat \X Nat) /\ delivered \in Seq(Nat \X Nat)

\* How many bytes wait, with those that a read has got since.
Waiting == IF Got THEN readBufferBytes + pending.got ELSE readBufferBytes

\* They are the server's next.
Content ==
  /\ \A i \in Nat : i < Waiting => readBuffer[readPtr + i] = first + i
  /\ taken + 1 = first + Waiting
  /\ taken <= sent
  /\ pc \in {"negotiate", "saved", "decrypt"} => readBufferBytes > 0

\* Where each record begins: the expected one at first, the one after the last behind all.
Begins(s) ==
  /\ s[next] = first /\ s[Len(records) + 1] = sent + 1
  /\ \A i \in 1..Len(records) : s[i + 1] = s[i] + Size(records[i])

Position ==
  /\ next <= Len(records) + 1
  /\ \E s \in [Nat -> Nat] : Begins(s)

\* The server answers only when it has finished the negotiation, and the client listens
\* to the answer only when it has seen that.
Handshake ==
  /\ \A i \in 1..Len(records) :
       records[i].kind = "data" => \E j \in 1..(i - 1) : records[j].kind = "finished"
  /\ pc \in {"negotiate", "nread", "nwait"} =>
       \A i \in 1..(next - 1) : records[i].kind # "finished"

Order ==
  /\ plainText # <<>> => pc = "caller"
  /\ pc = "closed" => next <= Len(records)

SInv == Bytes /\ Content /\ Position /\ Handshake /\ Order /\ StreamIsWhole

-----------------------------------------------------------------------------
(* Lemmas *)

\* The answer only grows when Schannel takes a record.
LEMMA AnswerStands ==
  ASSUME next' = next, \A i \in 1..(next - 1) : records'[i] = records[i]
  PROVE  Answer' = Answer
BY DEF Answer

\* A read that is begun has got nothing yet.
LEMMA BeginReadGets ==
  ASSUME NEW a, NEW n, BeginRead(a, n), readBufferBytes' = readBufferBytes
  PROVE  Waiting' = Waiting /\ (~pending.active => Waiting' = readBufferBytes)
BY DEF BeginRead, Waiting, Got, Read

\* A step that touches neither the bytes nor the records.
LEMMA QuietStep ==
  ASSUME SInv,
         UNCHANGED <<records, sent, taken, readBuffer, readPtr, readBufferBytes, schannel>>,
         UNCHANGED <<plainText, delivered>>, Waiting' = Waiting,
         pc' \in {"negotiate", "saved", "decrypt"} => readBufferBytes > 0,
         pc' \in {"negotiate", "nread", "nwait"} => pc \in {"negotiate", "nread", "nwait"},
         plainText # <<>> => pc' = "caller",
         pc' = "closed" => next <= Len(records) /\ records[next].kind # "data"
  PROVE  SInv'
<1>1. Answer' = Answer BY AnswerStands DEF schannel
<1>2. Bytes' /\ Content' BY DEF SInv, Bytes, Content, schannel
<1>3. Position' /\ Handshake' BY DEF SInv, Position, Begins, Handshake, schannel
<1>4. Order' /\ StreamIsWhole' BY <1>1 DEF SInv, Order, StreamIsWhole, schannel
<1> QED BY <1>2, <1>3, <1>4 DEF SInv

LEMMA QuietSteps ==
  ASSUME IInv, SInv,
         \/ ConnectionEnds \/ SystemEndsRead \/ NegotiationReads \/ NegotiationFails
         \/ NegotiateMore \/ RecvStarts \/ TimeOut \/ ReadEnds \/ DecryptMore \/ CallerLeaves
  PROVE  SInv'
<1> USE DEF wire, buffer, schannel
<1>1. /\ Content /\ Order /\ readBufferBytes \in Nat
      /\ pc = "closed" => records[next].kind # "data"
  BY DEF IInv, SInv, Types, StreamIsWhole
<1>2. CASE ConnectionEnds \/ TimeOut \/ CallerLeaves \/ NegotiationFails
  BY <1>1, <1>2, QuietStep
    DEF ConnectionEnds, TimeOut, CallerLeaves, NegotiationFails, Waiting, Got, Content, Order
<1>3. CASE RecvStarts \/ NegotiateMore \/ DecryptMore
  BY <1>1, <1>3, QuietStep
    DEF RecvStarts, NegotiateMore, DecryptMore, Waiting, Got, Content, Order
<1>4. CASE SystemEndsRead
  <2>1. Waiting' = Waiting BY <1>4 DEF SystemEndsRead, Waiting, Got, IInv, Types, Overlapped
  <2> QED BY <1>1, <1>4, <2>1, QuietStep DEF SystemEndsRead, Content, Order
<1>5. CASE ReadEnds
  <2>1. Waiting' = Waiting BY <1>5 DEF ReadEnds, Waiting, Got, NoRead
  <2> QED BY <1>1, <1>5, <2>1, QuietStep DEF ReadEnds, Content, Order
<1>6. CASE NegotiationReads
  <2>1. Waiting' = Waiting BY <1>6, BeginReadGets DEF NegotiationReads
  <2> QED BY <1>1, <1>6, <2>1, QuietStep DEF NegotiationReads, Content, Order
<1> QED BY <1>2, <1>3, <1>4, <1>5, <1>6

\* The bytes that wait begin the record that is expected: Schannel is shown the truth.
LEMMA WhatWaitsIsNext ==
  ASSUME IInv, SInv, pc \in {"negotiate", "saved", "decrypt"}
  PROVE  Holds(readPtr, readBufferBytes)
<1>1. /\ {taken, sent, first, readBufferBytes, next, Len(records)} \subseteq Nat
      /\ readBufferBytes > 0 /\ taken + 1 = first + Waiting /\ taken <= sent
      /\ next <= Len(records) + 1
  BY DEF IInv, SInv, Types, Bytes, Content, Position
<1>2. Waiting \in Nat /\ Waiting >= readBufferBytes
  BY DEF Waiting, Got, IInv, Types, Overlapped
<1>3. next <= Len(records)
  <2>1. SUFFICES ASSUME next = Len(records) + 1 PROVE FALSE BY <1>1
  <2>2. first = sent + 1 BY <2>1 DEF SInv, Position, Begins
  <2> QED BY <1>1, <1>2, <2>2
<1>4. Size(records[next]) \in Nat BY <1>3, RecordsFit DEF IInv
<1>5. \A i \in Nat : i < readBufferBytes => readBuffer[readPtr + i] = first + i
  BY <1>1, <1>2 DEF SInv, Content
<1>6. ASSUME NEW n \in Nat, n <= readBufferBytes PROVE InPlace(readPtr, n)
  BY <1>1, <1>5, <1>6 DEF InPlace
<1> QED BY <1>1, <1>3, <1>4, <1>6 DEF Holds

\* So nothing but the server's own message ends the answer.
LEMMA DecryptFailsKeeps ==
  ASSUME IInv, SInv, DecryptFails PROVE SInv'
<1>1. Holds(readPtr, readBufferBytes) BY WhatWaitsIsNext DEF DecryptFails
<1>2. next <= Len(records) /\ records[next].kind # "data"
  BY <1>1 DEF DecryptFails, Holds
<1>3. plainText = <<>> BY DEF DecryptFails, SInv, Order
<1>4. Waiting' = Waiting BY DEF DecryptFails, buffer, Waiting, Got
<1> QED BY <1>2, <1>3, <1>4, QuietStep DEF DecryptFails, wire, buffer

LEMMA OneMore ==
  ASSUME NEW s \in [Nat -> Nat], NEW k \in Nat, NEW m \in Nat
  PROVE  \E t \in [Nat -> Nat] : t[k] = m /\ \A i \in Nat \ {k} : t[i] = s[i]
<1> DEFINE t == [s EXCEPT ![k] = m]
<1>1. t \in [Nat -> Nat] /\ t[k] = m /\ \A i \in Nat \ {k} : t[i] = s[i] OBVIOUS
<1> QED BY <1>1

\* The server's next record begins where all it has sent ends.
LEMMA ServerSendsKeeps ==
  ASSUME IInv, SInv, ServerSends PROVE SInv'
<1> DEFINE len == Len(records)
<1>1. PICK r \in Record :
        /\ r.kind \in IF Negotiated THEN {"data", "close", "renegotiate"} ELSE {"hello", "finished"}
        /\ records' = Append(records, r)
        /\ sent' = sent + Size(r)
  BY DEF ServerSends
<1>2. /\ records \in Seq(Record) /\ next \in Nat \ {0} /\ len \in Nat
      /\ records' \in Seq(Record) /\ Len(records') = len + 1 /\ records'[len + 1] = r
      /\ \A i \in 1..len : records'[i] = records[i]
  BY <1>1 DEF IInv, Types
<1>3. Size(r) \in Nat
  <2>1. r.length \in Length BY DEF Record
  <2>2. r.length \in Nat BY <2>1, TlsAssumption
  <2> QED BY <2>2, TlsAssumption DEF Size
<1>4. /\ UNCHANGED <<taken, readBuffer, readPtr, readBufferBytes, pending, plainText, delivered>>
      /\ UNCHANGED <<next, first, pc>>
  BY DEF ServerSends, buffer, schannel
<1>5. /\ next \in 1..(len + 1) /\ {sent, sent', taken, first} \subseteq Nat
      /\ sent <= sent' /\ taken <= sent
  <2>1. {sent, taken, first} \subseteq Nat /\ taken <= sent BY DEF SInv, Bytes, Content
  <2>2. next <= len + 1 BY DEF SInv, Position
  <2>3. sent' \in Nat /\ sent <= sent' BY <1>1, <1>3, <2>1
  <2> QED BY <1>2, <2>1, <2>2, <2>3
<1>6. Bytes' BY <1>4, <1>5 DEF SInv, Bytes
<1>7. Content'
  <2>1. Waiting' = Waiting BY <1>4 DEF Waiting, Got
  <2>2. taken <= sent' BY <1>5
  <2> QED BY <1>4, <2>1, <2>2 DEF SInv, Content
<1>8. Position'
  <2>1. /\ len + 2 \in Nat /\ sent' + 1 \in Nat /\ Len(records') + 1 = len + 2
        /\ \A i \in 1..(len + 1) : i \in Nat \ {len + 2}
        /\ \A i \in 1..(len + 1) : \/ i = len + 1 /\ i + 1 = len + 2
                                   \/ i \in 1..len /\ i + 1 \in 1..(len + 1)
        /\ sent' + 1 = (sent + 1) + Size(records'[len + 1])
        /\ len + 1 \in 1..(len + 1)
    BY <1>1, <1>2, <1>3, <1>5
  <2>2. PICK s \in [Nat -> Nat] : Begins(s) BY DEF SInv, Position
  <2> HIDE DEF len
  <2>3. s[next] = first /\ s[len + 1] = sent + 1
        /\ \A i \in 1..len : s[i + 1] = s[i] + Size(records[i])
    BY <2>2 DEF Begins, len
  <2>4. PICK t \in [Nat -> Nat] :
          t[len + 2] = sent' + 1 /\ \A i \in Nat \ {len + 2} : t[i] = s[i]
    <3>1. \A k, m \in Nat :
            \E t \in [Nat -> Nat] : t[k] = m /\ \A i \in Nat \ {k} : t[i] = s[i]
      BY OneMore
    <3>2. len + 2 \in Nat /\ sent' + 1 \in Nat BY <2>1
    <3> QED BY <3>1, <3>2, Zenon
  <2>5. \A i \in 1..(len + 1) : t[i] = s[i] BY <2>1, <2>4
  <2>6. t[next] = first BY <1>5, <2>3, <2>5
  <2>7. ASSUME NEW i \in 1..(len + 1) PROVE t[i + 1] = t[i] + Size(records'[i])
    <3>1. CASE i = len + 1 /\ i + 1 = len + 2 BY <2>1, <2>3, <2>4, <2>5, <3>1
    <3>2. CASE i \in 1..len /\ i + 1 \in 1..(len + 1) BY <1>2, <2>3, <2>5, <3>2
    <3> QED BY <2>1, <3>1, <3>2
  <2>8. Begins(t)' BY <1>2, <1>4, <2>1, <2>4, <2>6, <2>7 DEF Begins
  <2>9. next' <= Len(records') + 1 BY <1>2, <1>4, <1>5
  <2> QED BY <2>4, <2>8, <2>9 DEF Position
<1>9. Handshake'
  <2>1. ASSUME NEW i \in 1..(len + 1), records'[i].kind = "data"
        PROVE  \E j \in 1..(i - 1) : records'[j].kind = "finished"
    <3>1. CASE i = len + 1
      <4>1. Negotiated BY <1>1, <1>2, <2>1, <3>1
      <4> QED BY <1>2, <3>1, <4>1 DEF Negotiated
    <3>2. CASE i # len + 1
      <4>1. i \in 1..len /\ 1..(i - 1) \subseteq 1..len BY <1>2, <3>2
      <4>2. \E j \in 1..(i - 1) : records[j].kind = "finished"
        BY <1>2, <2>1, <4>1 DEF SInv, Handshake
      <4> QED BY <1>2, <4>1, <4>2
    <3> QED BY <3>1, <3>2
  <2>2. 1..(next - 1) \subseteq 1..len BY <1>2, <1>5
  <2> QED BY <1>2, <1>4, <2>1, <2>2 DEF SInv, Handshake
<1>10. StreamIsWhole' /\ Order'
  <2>1. 1..(next - 1) \subseteq 1..len BY <1>2, <1>5
  <2>2. Answer' = Answer BY <1>2, <1>4, <2>1, AnswerStands
  <2>3. pc = "closed" => next \in 1..len BY <1>2 DEF SInv, Order
  <2>4. pc' = "closed" => next' <= Len(records') /\ records'[next'].kind # "data"
    BY <1>2, <1>4, <2>3 DEF SInv, StreamIsWhole
  <2> QED BY <1>4, <2>2, <2>4 DEF SInv, StreamIsWhole, Order
<1> QED BY <1>6, <1>7, <1>8, <1>9, <1>10 DEF SInv

\* The buffer, the records and what the reader has are what they were, but for the bytes
\* the buffer holds.
LEMMA BufferStep ==
  ASSUME SInv, Content', readBuffer' \in [Index -> Nat], taken' \in Nat,
         UNCHANGED <<records, sent, schannel, plainText, delivered>>,
         pc' \in {"negotiate", "nread", "nwait"} => pc \in {"negotiate", "nread", "nwait"},
         plainText # <<>> => pc' = "caller", pc' = "closed" => pc = "closed"
  PROVE  SInv'
<1>1. Answer' = Answer BY AnswerStands DEF schannel
<1>2. Bytes' BY DEF SInv, Bytes, schannel
<1>3. Position' /\ Handshake' BY DEF SInv, Position, Begins, Handshake, schannel
<1>4. Order' /\ StreamIsWhole' BY <1>1 DEF SInv, Order, StreamIsWhole, schannel
<1> QED BY <1>2, <1>3, <1>4 DEF SInv

\* What the system writes comes right behind the bytes that wait.
LEMMA SystemReadsKeeps ==
  ASSUME IInv, SInv, SystemReads PROVE SInv'
<1>1. PICK n \in 1..pending.room :
        /\ taken + n <= sent
        /\ taken' = taken + n
        /\ readBuffer' = [i \in Index |-> IF i \in pending.at..(pending.at + n - 1)
                                            THEN taken + 1 + (i - pending.at) ELSE readBuffer[i]]
        /\ pending' = [pending EXCEPT !.got = n]
  BY DEF SystemReads
<1>2. /\ pending.active /\ pending.got = -1 /\ pending \in Overlapped
      /\ pending.at = readPtr + readBufferBytes /\ pending.at + pending.room <= BufferSize
      /\ {readPtr, readBufferBytes, taken, sent, first} \subseteq Nat
  BY DEF SystemReads, IInv, Types, Geometry, SInv, Bytes
<1>3. /\ n \in Nat \ {0} /\ pending.room \in Nat /\ n <= pending.room
      /\ BufferSize \in Nat /\ readPtr + readBufferBytes + n <= BufferSize
  BY <1>2, TlsAssumption DEF Overlapped
<1>4. Waiting = readBufferBytes /\ Waiting' = readBufferBytes + n
  <2>1. pending'.active /\ pending'.got = n BY <1>1, <1>2 DEF Overlapped
  <2>2. readBufferBytes' = readBufferBytes BY DEF SystemReads
  <2> QED BY <1>2, <1>3, <2>1, <2>2 DEF Waiting, Got
<1>5. /\ UNCHANGED <<records, sent, schannel, plainText, delivered>>
      /\ UNCHANGED <<readPtr, readBufferBytes, pc, first, next>>
  BY DEF SystemReads, schannel
<1>6. taken + 1 = first + readBufferBytes BY <1>2, <1>4 DEF SInv, Content
<1>7. readBuffer \in [Index -> Nat] BY DEF SInv, Bytes
<1>8. readBuffer' \in [Index -> Nat] /\ taken' \in Nat
  <2>1. \A i \in Index : i \in pending.at..(pending.at + n - 1) =>
                           taken + 1 + (i - pending.at) \in Nat
    BY <1>2, <1>3, TlsAssumption DEF Index
  <2> QED BY <1>1, <1>2, <1>3, <1>7, <2>1
<1>9. ASSUME NEW i \in Nat, i < readBufferBytes + n PROVE readBuffer'[readPtr + i] = first + i
  <2>1. readPtr + i \in Index BY <1>2, <1>3, <1>9 DEF Index
  <2>2. CASE i < readBufferBytes
    <3>1. readPtr + i \notin pending.at..(pending.at + n - 1) BY <1>2, <1>3, <2>2
    <3>2. readBuffer'[readPtr + i] = readBuffer[readPtr + i] BY <1>1, <2>1, <3>1
    <3> QED BY <1>2, <1>4, <2>2, <3>2 DEF SInv, Content
  <2>3. CASE readBufferBytes <= i
    <3>1. readPtr + i \in pending.at..(pending.at + n - 1) BY <1>2, <1>3, <1>9, <2>3
    <3>2. readBuffer'[readPtr + i] = taken + 1 + ((readPtr + i) - pending.at)
      BY <1>1, <2>1, <3>1
    <3> QED BY <1>2, <1>6, <3>2
  <2> QED BY <1>2, <1>9, <2>2, <2>3
<1>10. Content'
  BY <1>1, <1>2, <1>3, <1>4, <1>5, <1>6, <1>9 DEF SInv, Content
<1> QED BY <1>5, <1>8, <1>10, BufferStep DEF SInv, Order

\* A read that is over makes the bytes it got wait.
LEMMA ReceivesKeeps ==
  ASSUME IInv, SInv, NegotiationReceives \/ Receive PROVE SInv'
<1>1. /\ Got /\ pending' = NoRead /\ readBufferBytes' = readBufferBytes + pending.got
      /\ UNCHANGED <<records, sent, schannel, plainText, delivered>>
      /\ UNCHANGED <<taken, readBuffer, readPtr, first>>
      /\ \/ pc' = "negotiate" /\ pc = "nwait"
         \/ pc' = "decrypt" /\ pc = "wait"
  BY DEF NegotiationReceives, Receive, wire, schannel
<1>2. Waiting' = Waiting BY <1>1 DEF Waiting, Got, NoRead
<1>3. readBufferBytes \in Nat /\ pending.got \in Nat \ {0}
  BY <1>1 DEF IInv, Types, Overlapped, Got
<1>4. Content' BY <1>1, <1>2, <1>3 DEF SInv, Content
<1>5. readBuffer' \in [Index -> Nat] /\ taken' \in Nat BY <1>1 DEF SInv, Bytes
<1> QED BY <1>1, <1>4, <1>5, BufferStep DEF SInv, Order

\* The bytes that wait move to the front while no read is active.
LEMMA ShiftKeeps ==
  ASSUME IInv, SInv, ~pending.active, Waiting' = readBufferBytes, readPtr' = 0,
         BufferSize - readBufferBytes - readPtr = 0,
         readBuffer' = [i \in Index |-> IF i < BufferSize - readPtr
                                          THEN readBuffer[i + readPtr] ELSE readBuffer[i]],
         UNCHANGED <<readBufferBytes, first, taken, sent>>,
         pc' \notin {"negotiate", "saved", "decrypt"}
  PROVE  Content' /\ readBuffer' \in [Index -> Nat]
<1>1. /\ {readPtr, readBufferBytes, first, taken, BufferSize} \subseteq Nat
      /\ readBuffer \in [Index -> Nat] /\ Waiting = readBufferBytes
      /\ readBufferBytes + readPtr = BufferSize
  BY TlsAssumption DEF IInv, Types, SInv, Bytes, Waiting, Got
<1>2. \A i \in Index : i < BufferSize - readPtr => i + readPtr \in Index
  <2>1. readPtr \in Nat /\ BufferSize \in Nat BY <1>1
  <2>2. \A i \in 0..(BufferSize - 1) :
          i < BufferSize - readPtr => i + readPtr \in 0..(BufferSize - 1)
    BY <2>1
  <2> QED BY <2>2 DEF Index
<1>3. readBuffer' \in [Index -> Nat] BY <1>1, <1>2
<1>4. ASSUME NEW i \in Nat, i < readBufferBytes PROVE readBuffer'[0 + i] = first + i
  <2>1. i \in Index /\ i < BufferSize - readPtr /\ 0 + i = i /\ i + readPtr = readPtr + i
    BY <1>1, <1>4 DEF Index
  <2>2. readBuffer'[i] = readBuffer[readPtr + i] BY <2>1
  <2> QED BY <1>1, <1>4, <2>1, <2>2 DEF SInv, Content
<1>5. Content' BY <1>1, <1>4 DEF SInv, Content
<1> QED BY <1>3, <1>5

\* Room is made, if it must be, and the read that begins writes behind what waits.
LEMMA MakeRoomKeeps ==
  ASSUME IInv, SInv, MakeRoomAndRead PROVE SInv'
<1> DEFINE end == BufferSize - readBufferBytes - readPtr
<1>1. /\ pc \in {"read", "reread"} /\ pc' = "wait" /\ LessThanRecord
      /\ UNCHANGED <<records, next, readBufferBytes, sent, taken, first>>
      /\ UNCHANGED <<plainText, delivered>>
  BY DEF MakeRoomAndRead, wire, schannel, IInv, Reading
<1>2. plainText = <<>> BY <1>1 DEF SInv, Order
<1>3. CASE end = 0
  <2>1. /\ readPtr' = 0 /\ readPtr > 0 /\ BeginRead(readBufferBytes, readPtr)
        /\ readBuffer' = [i \in Index |-> IF i < BufferSize - readPtr
                                            THEN readBuffer[i + readPtr] ELSE readBuffer[i]]
    BY <1>3 DEF MakeRoomAndRead
  <2>2. ~pending.active
    BY <1>3, TlsAssumption DEF IInv, Types, Geometry, Overlapped
  <2>3. Waiting' = readBufferBytes BY <1>1, <2>1, <2>2, BeginReadGets
  <2>4. Content' /\ readBuffer' \in [Index -> Nat]
    BY <1>1, <1>3, <2>1, <2>2, <2>3, ShiftKeeps
  <2>5. taken' \in Nat BY <1>1 DEF SInv, Bytes
  <2> QED BY <1>1, <1>2, <2>4, <2>5, BufferStep DEF schannel
<1>4. CASE end # 0
  <2>1. UNCHANGED <<readBuffer, readPtr>> /\ BeginRead(readPtr + readBufferBytes, end)
    BY <1>4 DEF MakeRoomAndRead
  <2>2. Waiting' = Waiting BY <1>1, <2>1, BeginReadGets
  <2> QED BY <1>1, <1>2, <2>1, <2>2, QuietStep DEF schannel
<1> QED BY <1>3, <1>4

\* The same when the time is over before the read begins.
LEMMA TimeOutBetweenKeeps ==
  ASSUME IInv, SInv, TimeOutBetween PROVE SInv'
<1> DEFINE end == BufferSize - readBufferBytes - readPtr
<1>1. /\ pc = "reread" /\ pc' = "caller"
      /\ UNCHANGED <<records, next, readBufferBytes, sent, taken, first>>
      /\ UNCHANGED <<plainText, delivered, pending>>
  BY DEF TimeOutBetween, wire, schannel
<1>2. ~pending.active BY <1>1 DEF IInv, Reading
<1>3. Waiting' = readBufferBytes /\ Waiting = readBufferBytes BY <1>1, <1>2 DEF Waiting, Got
<1>4. CASE end = 0
  <2>1. /\ readPtr' = 0
        /\ readBuffer' = [i \in Index |-> IF i < BufferSize - readPtr
                                            THEN readBuffer[i + readPtr] ELSE readBuffer[i]]
    BY <1>4 DEF TimeOutBetween
  <2>2. Content' /\ readBuffer' \in [Index -> Nat]
    BY <1>1, <1>2, <1>3, <1>4, <2>1, ShiftKeeps
  <2>3. taken' \in Nat BY <1>1 DEF SInv, Bytes
  <2> QED BY <1>1, <2>2, <2>3, BufferStep DEF schannel
<1>5. CASE end # 0
  <2>1. UNCHANGED <<readBuffer, readPtr>> BY <1>5 DEF TimeOutBetween
  <2> QED BY <1>1, <1>3, <2>1, QuietStep DEF schannel
<1> QED BY <1>4, <1>5

\* The record behind the one that is taken begins where that one ends.
LEMMA NextPosition ==
  ASSUME IInv, SInv, next <= Len(records), UNCHANGED <<records, sent>>,
         next' = next + 1, first' = first + Size(records[next])
  PROVE  Position'
<1>1. next \in 1..Len(records) /\ next' <= Len(records') + 1 BY DEF IInv, Types
<1>2. PICK s \in [Nat -> Nat] : Begins(s) BY DEF SInv, Position
<1>3. Begins(s)' BY <1>1, <1>2 DEF Begins
<1> QED BY <1>1, <1>3 DEF Position

\* A message of the negotiation is taken off the front; none of them is data.
LEMMA NegotiateKeeps ==
  ASSUME IInv, SInv, Negotiate PROVE SInv'
<1> DEFINE size == Size(records[next])
<1>1. /\ pc = "negotiate"
      /\ pc' = IF records[next].kind = "finished" THEN "caller"
               ELSE IF readBufferBytes' = 0 THEN "nread" ELSE "negotiate"
      /\ next' = next + 1 /\ first' = first + size
      /\ UNCHANGED <<records, sent, taken, readPtr, pending, plainText, delivered>>
      /\ readBufferBytes' = readBufferBytes - size
      /\ readBuffer' = [i \in Index |-> IF i < readBufferBytes - size
                                          THEN readBuffer[i + size] ELSE 0]
  BY DEF Negotiate, wire
<1>2. next <= Len(records) /\ ~(readBufferBytes < size)
  BY DEF Negotiate, Holds, Incomplete
<1>3. /\ next \in 1..Len(records) /\ size \in Nat \ {0} /\ size <= BufferSize
      /\ Len(records) \in Nat
  BY <1>2, RecordsFit, TlsAssumption DEF IInv, Types
<1>4. /\ readPtr = 0 /\ plainText = <<>>
      /\ Waiting = readBufferBytes /\ Waiting' = readBufferBytes'
  BY <1>1 DEF IInv, Reading, Waiting, Got, SInv, Order
<1>5. /\ {readBufferBytes, readBufferBytes', first, first', taken, BufferSize} \subseteq Nat
      /\ readBufferBytes <= BufferSize /\ readBuffer \in [Index -> Nat]
      /\ readBufferBytes = readBufferBytes' + size
  <2>1. {readBufferBytes, first, taken, BufferSize} \subseteq Nat /\ readBufferBytes <= BufferSize
    BY <1>4, TlsAssumption DEF IInv, Types, Geometry, SInv, Bytes
  <2>2. readBuffer \in [Index -> Nat] BY DEF SInv, Bytes
  <2> HIDE DEF size
  <2>3. readBufferBytes' \in Nat /\ first' \in Nat /\ readBufferBytes = readBufferBytes' + size
    BY <1>1, <1>2, <1>3, <2>1
  <2> QED BY <2>1, <2>2, <2>3
<1> HIDE DEF size
<1>6. Bytes'
  <2>1. \A i \in Index : i < readBufferBytes - size => i + size \in Index
    BY <1>3, <1>5 DEF Index
  <2>2. readBuffer' \in [Index -> Nat] BY <1>1, <1>5, <2>1
  <2> QED BY <1>1, <1>5, <2>2 DEF SInv, Bytes
<1>7. Content'
  <2>1. ASSUME NEW i \in Nat, i < readBufferBytes' PROVE readBuffer'[0 + i] = first' + i
    <3>1. /\ i \in Index /\ i < readBufferBytes - size /\ 0 + i = i
          /\ i + size \in Nat /\ i + size < readBufferBytes /\ 0 + (i + size) = i + size
      BY <1>3, <1>5, <2>1 DEF Index
    <3>2. readBuffer'[i] = readBuffer[i + size] BY <1>1, <3>1
    <3>3. readBuffer[0 + (i + size)] = first + (i + size)
      BY <1>4, <1>5, <3>1 DEF SInv, Content
    <3> QED BY <1>1, <1>3, <1>5, <3>1, <3>2, <3>3
  <2>2. taken + 1 = first + readBufferBytes /\ taken <= sent
    BY <1>4, <1>5 DEF SInv, Content
  <2>3. pc' \in {"negotiate", "saved", "decrypt"} => readBufferBytes' > 0 BY <1>1, <1>5
  <2>4. taken' + 1 = first' + readBufferBytes' BY <1>1, <1>3, <1>5, <2>2
  <2>5. readPtr' = 0 /\ taken' <= sent' BY <1>1, <1>4, <2>2
  <2> QED BY <1>4, <2>1, <2>3, <2>4, <2>5 DEF Content
<1>8. Position' BY <1>1, <1>2, NextPosition DEF size
<1>9. \A i \in 1..(next - 1) : records[i].kind # "finished" BY <1>1 DEF SInv, Handshake
<1>10. Handshake'
  <2>1. pc' \in {"negotiate", "nread", "nwait"} => records[next].kind # "finished" BY <1>1
  <2>2. \A i \in 1..(next' - 1) : i \in 1..(next - 1) \/ i = next BY <1>1, <1>3
  <2> QED BY <1>1, <1>9, <2>1, <2>2 DEF SInv, Handshake
<1>11. Answer' = Answer
  <2>1. records[next].kind # "data" BY <1>3, <1>9 DEF SInv, Handshake
  <2>2. {n \in 1..(next' - 1) : records[n].kind = "data"}
          = {n \in 1..(next - 1) : records[n].kind = "data"}
    BY <1>1, <1>3, <2>1
  <2> QED BY <1>1, <2>2 DEF Answer
<1>12. Order' /\ StreamIsWhole' BY <1>1, <1>4, <1>11 DEF SInv, Order, StreamIsWhole
<1> QED BY <1>6, <1>7, <1>8, <1>10, <1>12 DEF SInv

\* A sequence that is cut in two is the two parts, one behind the other.
LEMMA Parted ==
  ASSUME NEW S, NEW s \in Seq(S), NEW n \in 0..Len(s)
  PROVE  /\ SubSeq(s, 1, n) \in Seq(S) /\ SubSeq(s, n + 1, Len(s)) \in Seq(S)
         /\ SubSeq(s, 1, n) \o SubSeq(s, n + 1, Len(s)) = s
<1>1. /\ Len(s) \in Nat /\ n \in Nat /\ 1 \in 1..(Len(s) + 1) /\ n \in (1 - 1)..Len(s)
      /\ Len(s) \in n..Len(s)
  BY LenProperties
<1>2. SubSeq(s, 1, n) \o SubSeq(s, n + 1, Len(s)) = SubSeq(s, 1, Len(s))
  BY <1>1, ConcatAdjacentSubSeq, Zenon
<1>3. SubSeq(s, 1, Len(s)) = s BY SubSeqFull, Zenon
<1>4. SubSeq(s, 1, n) \in Seq(S) /\ SubSeq(s, n + 1, Len(s)) \in Seq(S) BY <1>1
<1> QED BY <1>2, <1>3, <1>4

LEMMA Associative ==
  ASSUME NEW S, NEW s \in Seq(S), NEW t \in Seq(S), NEW u \in Seq(S)
  PROVE  (s \o t) \o u = s \o (t \o u)
BY ConcatAssociative

LEMMA SmallerOf ==
  ASSUME NEW n \in Nat PROVE Smaller(Ask, n) \in 0..n
BY TlsAssumption DEF Smaller

\* What was kept for later comes next.
LEMMA RecvStoredKeeps ==
  ASSUME IInv, SInv, RecvStored PROVE SInv'
<1> DEFINE B == Nat \X Nat
           n == Smaller(Ask, Len(plainText))
           given == SubSeq(plainText, 1, n)
           kept == SubSeq(plainText, n + 1, Len(plainText))
<1>1. /\ delivered' = delivered \o given /\ plainText' = kept /\ pc = "caller"
      /\ UNCHANGED <<records, sent, taken, readBuffer, readPtr, readBufferBytes>>
      /\ UNCHANGED <<pending, next, first, pc>>
  BY DEF RecvStored, wire, buffer, schannel
<1>2. plainText \in Seq(B) /\ delivered \in Seq(B) BY DEF SInv, Bytes
<1>3. n \in 0..Len(plainText) BY <1>2, SmallerOf
<1>4. given \in Seq(B) /\ kept \in Seq(B) BY <1>2, <1>3, Parted
<1>5. given \o kept = plainText BY <1>2, <1>3, Parted
<1> HIDE DEF given, kept, B, n
<1>6. delivered' \in Seq(B) /\ plainText' \in Seq(B) BY <1>1, <1>2, <1>4
<1>7. delivered' \o plainText' = delivered \o plainText
  <2>1. (delivered \o given) \o kept = delivered \o (given \o kept)
    BY <1>2, <1>4, Associative
  <2> QED BY <1>1, <1>5, <2>1, Zenon
<1>8. Answer' = Answer BY <1>1, AnswerStands
<1>9. Bytes' BY <1>1, <1>6 DEF SInv, Bytes, B
<1>10. Content' /\ Position' /\ Handshake' /\ Order'
  BY <1>1 DEF SInv, Content, Waiting, Got, Position, Begins, Handshake, Order
<1>11. StreamIsWhole' BY <1>1, <1>7, <1>8 DEF SInv, StreamIsWhole
<1> QED BY <1>9, <1>10, <1>11 DEF SInv

\* The plaintext of a record behind those of the records before it.
Numbered(bytes, m, n) == Len(bytes) = n /\ \A k \in 1..n : bytes[k] = <<m, k>>
Earlier(bytes, m) == \A i \in 1..Len(bytes) : bytes[i][1] < m

LEMMA PlainFollows ==
  ASSUME NEW B, B = Nat \X Nat, NEW got \in Seq(B), NEW m \in Nat, NEW n \in Nat,
         NEW plain \in Seq(B), Numbered(plain, m, n), Earlier(got, m), InOrder(got)
  PROVE  Range(got \o plain) = Range(got) \cup ({m} \X (1..n)) /\ InOrder(got \o plain)
<1>1. /\ plain \in Seq(B) /\ Len(plain) = n
      /\ \A k \in 1..n : plain[k] = <<m, k>>
  BY DEF Numbered
<1>2. Range(plain) = {m} \X (1..n)
  <2>1. DOMAIN plain = 1..n BY <1>1, LenProperties
  <2>2. Range(plain) = {plain[k] : k \in 1..n} BY <2>1 DEF Range
  <2>3. {plain[k] : k \in 1..n} = {<<m, k>> : k \in 1..n} BY <1>1
  <2>4. {<<m, k>> : k \in 1..n} = {m} \X (1..n) OBVIOUS
  <2> QED BY <2>2, <2>3, <2>4
<1>3. Range(got \o plain) = Range(got) \cup Range(plain)
  BY RangeConcatenation
<1> DEFINE all == got \o plain
<1>4. /\ Len(got) \in Nat /\ all \in Seq(B) /\ Len(all) = Len(got) + n
      /\ \A i \in 1..Len(got) : all[i] = got[i]
      /\ \A k \in 1..n : all[Len(got) + k] = <<m, k>>
  <2>1. /\ Len(got) \in Nat /\ all \in Seq(B) /\ Len(all) = Len(got) + Len(plain)
        /\ \A i \in 1..(Len(got) + Len(plain)) :
             all[i] = IF i <= Len(got) THEN got[i] ELSE plain[i - Len(got)]
    BY <1>1, ConcatProperties, LenProperties
  <2>2. \A i \in 1..Len(got) : i \in 1..(Len(got) + n) /\ i <= Len(got) BY <2>1
  <2>3. \A k \in 1..n : /\ Len(got) + k \in 1..(Len(got) + n)
                        /\ ~(Len(got) + k <= Len(got)) /\ (Len(got) + k) - Len(got) = k
    BY <2>1
  <2> HIDE DEF all
  <2> QED BY <1>1, <2>1, <2>2, <2>3
<1>5. DOMAIN all = 1..(Len(got) + n) /\ DOMAIN got = 1..Len(got) BY <1>4, LenProperties
<1> HIDE DEF all
<1>6. ASSUME NEW i \in 1..(Len(got) + n), NEW j \in 1..(Len(got) + n), i < j
      PROVE  Before(all[i], all[j])
  <2>1. CASE j \in 1..Len(got)
    <3>1. i \in 1..Len(got) BY <1>4, <1>6, <2>1
    <3> QED BY <1>4, <1>5, <1>6, <2>1, <3>1 DEF InOrder
  <2>2. CASE i \in 1..Len(got) /\ j \notin 1..Len(got)
    <3>1. PICK k \in 1..n : j = Len(got) + k
      <4>1. j - Len(got) \in 1..n /\ j = Len(got) + (j - Len(got))
        <5>1. Len(got) \in Nat /\ j \in 1..(Len(got) + n) /\ j \notin 1..Len(got) BY <1>4, <2>2
        <5> QED BY <5>1
      <4> QED BY <4>1
    <3>2. all[j] = <<m, k>> /\ all[i] = got[i] BY <1>4, <2>2, <3>1
    <3>3. all[i][1] < m BY <2>2, <3>2 DEF Earlier
    <3> QED BY <3>2, <3>3 DEF Before
  <2>3. CASE i \notin 1..Len(got)
    <3>1. PICK k \in 1..n, l \in 1..n : i = Len(got) + k /\ j = Len(got) + l /\ k < l
      <4>1. /\ i - Len(got) \in 1..n /\ i = Len(got) + (i - Len(got))
            /\ j - Len(got) \in 1..n /\ j = Len(got) + (j - Len(got))
            /\ i - Len(got) < j - Len(got)
        <5>1. /\ Len(got) \in Nat /\ i \in 1..(Len(got) + n) /\ j \in 1..(Len(got) + n)
              /\ i < j /\ i \notin 1..Len(got)
          BY <1>4, <1>6, <2>3
        <5> QED BY <5>1
      <4> QED BY <4>1
    <3>2. all[i] = <<m, k>> /\ all[j] = <<m, l>> BY <1>4, <3>1
    <3> QED BY <3>1, <3>2 DEF Before
  <2> QED BY <2>1, <2>2, <2>3
<1> QED BY <1>2, <1>3, <1>5, <1>6 DEF InOrder, all

\* The bytes behind a record lie in the buffer and outside of the record.
LEMMA BehindRecord ==
  ASSUME NEW p \in Nat, NEW bytes \in Nat, NEW size \in Nat \ {0}, NEW limit \in Nat,
         p + bytes <= limit, NEW i \in Nat, i < bytes - size
  PROVE  /\ p + size + i \in 0..(limit - 1)
         /\ p + size + i \notin p..(p + size - 1)
         /\ p + size + i = p + (size + i)
         /\ size + i \in Nat /\ size + i < bytes
OBVIOUS

\* A record is decrypted: its bytes follow those of the records before it.
LEMMA DecryptKeeps ==
  ASSUME IInv, SInv, Decrypt PROVE SInv'
<1> DEFINE size == Size(records[next])
           length == records[next].length
           plain == [k \in 1..length |-> <<next, k>>]
           n == Smaller(Ask, length)
           given == SubSeq(plain, 1, n)
           kept == SubSeq(plain, n + 1, length)
           B == Nat \X Nat
<1>1. /\ pc \in {"saved", "decrypt"} /\ pc' = "caller"
      /\ next' = next + 1 /\ first' = first + size
      /\ UNCHANGED <<records, sent, taken, pending>>
      /\ delivered' = delivered \o given /\ plainText' = kept
      /\ readBufferBytes' = readBufferBytes - size
      /\ readPtr' = IF readBufferBytes' = 0 THEN 0 ELSE readPtr + size
      /\ readBuffer' = [i \in Index |-> IF i \in readPtr..(readPtr + size - 1)
                                          THEN 0 ELSE readBuffer[i]]
      /\ records[next].kind = "data"
  BY DEF Decrypt, Take, Plain, wire
<1>2. next <= Len(records) /\ ~(readBufferBytes < size)
  BY DEF Decrypt, Holds, Incomplete
<1>3. /\ next \in 1..Len(records) /\ size \in Nat \ {0} /\ length \in Nat
      /\ Len(records) \in Nat
  <2>1. next \in 1..Len(records) /\ size \in Nat \ {0} /\ Len(records) \in Nat
    BY <1>2, RecordsFit DEF IInv, Types
  <2>2. records[next] \in Record BY <2>1 DEF IInv, Types
  <2>3. records[next].length \in Length BY <2>2 DEF Record
  <2> QED BY <2>1, <2>3, TlsAssumption
<1>4. /\ ~pending.active /\ plainText = <<>>
  BY <1>1, <1>2, <1>3 DEF IInv, Types, Reading, LessThanRecord, SInv, Order
<1>5. Waiting = readBufferBytes /\ Waiting' = readBufferBytes' BY <1>1, <1>4 DEF Waiting, Got
<1>6. readBuffer \in [Index -> Nat] BY DEF SInv, Bytes
<1>7. /\ readBufferBytes \in Nat /\ readBufferBytes' \in Nat /\ first \in Nat
      /\ first' \in Nat /\ taken \in Nat /\ BufferSize \in Nat /\ readPtr \in Nat
      /\ readPtr + readBufferBytes <= BufferSize /\ readBufferBytes = readBufferBytes' + size
  <2>1. /\ readBufferBytes \in Nat /\ first \in Nat /\ taken \in Nat /\ BufferSize \in Nat
        /\ readPtr \in Nat /\ readPtr + readBufferBytes <= BufferSize
    BY TlsAssumption DEF IInv, Types, Geometry, SInv, Bytes
  <2> HIDE DEF size
  <2> QED BY <1>1, <1>2, <1>3, <2>1
<1>8. n \in 0..length BY <1>3, SmallerOf
<1>9. /\ plain \in Seq(B) /\ Len(plain) = length
      /\ given \in Seq(B) /\ kept \in Seq(B)
      /\ given \o kept = plain
  <2>1. plain \in Seq(B) /\ Len(plain) = length BY <1>3
  <2> HIDE DEF plain, length, n, B
  <2> QED BY <1>8, <2>1, Parted
<1>10. delivered \in Seq(B) /\ delivered \o plainText = delivered
  <2>1. delivered \in Seq(B) BY DEF SInv, Bytes
  <2> HIDE DEF B
  <2> QED BY <1>4, <2>1, ConcatEmptySeq
<1>11. delivered' \o plainText' = delivered \o plain
  <2> HIDE DEF given, kept, plain, B
  <2>1. given \in Seq(B) /\ kept \in Seq(B) /\ delivered \in Seq(B) BY <1>9, <1>10
  <2>2. (delivered \o given) \o kept = delivered \o (given \o kept)
    BY <2>1, Associative
  <2> QED BY <1>1, <1>9, <2>2, Zenon
<1>12. Bytes'
  <2>1. readBuffer' \in [Index -> Nat] BY <1>1, <1>6
  <2>2. delivered' \in Seq(B) /\ plainText' \in Seq(B)
    <3> HIDE DEF given, kept, plain, B
    <3> QED BY <1>1, <1>9, <1>10
  <2> QED BY <1>1, <1>7, <2>1, <2>2 DEF SInv, Bytes
<1>13. Content'
  <2> HIDE DEF size
  <2>1. ASSUME NEW i \in Nat, i < readBufferBytes'
        PROVE  readBuffer'[readPtr' + i] = first' + i
    <3>1. readPtr' = readPtr + size BY <1>1, <1>7, <2>1
    <3>2. /\ readPtr + size + i \in 0..(BufferSize - 1)
          /\ readPtr + size + i \notin readPtr..(readPtr + size - 1)
          /\ readPtr + size + i = readPtr + (size + i)
          /\ size + i \in Nat /\ size + i < readBufferBytes
      <4>1. i < readBufferBytes - size BY <1>1, <2>1
      <4>2. /\ readPtr \in Nat /\ readBufferBytes \in Nat /\ BufferSize \in Nat
            /\ readPtr + readBufferBytes <= BufferSize
        BY <1>7
      <4>3. size \in Nat \ {0} BY <1>3
      <4> QED BY <4>1, <4>2, <4>3, BehindRecord
    <3>3. readBuffer'[readPtr + size + i] = readBuffer[readPtr + (size + i)]
      BY <1>1, <3>2 DEF Index
    <3>4. readBuffer[readPtr + (size + i)] = first + (size + i)
      BY <1>5, <3>2 DEF SInv, Content
    <3>5. first' + i = first + (size + i) BY <1>1, <1>3, <1>7
    <3> QED BY <3>1, <3>3, <3>4, <3>5
  <2>2. taken + 1 = first + readBufferBytes /\ taken <= sent BY <1>5 DEF SInv, Content
  <2>3. taken' + 1 = first' + readBufferBytes' BY <1>1, <1>3, <1>7, <2>2
  <2> QED BY <1>1, <1>5, <2>1, <2>2, <2>3 DEF Content
<1>14. Position' BY <1>1, <1>2, NextPosition
<1>15. Handshake' /\ Order' BY <1>1 DEF SInv, Handshake, Order
<1>16. StreamIsWhole'
  <2> HIDE DEF size, length, plain
  <2>1. Range(delivered) = Answer /\ InOrder(delivered)
    BY <1>10 DEF SInv, StreamIsWhole
  <2>2. Earlier(delivered, next)
    <3>1. \A b \in Answer : b[1] \in 1..(next - 1) BY DEF Answer
    <3>2. \A i \in 1..Len(delivered) : delivered[i] \in Answer
      BY <1>10, <2>1, RangeEquality
    <3> QED BY <1>3, <3>1, <3>2 DEF Earlier
  <2>3. Numbered(plain, next, length) BY <1>9 DEF plain, Numbered
  <2>4. /\ Range(delivered \o plain) = Range(delivered) \cup ({next} \X (1..length))
        /\ InOrder(delivered \o plain)
    <3>1. next \in Nat /\ length \in Nat BY <1>3
    <3>2. B = Nat \X Nat OBVIOUS
    <3>3. plain \in Seq(B) /\ delivered \in Seq(B) BY <1>9, <1>10
    <3> HIDE DEF B
    <3> QED BY <2>1, <2>2, <2>3, <3>1, <3>2, <3>3, PlainFollows
  <2>5. Answer' = Answer \cup ({next} \X (1..length))
    <3>1. {m \in 1..(next' - 1) : records[m].kind = "data"}
            = {m \in 1..(next - 1) : records[m].kind = "data"} \cup {next}
      BY <1>1, <1>3
    <3> QED BY <1>1, <3>1 DEF Answer, length
  <2> QED BY <1>1, <1>11, <2>1, <2>4, <2>5 DEF StreamIsWhole
<1> QED BY <1>12, <1>13, <1>14, <1>15, <1>16 DEF SInv

LEMMA InitStream == Init => SInv
<1> SUFFICES ASSUME Init PROVE SInv OBVIOUS
<1>1. /\ records = <<>> /\ Len(records) = 0 /\ sent = 0 /\ taken = 0
      /\ readBuffer = [i \in Index |-> 0] /\ readPtr = 0 /\ readBufferBytes = 0
      /\ plainText = <<>> /\ delivered = <<>> /\ next = 1 /\ first = 1 /\ pc = "nread"
      /\ ~Got
  BY DEF Init, Got, NoRead
<1>2. Bytes
  <2>1. readBuffer \in [Index -> Nat] BY <1>1
  <2> QED BY <1>1, <2>1 DEF Bytes
<1>3. Content BY <1>1 DEF Content, Waiting
<1>4. Position
  <2> DEFINE s == [i \in Nat |-> 1]
  <2>1. s \in [Nat -> Nat] /\ s[1] = 1 OBVIOUS
  <2> HIDE DEF s
  <2>2. Begins(s) BY <1>1, <2>1 DEF Begins
  <2> QED BY <1>1, <2>1, <2>2 DEF Position
<1>5. Handshake BY <1>1 DEF Handshake
<1>6. Order BY <1>1 DEF Order
<1>7. StreamIsWhole
  <2>1. delivered \o plainText = <<>> BY <1>1
  <2>2. Range(delivered \o plainText) = {} /\ InOrder(delivered \o plainText)
    BY <2>1 DEF Range, InOrder
  <2>3. Answer = {} BY <1>1 DEF Answer
  <2> QED BY <1>1, <2>2, <2>3 DEF StreamIsWhole
<1> QED BY <1>2, <1>3, <1>4, <1>5, <1>6, <1>7 DEF SInv

LEMMA NextStream == IInv /\ SInv /\ [Next]_vars => SInv'
<1> SUFFICES ASSUME IInv, SInv, [Next]_vars PROVE SInv' OBVIOUS
<1>1. CASE UNCHANGED vars
  <2>1. /\ UNCHANGED <<records, sent, taken, readBuffer, readPtr, readBufferBytes, schannel>>
        /\ UNCHANGED <<plainText, delivered, pending, pc>>
    BY <1>1 DEF vars, wire, buffer
  <2>2. Waiting' = Waiting BY <2>1 DEF Waiting, Got
  <2>3. /\ Content /\ Order
        /\ pc = "closed" => records[next].kind # "data"
    BY DEF SInv, StreamIsWhole
  <2> QED BY <2>1, <2>2, <2>3, QuietStep DEF Content, Order
<1>2. CASE Next
  BY <1>2, QuietSteps, DecryptFailsKeeps, ServerSendsKeeps, SystemReadsKeeps, ReceivesKeeps,
     MakeRoomKeeps, TimeOutBetweenKeeps, NegotiateKeeps, RecvStoredKeeps, DecryptKeeps
  DEF Next, Program
<1> QED BY <1>1, <1>2

-----------------------------------------------------------------------------
(* Theorems *)

\* The bytes that wait for decryption, and those that a read got since, are the server's
\* next ones, and what was returned or kept is all that Schannel took before them.
THEOREM WhatWaitsIsNextInLine == Spec => []SInv
<1>1. Init => SInv BY InitStream
<1>2. IInv /\ SInv /\ [Next]_vars => SInv' BY NextStream
<1> QED BY <1>1, <1>2, BufferIsConsistent, PTL DEF Spec

\* However the network cuts the stream and however often reads time out, the caller gets
\* the server's answer: every byte of it once and in order.
THEOREM AnswersAreWhole == Spec => []StreamIsWhole
<1>1. SInv => StreamIsWhole BY DEF SInv
<1> QED BY <1>1, WhatWaitsIsNextInLine, PTL
=============================================================================
