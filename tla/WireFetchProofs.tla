--------------------------- MODULE WireFetchProofs ---------------------------
(***************************************************************************)
(* That WireFetch keeps IInv, and with it the promise of RowStream, for    *)
(* every batch size, read buffer, result, set of faults and way of         *)
(* cutting the stream.                                                     *)
(***************************************************************************)
EXTENDS WireFetch, SequenceTheorems, TLAPS

USE DEF setting

LEMMA InitInv == Init => IInv
<1> SUFFICES ASSUME Init PROVE IInv
  OBVIOUS
<1> USE DEF Init
<1>1. result \in Seq(RowKind)
  <2>1. PICK n \in 0..MaxRows : result \in [1..n -> RowKinds]
    OBVIOUS
  <2>2. result \in [1..n -> RowKind]
    BY <2>1, ConstantsAssumption DEF ConstantsAssumption
  <2>. QED BY <2>2
<1>2. TypeOK
  <2>1. stream \in Seq(Record) /\ todo \in Seq(Nat) /\ pending \in Seq(Nat)
        /\ delivered \in Seq(Nat)
    OBVIOUS
  <2>2. Len(stream) = 0 /\ Len(result) \in Nat
    BY <1>1
  <2>3. segs \in 0..BlobSegments
    BY ConstantsAssumption DEF ConstantsAssumption
  <2>4. lost \in BOOLEAN /\ srvEnd \in BOOLEAN /\ todoEof \in BOOLEAN
        /\ eof \in BOOLEAN
    BY Zenon
  <2>5. rd + half <= Len(stream) /\ srvNext <= Len(result) /\ base <= rd
    BY <2>2
  <2>6. pc \in {"idle", "fetch", "convert", "open", "opened", "segment",
               "drained", "close", "ended", "failed"}
    OBVIOUS
  <2>7. rd \in Nat /\ half \in {0, 1} /\ base \in Nat /\ baseHalf \in {0, 1}
        /\ srvNext \in Nat
    OBVIOUS
  <2>. QED BY ONLY <1>1, <2>1, <2>2, <2>3, <2>4, <2>5, <2>6, <2>7, Zenon DEF TypeOK
<1>3. RowsInOrder /\ Counted /\ Ends
  BY <1>1 DEF RowsInOrder, Counted, Ends, Got, InBatch, InPacket
<1>4. LeftOverOnly
  BY DEF LeftOverOnly
<1>. QED BY <1>2, <1>3, <1>4 DEF IInv, Between, InPacket

LEMMA FetchPendingInv == IInv /\ FetchPending => IInv'
<1> SUFFICES ASSUME IInv, FetchPending PROVE IInv'
  OBVIOUS
<1> USE DEF IInv, TypeOK, FetchPending, socket, server, batch
<1>1. TypeOK'
  OBVIOUS
<1>2. Len(delivered') = Len(delivered) + 1 /\ Len(pending') = Len(pending) - 1
  OBVIOUS
<1>3. Got' = Got
  BY <1>2 DEF Got
<1>4. RowsInOrder'
  BY <1>2 DEF RowsInOrder, Ends
<1>5. Counted'
  BY <1>3 DEF Counted, InBatch, InPacket
<1>6. Ends'
  BY DEF Ends, InBatch, InPacket
<1>. QED BY <1>1, <1>4, <1>5, <1>6 DEF Between, LeftOverOnly, IsLeftOver,
            InPacket

LEMMA FetchEofInv == IInv /\ FetchEof => IInv'
<1> SUFFICES ASSUME IInv, FetchEof PROVE IInv'
  OBVIOUS
<1> USE DEF IInv, TypeOK, FetchEof, socket, server, batch, stmt
<1>1. TypeOK'
  OBVIOUS
<1>2. RowsInOrder'
  BY DEF RowsInOrder
<1>3. Counted'
  BY DEF Counted, Ends, Got, InBatch, InPacket
<1>4. Ends'
  BY DEF Ends, InBatch, InPacket
<1>. QED BY <1>1, <1>2, <1>3, <1>4 DEF Between, InPacket

(* Moving the first row to convert to the end of the queue keeps the order. *)
LEMMA ConvertedInOrder ==
  IInv /\ Converted /\ todo # <<>> /\ delivered' = delivered => RowsInOrder'
<1> SUFFICES ASSUME IInv, Converted, todo # <<>>, delivered' = delivered
             PROVE  RowsInOrder'
  OBVIOUS
<1> USE DEF IInv, TypeOK, Converted
<1>1. /\ Len(todo') = Len(todo) - 1 /\ Len(pending') = Len(pending) + 1
      /\ Len(todo) > 0 /\ Len(pending) \in Nat
  OBVIOUS
<1>2. \A i \in 1..Len(delivered') : delivered'[i] = i
  BY DEF RowsInOrder
<1>3. ASSUME NEW i \in 1..Len(pending')
      PROVE  pending'[i] = Len(delivered') + i
  <2>1. CASE i \in 1..Len(pending)
    BY <2>1 DEF RowsInOrder
  <2>2. CASE i = Len(pending) + 1
    <3>1. pending'[i] = todo[1]
      BY <2>2
    <3>. QED BY <3>1, <2>2, <1>1 DEF RowsInOrder
  <2>3. i \in 1..Len(pending) \/ i = Len(pending) + 1
    BY ONLY <1>1, i \in 1..Len(pending')
  <2>. QED BY ONLY <2>1, <2>2, <2>3
<1>4. ASSUME NEW i \in 1..Len(todo')
      PROVE  todo'[i] = Len(delivered') + Len(pending') + i
  <2>1. todo'[i] = todo[i + 1]
    BY <1>1
  <2>. QED BY <2>1, <1>1 DEF RowsInOrder
<1>. QED BY <1>2, <1>3, <1>4 DEF RowsInOrder

LEMMA ConvertPlainInv == IInv /\ ConvertPlain => IInv'
<1> SUFFICES ASSUME IInv, ConvertPlain PROVE IInv'
  OBVIOUS
<1> USE DEF IInv, TypeOK, ConvertPlain, Converted, socket, server
<1>1. TypeOK'
  OBVIOUS
<1>2. /\ Len(todo') = Len(todo) - 1 /\ Len(pending') = Len(pending) + 1
      /\ Len(delivered') = Len(delivered)
  OBVIOUS
<1>3. Got' = Got
  BY <1>2 DEF Got
<1>4. RowsInOrder'
  BY ConvertedInOrder DEF RowsInOrder
<1>5. Counted'
  BY <1>3 DEF Counted, InBatch, InPacket
<1>6. Ends'
  <2>1. Len(pending') > 0
    BY <1>2
  <2>2. pending' # <<>>
    BY ONLY <2>1
  <2>. QED BY ONLY <2>2, IInv, ConvertPlain DEF IInv, ConvertPlain, Ends,
       InBatch, InPacket, server
<1>. QED BY <1>1, <1>4, <1>5, <1>6 DEF Between, LeftOverOnly, IsLeftOver,
            InPacket

LEMMA BatchConvertedInv == IInv /\ BatchConverted => IInv'
<1> SUFFICES ASSUME IInv, BatchConverted PROVE IInv'
  OBVIOUS
<1>1. eof' \in BOOLEAN /\ (eof' => eof \/ todoEof) /\ (eof \/ todoEof => eof')
  BY Zenon DEF BatchConverted, IInv, TypeOK
<1>2. /\ pc = "convert" /\ todo = <<>>
      /\ UNCHANGED <<setting, stream, lost, server, socket, batch>>
  BY DEF BatchConverted
<1>3. CASE pending = <<>>
  <2>1. pc' = "ended" /\ UNCHANGED <<pending, delivered>>
    BY <1>3 DEF BatchConverted
  <2> USE <1>1, <1>2, <1>3, <2>1 DEF IInv, TypeOK, socket, server, batch
  <2>2. TypeOK'
    OBVIOUS
  <2>3. RowsInOrder'
    BY DEF RowsInOrder
  <2>4. todoEof
    BY DEF Ends, InBatch
  <2>5. Counted'
    <3>1. Got = Len(result) /\ Got = Len(delivered) /\ Got' = Got
      BY <2>4 DEF Counted, Got, InBatch
    <3>. QED BY <3>1 DEF Counted, InBatch, InPacket
  <2>6. Ends'
    BY DEF Ends, InBatch, InPacket
  <2>. QED BY <2>2, <2>3, <2>5, <2>6 DEF Between, InPacket
<1>4. CASE pending # <<>>
  <2>1. /\ pc' = "idle"
        /\ delivered' = Append(delivered, Head(pending))
        /\ pending' = Tail(pending)
    BY <1>4 DEF BatchConverted
  <2> USE <1>1, <1>2, <1>4, <2>1 DEF IInv, TypeOK, socket, server, batch
  <2>2. TypeOK'
    OBVIOUS
  <2>3. /\ Len(pending') = Len(pending) - 1
        /\ Len(delivered') = Len(delivered) + 1
    OBVIOUS
  <2>4. Got' = Got
    BY <2>3 DEF Got
  <2>5. RowsInOrder'
    BY <2>3 DEF RowsInOrder
  <2>6. Counted'
    BY <2>4 DEF Counted, InBatch, InPacket
  <2>7. Ends'
    BY DEF Ends, InBatch, InPacket
  <2>. QED BY <2>2, <2>5, <2>6, <2>7 DEF Between, LeftOverOnly,
              IsLeftOver, InPacket
<1>. QED BY <1>3, <1>4

LEMMA ConnectionLostInv == IInv /\ ConnectionLost => IInv'
<1> SUFFICES ASSUME IInv, ConnectionLost PROVE IInv'
  OBVIOUS
<1> USE DEF IInv, ConnectionLost, socket, server, batch, stmt
<1>1. TypeOK'
  BY DEF TypeOK
<1>2. RowsInOrder' /\ Counted' /\ Ends'
  BY DEF RowsInOrder, Counted, Ends, Got, InBatch, InPacket
<1>3. /\ Between' = Between /\ InPacket' = InPacket
      /\ LeftOverOnly' = LeftOverOnly /\ Misled' = Misled
      /\ FetchReply' = FetchReply /\ PacketReply' = PacketReply
  BY DEF Between, LeftOverOnly, IsLeftOver, Misled, FetchReply, BatchOf, PacketReply,
         Got, RowRecord, InPacket
<1>. QED BY <1>1, <1>2, <1>3

(* Giving up in any state: what was handed over stays as it was.           *)
LEMMA FailedInv == IInv /\ Failed => IInv'
<1> SUFFICES ASSUME IInv, Failed PROVE IInv'
  OBVIOUS
<1> USE DEF IInv, TypeOK, Failed, socket, server, batch, stmt
<1>1. TypeOK'
  OBVIOUS
<1>2. RowsInOrder' /\ Counted' /\ Ends'
  BY DEF RowsInOrder, Counted, Ends, Got, InBatch, InPacket
<1>. QED BY <1>1, <1>2 DEF Between, InPacket

LEMMA EndReached ==
  \A r, b \in Nat, h \in {0, 1} :
     b + 1 <= r /\ r + h <= b + 1 => r = b + 1 /\ h = 0
OBVIOUS

(* A reply that is accepted is the whole of what was left to read.         *)
LEMMA AcceptedReply ==
  ASSUME IInv, InPacket, PacketEnds, Accepted
  PROVE  /\ UNCHANGED <<setting, stream, lost, server, base, baseHalf, todoEof,
                        segs, eof, delivered>>
         /\ rd' \in Nat /\ half' = 0 /\ rd' = Len(stream)
         /\ Len(stream) = base + 1 /\ baseHalf = 0 /\ PacketReply
<1> USE DEF IInv, TypeOK
<1>1. /\ UNCHANGED <<setting, stream, lost, server, base, baseHalf, todoEof,
                     segs, eof, delivered>>
      /\ rd' \in Nat /\ half' \in {0, 1} /\ rd' + half' <= Len(stream)
  BY DEF PacketEnds, PacketRead, Read, socket
<1>2. /\ baseHalf = 0 /\ base + 1 <= rd' /\ stream[base + 1].op = "Response"
  BY <1>1 DEF Accepted, HasBody, Op
<1>3. ~Misled
  BY <1>1, <1>2 DEF Misled, IsLeftOver
<1>4. PacketReply
  BY <1>3
<1>5. Len(stream) = base + 1 /\ base \in Nat
  BY <1>1, <1>2, <1>4 DEF PacketReply
<1>6. rd' = base + 1 /\ half' = 0
  <2>1. /\ rd' \in Nat /\ half' \in {0, 1} /\ base + 1 <= rd'
        /\ rd' + half' <= base + 1
    BY <1>1, <1>2, <1>5
  <2>. QED BY <2>1, <1>5, EndReached
<1>. QED BY ONLY <1>1, <1>2, <1>4, <1>5, <1>6

LEMMA BlobOpenedInv == IInv /\ BlobOpened => IInv'
<1> SUFFICES ASSUME IInv, BlobOpened PROVE IInv'
  OBVIOUS
<1>1. InPacket /\ PacketEnds /\ Accepted
  BY DEF BlobOpened, InPacket
<1>2. /\ UNCHANGED <<setting, stream, lost, server, base, baseHalf, todo,
                     todoEof, segs, stmt>>
      /\ rd' \in Nat /\ half' = 0 /\ rd' = Len(stream)
      /\ Len(stream) = base + 1 /\ baseHalf = 0
      /\ pc = "open" /\ pc' = "opened"
  BY <1>1, AcceptedReply DEF BlobOpened, stmt
<1> USE <1>2 DEF IInv, TypeOK, stmt, server
<1>3. TypeOK'
  OBVIOUS
<1>4. RowsInOrder' /\ Counted' /\ Ends'
  BY DEF RowsInOrder, Counted, Ends, Got, InBatch, InPacket
<1>. QED BY <1>3, <1>4 DEF Between, InPacket, LeftOverOnly

LEMMA SegmentReadInv == IInv /\ SegmentRead => IInv'
<1> SUFFICES ASSUME IInv, SegmentRead PROVE IInv'
  OBVIOUS
<1>1. InPacket /\ PacketEnds /\ Accepted
  BY DEF SegmentRead, InPacket
<1>2. /\ UNCHANGED <<setting, stream, lost, server, base, baseHalf, todo,
                     todoEof, segs, stmt>>
      /\ rd' \in Nat /\ half' = 0 /\ rd' = Len(stream)
      /\ Len(stream) = base + 1 /\ baseHalf = 0 /\ PacketReply
      /\ pc = "segment" /\ pc' \in {"opened", "drained"}
      /\ pc' = "drained" => stream[base + 1].body = "last"
  BY <1>1, AcceptedReply DEF SegmentRead, stmt, Contents
<1>3. pc' = "drained" => segs = BlobSegments
  BY <1>2 DEF PacketReply, IInv, TypeOK
<1> USE <1>2, <1>3 DEF IInv, TypeOK, stmt, server
<1>4. TypeOK'
  OBVIOUS
<1>5. RowsInOrder' /\ Counted' /\ Ends'
  BY DEF RowsInOrder, Counted, Ends, Got, InBatch, InPacket
<1>. QED BY <1>4, <1>5 DEF Between, InPacket, LeftOverOnly

LEMMA BlobClosedInv == IInv /\ BlobClosed => IInv'
<1> SUFFICES ASSUME IInv, BlobClosed PROVE IInv'
  OBVIOUS
<1>1. InPacket /\ PacketEnds /\ Accepted
  BY DEF BlobClosed, InPacket
<1>2. /\ UNCHANGED <<setting, stream, lost, server, base, baseHalf, todoEof,
                     segs, eof, delivered>>
      /\ rd' \in Nat /\ half' = 0 /\ rd' = Len(stream)
      /\ Len(stream) = base + 1 /\ baseHalf = 0 /\ pc = "close"
  BY <1>1, AcceptedReply DEF BlobClosed
<1>3. todo # <<>>
  BY <1>1 DEF IInv, Ends
<1>4. CASE pc' = "failed" /\ UNCHANGED <<todo, pending>>
  <2> USE <1>2, <1>4 DEF IInv, TypeOK, server
  <2>1. TypeOK'
    OBVIOUS
  <2>2. RowsInOrder' /\ Counted' /\ Ends'
    BY DEF RowsInOrder, Counted, Ends, Got, InBatch, InPacket
  <2>. QED BY <2>1, <2>2 DEF Between, InPacket
<1>5. CASE pc' = "convert" /\ Converted
  <2>1. RowsInOrder'
    BY <1>2, <1>3, <1>5, ConvertedInOrder
  <2> USE <1>2, <1>3, <1>5 DEF IInv, TypeOK, server, Converted
  <2>2. TypeOK'
    OBVIOUS
  <2>3. /\ Len(todo') = Len(todo) - 1 /\ Len(pending') = Len(pending) + 1
        /\ Len(delivered') = Len(delivered) /\ Len(pending) \in Nat
    OBVIOUS
  <2>4. Got' = Got
    BY <2>3 DEF Got
  <2>5. Counted'
    BY <2>4 DEF Counted, InBatch, InPacket
  <2>6. pending' # <<>>
    BY ONLY <2>3
  <2>7. Ends'
    BY ONLY <2>6, <1>2, <1>5, IInv DEF IInv, Ends, InBatch, InPacket, server
  <2>. QED BY <2>1, <2>2, <2>5, <2>7 DEF Between, LeftOverOnly, InPacket
<1>. QED BY <1>4, <1>5 DEF BlobClosed

(* A read that leaves the client where it was.                             *)
LEMMA PacketGoesOnInv == IInv /\ PacketGoesOn => IInv'
<1> SUFFICES ASSUME IInv, PacketGoesOn PROVE IInv'
  OBVIOUS
<1>1. /\ UNCHANGED <<setting, stream, lost, server, base, baseHalf, batch,
                     stmt, pc>>
      /\ rd' \in Nat /\ half' \in {0, 1} /\ rd' + half' <= Len(stream)
      /\ rd <= rd' /\ InPacket
  BY DEF PacketGoesOn, PacketRead, Read, IInv, TypeOK, batch, stmt
<1> USE <1>1 DEF IInv, TypeOK, batch, stmt, server
<1>2. TypeOK'
  OBVIOUS
<1>3. RowsInOrder' /\ Counted' /\ Ends'
  BY DEF RowsInOrder, Counted, Ends, Got, InBatch, InPacket
<1>. QED BY <1>2, <1>3 DEF Between, InPacket, Misled, IsLeftOver, PacketReply

LEMMA PacketRejectedInv == IInv /\ PacketRejected => IInv'
<1> SUFFICES ASSUME IInv, PacketRejected PROVE IInv'
  OBVIOUS
<1>1. /\ UNCHANGED <<setting, stream, lost, server, base, baseHalf, batch,
                     stmt>>
      /\ rd' \in Nat /\ half' \in {0, 1} /\ rd' + half' <= Len(stream)
      /\ rd <= rd' /\ pc' = "failed"
  BY DEF PacketRejected, PacketEnds, PacketRead, Read, IInv, TypeOK, batch,
         stmt, socket
<1> USE <1>1 DEF IInv, TypeOK, batch, stmt, server
<1>2. TypeOK'
  OBVIOUS
<1>3. RowsInOrder' /\ Counted' /\ Ends'
  BY DEF RowsInOrder, Counted, Ends, Got, InBatch, InPacket
<1>. QED BY <1>2, <1>3 DEF Between, InPacket

(* What a blob request leaves to read: its reply, unless a record left     *)
(* over from the last batch stands before it.                              *)
LEMMA RequestReply ==
  ASSUME IInv, Between, NEW b \in {"ok", "more", "last"}, Request(b),
         pc' \in {"open", "segment", "close"},
         pc' = "segment" /\ b = "last" => segs' = BlobSegments
  PROVE  /\ stream' \in Seq(Record) /\ Len(stream) <= Len(stream')
         /\ Misled' \/ PacketReply'
<1> USE DEF IInv, TypeOK
<1>1. LeftOverOnly /\ base' = rd /\ baseHalf' = half
  BY DEF Request
<1>2. CASE Unanswered
  <2>1. stream' = stream
    BY <1>2 DEF Unanswered
  <2>. QED BY <1>1, <2>1 DEF LeftOverOnly, Misled, IsLeftOver, PacketReply
<1>3. CASE \E x \in {b, "err"} : stream' = Append(stream, Reply(x))
  <2>1. PICK x \in {b, "err"} : stream' = Append(stream, Reply(x))
    BY <1>3
  <2>2. Reply(x) \in Record
    BY DEF Reply, Record, OpCode, Body
  <2>3. /\ stream' \in Seq(Record) /\ Len(stream') = Len(stream) + 1
        /\ stream'[Len(stream) + 1] = Reply(x)
        /\ \A j \in 1..Len(stream) : stream'[j] = stream[j]
    BY ONLY <2>1, <2>2, stream \in Seq(Record)
  <2>4. CASE Len(stream) = rd
    <3>1. Len(stream') = base' + 1 /\ stream'[base' + 1] = Reply(x)
      BY <1>1, <2>3, <2>4
    <3>. QED BY <2>3, <3>1 DEF PacketReply, Reply
  <2>5. CASE Len(stream) = rd + 1 /\ IsLeftOver(rd + 1)
    <3>1. stream'[base' + 1] = stream[rd + 1] /\ base' < Len(stream')
      BY <1>1, <2>3, <2>5
    <3>. QED BY <2>3, <2>5, <3>1, <1>1 DEF Misled, IsLeftOver
  <2>. QED BY <1>1, <2>4, <2>5 DEF LeftOverOnly
<1>. QED BY <1>2, <1>3 DEF Request, Answer

LEMMA BlobRequestInv ==
  IInv /\ (OpenBlob \/ GetSegment \/ CloseBlob) => IInv'
<1> SUFFICES ASSUME IInv, OpenBlob \/ GetSegment \/ CloseBlob PROVE IInv'
  OBVIOUS
<1>1. /\ Between /\ todo # <<>>
      /\ UNCHANGED <<setting, lost, rd, half, todo, todoEof, stmt, server>>
      /\ base' = rd /\ baseHalf' = half
      /\ InBatch /\ pc' \in {"open", "segment", "close"}
      /\ segs' \in 0..BlobSegments
      /\ pc' = "close" => segs' = BlobSegments
  <2> USE DEF IInv, TypeOK, Ends, Request, Answer, Unanswered, Between,
              InBatch, InPacket, server
  <2>1. BlobSegments \in Nat \ {0}
    BY ConstantsAssumption DEF ConstantsAssumption
  <2>2. CASE OpenBlob
    BY <2>1, <2>2 DEF OpenBlob
  <2>3. CASE GetSegment
    BY <2>1, <2>3 DEF GetSegment
  <2>4. CASE CloseBlob
    BY <2>4 DEF CloseBlob
  <2>. QED BY <2>2, <2>3, <2>4
<1>2. /\ stream' \in Seq(Record) /\ Len(stream) <= Len(stream')
      /\ Misled' \/ PacketReply'
  <2>1. CASE OpenBlob
    BY <2>1, <1>1, RequestReply DEF OpenBlob
  <2>2. CASE GetSegment
    <3>1. segs + 1 < BlobSegments \/ segs' = BlobSegments
      BY <2>2, ConstantsAssumption DEF GetSegment, IInv, TypeOK, ConstantsAssumption
    <3>. QED BY <2>2, <1>1, <3>1, RequestReply DEF GetSegment
  <2>3. CASE CloseBlob
    BY <2>3, <1>1, RequestReply DEF CloseBlob
  <2>. QED BY <2>1, <2>2, <2>3
<1> USE <1>1, <1>2 DEF IInv, TypeOK, stmt, server
<1>3. TypeOK'
  OBVIOUS
<1>4. RowsInOrder' /\ Counted' /\ Ends'
  BY DEF RowsInOrder, Counted, Ends, Got, InBatch, InPacket, Between
<1>. QED BY <1>3, <1>4 DEF Between, InPacket

LEMMA RowsFacts ==
  ASSUME NEW from \in Nat, NEW n \in Nat
  PROVE  /\ Rows(from, n) \in Seq(Record) /\ Len(Rows(from, n)) = n
         /\ \A j \in 1..n : Rows(from, n)[j] = RowRecord(from + j)
<1>1. \A j \in 1..n : RowRecord(from + j) \in Record
  BY DEF RowRecord, Record, OpCode, Body
<1>2. Rows(from, n) \in [1..n -> Record]
  BY <1>1 DEF Rows
<1>. QED BY <1>2 DEF Rows

LEMMA WithRows ==
  ASSUME NEW s \in Seq(Record), NEW from \in Nat, NEW n \in Nat
  PROVE  LET t == s \o Rows(from, n) IN
         /\ t \in Seq(Record) /\ Len(t) = Len(s) + n
         /\ \A j \in 1..Len(s) : t[j] = s[j]
         /\ \A j \in 1..n : t[Len(s) + j] = RowRecord(from + j)
<1> DEFINE t == s \o Rows(from, n)
<1>1. /\ Rows(from, n) \in Seq(Record) /\ Len(Rows(from, n)) = n
      /\ \A j \in 1..n : Rows(from, n)[j] = RowRecord(from + j)
  BY RowsFacts
<1>2. /\ t \in Seq(Record) /\ Len(t) = Len(s) + n
      /\ \A i \in 1..(Len(s) + n) :
           t[i] = IF i <= Len(s) THEN s[i] ELSE Rows(from, n)[i - Len(s)]
  BY <1>1, ConcatProperties
<1> HIDE DEF t
<1>3. Len(s) \in Nat
  BY LenProperties
<1>4. \A j \in 1..Len(s) : t[j] = s[j]
  BY <1>2, <1>3
<1>5. \A j \in 1..n : t[Len(s) + j] = RowRecord(from + j)
  <2>1. TAKE j \in 1..n
  <2>2. /\ Len(s) + j \in 1..(Len(s) + n) /\ ~(Len(s) + j <= Len(s))
        /\ Len(s) + j - Len(s) = j
    BY <1>3
  <2>. QED BY <1>1, <1>2, <2>2
<1>. QED BY <1>2, <1>4, <1>5 DEF t

LEMMA AppendFacts ==
  ASSUME NEW S, NEW s \in Seq(S), NEW e \in S
  PROVE  /\ Append(s, e) \in Seq(S) /\ Len(Append(s, e)) = Len(s) + 1
         /\ \A j \in 1..Len(s) : Append(s, e)[j] = s[j]
         /\ Append(s, e)[Len(s) + 1] = e
OBVIOUS

(* What an op_fetch leaves to read: the next rows of the result and what   *)
(* closes the batch.                                                       *)
LEMMA BatchReply ==
  ASSUME IInv, pc = "idle", FetchBatchRequest
  PROVE  /\ stream' \in Seq(Record) /\ Len(stream) <= Len(stream')
         /\ srvNext' \in Nat /\ srvNext' <= Len(result)
         /\ srvEnd' \in BOOLEAN
         /\ Misled' \/ FetchReply'
<1>0. FetchBatch \in Nat \ {0}
  BY ConstantsAssumption DEF ConstantsAssumption
<1>9. /\ stream \in Seq(Record) /\ Len(stream) \in Nat /\ rd \in Nat
      /\ srvNext \in Nat /\ srvNext <= Len(result) /\ Len(result) \in Nat
      /\ half \in {0, 1} /\ srvEnd \in BOOLEAN
  BY DEF IInv, TypeOK
<1> USE <1>0, <1>9
<1>1. /\ LeftOverOnly /\ base' = rd /\ baseHalf' = half
      /\ srvNext = Got /\ ~srvEnd /\ pc' = "fetch"
      /\ UNCHANGED <<setting, rd, half, delivered, pending, todo>>
  BY DEF FetchBatchRequest, Between, Counted, Ends, batch, stmt, IInv
<1>2. Got' = Got /\ Got \in Nat
  BY <1>1 DEF Got, IInv, TypeOK
<1>3. ASSUME stream' \in Seq(Record), Len(stream) <= Len(stream'),
             \A j \in 1..Len(stream) : stream'[j] = stream[j],
             Len(stream) # rd
      PROVE  Misled'
  <2>1. Len(stream) = rd + 1 /\ IsLeftOver(rd + 1)
    BY <1>1, <1>3 DEF LeftOverOnly
  <2>2. stream'[base' + 1] = stream[rd + 1] /\ base' < Len(stream')
    BY <1>1, <1>3, <2>1
  <2>. QED BY <2>1, <2>2 DEF Misled, IsLeftOver
<1>4. CASE Unanswered
  <2>1. stream' = stream /\ srvNext' = srvNext /\ srvEnd' = srvEnd
    BY <1>4 DEF Unanswered, server
  <2>2. CASE Len(stream) = rd
    BY <1>0, <1>1, <1>2, <2>1, <2>2 DEF FetchReply, BatchOf
  <2>. QED BY <1>3, <2>1, <2>2
<1>5. CASE FullBatch
  <2>1. PICK marked \in {FALSE, "marked" \in faults} :
          stream' = stream \o Rows(srvNext, FetchBatch)
                           \o (IF marked THEN <<NoRowRecord>> ELSE <<>>)
    BY <1>5 DEF FullBatch
  <2>2. srvNext' = srvNext + FetchBatch /\ srvEnd' = srvEnd
        /\ srvNext' <= Len(result)
    BY <1>5 DEF FullBatch
  <2>3. NoRowRecord \in Record
    BY DEF NoRowRecord, Record, OpCode, Body
  <2> DEFINE s1 == stream \o Rows(srvNext, FetchBatch)
  <2>4. /\ s1 \in Seq(Record) /\ Len(s1) = Len(stream) + FetchBatch
        /\ \A j \in 1..Len(stream) : s1[j] = stream[j]
        /\ \A j \in 1..FetchBatch :
             s1[Len(stream) + j] = RowRecord(srvNext + j)
    BY <1>0, WithRows
  <2>5. /\ stream' \in Seq(Record)
        /\ \A j \in 1..Len(s1) : stream'[j] = s1[j]
        /\ \/ Len(stream') = Len(s1)
           \/ Len(stream') = Len(s1) + 1 /\ stream'[Len(s1) + 1] = NoRowRecord
    <3>1. CASE marked
      <4>1. stream' = Append(s1, NoRowRecord)
        BY <2>1, <2>4, <3>1, <2>3
      <4>2. s1 \in Seq(Record)
        BY <2>4
      <4> HIDE DEF s1
      <4>. QED BY ONLY <4>1, <4>2, <2>3, AppendFacts
    <3>2. CASE ~marked
      <4>1. stream' = s1
        BY <2>1, <2>4, <3>2
      <4>. QED BY <4>1, <2>4
    <3>. QED BY <3>1, <3>2
  <2> HIDE DEF s1
  <2>6. Len(stream) <= Len(stream')
        /\ \A j \in 1..Len(stream) : stream'[j] = stream[j]
    BY <1>0, <2>4, <2>5
  <2>7. CASE Len(stream) = rd
    <3>1. ASSUME NEW j \in 1..FetchBatch
          PROVE  /\ base' + j <= Len(stream')
                 /\ stream'[base' + j] = RowRecord(Got + j)
      <4>1. base' + j = Len(stream) + j /\ Len(stream) + j \in 1..Len(s1)
            /\ Len(s1) <= Len(stream')
        BY <1>1, <2>4, <2>5, <2>7
      <4>2. stream'[Len(stream) + j] = RowRecord(Got + j)
        BY <4>1, <2>4, <2>5, <1>1
      <4>. QED BY <4>1, <4>2
    <3>2. srvNext' - Got' = FetchBatch /\ ~srvEnd'
      BY <1>0, <1>1, <1>2, <2>2
    <3>4. \/ Len(stream') = base' + FetchBatch
          \/ /\ Len(stream') = base' + FetchBatch + 1
             /\ IsLeftOver(Len(stream))'
      BY <1>1, <2>4, <2>5, <2>7 DEF IsLeftOver, NoRowRecord
    <3>5. BatchOf(FetchBatch)'
      <4>1. \A j \in 1..FetchBatch : /\ base' + j <= Len(stream')
                            /\ stream'[base' + j] = RowRecord(Got + j)'
        BY ONLY <1>1, <1>2, <3>1 DEF RowRecord
      <4>. QED BY <1>1, <1>2, <3>2, <3>4, <4>1
               DEF BatchOf
    <3>6. FetchReply'
      BY <3>2, <3>5 DEF FetchReply
    <3>. QED BY <1>1, <2>2, <2>5, <2>6, <3>6
  <2>. QED BY <1>0, <1>1, <1>3, <2>2, <2>5, <2>6, <2>7
<1>6. CASE LastBatch \/ FailedBatch
  <2>1. PICK k \in 0..(FetchBatch - 1), c \in {EndRecord, Reply("err")} :
          /\ stream' = Append(stream \o Rows(srvNext, k), c)
          /\ srvNext' = srvNext + k /\ srvNext' <= Len(result)
          /\ c = EndRecord => srvNext' = Len(result)
          /\ c # EndRecord => ~srvEnd'
          /\ srvEnd' \in BOOLEAN
    <3>1. CASE LastBatch
      <4>1. Len(result) - srvNext \in 0..(FetchBatch - 1)
        BY <3>1, <1>0 DEF LastBatch
      <4>2. srvNext + (Len(result) - srvNext) = Len(result)
        OBVIOUS
      <4>. QED BY <3>1, <4>1, <4>2 DEF LastBatch
    <3>2. CASE FailedBatch
      <4>1. Reply("err") # EndRecord
        BY DEF Reply, EndRecord
      <4>. QED BY <3>2, <4>1, <1>0, <1>1 DEF FailedBatch
    <3>. QED BY <1>6, <3>1, <3>2
  <2>2. c \in Record /\ k \in Nat
    BY DEF EndRecord, Reply, Record, OpCode, Body
  <2> DEFINE s1 == stream \o Rows(srvNext, k)
  <2>3. /\ s1 \in Seq(Record) /\ Len(s1) = Len(stream) + k
        /\ \A j \in 1..Len(stream) : s1[j] = stream[j]
        /\ \A j \in 1..k : s1[Len(stream) + j] = RowRecord(srvNext + j)
    BY ONLY <2>2, <1>9, WithRows DEF s1
  <2>4. stream' = Append(s1, c)
    BY <2>1
  <2> HIDE DEF s1
  <2>5. /\ stream' \in Seq(Record) /\ Len(stream') = Len(s1) + 1
        /\ \A j \in 1..Len(s1) : stream'[j] = s1[j]
        /\ stream'[Len(s1) + 1] = c
    BY <2>2, <2>3, <2>4, AppendFacts
  <2>6. Len(stream) <= Len(stream')
        /\ \A j \in 1..Len(stream) : stream'[j] = stream[j]
    BY <2>3, <2>5
  <2>7. CASE Len(stream) = rd
    <3>1. ASSUME NEW j \in 1..k
          PROVE  /\ base' + j <= Len(stream')
                 /\ stream'[base' + j] = RowRecord(Got + j)
      <4>1. base' + j = Len(stream) + j /\ Len(stream) + j \in 1..Len(s1)
            /\ Len(s1) <= Len(stream')
        BY <1>1, <2>2, <2>3, <2>5, <2>7
      <4>2. stream'[Len(stream) + j] = RowRecord(Got + j)
        BY <4>1, <2>3, <2>5, <1>1
      <4>. QED BY <4>1, <4>2
    <3>2. srvNext' - Got' = k /\ k < FetchBatch /\ k \in 0..FetchBatch
      BY <1>0, <1>1, <1>2, <2>1
    <3>4. Len(stream') = base' + k + 1 /\ stream'[Len(stream')] = c
      BY <1>1, <2>3, <2>5, <2>7
    <3>5. BatchOf(k)'
      <4>1. \A j \in 1..k : /\ base' + j <= Len(stream')
                            /\ stream'[base' + j] = RowRecord(Got + j)'
        BY ONLY <1>1, <1>2, <3>1 DEF RowRecord
      <4>2. \/ srvNext' = Len(result') /\ stream'[Len(stream')] = EndRecord'
            \/ ~srvEnd' /\ stream'[Len(stream')] = Reply("err")'
        BY ONLY <1>1, <2>1, <3>4 DEF EndRecord, Reply
      <4>. QED BY ONLY <1>0, <3>2, <3>4, <4>1, <4>2 DEF BatchOf
    <3>6. FetchReply'
      BY <3>2, <3>5 DEF FetchReply
    <3>. QED BY <1>1, <2>1, <2>5, <2>6, <3>6
  <2>. QED BY <1>0, <1>1, <1>3, <2>1, <2>5, <2>6, <2>7
<1>. QED BY <1>4, <1>5, <1>6 DEF FetchBatchRequest

LEMMA FetchBatchRequestInv == IInv /\ FetchBatchRequest => IInv'
<1> SUFFICES ASSUME IInv, FetchBatchRequest PROVE IInv'
  OBVIOUS
<1>1. /\ pc = "idle" /\ pending = <<>> /\ ~eof /\ pc' = "fetch"
      /\ base' = rd /\ baseHalf' = half
      /\ UNCHANGED <<setting, lost, rd, half, batch, stmt>>
  BY DEF FetchBatchRequest
<1>2. /\ stream' \in Seq(Record) /\ Len(stream) <= Len(stream')
      /\ srvNext' \in Nat /\ srvNext' <= Len(result)
      /\ srvEnd' \in BOOLEAN
      /\ Misled' \/ FetchReply'
  BY <1>1, BatchReply
<1> USE <1>1, <1>2 DEF IInv, TypeOK, batch, stmt
<1>3. TypeOK'
  OBVIOUS
<1>4. RowsInOrder' /\ Counted' /\ Ends'
  BY DEF RowsInOrder, Counted, Ends, Got, InBatch, InPacket
<1>. QED BY <1>3, <1>4 DEF Between, InPacket

(* A batch that is parsed to its end holds the next rows of the result,    *)
(* all that the server's cursor went past.                                 *)
LEMMA ParsedBatch ==
  ASSUME IInv, FetchRead, NEW m \in 0..FetchBatch, Leading(m, rd'),
         BatchDone(m) \/ StreamDone(m, rd')
  PROVE  /\ srvNext = Got + m
         /\ \A j \in 1..m : stream[base + j].row = Got + j
         /\ Len(stream) = rd' \/ (Len(stream) = rd' + 1 /\ IsLeftOver(rd' + 1))
         /\ StreamDone(m, rd') => srvNext = Len(result)
         /\ srvEnd => StreamDone(m, rd')
         /\ m = 0 => StreamDone(m, rd')
<1>0. FetchBatch \in Nat \ {0}
  BY ConstantsAssumption DEF ConstantsAssumption
<1>1. /\ rd' \in Nat /\ rd' <= Len(stream) /\ Len(stream) \in Nat
      /\ base \in Nat /\ srvNext \in Nat /\ Got \in Nat
      /\ baseHalf \in {0, 1} /\ m \in Nat /\ rd <= rd'
  <2>1. Got \in Nat
    BY DEF Got, IInv, TypeOK
  <2>2. m \in Nat
    BY <1>0
  <2>3. rd' \in Nat /\ rd' <= Len(stream) /\ rd <= rd'
    BY DEF FetchRead, Read, IInv, TypeOK
  <2>. QED BY <2>1, <2>2, <2>3 DEF IInv, TypeOK
<1> USE <1>0, <1>1
<1>2. baseHalf = 0 /\ base + 1 <= rd' /\ ~IsLeftOver(base + 1)
  <2>1. CASE m = 0
    <3>1. StreamDone(0, rd')
      BY <2>1 DEF BatchDone
    <3>. QED BY <3>1 DEF StreamDone, IsEnd, HasBody, Op, Contents, IsLeftOver
  <2>2. CASE m > 0
    <3>1. IsRow(1, rd')
      BY <2>2 DEF Leading
    <3>. QED BY <3>1 DEF IsRow, HasBody, Op, Contents, IsLeftOver
  <2>. QED BY <2>1, <2>2
<1>3. BatchOf(srvNext - Got)
  BY <1>2 DEF IInv, FetchRead, FetchReply, Misled
<1> DEFINE k == srvNext - Got
<1>4. k \in 0..FetchBatch /\ srvNext = Got + k
  BY <1>3 DEF BatchOf
<1>5. \A j \in 1..k : /\ base + j <= Len(stream)
                      /\ stream[base + j].op = "FetchResponse"
                      /\ stream[base + j].body \in {"row", "bad"}
                      /\ stream[base + j].row = Got + j
  <2>1. TAKE j \in 1..k
  <2>2. base + j <= Len(stream) /\ stream[base + j] = RowRecord(Got + j)
    BY <1>3 DEF BatchOf
  <2>. QED BY ONLY <2>2 DEF RowRecord
<1>6. m <= k
  <2>1. SUFFICES ASSUME k < m PROVE FALSE
    BY <1>4
  <2>2. k + 1 \in 1..m /\ k < FetchBatch /\ k + 1 \in Nat
    BY <1>4, <2>1
  <2>3. IsRow(k + 1, rd')
    BY <2>2 DEF Leading
  <2>4. base + (k + 1) <= Len(stream) /\ stream[base + (k + 1)].body = "row"
        /\ base + (k + 1) = base + k + 1
    BY <2>2, <2>3, <1>4 DEF IsRow, HasBody, Contents
  <2>5. Len(stream) = base + k + 1
    BY <1>3, <1>4, <2>2, <2>4 DEF BatchOf
  <2>6. stream[Len(stream)].body = "row"
    BY <2>4, <2>5
  <2>7. \/ IsLeftOver(Len(stream)) \/ stream[Len(stream)] = EndRecord
        \/ stream[Len(stream)] = Reply("err")
    BY <1>3, <2>2, <2>5 DEF BatchOf
  <2>8. CASE IsLeftOver(Len(stream))
    BY ONLY <2>6, <2>8 DEF IsLeftOver
  <2>9. CASE stream[Len(stream)] = EndRecord
    BY ONLY <2>6, <2>9 DEF EndRecord
  <2>10. CASE stream[Len(stream)] = Reply("err")
    BY ONLY <2>6, <2>10 DEF Reply
  <2>. QED BY ONLY <2>7, <2>8, <2>9, <2>10
<1>7. k <= m
  <2>1. SUFFICES ASSUME m < k PROVE FALSE
    BY <1>4
  <2>2. m + 1 \in 1..k /\ m < FetchBatch
    BY <1>4, <2>1
  <2>3. StreamDone(m, rd')
    BY <2>2 DEF BatchDone
  <2>4. stream[base + (m + 1)].op = "FetchResponse"
        /\ stream[base + (m + 1)].body \in {"row", "bad"}
    BY <1>5, <2>2
  <2>5. stream[base + (m + 1)].body = "end"
        \/ (m = 0 /\ stream[base + 1].op = "Response")
    BY <2>3, <1>2 DEF StreamDone, IsEnd, Op, Contents
  <2>6. m = 0 => base + (m + 1) = base + 1
    OBVIOUS
  <2>. QED BY <2>4, <2>5, <2>6
<1>8. m = k
  BY <1>4, <1>6, <1>7
<1> HIDE DEF k
<1>9. srvNext = Got + m /\ BatchOf(m)
  BY <1>3, <1>4, <1>8 DEF k
<1>10. CASE m = FetchBatch
  <2>1. base + m <= rd'
    BY <1>10 DEF Leading, IsRow, HasBody
  <2>2. Len(stream) = base + m
        \/ (Len(stream) = base + m + 1 /\ IsLeftOver(base + m + 1))
    BY <1>9, <1>10 DEF BatchOf
  <2>3. ~srvEnd /\ ~StreamDone(m, rd')
    BY <1>9, <1>10 DEF BatchOf, StreamDone
  <2>4. Len(stream) = rd' \/ (Len(stream) = rd' + 1 /\ IsLeftOver(rd' + 1))
    <3>1. CASE rd' = base + m
      BY <2>2, <3>1
    <3>2. CASE rd' # base + m
      <4>1. base + m + 1 <= rd'
        BY <2>1, <3>2
      <4>2. Len(stream) = rd'
        BY <2>2, <4>1
      <4>. QED BY <4>2
    <3>. QED BY <3>1, <3>2
  <2>5. \A j \in 1..m : stream[base + j].row = Got + j
    BY <1>5, <1>8
  <2>. QED BY ONLY <1>0, <1>9, <1>10, <2>3, <2>4, <2>5
<1>11. CASE m < FetchBatch
  <2>1. StreamDone(m, rd')
    BY <1>11 DEF BatchDone
  <2>2. base + m + 1 <= rd' /\ (m = 0 \/ stream[base + m + 1].body = "end")
        /\ stream[base + m + 1].body # "err"
    <3>1. base + (m + 1) = base + m + 1
      OBVIOUS
    <3>. QED BY <2>1, <3>1 DEF StreamDone, IsEnd, HasBody, Contents
  <2>3. Len(stream) = base + m + 1 /\ srvNext = Len(result)
    BY <1>9, <1>11, <2>2 DEF BatchOf, Reply
  <2>4. \A j \in 1..m : stream[base + j].row = Got + j
    BY <1>5, <1>8
  <2>5. Len(stream) = rd'
    BY <2>2, <2>3
  <2>. QED BY ONLY <1>9, <2>1, <2>3, <2>4, <2>5
<1>12. m = FetchBatch \/ m < FetchBatch
  BY ONLY <1>0, m \in 0..FetchBatch
<1>. QED BY <1>10, <1>11, <1>12

LEMMA FetchReadInv == IInv /\ FetchRead => IInv'
<1> SUFFICES ASSUME IInv, FetchRead PROVE IInv'
  OBVIOUS
<1>1. /\ pc = "fetch" /\ todo = <<>> /\ pending = <<>> /\ ~eof
      /\ rd' \in Nat /\ half' \in {0, 1} /\ rd' + half' <= Len(stream)
      /\ rd <= rd'
      /\ UNCHANGED <<setting, stream, lost, server, base, baseHalf, segs, stmt>>
  BY DEF FetchRead, Read, IInv, TypeOK, Ends
<1>2. PICK m \in 0..FetchBatch :
        /\ Leading(m, rd')
        /\ \/ /\ BatchDone(m) \/ StreamDone(m, rd')
              /\ todo' = BatchRows(m)
              /\ todoEof' = StreamDone(m, rd')
              /\ pc' = "convert"
           \/ UNCHANGED <<todo, todoEof, pc>>
           \/ pc' = "failed" /\ UNCHANGED <<todo, todoEof>>
  BY DEF FetchRead
<1>3. CASE UNCHANGED <<todo, todoEof, pc>>
  <2> USE <1>1, <1>3 DEF IInv, TypeOK, stmt, server
  <2>1. TypeOK'
    OBVIOUS
  <2>2. RowsInOrder' /\ Counted' /\ Ends'
    BY DEF RowsInOrder, Counted, Ends, Got, InBatch, InPacket
  <2>3. Misled' = Misled /\ FetchReply' = FetchReply
    BY DEF Misled, IsLeftOver, FetchReply, BatchOf, Got, RowRecord
  <2>. QED BY <2>1, <2>2, <2>3 DEF Between, InPacket
<1>4. CASE pc' = "failed" /\ UNCHANGED <<todo, todoEof>>
  <2> USE <1>1, <1>4 DEF IInv, TypeOK, stmt, server
  <2>1. TypeOK'
    OBVIOUS
  <2>2. RowsInOrder' /\ Counted' /\ Ends'
    BY DEF RowsInOrder, Counted, Ends, Got, InBatch, InPacket
  <2>. QED BY <2>1, <2>2 DEF Between, InPacket
<1>5. CASE /\ BatchDone(m) \/ StreamDone(m, rd')
           /\ todo' = BatchRows(m)
           /\ todoEof' = StreamDone(m, rd')
           /\ pc' = "convert"
  <2>1. /\ srvNext = Got + m
        /\ \A j \in 1..m : stream[base + j].row = Got + j
        /\ Len(stream) = rd' \/ (Len(stream) = rd' + 1 /\ IsLeftOver(rd' + 1))
        /\ todoEof' => srvNext = Len(result)
        /\ srvEnd => todoEof'
        /\ m = 0 => todoEof'
    BY <1>2, <1>5, ParsedBatch
  <2>2. todoEof' \in BOOLEAN
    BY <1>5 DEF StreamDone, IsEnd, HasBody
  <2>3. /\ todo' \in Seq(Nat) /\ Len(todo') = m /\ m \in Nat
        /\ \A j \in 1..m : todo'[j] = Got + j
    <3>1. m \in Nat /\ Got \in Nat
      BY DEF IInv, TypeOK, Got
    <3>2. todo' \in [1..m -> Nat]
      BY <1>5, <2>1, <3>1 DEF BatchRows
    <3>. QED BY <1>5, <2>1, <3>1, <3>2 DEF BatchRows
  <2>4. Len(delivered) \in Nat /\ Got = Len(delivered)
    BY <1>1 DEF Got, IInv, TypeOK
  <2>5. Got' = Got + m
    BY <1>1, <2>3, <2>4 DEF Got, stmt
  <2>6. TypeOK'
    BY <1>1, <1>5, <2>2, <2>3 DEF IInv, TypeOK, stmt, server
  <2>7. RowsInOrder'
    BY <1>1, <2>3, <2>4 DEF IInv, RowsInOrder, stmt
  <2>8. Counted'
    BY <1>1, <1>5, <2>1, <2>5 DEF IInv, TypeOK, Counted, InBatch, InPacket,
       stmt, server
  <2>9. Ends'
    <3>1. todo' = <<>> => m = 0
      BY <2>3
    <3>. QED BY <1>1, <1>5, <2>1, <3>1 DEF IInv, Ends, InBatch, InPacket,
             stmt, server
  <2>10. LeftOverOnly'
    BY <1>1, <2>1 DEF LeftOverOnly, IsLeftOver
  <2>. QED BY <1>5, <2>6, <2>7, <2>8, <2>9, <2>10 DEF IInv, Between, InPacket
<1>. QED BY <1>2, <1>3, <1>4, <1>5

LEMMA StepInv == IInv /\ [Next]_vars => IInv'
<1> SUFFICES ASSUME IInv, [Next]_vars PROVE IInv'
  OBVIOUS
<1>1. CASE FetchPending
  BY <1>1, FetchPendingInv
<1>2. CASE FetchEof
  BY <1>2, FetchEofInv
<1>3. CASE FetchBatchRequest
  BY <1>3, FetchBatchRequestInv
<1>4. CASE FetchRead
  BY <1>4, FetchReadInv
<1>5. CASE ConvertPlain
  BY <1>5, ConvertPlainInv
<1>6. CASE BatchConverted
  BY <1>6, BatchConvertedInv
<1>7. CASE OpenBlob \/ GetSegment \/ CloseBlob
  BY <1>7, BlobRequestInv
<1>8. CASE PacketGoesOn
  BY <1>8, PacketGoesOnInv
<1>9. CASE BlobOpened
  BY <1>9, BlobOpenedInv
<1>10. CASE SegmentRead
  BY <1>10, SegmentReadInv
<1>11. CASE BlobClosed
  BY <1>11, BlobClosedInv
<1>12. CASE PacketRejected
  BY <1>12, PacketRejectedInv
<1>13. CASE RequestFails \/ ReadFails \/ Timeout
  BY <1>13, FailedInv DEF RequestFails, ReadFails, Timeout
<1>14. CASE ConnectionLost
  BY <1>14, ConnectionLostInv
<1>15. CASE UNCHANGED vars
  <2> USE <1>15 DEF vars, server, socket, batch, stmt
  <2>1. TypeOK'
    BY DEF IInv, TypeOK
  <2>2. RowsInOrder' /\ Counted' /\ Ends'
    BY DEF IInv, RowsInOrder, Counted, Ends, Got, InBatch, InPacket
  <2>3. /\ Between' = Between /\ InPacket' = InPacket
        /\ LeftOverOnly' = LeftOverOnly /\ Misled' = Misled
        /\ FetchReply' = FetchReply /\ PacketReply' = PacketReply
    BY DEF Between, LeftOverOnly, IsLeftOver, Misled, FetchReply, BatchOf,
           PacketReply, Got, RowRecord, InPacket
  <2>. QED BY <2>1, <2>2, <2>3 DEF IInv
<1>. QED BY <1>1, <1>2, <1>3, <1>4, <1>5, <1>6, <1>7, <1>8, <1>9, <1>10,
         <1>11, <1>12, <1>13, <1>14, <1>15 DEF Next, Client, Finished

(* IInv holds in every state, whatever the constants.                      *)
THEOREM Invariance == Spec => []IInv
<1>. QED BY InitInv, StepInv, PTL DEF Spec

(* The variables keep their types.                                         *)
THEOREM TypeCorrect == Spec => []TypeOK
<1>1. IInv => TypeOK
  BY DEF IInv
<1>. QED BY <1>1, Invariance, PTL

(* The rows returned, queued and still to convert are always the first     *)
(* rows of the result, in order.                                           *)
THEOREM Order == Spec => []RowsInOrder
<1>1. IInv => RowsInOrder
  BY DEF IInv
<1>. QED BY <1>1, Invariance, PTL

(* The client never asks a cursor for rows past its end.                   *)
THEOREM PastEnd == Spec => NoFetchPastEnd
<1>1. IInv /\ [Next]_vars => [pc = "idle" /\ pc' = "fetch" => ~srvEnd]_vars
  <2> SUFFICES ASSUME IInv, Next, pc = "idle", pc' = "fetch" PROVE ~srvEnd
    OBVIOUS
  <2>1. FetchBatchRequest
    BY DEF Next, Client, FetchPending, FetchEof, FetchRead, ConvertPlain,
       BatchConverted, OpenBlob, GetSegment, CloseBlob, PacketGoesOn,
       PacketRead, PacketEnds, InPacket, BlobOpened, SegmentRead, BlobClosed,
       PacketRejected, RequestFails, ReadFails, Timeout, Failed,
       ConnectionLost, Finished
  <2>. QED BY <2>1 DEF FetchBatchRequest, IInv, Ends
<1>. QED BY <1>1, Invariance, PTL DEF Spec, NoFetchPastEnd

(* A row whose blob was opened joins the batch only once the blob is read  *)
(* to its last segment.                                                    *)
THEOREM WholeBlobs == Spec => BlobsComplete
<1>1. IInv /\ [Next]_vars
        => [pc = "close" /\ pc' = "convert" => segs = BlobSegments]_vars
  BY DEF IInv, Ends
<1>. QED BY <1>1, Invariance, PTL DEF Spec, BlobsComplete

-----------------------------------------------------------------------------
(* Handing over the head of `pending` is a Deliver of RowStream.           *)
LEMMA HeadDelivered ==
  ASSUME IInv, pending # <<>>, pc \notin {"ended", "failed"},
         pc' \notin {"ended", "failed"}, result' = result,
         delivered' = Append(delivered, Head(pending))
  PROVE  Cursor!Deliver
<1>1. Head(pending) = Len(delivered) + 1 /\ Len(delivered) < Len(result)
  <2>1. Len(pending) > 0
    BY DEF IInv, TypeOK
  <2>. QED BY <2>1 DEF IInv, TypeOK, RowsInOrder, Counted, Got
<1>. QED BY <1>1 DEF Cursor!Deliver, Outcome

(* A step that ends without an error does so with every row handed over.   *)
LEMMA EndReachedInOrder ==
  ASSUME IInv', pc \notin {"ended", "failed"}, pc' = "ended",
         result' = result, delivered' = delivered
  PROVE  Cursor!End
BY DEF Cursor!End, Outcome, IInv, Counted

LEMMA StepRefines ==
  IInv /\ IInv' /\ [Next]_vars => [Cursor!Next]_(Cursor!vars)
<1> SUFFICES ASSUME IInv, IInv', [Next]_vars
             PROVE  Cursor!Next \/ UNCHANGED Cursor!vars
  OBVIOUS
<1>1. CASE FetchPending
  <2>1. Cursor!Deliver
    BY <1>1, HeadDelivered DEF FetchPending
  <2>. QED BY <2>1 DEF Cursor!Next
<1>2. CASE FetchEof
  <2>1. Cursor!End
    BY <1>2, EndReachedInOrder DEF FetchEof, stmt
  <2>. QED BY <2>1 DEF Cursor!Next
<1>3. CASE BatchConverted
  <2>1. CASE pending = <<>>
    <3>1. Cursor!End
      BY <1>3, <2>1, EndReachedInOrder DEF BatchConverted
    <3>. QED BY <3>1 DEF Cursor!Next
  <2>2. CASE pending # <<>>
    <3>1. Cursor!Deliver
      BY <1>3, <2>2, HeadDelivered DEF BatchConverted
    <3>. QED BY <3>1 DEF Cursor!Next
  <2>. QED BY <2>1, <2>2
<1>4. ASSUME UNCHANGED <<setting, delivered>>, pc \notin {"ended", "failed"},
             pc' # "ended"
      PROVE  Cursor!Next \/ UNCHANGED Cursor!vars
  BY <1>4 DEF Cursor!Next, Cursor!Fail, Cursor!vars, Outcome
<1>5. CASE FetchBatchRequest
  BY <1>4, <1>5 DEF FetchBatchRequest, stmt
<1>6. CASE FetchRead
  BY <1>4, <1>6 DEF FetchRead, stmt
<1>7. CASE ConvertPlain
  BY <1>4, <1>7 DEF ConvertPlain
<1>8. CASE OpenBlob \/ GetSegment \/ CloseBlob
  BY <1>4, <1>8 DEF OpenBlob, GetSegment, CloseBlob, Request, stmt
<1>9. CASE PacketGoesOn
  BY <1>4, <1>9 DEF PacketGoesOn, PacketRead, InPacket
<1>10. CASE BlobOpened \/ SegmentRead \/ BlobClosed \/ PacketRejected
  BY <1>4, <1>10 DEF BlobOpened, SegmentRead, BlobClosed, PacketRejected,
     PacketEnds, PacketRead, InPacket
<1>11. CASE RequestFails \/ ReadFails \/ Timeout
  BY <1>4, <1>11 DEF RequestFails, ReadFails, Timeout, Failed, InPacket, stmt
<1>12. CASE ConnectionLost \/ UNCHANGED vars
  BY <1>12 DEF ConnectionLost, vars, stmt, Cursor!vars, Outcome
<1>. QED BY <1>1, <1>2, <1>3, <1>5, <1>6, <1>7, <1>8, <1>9, <1>10, <1>11,
         <1>12 DEF Next, Client, Finished

(* The wire client implements RowStream: whatever is lost, late, split or  *)
(* refused, the caller sees a prefix of the rows, and "no more rows" only  *)
(* after all of them.                                                      *)
THEOREM Refinement == Spec => RowStreamSpec
<1>1. Init => Cursor!Init
  <2> SUFFICES ASSUME Init PROVE Cursor!Init
    OBVIOUS
  <2>1. Len(result) \in Nat
    BY InitInv DEF IInv, TypeOK
  <2>. QED BY <2>1 DEF Init, Cursor!Init, Outcome
<1>. QED BY <1>1, StepRefines, Invariance, PTL
         DEF Spec, RowStreamSpec, Cursor!Spec

=============================================================================
