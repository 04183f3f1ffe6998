------------------------------ MODULE WireFetch ------------------------------
(***************************************************************************)
(* The rows of one executed statement on their way from the server's       *)
(* cursor to the caller of `fetch`: FirebirdWireConnection::fetch,         *)
(* fetch_batch, parse_fetch_batch, ParsedColumn::into_column and           *)
(* read_packet of the vendored client (client.rs, wire.rs).                *)
(*                                                                         *)
(* The client asks for rows FetchBatch at a time.  The reply is a burst of *)
(* records that no length announces, which TCP hands over in pieces of any *)
(* size; the client appends each piece to a buffer and parses the buffer   *)
(* again from its start.  When the batch is complete, its rows are         *)
(* converted one by one, a blob column costing more requests on the same   *)
(* socket, and are queued on the statement for the calls that follow.      *)
(*                                                                         *)
(* The socket is a sequence of records, `stream`, that the server extends, *)
(* and a position in it.  A record is two words, its op code and the rest, *)
(* and a read may stop after either: a position is the number of records   *)
(* read completely and whether the op code of the next was read too.       *)
(* Closing the connection is modelled as losing what was not yet read.     *)
(*                                                                         *)
(* Left out: op_dummy packets, and the responses to free_statement still   *)
(* owed when a fetch starts (execute has read them all).                   *)
(***************************************************************************)
EXTENDS Integers, Sequences

CONSTANTS
    FetchBatch,     \* FETCH_BATCH_SIZE: rows asked for by one op_fetch
    ReadBuffer,     \* READ_BUFFER_LENGTH, in words: what one read can return
    BlobSegments,   \* get_segment calls a blob takes
    RowKinds,       \* the kinds of row a result may have (see RowKind)
    MaxRows,        \* bound: the rows of a result
    FaultSets       \* what may go wrong (sets of Fault)

(***************************************************************************)
(* A "plain" row is complete when it is parsed, a "blob" row has one blob  *)
(* column left to read, a "badblob" row one whose text is not valid in the *)
(* connection's character set.  A "bad" row arrives whole, but holds such  *)
(* text, or a type the client does not know, in the record itself.         *)
(***************************************************************************)
RowKind == {"plain", "blob", "badblob", "bad"}

(***************************************************************************)
(* "timeout": the socket timeout expires though more bytes are to arrive;  *)
(* "lost": the connection breaks; "server": the server answers a request   *)
(* with an error; "split": the one reply a read_packet waits for arrives   *)
(* in two reads; "marked": the server may close a full batch with a record *)
(* that has no row.                                                        *)
(***************************************************************************)
Fault == {"timeout", "lost", "server", "split", "marked"}

ASSUME ConstantsAssumption ==
    /\ FetchBatch \in Nat \ {0}
    /\ ReadBuffer \in Nat \ {0}
    /\ BlobSegments \in Nat \ {0}
    /\ RowKinds \subseteq RowKind
    /\ MaxRows \in Nat
    /\ FaultSets \subseteq SUBSET Fault

VARIABLES
    result,     \* kinds of the rows the statement selects
    faults,     \* what may go wrong
    stream,     \* every record the server has sent since the execute
    rd, half,   \* position of the client in it
    base,       \* position where the buffer being parsed starts: records ...
    baseHalf,   \* ... and 1 if it starts after an op code
    lost,       \* the connection is broken
    srvNext,    \* rows the server's cursor has gone past
    srvEnd,     \* the server's cursor has reported the end of the stream
    pc,         \* where the client is
    todo,       \* rows of the parsed batch that into_column has still to see
    todoEof,    \* the parsed batch ended with the end-of-stream record
    segs,       \* segments read of the blob being read
    pending,    \* StmtHandleData.pending
    eof,        \* StmtHandleData.eof
    delivered   \* rows returned to the caller

setting == <<result, faults>>
server == <<srvNext, srvEnd>>
socket == <<rd, half, base, baseHalf>>
batch  == <<todo, todoEof, segs>>
stmt   == <<pending, eof, delivered>>
vars   == <<setting, stream, lost, pc, server, socket, batch, stmt>>

OpCode == {"FetchResponse", "Response"}
Body   == {"row", "bad", "end", "norow",     \* of a FetchResponse
           "ok", "err", "more", "last"}      \* of a Response
Record == [op : OpCode, body : Body, row : Nat]

RowRecord(i) ==
    [op |-> "FetchResponse",
     body |-> IF result[i] = "bad" THEN "bad" ELSE "row", row |-> i]
EndRecord    == [op |-> "FetchResponse", body |-> "end", row |-> 0]
NoRowRecord  == [op |-> "FetchResponse", body |-> "norow", row |-> 0]
Reply(b)     == [op |-> "Response", body |-> b, row |-> 0]

TypeOK ==
    /\ result \in Seq(RowKind)
    /\ stream \in Seq(Record)
    /\ rd \in Nat /\ half \in {0, 1} /\ rd + half <= Len(stream)
    /\ base \in Nat /\ baseHalf \in {0, 1} /\ base <= rd
    /\ lost \in BOOLEAN
    /\ srvNext \in Nat /\ srvNext <= Len(result)
    /\ srvEnd \in BOOLEAN
    /\ pc \in {"idle", "fetch", "convert", "open", "opened", "segment",
               "drained", "close", "ended", "failed"}
    /\ todo \in Seq(Nat) /\ todoEof \in BOOLEAN
    /\ segs \in 0..BlobSegments
    /\ pending \in Seq(Nat) /\ eof \in BOOLEAN
    /\ delivered \in Seq(Nat)

Init ==
    /\ \E n \in 0..MaxRows : result \in [1..n -> RowKinds]
    /\ faults \in FaultSets
    /\ stream = <<>>
    /\ rd = 0 /\ half = 0 /\ base = 0 /\ baseHalf = 0
    /\ lost = FALSE
    /\ srvNext = 0 /\ srvEnd = FALSE
    /\ pc = "idle"
    /\ todo = <<>> /\ todoEof = FALSE /\ segs = 0
    /\ pending = <<>> /\ eof = FALSE /\ delivered = <<>>

-----------------------------------------------------------------------------
(* The server: what a request adds to the stream.                          *)

(* A cursor past `from` rows asked for a batch: the rows it still has, up  *)
(* to FetchBatch of them, then what closes the batch.                      *)
Rows(from, n) == [i \in 1..n |-> RowRecord(from + i)]

FullBatch ==
    /\ srvNext + FetchBatch <= Len(result)
    /\ \E marked \in {FALSE, "marked" \in faults} :
         stream' = stream \o Rows(srvNext, FetchBatch)
                          \o (IF marked THEN <<NoRowRecord>> ELSE <<>>)
    /\ srvNext' = srvNext + FetchBatch
    /\ UNCHANGED srvEnd

LastBatch ==
    /\ srvNext + FetchBatch > Len(result)
    /\ stream' = Append(stream \o Rows(srvNext, Len(result) - srvNext),
                        EndRecord)
    /\ srvNext' = Len(result)
    /\ srvEnd' = TRUE

(* The cursor fails after some rows of the batch.                          *)
FailedBatch ==
    /\ "server" \in faults
    /\ \E n \in 0..(FetchBatch - 1) :
         /\ srvNext + n <= Len(result)
         /\ stream' = Append(stream \o Rows(srvNext, n), Reply("err"))
         /\ srvNext' = srvNext + n
    /\ UNCHANGED srvEnd

Answer(body) ==
    /\ \/ stream' = Append(stream, Reply(body))
       \/ "server" \in faults /\ stream' = Append(stream, Reply("err"))
    /\ UNCHANGED server

(* A request on a broken connection: the write fails, or the loss is only  *)
(* seen by the read that follows.                                          *)
Unanswered == lost /\ UNCHANGED <<stream, server>>

-----------------------------------------------------------------------------
(* FirebirdWireConnection::fetch, called by the iterator for the next row. *)

FetchPending ==
    /\ pc = "idle" /\ pending # <<>>
    /\ delivered' = Append(delivered, Head(pending))
    /\ pending' = Tail(pending)
    /\ UNCHANGED <<setting, stream, lost, pc, server, socket, batch, eof>>

FetchEof ==
    /\ pc = "idle" /\ pending = <<>> /\ eof
    /\ pc' = "ended"
    /\ UNCHANGED <<setting, stream, lost, server, socket, batch, stmt>>

(* fetch_batch: send op_fetch and start an empty buffer.                   *)
(* Wrong variant: what was read of a record is taken for all of it.        *)
BufferSkipsRecord ==
    /\ pc = "idle" /\ pending = <<>> /\ ~eof
    /\ \/ ~lost /\ (FullBatch \/ LastBatch \/ FailedBatch)
       \/ Unanswered
    /\ base' = rd + half /\ baseHalf' = 0
    /\ pc' = "fetch"
    /\ UNCHANGED <<setting, lost, rd, half, batch, stmt>>

FetchBatchRequest ==
    /\ pc = "idle" /\ pending = <<>> /\ ~eof
    /\ \/ ~lost /\ (FullBatch \/ LastBatch \/ FailedBatch)
       \/ Unanswered
    /\ base' = rd /\ baseHalf' = half
    /\ pc' = "fetch"
    /\ UNCHANGED <<setting, lost, rd, half, batch, stmt>>

-----------------------------------------------------------------------------
(* Reading.                                                                *)

(* One read: some of the words that have been sent, at most ReadBuffer.    *)
Read ==
    /\ ~lost
    /\ rd' \in rd..Len(stream) /\ half' \in {0, 1}
    /\ rd' + half' <= Len(stream)
    /\ 2 * rd' + half' > 2 * rd + half
    /\ 2 * rd' + half' - (2 * rd + half) <= ReadBuffer
    /\ UNCHANGED <<base, baseHalf>>

(* The j-th record of a buffer that now ends at the position (r, h).  In a *)
(* buffer that starts after an op code no word is where it is looked for,  *)
(* and what stands where the first op code should be is none.              *)
HasOp(j, r, h)    == base + j <= r + h
HasBody(j, r)     == base + j <= r
Op(j)   == IF baseHalf = 1 THEN "none" ELSE stream[base + j].op
Contents(j)       == stream[base + j].body

(* parse_fetch_response returns Ok(Some(row)) for record j, Ok(None) ...   *)
IsRow(j, r) == HasBody(j, r) /\ Op(j) = "FetchResponse" /\ Contents(j) = "row"
IsEnd(j, r) == HasBody(j, r) /\ Op(j) = "FetchResponse" /\ Contents(j) = "end"

(* ... and how many of the leading records are rows, up to max_rows.       *)
Leading(m, r) ==
    /\ m \in 0..FetchBatch
    /\ \A j \in 1..m : IsRow(j, r)
    /\ m < FetchBatch => ~IsRow(m + 1, r)

(* Wrong variants: a record without a row ends the stream; a record that   *)
(* is not whole is an error, as it was when a record came in one read.     *)
NoRowEndsStream(m, r) ==
    /\ m < FetchBatch
    /\ \/ IsEnd(m + 1, r)
       \/ HasBody(m + 1, r) /\ Op(m + 1) = "FetchResponse"
            /\ Contents(m + 1) = "norow"
       \/ m = 0 /\ HasBody(1, r) /\ Op(1) = "Response" /\ Contents(1) # "err"

NeedMoreOnlyBetweenRecords(m, r, h) ==
    m < FetchBatch /\ ~HasOp(m + 1, r, h)

(* parse_fetch_batch stops after m rows because max_rows is reached, and   *)
(* leaves the rest of the buffer unparsed ...                              *)
BatchDone(m) == m = FetchBatch
(* ... at the end-of-stream record, or at a success response where the     *)
(* first row was expected ...                                              *)
StreamDone(m, r) ==
    /\ m < FetchBatch
    /\ \/ IsEnd(m + 1, r)
       \/ m = 0 /\ HasBody(1, r) /\ Op(1) = "Response" /\ Contents(1) # "err"
(* ... for want of an op code, or because parse_fetch_response returned an *)
(* error, any error ...                                                    *)
NeedMore(m, r, h) ==
    /\ m < FetchBatch
    /\ \/ ~HasOp(m + 1, r, h)
       \/ Op(m + 1) = "FetchResponse" /\ ~IsEnd(m + 1, r)
(* ... or with an error of its own: another op code, or an error response. *)
Rejected(m, r, h) ==
    /\ ~BatchDone(m) /\ ~StreamDone(m, r) /\ ~NeedMore(m, r, h)

BatchRows(m) == [j \in 1..m |-> stream[base + j].row]

FetchRead ==
    /\ pc = "fetch"
    /\ Read
    /\ \E m \in 0..FetchBatch :
         /\ Leading(m, rd')
         /\ \/ /\ BatchDone(m) \/ StreamDone(m, rd')
               /\ todo' = BatchRows(m)
               /\ todoEof' = StreamDone(m, rd')
               /\ pc' = "convert"
            \/ NeedMore(m, rd', half') /\ UNCHANGED <<todo, todoEof, pc>>
            \/ /\ Rejected(m, rd', half')
               /\ pc' = "failed"
               /\ UNCHANGED <<todo, todoEof>>
    /\ UNCHANGED <<setting, stream, lost, server, segs, stmt>>

-----------------------------------------------------------------------------
(* into_column, and the rest of fetch once every row of the batch is done. *)

Converted == /\ pending' = Append(pending, Head(todo))
             /\ todo' = Tail(todo)

ConvertPlain ==
    /\ pc = "convert" /\ todo # <<>>
    /\ result[Head(todo)] = "plain"
    /\ Converted
    /\ UNCHANGED <<setting, stream, lost, pc, server, socket, todoEof, segs,
                   eof, delivered>>

(* Wrong variants: the queue is popped at its back; eof is not recorded.   *)
PopsBack ==
    /\ pc = "convert" /\ todo = <<>>
    /\ eof' = (eof \/ todoEof)
    /\ IF pending = <<>>
       THEN pc' = "ended" /\ UNCHANGED <<pending, delivered>>
       ELSE /\ delivered' = Append(delivered, pending[Len(pending)])
            /\ pending' = SubSeq(pending, 1, Len(pending) - 1)
            /\ pc' = "idle"
    /\ UNCHANGED <<setting, stream, lost, server, socket, batch>>

ForgetsEof ==
    /\ pc = "convert" /\ todo = <<>>
    /\ IF pending = <<>>
       THEN pc' = "ended" /\ UNCHANGED <<pending, delivered>>
       ELSE /\ delivered' = Append(delivered, Head(pending))
            /\ pending' = Tail(pending)
            /\ pc' = "idle"
    /\ UNCHANGED <<setting, stream, lost, server, socket, batch, eof>>

BatchConverted ==
    /\ pc = "convert" /\ todo = <<>>
    /\ eof' = (eof \/ todoEof)
    /\ IF pending = <<>>
       THEN pc' = "ended" /\ UNCHANGED <<pending, delivered>>
       ELSE /\ delivered' = Append(delivered, Head(pending))
            /\ pending' = Tail(pending)
            /\ pc' = "idle"
    /\ UNCHANGED <<setting, stream, lost, server, socket, batch>>

Request(body) ==
    /\ \/ ~lost /\ Answer(body)
       \/ Unanswered
    /\ base' = rd /\ baseHalf' = half
    /\ UNCHANGED <<setting, lost, rd, half, todo, todoEof, stmt>>

OpenBlob ==
    /\ pc = "convert" /\ todo # <<>>
    /\ result[Head(todo)] \in {"blob", "badblob"}
    /\ Request("ok")
    /\ segs' = 0
    /\ pc' = "open"

GetSegment ==
    /\ pc = "opened" /\ segs < BlobSegments
    /\ Request(IF segs + 1 < BlobSegments THEN "more" ELSE "last")
    /\ segs' = segs + 1
    /\ pc' = "segment"

CloseBlob ==
    /\ pc = "drained"
    /\ Request("ok")
    /\ pc' = "close"
    /\ UNCHANGED segs

(* read_packet takes one read, and another only if that one filled its     *)
(* buffer or, the connection being lost, returns nothing; read_response    *)
(* then wants one whole success response in what was read.                 *)
InPacket == pc \in {"open", "segment", "close"}

PacketFull == 2 * (rd' - rd) + half' - half = ReadBuffer

PacketRead ==
    /\ InPacket
    /\ Read
    /\ "split" \in faults \/ half' = 0
    /\ UNCHANGED <<setting, stream, lost, server, todoEof, segs, eof,
                   delivered>>

PacketGoesOn == PacketRead /\ PacketFull /\ UNCHANGED <<pc, todo, pending>>

PacketEnds ==
    \/ PacketRead /\ ~PacketFull
    \/ /\ InPacket /\ lost
       /\ UNCHANGED <<setting, stream, lost, server, socket, todoEof, segs,
                      eof, delivered>>

Accepted == HasBody(1, rd') /\ Op(1) = "Response" /\ Contents(1) # "err"

BlobOpened ==
    /\ pc = "open"
    /\ PacketEnds /\ Accepted
    /\ pc' = "opened"
    /\ UNCHANGED <<todo, pending>>

(* Wrong variant: the handle of a last segment means that there is more.   *)
StopsBeforeLast ==
    /\ pc = "segment"
    /\ PacketEnds /\ Accepted
    /\ pc' = IF Contents(1) = "last" THEN "opened" ELSE "drained"
    /\ UNCHANGED <<todo, pending>>

SegmentRead ==
    /\ pc = "segment"
    /\ PacketEnds /\ Accepted
    /\ pc' = IF Contents(1) = "last" THEN "drained" ELSE "opened"
    /\ UNCHANGED <<todo, pending>>

BlobClosed ==
    /\ pc = "close"
    /\ PacketEnds /\ Accepted
    /\ IF result[Head(todo)] = "badblob"
       THEN pc' = "failed" /\ UNCHANGED <<todo, pending>>
       ELSE pc' = "convert" /\ Converted

PacketRejected ==
    /\ PacketEnds /\ ~Accepted
    /\ pc' = "failed"
    /\ UNCHANGED <<todo, pending>>

-----------------------------------------------------------------------------
(* What breaks.                                                            *)

ConnectionLost ==
    /\ "lost" \in faults /\ ~lost
    /\ lost' = TRUE
    /\ UNCHANGED <<setting, stream, pc, server, socket, batch, stmt>>

(* A write or a read returns an error, and fetch returns it.               *)
Failed ==
    /\ pc' = "failed"
    /\ UNCHANGED <<setting, stream, lost, server, socket, batch, stmt>>

RequestFails ==
    /\ lost
    /\ \/ pc = "idle" /\ pending = <<>> /\ ~eof
       \/ pc = "convert" /\ todo # <<>> /\ result[Head(todo)] # "plain"
       \/ pc \in {"opened", "drained"}
    /\ Failed

ReadFails == lost /\ (pc = "fetch" \/ InPacket) /\ Failed

(* The socket timeout: at the latest when nothing is left to arrive.       *)
Timeout ==
    /\ pc = "fetch" \/ InPacket
    /\ "timeout" \in faults \/ rd = Len(stream)
    /\ Failed

Finished == pc \in {"ended", "failed"} /\ UNCHANGED vars

-----------------------------------------------------------------------------
Client ==
    \/ FetchPending \/ FetchEof \/ FetchBatchRequest \/ FetchRead
    \/ ConvertPlain \/ BatchConverted
    \/ OpenBlob \/ GetSegment \/ CloseBlob
    \/ PacketGoesOn \/ BlobOpened \/ SegmentRead \/ BlobClosed
    \/ PacketRejected
    \/ RequestFails \/ ReadFails

Next == Client \/ ConnectionLost \/ Timeout \/ Finished

Spec == Init /\ [][Next]_vars

(* What the server has sent reaches the client in the end, and the caller  *)
(* asks for rows until it is told there are none.                          *)
FairSpec == Spec /\ WF_vars(Client)

-----------------------------------------------------------------------------
(* The cursor keeps the promise of RowStream whatever the batch size, the  *)
(* places where TCP cuts the burst and the faults: no row is dropped,      *)
(* repeated or reordered between the server and the caller, and None is    *)
(* returned only when all rows were.                                       *)
Outcome == IF pc = "ended" THEN "end"
           ELSE IF pc = "failed" THEN "error" ELSE "open"

Cursor == INSTANCE RowStream WITH total <- Len(result), outcome <- Outcome

RowStreamSpec == Cursor!Spec

(* Nothing is lost on the way: the rows returned, the rows queued and the  *)
(* rows still to convert are, in this order, the first rows of the result. *)
RowsInOrder ==
    /\ \A i \in 1..Len(delivered) : delivered[i] = i
    /\ \A i \in 1..Len(pending) : pending[i] = Len(delivered) + i
    /\ \A i \in 1..Len(todo) :
         todo[i] = Len(delivered) + Len(pending) + i

(* op_fetch is never sent on a cursor that has reported the end of its     *)
(* stream, which Firebird answers with an error.                           *)
NoFetchPastEnd == [][pc = "idle" /\ pc' = "fetch" => ~srvEnd]_vars

(* A row whose blob was opened joins the batch only with all the segments  *)
(* of the blob.                                                            *)
BlobsComplete == [][pc = "close" /\ pc' = "convert" => segs = BlobSegments]_vars

(* The parser asks for more bytes only while the batch is incomplete: the  *)
(* comment on fetch_batch has it read "until it is complete", and the one  *)
(* on parse_fetch_batch calls NeedMore the outcome of a truncated record.  *)
BatchComplete ==
    /\ baseHalf = 0
    /\ \E j \in 1..(rd - base) :
         \/ stream[base + j].body = "end"
         \/ j = FetchBatch


(* Whatever way a burst is cut, a server that answers every request, and   *)
(* closes a full batch with nothing more, and a connection that lasts      *)
(* bring the caller to the end of the rows, without an error, if each of   *)
(* them can be read.  Not so a server that is "marked": if the record that *)
(* closes a full batch arrives in a later read than the rows, it stands at *)
(* the head of the next batch, parse_sql_response takes it for an error,   *)
(* parse_fetch_batch that for a truncated record, and the client waits.    *)
Readable  == \A i \in DOMAIN result : result[i] \in {"plain", "blob"}

Completes == (faults = {} /\ Readable) => <>(pc = "ended")

-----------------------------------------------------------------------------
(***************************************************************************)
(* Why RowsInOrder is preserved: the inductive invariant.  `Got` counts    *)
(* the rows the client holds or has handed over.  Between two requests it  *)
(* is what the server's cursor has gone past, and at most the record that  *)
(* closed a full batch is unread.  While a batch is read, the records from *)
(* `base` on are the next rows of the result and what closes the batch,    *)
(* unless such a left-over stands first, and then no row is ever taken.    *)
(***************************************************************************)
Got == Len(delivered) + Len(pending) + Len(todo)

Between == pc \in {"idle", "convert", "opened", "drained"}
InBatch == pc \in {"convert", "opened", "drained"} \/ InPacket

IsLeftOver(i) ==
    stream[i].op = "FetchResponse" /\ stream[i].body = "norow"

LeftOverOnly ==
    \/ Len(stream) = rd
    \/ Len(stream) = rd + 1 /\ IsLeftOver(rd + 1)

Misled == baseHalf = 1 \/ (base < Len(stream) /\ IsLeftOver(base + 1))

BatchOf(k) ==
    /\ k \in 0..FetchBatch
    /\ k = FetchBatch => ~srvEnd
    /\ \A j \in 1..k : /\ base + j <= Len(stream)
                       /\ stream[base + j] = RowRecord(Got + j)
    /\ \/ Len(stream) = base + k /\ k \in {0, FetchBatch} /\ ~srvEnd
       \/ /\ Len(stream) = base + k + 1
          /\ \/ k = FetchBatch /\ IsLeftOver(Len(stream))
             \/ /\ k < FetchBatch /\ srvNext = Len(result)
                /\ stream[Len(stream)] = EndRecord
             \/ /\ k < FetchBatch /\ ~srvEnd
                /\ stream[Len(stream)] = Reply("err")

FetchReply == BatchOf(srvNext - Got)

PacketReply ==
    \/ Len(stream) = base
    \/ /\ Len(stream) = base + 1
       /\ stream[base + 1].op = "Response"
       /\ pc = "segment" /\ stream[base + 1].body = "last"
            => segs = BlobSegments

Counted ==
    /\ Got <= Len(result)
    /\ pc \notin {"fetch", "failed"} => srvNext = Got
    /\ eof => Got = Len(result)
    /\ InBatch /\ todoEof => Got = Len(result)
    /\ pc = "ended" => Len(delivered) = Len(result)

Ends ==
    /\ pc \in {"idle", "fetch", "ended"} => todo = <<>>
    /\ pc = "fetch" => pending = <<>> /\ ~eof
    /\ pc \in {"opened", "drained"} \/ InPacket => todo # <<>>
    /\ pc \in {"drained", "close"} => segs = BlobSegments
    /\ srvEnd /\ pc = "idle" => eof
    /\ srvEnd /\ InBatch => todoEof
    /\ InBatch /\ todo = <<>> /\ pending = <<>> => todoEof

IInv ==
    /\ TypeOK
    /\ RowsInOrder
    /\ Counted
    /\ Ends
    /\ Between => LeftOverOnly
    /\ pc = "fetch" => Misled \/ FetchReply
    /\ InPacket => Misled \/ PacketReply

=============================================================================
