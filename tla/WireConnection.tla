----------------------------- MODULE WireConnection -----------------------------
(***************************************************************************)
(* Requests and replies on one connection: which reply an operation of     *)
(* FirebirdWireConnection takes for its own.  Replies carry no number, so  *)
(* what tells them apart is their order and lazy_count, the number of      *)
(* replies still owed to free_statement, which does not wait for its own.  *)
(* One statement is prepared, executed, fetched from and freed, the way    *)
(* the connection above drives its client; what a fetch does with its      *)
(* reply is the subject of WireFetch.                                      *)
(*                                                                         *)
(* A request is numbered, and its reply is one record that holds the       *)
(* number.  An operation that waits gets, with one read_packet, what has   *)
(* arrived: normally every reply owed, with the fault "split" less, and    *)
(* then perhaps only the first words of the last of them.  What it does    *)
(* not use of it is dropped.                                               *)
(***************************************************************************)
EXTENDS Integers, Sequences

CONSTANTS
    MaxRequests,    \* bound: requests on the connection
    Faults          \* "split", "timeout", "server": an error as the answer,
                    \* "free": an error as the answer to free_statement

ASSUME ConnectionAssumption ==
    /\ MaxRequests \in Nat
    /\ Faults \subseteq {"split", "timeout", "server", "free"}

VARIABLES
    requests,       \* requests sent
    inbox,          \* replies sent and not read
    lazy_count,     \* replies to free_statement the client thinks it is owed
    pc,             \* the operation that waits for its reply, "idle", or
                    \* "closed": the connection was dropped
    own,            \* the requests it made and has no reply to
    transaction,    \* a transaction has been started
    stmt,           \* the statement: "none", "prepared" or "open"
    disturbed,      \* a reply came late, in pieces, or said that a free failed
    failed,         \* an operation failed over its replies, and not just
                    \* because the server refused it and all were read
    misread         \* an operation took another's reply for its own

socket == <<requests, inbox, lazy_count>>
handles == <<transaction, stmt>>
history == <<disturbed, failed, misread>>
vars   == <<socket, pc, own, handles, history>>

Kind  == {"Response", "rows"}
Part  == {"whole", "head", "tail"}
Reply == [request : Nat, kind : Kind, err : BOOLEAN, part : Part]

Waiting == {"begin", "end", "prepare", "truncated", "describe", "execute",
            "executed", "info", "fetch", "detach"}

TypeOK ==
    /\ requests \in Nat
    /\ inbox \in Seq(Reply)
    /\ lazy_count \in Nat
    /\ pc \in Waiting \cup {"idle", "closed"}
    /\ own \in Seq(1..requests)
    /\ transaction \in BOOLEAN
    /\ stmt \in {"none", "prepared", "open"}
    /\ disturbed \in BOOLEAN /\ failed \in BOOLEAN /\ misread \in BOOLEAN

Init ==
    /\ requests = 0 /\ inbox = <<>> /\ lazy_count = 0
    /\ pc = "idle" /\ own = <<>>
    /\ transaction = FALSE /\ stmt = "none"
    /\ disturbed = FALSE /\ failed = FALSE /\ misread = FALSE

-----------------------------------------------------------------------------
(* Requests.  The server answers each at once, in order.                   *)
Answer(request, kind, err) ==
    [request |-> request, kind |-> IF err THEN "Response" ELSE kind,
     err |-> err, part |-> "whole"]

MayErr(fault) == {FALSE} \cup {b \in {TRUE} : fault \in Faults}

Write(op, kind) ==
    /\ requests' = requests + 1
    /\ own' = <<requests + 1>>
    /\ \E err \in MayErr("server") :
         inbox' = Append(inbox, Answer(requests + 1, kind, err))
    /\ pc' = op

Send(op, kind) ==
    /\ pc = "idle" /\ requests < MaxRequests
    /\ Write(op, kind)
    /\ UNCHANGED <<lazy_count, handles, history>>

Begin   == ~transaction /\ Send("begin", "Response")

(* A transaction is committed or rolled back when its cursor is closed.    *)
End     == transaction /\ stmt # "open" /\ Send("end", "Response")
Execute == transaction /\ stmt = "prepared" /\ Send("execute", "Response")
Fetch   == stmt = "open" /\ Send("fetch", "rows")

(* A connection that is dropped detaches from the database first, whatever *)
(* became of its transaction; its cursor was closed before.                *)
Detach  == stmt # "open" /\ Send("detach", "Response")

(* Allocate and prepare are sent together.                                 *)
Prepare ==
    /\ pc = "idle" /\ requests < MaxRequests
    /\ transaction /\ stmt = "none"
    /\ requests' = requests + 2
    /\ own' = <<requests + 1, requests + 2>>
    /\ \E e1, e2 \in MayErr("server") :
         /\ e1 => e2
         /\ inbox' = inbox \o <<Answer(requests + 1, "Response", e1),
                                Answer(requests + 2, "Response", e2)>>
    /\ pc' = "prepare"
    /\ UNCHANGED <<lazy_count, handles, history>>

(* Wrong variant: the reply that is owed is not counted.                   *)
FreesUncounted ==
    /\ pc = "idle" /\ requests < MaxRequests
    /\ \/ stmt = "open" /\ stmt' = "prepared"
       \/ stmt # "none" /\ stmt' = "none"
    /\ requests' = requests + 1
    /\ \E err \in MayErr("free") :
         /\ inbox' = Append(inbox, Answer(requests + 1, "Response", err))
         /\ disturbed' = (disturbed \/ err)
    /\ UNCHANGED <<pc, own, lazy_count, transaction, failed, misread>>

(* free_statement writes and returns: a cursor is closed, or a statement   *)
(* dropped.                                                                *)
FreeStatement ==
    /\ pc = "idle" /\ requests < MaxRequests
    /\ \/ stmt = "open" /\ stmt' = "prepared"
       \/ stmt # "none" /\ stmt' = "none"
    /\ requests' = requests + 1
    /\ \E err \in MayErr("free") :
         /\ inbox' = Append(inbox, Answer(requests + 1, "Response", err))
         /\ disturbed' = (disturbed \/ err)
    /\ lazy_count' = lazy_count + 1
    /\ UNCHANGED <<pc, own, transaction, failed, misread>>

-----------------------------------------------------------------------------
(* What a read returns: the replies that were sent, or with "split" the    *)
(* first of them, of which the last may be cut after its op code.          *)
Part1(r) == [r EXCEPT !.part = "head"]
Part2(r) == [r EXCEPT !.part = "tail"]

Arrives(packet, left) ==
    \/ packet = inbox /\ left = <<>>
    \/ /\ "split" \in Faults
       /\ \E k \in 1..Len(inbox) :
            \/ /\ packet = SubSeq(inbox, 1, k)
               /\ left = SubSeq(inbox, k + 1, Len(inbox))
            \/ /\ inbox[k].part = "whole"
               /\ packet = Append(SubSeq(inbox, 1, k - 1), Part1(inbox[k]))
               /\ left = <<Part2(inbox[k])>> \o SubSeq(inbox, k + 1, Len(inbox))

Packets == {SubSeq(inbox, 1, k) : k \in 1..Len(inbox)}
             \cup {Append(SubSeq(inbox, 1, k - 1), Part1(inbox[k])) :
                     k \in 1..Len(inbox)}

Receive(packet) ==
    /\ Arrives(packet, inbox')
    /\ disturbed' = (disturbed \/ inbox' # <<>>)
    /\ UNCHANGED requests

(* parse_response returns Ok for record i of a packet.                     *)
IsResponse(packet, i) ==
    i <= Len(packet) /\ packet[i].kind = "Response" /\ packet[i].part # "tail"
Parses(packet, i) ==
    IsResponse(packet, i) /\ packet[i].part = "whole" /\ ~packet[i].err

(* The leading records of a packet for which it does, n in all.            *)
Leading(packet, n) ==
    /\ n \in 0..Len(packet)
    /\ \A i \in 1..n : Parses(packet, i)
    /\ ~Parses(packet, n + 1)

(* Wrong variant: the lazy responses that were read are not counted off.   *)
LazyStillCounted(op) ==
    /\ pc = op
    /\ \E packet \in Packets, n \in 0..Len(inbox) :
         /\ Leading(packet, n) /\ Receive(packet)
         /\ n >= lazy_count + Len(own)
         /\ misread' = (misread \/ \E i \in 1..Len(own) :
                                     packet[lazy_count + i].request # own[i])
    /\ own' = <<>>
    /\ UNCHANGED <<lazy_count, failed>>

(* An operation succeeds when its lazy responses and its own parse; the    *)
(* rest of the packet is dropped with the buffer.                          *)
ReplyTaken(op) ==
    /\ pc = op
    /\ \E packet \in Packets, n \in 0..Len(inbox) :
         /\ Leading(packet, n) /\ Receive(packet)
         /\ n >= lazy_count + Len(own)
         /\ misread' = (misread \/ \E i \in 1..Len(own) :
                                     packet[lazy_count + i].request # own[i])
    /\ lazy_count' = 0 /\ own' = <<>>
    /\ UNCHANGED failed

(* Otherwise it fails.  The loop over the lazy responses has counted off   *)
(* those before the record it fails at, and that one if it is a response.  *)
(* That record may be the server's refusal of what the operation asked.    *)
Refusal(packet, i, j) ==
    /\ IsResponse(packet, i) /\ packet[i].part = "whole"
    /\ packet[i].request = own[j]

CountedOff(packet, n) == IF IsResponse(packet, n + 1) THEN n + 1 ELSE n

(* Wrong variant: the operation's own reply is counted off as well.        *)
OwnCountedOff(packet, n) == lazy_count - CountedOff(packet, n)

StillOwed(packet, n) ==
    IF CountedOff(packet, n) < lazy_count
    THEN lazy_count - CountedOff(packet, n) ELSE 0

(* The error of a detach is dropped, with the connection.                  *)
AfterFailure == IF pc = "detach" THEN "closed" ELSE "idle"

ReplyFails ==
    /\ pc \in Waiting \ {"truncated", "executed", "fetch"}
    /\ \E packet \in Packets, n \in 0..Len(inbox) :
         /\ Leading(packet, n) /\ Receive(packet)
         /\ n < lazy_count + Len(own)
         /\ lazy_count' = StillOwed(packet, n)
         /\ failed' = (failed \/ inbox' # <<>>
                         \/ ~\E j \in 1..Len(own) :
                              /\ n + 1 = lazy_count + j
                              /\ Refusal(packet, n + 1, j))
    /\ pc' = AfterFailure /\ own' = <<>>
    /\ UNCHANGED <<handles, misread>>

Begun == ReplyTaken("begin") /\ pc' = "idle" /\ transaction' = TRUE
           /\ UNCHANGED stmt
Ended == ReplyTaken("end") /\ pc' = "idle" /\ transaction' = FALSE
           /\ UNCHANGED stmt
Detached == ReplyTaken("detach") /\ pc' = "closed" /\ UNCHANGED handles

(* The description of the columns may be truncated, and it may hold a type *)
(* that coerce refuses: then prepare ends with an error after it has read  *)
(* every reply (failed says nothing of it), and the statement is left      *)
(* behind on the server.                                                   *)
Prepared ==
    /\ ReplyTaken("prepare") \/ ReplyTaken("describe")
    /\ \/ pc' = "truncated" /\ requests < MaxRequests /\ UNCHANGED stmt
       \/ pc' = "idle" /\ stmt' \in {stmt, "prepared"}
    /\ UNCHANGED transaction

Describe ==
    /\ pc = "truncated"
    /\ Write("describe", "Response")
    /\ UNCHANGED <<lazy_count, handles, history>>

(* execute asks for the number of affected rows before it returns.         *)
Executed == ReplyTaken("execute") /\ pc' = "executed" /\ UNCHANGED handles

AskInfo ==
    /\ pc = "executed"
    /\ Write("info", "Response")
    /\ UNCHANGED <<lazy_count, handles, history>>

InfoTaken == ReplyTaken("info") /\ pc' = "idle" /\ stmt' = "open"
               /\ UNCHANGED transaction

(* fetch_batch reads until the rows are whole (see WireFetch), and takes a *)
(* success response for an empty result.  No reply is owed to a free here. *)
FetchEnds ==
    /\ pc = "fetch"
    /\ pc' = "idle" /\ own' = <<>>
    /\ UNCHANGED <<lazy_count, handles>>

FetchTaken ==
    /\ FetchEnds
    /\ \E packet \in Packets :
         /\ Receive(packet)
         /\ \/ packet[1].kind = "rows" /\ packet[1].part = "whole"
            \/ Parses(packet, 1)
         /\ misread' = (misread \/ packet[1].request # own[1])
    /\ UNCHANGED failed

(* Wrong variant: what is not a row is waited for to become one.           *)
FetchWaits ==
    /\ FetchEnds
    /\ \E packet \in Packets :
         /\ Receive(packet)
         /\ packet[1].part = "tail"
         /\ failed' = TRUE
    /\ UNCHANGED misread

FetchFails ==
    /\ FetchEnds
    /\ \E packet \in Packets :
         /\ Receive(packet)
         /\ packet[1].kind = "Response" \/ packet[1].part = "tail"
         /\ ~Parses(packet, 1)
         /\ failed' = (failed \/ inbox' # <<>> \/ ~Refusal(packet, 1, 1))
    /\ UNCHANGED misread

(* The socket timeout expires before anything has arrived.                 *)
Timeout ==
    /\ "timeout" \in Faults /\ own # <<>>
    /\ pc' = AfterFailure /\ own' = <<>>
    /\ disturbed' = TRUE /\ failed' = TRUE
    /\ UNCHANGED <<socket, handles, misread>>

-----------------------------------------------------------------------------
Call == Begin \/ End \/ Prepare \/ Execute \/ Fetch \/ FreeStatement \/ Detach

Go ==
    \/ Begun \/ Ended \/ Detached \/ Prepared \/ Describe \/ Executed
    \/ AskInfo \/ InfoTaken \/ ReplyFails \/ FetchTaken \/ FetchFails

Next == Call \/ Go \/ Timeout

Spec == Init /\ [][Next]_vars

(* An operation that was started goes on when what it waits for arrives.   *)
FairSpec == Spec /\ WF_vars(Go)

-----------------------------------------------------------------------------
(* An operation fails over its replies only because the server refused it, *)
(* unless a reply came late or in pieces or the server refused a free.     *)
(* That prepare gives up a statement with a column of a type that the      *)
(* client does not support, all its replies read, is not counted.          *)
FailsOnlyIfDisturbed == failed => disturbed

(* However replies come, an operation takes another's reply for its own    *)
(* only after some operation on the connection has failed: the stream of   *)
(* replies is never shifted in silence.                                    *)
MisreadOnlyAfterFailure == misread => failed

(* A fetch starts with no reply owed to a free: the execute before it has  *)
(* read them all.                                                          *)
FetchOwedNothing == pc = "fetch" => lazy_count = 0

(* While nothing has failed, what is unread is exactly what is owed: the   *)
(* replies to the frees, then those to the operation that waits.           *)
Owed ==
    ~failed =>
        /\ Len(inbox) = lazy_count + Len(own)
        /\ \A i \in 1..Len(inbox) :
             inbox[i].part = "whole" /\ (pc # "fetch" => inbox[i].kind = "Response")
        /\ \A i \in 1..Len(own) : inbox[lazy_count + i].request = own[i]

(* Every operation returns, the detach of a dropped connection too.        *)
OperationsReturn == pc \in Waiting ~> pc \in {"idle", "closed"}

(* Why they hold: together with these two, the invariants are inductive.   *)
Shape ==
    /\ pc \in {"idle", "closed", "truncated", "executed"} <=> own = <<>>
    /\ pc = "fetch" => stmt = "open" /\ Len(own) = 1
    /\ stmt = "open" => lazy_count = 0

Undisturbed ==
    ~disturbed => \A i \in 1..Len(inbox) : inbox[i].err => i > lazy_count

IInv ==
    /\ TypeOK
    /\ Shape
    /\ Owed
    /\ Undisturbed
    /\ FailsOnlyIfDisturbed
    /\ MisreadOnlyAfterFailure
=================================================================================
