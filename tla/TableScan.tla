------------------------------- MODULE TableScan -------------------------------
(***************************************************************************)
(* The scan of one table: FirebirdInitLocal, FirebirdScan and the cursor   *)
(* they own (FirebirdCursor and, below the C interface, fb_cursor_open,    *)
(* fb_cursor_next and fb_cursor_free).                                     *)
(*                                                                         *)
(* DuckDB makes a local state in each thread, calls FirebirdScan for       *)
(* chunk after chunk until one is empty, and destroys the local state: at  *)
(* the end, after an exception, or before the end if nobody wants the rest *)
(* of the rows.  FirebirdGlobalState::MaxThreads asks for one thread; the  *)
(* claim makes the scan right for any number, and that is what is modelled.*)
(*                                                                         *)
(* The rows come from an iterator that promises what RowStream says; each  *)
(* cursor runs the statement anew, so each would see all the rows.         *)
(***************************************************************************)
EXTENDS Naturals, Sequences, FiniteSets

CONSTANTS
    Threads,        \* threads DuckDB runs the scan in
    VectorSize,     \* STANDARD_VECTOR_SIZE
    MaxRows         \* bound: rows of the result

ASSUME ScanAssumption ==
    /\ IsFiniteSet(Threads) /\ Threads # {}
    /\ VectorSize \in Nat \ {0}
    /\ MaxRows \in Nat

VARIABLES
    total,          \* the number of rows of the result
    claimed,        \* FirebirdGlobalState::claimed
    pc,             \* where each thread is
    done,           \* FirebirdLocalState::done
    conn,           \* the boxed connection of the thread's cursor
    iter,           \* the iterator that borrows it
    fetched,        \* rows the iterator has yielded
    output,         \* the rows in the chunk being filled
    rows,           \* the rows DuckDB was given, over all threads
    outcome,        \* of the scan: "open", "end" or "error"
    stopped         \* DuckDB did not want the rest of the rows

cursor  == <<conn, iter, fetched>>
history == <<outcome, stopped>>
vars    == <<total, claimed, pc, done, cursor, output, rows, history>>

Ended == {"finished", "threw", "freeIter", "freeConn", "gone"}

TypeOK ==
    /\ total \in 0..MaxRows
    /\ claimed \in BOOLEAN
    /\ pc \in [Threads -> {"start", "connect", "query", "idle", "fill"}
                          \cup Ended]
    /\ done \in [Threads -> BOOLEAN]
    /\ conn \in [Threads -> {"none", "live", "dropped"}]
    /\ iter \in [Threads -> {"none", "live", "dropped"}]
    /\ fetched \in [Threads -> 0..total]
    /\ output \in [Threads -> Seq(1..total)]
    /\ \A t \in Threads : Len(output[t]) <= VectorSize
    /\ rows \in Seq(1..total)
    /\ outcome \in {"open", "end", "error"}
    /\ stopped \in BOOLEAN

Init ==
    /\ total \in 0..MaxRows
    /\ claimed = FALSE
    /\ pc = [t \in Threads |-> "start"]
    /\ done = [t \in Threads |-> FALSE]
    /\ conn = [t \in Threads |-> "none"]
    /\ iter = [t \in Threads |-> "none"]
    /\ fetched = [t \in Threads |-> 0]
    /\ output = [t \in Threads |-> <<>>]
    /\ rows = <<>>
    /\ outcome = "open"
    /\ stopped = FALSE

Goto(t, l) == pc' = [pc EXCEPT ![t] = l]

Throw(t) ==
    /\ Goto(t, "threw")
    /\ outcome' = "error"
    /\ UNCHANGED stopped

-----------------------------------------------------------------------------
(* FirebirdInitLocal.                                                      *)

(* Wrong variant: the test and the assignment are not one critical section.*)
ClaimUnchecked(t) ==
    /\ pc[t] = "start"
    /\ claimed' = TRUE
    /\ Goto(t, "connect")
    /\ UNCHANGED <<total, done, cursor, output, rows, history>>

Claim(t) ==
    /\ pc[t] = "start"
    /\ ~claimed
    /\ claimed' = TRUE
    /\ Goto(t, "connect")
    /\ UNCHANGED <<total, done, cursor, output, rows, history>>

AlreadyClaimed(t) ==
    /\ pc[t] = "start"
    /\ claimed
    /\ done' = [done EXCEPT ![t] = TRUE]
    /\ Goto(t, "idle")
    /\ UNCHANGED <<total, claimed, cursor, output, rows, history>>

Connect(t) ==
    /\ pc[t] = "connect"
    /\ conn' = [conn EXCEPT ![t] = "live"]
    /\ Goto(t, "query")
    /\ UNCHANGED <<total, claimed, done, iter, fetched, output, rows, history>>

ConnectFails(t) ==
    /\ pc[t] = "connect"
    /\ Throw(t)
    /\ UNCHANGED <<total, claimed, done, cursor, output, rows>>

QueryIter(t) ==
    /\ pc[t] = "query"
    /\ iter' = [iter EXCEPT ![t] = "live"]
    /\ Goto(t, "idle")
    /\ UNCHANGED <<total, claimed, done, conn, fetched, output, rows, history>>

(* Wrong variant: the boxed connection is not reclaimed.                   *)
QueryFailsLeaking(t) ==
    /\ pc[t] = "query"
    /\ Throw(t)
    /\ UNCHANGED <<total, claimed, done, cursor, output, rows>>

QueryFails(t) ==
    /\ pc[t] = "query"
    /\ conn' = [conn EXCEPT ![t] = "dropped"]
    /\ Throw(t)
    /\ UNCHANGED <<total, claimed, done, iter, fetched, output, rows>>

-----------------------------------------------------------------------------
(* FirebirdScan: one call fills one chunk.                                 *)
HasCursor(t) == iter[t] = "live"

CallDone(t) ==
    /\ pc[t] = "idle"
    /\ done[t] \/ ~HasCursor(t)
    /\ Goto(t, "finished")
    /\ UNCHANGED <<total, claimed, done, cursor, output, rows, history>>

Call(t) ==
    /\ pc[t] = "idle"
    /\ ~done[t] /\ HasCursor(t)
    /\ output' = [output EXCEPT ![t] = <<>>]
    /\ Goto(t, "fill")
    /\ UNCHANGED <<total, claimed, done, cursor, rows, history>>

(* Wrong variant: one row more than the vectors hold.                      *)
NextRowTooMany(t) ==
    /\ pc[t] = "fill"
    /\ Len(output[t]) <= VectorSize
    /\ fetched[t] < total
    /\ fetched' = [fetched EXCEPT ![t] = @ + 1]
    /\ output' = [output EXCEPT ![t] = Append(@, fetched[t] + 1)]
    /\ UNCHANGED <<total, claimed, pc, done, conn, iter, rows, history>>

NextRow(t) ==
    /\ pc[t] = "fill"
    /\ Len(output[t]) < VectorSize
    /\ fetched[t] < total
    /\ fetched' = [fetched EXCEPT ![t] = @ + 1]
    /\ output' = [output EXCEPT ![t] = Append(@, fetched[t] + 1)]
    /\ UNCHANGED <<total, claimed, pc, done, conn, iter, rows, history>>

(* output.SetCardinality(out_idx): DuckDB takes the rows, and takes a      *)
(* chunk without any for the end.                                          *)
Emit(t) ==
    /\ rows' = rows \o output[t]
    /\ output' = [output EXCEPT ![t] = <<>>]
    /\ Goto(t, IF output[t] = <<>> THEN "finished" ELSE "idle")

(* Wrong variant: the rows of the last chunk are left out.                 *)
NextEndDropsRows(t) ==
    /\ pc[t] = "fill"
    /\ Len(output[t]) < VectorSize
    /\ fetched[t] = total
    /\ done' = [done EXCEPT ![t] = TRUE]
    /\ output' = [output EXCEPT ![t] = <<>>]
    /\ outcome' = "end"
    /\ Goto(t, "finished")
    /\ UNCHANGED <<total, claimed, cursor, rows, stopped>>

NextEnd(t) ==
    /\ pc[t] = "fill"
    /\ Len(output[t]) < VectorSize
    /\ fetched[t] = total
    /\ done' = [done EXCEPT ![t] = TRUE]
    /\ outcome' = "end"
    /\ Emit(t)
    /\ UNCHANGED <<total, claimed, cursor, stopped>>

NextFails(t) ==
    /\ pc[t] = "fill"
    /\ Len(output[t]) < VectorSize
    /\ Throw(t)
    /\ UNCHANGED <<total, claimed, done, cursor, output, rows>>

(* Wrong variant: off by one, a full chunk is not handed over.             *)
ChunkFullLate(t) ==
    /\ pc[t] = "fill"
    /\ Len(output[t]) > VectorSize
    /\ Emit(t)
    /\ UNCHANGED <<total, claimed, done, cursor, history>>

ChunkFull(t) ==
    /\ pc[t] = "fill"
    /\ Len(output[t]) = VectorSize
    /\ Emit(t)
    /\ UNCHANGED <<total, claimed, done, cursor, history>>

-----------------------------------------------------------------------------
(* DuckDB destroys the local state; the cursor drops its iterator, which   *)
(* frees the statement on the server, and then the connection.             *)
Destroy(t) ==
    /\ pc[t] \in {"idle", "finished", "threw"}
    /\ stopped' = (stopped \/ (pc[t] = "idle" /\ ~done[t]))
    /\ Goto(t, IF HasCursor(t) THEN "freeIter" ELSE "gone")
    /\ UNCHANGED <<total, claimed, done, cursor, output, rows, outcome>>

(* Wrong variant: the fields are dropped in the other order.               *)
FreeConnFirst(t) ==
    /\ pc[t] = "freeIter"
    /\ conn' = [conn EXCEPT ![t] = "dropped"]
    /\ Goto(t, "freeConn")
    /\ UNCHANGED <<total, claimed, done, iter, fetched, output, rows, history>>

FreeIter(t) ==
    /\ pc[t] = "freeIter"
    /\ iter' = [iter EXCEPT ![t] = "dropped"]
    /\ Goto(t, "freeConn")
    /\ UNCHANGED <<total, claimed, done, conn, fetched, output, rows, history>>

FreeConn(t) ==
    /\ pc[t] = "freeConn"
    /\ conn' = [conn EXCEPT ![t] = "dropped"]
    /\ Goto(t, "gone")
    /\ UNCHANGED <<total, claimed, done, iter, fetched, output, rows, history>>

Open(t)  == \/ Claim(t) \/ AlreadyClaimed(t)
            \/ Connect(t) \/ ConnectFails(t)
            \/ QueryIter(t) \/ QueryFails(t)
Scan(t)  == \/ Call(t) \/ CallDone(t)
            \/ NextRow(t) \/ NextEnd(t) \/ NextFails(t) \/ ChunkFull(t)
Free(t)  == FreeIter(t) \/ FreeConn(t)

Next == \E t \in Threads : Open(t) \/ Scan(t) \/ Destroy(t) \/ Free(t)

Spec == Init /\ [][Next]_vars

(* DuckDB goes on calling until a chunk is empty, and destroys every local *)
(* state in the end.                                                       *)
Fairness == \A t \in Threads : WF_vars(Open(t) \/ Scan(t) \/ Free(t))
                            /\ WF_vars(pc[t] \in {"finished", "threw"} /\ Destroy(t))

FairSpec == Spec /\ Fairness

-----------------------------------------------------------------------------
(* The rows of a scan, over all its threads and chunks, are a RowStream:   *)
(* each row once and in order whichever thread claims the scan, the end    *)
(* only after the last one, and nothing after an error.                    *)
Filling == {t \in Threads : output[t] # <<>>}
InHand  == IF Filling = {} THEN <<>> ELSE output[CHOOSE t \in Filling : TRUE]

Stream == INSTANCE RowStream WITH delivered <- rows \o InHand

RowStreamSpec == Stream!Spec

(* If every thread has ended, nothing threw and DuckDB wanted all rows,    *)
(* then it got all rows: a thread that found the scan claimed and reports  *)
(* nothing, or a chunk that is short or exactly full, loses none.          *)
CompleteUnlessCause ==
    (\A t \in Threads : pc[t] \in Ended) =>
        \/ outcome = "error" \/ stopped
        \/ rows = [i \in 1..total |-> i]

(* The iterator borrows the connection by a lifetime that is transmuted    *)
(* away (fb_cursor_open): whatever fails, it never outlives it.            *)
IterInsideConnection ==
    \A t \in Threads : iter[t] = "live" => conn[t] = "live"

(* A thread that is gone has left neither connection nor statement open,   *)
(* also if the cursor failed to open halfway.                              *)
NothingLeaks ==
    \A t \in Threads : pc[t] = "gone" => conn[t] # "live" /\ iter[t] # "live"

(* Every thread of a scan ends, however the rows fall on chunks.           *)
ScanEnds == \A t \in Threads : <>(pc[t] = "gone")

-----------------------------------------------------------------------------
(* The inductive invariant.  The thread that claimed the scan is the only  *)
(* one that ever has a cursor, and what it has fetched is what DuckDB was  *)
(* given with what is in its chunk.                                        *)
FirstRows(n) == [i \in 1..n |-> i]

Owns(t)    == pc[t] \in {"connect", "query"} \/ iter[t] # "none"
Reading(t) == pc[t] \in {"connect", "query", "fill"}
                  \/ (pc[t] = "idle" /\ HasCursor(t) /\ ~done[t])

OneOwner ==
    /\ \A t, u \in Threads : (Owns(t) /\ Owns(u)) => t = u
    /\ ~claimed => outcome = "open" /\ (\A t \in Threads : pc[t] = "start")
    /\ (claimed /\ \A t \in Threads : ~Owns(t)) => outcome = "error"

(* Which of its resources a thread has at each place.                      *)
Resources(t) ==
    /\ pc[t] \in {"start", "connect"} => conn[t] = "none" /\ iter[t] = "none"
    /\ pc[t] = "query" => conn[t] = "live" /\ iter[t] = "none"
    /\ pc[t] \in {"fill", "freeIter"} => iter[t] = "live"
    /\ pc[t] \in {"freeConn", "gone"} => iter[t] # "live"
    /\ iter[t] = "dropped" => pc[t] \in {"freeConn", "gone"}
    /\ iter[t] = "live" => conn[t] = "live"
    /\ conn[t] = "live" =>
           pc[t] \in {"query", "freeConn"} \/ iter[t] = "live"

(* Which rows are where.                                                   *)
Accounted(t) ==
    /\ pc[t] = "idle" => output[t] = <<>>
    /\ iter[t] = "none" => fetched[t] = 0 /\ output[t] = <<>>
    /\ iter[t] # "none" => rows \o output[t] = FirstRows(fetched[t])

(* How the scan ends.                                                      *)
EndsWell(t) ==
    /\ pc[t] = "start" => ~done[t]
    /\ Reading(t) => outcome = "open" /\ ~done[t]
    /\ (iter[t] # "none" /\ done[t]) => outcome = "end"
    /\ (iter[t] # "none" /\ outcome = "end") =>
           fetched[t] = total /\ output[t] = <<>>
    /\ (iter[t] # "none" /\ pc[t] \in Ended) => outcome # "open" \/ stopped

IInv ==
    /\ TypeOK
    /\ OneOwner
    /\ (\A t \in Threads : iter[t] = "none") => rows = <<>>
    /\ \A t \in Threads : Resources(t) /\ Accounted(t) /\ EndsWell(t)
=============================================================================
