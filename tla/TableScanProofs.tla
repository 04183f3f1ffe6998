---------------------------- MODULE TableScanProofs ----------------------------
(***************************************************************************)
(* That TableScan keeps IInv, and with it what the scan promises, for any  *)
(* number of threads, size of the vectors and number of rows.  There is    *)
(* one lemma per action.                                                   *)
(***************************************************************************)
EXTENDS TableScan, SequenceTheorems, TLAPS

USE DEF cursor, history, Goto, Ended

-----------------------------------------------------------------------------
(* Facts about sequences.                                                  *)

LEMMA FirstRowsNext ==
  ASSUME NEW n \in Nat
  PROVE  FirstRows(n + 1) = Append(FirstRows(n), n + 1)
BY DEF FirstRows

LEMMA FirstRowsLen ==
  ASSUME NEW n \in Nat
  PROVE  FirstRows(n) \in Seq(Nat) /\ Len(FirstRows(n)) = n
<1>1. FirstRows(n) \in [1..n -> Nat]
  BY DEF FirstRows
<1>. QED BY <1>1

LEMMA ConcatAppend ==
  ASSUME NEW S, NEW r \in Seq(S), NEW o \in Seq(S), NEW x \in S
  PROVE  r \o Append(o, x) = Append(r \o o, x)
OBVIOUS

LEMMA ConcatEmpty ==
  ASSUME NEW S, NEW r \in Seq(S)
  PROVE  r \o <<>> = r /\ <<>> \o r = r
OBVIOUS

-----------------------------------------------------------------------------
LEMMA InitInv == Init => IInv
<1> SUFFICES ASSUME Init PROVE IInv
  OBVIOUS
<1> USE DEF Init
<1>1. TypeOK
  <2>1. rows \in Seq(1..total) /\ \A t \in Threads : Len(output[t]) = 0
    OBVIOUS
  <2>2. output \in [Threads -> Seq(1..total)] /\ fetched \in [Threads -> 0..total]
    BY ScanAssumption DEF ScanAssumption
  <2>3. VectorSize \in Nat
    BY ScanAssumption DEF ScanAssumption
  <2>4. claimed \in BOOLEAN /\ stopped \in BOOLEAN
    BY Zenon
  <2>5. done \in [Threads -> BOOLEAN]
    BY Zenon
  <2>. QED BY <2>1, <2>2, <2>3, <2>4, <2>5 DEF TypeOK
<1>2. OneOwner
  BY ScanAssumption DEF OneOwner, Owns, ScanAssumption
<1>3. ASSUME NEW t \in Threads
      PROVE  Resources(t) /\ Accounted(t) /\ EndsWell(t)
  BY <1>1 DEF Resources, Accounted, EndsWell, Reading, HasCursor
<1>. QED BY <1>1, <1>2, <1>3 DEF IInv

LEMMA ClaimInv ==
  ASSUME NEW t \in Threads, IInv, Claim(t)
  PROVE  IInv'
<1> USE DEF IInv, TypeOK, Claim
<1>1. TypeOK'
  OBVIOUS
<1>2. OneOwner'
  BY DEF OneOwner, Owns, Resources, EndsWell, Reading
<1>3. ASSUME NEW u \in Threads
      PROVE  Resources(u)' /\ Accounted(u)' /\ EndsWell(u)'
  <2>1. Resources(u)'
    BY DEF Resources, HasCursor
  <2>2. Accounted(u)'
    BY DEF Resources, Accounted
  <2>3. EndsWell(u)'
    BY DEF Resources, Accounted, EndsWell, Reading, HasCursor, OneOwner, Owns
  <2>. QED BY <2>1, <2>2, <2>3
<1>4. (\A u \in Threads : iter'[u] = "none") => rows' = <<>>
  BY DEF Resources
<1>. QED BY <1>1, <1>2, <1>3, <1>4

LEMMA AlreadyClaimedInv ==
  ASSUME NEW t \in Threads, IInv, AlreadyClaimed(t)
  PROVE  IInv'
<1> USE DEF IInv, TypeOK, AlreadyClaimed
<1>1. TypeOK'
  OBVIOUS
<1>2. OneOwner'
  BY DEF OneOwner, Owns, Resources, EndsWell, Reading
<1>3. ASSUME NEW u \in Threads
      PROVE  Resources(u)' /\ Accounted(u)' /\ EndsWell(u)'
  <2>1. Resources(u)'
    BY DEF Resources, HasCursor
  <2>2. Accounted(u)'
    BY DEF Resources, Accounted
  <2>3. EndsWell(u)'
    BY DEF Resources, Accounted, EndsWell, Reading, HasCursor, OneOwner, Owns
  <2>. QED BY <2>1, <2>2, <2>3
<1>4. (\A u \in Threads : iter'[u] = "none") => rows' = <<>>
  BY DEF Resources
<1>. QED BY <1>1, <1>2, <1>3, <1>4

LEMMA ConnectInv ==
  ASSUME NEW t \in Threads, IInv, Connect(t)
  PROVE  IInv'
<1> USE DEF IInv, TypeOK, Connect
<1>1. TypeOK'
  OBVIOUS
<1>2. OneOwner'
  BY DEF OneOwner, Owns, Resources, EndsWell, Reading
<1>3. ASSUME NEW u \in Threads
      PROVE  Resources(u)' /\ Accounted(u)' /\ EndsWell(u)'
  <2>1. Resources(u)'
    BY DEF Resources, HasCursor
  <2>2. Accounted(u)'
    BY DEF Resources, Accounted
  <2>3. EndsWell(u)'
    BY DEF Resources, Accounted, EndsWell, Reading, HasCursor, OneOwner, Owns
  <2>. QED BY <2>1, <2>2, <2>3
<1>4. (\A u \in Threads : iter'[u] = "none") => rows' = <<>>
  BY DEF Resources
<1>. QED BY <1>1, <1>2, <1>3, <1>4

LEMMA ConnectFailsInv ==
  ASSUME NEW t \in Threads, IInv, ConnectFails(t)
  PROVE  IInv'
<1> USE DEF IInv, TypeOK, ConnectFails, Throw
<1>1. TypeOK'
  OBVIOUS
<1>2. OneOwner'
  BY DEF OneOwner, Owns, Resources, EndsWell, Reading
<1>3. ASSUME NEW u \in Threads
      PROVE  Resources(u)' /\ Accounted(u)' /\ EndsWell(u)'
  <2>1. Resources(u)'
    BY DEF Resources, HasCursor
  <2>2. Accounted(u)'
    BY DEF Resources, Accounted
  <2>3. EndsWell(u)'
    BY DEF Resources, Accounted, EndsWell, Reading, HasCursor, OneOwner, Owns
  <2>. QED BY <2>1, <2>2, <2>3
<1>4. (\A u \in Threads : iter'[u] = "none") => rows' = <<>>
  BY DEF Resources
<1>. QED BY <1>1, <1>2, <1>3, <1>4

LEMMA QueryIterInv ==
  ASSUME NEW t \in Threads, IInv, QueryIter(t)
  PROVE  IInv'
<1> USE DEF IInv, TypeOK, QueryIter
<1>1. TypeOK'
  OBVIOUS
<1>2. OneOwner'
  BY DEF OneOwner, Owns, Resources, EndsWell, Reading
<1>3. ASSUME NEW u \in Threads
      PROVE  Resources(u)' /\ Accounted(u)' /\ EndsWell(u)'
  <2>1. Resources(u)'
    BY DEF Resources, HasCursor
  <2>2. Accounted(u)'
    <3>1. u # t => iter[u] = "none"
      BY DEF OneOwner, Owns
    <3>2. rows = <<>>
      BY <3>1 DEF OneOwner, Owns, Resources
    <3>3. rows \o output[t] = FirstRows(0)
      BY <3>2 DEF Resources, Accounted, FirstRows
    <3>. QED BY <3>1, <3>3 DEF Resources, Accounted
  <2>3. EndsWell(u)'
    BY DEF Resources, Accounted, EndsWell, Reading, HasCursor, OneOwner, Owns
  <2>. QED BY <2>1, <2>2, <2>3
<1>4. (\A u \in Threads : iter'[u] = "none") => rows' = <<>>
  BY DEF Resources
<1>. QED BY <1>1, <1>2, <1>3, <1>4

LEMMA QueryFailsInv ==
  ASSUME NEW t \in Threads, IInv, QueryFails(t)
  PROVE  IInv'
<1> USE DEF IInv, TypeOK, QueryFails, Throw
<1>1. TypeOK'
  OBVIOUS
<1>2. OneOwner'
  BY DEF OneOwner, Owns, Resources, EndsWell, Reading
<1>3. ASSUME NEW u \in Threads
      PROVE  Resources(u)' /\ Accounted(u)' /\ EndsWell(u)'
  <2>1. Resources(u)'
    BY DEF Resources, HasCursor
  <2>2. Accounted(u)'
    BY DEF Resources, Accounted
  <2>3. EndsWell(u)'
    BY DEF Resources, Accounted, EndsWell, Reading, HasCursor, OneOwner, Owns
  <2>. QED BY <2>1, <2>2, <2>3
<1>4. (\A u \in Threads : iter'[u] = "none") => rows' = <<>>
  BY DEF Resources
<1>. QED BY <1>1, <1>2, <1>3, <1>4

-----------------------------------------------------------------------------
LEMMA CallDoneInv ==
  ASSUME NEW t \in Threads, IInv, CallDone(t)
  PROVE  IInv'
<1> USE DEF IInv, TypeOK, CallDone
<1>1. TypeOK'
  OBVIOUS
<1>2. OneOwner'
  BY DEF OneOwner, Owns, Resources, EndsWell, Reading
<1>3. ASSUME NEW u \in Threads
      PROVE  Resources(u)' /\ Accounted(u)' /\ EndsWell(u)'
  <2>1. Resources(u)'
    BY DEF Resources, HasCursor
  <2>2. Accounted(u)'
    BY DEF Resources, Accounted
  <2>3. EndsWell(u)'
    BY DEF Resources, Accounted, EndsWell, Reading, HasCursor, OneOwner, Owns
  <2>. QED BY <2>1, <2>2, <2>3
<1>4. (\A u \in Threads : iter'[u] = "none") => rows' = <<>>
  BY DEF Resources
<1>. QED BY <1>1, <1>2, <1>3, <1>4

LEMMA CallInv ==
  ASSUME NEW t \in Threads, IInv, Call(t)
  PROVE  IInv'
<1> USE DEF IInv, TypeOK, Call
<1>1. TypeOK'
  <2>1. output' \in [Threads -> Seq(1..total)] /\ Len(output'[t]) = 0
    OBVIOUS
  <2>2. \A u \in Threads : Len(output'[u]) <= VectorSize
    BY <2>1, ScanAssumption DEF ScanAssumption
  <2>. QED BY <2>1, <2>2
<1>2. OneOwner'
  BY DEF OneOwner, Owns, Resources, EndsWell, Reading
<1>3. ASSUME NEW u \in Threads
      PROVE  Resources(u)' /\ Accounted(u)' /\ EndsWell(u)'
  <2>1. Resources(u)'
    BY DEF Resources, HasCursor
  <2>2. Accounted(u)'
    BY DEF Resources, Accounted
  <2>3. EndsWell(u)'
    BY DEF Resources, Accounted, EndsWell, Reading, HasCursor, OneOwner, Owns
  <2>. QED BY <2>1, <2>2, <2>3
<1>4. (\A u \in Threads : iter'[u] = "none") => rows' = <<>>
  BY DEF Resources
<1>. QED BY <1>1, <1>2, <1>3, <1>4

LEMMA NextRowInv ==
  ASSUME NEW t \in Threads, IInv, NextRow(t)
  PROVE  IInv'
<1> USE DEF IInv, TypeOK, NextRow
<1>1. /\ fetched[t] \in Nat /\ fetched[t] + 1 \in 1..total
      /\ rows \in Seq(1..total) /\ output[t] \in Seq(1..total)
  OBVIOUS
<1>2. /\ output'[t] = Append(output[t], fetched[t] + 1)
      /\ fetched'[t] = fetched[t] + 1
      /\ \A u \in Threads : u # t => output'[u] = output[u] /\ fetched'[u] = fetched[u]
  OBVIOUS
<1>3. TypeOK'
  <2>1. output' \in [Threads -> Seq(1..total)] /\ fetched' \in [Threads -> 0..total]
    BY <1>1
  <2>2. Len(output'[t]) = Len(output[t]) + 1
    BY <1>1, <1>2
  <2>3. \A u \in Threads : Len(output'[u]) <= VectorSize
    BY <1>1, <1>2, <2>2, ScanAssumption DEF ScanAssumption
  <2>. QED BY <2>1, <2>3
<1>4. iter[t] = "live" /\ \A u \in Threads : u # t => iter[u] = "none"
  BY DEF Resources, OneOwner, Owns
<1>5. rows \o output'[t] = FirstRows(fetched'[t])
  <2>1. rows \o output[t] = FirstRows(fetched[t])
    BY <1>4 DEF Accounted
  <2>2. rows \o output'[t] = Append(rows \o output[t], fetched[t] + 1)
    <3>1. rows \o Append(output[t], fetched[t] + 1)
            = Append(rows \o output[t], fetched[t] + 1)
      <4>. DEFINE S == 1..total  r == rows  o == output[t]  x == fetched[t] + 1
      <4>1. r \in Seq(S) /\ o \in Seq(S) /\ x \in S
        BY <1>1
      <4>. HIDE DEF S, r, o, x
      <4>2. r \o Append(o, x) = Append(r \o o, x)
        BY ONLY <4>1, ConcatAppend
      <4>. QED BY ONLY <4>2 DEF r, o, x
    <3>. QED BY ONLY <3>1, <1>2, Zenon
  <2>. QED BY <1>1, <1>2, <2>1, <2>2, FirstRowsNext
<1>6. OneOwner'
  BY DEF OneOwner, Owns
<1>7. ASSUME NEW u \in Threads
      PROVE  Resources(u)' /\ Accounted(u)' /\ EndsWell(u)'
  <2>1. Resources(u)'
    BY DEF Resources
  <2>2. Accounted(u)'
    BY <1>2, <1>4, <1>5 DEF Accounted
  <2>3. EndsWell(u)'
    BY <1>2, <1>4 DEF EndsWell, Reading, HasCursor
  <2>. QED BY <2>1, <2>2, <2>3
<1>. QED BY <1>3, <1>4, <1>6, <1>7

(* What is handed over with a chunk stays the first rows.                  *)
LEMMA EmitKeeps ==
  ASSUME NEW t \in Threads, IInv, pc[t] = "fill", Emit(t),
         UNCHANGED <<total, claimed, cursor>>
  PROVE  /\ rows' \in Seq(1..total') /\ output' \in [Threads -> Seq(1..total')]
         /\ \A u \in Threads : Len(output'[u]) <= VectorSize
         /\ \A u \in Threads : u # t => iter[u] = "none"
         /\ iter[t] = "live"
         /\ \A u \in Threads : Accounted(u)'
         /\ output'[t] = <<>>
<1> USE DEF IInv, TypeOK, Emit
<1>1. rows \in Seq(1..total) /\ output[t] \in Seq(1..total)
  OBVIOUS
<1>2. rows' \in Seq(1..total) /\ rows' = rows \o output[t]
  BY <1>1
<1>3. /\ output' \in [Threads -> Seq(1..total)] /\ output'[t] = <<>>
      /\ \A u \in Threads : u # t => output'[u] = output[u]
  OBVIOUS
<1>4. \A u \in Threads : Len(output'[u]) <= VectorSize
  <2>1. Len(output'[t]) = 0
    BY <1>3
  <2>. QED BY <1>3, <2>1, ScanAssumption DEF ScanAssumption
<1>5. iter[t] = "live" /\ \A u \in Threads : u # t => iter[u] = "none"
  BY DEF Resources, OneOwner, Owns
<1>6. rows' \o output'[t] = FirstRows(fetched'[t])
  <2>1. rows \o output[t] = FirstRows(fetched[t])
    BY <1>5 DEF Accounted
  <2>2. rows' \o <<>> = rows'
    BY <1>2, ConcatEmpty
  <2>. QED BY <1>2, <1>3, <2>1, <2>2
<1>7. ASSUME NEW u \in Threads PROVE Accounted(u)'
  BY <1>3, <1>5, <1>6 DEF Accounted
<1>. QED BY <1>2, <1>3, <1>4, <1>5, <1>7

LEMMA NextEndInv ==
  ASSUME NEW t \in Threads, IInv, NextEnd(t)
  PROVE  IInv'
<1> USE DEF IInv, TypeOK, NextEnd
<1>1. /\ rows' \in Seq(1..total') /\ output' \in [Threads -> Seq(1..total')]
      /\ \A u \in Threads : Len(output'[u]) <= VectorSize
      /\ \A u \in Threads : u # t => iter[u] = "none"
      /\ iter[t] = "live"
      /\ \A u \in Threads : Accounted(u)'
      /\ output'[t] = <<>>
  BY EmitKeeps
<1>2. pc' \in [Threads -> {"start", "connect", "query", "idle", "fill"} \cup Ended]
      /\ pc'[t] \in {"finished", "idle"}
      /\ \A u \in Threads : u # t => pc'[u] = pc[u] /\ done'[u] = done[u]
  BY DEF Emit
<1>3. TypeOK'
  BY <1>1, <1>2
<1>4. OneOwner'
  BY <1>1, <1>2 DEF OneOwner, Owns
<1>5. ASSUME NEW u \in Threads
      PROVE  Resources(u)' /\ Accounted(u)' /\ EndsWell(u)'
  <2>1. Resources(u)'
    BY <1>1, <1>2 DEF Resources
  <2>2. EndsWell(u)'
    <3>1. iter'[u] # "none" => u = t
      BY <1>1
    <3>2. done'[t] /\ fetched'[t] = total' /\ outcome' = "end"
      OBVIOUS
    <3>3. pc'[u] \in {"connect", "query", "fill", "start"} => u # t
      BY <1>2
    <3>4. u # t => ~Reading(u)
      BY <1>1 DEF Reading, HasCursor, Resources, OneOwner, Owns
    <3>. QED BY <1>1, <1>2, <3>1, <3>2, <3>3, <3>4
             DEF EndsWell, Reading, HasCursor
  <2>. QED BY <1>1, <2>1, <2>2
<1>. QED BY <1>1, <1>3, <1>4, <1>5

LEMMA ChunkFullInv ==
  ASSUME NEW t \in Threads, IInv, ChunkFull(t)
  PROVE  IInv'
<1> USE DEF IInv, TypeOK, ChunkFull
<1>1. /\ rows' \in Seq(1..total') /\ output' \in [Threads -> Seq(1..total')]
      /\ \A u \in Threads : Len(output'[u]) <= VectorSize
      /\ \A u \in Threads : u # t => iter[u] = "none"
      /\ iter[t] = "live"
      /\ \A u \in Threads : Accounted(u)'
      /\ output'[t] = <<>>
  BY EmitKeeps
<1>2. output[t] # <<>>
  BY ScanAssumption DEF ScanAssumption
<1>3. pc' = [pc EXCEPT ![t] = "idle"]
  BY <1>2 DEF Emit
<1>4. TypeOK'
  BY <1>1, <1>3
<1>5. OneOwner'
  BY <1>1, <1>3 DEF OneOwner, Owns
<1>6. ASSUME NEW u \in Threads
      PROVE  Resources(u)' /\ Accounted(u)' /\ EndsWell(u)'
  <2>1. Resources(u)'
    BY <1>1, <1>3 DEF Resources
  <2>2. EndsWell(u)'
    BY <1>1, <1>3 DEF EndsWell, Reading, HasCursor
  <2>. QED BY <1>1, <2>1, <2>2
<1>. QED BY <1>1, <1>4, <1>5, <1>6

LEMMA NextFailsInv ==
  ASSUME NEW t \in Threads, IInv, NextFails(t)
  PROVE  IInv'
<1> USE DEF IInv, TypeOK, NextFails, Throw
<1>1. TypeOK'
  OBVIOUS
<1>2. OneOwner'
  BY DEF OneOwner, Owns, Resources, EndsWell, Reading
<1>3. ASSUME NEW u \in Threads
      PROVE  Resources(u)' /\ Accounted(u)' /\ EndsWell(u)'
  <2>1. Resources(u)'
    BY DEF Resources, HasCursor
  <2>2. Accounted(u)'
    BY DEF Resources, Accounted
  <2>3. EndsWell(u)'
    BY DEF Resources, Accounted, EndsWell, Reading, HasCursor, OneOwner, Owns
  <2>. QED BY <2>1, <2>2, <2>3
<1>4. (\A u \in Threads : iter'[u] = "none") => rows' = <<>>
  BY DEF Resources
<1>. QED BY <1>1, <1>2, <1>3, <1>4

-----------------------------------------------------------------------------
LEMMA DestroyInv ==
  ASSUME NEW t \in Threads, IInv, Destroy(t)
  PROVE  IInv'
<1> USE DEF IInv, TypeOK, Destroy, HasCursor
<1>1. TypeOK'
  OBVIOUS
<1>2. OneOwner'
  BY DEF OneOwner, Owns, Resources, EndsWell, Reading
<1>3. ASSUME NEW u \in Threads
      PROVE  Resources(u)' /\ Accounted(u)' /\ EndsWell(u)'
  <2>1. Resources(u)'
    BY DEF Resources, HasCursor
  <2>2. Accounted(u)'
    BY DEF Resources, Accounted
  <2>3. EndsWell(u)'
    BY DEF Resources, Accounted, EndsWell, Reading, HasCursor, OneOwner, Owns
  <2>. QED BY <2>1, <2>2, <2>3
<1>4. (\A u \in Threads : iter'[u] = "none") => rows' = <<>>
  BY DEF Resources
<1>. QED BY <1>1, <1>2, <1>3, <1>4

LEMMA FreeIterInv ==
  ASSUME NEW t \in Threads, IInv, FreeIter(t)
  PROVE  IInv'
<1> USE DEF IInv, TypeOK, FreeIter
<1>1. TypeOK'
  OBVIOUS
<1>2. OneOwner'
  BY DEF OneOwner, Owns, Resources, EndsWell, Reading
<1>3. ASSUME NEW u \in Threads
      PROVE  Resources(u)' /\ Accounted(u)' /\ EndsWell(u)'
  <2>1. Resources(u)'
    BY DEF Resources, HasCursor
  <2>2. Accounted(u)'
    BY DEF Resources, Accounted
  <2>3. EndsWell(u)'
    BY DEF Resources, Accounted, EndsWell, Reading, HasCursor, OneOwner, Owns
  <2>. QED BY <2>1, <2>2, <2>3
<1>4. (\A u \in Threads : iter'[u] = "none") => rows' = <<>>
  BY DEF Resources
<1>. QED BY <1>1, <1>2, <1>3, <1>4

LEMMA FreeConnInv ==
  ASSUME NEW t \in Threads, IInv, FreeConn(t)
  PROVE  IInv'
<1> USE DEF IInv, TypeOK, FreeConn
<1>1. TypeOK'
  OBVIOUS
<1>2. OneOwner'
  BY DEF OneOwner, Owns, Resources, EndsWell, Reading
<1>3. ASSUME NEW u \in Threads
      PROVE  Resources(u)' /\ Accounted(u)' /\ EndsWell(u)'
  <2>1. Resources(u)'
    BY DEF Resources, HasCursor
  <2>2. Accounted(u)'
    BY DEF Resources, Accounted
  <2>3. EndsWell(u)'
    BY DEF Resources, Accounted, EndsWell, Reading, HasCursor, OneOwner, Owns
  <2>. QED BY <2>1, <2>2, <2>3
<1>4. (\A u \in Threads : iter'[u] = "none") => rows' = <<>>
  BY DEF Resources
<1>. QED BY <1>1, <1>2, <1>3, <1>4

-----------------------------------------------------------------------------
LEMMA StutterInv == IInv /\ UNCHANGED vars => IInv'
BY DEF vars, IInv, TypeOK, OneOwner, Owns, Resources, Accounted, EndsWell,
       Reading, HasCursor

LEMMA StepInv == IInv /\ [Next]_vars => IInv'
<1> SUFFICES ASSUME IInv, [Next]_vars PROVE IInv'
  OBVIOUS
<1>1. ASSUME NEW t \in Threads, Open(t) PROVE IInv'
  BY <1>1, ClaimInv, AlreadyClaimedInv, ConnectInv, ConnectFailsInv,
     QueryIterInv, QueryFailsInv DEF Open
<1>2. ASSUME NEW t \in Threads, Scan(t) PROVE IInv'
  BY <1>2, CallInv, CallDoneInv, NextRowInv, NextEndInv, NextFailsInv,
     ChunkFullInv DEF Scan
<1>3. ASSUME NEW t \in Threads, Free(t) PROVE IInv'
  BY <1>3, FreeIterInv, FreeConnInv DEF Free
<1>. QED BY <1>1, <1>2, <1>3, DestroyInv, StutterInv DEF Next

LEMMA Inductive == Spec => []IInv
BY InitInv, StepInv, PTL DEF Spec

(* The variables keep their types; in particular no chunk is longer than   *)
(* the vectors that FirebirdScan fills.                                    *)
THEOREM TypeCorrect == Spec => []TypeOK
<1>1. IInv => TypeOK
  BY DEF IInv
<1>. QED BY <1>1, Inductive, PTL

(* The iterator that fb_cursor_open made never outlives the connection it  *)
(* borrows, whatever fails and whenever DuckDB lets go of the scan.        *)
THEOREM Borrowing == Spec => []IterInsideConnection
<1>1. IInv => IterInsideConnection
  BY DEF IInv, Resources, IterInsideConnection
<1>. QED BY <1>1, Inductive, PTL

(* A thread's connection and statement are gone when its local state is.   *)
THEOREM NoLeak == Spec => []NothingLeaks
<1>1. IInv => NothingLeaks
  BY DEF IInv, Resources, NothingLeaks
<1>. QED BY <1>1, Inductive, PTL

(* DuckDB got every row, unless an error was thrown or it wanted no more:  *)
(* for any number of threads that share the one claim.                     *)
THEOREM Complete == Spec => []CompleteUnlessCause
<1>1. ASSUME IInv, \A t \in Threads : pc[t] \in Ended,
             outcome # "error", ~stopped
      PROVE  rows = FirstRows(total)
  <2> USE DEF IInv, TypeOK
  <2>1. claimed
    BY <1>1, ScanAssumption DEF OneOwner, ScanAssumption
  <2>2. PICK t \in Threads : Owns(t)
    BY <1>1, <2>1 DEF OneOwner
  <2>3. iter[t] # "none" /\ outcome = "end"
    BY <1>1, <2>2 DEF Owns, EndsWell
  <2>4. rows \o <<>> = FirstRows(total)
    BY <1>1, <2>3 DEF EndsWell, Accounted
  <2>. QED BY <1>1, <2>4, ConcatEmpty
<1>2. IInv => CompleteUnlessCause
  BY <1>1 DEF CompleteUnlessCause, FirstRows
<1>. QED BY <1>2, Inductive, PTL

-----------------------------------------------------------------------------
(* The refinement: what DuckDB has and what is in the one chunk that is    *)
(* being filled.                                                           *)
LEMMA InHandOfOwner ==
  ASSUME IInv, NEW t \in Threads, iter[t] # "none"
  PROVE  InHand = output[t]
<1>1. \A u \in Threads : u # t => output[u] = <<>>
  BY DEF IInv, OneOwner, Owns, Accounted
<1>2. CASE output[t] = <<>>
  <2>1. Filling = {}
    BY <1>1, <1>2 DEF Filling
  <2>. QED BY <1>2, <2>1 DEF InHand
<1>3. CASE output[t] # <<>>
  <2>1. Filling = {t}
    BY <1>1, <1>3 DEF Filling
  <2>2. (CHOOSE u \in Filling : TRUE) = t
    BY <2>1
  <2>. QED BY <2>1, <2>2 DEF InHand
<1>. QED BY <1>2, <1>3

LEMMA NothingInHand ==
  ASSUME IInv, \A t \in Threads : iter[t] = "none"
  PROVE  rows \o InHand = <<>>
<1>1. Filling = {} /\ rows = <<>>
  BY DEF IInv, Accounted, Filling
<1>. QED BY <1>1 DEF InHand

(* The stream is a function of what its owner, if any, has fetched.        *)
OwnersStream ==
  \A t \in Threads : iter[t] # "none" => rows \o InHand = FirstRows(fetched[t])

LEMMA StreamOfOwner == IInv => OwnersStream
BY InHandOfOwner DEF IInv, Accounted, OwnersStream

LEMMA StreamOfOwnerNext == IInv' => OwnersStream'
BY StreamOfOwner, PTL

LEMMA StreamKept ==
  ASSUME IInv, IInv', UNCHANGED fetched,
         \A t \in Threads : (iter[t] = "none") <=> (iter'[t] = "none")
  PROVE  (rows \o InHand)' = rows \o InHand
<1>1. CASE \A t \in Threads : iter[t] = "none"
  <2>1. rows \o InHand = <<>>
    BY <1>1, NothingInHand
  <2>2. (rows \o InHand)' = <<>>
    <3>1. \A t \in Threads : iter'[t] = "none"
      BY <1>1
    <3>2. Filling' = {} /\ rows' = <<>>
      BY <3>1 DEF IInv, Accounted, Filling
    <3>. QED BY <3>2 DEF InHand
  <2>. QED BY <2>1, <2>2
<1>2. ASSUME NEW t \in Threads, iter[t] # "none"
      PROVE  (rows \o InHand)' = rows \o InHand
  <2>1. rows \o InHand = FirstRows(fetched[t])
    BY <1>2, StreamOfOwner DEF OwnersStream
  <2>2. (rows \o InHand)' = FirstRows(fetched'[t])
    BY <1>2, StreamOfOwnerNext DEF OwnersStream
  <2>. QED BY <2>1, <2>2
<1>. QED BY <1>1, <1>2

LEMMA InitMaps == Init => Stream!Init
<1> SUFFICES ASSUME Init PROVE Stream!Init
  OBVIOUS
<1>1. rows \o InHand = <<>>
  BY InitInv, NothingInHand DEF Init
<1>. QED BY <1>1, ScanAssumption DEF Init, Stream!Init, ScanAssumption

(* The steps that neither fetch a row nor end the scan.                    *)
LEMMA Stutters ==
  ASSUME IInv, IInv', UNCHANGED <<total, outcome, fetched>>,
         \A t \in Threads : (iter[t] = "none") <=> (iter'[t] = "none")
  PROVE  UNCHANGED Stream!vars
BY StreamKept DEF Stream!vars

LEMMA QueryIterMaps ==
  ASSUME IInv, IInv', NEW t \in Threads, QueryIter(t)
  PROVE  UNCHANGED Stream!vars
<1> USE DEF IInv, TypeOK, QueryIter
<1>1. \A u \in Threads : iter[u] = "none"
  BY DEF OneOwner, Owns, Resources
<1>2. rows \o InHand = <<>>
  BY <1>1, NothingInHand
<1>3. (rows \o InHand)' = FirstRows(fetched'[t])
  BY StreamOfOwnerNext DEF OwnersStream
<1>4. fetched'[t] = 0
  BY <1>1 DEF Accounted
<1>5. FirstRows(0) = <<>>
  BY DEF FirstRows
<1>. QED BY <1>2, <1>3, <1>4, <1>5 DEF Stream!vars

LEMMA NextRowMaps ==
  ASSUME IInv, IInv', NEW t \in Threads, NextRow(t)
  PROVE  Stream!Deliver
<1> USE DEF IInv, TypeOK, NextRow
<1>1. iter[t] = "live" /\ outcome = "open" /\ iter' = iter
  BY DEF Resources, EndsWell, Reading
<1>2. fetched[t] \in Nat /\ fetched'[t] = fetched[t] + 1 /\ fetched[t] < total
  OBVIOUS
<1>3. rows \o InHand = FirstRows(fetched[t])
  BY <1>1, StreamOfOwner DEF OwnersStream
<1>4. (rows \o InHand)' = FirstRows(fetched[t] + 1)
  BY <1>1, <1>2, StreamOfOwnerNext DEF OwnersStream
<1>5. Len(rows \o InHand) = fetched[t]
  BY <1>2, <1>3, FirstRowsLen
<1>6. (rows \o InHand)' = Append(rows \o InHand, Len(rows \o InHand) + 1)
  BY <1>2, <1>3, <1>4, <1>5, FirstRowsNext
<1>. QED BY <1>1, <1>2, <1>5, <1>6 DEF Stream!Deliver

LEMMA NextEndMaps ==
  ASSUME IInv, IInv', NEW t \in Threads, NextEnd(t)
  PROVE  Stream!End
<1> USE DEF IInv, TypeOK, NextEnd
<1>1. iter[t] = "live" /\ outcome = "open" /\ iter' = iter /\ fetched' = fetched
  BY DEF Resources, EndsWell, Reading
<1>2. fetched[t] \in Nat /\ fetched[t] = total
  OBVIOUS
<1>3. rows \o InHand = FirstRows(fetched[t])
  BY <1>1, StreamOfOwner DEF OwnersStream
<1>4. Len(rows \o InHand) = total
  BY <1>2, <1>3, FirstRowsLen
<1>5. (rows \o InHand)' = rows \o InHand
  BY <1>1, StreamKept
<1>. QED BY <1>1, <1>4, <1>5 DEF Stream!End

LEMMA ThrowMaps ==
  ASSUME IInv, IInv', NEW t \in Threads, Reading(t), Throw(t),
         UNCHANGED <<total, iter, fetched>>
  PROVE  Stream!Fail
<1>1. outcome = "open" /\ outcome' = "error"
  BY DEF IInv, EndsWell, Throw
<1>2. (rows \o InHand)' = rows \o InHand
  BY StreamKept
<1>. QED BY <1>1, <1>2 DEF Stream!Fail

LEMMA StepMaps == IInv /\ IInv' /\ [Next]_vars => [Stream!Next]_(Stream!vars)
<1> SUFFICES ASSUME IInv, IInv', [Next]_vars
             PROVE  Stream!Next \/ UNCHANGED Stream!vars
  OBVIOUS
<1>1. ASSUME NEW t \in Threads,
             \/ Claim(t) \/ AlreadyClaimed(t) \/ Connect(t)
             \/ Call(t) \/ CallDone(t) \/ ChunkFull(t) \/ Destroy(t) \/ FreeConn(t)
      PROVE  UNCHANGED Stream!vars
  BY <1>1, Stutters DEF Claim, AlreadyClaimed, Connect, Call, CallDone,
                        ChunkFull, Destroy, FreeConn
<1>2. ASSUME NEW t \in Threads, FreeIter(t)
      PROVE  UNCHANGED Stream!vars
  <2>1. \A u \in Threads : (iter[u] = "none") <=> (iter'[u] = "none")
    BY <1>2 DEF FreeIter, IInv, TypeOK, Resources
  <2>. QED BY <1>2, <2>1, Stutters DEF FreeIter
<1>3. ASSUME NEW t \in Threads,
             ConnectFails(t) \/ QueryFails(t) \/ NextFails(t)
      PROVE  Stream!Fail
  BY <1>3, ThrowMaps DEF ConnectFails, QueryFails, NextFails, Reading
<1>4. CASE UNCHANGED vars
  BY <1>4, Stutters DEF vars
<1>. QED BY <1>1, <1>2, <1>3, <1>4, QueryIterMaps, NextRowMaps, NextEndMaps
         DEF Next, Open, Scan, Free, Stream!Next

(* The scan keeps the promise of RowStream to DuckDB: over all threads and *)
(* chunks each row once and in order, the end only after the last, and     *)
(* nothing after an error.                                                 *)
THEOREM Refinement == Spec => RowStreamSpec
BY InitMaps, InitInv, StepInv, StepMaps, Inductive, PTL
   DEF Spec, RowStreamSpec, Stream!Spec

=============================================================================
