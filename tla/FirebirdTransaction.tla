-------------------------- MODULE FirebirdTransaction --------------------------
(***************************************************************************)
(* The catalog of an attached database, as one DuckDB transaction sees it: *)
(* FirebirdTransaction (GetConnection, GetCatalogEntry, LoadAllEntries,    *)
(* MakeTableEntry), the Scan and LookupEntry of FirebirdSchemaEntry that   *)
(* call it, the introspection queries of FirebirdConnection, and the       *)
(* transaction manager that creates and destroys it.                       *)
(*                                                                         *)
(* Threads of the transaction look tables up and scan the schema.  Entries *)
(* are made on demand and cached in a map whose keys ignore case, under    *)
(* entry_lock; a caller keeps a plain pointer to what it was given.  Every *)
(* query on the server is a step of its own and is its own transaction     *)
(* there, so the tables may change between any two of them.                *)
(*                                                                         *)
(* The columns of a table are abstracted to <<its name, their version>>;   *)
(* the columns of an entry are the tables whose columns it lists, normally *)
(* one.                                                                    *)
(***************************************************************************)
EXTENDS Naturals, Sequences, SequencesExt

CONSTANTS
    Threads,            \* threads that use the transaction
    Tables,             \* the names tables may have
    Place,              \* their places in the order of RDB$RELATION_NAME
    Names,              \* the names a caller may look up
    Fold,               \* a name without its case
    NoThread, NoEntry,
    MaxChanges,         \* bound: changes of tables on the server
    MaxCalls,           \* bound: calls of one thread in a transaction
    MaxTransactions     \* bound: transactions

Folded  == {Fold[n] : n \in Names}
Columns == Tables \X Nat
Entry   == [id : Nat, name : Names, columns : SUBSET Columns]

ASSUME CatalogAssumption ==
    /\ Tables \subseteq Names /\ IsFiniteSet(Tables)
    /\ Place \in [Tables -> Nat] /\ IsInjective(Place)
    /\ DOMAIN Fold = Names
    /\ NoThread \notin Threads /\ NoEntry \notin Entry
    /\ MaxChanges \in Nat /\ MaxCalls \in Nat /\ MaxTransactions \in Nat

VARIABLES
    tables,             \* version of each table on the server, 0 if absent
    changes,            \* changes of tables so far
    entry_lock,         \* the thread that holds the mutex
    connection,         \* the introspection connection
    catalog_entries,    \* the cache
    made,               \* number of steps that made entries: their identity
    pc,                 \* where each thread is
    mode,               \* what it calls: LookupEntry or Scan
    names,              \* the names it has still to get the entries of
    reported,           \* the entries Scan has passed to its callback
    steady,             \* tables that were there since its Scan began
    outcome,            \* how the thread's last call ended
    held,               \* entries the thread has a pointer to
    calls,              \* calls of the thread in this transaction
    transactions        \* transactions so far

server == <<tables, changes>>
cache  == <<catalog_entries, made>>
call   == <<mode, names, reported, steady, outcome>>
counts == <<calls, transactions>>
vars   == <<server, entry_lock, connection, cache, pc, call, held, counts>>

TypeOK ==
    /\ tables \in [Tables -> Nat] /\ changes \in Nat
    /\ entry_lock \in Threads \cup {NoThread}
    /\ connection \in {"closed", "open", "broken"}
    /\ catalog_entries \in [Folded -> Entry \cup {NoEntry}]
    /\ \A f \in Folded : catalog_entries[f] # NoEntry =>
         /\ Fold[catalog_entries[f].name] = f
         /\ catalog_entries[f].columns # {}
    /\ made \in Nat
    /\ pc \in [Threads -> {"idle", "find", "query", "load", "list",
                           "columns", "each"}]
    /\ mode \in [Threads -> {"LookupEntry", "Scan"}]
    /\ names \in [Threads -> Seq(Names)]
    /\ reported \in [Threads -> Seq(Entry)]
    /\ steady \in [Threads -> SUBSET Tables]
    /\ outcome \in [Threads -> {"none", "returned", "threw"}]
    /\ held \in [Threads -> SUBSET Entry]
    /\ calls \in [Threads -> 0..MaxCalls]
    /\ transactions \in 0..MaxTransactions

Init ==
    /\ tables \in [Tables -> {0, 1}] /\ changes = 1
    /\ entry_lock = NoThread
    /\ connection = "closed"
    /\ catalog_entries = [f \in Folded |-> NoEntry] /\ made = 0
    /\ pc = [c \in Threads |-> "idle"]
    /\ mode = [c \in Threads |-> "LookupEntry"]
    /\ names = [c \in Threads |-> <<>>]
    /\ reported = [c \in Threads |-> <<>>]
    /\ steady = [c \in Threads |-> {}]
    /\ outcome = [c \in Threads |-> "none"]
    /\ held = [c \in Threads |-> {}]
    /\ calls = [c \in Threads |-> 0] /\ transactions = 0

-----------------------------------------------------------------------------
(* The server: another client creates, alters or drops a table.            *)
Exists(t) == tables[t] # 0

ChangeTable(t) ==
    /\ changes <= MaxChanges
    /\ changes' = changes + 1
    /\ tables' \in {[tables EXCEPT ![t] = v] : v \in {changes + 1} \cup {0}}
    /\ tables' # tables
    /\ steady' = [c \in Threads |-> steady[c] \ {s \in {t} : tables'[s] = 0}]
    /\ UNCHANGED <<entry_lock, connection, cache, pc, mode, names, reported,
                   outcome, held, counts>>

(* Columns of a table that is there.                                       *)
Of(t) == <<t, tables[t]>>

(* Wrong variant: the columns of all the tables are not told apart.        *)
AllColumnsTogether(n) == {Of(t) : t \in {u \in Tables : Exists(u)}}

(* The answers to LIST_TABLES_SQL, and to TABLE_COLUMNS_SQL and            *)
(* ALL_COLUMNS_SQL for a name: the latter is put together by a map that    *)
(* ignores case.                                                           *)
ListTables(list) ==
    /\ Range(list) = {t \in Tables : Exists(t)}
    /\ \A i, j \in DOMAIN list : i < j => Place[list[i]] < Place[list[j]]

TableColumns(n)    == {Of(t) : t \in {u \in Tables : Exists(u) /\ u = n}}
AllTableColumns(n) == {Of(t) : t \in {u \in Tables : Exists(u) /\ Fold[u] = Fold[n]}}

(* A query, with GetConnection before it, which connects if the connection *)
(* is not open, answers or throws.  A broken connection is open to it.     *)
Connect  == connection = "closed" /\ connection' = "open"
Answered == Connect \/ (connection = "open" /\ UNCHANGED connection)
Refused  == UNCHANGED connection
Close    == connection' = "closed"

ConnectionBreaks ==
    /\ connection = "open"
    /\ connection' = "broken"
    /\ UNCHANGED <<server, entry_lock, cache, pc, call, held, counts>>

-----------------------------------------------------------------------------
Acquire(c) == entry_lock = NoThread /\ entry_lock' = c
Release    == entry_lock' = NoThread

Find(n)    == catalog_entries[Fold[n]]
NewEntry(n, columns) == [id |-> made + 1, name |-> n, columns |-> columns]

Goto(c, label) == pc' = [pc EXCEPT ![c] = label]
Ends(c, how) ==
    /\ Goto(c, "idle")
    /\ outcome' = [outcome EXCEPT ![c] = how]

(* A caller starts LookupEntry, or Scan.                                   *)
Call(c) ==
    /\ pc[c] = "idle" /\ calls[c] < MaxCalls
    /\ calls' = [calls EXCEPT ![c] = @ + 1]
    /\ outcome' = [outcome EXCEPT ![c] = "none"]
    /\ reported' = [reported EXCEPT ![c] = <<>>]
    /\ UNCHANGED <<server, entry_lock, connection, cache, held, transactions>>

LookupEntry(c) ==
    /\ Call(c)
    /\ \E n \in Names : names' = [names EXCEPT ![c] = <<n>>]
    /\ mode' = [mode EXCEPT ![c] = "LookupEntry"]
    /\ steady' = [steady EXCEPT ![c] = {}]
    /\ Goto(c, "find")

Scan(c) ==
    /\ Call(c)
    /\ mode' = [mode EXCEPT ![c] = "Scan"]
    /\ names' = [names EXCEPT ![c] = <<>>]
    /\ steady' = [steady EXCEPT ![c] = {t \in Tables : Exists(t)}]
    /\ Goto(c, "load")

(* Calls that end without a query and leave everything as it is: a schema  *)
(* by another name is none, or throws; no entry is of another type than a  *)
(* table; and whatever creates, alters, drops or writes throws.            *)
EndsAtOnce(c, how) ==
    /\ pc[c] = "idle" /\ calls[c] < MaxCalls
    /\ calls' = [calls EXCEPT ![c] = @ + 1]
    /\ outcome' = [outcome EXCEPT ![c] = how]
    /\ mode' = [mode EXCEPT ![c] = "LookupEntry"]
    /\ names' = [names EXCEPT ![c] = <<>>]
    /\ reported' = [reported EXCEPT ![c] = <<>>]
    /\ steady' = [steady EXCEPT ![c] = {}]
    /\ UNCHANGED <<server, entry_lock, connection, cache, pc, held, transactions>>

LookupOtherSchema(c) == EndsAtOnce(c, "returned") \/ EndsAtOnce(c, "threw")
OtherTypes(c)        == EndsAtOnce(c, "returned")
CreateAlterDrop(c)   == EndsAtOnce(c, "threw")
PlanWrite(c)         == EndsAtOnce(c, "threw")

(* GetCatalogEntry returns `entry` to LookupEntry, or to Scan, which calls *)
(* back, without the lock, if it is not null.                              *)
Return(c, entry) ==
    /\ names' = [names EXCEPT ![c] = Tail(@)]
    /\ held' = [held EXCEPT ![c] = @ \cup ({entry} \ {NoEntry})]
    /\ IF mode[c] = "Scan"
       THEN /\ reported' = [reported EXCEPT
                              ![c] = IF entry = NoEntry THEN @
                                     ELSE Append(@, entry)]
            /\ Goto(c, "each")
            /\ UNCHANGED outcome
       ELSE Ends(c, "returned") /\ UNCHANGED reported
    /\ UNCHANGED <<mode, steady>>

(* GetCatalogEntry with the entry in the cache ...                         *)
FindHit(c) ==
    /\ pc[c] = "find" /\ entry_lock = NoThread
    /\ Find(Head(names[c])) # NoEntry
    /\ Return(c, Find(Head(names[c])))
    /\ UNCHANGED <<server, entry_lock, connection, cache, counts>>

(* Wrong variants: the lock is not taken; the map is not looked at under   *)
(* the lock.                                                               *)
FindsUnlocked(c) ==
    /\ pc[c] = "find" /\ entry_lock = NoThread
    /\ Find(Head(names[c])) = NoEntry
    /\ Goto(c, "query")
    /\ UNCHANGED <<server, entry_lock, connection, cache, call, held, counts>>

MissesAlways(c) ==
    /\ pc[c] = "find" /\ Acquire(c)
    /\ Goto(c, "query")
    /\ UNCHANGED <<server, connection, cache, call, held, counts>>

(* ... without it: the lock is kept during the query ...                   *)
FindMiss(c) ==
    /\ pc[c] = "find" /\ Acquire(c)
    /\ Find(Head(names[c])) = NoEntry
    /\ Goto(c, "query")
    /\ UNCHANGED <<server, connection, cache, call, held, counts>>

(* ... which finds the columns of a table ...                              *)
MakeTableEntry(c) ==
    LET n == Head(names[c])
        entry == NewEntry(n, TableColumns(n))
    IN  /\ pc[c] = "query" /\ TableColumns(n) # {}
        /\ Answered
        /\ catalog_entries' = [catalog_entries EXCEPT ![Fold[n]] = entry]
        /\ made' = made + 1
        /\ Return(c, entry)
        /\ Release
        /\ UNCHANGED <<server, counts>>

(* ... or none.                                                            *)
NotATable(c) ==
    /\ pc[c] = "query" /\ TableColumns(Head(names[c])) = {}
    /\ Answered
    /\ Return(c, NoEntry)
    /\ Release
    /\ UNCHANGED <<server, cache, counts>>

-----------------------------------------------------------------------------
(* LoadAllEntries.                                                         *)
Load(c) ==
    /\ pc[c] = "load" /\ Acquire(c)
    /\ Goto(c, "list")
    /\ UNCHANGED <<server, connection, cache, call, held, counts>>

GetTables(c) ==
    /\ pc[c] = "list"
    /\ Answered
    /\ \E n \in 0..Cardinality(Tables) : \E list \in [1..n -> Tables] :
          /\ ListTables(list)
          /\ names' = [names EXCEPT ![c] = list]
    /\ Goto(c, "columns")
    /\ UNCHANGED <<server, entry_lock, cache, mode, reported, steady, outcome,
                   held, counts>>

(* Wrong variants of what the loop skips: tables already cached are made   *)
(* again; tables without columns get an entry.                             *)
CachedToo(list, f) ==
    {i \in DOMAIN list : /\ Fold[list[i]] = f
                         /\ AllTableColumns(list[i]) # {}}

WithoutColumnsToo(list, f) ==
    {i \in DOMAIN list : Fold[list[i]] = f /\ catalog_entries[f] = NoEntry}

(* The loop makes an entry for every listed table that has none and has    *)
(* columns, the first spelling of a name giving the entry its name.        *)
Missing(list, f) ==
    {i \in DOMAIN list : /\ Fold[list[i]] = f /\ catalog_entries[f] = NoEntry
                         /\ AllTableColumns(list[i]) # {}}

Loaded(list) ==
    [f \in Folded |->
        IF Missing(list, f) = {} THEN catalog_entries[f]
        ELSE LET first == CHOOSE i \in Missing(list, f) :
                            \A j \in Missing(list, f) : i <= j
             IN  NewEntry(list[first], AllTableColumns(list[first]))]

(* Wrong variant: only the tables that were not cached are handed to Scan. *)
HandsOverNewOnly(c) ==
    LET Uncached(n) == Find(n) = NoEntry
    IN  /\ pc[c] = "columns"
        /\ Answered
        /\ catalog_entries' = Loaded(names[c])
        /\ names' = [names EXCEPT ![c] = SelectSeq(@, Uncached)]
        /\ made' = made + 1
        /\ Goto(c, "each")
        /\ Release
        /\ UNCHANGED <<server, mode, reported, steady, outcome, held, counts>>

GetAllTableColumns(c) ==
    /\ pc[c] = "columns"
    /\ Answered
    /\ catalog_entries' = Loaded(names[c])
    /\ made' = made + 1
    /\ Goto(c, "each")
    /\ Release
    /\ UNCHANGED <<server, call, held, counts>>

(* AddColumn throws when two columns have the same name, as those of two   *)
(* tables under one key may: the entries made until then stay.             *)
ColumnsClash(c) ==
    /\ pc[c] = "columns"
    /\ Answered
    /\ \E i \in DOMAIN names[c] :
         /\ Loaded(SubSeq(names[c], 1, i - 1))[Fold[names[c][i]]] = NoEntry
         /\ Cardinality(AllTableColumns(names[c][i])) > 1
         /\ catalog_entries' = Loaded(SubSeq(names[c], 1, i - 1))
    /\ made' = made + 1
    /\ Ends(c, "threw")
    /\ Release
    /\ UNCHANGED <<server, mode, names, reported, steady, held, counts>>

(* Scan's own loop over the names.                                         *)
EachTable(c) ==
    /\ pc[c] = "each"
    /\ IF names[c] = <<>> THEN Ends(c, "returned")
                          ELSE Goto(c, "find") /\ UNCHANGED outcome
    /\ UNCHANGED <<server, entry_lock, connection, cache, mode, names,
                   reported, steady, held, counts>>

(* Wrong variant: the lock is not dropped.                                 *)
ThrowsLocked(c) ==
    /\ pc[c] \in {"query", "list", "columns"}
    /\ Refused
    /\ Ends(c, "threw")
    /\ UNCHANGED <<server, entry_lock, cache, mode, names, reported, steady,
                   held, counts>>

(* A query, or the connect before it, throws: the guard drops the lock.    *)
QueryThrows(c) ==
    /\ pc[c] \in {"query", "list", "columns"}
    /\ Refused
    /\ Ends(c, "threw")
    /\ Release
    /\ UNCHANGED <<server, cache, mode, names, reported, steady, held, counts>>

(* CommitTransaction or RollbackTransaction, and the StartTransaction of   *)
(* the next: DuckDB ends a transaction when no call runs in it.            *)
EndTransaction ==
    /\ transactions < MaxTransactions
    /\ \A c \in Threads : pc[c] = "idle"
    /\ transactions' = transactions + 1
    /\ Close
    /\ catalog_entries' = [f \in Folded |-> NoEntry] /\ made' = 0
    /\ held' = [c \in Threads |-> {}]
    /\ calls' = [c \in Threads |-> 0]
    /\ mode' = [c \in Threads |-> "LookupEntry"]
    /\ names' = [c \in Threads |-> <<>>]
    /\ reported' = [c \in Threads |-> <<>>]
    /\ steady' = [c \in Threads |-> {}]
    /\ outcome' = [c \in Threads |-> "none"]
    /\ UNCHANGED <<server, entry_lock, pc>>

-----------------------------------------------------------------------------
Step(c) ==
    \/ FindHit(c) \/ FindMiss(c) \/ MakeTableEntry(c) \/ NotATable(c)
    \/ Load(c) \/ GetTables(c) \/ GetAllTableColumns(c) \/ ColumnsClash(c)
    \/ EachTable(c) \/ QueryThrows(c)

Next ==
    \/ \E c \in Threads :
          \/ LookupEntry(c) \/ Scan(c) \/ Step(c)
          \/ LookupOtherSchema(c) \/ OtherTypes(c)
          \/ CreateAlterDrop(c) \/ PlanWrite(c)
    \/ \E t \in Tables : ChangeTable(t)
    \/ ConnectionBreaks \/ EndTransaction

Spec == Init /\ [][Next]_vars

(* A call goes on until it returns: every query is answered or times out,  *)
(* and a thread that waits for the mutex gets it when its holder is done.  *)
FairSpec == Spec /\ \A c \in Threads : WF_vars(Step(c))

-----------------------------------------------------------------------------
(* Tables whose name differs from those of the others in more than case:   *)
(* the others may meet under one key of the maps.                          *)
Distinct == {t \in Tables : \A u \in Tables : Fold[u] = Fold[t] => u = t}

(* No caller is left with a pointer to an entry that was replaced or freed *)
(* while the transaction goes on.                                          *)
HeldEntriesLive ==
    \A c \in Threads, e \in UNION {held[d] : d \in Threads} :
        e \in held[c] => catalog_entries[Fold[e.name]] = e

(* The introspection connection, which is not thread-safe, is used by one  *)
(* thread at a time, over every query of a call.                           *)
ConnectionExclusive ==
    \A c, d \in Threads :
        /\ pc[c] \in {"query", "list", "columns"}
        /\ pc[d] \in {"query", "list", "columns"}
        => c = d

(* A Scan that returns has reported every table that was there all along,  *)
(* even if another thread's calls and changes of other tables came between *)
(* its two queries or between those and its loop, and no entry twice but   *)
(* one that several tables share.                                          *)
ScanComplete ==
    \A c \in Threads :
        /\ mode[c] = "Scan" /\ outcome[c] = "returned" =>
              \A t \in steady[c] :
                  \E i \in DOMAIN reported[c] : Fold[reported[c][i].name] = Fold[t]
        /\ \A i, j \in DOMAIN reported[c] :
              /\ reported[c][i] = reported[c][j]
              /\ reported[c][i].name \in Distinct
              => i = j

(* An entry has the columns of the one table it is named after, at least   *)
(* for distinct names: the struct of GetAllTableColumns is "Ordered        *)
(* columns of a single table".  Among names that differ in case only, it   *)
(* has those of tables with that name.                                     *)
OneTablePerEntry ==
    \A f \in Folded : catalog_entries[f] # NoEntry =>
        LET e    == catalog_entries[f]
            from == {column[1] : column \in e.columns}
        IN  /\ \A t \in from : Fold[t] = f
            /\ e.name \in Distinct => from = {e.name}

(* The entries of a transaction are a view of the tables with a distinct   *)
(* name, in the sense of CatalogView.                                      *)
Versions(t) ==
    LET e == catalog_entries[Fold[t]]
    IN  {column[2] : column \in {d \in IF e = NoEntry THEN {} ELSE e.columns :
                                    d[1] = t}}

BoundVersion(t) == IF Versions(t) = {} THEN 0 ELSE CHOOSE v \in Versions(t) : TRUE

View == INSTANCE CatalogView WITH
            Tables <- Distinct,
            tables <- [t \in Distinct |-> tables[t]],
            bound  <- [t \in Distinct |-> BoundVersion(t)]
ViewSpec == View!Spec

(* Every call ends.                                                        *)
CallsEnd == \A c \in Threads : pc[c] # "idle" ~> pc[c] = "idle"
-----------------------------------------------------------------------------
(* The inductive invariant.  What a thread may do to the cache, it does    *)
(* with the lock, so what it found missing is missing until it is made.    *)
Locked == {"query", "list", "columns"}

Mutex(c) == pc[c] \in Locked => entry_lock = c

HoldsLive(c) == \A e \in held[c] : catalog_entries[Fold[e.name]] = e

Asks(c) ==
    /\ pc[c] \in {"find", "query"} => names[c] # <<>>
    /\ pc[c] = "query" => Find(Head(names[c])) = NoEntry

(* How far a Scan has come: a name that is still listed was not reported,  *)
(* and a table that is there all along is listed or reported.              *)
Reports(c, t) ==
    \E i \in DOMAIN reported[c] : Fold[reported[c][i].name] = Fold[t]

Progress(c) ==
    /\ pc[c] # "idle" => outcome[c] = "none"
    /\ pc[c] \in {"load", "list", "columns", "each"} => mode[c] = "Scan"
    /\ pc[c] \in {"load", "list", "columns"} \/ mode[c] # "Scan"
           => reported[c] = <<>>
    /\ \A t \in steady[c] : Exists(t)

Listed(c) ==
    /\ names[c] \in Seq(Tables) /\ IsInjective(names[c])
    /\ \A i \in DOMAIN reported[c] :
          reported[c][i].name \in Distinct =>
              /\ reported[c][i].name \notin Range(names[c])
              /\ \A j \in DOMAIN reported[c] :
                    reported[c][i] = reported[c][j] => i = j

Due(c) ==
    /\ pc[c] \in {"columns", "each", "find", "query"} \/ outcome[c] = "returned"
           => \A t \in steady[c] : t \in Range(names[c]) \/ Reports(c, t)
    /\ outcome[c] = "returned" => names[c] = <<>>

ThreadInv(c) ==
    /\ Mutex(c) /\ HoldsLive(c) /\ Asks(c) /\ Progress(c)
    /\ mode[c] = "Scan" => Listed(c) /\ Due(c)

IInv ==
    /\ TypeOK
    /\ OneTablePerEntry
    /\ \A c \in Threads : ThreadInv(c)
=============================================================================
