----------------------- MODULE FirebirdTransactionProofs -----------------------
(***************************************************************************)
(* That FirebirdTransaction keeps IInv, and with it what the catalog       *)
(* promises, for any number of threads, tables, names, calls and changes   *)
(* on the server, and that it implements CatalogView.  There is one lemma  *)
(* per action or group of actions that disturb the same parts.             *)
(***************************************************************************)
EXTENDS FirebirdTransaction, SequenceTheorems, FiniteSetTheorems,
        WellFoundedInduction, TLAPS

USE DEF server, cache, call, counts, Goto

-----------------------------------------------------------------------------
(* A set of numbers has a smallest one.                                    *)
LEMMA SmallestOf ==
  ASSUME NEW T \in SUBSET Nat, T # {}
  PROVE  \E x \in T : \A y \in T : x <= y
<1>1. IsWellFoundedOn(OpToRel(<, Nat), Nat)
  BY NatLessThanWellFounded
<1>2. PICK x \in T : \A y \in T : ~ (<<y, x>> \in OpToRel(<, Nat))
  BY <1>1, WFMin
<1>3. \A y \in T : ~ (y < x)
  BY <1>2 DEF OpToRel
<1>. QED BY <1>3

(* Facts about sequences.                                                  *)

LEMMA TailFacts ==
  ASSUME NEW S, NEW s \in Seq(S), s # <<>>
  PROVE  /\ Head(s) \in S /\ Tail(s) \in Seq(S)
         /\ Range(s) = {Head(s)} \cup Range(Tail(s))
         /\ IsInjective(s) => IsInjective(Tail(s)) /\ Head(s) \notin Range(Tail(s))
<1> USE DEF Range, IsInjective
<1>1. Len(s) \in Nat \ {0} /\ Head(s) = s[1] /\ Head(s) \in S /\ Tail(s) \in Seq(S)
  OBVIOUS
<1>2. Len(Tail(s)) = Len(s) - 1 /\ \A i \in 1..Len(Tail(s)) : Tail(s)[i] = s[i + 1]
  BY <1>1
<1>3. \A i \in 2..Len(s) : i - 1 \in 1..Len(Tail(s)) /\ Tail(s)[i - 1] = s[i]
  BY <1>1, <1>2
<1>4. Range(s) = {Head(s)} \cup Range(Tail(s))
  <2>1. ASSUME NEW x \in Range(s) PROVE x \in {Head(s)} \cup Range(Tail(s))
    <3>1. PICK i \in 1..Len(s) : s[i] = x
      OBVIOUS
    <3>2. CASE i = 1
      BY <3>1, <3>2, <1>1
    <3>3. CASE i # 1
      <4>1. i - 1 \in DOMAIN Tail(s) /\ Tail(s)[i - 1] = x
        BY <3>1, <3>3, <1>1, <1>3
      <4>. QED BY <4>1
    <3>. QED BY <3>2, <3>3
  <2>2. ASSUME NEW x \in Range(Tail(s)) PROVE x \in Range(s)
    <3>1. PICK i \in 1..Len(Tail(s)) : Tail(s)[i] = x
      BY <1>1
    <3>. QED BY <3>1, <1>1, <1>2
  <2>. QED BY <2>1, <2>2, <1>1
<1>5. ASSUME IsInjective(s) PROVE IsInjective(Tail(s)) /\ Head(s) \notin Range(Tail(s))
  <2>1. DOMAIN s = 1..Len(s) /\ DOMAIN Tail(s) = 1..Len(Tail(s))
    BY <1>1
  <2>2. \A i \in 1..Len(Tail(s)) : i + 1 \in 1..Len(s) /\ i + 1 # 1
    BY <1>1, <1>2
  <2>3. \A i, j \in 1..Len(Tail(s)) : Tail(s)[i] = Tail(s)[j] => i = j
    BY <1>2, <1>5, <2>1, <2>2
  <2>4. \A i \in 1..Len(Tail(s)) : Tail(s)[i] # Head(s)
    BY <1>1, <1>2, <1>5, <2>1, <2>2
  <2>. QED BY <2>1, <2>3, <2>4
<1>. QED BY <1>1, <1>4, <1>5

LEMMA AppendFacts ==
  ASSUME NEW S, NEW s \in Seq(S), NEW x \in S
  PROVE  /\ Append(s, x) \in Seq(S)
         /\ DOMAIN Append(s, x) = DOMAIN s \cup {Len(s) + 1}
         /\ Len(s) + 1 \notin DOMAIN s
         /\ \A i \in DOMAIN s : Append(s, x)[i] = s[i]
         /\ Append(s, x)[Len(s) + 1] = x
OBVIOUS

-----------------------------------------------------------------------------
(* How the cache changes, whichever step changes it: an entry is made      *)
(* where there was none, with the columns a query found under its name.    *)
Fresh(f, e) ==
    \E n \in Tables, k \in Nat :
        /\ Fold[n] = f
        /\ \E columns \in {TableColumns(n), AllTableColumns(n)} :
              columns # {} /\ e = [id |-> k, name |-> n, columns |-> columns]

Fills ==
    /\ catalog_entries' \in [Folded -> Entry \cup {NoEntry}]
    /\ \A f \in Folded :
          \/ catalog_entries'[f] = catalog_entries[f]
          \/ catalog_entries[f] = NoEntry /\ Fresh(f, catalog_entries'[f])

LEMMA ColumnsFacts ==
  ASSUME NEW n \in Names, TypeOK
  PROVE  /\ TableColumns(n) \subseteq Columns /\ AllTableColumns(n) \subseteq Columns
         /\ TableColumns(n) # {} => n \in Tables /\ Exists(n)
         /\ n \in Tables /\ Exists(n) => TableColumns(n) # {}
<1>1. \A t \in Tables : Of(t) \in Columns
  BY DEF TypeOK, Columns, Of
<1>2. TableColumns(n) \subseteq Columns /\ AllTableColumns(n) \subseteq Columns
  BY <1>1 DEF TableColumns, AllTableColumns
<1>3. TableColumns(n) # {} <=> n \in Tables /\ Exists(n)
  BY DEF TableColumns
<1>. QED BY <1>2, <1>3

LEMMA FreshFacts ==
  ASSUME NEW f \in Folded, NEW e, Fresh(f, e), TypeOK
  PROVE  /\ e \in Entry /\ e # NoEntry /\ Fold[e.name] = f /\ e.columns # {}
         /\ e.name \in Tables
         /\ \A column \in e.columns :
              /\ column[1] \in Tables /\ Fold[column[1]] = f
              /\ column = <<column[1], tables[column[1]]>>
         /\ e.name \in Distinct => e.columns = {<<e.name, tables[e.name]>>}
<1>1. PICK n \in Tables, k \in Nat :
        /\ Fold[n] = f
        /\ \E columns \in {TableColumns(n), AllTableColumns(n)} :
              columns # {} /\ e = [id |-> k, name |-> n, columns |-> columns]
  BY DEF Fresh
<1>2. PICK columns \in {TableColumns(n), AllTableColumns(n)} :
        columns # {} /\ e = [id |-> k, name |-> n, columns |-> columns]
  BY <1>1
<1>3. n \in Names /\ NoEntry \notin Entry
  BY CatalogAssumption DEF CatalogAssumption
<1>4. e \in Entry /\ e.name = n /\ e.columns = columns
  BY <1>2, <1>3, ColumnsFacts DEF Entry
<1>5. \A column \in columns :
        /\ column[1] \in Tables /\ Fold[column[1]] = f
        /\ column = <<column[1], tables[column[1]]>>
  BY <1>1, <1>2 DEF TableColumns, AllTableColumns, Of
<1>6. ASSUME n \in Distinct PROVE columns = {<<n, tables[n]>>}
  <2>1. \A column \in columns : column = <<n, tables[n]>>
    BY <1>1, <1>5, <1>6 DEF Distinct
  <2>. QED BY <2>1, <1>2
<1>. QED BY <1>1, <1>2, <1>3, <1>4, <1>5, <1>6

-----------------------------------------------------------------------------
(* What LoadAllEntries makes of a list of tables.                          *)
LEMMA LoadedFills ==
  ASSUME NEW list \in Seq(Tables), TypeOK, catalog_entries' = Loaded(list)
  PROVE  Fills
<1>1. ASSUME NEW f \in Folded
      PROVE  \/ Loaded(list)[f] = catalog_entries[f]
             \/ catalog_entries[f] = NoEntry /\ Fresh(f, Loaded(list)[f])
  <2>1. CASE Missing(list, f) = {}
    BY <2>1 DEF Loaded
  <2>2. CASE Missing(list, f) # {}
    <3>1. Missing(list, f) \in SUBSET Nat
      BY DEF Missing
    <3>2. \E i \in Missing(list, f) : \A j \in Missing(list, f) : i <= j
      BY <3>1, <2>2, SmallestOf
    <3>3. PICK first \in Missing(list, f) :
            Loaded(list)[f] = NewEntry(list[first], AllTableColumns(list[first]))
      BY <3>2, <2>2 DEF Loaded
    <3>4. /\ list[first] \in Tables /\ Fold[list[first]] = f
          /\ catalog_entries[f] = NoEntry /\ AllTableColumns(list[first]) # {}
      BY <3>3 DEF Missing
    <3>5. made + 1 \in Nat
      BY DEF TypeOK
    <3>. QED BY <3>3, <3>4, <3>5 DEF Fresh, NewEntry
  <2>. QED BY <2>1, <2>2
<1>2. Loaded(list) \in [Folded -> Entry \cup {NoEntry}]
  <2>1. \A f \in Folded : Loaded(list)[f] \in Entry \cup {NoEntry}
    BY <1>1, FreshFacts DEF TypeOK
  <2>2. DOMAIN Loaded(list) = Folded
    BY DEF Loaded
  <2>3. Loaded(list) = [f \in Folded |-> Loaded(list)[f]]
    BY <2>2 DEF Loaded
  <2>. QED BY <2>1, <2>3
<1>. QED BY <1>1, <1>2 DEF Fills

-----------------------------------------------------------------------------
LEMMA InitInv == Init => IInv
<1> SUFFICES ASSUME Init PROVE IInv
  OBVIOUS
<1> USE DEF Init
<1>1. TypeOK
  <2>1. NoEntry \notin Entry /\ MaxCalls \in Nat /\ MaxTransactions \in Nat
    BY CatalogAssumption DEF CatalogAssumption
  <2>2. tables \in [Tables -> Nat] /\ changes \in Nat
    OBVIOUS
  <2>3. \A f \in Folded : catalog_entries[f] = NoEntry
    OBVIOUS
  <2>4. catalog_entries \in [Folded -> Entry \cup {NoEntry}] /\ made \in Nat
    OBVIOUS
  <2>5. /\ names \in [Threads -> Seq(Names)] /\ reported \in [Threads -> Seq(Entry)]
        /\ steady \in [Threads -> SUBSET Tables] /\ held \in [Threads -> SUBSET Entry]
    OBVIOUS
  <2>6. /\ pc \in [Threads -> {"idle", "find", "query", "load", "list",
                               "columns", "each"}]
        /\ mode \in [Threads -> {"LookupEntry", "Scan"}]
        /\ outcome \in [Threads -> {"none", "returned", "threw"}]
        /\ calls \in [Threads -> 0..MaxCalls] /\ transactions \in 0..MaxTransactions
    BY <2>1
  <2>. QED BY <2>2, <2>3, <2>4, <2>5, <2>6 DEF TypeOK
<1>2. OneTablePerEntry
  BY DEF OneTablePerEntry
<1>3. ASSUME NEW c \in Threads
      PROVE  ThreadInv(c)
  BY DEF ThreadInv, Mutex, HoldsLive, Asks, Progress, Locked
<1>. QED BY <1>1, <1>2, <1>3 DEF IInv

-----------------------------------------------------------------------------
(* A change of the cache that Fills leaves what it held alone.             *)
LEMMA FillsFacts ==
  ASSUME IInv, Fills
  PROVE  /\ \A f \in Folded : catalog_entries'[f] # NoEntry =>
               /\ Fold[catalog_entries'[f].name] = f
               /\ catalog_entries'[f].columns # {}
         /\ OneTablePerEntry'
         /\ \A c \in Threads : \A e \in held[c] :
               catalog_entries'[Fold[e.name]] = e
         /\ \A f \in Folded : catalog_entries[f] # NoEntry =>
               catalog_entries'[f] = catalog_entries[f]
<1> USE DEF IInv
<1>1. ASSUME NEW f \in Folded, catalog_entries'[f] # NoEntry
      PROVE  /\ Fold[catalog_entries'[f].name] = f
             /\ catalog_entries'[f].columns # {}
             /\ LET e    == catalog_entries'[f]
                    from == {column[1] : column \in e.columns}
                IN  /\ \A t \in from : Fold[t] = f
                    /\ e.name \in Distinct => from = {e.name}
  <2>1. CASE catalog_entries'[f] = catalog_entries[f]
    BY <1>1, <2>1 DEF TypeOK, OneTablePerEntry
  <2>2. CASE Fresh(f, catalog_entries'[f])
    <3> DEFINE e == catalog_entries'[f]
    <3>1. /\ Fold[e.name] = f /\ e.columns # {}
          /\ \A column \in e.columns : Fold[column[1]] = f
          /\ e.name \in Distinct => e.columns = {<<e.name, tables[e.name]>>}
      BY <2>2, FreshFacts
    <3>2. e.name \in Distinct => {column[1] : column \in e.columns} = {e.name}
      BY <3>1
    <3>. QED BY <3>1, <3>2
  <2>. QED BY <1>1, <2>1, <2>2 DEF Fills
<1>2. OneTablePerEntry'
  BY <1>1 DEF OneTablePerEntry, Distinct
<1>3. ASSUME NEW c \in Threads, NEW e \in held[c]
      PROVE  catalog_entries'[Fold[e.name]] = e
  <2>1. e \in Entry /\ e.name \in Names /\ e # NoEntry /\ Fold[e.name] \in Folded
    BY CatalogAssumption DEF TypeOK, Entry, Folded, CatalogAssumption
  <2>2. catalog_entries[Fold[e.name]] = e
    BY DEF ThreadInv, HoldsLive
  <2>. QED BY <2>1, <2>2 DEF Fills
<1>. QED BY <1>1, <1>2, <1>3 DEF Fills

LEMMA KeptFills ==
  ASSUME IInv, UNCHANGED catalog_entries
  PROVE  Fills
BY DEF IInv, TypeOK, Fills

(* A step of one thread leaves what holds of the others, if it changes the *)
(* cache and the lock only while no other thread has the lock.             *)
Alone(c) ==
    entry_lock \notin {NoThread, c} => UNCHANGED <<entry_lock, catalog_entries>>

SameFor(d) ==
    /\ pc'[d] = pc[d] /\ mode'[d] = mode[d] /\ names'[d] = names[d]
    /\ reported'[d] = reported[d] /\ steady'[d] = steady[d]
    /\ outcome'[d] = outcome[d] /\ held'[d] = held[d]

LEMMA Others ==
  ASSUME NEW c \in Threads, NEW d \in Threads \ {c}, IInv, Fills,
         UNCHANGED tables, Alone(c), SameFor(d)
  PROVE  ThreadInv(d)'
<1>0. ThreadInv(d)
  BY DEF IInv
<1>1. pc[d] \in Locked => entry_lock = d /\ entry_lock # NoThread
  BY <1>0, CatalogAssumption DEF ThreadInv, Mutex, CatalogAssumption
<1>2. pc[d] \in Locked => entry_lock' = d /\ catalog_entries' = catalog_entries
  BY <1>1 DEF Alone
<1>3. Mutex(d)'
  BY <1>2 DEF Mutex, SameFor
<1>4. HoldsLive(d)'
  BY FillsFacts DEF HoldsLive, SameFor
<1>5. Asks(d)'
  BY <1>0, <1>2 DEF ThreadInv, Asks, SameFor, Find, Locked
<1>6. Progress(d)'
  BY <1>0 DEF ThreadInv, Progress, SameFor, Exists
<1>7. mode'[d] = "Scan" => Listed(d)' /\ Due(d)'
  BY <1>0 DEF ThreadInv, Listed, Due, Reports, Distinct, SameFor
<1>. QED BY <1>3, <1>4, <1>5, <1>6, <1>7 DEF ThreadInv

(* So only the step's own thread is left to look at.                       *)
LEMMA OwnThread ==
  ASSUME NEW c \in Threads, IInv, Fills, UNCHANGED tables, Alone(c),
         \A d \in Threads \ {c} : SameFor(d),
         TypeOK', ThreadInv(c)'
  PROVE  IInv'
BY FillsFacts, Others DEF IInv

-----------------------------------------------------------------------------
(* The server and the connection.                                          *)
LEMMA ChangeTableInv ==
  ASSUME NEW t \in Tables, IInv, ChangeTable(t)
  PROVE  IInv'
<1> USE DEF IInv, ChangeTable
<1>0. PICK v \in {changes + 1} \cup {0} : tables' = [tables EXCEPT ![t] = v]
  OBVIOUS
<1>1. tables' \in [Tables -> Nat] /\ changes' \in Nat
  BY <1>0 DEF TypeOK
<1>2. \A s \in Tables : s # t => tables'[s] = tables[s]
  BY <1>0 DEF TypeOK
<1>3. steady' \in [Threads -> SUBSET Tables]
  BY DEF TypeOK
<1>4. \A c \in Threads : steady'[c] \subseteq steady[c]
  OBVIOUS
<1>5. TypeOK'
  BY <1>1, <1>3 DEF TypeOK
<1>6. OneTablePerEntry'
  BY DEF OneTablePerEntry, Distinct
<1>7. ASSUME NEW c \in Threads PROVE ThreadInv(c)'
  <2>0. ThreadInv(c)
    OBVIOUS
  <2>1. \A s \in steady'[c] : Exists(s)'
    BY <2>0, <1>2, <1>4 DEF ThreadInv, Progress, Exists, TypeOK
  <2>2. Progress(c)'
    BY <2>0, <2>1 DEF ThreadInv, Progress
  <2>3. Mutex(c)' /\ HoldsLive(c)' /\ Asks(c)'
    BY <2>0 DEF ThreadInv, Mutex, HoldsLive, Asks, Find
  <2>4. mode'[c] = "Scan" => Listed(c)' /\ Due(c)'
    BY <2>0, <1>4 DEF ThreadInv, Listed, Due, Reports, Distinct
  <2>. QED BY <2>2, <2>3, <2>4 DEF ThreadInv
<1>. QED BY <1>5, <1>6, <1>7

LEMMA ConnectionBreaksInv ==
  ASSUME IInv, ConnectionBreaks
  PROVE  IInv'
<1> USE DEF IInv, ConnectionBreaks
<1>1. TypeOK' /\ OneTablePerEntry'
  BY DEF TypeOK, OneTablePerEntry, Distinct
<1>2. ASSUME NEW c \in Threads PROVE ThreadInv(c)'
  BY DEF ThreadInv, Mutex, HoldsLive, Asks, Find, Progress, Exists, Listed, Due,
         Reports, Distinct
<1>. QED BY <1>1, <1>2

-----------------------------------------------------------------------------
(* The beginning of a call, and calls that end at once.                    *)
LEMMA CallTypes ==
  ASSUME TypeOK,
         UNCHANGED <<tables, changes, entry_lock, connection, catalog_entries, made,
                     held, transactions>>,
         calls' \in [Threads -> 0..MaxCalls],
         names' \in [Threads -> Seq(Names)], reported' \in [Threads -> Seq(Entry)],
         steady' \in [Threads -> SUBSET Tables],
         pc' \in [Threads -> {"idle", "find", "query", "load", "list",
                             "columns", "each"}],
         mode' \in [Threads -> {"LookupEntry", "Scan"}],
         outcome' \in [Threads -> {"none", "returned", "threw"}]
  PROVE  TypeOK'
BY DEF TypeOK

LEMMA LookupEntryInv ==
  ASSUME NEW c \in Threads, IInv, LookupEntry(c)
  PROVE  IInv'
<1> USE DEF IInv, LookupEntry, Call
<1>1. PICK n \in Names : names' = [names EXCEPT ![c] = <<n>>]
  OBVIOUS
<1>2. <<n>> \in Seq(Names) /\ <<n>> # <<>> /\ calls[c] + 1 \in 0..MaxCalls
  BY CatalogAssumption DEF TypeOK, CatalogAssumption
<1>3. TypeOK'
  <2>1. calls' \in [Threads -> 0..MaxCalls]
    BY <1>2 DEF TypeOK
  <2>2. names' \in [Threads -> Seq(Names)]
    BY <1>1, <1>2 DEF TypeOK
  <2>3. reported' \in [Threads -> Seq(Entry)] /\ steady' \in [Threads -> SUBSET Tables]
    BY DEF TypeOK
  <2>4. UNCHANGED <<tables, changes, entry_lock, connection, catalog_entries, made,
                    held, transactions>>
    OBVIOUS
  <2>5. /\ pc' \in [Threads -> {"idle", "find", "query", "load", "list",
                                "columns", "each"}]
        /\ mode' \in [Threads -> {"LookupEntry", "Scan"}]
        /\ outcome' \in [Threads -> {"none", "returned", "threw"}]
    BY DEF TypeOK
  <2>. QED BY <2>1, <2>2, <2>3, <2>4, <2>5, CallTypes
<1>4. \A d \in Threads \ {c} : SameFor(d)
  BY <1>1 DEF SameFor, TypeOK
<1>5. ThreadInv(c)'
  <2>1. /\ pc'[c] = "find" /\ mode'[c] = "LookupEntry" /\ names'[c] = <<n>>
        /\ outcome'[c] = "none" /\ steady'[c] = {} /\ held'[c] = held[c]
        /\ reported'[c] = <<>>
    BY <1>1 DEF TypeOK
  <2>2. ThreadInv(c)
    OBVIOUS
  <2>. QED BY <1>2, <2>1, <2>2 DEF ThreadInv, Mutex, HoldsLive, Asks, Progress, Locked
<1>. QED BY <1>3, <1>4, <1>5, KeptFills, OwnThread DEF Alone

LEMMA ScanInv ==
  ASSUME NEW c \in Threads, IInv, Scan(c)
  PROVE  IInv'
<1> USE DEF IInv, Scan, Call
<1>2. calls[c] + 1 \in 0..MaxCalls /\ {t \in Tables : Exists(t)} \subseteq Tables
  BY CatalogAssumption DEF TypeOK, CatalogAssumption
<1>3. TypeOK'
  <2>1. calls' \in [Threads -> 0..MaxCalls]
    BY <1>2 DEF TypeOK
  <2>2. names' \in [Threads -> Seq(Names)] /\ reported' \in [Threads -> Seq(Entry)]
    BY DEF TypeOK
  <2>3. steady' \in [Threads -> SUBSET Tables]
    BY <1>2 DEF TypeOK
  <2>4. UNCHANGED <<tables, changes, entry_lock, connection, catalog_entries, made,
                    held, transactions>>
    OBVIOUS
  <2>5. /\ pc' \in [Threads -> {"idle", "find", "query", "load", "list",
                                "columns", "each"}]
        /\ mode' \in [Threads -> {"LookupEntry", "Scan"}]
        /\ outcome' \in [Threads -> {"none", "returned", "threw"}]
    BY DEF TypeOK
  <2>. QED BY <2>1, <2>2, <2>3, <2>4, <2>5, CallTypes
<1>4. \A d \in Threads \ {c} : SameFor(d)
  BY DEF SameFor, TypeOK
<1>5. ThreadInv(c)'
  <2>1. /\ pc'[c] = "load" /\ mode'[c] = "Scan"
        /\ names'[c] = <<>> /\ reported'[c] = <<>>
        /\ outcome'[c] = "none" /\ steady'[c] = {t \in Tables : Exists(t)}
        /\ held'[c] = held[c]
    BY DEF TypeOK
  <2>2. ThreadInv(c)
    OBVIOUS
  <2>3. Mutex(c)' /\ HoldsLive(c)' /\ Asks(c)' /\ Progress(c)'
    BY <2>1, <2>2 DEF ThreadInv, Mutex, HoldsLive, Asks, Progress, Locked, Exists
  <2>4. <<>> \in Seq(Tables) /\ DOMAIN <<>> = {} /\ IsInjective(<<>>)
    BY DEF IsInjective
  <2>5. Listed(c)' /\ Due(c)'
    BY <2>1, <2>4 DEF Listed, Due
  <2>. QED BY <2>3, <2>5 DEF ThreadInv
<1>. QED BY <1>3, <1>4, <1>5, KeptFills, OwnThread DEF Alone

LEMMA EndsAtOnceInv ==
  ASSUME NEW c \in Threads, NEW how \in {"returned", "threw"},
         IInv, EndsAtOnce(c, how)
  PROVE  IInv'
<1> USE DEF IInv, EndsAtOnce
<1>2. calls[c] + 1 \in 0..MaxCalls
  BY CatalogAssumption DEF TypeOK, CatalogAssumption
<1>3. TypeOK'
  <2>1. calls' \in [Threads -> 0..MaxCalls]
    BY <1>2 DEF TypeOK
  <2>2. names' \in [Threads -> Seq(Names)] /\ reported' \in [Threads -> Seq(Entry)]
    BY DEF TypeOK
  <2>3. steady' \in [Threads -> SUBSET Tables]
    BY <1>2 DEF TypeOK
  <2>4. UNCHANGED <<tables, changes, entry_lock, connection, catalog_entries, made,
                    held, transactions>>
    OBVIOUS
  <2>5. /\ pc' \in [Threads -> {"idle", "find", "query", "load", "list",
                                "columns", "each"}]
        /\ mode' \in [Threads -> {"LookupEntry", "Scan"}]
        /\ outcome' \in [Threads -> {"none", "returned", "threw"}]
    BY DEF TypeOK
  <2>. QED BY <2>1, <2>2, <2>3, <2>4, <2>5, CallTypes
<1>4. \A d \in Threads \ {c} : SameFor(d)
  BY DEF SameFor, TypeOK
<1>5. ThreadInv(c)'
  <2>1. /\ pc'[c] = "idle" /\ mode'[c] = "LookupEntry" /\ steady'[c] = {}
        /\ held'[c] = held[c] /\ reported'[c] = <<>>
    BY DEF TypeOK
  <2>2. ThreadInv(c)
    OBVIOUS
  <2>. QED BY <2>1, <2>2 DEF ThreadInv, Mutex, HoldsLive, Asks, Progress, Locked
<1>. QED BY <1>3, <1>4, <1>5, KeptFills, OwnThread DEF Alone

-----------------------------------------------------------------------------
(* Steps that take the lock or go on in a call.                            *)
LEMMA FindMissInv ==
  ASSUME NEW c \in Threads, IInv, FindMiss(c)
  PROVE  IInv'
<1> USE DEF IInv, FindMiss, Acquire
<1>3. TypeOK'
  BY DEF TypeOK
<1>4. \A d \in Threads \ {c} : SameFor(d)
  BY DEF SameFor, TypeOK
<1>5. ThreadInv(c)'
  <2>1. /\ pc'[c] = "query" /\ entry_lock' = c /\ pc[c] = "find"
    BY DEF TypeOK
  <2>2. ThreadInv(c)
    OBVIOUS
  <2>3. Mutex(c)' /\ HoldsLive(c)' /\ Asks(c)' /\ Progress(c)'
    BY <2>1, <2>2 DEF ThreadInv, Mutex, HoldsLive, Asks, Progress, Find, Exists
  <2>4. mode'[c] = "Scan" => Listed(c)' /\ Due(c)'
    BY <2>1, <2>2 DEF ThreadInv, Listed, Due, Reports, Distinct
  <2>. QED BY <2>3, <2>4 DEF ThreadInv
<1>. QED BY <1>3, <1>4, <1>5, KeptFills, OwnThread DEF Alone

LEMMA LoadInv ==
  ASSUME NEW c \in Threads, IInv, Load(c)
  PROVE  IInv'
<1> USE DEF IInv, Load, Acquire
<1>3. TypeOK'
  BY DEF TypeOK
<1>4. \A d \in Threads \ {c} : SameFor(d)
  BY DEF SameFor, TypeOK
<1>5. ThreadInv(c)'
  <2>1. /\ pc'[c] = "list" /\ entry_lock' = c /\ pc[c] = "load"
    BY DEF TypeOK
  <2>2. ThreadInv(c)
    OBVIOUS
  <2>3. Mutex(c)' /\ HoldsLive(c)' /\ Asks(c)' /\ Progress(c)'
    BY <2>1, <2>2 DEF ThreadInv, Mutex, HoldsLive, Asks, Progress, Exists
  <2>4. mode'[c] = "Scan" => Listed(c)' /\ Due(c)'
    BY <2>1, <2>2 DEF ThreadInv, Listed, Due, Reports, Distinct, Progress
  <2>. QED BY <2>3, <2>4 DEF ThreadInv
<1>. QED BY <1>3, <1>4, <1>5, KeptFills, OwnThread DEF Alone

LEMMA GetTablesInv ==
  ASSUME NEW c \in Threads, IInv, GetTables(c)
  PROVE  IInv'
<1> USE DEF IInv, GetTables
<1>1. PICK n \in 0..Cardinality(Tables) : \E list \in [1..n -> Tables] :
        ListTables(list) /\ names' = [names EXCEPT ![c] = list]
  OBVIOUS
<1>2. PICK list \in [1..n -> Tables] :
        ListTables(list) /\ names' = [names EXCEPT ![c] = list]
  BY <1>1
<1>3. n \in Nat /\ list \in Seq(Tables) /\ list \in Seq(Names)
  <2>1. n \in Nat
    BY FS_CardinalityType, CatalogAssumption DEF CatalogAssumption
  <2>2. list \in [1..n -> Names]
    BY CatalogAssumption DEF CatalogAssumption
  <2>. QED BY <2>1, <2>2
<1>4. TypeOK'
  BY <1>2, <1>3 DEF TypeOK, Answered, Connect
<1>5. \A d \in Threads \ {c} : SameFor(d)
  BY <1>2 DEF SameFor, TypeOK
<1>6. ThreadInv(c)'
  <2>1. /\ pc'[c] = "columns" /\ pc[c] = "list" /\ names'[c] = list
    BY <1>2 DEF TypeOK
  <2>2. ThreadInv(c) /\ reported[c] = <<>> /\ outcome[c] = "none"
    BY <2>1 DEF ThreadInv, Progress
  <2>3. Mutex(c)' /\ HoldsLive(c)' /\ Asks(c)' /\ Progress(c)'
    BY <2>1, <2>2 DEF ThreadInv, Mutex, HoldsLive, Asks, Progress, Exists, Locked
  <2>4. IsInjective(list)
    <3>1. \A i, j \in 1..n : i < j => Place[list[i]] < Place[list[j]]
      BY <1>2 DEF ListTables
    <3>2. \A i \in 1..n : Place[list[i]] \in Nat
      BY CatalogAssumption DEF CatalogAssumption
    <3>3. \A i, j \in 1..n : list[i] = list[j] => i = j
      BY <1>3, <3>1, <3>2
    <3>. QED BY <3>3 DEF IsInjective
  <2>5. Listed(c)'
    BY <2>1, <2>2, <2>4, <1>3 DEF Listed
  <2>6. \A t \in steady[c] : t \in Range(list)
    BY <2>2, <1>2 DEF ThreadInv, Progress, ListTables, TypeOK, Range
  <2>7. Due(c)'
    BY <2>1, <2>2, <2>6 DEF Due
  <2>. QED BY <2>3, <2>5, <2>7 DEF ThreadInv
<1>. QED BY <1>4, <1>5, <1>6, KeptFills, OwnThread DEF Alone

LEMMA EachTableInv ==
  ASSUME NEW c \in Threads, IInv, EachTable(c)
  PROVE  IInv'
<1> USE DEF IInv, EachTable, Ends
<1>3. TypeOK'
  BY DEF TypeOK
<1>4. \A d \in Threads \ {c} : SameFor(d)
  BY DEF SameFor, TypeOK
<1>5. ThreadInv(c)'
  <2>0. ThreadInv(c) /\ pc[c] = "each"
    OBVIOUS
  <2>1. CASE names[c] = <<>>
    <3>1. pc'[c] = "idle" /\ outcome'[c] = "returned"
      BY <2>1 DEF TypeOK
    <3>2. Mutex(c)' /\ HoldsLive(c)' /\ Asks(c)' /\ Progress(c)'
      BY <2>0, <3>1 DEF ThreadInv, Mutex, HoldsLive, Asks, Progress, Exists, Locked
    <3>3. mode'[c] = "Scan" => Listed(c)' /\ Due(c)'
      BY <2>0, <2>1, <3>1 DEF ThreadInv, Listed, Due, Reports, Distinct
    <3>. QED BY <3>2, <3>3 DEF ThreadInv
  <2>2. CASE names[c] # <<>>
    <3>1. pc'[c] = "find" /\ outcome'[c] = outcome[c]
      BY <2>2 DEF TypeOK
    <3>2. Mutex(c)' /\ HoldsLive(c)' /\ Asks(c)' /\ Progress(c)'
      BY <2>0, <2>2, <3>1 DEF ThreadInv, Mutex, HoldsLive, Asks, Progress, Exists, Locked
    <3>3. mode'[c] = "Scan" => Listed(c)' /\ Due(c)'
      BY <2>0, <3>1 DEF ThreadInv, Listed, Due, Reports, Distinct
    <3>. QED BY <3>2, <3>3 DEF ThreadInv
  <2>. QED BY <2>1, <2>2
<1>. QED BY <1>3, <1>4, <1>5, KeptFills, OwnThread DEF Alone

LEMMA QueryThrowsInv ==
  ASSUME NEW c \in Threads, IInv, QueryThrows(c)
  PROVE  IInv'
<1> USE DEF IInv, QueryThrows, Ends, Release, Refused
<1>3. TypeOK'
  BY DEF TypeOK
<1>4. \A d \in Threads \ {c} : SameFor(d)
  BY DEF SameFor, TypeOK
<1>5. ThreadInv(c) /\ entry_lock = c
  BY DEF ThreadInv, Mutex, Locked
<1>6. ThreadInv(c)'
  <2>1. pc'[c] = "idle" /\ outcome'[c] = "threw"
    BY DEF TypeOK
  <2>2. Mutex(c)' /\ HoldsLive(c)' /\ Asks(c)' /\ Progress(c)'
    BY <2>1, <1>5 DEF ThreadInv, Mutex, HoldsLive, Asks, Progress, Exists, Locked
  <2>3. mode'[c] = "Scan" => Listed(c)' /\ Due(c)'
    BY <2>1, <1>5 DEF ThreadInv, Listed, Due, Reports, Distinct
  <2>. QED BY <2>2, <2>3 DEF ThreadInv
<1>. QED BY <1>3, <1>4, <1>5, <1>6, KeptFills, OwnThread DEF Alone

-----------------------------------------------------------------------------
(* The second query of LoadAllEntries, and the loop after it.              *)
LEMMA LoadTypes ==
  ASSUME IInv, Fills,
         UNCHANGED <<tables, changes, mode, names, reported, steady, held, calls,
                     transactions>>,
         entry_lock' \in Threads \cup {NoThread},
         connection' \in {"closed", "open", "broken"}, made' \in Nat,
         pc' \in [Threads -> {"idle", "find", "query", "load", "list",
                             "columns", "each"}],
         outcome' \in [Threads -> {"none", "returned", "threw"}]
  PROVE  TypeOK'
<1>1. /\ catalog_entries' \in [Folded -> Entry \cup {NoEntry}]
      /\ \A f \in Folded : catalog_entries'[f] # NoEntry =>
           /\ Fold[catalog_entries'[f].name] = f
           /\ catalog_entries'[f].columns # {}
  BY FillsFacts DEF Fills
<1>. QED BY <1>1 DEF IInv, TypeOK

LEMMA GetAllTableColumnsFills ==
  ASSUME NEW c \in Threads, IInv, GetAllTableColumns(c)
  PROVE  Fills
<1>1. names[c] \in Seq(Tables)
  BY DEF IInv, GetAllTableColumns, ThreadInv, Progress, Listed
<1>. QED BY <1>1, LoadedFills DEF IInv, GetAllTableColumns

LEMMA GetAllTableColumnsInv ==
  ASSUME NEW c \in Threads, IInv, GetAllTableColumns(c)
  PROVE  IInv'
<1> USE DEF IInv, GetAllTableColumns, Release
<1>1. ThreadInv(c) /\ entry_lock = c /\ names[c] \in Seq(Tables)
  BY DEF ThreadInv, Mutex, Locked, Progress, Listed
<1>2. Fills
  BY GetAllTableColumnsFills
<1>3. TypeOK'
  <2>1. /\ entry_lock' = NoThread /\ connection' = "open" /\ made' \in Nat
        /\ pc' \in [Threads -> {"idle", "find", "query", "load", "list",
                                "columns", "each"}]
        /\ outcome' \in [Threads -> {"none", "returned", "threw"}]
    BY DEF TypeOK, Answered, Connect
  <2>. QED BY <1>2, <2>1, LoadTypes
<1>4. \A d \in Threads \ {c} : SameFor(d)
  BY DEF SameFor, TypeOK
<1>5. ThreadInv(c)'
  <2>1. pc'[c] = "each" /\ pc[c] = "columns" /\ outcome[c] = "none"
    BY <1>1 DEF TypeOK, ThreadInv, Progress
  <2>2. HoldsLive(c)'
    BY <1>2, FillsFacts DEF HoldsLive
  <2>3. Mutex(c)' /\ Asks(c)' /\ Progress(c)'
    BY <1>1, <2>1 DEF ThreadInv, Mutex, Asks, Progress, Exists, Locked
  <2>4. mode'[c] = "Scan" => Listed(c)' /\ Due(c)'
    BY <1>1, <2>1 DEF ThreadInv, Listed, Due, Reports, Distinct
  <2>. QED BY <2>2, <2>3, <2>4 DEF ThreadInv
<1>. QED BY <1>1, <1>2, <1>3, <1>4, <1>5, OwnThread DEF Alone

LEMMA ColumnsClashFills ==
  ASSUME NEW c \in Threads, IInv, ColumnsClash(c)
  PROVE  Fills
<1>1. names[c] \in Seq(Tables)
  BY DEF IInv, ColumnsClash, ThreadInv, Progress, Listed
<1>2. PICK i \in DOMAIN names[c] :
        catalog_entries' = Loaded(SubSeq(names[c], 1, i - 1))
  BY DEF ColumnsClash
<1>3. SubSeq(names[c], 1, i - 1) \in Seq(Tables)
  BY <1>1
<1>. QED BY <1>2, <1>3, LoadedFills DEF IInv

LEMMA ColumnsClashInv ==
  ASSUME NEW c \in Threads, IInv, ColumnsClash(c)
  PROVE  IInv'
<1>2. Fills
  BY ColumnsClashFills
<1> USE DEF IInv, ColumnsClash, Release, Ends
<1>1. ThreadInv(c) /\ entry_lock = c /\ names[c] \in Seq(Tables)
  BY DEF ThreadInv, Mutex, Locked, Progress, Listed
<1>3. TypeOK'
  <2>1. /\ entry_lock' = NoThread /\ connection' = "open" /\ made' \in Nat
        /\ pc' \in [Threads -> {"idle", "find", "query", "load", "list",
                                "columns", "each"}]
        /\ outcome' \in [Threads -> {"none", "returned", "threw"}]
    BY DEF TypeOK, Answered, Connect
  <2>. QED BY <1>2, <2>1, LoadTypes
<1>4. \A d \in Threads \ {c} : SameFor(d)
  BY DEF SameFor, TypeOK
<1>5. ThreadInv(c)'
  <2>1. pc'[c] = "idle" /\ outcome'[c] = "threw"
    BY DEF TypeOK
  <2>2. HoldsLive(c)'
    BY <1>2, FillsFacts DEF HoldsLive
  <2>3. Mutex(c)' /\ Asks(c)' /\ Progress(c)'
    BY <1>1, <2>1 DEF ThreadInv, Mutex, Asks, Progress, Exists, Locked
  <2>4. mode'[c] = "Scan" => Listed(c)' /\ Due(c)'
    BY <1>1, <2>1 DEF ThreadInv, Listed, Due, Reports, Distinct
  <2>. QED BY <2>2, <2>3, <2>4 DEF ThreadInv
<1>. QED BY <1>1, <1>2, <1>3, <1>4, <1>5, OwnThread DEF Alone

-----------------------------------------------------------------------------
(* GetCatalogEntry returns, with an entry that is in the cache, or with    *)
(* none if there is no such table.                                         *)
Returns(c, entry) ==
    LET n == Head(names[c])
    IN  /\ pc[c] \in {"find", "query"}
        /\ Return(c, entry)
        /\ entry # NoEntry => /\ entry \in Entry /\ Fold[entry.name] = Fold[n]
                             /\ catalog_entries'[Fold[n]] = entry
        /\ entry = NoEntry => ~(n \in Tables /\ Exists(n))
        /\ entry_lock' \in {entry_lock, NoThread}
        /\ connection' \in {"closed", "open", "broken"} /\ made' \in Nat
        /\ UNCHANGED <<server, counts>>

LEMMA ReturnTypes ==
  ASSUME NEW c \in Threads, NEW entry \in Entry \cup {NoEntry},
         IInv, Fills, Returns(c, entry)
  PROVE  TypeOK'
<1> USE DEF IInv, Returns, Return, Ends
<1>1. names[c] \in Seq(Names) /\ names[c] # <<>>
  BY DEF TypeOK, ThreadInv, Asks
<1>2. Tail(names[c]) \in Seq(Names)
  BY <1>1
<1>3. /\ catalog_entries' \in [Folded -> Entry \cup {NoEntry}]
      /\ \A f \in Folded : catalog_entries'[f] # NoEntry =>
           /\ Fold[catalog_entries'[f].name] = f
           /\ catalog_entries'[f].columns # {}
  BY FillsFacts DEF Fills
<1>4. names' \in [Threads -> Seq(Names)]
  BY <1>2 DEF TypeOK
<1>5. held' \in [Threads -> SUBSET Entry]
  BY DEF TypeOK
<1>6. reported' \in [Threads -> Seq(Entry)]
  <2>1. reported \in [Threads -> Seq(Entry)]
    BY DEF TypeOK
  <2>2. CASE mode[c] # "Scan"
    BY <2>1, <2>2
  <2>3. CASE mode[c] = "Scan" /\ entry = NoEntry
    BY <2>1, <2>3
  <2>4. CASE mode[c] = "Scan" /\ entry # NoEntry
    <3>1. Append(reported[c], entry) \in Seq(Entry)
      BY <2>1, <2>4
    <3>2. reported' = [reported EXCEPT ![c] = Append(reported[c], entry)]
      BY <2>1, <2>4
    <3>. QED BY <2>1, <3>1, <3>2
  <2>. QED BY <2>2, <2>3, <2>4
<1>7. /\ pc' \in [Threads -> {"idle", "find", "query", "load", "list",
                              "columns", "each"}]
      /\ outcome' \in [Threads -> {"none", "returned", "threw"}]
  BY DEF TypeOK
<1>8. entry_lock' \in Threads \cup {NoThread}
  BY DEF TypeOK
<1>. QED BY <1>3, <1>4, <1>5, <1>6, <1>7, <1>8 DEF TypeOK

(* What Listed and Due say of the thread that gets the answer.             *)
LEMMA ReturnScan ==
  ASSUME NEW c \in Threads, NEW entry \in Entry \cup {NoEntry},
         IInv, Fills, Returns(c, entry), mode[c] = "Scan"
  PROVE  Listed(c)' /\ Due(c)'
<1> USE DEF IInv, Returns, Return
<1> DEFINE n == Head(names[c])
<1>1. /\ ThreadInv(c) /\ names[c] \in Seq(Tables) /\ names[c] # <<>>
      /\ IsInjective(names[c]) /\ outcome[c] = "none"
  BY DEF ThreadInv, Asks, Listed, Progress
<1>2. /\ n \in Tables /\ Tail(names[c]) \in Seq(Tables)
      /\ Range(names[c]) = {n} \cup Range(Tail(names[c]))
      /\ IsInjective(Tail(names[c])) /\ n \notin Range(Tail(names[c]))
  <2>1. names[c] \in Seq(Tables) /\ names[c] # <<>> /\ IsInjective(names[c])
    BY <1>1
  <2>. QED BY <2>1, TailFacts
<1>3. /\ names'[c] = Tail(names[c]) /\ outcome'[c] = outcome[c]
      /\ steady'[c] = steady[c]
      /\ reported'[c] = IF entry = NoEntry THEN reported[c]
                        ELSE Append(reported[c], entry)
  BY DEF TypeOK
<1>4. reported[c] \in Seq(Entry)
  BY DEF TypeOK
<1>5. \A t \in Distinct : Fold[t] = Fold[n] => t = n
  BY <1>2 DEF Distinct
<1>6. CASE entry = NoEntry
  <2>1. reported'[c] = reported[c]
    BY <1>3, <1>6
  <2>2. Listed(c)'
    BY <1>1, <1>2, <1>3, <2>1 DEF ThreadInv, Listed, Distinct
  <2>3. n \notin steady[c]
    BY <1>1, <1>2, <1>6 DEF ThreadInv, Progress
  <2>4. Due(c)'
    BY <1>1, <1>2, <1>3, <2>1, <2>3 DEF ThreadInv, Due, Reports
  <2>. QED BY <2>2, <2>4
<1>7. CASE entry # NoEntry
  <2> DEFINE k == Len(reported[c]) + 1
  <2>1. /\ DOMAIN reported'[c] = DOMAIN reported[c] \cup {k} /\ k \notin DOMAIN reported[c]
        /\ \A i \in DOMAIN reported[c] : reported'[c][i] = reported[c][i]
        /\ reported'[c][k] = entry
    BY <1>3, <1>4, <1>7, AppendFacts
  <2>2. Fold[entry.name] = Fold[n]
    BY <1>7
  <2>3. entry.name \in Distinct => entry.name = n
    BY <1>5, <2>2
  <2>4. ASSUME NEW i \in DOMAIN reported[c], reported[c][i].name \in Distinct
        PROVE  /\ reported[c][i].name \notin Range(names[c])
               /\ reported[c][i] # entry
               /\ \A j \in DOMAIN reported[c] :
                     reported[c][i] = reported[c][j] => i = j
    <3>1. reported[c][i].name \notin Range(names[c])
      BY <1>1, <2>4 DEF ThreadInv, Listed
    <3>2. reported[c][i].name # n
      BY <3>1, <1>2
    <3>. QED BY <1>1, <2>3, <2>4, <3>1, <3>2 DEF ThreadInv, Listed
  <2>5. ASSUME NEW i \in DOMAIN reported'[c], reported'[c][i].name \in Distinct
        PROVE  /\ reported'[c][i].name \notin Range(Tail(names[c]))
               /\ \A j \in DOMAIN reported'[c] :
                     reported'[c][i] = reported'[c][j] => i = j
    <3>1. CASE i = k
      BY <3>1, <1>2, <2>1, <2>3, <2>4, <2>5
    <3>2. CASE i # k
      BY <3>2, <1>2, <2>1, <2>4, <2>5
    <3>. QED BY <3>1, <3>2
  <2>6. Listed(c)'
    BY <1>2, <1>3, <2>5 DEF Listed, Distinct
  <2>7. ASSUME NEW t \in steady[c]
        PROVE  t \in Range(Tail(names[c])) \/ Reports(c, t)'
    <3>1. CASE t = n
      BY <2>1, <2>2, <3>1 DEF Reports
    <3>2. CASE Reports(c, t)
      BY <2>1, <3>2 DEF Reports
    <3>3. t \in Range(names[c]) \/ Reports(c, t)
      BY <1>1 DEF ThreadInv, Due
    <3>. QED BY <3>1, <3>2, <3>3, <1>2
  <2>8. Due(c)'
    BY <1>1, <1>3, <2>7 DEF Due
  <2>. QED BY <2>6, <2>8
<1>. QED BY <1>6, <1>7

LEMMA ReturnInv ==
  ASSUME NEW c \in Threads, NEW entry \in Entry \cup {NoEntry},
         IInv, Fills, Returns(c, entry), Alone(c)
  PROVE  IInv'
<1> USE DEF IInv, Returns, Return, Ends
<1>1. TypeOK'
  BY ReturnTypes
<1>2. \A d \in Threads \ {c} : SameFor(d)
  BY DEF SameFor, TypeOK
<1>3. ThreadInv(c)'
  <2>1. /\ pc'[c] = (IF mode[c] = "Scan" THEN "each" ELSE "idle")
        /\ mode'[c] = mode[c] /\ steady'[c] = steady[c]
        /\ held'[c] = held[c] \cup ({entry} \ {NoEntry})
        /\ mode[c] = "Scan" => outcome'[c] = outcome[c]
    BY DEF TypeOK
  <2>2. ThreadInv(c)
    OBVIOUS
  <2>3. HoldsLive(c)'
    <3>1. \A e \in held[c] : catalog_entries'[Fold[e.name]] = e
      BY FillsFacts
    <3>. QED BY <3>1, <2>1 DEF HoldsLive
  <2>4. Mutex(c)' /\ Asks(c)' /\ Progress(c)'
    BY <2>1, <2>2 DEF ThreadInv, Mutex, Asks, Progress, Locked, Exists
  <2>5. mode'[c] = "Scan" => Listed(c)' /\ Due(c)'
    BY <2>1, ReturnScan
  <2>. QED BY <2>3, <2>4, <2>5 DEF ThreadInv
<1>. QED BY <1>1, <1>2, <1>3, OwnThread

LEMMA FindHitInv ==
  ASSUME NEW c \in Threads, IInv, FindHit(c)
  PROVE  IInv'
<1> USE DEF IInv, FindHit
<1> DEFINE entry == Find(Head(names[c]))
<1>1. names[c] \in Seq(Names) /\ names[c] # <<>>
  BY DEF TypeOK, ThreadInv, Asks
<1>2. Head(names[c]) \in Names /\ Fold[Head(names[c])] \in Folded
  BY <1>1 DEF Folded
<1>3. entry \in Entry /\ Fold[entry.name] = Fold[Head(names[c])]
  BY <1>2 DEF TypeOK, Find
<1>4. Returns(c, entry)
  BY <1>3 DEF Returns, Find, TypeOK
<1>. QED BY <1>3, <1>4, KeptFills, ReturnInv DEF Alone

LEMMA MakeTableEntryInv ==
  ASSUME NEW c \in Threads, IInv, MakeTableEntry(c)
  PROVE  IInv' /\ Fills
<1> USE DEF IInv, MakeTableEntry, Release
<1> DEFINE n     == Head(names[c])
           entry == NewEntry(n, TableColumns(n))
<1>1. ThreadInv(c) /\ names[c] \in Seq(Names) /\ names[c] # <<>> /\ Find(n) = NoEntry
  BY DEF TypeOK, ThreadInv, Asks
<1>2. n \in Names /\ Fold[n] \in Folded /\ n \in Tables
  BY <1>1, TailFacts, ColumnsFacts DEF Folded
<1>3. Fresh(Fold[n], entry)
  <2>1. made + 1 \in Nat /\ TableColumns(n) # {}
    BY DEF TypeOK
  <2>2. entry = [id |-> made + 1, name |-> n, columns |-> TableColumns(n)]
    BY DEF NewEntry
  <2> HIDE DEF n, entry
  <2>. QED BY <1>2, <2>1, <2>2 DEF Fresh
<1>4. entry \in Entry /\ entry # NoEntry /\ Fold[entry.name] = Fold[n]
  BY <1>2, <1>3, FreshFacts
<1>5. catalog_entries' = [catalog_entries EXCEPT ![Fold[n]] = entry]
  OBVIOUS
<1>6. Fills
  BY <1>1, <1>2, <1>3, <1>4, <1>5 DEF Fills, TypeOK, Find
<1>7. catalog_entries'[Fold[n]] = entry
  BY <1>2, <1>5 DEF TypeOK
<1>8. entry_lock = c
  BY <1>1 DEF ThreadInv, Mutex, Locked
<1>9. Returns(c, entry)
  <2>1. made' \in Nat /\ connection' = "open"
    BY DEF TypeOK, Answered, Connect
  <2>. QED BY <1>4, <1>7, <2>1 DEF Returns
<1>. QED BY <1>4, <1>6, <1>8, <1>9, ReturnInv DEF Alone

LEMMA NotATableInv ==
  ASSUME NEW c \in Threads, IInv, NotATable(c)
  PROVE  IInv'
<1> USE DEF IInv, NotATable, Release
<1>1. ThreadInv(c) /\ names[c] \in Seq(Names) /\ names[c] # <<>> /\ entry_lock = c
  BY DEF TypeOK, ThreadInv, Asks, Mutex, Locked
<1>2. ~(Head(names[c]) \in Tables /\ Exists(Head(names[c])))
  BY <1>1, TailFacts, ColumnsFacts
<1>3. Returns(c, NoEntry)
  BY <1>2 DEF Returns, TypeOK, Answered, Connect
<1>. QED BY <1>1, <1>3, KeptFills, ReturnInv DEF Alone

LEMMA EndTransactionInv ==
  ASSUME IInv, EndTransaction
  PROVE  IInv'
<1> USE DEF IInv, EndTransaction, Close
<1>1. \A f \in Folded : catalog_entries'[f] = NoEntry
  OBVIOUS
<1>2. TypeOK'
  BY <1>1, CatalogAssumption DEF TypeOK, CatalogAssumption
<1>3. OneTablePerEntry'
  BY <1>1 DEF OneTablePerEntry
<1>4. ASSUME NEW c \in Threads PROVE ThreadInv(c)'
  <2>1. /\ pc'[c] = "idle" /\ mode'[c] = "LookupEntry" /\ steady'[c] = {}
        /\ held'[c] = {}
    OBVIOUS
  <2>. QED BY <2>1 DEF ThreadInv, Mutex, HoldsLive, Asks, Progress, Locked
<1>. QED BY <1>2, <1>3, <1>4

LEMMA StepInv == IInv /\ [Next]_vars => IInv'
<1> SUFFICES ASSUME IInv, [Next]_vars PROVE IInv'
  OBVIOUS
<1>1. CASE UNCHANGED vars
  <2>1. TypeOK' /\ OneTablePerEntry'
    BY <1>1 DEF IInv, vars, TypeOK, OneTablePerEntry, Distinct
  <2>2. ASSUME NEW c \in Threads PROVE ThreadInv(c)'
    BY <1>1 DEF IInv, vars, ThreadInv, Mutex, HoldsLive, Asks, Find, Progress,
                Exists, Listed, Due, Reports, Distinct
  <2>. QED BY <2>1, <2>2 DEF IInv
<1>2. ASSUME NEW c \in Threads, LookupEntry(c) \/ Scan(c)
      PROVE  IInv'
  BY <1>2, LookupEntryInv, ScanInv
<1>3. ASSUME NEW c \in Threads,
             \/ LookupOtherSchema(c) \/ OtherTypes(c)
             \/ CreateAlterDrop(c) \/ PlanWrite(c)
      PROVE  IInv'
  BY <1>3, EndsAtOnceInv
     DEF LookupOtherSchema, OtherTypes, CreateAlterDrop, PlanWrite
<1>4. ASSUME NEW c \in Threads, Step(c)
      PROVE  IInv'
  BY <1>4, FindHitInv, FindMissInv, MakeTableEntryInv, NotATableInv, LoadInv,
     GetTablesInv, GetAllTableColumnsInv, ColumnsClashInv, EachTableInv,
     QueryThrowsInv DEF Step
<1>. QED BY <1>1, <1>2, <1>3, <1>4, ChangeTableInv, ConnectionBreaksInv,
         EndTransactionInv DEF Next

LEMMA Inductive == Spec => []IInv
BY InitInv, StepInv, PTL DEF Spec

(* The variables keep their types; every cached entry stands under its own *)
(* name and has columns, however the tables change between two queries.    *)
THEOREM TypeCorrect == Spec => []TypeOK
<1>1. IInv => TypeOK
  BY DEF IInv
<1>. QED BY <1>1, Inductive, PTL

(* A binder's pointer to an entry stays good until the transaction ends,   *)
(* whatever the other threads look up and scan and whatever fails.         *)
THEOREM PointersStayValid == Spec => []HeldEntriesLive
<1>1. IInv => HeldEntriesLive
  BY DEF IInv, ThreadInv, HoldsLive, HeldEntriesLive
<1>. QED BY <1>1, Inductive, PTL

(* entry_lock covers every query on the introspection connection.          *)
THEOREM OneUser == Spec => []ConnectionExclusive
<1>1. IInv => ConnectionExclusive
  BY DEF IInv, ThreadInv, Mutex, Locked, ConnectionExclusive
<1>. QED BY <1>1, Inductive, PTL

(* An entry lists the columns of one table, if its name is distinct.       *)
THEOREM OwnColumns == Spec => []OneTablePerEntry
<1>1. IInv => OneTablePerEntry
  BY DEF IInv
<1>. QED BY <1>1, Inductive, PTL

(* A Scan reports every table that was there throughout, and none twice.   *)
THEOREM ScansComplete == Spec => []ScanComplete
<1>1. ASSUME IInv, NEW c \in Threads, mode[c] = "Scan", outcome[c] = "returned",
             NEW t \in steady[c]
      PROVE  Reports(c, t)
  <2>1. Due(c)
    BY <1>1 DEF IInv, ThreadInv
  <2>2. names[c] = <<>> /\ (t \in Range(names[c]) \/ Reports(c, t))
    BY <1>1, <2>1 DEF Due
  <2>3. Range(<<>>) = {}
    BY DEF Range
  <2>. QED BY <2>2, <2>3
<1>2. ASSUME IInv, NEW c \in Threads,
             NEW i \in DOMAIN reported[c], NEW j \in DOMAIN reported[c],
             reported[c][i] = reported[c][j], reported[c][i].name \in Distinct
      PROVE  i = j
  <2>1. ThreadInv(c) /\ reported[c] # <<>>
    BY <1>2 DEF IInv
  <2>2. mode[c] = "Scan"
    BY <2>1 DEF ThreadInv, Progress
  <2>. QED BY <1>2, <2>1, <2>2 DEF ThreadInv, Listed
<1>3. IInv => ScanComplete
  BY <1>1, <1>2 DEF ScanComplete, Reports
<1>. QED BY <1>3, Inductive, PTL

-----------------------------------------------------------------------------
(* Each step is a step of CatalogView or leaves the view as it is.         *)
LEMMA InitMaps == Init => View!Init
<1> SUFFICES ASSUME Init PROVE View!Init
  OBVIOUS
<1> USE DEF Init
<1>1. \A t \in Distinct : Fold[t] \in Folded
  BY CatalogAssumption DEF Distinct, Folded, CatalogAssumption
<1>2. \A t \in Distinct : BoundVersion(t) = 0
  BY <1>1 DEF BoundVersion, Versions
<1>3. [t \in Distinct |-> tables[t]] \in [Distinct -> Nat]
  BY DEF Distinct
<1>4. [t \in Distinct |-> BoundVersion(t)] = [t \in Distinct |-> 0]
  BY <1>2
<1>. QED BY <1>3, <1>4 DEF View!Init

LEMMA SameView ==
  ASSUME UNCHANGED catalog_entries
  PROVE  [t \in Distinct |-> BoundVersion(t)]' = [t \in Distinct |-> BoundVersion(t)]
BY DEF BoundVersion, Versions, Distinct

LEMMA ChangeTableMaps ==
  ASSUME IInv, IInv', UNCHANGED catalog_entries
  PROVE  View!Change
<1>1. tables' \in [Tables -> Nat]
  BY DEF IInv, TypeOK
<1>2. [t \in Distinct |-> tables'[t]] \in [Distinct -> Nat]
  BY <1>1 DEF Distinct
<1>. QED BY <1>2, SameView DEF View!Change, Distinct

LEMMA FillsMaps ==
  ASSUME IInv, Fills, UNCHANGED tables
  PROVE  View!Bind
<1> DEFINE seen == {t \in Distinct : BoundVersion(t) = 0 /\ BoundVersion(t)' # 0}
<1>1. ASSUME NEW t \in Distinct
      PROVE  BoundVersion(t)' = IF t \in seen THEN tables[t] ELSE BoundVersion(t)
  <2>1. Fold[t] \in Folded
    BY CatalogAssumption DEF Distinct, Folded, CatalogAssumption
  <2>2. CASE catalog_entries'[Fold[t]] = catalog_entries[Fold[t]]
    BY <2>2 DEF BoundVersion, Versions
  <2>3. CASE /\ catalog_entries[Fold[t]] = NoEntry
             /\ Fresh(Fold[t], catalog_entries'[Fold[t]])
    <3> DEFINE e == catalog_entries'[Fold[t]]
    <3>1. e # NoEntry /\ e.name \in Tables /\ Fold[e.name] = Fold[t]
      BY <2>1, <2>3, FreshFacts DEF IInv
    <3>2. e.name = t
      BY <3>1 DEF Distinct
    <3>3. e.columns = {<<t, tables[t]>>}
      BY <2>1, <2>3, <3>2, FreshFacts DEF IInv
    <3>4. Versions(t)' = {tables[t]}
      <4>1. Versions(t)' = {column[2] : column \in {d \in e.columns : d[1] = t}}
        BY <3>1 DEF Versions
      <4> HIDE DEF e
      <4>2. {d \in e.columns : d[1] = t} = {<<t, tables[t]>>}
        BY <3>3
      <4>3. {column[2] : column \in {<<t, tables[t]>>}} = {tables[t]}
        OBVIOUS
      <4>. QED BY <4>1, <4>2, <4>3
    <3>5. BoundVersion(t)' = tables[t]
      BY <3>4 DEF BoundVersion
    <3>6. BoundVersion(t) = 0
      BY <2>3 DEF BoundVersion, Versions
    <3>. QED BY <3>5, <3>6
  <2>. QED BY <2>1, <2>2, <2>3 DEF Fills
<1>. QED BY <1>1 DEF View!Bind, Distinct

LEMMA EndTransactionMaps ==
  ASSUME IInv, EndTransaction
  PROVE  View!EndTransaction
<1>1. \A t \in Distinct : Fold[t] \in Folded
  BY CatalogAssumption DEF Distinct, Folded, CatalogAssumption
<1>2. \A t \in Distinct : BoundVersion(t)' = 0
  BY <1>1 DEF EndTransaction, BoundVersion, Versions
<1>. QED BY <1>2 DEF View!EndTransaction, EndTransaction, Distinct
(* A step of a thread fills the cache or leaves it as it is.               *)
LEMMA ThreadMaps ==
  ASSUME IInv, NEW c \in Threads,
         \/ LookupEntry(c) \/ Scan(c) \/ Step(c)
         \/ LookupOtherSchema(c) \/ OtherTypes(c)
         \/ CreateAlterDrop(c) \/ PlanWrite(c)
  PROVE  View!Bind \/ UNCHANGED <<tables, catalog_entries>>
<1>1. CASE MakeTableEntry(c)
  <2>1. Fills /\ UNCHANGED tables
    BY <1>1, MakeTableEntryInv DEF MakeTableEntry, server
  <2>. QED BY <2>1, FillsMaps
<1>2. CASE GetAllTableColumns(c)
  <2>1. Fills /\ UNCHANGED tables
    BY <1>2, GetAllTableColumnsFills DEF GetAllTableColumns, server
  <2>. QED BY <2>1, FillsMaps
<1>3. CASE ColumnsClash(c)
  <2>1. Fills /\ UNCHANGED tables
    BY <1>3, ColumnsClashFills DEF ColumnsClash, server
  <2>. QED BY <2>1, FillsMaps
<1>4. CASE \/ LookupEntry(c) \/ Scan(c) \/ LookupOtherSchema(c)
           \/ OtherTypes(c) \/ CreateAlterDrop(c) \/ PlanWrite(c)
  BY <1>4 DEF LookupEntry, Scan, Call, LookupOtherSchema, OtherTypes,
              CreateAlterDrop, PlanWrite, EndsAtOnce, server, cache
<1>5. CASE \/ FindHit(c) \/ FindMiss(c) \/ NotATable(c) \/ Load(c)
           \/ GetTables(c) \/ EachTable(c) \/ QueryThrows(c)
  BY <1>5 DEF FindHit, FindMiss, NotATable, Load, GetTables, EachTable,
              QueryThrows, server, cache
<1>. QED BY <1>1, <1>2, <1>3, <1>4, <1>5 DEF Step

LEMMA Stutters ==
  ASSUME UNCHANGED <<tables, catalog_entries>>
  PROVE  UNCHANGED View!vars
<1>1. [t \in Distinct |-> tables[t]]' = [t \in Distinct |-> tables[t]]
  BY DEF Distinct
<1>. QED BY <1>1, SameView DEF View!vars

LEMMA StepMaps == IInv /\ IInv' /\ [Next]_vars => [View!Next]_View!vars
<1> SUFFICES ASSUME IInv, IInv', [Next]_vars
             PROVE  View!Next \/ UNCHANGED View!vars
  OBVIOUS
<1>1. CASE UNCHANGED vars \/ ConnectionBreaks
  BY <1>1, Stutters DEF vars, server, cache, ConnectionBreaks
<1>2. ASSUME NEW t \in Tables, ChangeTable(t)
      PROVE  View!Next
  BY <1>2, ChangeTableMaps DEF ChangeTable, cache, View!Next
<1>3. CASE EndTransaction
  BY <1>3, EndTransactionMaps DEF View!Next
<1>4. ASSUME NEW c \in Threads,
             \/ LookupEntry(c) \/ Scan(c) \/ Step(c)
             \/ LookupOtherSchema(c) \/ OtherTypes(c)
             \/ CreateAlterDrop(c) \/ PlanWrite(c)
      PROVE  View!Next \/ UNCHANGED View!vars
  BY <1>4, ThreadMaps, Stutters DEF View!Next
<1>. QED BY <1>1, <1>2, <1>3, <1>4 DEF Next

(* Whatever happens to a table on the server, a transaction that has seen  *)
(* it keeps the columns it had then: the cache implements CatalogView.     *)
THEOREM ViewRefinement == Spec => ViewSpec
BY InitMaps, InitInv, StepInv, StepMaps, Inductive, PTL DEF Spec, ViewSpec, View!Spec
=============================================================================
