------------------------------- MODULE Statement -------------------------------
(***************************************************************************)
(* The statement that a scan sends: the optimizer pass of LimitPushdown    *)
(* over the plan of a query, and then, when the query starts,              *)
(* FirebirdInitGlobal of firebird_scanner.cpp, which puts together the     *)
(* select list, the WHERE clause of FilterPushdown and the ROWS clause.    *)
(*                                                                         *)
(* What one clause leaves to DuckDB another may spoil: ROWS counts the     *)
(* rows that WHERE lets through, and the scan reads the cells of a row by  *)
(* their position in the select list.                                      *)
(***************************************************************************)
EXTENDS FilterPushdown

CONSTANTS
    MaxIndex,       \* NumericLimits<idx_t>::Maximum()
    Tables          \* bound: what the table may hold, as sequences of rows

VARIABLES
    plan, visited,          \* as in LimitPushdown
    has_limit, limit_rows,  \* of the scan's FirebirdBindData
    sql                     \* the statement: its columns, and how many rows

L == INSTANCE LimitPushdown

ASSUME StatementAssumption ==
    /\ MaxIndex \in Nat
    /\ \A s \in Scans : s.plans \subseteq L!Plans
    /\ Tables \subseteq Seq(Rows)

query == <<plan, visited, has_limit, limit_rows>>

(* The plans over a scan come with its projections and filters.            *)
StatementInit ==
    /\ \E s \in Scans : Init(s) /\ L!Init(s.plans)
    /\ sql = <<>>

-----------------------------------------------------------------------------
FirebirdPushLimit == L!Next /\ UNCHANGED <<vars, sql>>

(* The query starts when the optimizer is done.                            *)
Optimized == visited = Len(plan)

BuildWhereClause == Optimized /\ Next /\ UNCHANGED <<query, sql>>

(* A literal for a column the table does not have.                         *)
Placeholder == "1"

(* Wrong variant: nothing stands for a column the table does not have.     *)
TableColumnsOnly ==
    LET IsColumn(c) == c \in Columns
    IN  SelectSeq(column_ids, IsColumn)

SelectList ==
    IF column_ids = <<>> THEN <<Placeholder>>
    ELSE [i \in DOMAIN column_ids |->
            IF column_ids[i] \in Columns THEN column_ids[i] ELSE Placeholder]

RowsClause == IF has_limit THEN <<limit_rows>> ELSE <<>>

FirebirdInitGlobal ==
    /\ outcome = "built" /\ sql = <<>>
    /\ sql' = [select |-> SelectList, rows |-> RowsClause]
    /\ UNCHANGED <<vars, query>>

StatementNext == FirebirdPushLimit \/ BuildWhereClause \/ FirebirdInitGlobal

StatementSpec == StatementInit /\ [][StatementNext]_<<vars, query, sql>>

-----------------------------------------------------------------------------
(* The places of a table that are in a set, in their order.                *)
InOrder(table, places) ==
    LET At[i \in 0..Len(table)] ==
          IF i = 0 THEN <<>>
          ELSE IF i \in places THEN Append(At[i - 1], i) ELSE At[i - 1]
    IN  At[Len(table)]

(* The rows of a table, by their place in it, that Firebird answers with,  *)
(* and those that DuckDB wants.                                            *)
Answer(table) ==
    LET kept == InOrder(table, {i \in DOMAIN table : Selected(table[i])})
    IN  IF sql.rows = <<>> THEN kept ELSE L!First(sql.rows[1], kept)

WantedOf(table) == InOrder(table, {i \in DOMAIN table : Wanted(table[i])})

(* The query gets the result that its plan computes from the rows that     *)
(* pass the filters: whatever stands between a limit and the scan, however *)
(* near the sum of count and offset is to the largest idx_t, whatever is   *)
(* left out of the WHERE clause under the ROWS clause, and with each       *)
(* column where the scan looks for it.  The exception is a WHERE clause in *)
(* which the text of an OR filter is joined to that of another.            *)
QueryAnswered ==
    sql # <<>> /\ ~Joined =>
        /\ \A table \in Tables :
              L!Result(Answer(table)) = L!Result(WantedOf(table))
        /\ sql.select # <<>>
        /\ \A i \in DOMAIN column_ids :
             column_ids[i] \in Columns => sql.select[i] = column_ids[i]

(* A limit directly above the scan reaches the statement.                  *)
DirectLimitPushed == L!DirectLimitPushed

-----------------------------------------------------------------------------
(* The inductive invariant: the clauses are the texts of the filters that  *)
(* were looked at, and the limit is that of a LIMIT with nothing but       *)
(* projections between it and the scan.                                    *)
TypeOK ==
    /\ column_ids \in Seq(Columns \cup {VirtualColumn})
    /\ DOMAIN filters \subseteq DOMAIN column_ids
    /\ filters \in [DOMAIN filters -> Filters[Depth]]
    /\ entry \in 1..Len(column_ids) + 1
    /\ clauses \in Seq(Texts[Depth] \ {<<>>})
    /\ outcome \in {"building", "built", "threw"}
    /\ plan \in L!Plans /\ visited \in 0..Len(plan)
    /\ has_limit \in BOOLEAN /\ limit_rows \in L!Index
    /\ sql = <<>> \/ sql = [select |-> SelectList, rows |-> RowsClause]

(* One thing after the other.                                              *)
OrderOK ==
    /\ visited < Len(plan) => entry = 1 /\ outcome = "building"
    /\ outcome = "built" => entry > Len(column_ids)
    /\ sql # <<>> => outcome = "built"

TextOf(i) == TranslateFilter[Depth][filters[i]][column_ids[i]]

ClausesOK ==
    /\ \A i \in DOMAIN filters : i < entry =>
          /\ column_ids[i] \in Columns
          /\ TextOf(i) = Skipped \/ \E k \in DOMAIN clauses : TextOf(i) = Clause(clauses[k])
    /\ \A k \in DOMAIN clauses : \E i \in DOMAIN filters :
          i < entry /\ TextOf(i) = Clause(clauses[k])

LimitOK ==
    /\ has_limit => \E i \in 1..visited : L!Pushable(i) /\ limit_rows = L!Total(i)
    /\ \A i \in 1..visited : L!Pushable(i) => has_limit /\ limit_rows <= L!Total(i)

IInv == TypeOK /\ OrderOK /\ ClausesOK /\ LimitOK
=============================================================================
