---------------------------- MODULE FilterPushdown ----------------------------
(***************************************************************************)
(* The WHERE clause of a scan: BuildWhereClause, TranslateFilter,          *)
(* FirebirdCompareOp and FirebirdFormatLiteral of firebird_scanner.cpp.    *)
(*                                                                         *)
(* DuckDB hands the scan a tree of filters for each of some projected      *)
(* columns and does not look at them again, so the text that is sent to    *)
(* Firebird has to select what the trees select.  The text is modelled by  *)
(* its tokens: predicates, parenthesised texts, and the words AND and OR   *)
(* between them; `Holds` reads it as SQL does, AND binding tighter.        *)
(*                                                                         *)
(* Truth is three-valued and ordered: 0 false, 1 unknown, 2 true.          *)
(***************************************************************************)
EXTENDS Integers, Sequences, FiniteSetsExt, Functions

CONSTANTS
    Names,          \* bind_data.names: the columns of the table, in order
    VirtualColumn,  \* a projected column that is not one of the table's
    Values, Null,   \* values of the columns
    Depth,          \* how deep filters are nested
    Scans           \* bound: projections, with filters for their columns

Columns == {Names[i] : i \in DOMAIN Names}

Cells   == Values \cup {Null}
Rows    == [Columns -> Cells]

(* A filter: its type, the children of a conjunction, of which an OR has   *)
(* some, and of a comparison or an IN filter the operator and the          *)
(* constants.  Filters are nested up to Depth levels.                      *)
Filter(type, children, op, constants) ==
    [filter_type |-> type, child_filters |-> children,
     comparison_type |-> op, values |-> constants]
Leaf(type) == Filter(type, <<>>, "", <<>>)

Conjunctions == {"CONJUNCTION_AND", "CONJUNCTION_OR"}

FiltersOver(children) ==
    {f \in [filter_type : STRING, child_filters : Seq(children),
            comparison_type : STRING, values : Seq(Cells)] :
        /\ f.filter_type \notin Conjunctions => f.child_filters = <<>>
        /\ f.filter_type = "CONJUNCTION_OR" => f.child_filters # <<>>}

Filters[d \in 0..Depth] == IF d = 0 THEN {} ELSE FiltersOver(Filters[d - 1])

ASSUME FilterAssumption ==
    /\ Names \in Seq(Columns)
    /\ Values \subseteq Int /\ Null \notin Values
    /\ VirtualColumn \notin Columns
    /\ Depth \in Nat
    /\ \A s \in Scans : /\ s.projections \subseteq Seq(Columns \cup {VirtualColumn})
                       /\ s.trees \subseteq Filters[Depth]

Optional == {"OPTIONAL_FILTER", "DYNAMIC_FILTER", "BLOOM_FILTER"}
Compared == {"=", "<>", "<", ">", "<=", ">="}

VARIABLES
    column_ids, \* the columns the query projects
    filters,    \* the TableFilterSet: from indices of column_ids to filters
    entry,      \* the index of the filter to translate next
    clauses,    \* the texts made so far
    outcome     \* "building", "built" or "threw"

vars == <<column_ids, filters, entry, clauses, outcome>>

-----------------------------------------------------------------------------
(* What predicates and filters mean to SQL and to DuckDB.                  *)
Truth(b) == IF b THEN 2 ELSE 0

Compare(op, x, y) ==
    IF x = Null \/ y = Null THEN 1
    ELSE Truth(CASE op = "="  -> x = y [] op = "<>" -> x # y
                 [] op = "<"  -> x < y [] op = ">"  -> x > y
                 [] op = "<=" -> x <= y [] op = ">=" -> x >= y)

AllOf(truths) == Min(truths \cup {2})
AnyOf(truths) == Max(truths \cup {0})

Member(x, list) == AnyOf({Compare("=", x, list[i]) : i \in DOMAIN list})

(* A filter that is no conjunction, on a value of its column; what may be  *)
(* skipped is taken for true.                                              *)
Test(f, x) ==
    CASE f.filter_type = "CONSTANT_COMPARISON" ->
           Compare(f.comparison_type, x, f.values[1])
      [] f.filter_type = "IS_NULL"     -> Truth(x = Null)
      [] f.filter_type = "IS_NOT_NULL" -> Truth(x # Null)
      [] f.filter_type = "IN_FILTER"   -> Member(x, f.values)
      [] OTHER                         -> 2

(* Passes[Depth][f][x]: the filter f on a value x.  The functions of the   *)
(* levels are each defined by the one below.                               *)
Pass(f, x, below) ==
    LET children == {below[f.child_filters[i]][x] : i \in DOMAIN f.child_filters}
    IN  CASE f.filter_type = "CONJUNCTION_AND" -> AllOf(children)
          [] f.filter_type = "CONJUNCTION_OR"  -> AnyOf(children)
          [] OTHER                             -> Test(f, x)

Passing(below, level) ==
    [f \in level |-> [x \in Cells |-> Pass(f, x, below)]]

Passes[d \in 0..Depth] ==
    IF d = 0 THEN <<>> ELSE Passing(Passes[d - 1], Filters[d])

-----------------------------------------------------------------------------
(* Texts.                                                                  *)
Predicate(col, test) == [kind |-> "predicate", column |-> col, test |-> test]
Paren(text)          == [kind |-> "paren", text |-> text]
Word(w)              == [kind |-> "word", word |-> w]

(* What a predicate tests: no conjunction, or 1=0.                         *)
Tests == FiltersOver({}) \cup {Leaf("FALSE")}

Tokens(texts) ==
    [kind : {"predicate"}, column : Columns, test : Tests]
      \cup [kind : {"paren"}, text : texts]
      \cup {Word("AND"), Word("OR")}

Texts[d \in 0..Depth] == IF d = 0 THEN {} ELSE Seq(Tokens(Texts[d - 1]))

(* StringUtil::Join, of the parts that are not empty.                      *)
Join(parts, word) ==
    LET At[i \in 0..Len(parts)] ==
          IF i = 0 THEN <<>>
          ELSE IF parts[i] = <<>> THEN At[i - 1]
          ELSE IF At[i - 1] = <<>> THEN parts[i]
          ELSE At[i - 1] \o <<Word(word)>> \o parts[i]
    IN  At[Len(parts)]

(* Holds[Depth][text][row]: how a text reads for a row.  It is the         *)
(* disjunction, over the stretches between two ORs, of the conjunctions of *)
(* their operands.                                                         *)
Operand(t, row, below) ==
    IF t.kind = "paren" THEN below[t.text][row]
    ELSE IF t.test.filter_type = "FALSE" THEN 0
    ELSE Test(t.test, row[t.column])

Cuts(text) ==
    {0, Len(text) + 1} \cup {i \in DOMAIN text : text[i] = Word("OR")}

Stretch(text, a) ==
    LET b == Min({c \in Cuts(text) : c > a})
    IN  {i \in a + 1 .. b - 1 : text[i].kind # "word"}

Read(text, row, below) ==
    AnyOf({AllOf({Operand(text[i], row, below) : i \in Stretch(text, a)}) :
           a \in Cuts(text) \ {Len(text) + 1}})

Reading(below, level) ==
    [text \in level |-> [row \in Rows |-> Read(text, row, below)]]

Holds[d \in 0..Depth] ==
    IF d = 0 THEN <<>> ELSE Reading(Holds[d - 1], Texts[d])

-----------------------------------------------------------------------------
(* FirebirdFormatLiteral has no literal for NULL.                          *)
HasLiteral(v) == v # Null

(* TranslateFilter: a text, or that the filter is skipped or refused.      *)
Clause(text) == [result |-> "clause", text |-> text]
Skipped == [result |-> "skipped", text |-> <<>>]
Threw   == [result |-> "threw", text |-> <<>>]

(* A conjunction: its children are translated in turn, one that throws     *)
(* ends it, and each text is put in parentheses.                           *)
Conjoined(children, word) ==
    LET Part(i) == IF children[i] = Skipped THEN <<>>
                   ELSE <<Paren(children[i].text)>>
        text    == Join([i \in DOMAIN children |-> Part(i)], word)
    IN  IF text = <<>> THEN Skipped ELSE Clause(text)

(* A filter from its translated children.                                  *)
Translation(f, col, children) ==
    CASE f.filter_type = "CONSTANT_COMPARISON" ->
           IF f.comparison_type \in Compared /\ HasLiteral(f.values[1])
           THEN Clause(<<Predicate(col, f)>>) ELSE Threw
      [] f.filter_type \in {"IS_NULL", "IS_NOT_NULL"} ->
           Clause(<<Predicate(col, f)>>)
      [] f.filter_type = "IN_FILTER" ->
           IF f.values = <<>> THEN Clause(<<Predicate(col, Leaf("FALSE"))>>)
           ELSE IF \A i \in DOMAIN f.values : HasLiteral(f.values[i])
           THEN Clause(<<Predicate(col, f)>>) ELSE Threw
      [] f.filter_type = "CONJUNCTION_AND" ->
           IF Threw \in Range(children) THEN Threw ELSE Conjoined(children, "AND")
      [] f.filter_type = "CONJUNCTION_OR" ->
           IF {Threw, Skipped} \cap Range(children) # {}
           THEN Threw ELSE Conjoined(children, "OR")
      [] f.filter_type \in Optional -> Skipped
      [] OTHER -> Threw

Translating(below, level) ==
    [f \in level |-> [col \in Columns |->
        Translation(f, col, [i \in DOMAIN f.child_filters |->
                                below[f.child_filters[i]][col]])]]

TranslateFilter[d \in 0..Depth] ==
    IF d = 0 THEN <<>> ELSE Translating(TranslateFilter[d - 1], Filters[d])

-----------------------------------------------------------------------------
Init(s) ==
    /\ column_ids \in s.projections
    /\ \E indices \in SUBSET DOMAIN column_ids : filters \in [indices -> s.trees]
    /\ entry = 1 /\ clauses = <<>> /\ outcome = "building"

(* The loop of BuildWhereClause, in the order of the indices.  Wrong       *)
(* variants: the index is taken for one of the table's columns; a filter   *)
(* that has no text is skipped even if it is required.                     *)
IndexesTable ==
    IF column_ids[entry] = VirtualColumn \/ entry > Len(Names) THEN Threw
    ELSE TranslateFilter[Depth][filters[entry]][Names[entry]]

SkipsUntranslatable ==
    IF column_ids[entry] = VirtualColumn THEN Skipped
    ELSE LET t == TranslateFilter[Depth][filters[entry]][column_ids[entry]]
         IN  IF t = Threw THEN Skipped ELSE t

Translated ==
    IF column_ids[entry] = VirtualColumn THEN Threw
    ELSE TranslateFilter[Depth][filters[entry]][column_ids[entry]]

AtFilter == outcome = "building" /\ entry \in DOMAIN filters

AddClause ==
    /\ AtFilter /\ Translated.result = "clause"
    /\ clauses' = Append(clauses, Translated.text)
    /\ entry' = entry + 1
    /\ UNCHANGED <<column_ids, filters, outcome>>

SkipFilter ==
    /\ AtFilter /\ Translated.result = "skipped"
    /\ entry' = entry + 1
    /\ UNCHANGED <<column_ids, filters, clauses, outcome>>

NoFilter ==
    /\ outcome = "building"
    /\ entry \in DOMAIN column_ids \ DOMAIN filters
    /\ entry' = entry + 1
    /\ UNCHANGED <<column_ids, filters, clauses, outcome>>

Throw ==
    /\ AtFilter /\ Translated.result = "threw"
    /\ outcome' = "threw"
    /\ UNCHANGED <<column_ids, filters, entry, clauses>>

Build ==
    /\ outcome = "building" /\ entry > Len(column_ids)
    /\ outcome' = "built"
    /\ UNCHANGED <<column_ids, filters, entry, clauses>>

Next == AddClause \/ SkipFilter \/ NoFilter \/ Throw \/ Build

-----------------------------------------------------------------------------
(* The text after WHERE, and whether the statement returns a row.          *)
WhereClause  == Join(clauses, "AND")
Selected(row) == clauses = <<>> \/ Holds[Depth][WhereClause][row] = 2

(* Whether DuckDB wants the row.                                           *)
Wanted(row) ==
    \A i \in DOMAIN filters : Passes[Depth][filters[i]][row[column_ids[i]]] = 2
Joined == Len(clauses) > 1 /\ \E i \in DOMAIN clauses :
              \E j \in DOMAIN clauses[i] : clauses[i][j] = Word("OR")

(* The statement returns every row DuckDB wants: what is skipped, grouped  *)
(* or ordered otherwise than in the filters never costs a row.             *)
NeverNarrows ==
    outcome = "built" => \A row \in Rows : Wanted(row) => Selected(row)

(* It returns no other row: DuckDB does not apply the filters again, "so   *)
(* we must translate every *required* filter exactly".                     *)
Exact ==
    outcome = "built" => \A row \in Rows : Selected(row) => Wanted(row)
=============================================================================
