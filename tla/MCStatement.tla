------------------------------ MODULE MCStatement ------------------------------
(* Statement for TLC: every plan of up to three operators over a scan      *)
(* without filters, and filters of every form on a table of two columns    *)
(* under the plans in which a limit meets them.                            *)
EXTENDS Statement, SequencesExt

TableColumns == <<"A", "B">>
Bits         == {0, 1}

Cmp(op, v) == Filter("CONSTANT_COMPARISON", <<>>, op, <<v>>)
In(list)   == Filter("IN_FILTER", <<>>, "", list)
And(f, g)  == Filter("CONJUNCTION_AND", <<f, g>>, "", <<>>)
Or(f, g)   == Filter("CONJUNCTION_OR", <<f, g>>, "", <<>>)

IsNull     == Leaf("IS_NULL")
NotNull    == Leaf("IS_NOT_NULL")
Skippable  == Leaf("OPTIONAL_FILTER")
Simple     == {Cmp("=", 0), Cmp("<>", 0), IsNull, In(<<0, 1>>), In(<<>>)}
Odd        == {Cmp("=", Null), Cmp("DISTINCT", 0), In(<<0, Null>>), Skippable,
               Leaf("STRUCT_EXTRACT")}
Terms      == {Cmp("=", 0), Cmp(">=", 1), IsNull, Skippable}
Trees ==
    Simple \cup Odd
      \cup {Or(f, g) : f, g \in Terms}
      \cup {And(f, g) : f, g \in {Cmp("<", 1), Cmp("<=", 1), NotNull, Skippable}}
      \cup {And(Or(Cmp("=", 0), IsNull), NotNull),
            And(Skippable, Or(Cmp("=", 0), Cmp(">", 0))),
            Or(And(Cmp("=", 1), NotNull), IsNull),
            Or(And(Skippable, Skippable), IsNull)}

LimitOf(n, o) ==
    L!Operator("LIMIT", L!Node("CONSTANT_VALUE", n), L!Node("CONSTANT_VALUE", o))

FilteredPlans ==
    {Append(above, L!Get) : above \in
       {<<>>, <<LimitOf(1, 0)>>, <<LimitOf(1, 1), L!Plain("PROJECTION")>>,
        <<LimitOf(2, 0), LimitOf(1, 1)>>, <<LimitOf(1, 0), L!Plain("FILTER")>>,
        <<L!Plain("AGGREGATE"), LimitOf(0, 1)>>}}

Queries ==
    {[projections |-> {<<>>}, trees |-> {}, plans |-> L!Paths(3)],
     [projections |-> {<<"A">>}, trees |-> Trees, plans |-> L!Paths(1)],
     [projections |-> {<<"B", "A">>, <<"A", "B">>},
      trees |-> Trees, plans |-> FilteredPlans],
     [projections |-> {<<"rowid">>, <<"B", "rowid", "A">>},
      trees |-> Terms, plans |-> FilteredPlans]}

RowsInOrder   == FoldSet(LAMBDA row, rows : Append(rows, row), <<>>, Rows)
SomeTables    == {<<>>, RowsInOrder, Reverse(RowsInOrder)}
================================================================================
