----------------------------- MODULE LimitPushdown -----------------------------
(***************************************************************************)
(* The optimizer pass that turns a LIMIT above a scan into a ROWS clause   *)
(* of the Firebird statement: FirebirdPushLimit and FindFirebirdGet of     *)
(* firebird_scanner.cpp.  DuckDB keeps its LIMIT, so the clause may save   *)
(* transfer but must not change the result of the query.                   *)
(*                                                                         *)
(* A plan is the path from its root down to the scan, the only part of the *)
(* tree the scan's bind data depend on; an operator with more children     *)
(* stands on it for itself and the rest of its inputs.  Of the operators   *)
(* the pass does not look through, one of each effect on the rows is       *)
(* enough: FILTER drops some, ORDER_BY reorders them, JOIN repeats them,   *)
(* AGGREGATE counts them.  idx_t is counted up to MaxIndex.                *)
(***************************************************************************)
EXTENDS Integers, Sequences

CONSTANT MaxIndex   \* NumericLimits<idx_t>::Maximum()

Index == 0..MaxIndex

(* A limit or offset is absent, a constant, or an expression whose value   *)
(* is known when the query runs.                                           *)
NodeType == {"UNSET", "CONSTANT_VALUE", "EXPRESSION_VALUE"}
Node(type, value) == [type |-> type, value |-> value]
Limits == {Node(t, n) : t \in NodeType \ {"UNSET"}, n \in Index}
Offsets == {Node("UNSET", 0)} \cup Limits

Operator(type, limit, offset) ==
    [type |-> type, limit_val |-> limit, offset_val |-> offset]
Plain(type) == Operator(type, Node("UNSET", 0), Node("UNSET", 0))
Get == Plain("GET")
Operators ==
    {Operator("LIMIT", l, o) : l \in Limits, o \in Offsets}
      \cup {Plain(t) : t \in {"PROJECTION", "FILTER", "ORDER_BY", "JOIN",
                              "AGGREGATE"}}

VARIABLES
    plan,       \* the operators from the root to the scan
    visited,    \* how many of them FirebirdPushLimit has been called on
    has_limit, limit_rows   \* of the scan's FirebirdBindData

(* The plans, and those of at most n operators over the scan.              *)
Plans ==
    {p \in Seq(Operators \cup {Get}) :
        p # <<>> /\ \A i \in 1..Len(p) : p[i] = Get <=> i = Len(p)}

Paths(n) ==
    {Append(above, Get) : above \in UNION {[1..k -> Operators] : k \in 0..n}}

Init(plans) ==
    /\ plan \in plans
    /\ visited = 0
    /\ has_limit = FALSE /\ limit_rows = 0

(* Wrong variant: only the child itself is looked at.                      *)
ChildIsGet(i) == i + 1 = Len(plan)

(* FindFirebirdGet from the child of operator i: it goes down projections. *)
ReachesGet(i) ==
    \A j \in i + 1 .. Len(plan) - 1 : plan[j].type = "PROJECTION"

(* Wrong variant: the sum may leave idx_t.                                 *)
PushableUnguarded(i) ==
    /\ plan[i].type = "LIMIT"
    /\ plan[i].limit_val.type = "CONSTANT_VALUE"
    /\ plan[i].offset_val.type \in {"UNSET", "CONSTANT_VALUE"}
    /\ \A j \in i + 1 .. Len(plan) - 1 : plan[j].type = "PROJECTION"

(* The limit and offset of operator i are constants whose sum is an idx_t. *)
Pushable(i) ==
    /\ plan[i].type = "LIMIT"
    /\ plan[i].limit_val.type = "CONSTANT_VALUE"
    /\ plan[i].offset_val.type \in {"UNSET", "CONSTANT_VALUE"}
    /\ plan[i].offset_val.value <= MaxIndex - plan[i].limit_val.value
    /\ ReachesGet(i)

Total(i) == (plan[i].limit_val.value + plan[i].offset_val.value) % (MaxIndex + 1)

Visit == visited < Len(plan) /\ visited' = visited + 1 /\ UNCHANGED plan

PushLimit ==
    /\ Visit /\ Pushable(visited')
    /\ IF ~has_limit \/ Total(visited') < limit_rows
       THEN has_limit' = TRUE /\ limit_rows' = Total(visited')
       ELSE UNCHANGED <<has_limit, limit_rows>>

PassBy == Visit /\ ~Pushable(visited') /\ UNCHANGED <<has_limit, limit_rows>>

Next == PushLimit \/ PassBy

-----------------------------------------------------------------------------
(* What the plan computes from the rows of its scan: every operator does   *)
(* its work.                                                               *)
First(n, rows) == SubSeq(rows, 1, IF n < Len(rows) THEN n ELSE Len(rows))

Even(row) == row % 2 = 0

Apply(op, rows) ==
    CASE op.type = "LIMIT" ->
           LET kept == First(op.limit_val.value + op.offset_val.value, rows)
           IN  SubSeq(kept, op.offset_val.value + 1, Len(kept))
      [] op.type = "PROJECTION" -> rows
      [] op.type = "FILTER"     -> SelectSeq(rows, Even)
      [] op.type = "ORDER_BY"   -> [i \in DOMAIN rows |-> rows[Len(rows) + 1 - i]]
      [] op.type = "JOIN"       -> [i \in 1..2 * Len(rows) |-> rows[(i + 1) \div 2]]
      [] op.type = "AGGREGATE"  -> <<Len(rows)>>

Result(source) ==
    LET Out[i \in 1..Len(plan)] ==
          IF i = Len(plan) THEN source ELSE Apply(plan[i], Out[i + 1])
    IN  Out[1]

(* The clause is there when a constant limit is directly above the scan,   *)
(* through projections only, and does not ask for more than it has to.     *)
DirectLimitPushed ==
    \A i \in 1..Len(plan) - 1 :
        /\ visited = Len(plan)
        /\ plan[i].type = "LIMIT"
        /\ {plan[j].type : j \in i + 1 .. Len(plan)} \subseteq {"PROJECTION", "GET"}
        /\ plan[i].limit_val.type = "CONSTANT_VALUE"
        /\ plan[i].offset_val.type # "EXPRESSION_VALUE"
        /\ plan[i].limit_val.value + plan[i].offset_val.value <= MaxIndex
        => /\ has_limit
           /\ limit_rows <= plan[i].limit_val.value + plan[i].offset_val.value
================================================================================
