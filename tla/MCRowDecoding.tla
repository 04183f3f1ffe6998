---------------------------- MODULE MCRowDecoding ----------------------------
(* RowDecoding for TLC: the columns and rows considered.                   *)
EXTENDS RowDecoding

Halves == [SHORT |-> 4, LONG |-> 8, INT64 |-> 32]

(* Few small numbers one by one, the large ones in steps.                  *)
Floats == [FLOAT  |-> (-4..4) \cup {400 * k : k \in -10..10},
           DOUBLE |-> (-16..16) \cup {200 * k : k \in -20..20}]

Of(field, sub, scale) ==
    [field |-> field, sub |-> sub, scale |-> scale, raw |-> FALSE]
Raw(c)                == [c EXCEPT !.raw = TRUE]
Plain(fields)         == {Of(f, 0, 0) : f \in fields}

Kinds ==
    Plain({"SHORT", "LONG", "INT64", "FLOAT", "DOUBLE", "DATE", "TIME",
           "TIMESTAMP", "CHAR", "VARCHAR", "BOOLEAN", "OTHER"})
        \cup {Of(f, 1, -2) : f \in {"SHORT", "INT64", "INT128"}}
        \cup {Of("INT128", 0, 0)}
        \cup {Of("BLOB", sub, 0) : sub \in {-1, 0, 1, 2}}
        \cup {Raw(Of("VARCHAR", 0, 0)), Raw(Of("BLOB", 1, 0))}

(* The values of each kind.  Of the scaled integers, both that a DOUBLE    *)
(* expresses and that it does not; of the DOUBLEs, one that no FLOAT       *)
(* expresses and one that no INT64 has room for.                           *)
Ends(half) == {<<-half>>, <<half - 1>>}

ValuesOf(c) ==
    CASE IsInteger(c)           -> Ends(Half[c.field])
      [] c.field = "FLOAT"      -> {<<3>>, <<-400>>}
      [] c.field = "DOUBLE"     -> {<<16>>, <<200>>, <<4000>>}
      [] c.field = "TIMESTAMP"  -> {<<3, 5>>, <<-3, 0>>}
      [] c.field = "BOOLEAN"    -> {<<0>>, <<1>>}
      [] OTHER                  -> {<<100>>, <<HighByte>>}

(* One column of any kind, perhaps altered to any other; two columns; and  *)
(* as many as fill a byte or a word of the null bitmap, or begin another.  *)
Wide(n)   == [i \in 1..n |-> Of("BOOLEAN", 0, 0)]
Considered ==
    ({<<k>> : k \in Kinds} \X {<<k>> : k \in Kinds})
        \cup {<<t, t>> : t \in [1..2 -> Kinds]}
        \cup {<<Wide(n), Wide(n)>> : n \in {8, 9, 32, 33}}

BlobTables == {<<<<Of("BLOB", sub, 0)>>, <<Of("BLOB", sub, 0)>>>> :
                   sub \in {-1, 0, 1}}

(* Every value where there are one or two columns; else the columns from   *)
(* the a-th to the b-th are null.                                          *)
AllRows(cs) ==
    {r \in [DOMAIN cs -> {NULL} \cup UNION {ValuesOf(cs[i]) : i \in DOMAIN cs}] :
        \A i \in DOMAIN cs : r[i] = NULL \/ r[i] \in ValuesOf(cs[i])}

NullRuns(cs) ==
    {[i \in DOMAIN cs |-> IF i \in ab[1]..ab[2] THEN NULL ELSE Bit(i % 3 = 0)] :
        ab \in (DOMAIN cs) \X (0..Len(cs))}

SomeRows(cs) == IF Len(cs) <= 2 THEN AllRows(cs) ELSE NullRuns(cs)

EitherProtocol == {12, 13}
Newest         == {13}
AllCharsets    == {"UTF8", "ISO8859_1"}
OneByte        == {"ISO8859_1"}
=============================================================================
