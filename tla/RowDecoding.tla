------------------------------ MODULE RowDecoding ------------------------------
(***************************************************************************)
(* The way of one row's values from the server to DuckDB's vectors, which  *)
(* passes four places that have to agree on every column: the type the     *)
(* catalog bound it to (FirebirdFieldToLogicalType), the type the client   *)
(* asks the server to send (XSqlVar::coerce), the parser of the message    *)
(* (parse_sql_response, into_column), and the accessor FirebirdScan picks  *)
(* for the bound type (fb_cell_i64 and the like).                         *)
(*                                                                         *)
(* A column is [field, sub, scale] as in RDB$FIELDS, and raw if its text   *)
(* has no character set (NONE, OCTETS), which the server sends as stored.  *)
(* Values are tuples of integers: an integer of its width; a number in     *)
(* hundredths, also where the integer is scaled, whatever its scale; a     *)
(* number that stands for a text or for the bytes of a blob; <<day, time>>.*)
(* bound is what the catalog knew; the table may have been altered since.  *)
(***************************************************************************)
EXTENDS Integers, Sequences, SequencesExt

CONSTANTS
    Tables,         \* the columns considered: pairs <<bound, columns>>
    Rows(_),        \* the rows considered of given columns
    Versions,       \* protocol versions considered
    Charsets,       \* connection character sets considered
    Half,           \* half the number of integers of each width
    Floating        \* the hundredths that a FLOAT and a DOUBLE tell apart

IntegerFields == {"SHORT", "LONG", "INT64"}
Fields == IntegerFields \cup {"INT128", "FLOAT", "DOUBLE", "BOOLEAN", "DATE",
            "TIME", "TIMESTAMP", "CHAR", "VARCHAR", "BLOB", "OTHER"}
ColumnDef == [field : Fields, sub : Int, scale : Int, raw : BOOLEAN]
FloatingTypes == {"FLOAT", "DOUBLE"}
TextFields    == {"CHAR", "VARCHAR"}

(* The values of a column.                                                 *)
IsInteger(c) == c.field \in IntegerFields
IsScaled(c)  == IsInteger(c) /\ c.scale # 0
HasText(c)   == c.field \in TextFields \/ (c.field = "BLOB" /\ c.sub = 1)

IsValue(c, v) ==
    /\ v \in Seq(Int)
    /\ Len(v) = IF c.field = "TIMESTAMP" THEN 2 ELSE 1
    /\ IsInteger(c) => -Half[c.field] <= v[1] /\ v[1] < Half[c.field]
    /\ c.field \in FloatingTypes => v[1] \in Floating[c.field]
    /\ c.field = "BOOLEAN" => v[1] \in {0, 1}

NULL == <<>>

(* Scales are 0 or negative: numbers are stored multiplied.  A DOUBLE is   *)
(* at least as fine as a FLOAT.                                            *)
ASSUME DecodingAssumption ==
    /\ \A t \in Tables :
          /\ t[1] \in Seq(ColumnDef) /\ t[2] \in Seq(ColumnDef)
          /\ Len(t[1]) = Len(t[2])
          /\ \A i \in DOMAIN t[2] :
                /\ t[1][i].scale <= 0 /\ t[2][i].scale <= 0
                /\ t[2][i].raw => HasText(t[2][i])
          /\ \A r \in Rows(t[2]) :
                /\ r \in Seq(Seq(Int)) /\ Len(r) = Len(t[2])
                /\ \A i \in DOMAIN r : r[i] = NULL \/ IsValue(t[2][i], r[i])
    /\ Versions \subseteq 10..13
    /\ Charsets \subseteq {"UTF8", "ISO8859_1"}
    /\ Half \in [IntegerFields -> Nat]
    /\ 0 < Half["SHORT"] /\ Half["SHORT"] < Half["LONG"]
    /\ Half["LONG"] < Half["INT64"]
    /\ Floating \in [FloatingTypes -> SUBSET Int]
    /\ Floating["FLOAT"] # {} /\ Floating["FLOAT"] \subseteq Floating["DOUBLE"]

VARIABLES
    bound,          \* the columns as the catalog knew them
    columns,        \* the columns as they are
    row,            \* the values of the row
    version, charset,
    body,           \* what is still to be parsed of the row's message
    null_map,       \* its null bitmap, from protocol 13 on
    data,           \* the columns parsed so far
    output,         \* the values FirebirdScan has written to the vectors
    pc

setting == <<bound, columns, row, version, charset>>
vars    == <<setting, body, null_map, data, output, pc>>

(* Types that servers with a protocol before 13 do not have.               *)
Newer == {"BOOLEAN", "INT128", "OTHER"}

-----------------------------------------------------------------------------
(* FirebirdFieldToLogicalType.                                             *)
IntegerType == [SHORT |-> "SMALLINT", LONG |-> "INTEGER", INT64 |-> "BIGINT"]

LogicalType(c) ==
    CASE IsInteger(c) -> IF c.scale < 0 THEN "DOUBLE" ELSE IntegerType[c.field]
      [] c.field = "INT128"                                -> "DOUBLE"
      [] c.field \in {"FLOAT", "DOUBLE", "BOOLEAN",
                      "DATE", "TIME", "TIMESTAMP"}         -> c.field
      [] c.field = "BLOB" /\ c.sub # 1                     -> "BLOB"
      [] OTHER                                             -> "VARCHAR"

(* XSqlVar::coerce.                                                        *)
Coerced(c) ==
    CASE c.field \in TextFields                        -> "VARYING"
      [] IsInteger(c) /\ c.scale = 0                   -> "INT64"
      [] IsScaled(c)                                   -> "DOUBLE"
      [] c.field \in FloatingTypes                     -> "DOUBLE"
      [] c.field \in {"TIMESTAMP", "DATE", "TIME"}     -> "TIMESTAMP"
      [] c.field = "BLOB" /\ c.sub <= 1                -> "BLOB"
      [] c.field = "BOOLEAN"                           -> "BOOLEAN"
      [] OTHER                                         -> "unsupported"

-----------------------------------------------------------------------------
(* The message the server sends: up to protocol 12 every value, whether    *)
(* null or not, with a flag after it; from 13 on a bitmap padded to four   *)
(* bytes, and the values that are not null.                                *)
Today == 7      \* the date it adds to a TIME

(* The number a floating type has for another: the nearest.  Beyond its    *)
(* largest a FLOAT is infinite; no property is about that.                 *)
Distance(m, n) == IF m < n THEN n - m ELSE m - n

Rounded(type, n) ==
    CHOOSE m \in Floating[type] :
        \A k \in Floating[type] : Distance(m, n) <= Distance(k, n)

(* A scaled integer is asked for, and so sent, as a DOUBLE.                *)
Sent(c, v) ==
    IF v = NULL THEN <<0, 0>>
    ELSE CASE IsScaled(c)       -> <<Rounded("DOUBLE", v[1])>>
           [] c.field = "DATE"  -> <<v[1], 0>>
           [] c.field = "TIME"  -> <<Today, v[1]>>
           [] OTHER             -> v

Bit(b)  == <<IF b THEN 1 ELSE 0>>
IsNull(i) == i \in DOMAIN row /\ row[i] = NULL

Bitmap == [b \in 1..(4 * ((Len(row) + 31) \div 32)) |->
              [i \in 1..8 |-> Bit(IsNull(8 * (b - 1) + i))[1]]]

Field(i) ==
    IF version < 13 THEN <<Sent(columns[i], row[i]), Bit(IsNull(i))>>
    ELSE IF IsNull(i) THEN <<>>
    ELSE <<Sent(columns[i], row[i])>>

Message ==
    (IF version < 13 THEN <<>> ELSE Bitmap)
        \o FlattenSeq([i \in DOMAIN row |-> Field(i)])

Init ==
    /\ \E t \in Tables : bound = t[1] /\ columns = t[2]
    /\ row \in Rows(columns)
    /\ version \in Versions
    /\ version < 13 => \A i \in DOMAIN columns : columns[i].field \notin Newer
    /\ charset \in Charsets
    /\ body = <<>>
    /\ null_map = <<>>
    /\ data = <<>>
    /\ output = <<>>
    /\ pc = "prepare"

-----------------------------------------------------------------------------
(* prepare_statement coerces the columns; the server then sends rows so.   *)
Prepare ==
    /\ pc = "prepare"
    /\ \A i \in DOMAIN columns : Coerced(columns[i]) # "unsupported"
    /\ body' = Message
    /\ pc' = IF version < 13 THEN "parse" ELSE "null_map"
    /\ UNCHANGED <<setting, null_map, data, output>>

Unsupported ==
    /\ pc = "prepare"
    /\ \E i \in DOMAIN columns : Coerced(columns[i]) = "unsupported"
    /\ pc' = "failed"
    /\ UNCHANGED <<setting, body, null_map, data, output>>

(* parse_sql_response: the null bitmap, eight columns to a byte, aligned   *)
(* to four bytes.  Wrong variant: one byte too many for 8, 16, ... columns.*)
BytesForOffByOne(n) == n \div 8 + 1

BytesFor(n) == n \div 8 + (IF n % 8 = 0 THEN 0 ELSE 1)

NullMapLength ==
    LET len == BytesFor(Len(columns))
    IN  len + (IF len % 4 = 0 THEN 0 ELSE 4 - (len % 4))

(* What is parsed is taken from the message; a parser that asks for more   *)
(* than there is gives up.                                                 *)
Take(n, label) ==
    /\ body' = SubSeq(body, n + 1, Len(body))
    /\ pc' = IF n <= Len(body) THEN label ELSE "overrun"

ReadNullMap ==
    /\ pc = "null_map"
    /\ Take(NullMapLength, "parse")
    /\ null_map' = IF NullMapLength <= Len(body)
                   THEN SubSeq(body, 1, NullMapLength) ELSE <<>>
    /\ UNCHANGED <<setting, data, output>>

(* The index counts from 0.  Wrong variant: the bits from the other end.   *)
ReadNullReversed(i) == null_map[i \div 8 + 1][8 - (i % 8)] = 1

ReadNull(i) == null_map[i \div 8 + 1][(i % 8) + 1] = 1

Cell(is, v) == [is |-> is, v |-> v]

(* A blob's number is asked for first; then it is a Binary or a Text.      *)
VariantOf(sqltype) ==
    CASE sqltype = "VARYING"   -> "Text"
      [] sqltype = "INT64"     -> "Integer"
      [] sqltype = "DOUBLE"    -> "Floating"
      [] sqltype = "TIMESTAMP" -> "Timestamp"
      [] sqltype = "BLOB"      -> "Blob"
      [] sqltype = "BOOLEAN"   -> "Boolean"

Column  == columns[Len(data) + 1]
Parsing == pc = "parse" /\ Len(data) < Len(columns)

(* What is sent in the connection's character set decodes.  What is sent   *)
(* as stored (a raw text, a blob of a user's sub type) may not: bytes from *)
(* HighByte on are no valid text in UTF-8, and another text in ISO8859_1.  *)
HighByte    == 200
HasHigh(v)  == v[1] >= HighByte
AsStored(c) == c.raw \/ (c.field = "BLOB" /\ c.sub # 1)

Decodes(c, v) == charset # "UTF8" \/ ~AsStored(c) \/ ~HasHigh(v)
Decoded(c, v) == IF AsStored(c) /\ HasHigh(v) THEN <<v[1] + HighByte>> ELSE v

(* A text is decoded as it is parsed, if it is not null.                   *)
Readable(c, v) == Coerced(c) = "VARYING" => Decodes(c, v)
Value(c, v)    == Cell(VariantOf(Coerced(c)),
                       IF Coerced(c) = "VARYING" THEN Decoded(c, v) ELSE v)

ParseNull ==
    /\ Parsing /\ version >= 13
    /\ ReadNull(Len(data))
    /\ data' = Append(data, Cell("Null", NULL))
    /\ UNCHANGED <<setting, body, null_map, output, pc>>

ParseValue ==
    /\ Parsing /\ version >= 13
    /\ ~ReadNull(Len(data))
    /\ body # <<>> => Readable(Column, Head(body))
    /\ Take(1, "parse")
    /\ data' = IF body = <<>> THEN data
               ELSE Append(data, Value(Column, Head(body)))
    /\ UNCHANGED <<setting, null_map, output>>

(* Up to protocol 12: the value, then its flag.                            *)
FlagTold == body[2] # Bit(FALSE)

ParseFlagged ==
    /\ Parsing /\ version < 13
    /\ Len(body) >= 2 /\ ~FlagTold => Readable(Column, Head(body))
    /\ Take(2, "parse")
    /\ data' = IF Len(body) < 2 THEN data
               ELSE Append(data, IF FlagTold THEN Cell("Null", NULL)
                                 ELSE Value(Column, Head(body)))
    /\ UNCHANGED <<setting, null_map, output>>

(* The parser gives up at a text it cannot decode.                         *)
TextUndecodable ==
    /\ Parsing
    /\ Len(body) >= IF version < 13 THEN 2 ELSE 1
    /\ IF version < 13 THEN ~FlagTold ELSE ~ReadNull(Len(data))
    /\ ~Readable(Column, Head(body))
    /\ Take(IF version < 13 THEN 2 ELSE 1, "failed")
    /\ UNCHANGED <<setting, null_map, data, output>>

Parsed ==
    /\ pc = "parse"
    /\ Len(data) = Len(columns)
    /\ pc' = "into_column"
    /\ UNCHANGED <<setting, body, null_map, data, output>>

-----------------------------------------------------------------------------
(* ParsedColumn::into_column: the bytes of sub type 0 stay bytes, all      *)
(* others are decoded, and that may fail.  Wrong variant: all are text.    *)
IsBinaryNever(i) == FALSE

Blobs       == {i \in DOMAIN data : data[i].is = "Blob"}
IsBinary(i) == columns[i].sub = 0

IntoColumn(i) ==
    /\ pc = "into_column"
    /\ i \in Blobs
    /\ IsBinary(i) \/ Decodes(columns[i], data[i].v)
    /\ data' = [data EXCEPT ![i] = IF IsBinary(i) THEN Cell("Binary", @.v)
                                   ELSE Cell("Text", Decoded(columns[i], @.v))]
    /\ UNCHANGED <<setting, body, null_map, output, pc>>

DecodeFails(i) ==
    /\ pc = "into_column"
    /\ i \in Blobs
    /\ ~IsBinary(i) /\ ~Decodes(columns[i], data[i].v)
    /\ pc' = "failed"
    /\ UNCHANGED <<setting, body, null_map, data, output>>

Converted ==
    /\ pc = "into_column"
    /\ Blobs = {}
    /\ pc' = "scan"
    /\ UNCHANGED <<setting, body, null_map, data, output>>

-----------------------------------------------------------------------------
(* The accessors fb_cell_*: each takes the variants it knows, and has a    *)
(* default for the others.                                                 *)
Truncated(hundredths) ==
    IF hundredths >= 0 THEN hundredths \div 100 ELSE -((-hundredths) \div 100)

(* What no int64 can hold becomes the nearest that can.                    *)
Saturated(n) ==
    IF n < -Half["INT64"] THEN -Half["INT64"]
    ELSE IF n >= Half["INT64"] THEN Half["INT64"] - 1 ELSE n

CellI64(d) ==
    CASE d.is = "Integer"  -> d.v[1]
      [] d.is = "Floating" -> Saturated(Truncated(d.v[1]))
      [] d.is = "Boolean"  -> d.v[1]
      [] OTHER             -> 0

(* Wrong variant: an integer is not taken for a number.                    *)
CellF64FloatingOnly(d) == IF d.is = "Floating" THEN <<d.v[1]>> ELSE <<0>>

CellF64(d) ==
    CASE d.is = "Floating" -> <<d.v[1]>>
      [] d.is = "Integer"  -> <<Rounded("DOUBLE", 100 * d.v[1])>>
      [] OTHER             -> <<0>>

CellBool(d) ==
    CASE d.is = "Boolean"  -> d.v
      [] d.is = "Integer"  -> Bit(d.v[1] # 0)
      [] OTHER             -> <<0>>

CellTimestamp(d) == IF d.is = "Timestamp" THEN d.v ELSE <<0, 0>>

(* What is no text is formatted: here, a longer tuple.  No bytes are <<0>>.*)
CellText(d) == IF d.is \in {"Text", "Binary"} THEN d.v ELSE <<0>> \o d.v
CellBlob(d) == IF d.is \in {"Text", "Binary"} THEN d.v ELSE <<0>>

(* The cast of an int64 to a narrower integer.                             *)
Wrap(half, n) == <<((n + half) % (2 * half)) - half>>

(* FirebirdScan's branch for a vector of each type.                        *)
Output(type, d) ==
    IF d.is = "Null" THEN NULL
    ELSE CASE type = "SMALLINT"      -> Wrap(Half["SHORT"], CellI64(d))
           [] type = "INTEGER"       -> Wrap(Half["LONG"], CellI64(d))
           [] type = "BIGINT"        -> Wrap(Half["INT64"], CellI64(d))
           [] type = "FLOAT"         -> <<Rounded("FLOAT", CellF64(d)[1])>>
           [] type = "DOUBLE"        -> CellF64(d)
           [] type = "BOOLEAN"       -> CellBool(d)
           [] type = "DATE"          -> <<CellTimestamp(d)[1]>>
           [] type = "TIME"          -> <<CellTimestamp(d)[2]>>
           [] type = "TIMESTAMP"     -> CellTimestamp(d)
           [] type = "VARCHAR"       -> CellText(d)
           [] type = "BLOB"          -> CellBlob(d)

ReadCell ==
    /\ pc = "scan"
    /\ Len(output) < Len(bound)
    /\ LET i == Len(output) + 1
       IN  output' = Append(output, Output(LogicalType(bound[i]), data[i]))
    /\ UNCHANGED <<setting, body, null_map, data, pc>>

RowRead ==
    /\ pc = "scan"
    /\ Len(output) = Len(bound)
    /\ pc' = "done"
    /\ UNCHANGED <<setting, body, null_map, data, output>>

Next ==
    \/ Prepare \/ Unsupported
    \/ ReadNullMap \/ ParseNull \/ ParseValue \/ ParseFlagged
    \/ TextUndecodable \/ Parsed
    \/ \E i \in 1..Len(data) : IntoColumn(i) \/ DecodeFails(i)
    \/ Converted
    \/ ReadCell \/ RowRead

Spec == Init /\ [][Next]_vars

-----------------------------------------------------------------------------
(* The row ends where its message ends: the record after it in the burst   *)
(* is parsed from its own beginning, whatever is null and however many     *)
(* columns there are; nor does the parser ask for more than there is.      *)
MessageConsumed ==
    /\ pc # "overrun"
    /\ pc \in {"into_column", "scan", "done"} => body = <<>>

(* A column that is what the catalog bound has in its vector the value it  *)
(* has on the server, whatever its neighbours are and whether they were    *)
(* altered; nulls are nulls for altered columns too.  Not so the bytes     *)
(* that are no text in the connection's character set, and scaled integers *)
(* that no DOUBLE expresses ("may lose precision", README.md:121).         *)
Lossless(c, v) ==
    /\ AsStored(c) /\ ~(c.field = "BLOB" /\ c.sub = 0) => ~HasHigh(v)
    /\ IsScaled(c) => v[1] \in Floating["DOUBLE"]

RowFaithful ==
    \A i \in DOMAIN output :
        /\ (output[i] = NULL) <=> (row[i] = NULL)
        /\ (/\ bound[i] = columns[i]
            /\ row[i] # NULL /\ Lossless(columns[i], row[i]))
                => output[i] = row[i]

(* A row fails for a column of a type that is not supported, or in UTF-8   *)
(* for a text or a blob that is sent as stored and is no text in UTF-8,    *)
(* and for nothing else (coerce, parse_sql_response, into_column).         *)
Unsupportable(c) ==
    \/ c.field \in {"INT128", "OTHER"}
    \/ c.field = "BLOB" /\ c.sub > 1

FailsForCause ==
    pc = "failed" =>
        \E i \in DOMAIN columns :
            \/ Unsupportable(columns[i])
            \/ /\ charset = "UTF8"
               /\ AsStored(columns[i])
               /\ ~(columns[i].field = "BLOB" /\ columns[i].sub = 0)
               /\ row[i] # NULL /\ HasHigh(row[i])

(* A column of numbers that was altered to another type of numbers after   *)
(* it was bound: every value that the bound type can express comes out     *)
(* right; only those it cannot are truncated, wrapped or rounded           *)
(* (FirebirdScan).  A scaled integer has to pass through a DOUBLE first.   *)
Numeric(c) == c.field \in {"SHORT", "LONG", "INT64", "FLOAT", "DOUBLE"}

Hundredths(type, v) ==
    IF type \in FloatingTypes THEN v[1] ELSE 100 * v[1]

Expressible(c, hundredths) ==
    IF LogicalType(c) \in FloatingTypes
    THEN hundredths \in Floating[LogicalType(c)]
    ELSE /\ hundredths % 100 = 0
         /\ -Half[c.field] <= hundredths \div 100
         /\ hundredths \div 100 < Half[c.field]

NumbersSurvive ==
    \A i \in DOMAIN output :
        LET number == Hundredths(LogicalType(columns[i]), row[i])
        IN  (/\ Numeric(bound[i]) /\ Numeric(columns[i]) /\ row[i] # NULL
             /\ IsScaled(columns[i]) => number \in Floating["DOUBLE"]
             /\ Expressible(bound[i], number))
            => Hundredths(LogicalType(bound[i]), output[i]) = number

(* "sub_type 1 == text blob, everything else is binary"                    *)
(* (firebird_connection.cpp:55): the bytes of such a blob are kept.        *)
BlobBytesKept ==
    \A i \in DOMAIN output :
        (bound[i] = columns[i] /\ columns[i].field = "BLOB" /\ columns[i].sub # 1)
            => output[i] = row[i]

-----------------------------------------------------------------------------
(* The inductive invariant: what is left of the message at each point, and *)
(* what each column parsed so far has become.                              *)
Variants == {"Null", "Text", "Integer", "Floating", "Timestamp", "Blob",
             "Boolean", "Binary"}

TypeOK ==
    /\ bound \in Seq(ColumnDef) /\ columns \in Seq(ColumnDef)
    /\ row \in Seq(Seq(Int))
    /\ version \in 10..13 /\ charset \in {"UTF8", "ISO8859_1"}
    /\ body \in Seq(Seq(Int)) /\ null_map \in Seq(Seq(Int))
    /\ data \in Seq([is : Variants, v : Seq(Int)])
    /\ output \in Seq(Seq(Int))
    /\ pc \in {"prepare", "null_map", "parse", "into_column", "scan", "done",
               "failed"}

(* The row is one of its columns, of which there are as many as were bound.*)
SettingOK ==
    /\ Len(bound) = Len(columns) /\ Len(row) = Len(columns)
    /\ \A i \in DOMAIN columns :
          /\ bound[i].scale <= 0 /\ columns[i].scale <= 0
          /\ columns[i].raw => HasText(columns[i])
          /\ row[i] = NULL \/ IsValue(columns[i], row[i])
    /\ pc \notin {"prepare", "failed"} =>
          \A i \in DOMAIN columns : Coerced(columns[i]) # "unsupported"

(* The message after its first k columns.                                  *)
Unparsed(k) == FlattenSeq([j \in 1..(Len(row) - k) |-> Field(k + j)])

MessageLeft ==
    /\ pc = "prepare" => body = <<>>
    /\ pc = "null_map" => version = 13 /\ body = Bitmap \o Unparsed(0)
    /\ pc = "parse" => /\ body = Unparsed(Len(data))
                       /\ version = 13 => null_map = Bitmap
    /\ pc \in {"into_column", "scan", "done"} => body = <<>>

(* A column as it was parsed, and a blob as into_column may have made it.  *)
CellOf(i) == IF IsNull(i) THEN Cell("Null", NULL)
             ELSE Value(columns[i], Sent(columns[i], row[i]))

BlobOf(i, d) ==
    /\ CellOf(i).is = "Blob"
    /\ d = IF IsBinary(i) THEN Cell("Binary", row[i])
           ELSE Cell("Text", Decoded(columns[i], row[i]))

DataOK ==
    /\ Len(data) <= Len(columns)
    /\ pc \in {"prepare", "null_map"} => data = <<>>
    /\ pc \in {"into_column", "scan", "done"} => Len(data) = Len(columns)
    /\ \A i \in DOMAIN data :
          \/ data[i] = CellOf(i)
          \/ pc \notin {"prepare", "null_map", "parse"} /\ BlobOf(i, data[i])
    /\ pc \in {"scan", "done"} => Blobs = {}

OutputOK ==
    /\ Len(output) <= Len(bound)
    /\ pc \notin {"scan", "done"} => output = <<>>
    /\ \A i \in DOMAIN output :
          output[i] = Output(LogicalType(bound[i]), data[i])

IInv == TypeOK /\ SettingOK /\ MessageLeft /\ DataOK /\ OutputOK /\ FailsForCause
=============================================================================
