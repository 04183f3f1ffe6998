-------------------------------- MODULE Describe --------------------------------
(***************************************************************************)
(* How prepare_statement learns the columns of a statement.  The server's  *)
(* answer has a fixed room (BUFFER_LENGTH); the description of the columns *)
(* is a stream of items that it cuts off, with isc_info_truncated, before  *)
(* the first item that does not fit.  The client then asks again, from the *)
(* last column it has heard of, and goes on filling its xsqlda             *)
(* (parse_xsqlda, parse_select_items), until an answer is not cut off.     *)
(*                                                                         *)
(* An attribute of a column (its type, scale, names, ...) is abstracted to *)
(* <<column, attribute>>; what matters of it is its size.                  *)
(***************************************************************************)
EXTENDS Naturals, Sequences, Functions

CONSTANTS
    Attributes,     \* the number of attributes of a column
    Sizes,          \* the sizes an attribute may have
    Room,           \* the room for items in an answer
    MaxColumns,     \* more columns than these are taken for an error
    Columns         \* bound: columns of a statement

ASSUME DescribeAssumption ==
    /\ Attributes \in Nat \ {0}
    /\ Sizes \subseteq Nat \ {0}
    /\ Room \in Nat /\ MaxColumns \in Nat /\ Columns \in Nat

VARIABLES
    size,           \* size[c][a]: the size of attribute a of column c
    telling,        \* the item the server tells next
    room,           \* the room that is left in its answer
    reply,          \* the items of the answer that are not parsed yet
    xsqlda,         \* the columns described so far
    col_index,      \* the column whose attributes are being parsed
    phase

server        == <<size, telling, room>>
describe_vars == <<server, reply, xsqlda, col_index, phase>>

Unknown == [a \in 1..Attributes |-> <<>>]
Described(c) == [a \in 1..Attributes |-> <<c, a>>]

(* The items of a column are its index, its attributes and an end.         *)
Item(kind, c, a) == [kind |-> kind, column |-> c, attribute |-> a]
Marker(kind)     == Item(kind, 0, 0)
Index(c)         == Item("sqlda_seq", c, 0)

After(item) ==
    CASE item.kind = "describe_end"       -> Index(item.column + 1)
      [] item.kind # "describe_end" /\ item.attribute = Attributes
                                          -> Item("describe_end", item.column, 0)
      [] OTHER -> Item("attribute", item.column, item.attribute + 1)

DescribeInit ==
    /\ \E n \in 0..Columns : size \in [1..n -> [1..Attributes -> Sizes]]
    /\ telling = Index(1)
    /\ room = Room
    /\ reply = <<>>
    /\ xsqlda = <<>>
    /\ col_index = 0
    /\ phase = "server"

-----------------------------------------------------------------------------
(* The server tells one item after the other as long as they fit.  The     *)
(* index of a column and the end of its description take the room of one.  *)
SizeOf(item) ==
    IF item.kind = "attribute" THEN size[item.column][item.attribute] ELSE 1

Telling(more) == phase = "server" /\ (telling.column <= Len(size)) = more

Tell ==
    /\ Telling(TRUE)
    /\ SizeOf(telling) <= room
    /\ reply' = Append(reply, telling)
    /\ room' = room - SizeOf(telling)
    /\ telling' = After(telling)
    /\ UNCHANGED <<size, xsqlda, col_index, phase>>

Ends(kind) ==
    /\ reply' = Append(reply, Marker(kind))
    /\ phase' = "header"
    /\ UNCHANGED <<server, xsqlda, col_index>>

CutOff  == Telling(TRUE) /\ SizeOf(telling) > room /\ Ends("truncated")
ToldAll == Telling(FALSE) /\ Ends("end")

-----------------------------------------------------------------------------
(* parse_xsqlda: the number of columns; the items start at index 0.        *)
TooMany == Len(size) > MaxColumns

Header ==
    /\ phase = "header"
    /\ ~TooMany
    /\ col_index' = 1
    /\ phase' = "items"
    /\ UNCHANGED <<server, reply, xsqlda>>

HeaderInvalid ==
    /\ phase = "header"
    /\ TooMany
    /\ phase' = "failed"
    /\ UNCHANGED <<server, reply, xsqlda, col_index>>

(* parse_select_items, item by item.  Indexes count from 1 here.           *)
ParsingItem(kind) == phase = "items" /\ Head(reply).kind = kind

NewColumn ==
    /\ ParsingItem("sqlda_seq")
    /\ col_index' = Head(reply).column
    /\ xsqlda' = IF Head(reply).column > Len(xsqlda)
                 THEN Append(xsqlda, Unknown) ELSE xsqlda
    /\ reply' = Tail(reply)
    /\ UNCHANGED <<server, phase>>

Attribute ==
    /\ ParsingItem("attribute")
    /\ col_index \in DOMAIN xsqlda
    /\ xsqlda' = [xsqlda EXCEPT ![col_index][Head(reply).attribute] =
                      <<Head(reply).column, Head(reply).attribute>>]
    /\ reply' = Tail(reply)
    /\ UNCHANGED <<server, col_index, phase>>

DescribeEnd ==
    /\ ParsingItem("describe_end")
    /\ reply' = Tail(reply)
    /\ UNCHANGED <<server, xsqlda, col_index, phase>>

Done ==
    /\ ParsingItem("end")
    /\ reply' = <<>>
    /\ phase' = "done"
    /\ UNCHANGED <<server, xsqlda, col_index>>

(* The server tells again from a column on; with 0, from the first.  Wrong *)
(* variants: the client goes on behind the last column, whose description  *)
(* may be incomplete; it begins anew each time.                            *)
AskFrom(c) ==
    /\ ParsingItem("truncated")
    /\ reply' = <<>>
    /\ telling' = Index(IF c = 0 THEN 1 ELSE c)
    /\ room' = Room
    /\ phase' = "server"
    /\ UNCHANGED <<size, xsqlda, col_index>>

TruncatedSkips    == AskFrom(Len(xsqlda) + 1)
TruncatedRestarts == AskFrom(1)

AnswerTruncated == AskFrom(Len(xsqlda))

DescribeNext ==
    \/ Tell \/ CutOff \/ ToldAll
    \/ Header \/ HeaderInvalid
    \/ NewColumn \/ Attribute \/ DescribeEnd \/ Done \/ AnswerTruncated

(* The server answers and the client parses what it was sent.              *)
DescribeSpec == DescribeInit /\ [][DescribeNext]_describe_vars /\ WF_describe_vars(DescribeNext)

-----------------------------------------------------------------------------
(* Columns are heard of in order, and all but the last one heard of are    *)
(* described in full, by their own attributes: what an answer left out,    *)
(* the next one brings, and an attribute only comes for a column that was  *)
(* heard of (parse_select_items would refuse it).  When prepare_statement  *)
(* has read the last answer it has every attribute of every column, in     *)
(* however many parts they came.                                           *)
DescribedInOrder ==
    /\ \A c \in DOMAIN xsqlda :
          \/ xsqlda[c] = Described(c)
          \/ /\ c = Len(xsqlda)
             /\ \A a \in 1..Attributes : xsqlda[c][a] \in {<<>>, <<c, a>>}
    /\ (phase = "items" /\ Head(reply).kind = "attribute")
           => col_index \in DOMAIN xsqlda
    /\ phase = "done" => xsqlda = [c \in DOMAIN size |-> Described(c)]

(* The loop ends if an answer has room for each column and the index of    *)
(* the next one.  Were a single description longer than an answer, the     *)
(* same question would be asked and answered for ever.                     *)
AnswerHoldsColumn ==
    \A c \in DOMAIN size : FoldFunction(+, 3, size[c]) <= Room

DescribeEnds == AnswerHoldsColumn => <>(phase \in {"done", "failed"})

-----------------------------------------------------------------------------
(* The inductive invariant: what an answer may consist of, and what has    *)
(* been heard by the time the client comes to each of its items.           *)
Kinds == {"sqlda_seq", "attribute", "describe_end", "truncated", "end"}
Items == [kind : Kinds, column : Nat, attribute : 0..Attributes]

IsItem(item) ==
    /\ item.kind \in {"sqlda_seq", "attribute", "describe_end"}
    /\ item.column > 0
    /\ item.kind = "attribute" <=> item.attribute > 0

DescribeTypeOK ==
    /\ size \in Seq([1..Attributes -> Nat])
    /\ telling \in Items /\ IsItem(telling)
    /\ room \in Nat
    /\ reply \in Seq(Items)
    /\ xsqlda \in Seq([1..Attributes -> {<<>>} \cup (Nat \X Nat)])
    /\ col_index \in Nat
    /\ phase \in {"server", "header", "items", "done", "failed"}

(* The server is within the columns or just behind them.                   *)
TellingOK ==
    telling.column > Len(size) =>
        telling.kind = "sqlda_seq" /\ telling.column = Len(size) + 1

(* An item is followed by the one after it, or by a mark that ends the     *)
(* answer: "end" only behind the last column.                              *)
Follows(item, next) ==
    /\ IsItem(item) /\ item.column <= Len(size)
    /\ \/ next.kind = "truncated"
       \/ next.kind = "end" /\ item = Item("describe_end", Len(size), 0)
       \/ IsItem(next) /\ next.column <= Len(size) /\ next = After(item)

Chained ==
    /\ \A j \in 1..(Len(reply) - 1) : Follows(reply[j], reply[j + 1])
    /\ phase = "server" =>
          \A j \in DOMAIN reply : j = Len(reply) =>
              IsItem(reply[j]) /\ reply[j].column <= Len(size) /\ telling = After(reply[j])
    /\ phase \in {"header", "items"} =>
          reply # <<>> /\ reply[Len(reply)].kind \in {"truncated", "end"}

(* The columns heard of before the last one are complete.                  *)
Heard == Len(xsqlda)

Complete(n) == \A c \in 1..n : xsqlda[c] = Described(c)

XsqldaOK ==
    /\ Heard <= Len(size)
    /\ Complete(Heard - 1)
    /\ Heard > 0 => \A a \in 1..Attributes : xsqlda[Heard][a] \in {<<>>, <<Heard, a>>}

(* Where an answer begins, and where the parser is in it.                  *)
Begins(item) == item = Index(IF Heard = 0 THEN 1 ELSE Heard)

FirstOK ==
    /\ phase = "server" /\ reply = <<>> => Begins(telling)
    /\ phase = "server" /\ reply # <<>> => Begins(reply[1])
    /\ phase = "header" =>
          \/ Begins(reply[1])
          \/ reply[1].kind = "truncated"
          \/ reply[1].kind = "end" /\ Len(size) = 0

HeadOK ==
    LET item == reply[1]
    IN  phase = "items" =>
            CASE item.kind = "sqlda_seq" ->
                    Begins(item) \/ (item.column = Heard + 1 /\ Complete(Heard))
              [] item.kind = "attribute" ->
                    /\ item.column = Heard /\ col_index = Heard
                    /\ \A a \in 1..(item.attribute - 1) : xsqlda[Heard][a] = <<Heard, a>>
              [] item.kind = "describe_end" -> item.column = Heard /\ Complete(Heard)
              [] item.kind = "end"          -> Heard = Len(size) /\ Complete(Heard)
              [] item.kind = "truncated"    -> TRUE

DoneOK == phase = "done" => Heard = Len(size) /\ Complete(Heard)

DescribeInv ==
    DescribeTypeOK /\ TellingOK /\ Chained /\ XsqldaOK /\ FirstOK /\ HeadOK /\ DoneOK
=============================================================================
