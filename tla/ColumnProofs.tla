---------------------------- MODULE ColumnProofs ----------------------------
(***************************************************************************)
(* The columns of a statement: that RowDecoding keeps IInv, and with it    *)
(* that rows arrive as they are, for every table and row, alteration of    *)
(* its columns, protocol version, character set, width of the integers and *)
(* precision of the floating numbers, and fail for the causes stated only; *)
(* and that Describe keeps DescribeInv, and with it that the client ends   *)
(* up with every attribute of every column, for any number of columns and  *)
(* attributes, sizes, and room in an answer, wherever the answers are cut. *)
(* There is one lemma per action and one per accessor's result.            *)
(***************************************************************************)
EXTENDS RowDecoding, Describe, SequenceTheorems, WellFoundedInduction, TLAPS

-----------------------------------------------------------------------------
(* What FlattenSeq, which puts a message together, makes of a sequence.    *)

(* Induction over the natural numbers, with a set for the predicate.       *)
LEMMA SetInduction ==
  ASSUME NEW S, 0 \in S, \A n \in Nat : n \in S => n + 1 \in S
  PROVE  \A n \in Nat : n \in S
<1> DEFINE T == Nat \ S
           R == {ss \in Nat \X Nat : ss[1] < ss[2]}
<1> SUFFICES ASSUME T # {} PROVE FALSE
  OBVIOUS
<1>1. IsWellFoundedOn(R, Nat)
  BY NatLessThanWellFounded DEF OpToRel
<1>2. T \subseteq Nat
  OBVIOUS
<1> HIDE DEF T, R
<1>3. PICK x \in T : \A y \in T : <<y, x>> \notin R
  BY <1>1, <1>2, WFMin
<1>4. x \in Nat /\ x # 0
  BY <1>2, <1>3 DEF T
<1>5. x - 1 \in Nat
  BY <1>4
<1>6. <<x - 1, x>> \in R
  BY <1>4, <1>5 DEF R
<1>7. x - 1 \notin T
  BY <1>3, <1>6
<1>. QED BY <1>3, <1>4, <1>5, <1>7 DEF T

(* The function that FlattenSeq recurs by.                                 *)
IsFlatten(f, s) ==
    f = [i \in 1..Len(s) |-> IF i = 1 THEN s[i] ELSE f[i - 1] \o s[i]]

LEMMA FlattenDefined ==
  ASSUME NEW A, NEW s \in Seq(Seq(A))
  PROVE  \E f : IsFlatten(f, s)
<1> DEFINE Is(f, m) == f = [i \in 1..m |-> IF i = 1 THEN s[i] ELSE f[i - 1] \o s[i]]
           S == {m \in Nat : \E f : Is(f, m)}
<1>1. 0 \in S
  <2>1. Is([i \in 1..0 |-> s[i]], 0)
    OBVIOUS
  <2>. QED BY <2>1
<1>2. ASSUME NEW m \in Nat, m \in S PROVE m + 1 \in S
  <2>1. PICK f : Is(f, m)
    BY <1>2
  <2> DEFINE g == [i \in 1..m + 1 |-> IF i = 1 THEN s[i] ELSE f[i - 1] \o s[i]]
  <2>2. ASSUME NEW i \in 1..m PROVE g[i] = f[i]
    <3>1. i \in 1..m + 1
      OBVIOUS
    <3>2. g[i] = IF i = 1 THEN s[i] ELSE f[i - 1] \o s[i]
      BY <3>1
    <3>3. f[i] = IF i = 1 THEN s[i] ELSE f[i - 1] \o s[i]
      BY <2>1, Zenon
    <3>. QED BY <3>2, <3>3
  <2>3. \A i \in 1..m + 1 : i # 1 => i - 1 \in 1..m
    OBVIOUS
  <2>4. Is(g, m + 1)
    BY <2>2, <2>3
  <2> HIDE DEF Is, g
  <2>5. \E h : Is(h, m + 1)
    BY <2>4
  <2>. QED BY <2>5
<1> HIDE DEF S
<1>3. \A n \in Nat : n \in S
  BY <1>1, <1>2, SetInduction
<1>4. Len(s) \in S
  BY <1>3
<1>. QED BY <1>4, Zenon DEF S, IsFlatten

LEMMA FlattenValues ==
  ASSUME NEW A, NEW s \in Seq(Seq(A)), NEW f, IsFlatten(f, s)
  PROVE  /\ Len(s) > 0 => f[1] = s[1]
         /\ \A i \in 1..Len(s) - 1 : f[i + 1] = f[i] \o s[i + 1]
         /\ \A i \in 1..Len(s) : f[i] \in Seq(A)
<1>1. \A i \in 1..Len(s) : f[i] = IF i = 1 THEN s[i] ELSE f[i - 1] \o s[i]
  BY Zenon DEF IsFlatten
<1>2. Len(s) > 0 => f[1] = s[1]
  <2>1. Len(s) > 0 => 1 \in 1..Len(s)
    OBVIOUS
  <2>. QED BY <1>1, <2>1
<1>3. ASSUME NEW i \in 1..Len(s) - 1 PROVE f[i + 1] = f[i] \o s[i + 1]
  <2>1. i + 1 \in 1..Len(s) /\ i + 1 # 1 /\ (i + 1) - 1 = i
    OBVIOUS
  <2>. QED BY <1>1, <2>1
<1> DEFINE S == {m \in Nat : m \in 1..Len(s) => f[m] \in Seq(A)}
<1>4. 0 \in S
  OBVIOUS
<1>5. ASSUME NEW m \in Nat, m \in S PROVE m + 1 \in S
  <2> SUFFICES ASSUME m + 1 \in 1..Len(s) PROVE f[m + 1] \in Seq(A)
    OBVIOUS
  <2>1. s[m + 1] \in Seq(A)
    BY ElementOfSeq
  <2>2. CASE m = 0
    BY <1>2, <2>1, <2>2
  <2>3. CASE m # 0
    <3>1. m \in 1..Len(s) - 1 /\ m \in 1..Len(s)
      BY <2>3
    <3>2. f[m] \in Seq(A) /\ f[m + 1] = f[m] \o s[m + 1]
      BY <1>3, <1>5, <3>1
    <3>. QED BY <2>1, <3>2
  <2>. QED BY <2>2, <2>3
<1> HIDE DEF S
<1>6. \A n \in Nat : n \in S
  BY <1>4, <1>5, SetInduction
<1>7. ASSUME NEW i \in 1..Len(s) PROVE f[i] \in Seq(A)
  <2>1. i \in S
    BY <1>6
  <2>. QED BY <2>1 DEF S
<1>. QED BY <1>2, <1>3, <1>7

LEMMA FlattenIs ==
  ASSUME NEW A, NEW s \in Seq(Seq(A))
  PROVE  \E f : /\ IsFlatten(f, s)
                /\ Len(s) # 0 => FlattenSeq(s) = f[Len(s)]
                /\ Len(s) = 0 => FlattenSeq(s) = <<>>
<1> DEFINE f == CHOOSE f : IsFlatten(f, s)
<1>1. IsFlatten(f, s)
  BY FlattenDefined
<1>2. FlattenSeq(s) = IF Len(s) = 0 THEN s ELSE f[Len(s)]
  BY DEF FlattenSeq, IsFlatten
<1> HIDE DEF f
<1>3. Len(s) = 0 => s = <<>>
  BY EmptySeq
<1>. QED BY <1>1, <1>2, <1>3

(* FlattenSeq, from the front.                                             *)
LEMMA FlattenCons ==
  ASSUME NEW A, NEW s \in Seq(Seq(A)), s # <<>>
  PROVE  /\ FlattenSeq(Tail(s)) \in Seq(A)
         /\ FlattenSeq(s) = s[1] \o FlattenSeq(Tail(s))
<1> DEFINE t == Tail(s)
<1>1. /\ t \in Seq(Seq(A)) /\ Len(t) = Len(s) - 1 /\ Len(s) \in Nat \ {0}
      /\ \A i \in 1..Len(t) : t[i] = s[i + 1]
      /\ s[1] \in Seq(A)
  OBVIOUS
<1> HIDE DEF t
<1>2. PICK f : IsFlatten(f, s) /\ FlattenSeq(s) = f[Len(s)]
  BY <1>1, FlattenIs
<1>3. PICK g : /\ IsFlatten(g, t)
               /\ Len(t) # 0 => FlattenSeq(t) = g[Len(t)]
               /\ Len(t) = 0 => FlattenSeq(t) = <<>>
  BY <1>1, FlattenIs
<1>4. /\ Len(s) > 0 => f[1] = s[1]
      /\ \A i \in 1..Len(s) - 1 : f[i + 1] = f[i] \o s[i + 1]
      /\ \A i \in 1..Len(s) : f[i] \in Seq(A)
  BY <1>2, FlattenValues, Zenon
<1>5. /\ Len(t) > 0 => g[1] = t[1]
      /\ \A i \in 1..Len(t) - 1 : g[i + 1] = g[i] \o t[i + 1]
      /\ \A i \in 1..Len(t) : g[i] \in Seq(A)
  BY <1>1, <1>3, FlattenValues, Zenon
<1>6. f[1] = s[1] /\ \A i \in 1..Len(t) : f[i + 1] = f[i] \o t[i]
  <2>1. f[1] = s[1]
    BY <1>1, <1>4
  <2>2. ASSUME NEW i \in 1..Len(t) PROVE f[i + 1] = f[i] \o t[i]
    <3>1. i \in 1..Len(s) - 1 /\ t[i] = s[i + 1]
      BY <1>1
    <3>. QED BY <3>1, <1>4, Zenon
  <2>. QED BY <2>1, <2>2
<1>7. \A m \in 1..Len(t) : f[m + 1] = s[1] \o g[m]
  <2>0. \A y \in Seq(A), z \in Seq(A) : (s[1] \o y) \o z = s[1] \o (y \o z)
    <3> DEFINE x == s[1]
    <3>1. x \in Seq(A)
      BY <1>1
    <3> HIDE DEF x
    <3>2. ASSUME NEW y \in Seq(A), NEW z \in Seq(A)
          PROVE  (x \o y) \o z = x \o (y \o z)
      BY <3>1, ConcatAssociative, SMTT(60)
    <3>. QED BY <3>2 DEF x
  <2> DEFINE S == {m \in Nat : m \in 1..Len(t) => f[m + 1] = s[1] \o g[m]}
  <2>1. 0 \in S
    OBVIOUS
  <2>2. ASSUME NEW m \in Nat, m \in S PROVE m + 1 \in S
    <3>. m + 1 \in Nat
      OBVIOUS
    <3>1. SUFFICES ASSUME m + 1 \in 1..Len(t) PROVE f[(m + 1) + 1] = s[1] \o g[m + 1]
      BY Zenon
    <3>2. t[m + 1] \in Seq(A)
      BY <1>1, <3>1, ElementOfSeq
    <3>3. f[(m + 1) + 1] = f[m + 1] \o t[m + 1]
      BY <1>6, <3>1
    <3>4. CASE m = 0
      <4>1. Len(t) > 0
        BY <3>1, <3>4
      <4>2. g[m + 1] = t[m + 1] /\ f[m + 1] = s[1]
        BY <1>5, <1>6, <4>1, <3>4
      <4>. QED BY <3>3, <4>2
    <3>5. CASE m # 0
      <4>1. m \in 1..Len(t) /\ m \in 1..Len(t) - 1
        BY <3>1, <3>5
      <4>2. f[m + 1] = s[1] \o g[m]
        BY <2>2, <4>1
      <4>3. g[m + 1] = g[m] \o t[m + 1] /\ g[m] \in Seq(A)
        BY <1>5, <4>1
      <4> HIDE DEF S
      <4>4. (s[1] \o g[m]) \o t[m + 1] = s[1] \o (g[m] \o t[m + 1])
        BY <2>0, <3>2, <4>3
      <4>. QED BY ONLY <3>3, <4>2, <4>3, <4>4
    <3>. QED BY <3>4, <3>5
  <2> HIDE DEF S
  <2>3. \A n \in Nat : n \in S
    BY <2>1, <2>2, SetInduction
  <2>4. ASSUME NEW m \in 1..Len(t) PROVE f[m + 1] = s[1] \o g[m]
    <3>1. m \in S
      BY <2>3
    <3>. QED BY <3>1 DEF S
  <2>. QED BY <2>4
<1>8. CASE Len(t) = 0
  <2>1. FlattenSeq(s) = s[1] /\ FlattenSeq(t) = <<>>
    <3>1. Len(s) = 1
      BY <1>1, <1>8
    <3>. QED BY <3>1, <1>2, <1>3, <1>6, <1>8, Zenon
  <2>2. s[1] \o <<>> = s[1] /\ <<>> \in Seq(A)
    BY <1>1
  <2>. QED BY <2>1, <2>2 DEF t
<1>9. CASE Len(t) # 0
  <2>1. Len(t) \in 1..Len(t) /\ Len(t) + 1 = Len(s)
    BY <1>1, <1>9
  <2>2. FlattenSeq(s) = s[1] \o FlattenSeq(t) /\ FlattenSeq(t) \in Seq(A)
    BY <2>1, <1>2, <1>3, <1>5, <1>7, <1>9
  <2>. QED BY <2>2 DEF t
<1>. QED BY <1>8, <1>9

-----------------------------------------------------------------------------
(* The message of a row.                                                   *)

(* Some number of a floating type is nearest to any other, and a number of *)
(* the type is nearest to itself.                                          *)
LEMMA RoundedFacts ==
  ASSUME NEW t \in FloatingTypes, NEW n \in Int
  PROVE  /\ Rounded(t, n) \in Floating[t] /\ Rounded(t, n) \in Int
         /\ n \in Floating[t] => Rounded(t, n) = n
<1>1. Floating[t] \subseteq Int /\ Floating[t] # {}
  BY DecodingAssumption DEF DecodingAssumption, FloatingTypes
<1>2. \A m, k \in Int : /\ Distance(m, k) \in Nat
                        /\ Distance(m, k) = 0 <=> m = k
  BY DEF Distance
<1>3. \E m \in Floating[t] : \A k \in Floating[t] : Distance(m, n) <= Distance(k, n)
  <2> DEFINE D == {Distance(k, n) : k \in Floating[t]}
             R == {ss \in Nat \X Nat : ss[1] < ss[2]}
  <2>1. IsWellFoundedOn(R, Nat)
    BY NatLessThanWellFounded DEF OpToRel
  <2>2. D \subseteq Nat /\ D # {}
    <3>1. \A k \in Floating[t] : k \in Int /\ n \in Int
      BY <1>1
    <3>2. \A k \in Floating[t] : Distance(k, n) \in Nat
      BY <1>2, <3>1
    <3>. QED BY <1>1, <3>2
  <2> HIDE DEF D, R
  <2>3. PICK x \in D : \A y \in D : <<y, x>> \notin R
    BY <2>1, <2>2, WFMin
  <2>4. \A y \in D : x <= y
    <3>1. \A y \in D : x \in Nat /\ y \in Nat /\ ~(y < x)
      BY <2>2, <2>3 DEF R
    <3>. QED BY <3>1
  <2>. QED BY <2>3, <2>4 DEF D
<1>4. /\ Rounded(t, n) \in Floating[t]
      /\ \A k \in Floating[t] : Distance(Rounded(t, n), n) <= Distance(k, n)
  BY <1>3 DEF Rounded
<1>5. ASSUME n \in Floating[t] PROVE Rounded(t, n) = n
  <2>1. Rounded(t, n) \in Int /\ Distance(Rounded(t, n), n) <= Distance(n, n)
    BY <1>1, <1>4, <1>5
  <2>2. Distance(n, n) = 0 /\ Distance(Rounded(t, n), n) \in Nat
    BY <1>2, <2>1
  <2>3. Distance(Rounded(t, n), n) = 0
    <3> DEFINE x == Distance(Rounded(t, n), n)
    <3>1. x \in Nat /\ x <= 0
      BY <2>1, <2>2
    <3> HIDE DEF x
    <3>2. x = 0
      BY <3>1
    <3>. QED BY <3>2 DEF x
  <2>. QED BY <1>2, <2>1, <2>3
<1>. QED BY <1>1, <1>4, <1>5

LEMMA SentType ==
  ASSUME NEW c \in ColumnDef, NEW v \in Seq(Int), v = NULL \/ IsValue(c, v)
  PROVE  Sent(c, v) \in Seq(Int)
<1>1. CASE v = NULL
  BY <1>1 DEF Sent
<1>2. CASE v # NULL
  <2>1. v[1] \in Int
    BY <1>2 DEF IsValue
  <2>2. Rounded("DOUBLE", v[1]) \in Int
    BY <2>1, RoundedFacts DEF FloatingTypes
  <2>3. /\ <<v[1], 0>> \in Seq(Int) /\ <<Today, v[1]>> \in Seq(Int)
        /\ <<Rounded("DOUBLE", v[1])>> \in Seq(Int)
    BY <2>1, <2>2 DEF Today
  <2>. QED BY <1>2, <2>3 DEF Sent
<1>. QED BY <1>1, <1>2

LEMMA AtColumn ==
  ASSUME TypeOK, SettingOK, NEW i \in 1..Len(row)
  PROVE  /\ i \in DOMAIN columns /\ i \in DOMAIN row /\ i \in DOMAIN bound
         /\ columns[i] \in ColumnDef /\ bound[i] \in ColumnDef
         /\ columns[i].scale <= 0 /\ bound[i].scale <= 0
         /\ columns[i].raw => HasText(columns[i])
         /\ row[i] \in Seq(Int)
         /\ row[i] = NULL \/ IsValue(columns[i], row[i])
<1>1. /\ columns \in Seq(ColumnDef) /\ bound \in Seq(ColumnDef)
      /\ row \in Seq(Seq(Int))
      /\ i \in 1..Len(columns) /\ i \in 1..Len(bound)
  BY DEF TypeOK, SettingOK
<1>2. /\ i \in DOMAIN columns /\ i \in DOMAIN row /\ i \in DOMAIN bound
      /\ columns[i] \in ColumnDef /\ bound[i] \in ColumnDef
      /\ row[i] \in Seq(Int)
  BY <1>1, ElementOfSeq
<1>. QED BY <1>2 DEF SettingOK

LEMMA FieldType ==
  ASSUME TypeOK, SettingOK, NEW i \in 1..Len(row)
  PROVE  Field(i) \in Seq(Seq(Int))
<1>1. Sent(columns[i], row[i]) \in Seq(Int)
  BY AtColumn, SentType
<1>2. Bit(IsNull(i)) \in Seq(Int)
  BY DEF Bit
<1>. QED BY <1>1, <1>2 DEF Field

LEMMA UnparsedStep ==
  ASSUME TypeOK, SettingOK, NEW k \in 0..(Len(row) - 1)
  PROVE  /\ Unparsed(k + 1) \in Seq(Seq(Int))
         /\ Unparsed(k) = Field(k + 1) \o Unparsed(k + 1)
<1> DEFINE s == [j \in 1..(Len(row) - k) |-> Field(k + j)]
           t == [j \in 1..(Len(row) - (k + 1)) |-> Field((k + 1) + j)]
<1>1. Len(row) \in Nat /\ k \in Nat /\ Len(row) - k \in Nat \ {0}
  BY DEF TypeOK
<1>2. \A j \in 1..(Len(row) - k) : Field(k + j) \in Seq(Seq(Int))
  BY <1>1, FieldType
<1>3. s \in Seq(Seq(Seq(Int))) /\ Len(s) = Len(row) - k
  BY <1>1, <1>2
<1>4. t \in Seq(Seq(Seq(Int))) /\ Len(t) = Len(row) - (k + 1)
  <2>1. /\ Len(row) - (k + 1) \in Nat
        /\ \A j \in 1..(Len(row) - (k + 1)) : Field((k + 1) + j) \in Seq(Seq(Int))
    BY <1>1, FieldType
  <2>. QED BY <2>1
<1>5. s[1] = Field(k + 1)
  BY <1>1
<1>6. \A j \in 1..Len(t) : t[j] = s[j + 1]
  BY <1>1, <1>4
<1>7. Unparsed(k) = FlattenSeq(s) /\ Unparsed(k + 1) = FlattenSeq(t)
  BY DEF Unparsed
<1> HIDE DEF s, t
<1>8. s # <<>>
  BY <1>1, <1>3
<1>9. Tail(s) = t
  <2>1. /\ Tail(s) \in Seq(Seq(Seq(Int))) /\ Len(Tail(s)) = Len(t)
        /\ \A j \in 1..Len(t) : Tail(s)[j] = s[j + 1]
    BY <1>1, <1>3, <1>4, <1>8
  <2>. QED BY <1>4, <1>6, <2>1, SeqEqual
<1>10. /\ FlattenSeq(Tail(s)) \in Seq(Seq(Int))
       /\ FlattenSeq(s) = s[1] \o FlattenSeq(Tail(s))
  BY <1>3, <1>8, FlattenCons
<1>. QED BY <1>5, <1>7, <1>9, <1>10

LEMMA UnparsedEmpty ==
  ASSUME TypeOK
  PROVE  Unparsed(Len(row)) = <<>>
<1>1. Len(row) - Len(row) = 0
  BY DEF TypeOK
<1>2. FlattenSeq(<<>>) = <<>>
  <2>1. <<>> \in Seq(Seq(Int)) /\ Len(<<>>) = 0
    OBVIOUS
  <2>. QED BY <2>1, FlattenIs
<1>. QED BY <1>1, <1>2 DEF Unparsed

LEMMA UnparsedType ==
  ASSUME TypeOK, SettingOK
  PROVE  Unparsed(0) \in Seq(Seq(Int))
<1>1. CASE Len(row) = 0
  <2>1. Unparsed(0) = <<>>
    BY <1>1, UnparsedEmpty
  <2>2. <<>> \in Seq(Seq(Int))
    OBVIOUS
  <2>. QED BY <2>1, <2>2, Zenon
<1>2. CASE Len(row) # 0
  <2>1. 0 \in 0..(Len(row) - 1) /\ 0 + 1 \in 1..Len(row)
    BY <1>2 DEF TypeOK
  <2>2. Field(0 + 1) \in Seq(Seq(Int))
    BY <2>1, FieldType
  <2>3. Unparsed(0 + 1) \in Seq(Seq(Int)) /\ Unparsed(0) = Field(0 + 1) \o Unparsed(0 + 1)
    BY <2>1, UnparsedStep
  <2>. QED BY <2>2, <2>3, ConcatProperties, Zenon
<1>. QED BY <1>1, <1>2

LEMMA BitmapFacts ==
  ASSUME TypeOK
  PROVE  /\ Bitmap \in Seq(Seq(Int))
         /\ Len(Bitmap) = 4 * ((Len(row) + 31) \div 32)
         /\ \A k \in 0..(Len(row) - 1) :
               Bitmap[k \div 8 + 1][(k % 8) + 1] = 1 <=> IsNull(k + 1)
<1> DEFINE n == Len(row)
           w == 4 * ((n + 31) \div 32)
           byte(b) == [i \in 1..8 |-> Bit(IsNull(8 * (b - 1) + i))[1]]
<1>1. n \in Nat
  BY DEF TypeOK
<1> HIDE DEF n
<1>2. w \in Nat
  BY <1>1
<1>3. \A b \in 1..w : byte(b) \in Seq(Int)
  BY DEF Bit
<1>4. Bitmap = [b \in 1..w |-> byte(b)]
  BY DEF Bitmap, n
<1>5. Bitmap \in Seq(Seq(Int)) /\ Len(Bitmap) = w
  <2> HIDE DEF w, byte
  <2>. QED BY <1>2, <1>3, <1>4
<1>6. ASSUME NEW k \in 0..(n - 1)
      PROVE  Bitmap[k \div 8 + 1][(k % 8) + 1] = 1 <=> IsNull(k + 1)
  <2>1. k \div 8 + 1 \in 1..w /\ (k % 8) + 1 \in 1..8
    BY <1>1
  <2>2. 8 * ((k \div 8 + 1) - 1) + ((k % 8) + 1) = k + 1
    BY <1>1
  <2>3. Bitmap[k \div 8 + 1] = byte(k \div 8 + 1)
    BY <1>4, <2>1
  <2>4. byte(k \div 8 + 1)[(k % 8) + 1] = Bit(IsNull(k + 1))[1]
    BY <2>1, <2>2
  <2>. QED BY <2>3, <2>4 DEF Bit
<1>. QED BY <1>5, <1>6 DEF n
LEMMA NullMapLengthIs ==
  ASSUME TypeOK, SettingOK
  PROVE  NullMapLength = Len(Bitmap)
<1>1. Len(columns) = Len(row) /\ Len(row) \in Nat
  BY DEF TypeOK, SettingOK
<1>2. NullMapLength = 4 * ((Len(row) + 31) \div 32)
  <2> DEFINE n == Len(row)
             len == n \div 8 + (IF n % 8 = 0 THEN 0 ELSE 1)
  <2>1. NullMapLength = len + (IF len % 4 = 0 THEN 0 ELSE 4 - (len % 4))
    BY <1>1 DEF NullMapLength, BytesFor
  <2>2. n \in Nat
    BY <1>1
  <2> HIDE DEF n
  <2>3. len + (IF len % 4 = 0 THEN 0 ELSE 4 - (len % 4)) = 4 * ((n + 31) \div 32)
    BY <2>2
  <2>. QED BY <2>1, <2>3 DEF n
<1>. QED BY <1>2, BitmapFacts

LEMMA FrontTaken ==
  ASSUME NEW S, NEW x \in Seq(S), NEW y \in Seq(S)
  PROVE  /\ Len(x) <= Len(x \o y)
         /\ SubSeq(x \o y, 1, Len(x)) = x
         /\ SubSeq(x \o y, Len(x) + 1, Len(x \o y)) = y
<1>1. /\ x \o y \in Seq(S) /\ Len(x \o y) = Len(x) + Len(y)
      /\ \A i \in 1..Len(x) + Len(y) :
            (x \o y)[i] = IF i <= Len(x) THEN x[i] ELSE y[i - Len(x)]
  BY ConcatProperties
<1>2. SubSeq(x \o y, 1, Len(x)) = x
  BY SubSeqOfConcat1, SubSeqFull
<1>3. SubSeq(x \o y, Len(x) + 1, Len(x \o y)) = y
  BY <1>1, SubSeqOfConcat2, SubSeqFull
<1>. QED BY <1>1, <1>2, <1>3

LEMMA OneTaken ==
  ASSUME NEW S, NEW a \in S, NEW y \in Seq(S)
  PROVE  /\ Len(<<a>> \o y) >= 1
         /\ (<<a>> \o y)[1] = a
         /\ SubSeq(<<a>> \o y, 2, Len(<<a>> \o y)) = y
<1>1. <<a>> \in Seq(S) /\ Len(<<a>>) = 1 /\ <<a>>[1] = a
  OBVIOUS
<1>. QED BY <1>1, FrontTaken, ConcatProperties

LEMMA TwoTaken ==
  ASSUME NEW S, NEW a \in S, NEW b \in S, NEW y \in Seq(S)
  PROVE  /\ Len(<<a, b>> \o y) >= 2
         /\ (<<a, b>> \o y)[1] = a /\ (<<a, b>> \o y)[2] = b
         /\ SubSeq(<<a, b>> \o y, 3, Len(<<a, b>> \o y)) = y
<1>1. <<a, b>> \in Seq(S) /\ Len(<<a, b>>) = 2 /\ <<a, b>>[1] = a /\ <<a, b>>[2] = b
  OBVIOUS
<1>. QED BY <1>1, FrontTaken, ConcatProperties

-----------------------------------------------------------------------------
(* A column as it is parsed.                                               *)

(* A decoded value is of its type, and is the same unless it was sent as   *)
(* stored and is no text.                                                  *)
LEMMA DecodedFacts ==
  ASSUME NEW c, NEW v \in Seq(Int), Len(v) = 1
  PROVE  /\ Decoded(c, v) \in Seq(Int) /\ Len(Decoded(c, v)) = 1
         /\ ~(AsStored(c) /\ HasHigh(v)) => Decoded(c, v) = v
<1>1. v[1] \in Int
  OBVIOUS
<1>2. /\ <<v[1] + HighByte>> \in Seq(Int) /\ Len(<<v[1] + HighByte>>) = 1
  BY <1>1 DEF HighByte
<1>. QED BY <1>2 DEF Decoded

(* What a text is, and what it was sent as.                                *)
LEMMA TextSent ==
  ASSUME TypeOK, SettingOK, NEW i \in 1..Len(row),
         Coerced(columns[i]) = "VARYING", ~IsNull(i)
  PROVE  /\ columns[i].field \in TextFields
         /\ Sent(columns[i], row[i]) = row[i]
         /\ row[i] # NULL /\ row[i] \in Seq(Int) /\ Len(row[i]) = 1
<1>1. /\ columns[i] \in ColumnDef /\ i \in DOMAIN row /\ row[i] \in Seq(Int)
      /\ row[i] = NULL \/ IsValue(columns[i], row[i])
  BY AtColumn
<1>2. row[i] # NULL /\ IsValue(columns[i], row[i])
  BY <1>1 DEF IsNull
<1>3. columns[i].field \in TextFields
  BY <1>1 DEF Coerced, TextFields, FloatingTypes, IsScaled, IsInteger, IntegerFields
<1>4. Sent(columns[i], row[i]) = row[i]
  BY <1>2, <1>3 DEF Sent, TextFields, IsScaled, IsInteger, IntegerFields
<1>5. Len(row[i]) = 1
  BY <1>2, <1>3 DEF IsValue, TextFields
<1>. QED BY <1>1, <1>2, <1>3, <1>4, <1>5

LEMMA CellOfType ==
  ASSUME TypeOK, SettingOK, NEW i \in 1..Len(row),
         Coerced(columns[i]) # "unsupported"
  PROVE  CellOf(i) \in [is : Variants, v : Seq(Int)]
<1>1. Sent(columns[i], row[i]) \in Seq(Int)
  BY AtColumn, SentType
<1>2. VariantOf(Coerced(columns[i])) \in Variants
  BY DEF Coerced, VariantOf, Variants, IsScaled, IsInteger, IntegerFields
<1>3. NULL \in Seq(Int) /\ "Null" \in Variants
  BY DEF NULL, Variants
<1>4. ASSUME Coerced(columns[i]) = "VARYING", ~IsNull(i)
      PROVE  Decoded(columns[i], Sent(columns[i], row[i])) \in Seq(Int)
  BY <1>4, TextSent, DecodedFacts
<1>. QED BY <1>1, <1>2, <1>3, <1>4 DEF CellOf, Value, Cell
-----------------------------------------------------------------------------
(* The initial states, and the actions up to the end of the message.       *)

LEMMA InitInv == Init => IInv
<1> SUFFICES ASSUME Init PROVE IInv
  OBVIOUS
<1>1. PICK t \in Tables : bound = t[1] /\ columns = t[2]
  BY DEF Init
<1>2. row \in Rows(t[2]) /\ version \in Versions /\ charset \in Charsets
  BY <1>1 DEF Init
<1>3. /\ body = <<>> /\ null_map = <<>> /\ data = <<>> /\ output = <<>>
      /\ pc = "prepare"
  BY DEF Init
<1>4. /\ bound \in Seq(ColumnDef) /\ columns \in Seq(ColumnDef)
      /\ Len(bound) = Len(columns)
      /\ \A i \in DOMAIN columns : bound[i].scale <= 0 /\ columns[i].scale <= 0
  BY <1>1, DecodingAssumption DEF DecodingAssumption
<1>10. \A i \in DOMAIN columns : columns[i].raw => HasText(columns[i])
  <2>1. \A i \in DOMAIN t[2] : t[2][i].raw => HasText(t[2][i])
    BY DecodingAssumption, Zenon DEF DecodingAssumption
  <2>. QED BY <1>1, <2>1, Zenon
<1>5. /\ row \in Seq(Seq(Int)) /\ Len(row) = Len(columns)
      /\ \A i \in DOMAIN row : row[i] = NULL \/ IsValue(columns[i], row[i])
  BY <1>1, <1>2, DecodingAssumption DEF DecodingAssumption
<1>6. version \in 10..13 /\ charset \in {"UTF8", "ISO8859_1"}
  BY <1>2, DecodingAssumption DEF DecodingAssumption
<1>7. TypeOK
  BY <1>3, <1>4, <1>5, <1>6 DEF TypeOK
<1>8. SettingOK
  <2>1. DOMAIN columns = DOMAIN row
    BY <1>4, <1>5
  <2>2. \A i \in DOMAIN columns : row[i] = NULL \/ IsValue(columns[i], row[i])
    BY <1>5, <2>1
  <2>3. \A i \in DOMAIN columns :
           /\ bound[i].scale <= 0 /\ columns[i].scale <= 0
           /\ columns[i].raw => HasText(columns[i])
           /\ row[i] = NULL \/ IsValue(columns[i], row[i])
    <3> SUFFICES ASSUME NEW i \in DOMAIN columns
                 PROVE  /\ bound[i].scale <= 0 /\ columns[i].scale <= 0
                        /\ columns[i].raw => HasText(columns[i])
                        /\ row[i] = NULL \/ IsValue(columns[i], row[i])
      OBVIOUS
    <3>1. bound[i].scale <= 0 /\ columns[i].scale <= 0
      BY <1>4
    <3>3. columns[i].raw => HasText(columns[i])
      BY <1>10, Zenon
    <3>2. row[i] = NULL \/ IsValue(columns[i], row[i])
      BY <2>2
    <3>. QED BY <3>1, <3>2, <3>3, Zenon
  <2>4. pc \notin {"prepare", "failed"} =>
           \A i \in DOMAIN columns : Coerced(columns[i]) # "unsupported"
    BY <1>3
  <2>5. Len(bound) = Len(columns) /\ Len(row) = Len(columns)
    BY <1>4, <1>5
  <2>. QED BY <2>3, <2>4, <2>5, Zenon DEF SettingOK
<1>9. MessageLeft /\ DataOK /\ OutputOK /\ FailsForCause
  BY <1>3, <1>4, <1>5 DEF MessageLeft, DataOK, OutputOK, FailsForCause
<1>. QED BY <1>7, <1>8, <1>9 DEF IInv

LEMMA PrepareInv == IInv /\ Prepare => IInv'
<1> SUFFICES ASSUME IInv, Prepare PROVE IInv'
  OBVIOUS
<1> USE DEF setting
<1>1. TypeOK /\ SettingOK /\ MessageLeft /\ DataOK /\ OutputOK
  BY DEF IInv
<1>2. /\ pc = "prepare" /\ pc' = IF version < 13 THEN "parse" ELSE "null_map"
      /\ body' = Message
      /\ UNCHANGED <<bound, columns, row, version, charset, null_map, data, output>>
  BY DEF Prepare
<1>3. data = <<>> /\ output = <<>> /\ version \in 10..13
  BY <1>1, <1>2 DEF DataOK, OutputOK, TypeOK
<1>4. Message = (IF version < 13 THEN <<>> ELSE Bitmap) \o Unparsed(0)
  <2>1. Len(row) - 0 = Len(row) /\ DOMAIN row = 1..Len(row)
    BY <1>1 DEF TypeOK
  <2>2. [i \in DOMAIN row |-> Field(i)] = [j \in 1..(Len(row) - 0) |-> Field(0 + j)]
    BY <2>1
  <2>. QED BY <2>2 DEF Message, Unparsed
<1>5. Unparsed(0) \in Seq(Seq(Int)) /\ Bitmap \in Seq(Seq(Int))
  BY <1>1, UnparsedType, BitmapFacts
<1>6. body' \in Seq(Seq(Int))
  BY <1>2, <1>4, <1>5, ConcatProperties
<1>7. TypeOK'
  BY <1>1, <1>2, <1>6 DEF TypeOK
<1>8. SettingOK'
  BY <1>1, <1>2 DEF SettingOK, Prepare
<1>9. MessageLeft'
  <2>1. Unparsed(0)' = Unparsed(0) /\ Bitmap' = Bitmap
    BY <1>2 DEF Unparsed, Field, Bitmap, IsNull
  <2>2. CASE version < 13
    <3>1. body' = Unparsed(0)
      BY <1>2, <1>4, <1>5, <2>2, ConcatEmptySeq
    <3>. QED BY <1>2, <1>3, <2>1, <2>2, <3>1 DEF MessageLeft
  <2>3. CASE ~(version < 13)
    BY <1>2, <1>3, <1>4, <2>1, <2>3 DEF MessageLeft
  <2>. QED BY <2>2, <2>3
<1>10. DataOK' /\ OutputOK' /\ FailsForCause'
  BY <1>1, <1>2, <1>3 DEF DataOK, OutputOK, FailsForCause
<1>. QED BY <1>7, <1>8, <1>9, <1>10 DEF IInv

LEMMA UnsupportedInv == IInv /\ Unsupported => IInv'
<1> SUFFICES ASSUME IInv, Unsupported PROVE IInv'
  OBVIOUS
<1> USE DEF setting
<1>1. TypeOK /\ SettingOK /\ MessageLeft /\ DataOK /\ OutputOK
  BY DEF IInv
<1>2. /\ pc = "prepare" /\ pc' = "failed"
      /\ UNCHANGED <<bound, columns, row, version, charset, body, null_map, data,
                     output>>
  BY DEF Unsupported
<1>3. data = <<>> /\ output = <<>>
  BY <1>1, <1>2 DEF DataOK, OutputOK
<1>4. TypeOK' /\ SettingOK' /\ MessageLeft' /\ DataOK' /\ OutputOK'
  BY <1>1, <1>2, <1>3 DEF TypeOK, SettingOK, MessageLeft, DataOK, OutputOK
<1>5. FailsForCause'
  <2>1. PICK i \in DOMAIN columns : Coerced(columns[i]) = "unsupported"
    BY DEF Unsupported
  <2>2. columns[i].field \in Fields /\ columns[i].sub \in Int
    <3>1. i \in 1..Len(row)
      BY <1>1 DEF TypeOK, SettingOK
    <3>. QED BY <1>1, <3>1, AtColumn DEF ColumnDef
  <2>3. Unsupportable(columns[i])
    BY <2>1, <2>2 DEF Unsupportable, Coerced, Fields, TextFields, FloatingTypes,
                      IsScaled, IsInteger, IntegerFields
  <2>. QED BY <1>2, <2>3 DEF FailsForCause
<1>. QED BY <1>4, <1>5 DEF IInv

LEMMA ReadNullMapInv == IInv /\ ReadNullMap => IInv'
<1> SUFFICES ASSUME IInv, ReadNullMap PROVE IInv'
  OBVIOUS
<1> USE DEF setting
<1>1. TypeOK /\ SettingOK /\ MessageLeft /\ DataOK /\ OutputOK
  BY DEF IInv
<1>2. /\ pc = "null_map"
      /\ UNCHANGED <<bound, columns, row, version, charset, data, output>>
  BY DEF ReadNullMap
<1>3. /\ version = 13 /\ body = Bitmap \o Unparsed(0)
      /\ data = <<>> /\ output = <<>>
  BY <1>1, <1>2 DEF MessageLeft, DataOK, OutputOK
<1>4. /\ Bitmap \in Seq(Seq(Int)) /\ Unparsed(0) \in Seq(Seq(Int))
      /\ NullMapLength = Len(Bitmap)
  BY <1>1, BitmapFacts, UnparsedType, NullMapLengthIs
<1>5. /\ Len(Bitmap) <= Len(body)
      /\ SubSeq(body, 1, Len(Bitmap)) = Bitmap
      /\ SubSeq(body, Len(Bitmap) + 1, Len(body)) = Unparsed(0)
  BY <1>3, <1>4, FrontTaken
<1>6. pc' = "parse" /\ body' = Unparsed(0) /\ null_map' = Bitmap
  BY <1>4, <1>5 DEF ReadNullMap, Take
<1>7. TypeOK' /\ SettingOK' /\ DataOK' /\ OutputOK' /\ FailsForCause'
  BY <1>1, <1>2, <1>3, <1>4, <1>6
     DEF TypeOK, SettingOK, DataOK, OutputOK, FailsForCause
<1>8. MessageLeft'
  <2>1. Unparsed(0)' = Unparsed(0) /\ Bitmap' = Bitmap
    BY <1>2 DEF Unparsed, Field, Bitmap, IsNull
  <2>. QED BY <1>2, <1>3, <1>6, <2>1 DEF MessageLeft
<1>. QED BY <1>7, <1>8 DEF IInv
(* One more column is parsed.                                              *)
LEMMA ColumnParsed ==
  ASSUME IInv, pc = "parse", Len(data) < Len(columns), pc' = "parse",
         UNCHANGED <<setting, null_map, output>>,
         body' = Unparsed(Len(data) + 1),
         data' = Append(data, CellOf(Len(data) + 1))
  PROVE  IInv'
<1> USE DEF setting
<1> DEFINE n == Len(data) + 1
<1>1. /\ TypeOK /\ SettingOK /\ MessageLeft /\ DataOK /\ OutputOK
      /\ UNCHANGED <<bound, columns, row, version, charset>>
  BY DEF IInv
<1>2. /\ n \in 1..Len(row) /\ n - 1 \in 0..(Len(row) - 1) /\ n \in 1..Len(columns)
      /\ n = (n - 1) + 1
  BY <1>1 DEF TypeOK, SettingOK
<1>3. Coerced(columns[n]) # "unsupported"
  BY <1>1, <1>2 DEF SettingOK, TypeOK
<1>4. CellOf(n) \in [is : Variants, v : Seq(Int)]
  BY <1>1, <1>2, <1>3, CellOfType
<1>5. body' \in Seq(Seq(Int))
  <2>1. Unparsed((n - 1) + 1) \in Seq(Seq(Int))
    BY <1>1, <1>2, UnparsedStep
  <2>. QED BY <1>2, <2>1
<1>6. /\ data \in Seq([is : Variants, v : Seq(Int)])
      /\ data' \in Seq([is : Variants, v : Seq(Int)])
      /\ Len(data') = n /\ data'[n] = CellOf(n)
      /\ \A i \in 1..Len(data) : data'[i] = data[i]
  <2>1. data \in Seq([is : Variants, v : Seq(Int)])
    BY <1>1 DEF TypeOK
  <2>. QED BY <1>4, <2>1, AppendProperties
<1>7. TypeOK'
  BY <1>1, <1>5, <1>6 DEF TypeOK
<1>8. SettingOK' /\ OutputOK' /\ FailsForCause'
  BY <1>1 DEF SettingOK, OutputOK, FailsForCause
<1>9. MessageLeft'
  <2>1. Bitmap' = Bitmap
    BY <1>1 DEF Bitmap, IsNull
  <2>2. Unparsed(Len(data))' = Unparsed(n)
    BY <1>1, <1>6 DEF Unparsed, Field, IsNull
  <2>. QED BY <1>1, <2>1, <2>2 DEF MessageLeft
<1>10. DataOK'
  <2>1. ASSUME NEW i \in DOMAIN data' PROVE data'[i] = CellOf(i)'
    <3>1. CellOf(i)' = CellOf(i)
      BY <1>1 DEF CellOf, Value, Decoded, IsNull
    <3>2. i \in 1..n
      BY <1>6
    <3>3. CASE i = n
      BY <1>6, <3>1, <3>3
    <3>4. CASE i # n
      <4>1. i \in 1..Len(data) /\ i \in DOMAIN data
        BY <1>6, <3>2, <3>4
      <4>2. data[i] = CellOf(i)
        BY <1>1, <4>1 DEF DataOK
      <4>. QED BY <1>6, <3>1, <4>1, <4>2
    <3>. QED BY <3>3, <3>4
  <2>2. Len(data') <= Len(columns')
    BY <1>1, <1>2, <1>6
  <2>. QED BY <2>1, <2>2 DEF DataOK
<1>. QED BY <1>7, <1>8, <1>9, <1>10 DEF IInv

(* What a parser of the next column finds.                                 *)
LEMMA NextColumn ==
  ASSUME IInv, Parsing
  PROVE  /\ Len(data) + 1 \in 1..Len(row)
         /\ Field(Len(data) + 1) \in Seq(Seq(Int))
         /\ Unparsed(Len(data) + 1) \in Seq(Seq(Int))
         /\ body = Field(Len(data) + 1) \o Unparsed(Len(data) + 1)
         /\ Sent(columns[Len(data) + 1], row[Len(data) + 1]) \in Seq(Int)
         /\ version >= 13 => /\ version = 13
                             /\ ReadNull(Len(data)) <=> IsNull(Len(data) + 1)
<1>1. TypeOK /\ SettingOK /\ MessageLeft /\ pc = "parse"
  BY DEF IInv, Parsing
<1>2. Len(data) \in 0..(Len(row) - 1) /\ Len(data) + 1 \in 1..Len(row)
  BY <1>1 DEF TypeOK, SettingOK, Parsing
<1>3. body = Unparsed(Len(data)) /\ (version = 13 => null_map = Bitmap)
  BY <1>1 DEF MessageLeft
<1>4. /\ Unparsed(Len(data) + 1) \in Seq(Seq(Int))
      /\ Unparsed(Len(data)) = Field(Len(data) + 1) \o Unparsed(Len(data) + 1)
      /\ Field(Len(data) + 1) \in Seq(Seq(Int))
  BY <1>1, <1>2, UnparsedStep, FieldType
<1>5. Sent(columns[Len(data) + 1], row[Len(data) + 1]) \in Seq(Int)
  BY <1>1, <1>2, AtColumn, SentType
<1>6. version >= 13 => version = 13
  BY <1>1 DEF TypeOK
<1>7. version >= 13 => (ReadNull(Len(data)) <=> IsNull(Len(data) + 1))
  BY <1>1, <1>2, <1>3, <1>6, BitmapFacts DEF ReadNull
<1>. QED BY <1>2, <1>3, <1>4, <1>5, <1>6, <1>7

LEMMA ParseNullInv == IInv /\ ParseNull => IInv'
<1> SUFFICES ASSUME IInv, ParseNull PROVE IInv'
  OBVIOUS
<1> DEFINE n == Len(data) + 1
<1>1. /\ Parsing /\ version >= 13 /\ ReadNull(Len(data))
      /\ data' = Append(data, Cell("Null", NULL))
      /\ UNCHANGED <<setting, body, null_map, output, pc>>
  BY DEF ParseNull
<1>2. IsNull(n)
  BY <1>1, NextColumn
<1>3. data' = Append(data, CellOf(n))
  BY <1>1, <1>2 DEF CellOf
<1>4. body' = Unparsed(n)
  <2>1. Field(n) = <<>>
    BY <1>1, <1>2, NextColumn DEF Field
  <2>. QED BY <1>1, <2>1, NextColumn, ConcatEmptySeq
<1>. QED BY <1>1, <1>3, <1>4, ColumnParsed DEF Parsing

LEMMA ParseValueInv == IInv /\ ParseValue => IInv'
<1> SUFFICES ASSUME IInv, ParseValue PROVE IInv'
  OBVIOUS
<1> DEFINE n == Len(data) + 1
           value == Sent(columns[n], row[n])
<1>1. /\ Parsing /\ version >= 13 /\ ~ReadNull(Len(data))
      /\ Take(1, "parse")
      /\ data' = IF body = <<>> THEN data
                 ELSE Append(data, Value(Column, Head(body)))
      /\ UNCHANGED <<setting, null_map, output>>
  BY DEF ParseValue
<1>2. ~IsNull(n) /\ value \in Seq(Int) /\ Unparsed(n) \in Seq(Seq(Int))
  BY <1>1, NextColumn
<1>3. body = <<value>> \o Unparsed(n)
  <2>1. Field(n) = <<value>>
    BY <1>1, <1>2, NextColumn DEF Field
  <2>. QED BY <1>1, <2>1, NextColumn
<1>4. /\ Len(body) >= 1 /\ body[1] = value
      /\ SubSeq(body, 2, Len(body)) = Unparsed(n)
  <2> HIDE DEF value
  <2>. QED BY <1>2, <1>3, OneTaken
<1>5. pc' = "parse" /\ body' = Unparsed(n)
  BY <1>1, <1>4 DEF Take
<1>6. body # <<>> /\ Head(body) = value
  BY <1>4
<1>7. data' = Append(data, CellOf(n))
  BY <1>1, <1>2, <1>6 DEF CellOf, Column
<1>. QED BY <1>1, <1>5, <1>7, ColumnParsed DEF Parsing

LEMMA ParseFlaggedInv == IInv /\ ParseFlagged => IInv'
<1> SUFFICES ASSUME IInv, ParseFlagged PROVE IInv'
  OBVIOUS
<1> DEFINE n == Len(data) + 1
           value == Sent(columns[n], row[n])
           flag == Bit(IsNull(n))
<1>1. /\ Parsing /\ version < 13
      /\ Take(2, "parse")
      /\ data' = IF Len(body) < 2 THEN data
                 ELSE Append(data, IF body[2] # Bit(FALSE) THEN Cell("Null", NULL)
                                   ELSE Value(Column, body[1]))
      /\ UNCHANGED <<setting, null_map, output>>
  <2>1. Head(body) = body[1]
    BY DEF IInv, TypeOK
  <2>. QED BY <2>1 DEF ParseFlagged, FlagTold
<1>2. value \in Seq(Int) /\ Unparsed(n) \in Seq(Seq(Int))
  BY <1>1, NextColumn
<1>3. /\ flag \in Seq(Int)
      /\ flag # Bit(FALSE) <=> IsNull(n)
  BY DEF Bit
<1>4. body = <<value, flag>> \o Unparsed(n)
  <2>1. Field(n) = <<value, flag>>
    BY <1>1 DEF Field
  <2>. QED BY <1>1, <2>1, NextColumn
<1>5. /\ Len(body) >= 2 /\ body[1] = value /\ body[2] = flag
      /\ SubSeq(body, 3, Len(body)) = Unparsed(n)
  <2> HIDE DEF value, flag
  <2>. QED BY <1>2, <1>3, <1>4, TwoTaken
<1>6. pc' = "parse" /\ body' = Unparsed(n)
  <2>1. Len(body) \in Nat
    BY DEF IInv, TypeOK
  <2>. QED BY <1>1, <1>5, <2>1 DEF Take
<1>7. data' = Append(data, CellOf(n))
  <2>1. ~(Len(body) < 2)
    BY <1>5 DEF IInv, TypeOK
  <2>2. data' = Append(data, IF flag # Bit(FALSE) THEN Cell("Null", NULL)
                             ELSE Value(columns[n], value))
    BY <1>1, <1>5, <2>1 DEF Column
  <2>. QED BY <1>3, <2>2 DEF CellOf
<1>. QED BY <1>1, <1>6, <1>7, ColumnParsed DEF Parsing

(* What it cannot decode was sent as stored, and is no text.               *)
LEMMA TextUndecodableInv == IInv /\ TextUndecodable => IInv'
<1> SUFFICES ASSUME IInv, TextUndecodable PROVE IInv'
  OBVIOUS
<1> USE DEF setting
<1> DEFINE n == Len(data) + 1
           value == Sent(columns[n], row[n])
           flag == Bit(IsNull(n))
<1>1. TypeOK /\ SettingOK /\ MessageLeft /\ DataOK /\ OutputOK
  BY DEF IInv
<1>2. /\ Parsing /\ pc = "parse" /\ n \in 1..Len(row)
      /\ value \in Seq(Int) /\ flag \in Seq(Int) /\ Unparsed(n) \in Seq(Seq(Int))
      /\ version \in 10..13 /\ body \in Seq(Seq(Int))
  BY <1>1, NextColumn DEF TextUndecodable, Parsing, Bit, TypeOK
<1>3. /\ body' = SubSeq(body, IF version < 13 THEN 3 ELSE 2, Len(body))
      /\ pc' = "failed"
      /\ Len(body) >= IF version < 13 THEN 2 ELSE 1
      /\ ~Readable(columns[n], body[1])
      /\ IF version < 13 THEN body[2] = Bit(FALSE) ELSE ~ReadNull(Len(data))
      /\ UNCHANGED <<bound, columns, row, version, charset, null_map, data, output>>
  <2>1. Len(body) >= 1 => Head(body) = body[1]
    BY <1>2
  <2>2. /\ Len(body) \in Nat
        /\ Len(body) >= IF version < 13 THEN 2 ELSE 1
    BY <1>2 DEF TextUndecodable
  <2>3. /\ ~Readable(Column, body[1])
        /\ IF version < 13 THEN body[2] = Bit(FALSE) ELSE ~ReadNull(Len(data))
    <3>1. ~Readable(Column, Head(body)) /\ Head(body) = body[1]
      <4>1. Len(body) >= 1
        BY <2>2
      <4>. QED BY <2>1, <4>1, Zenon DEF TextUndecodable
    <3>2. IF version < 13 THEN body[2] = Bit(FALSE) ELSE ~ReadNull(Len(data))
      BY Zenon DEF TextUndecodable, FlagTold
    <3>. QED BY <3>1, <3>2, Zenon
  <2>4. Take(IF version < 13 THEN 2 ELSE 1, "failed")
    BY DEF TextUndecodable
  <2>5. /\ body' = SubSeq(body, IF version < 13 THEN 3 ELSE 2, Len(body))
        /\ pc' = "failed"
    BY <2>2, <2>4 DEF Take
  <2>. QED BY <2>2, <2>3, <2>5 DEF TextUndecodable, Column
<1>4. ~IsNull(n) /\ body[1] = value
  <2>1. CASE version < 13
    <3>1. body = <<value, flag>> \o Unparsed(n)
      BY <1>2, <2>1, NextColumn DEF Field
    <3>2. body[1] = value /\ body[2] = flag
      <4> HIDE DEF value, flag
      <4>. QED BY <1>2, <3>1, TwoTaken
    <3>. QED BY <1>3, <2>1, <3>2 DEF Bit
  <2>2. CASE ~(version < 13)
    <3>1. ~IsNull(n)
      BY <1>2, <1>3, <2>2, NextColumn
    <3>2. body = <<value>> \o Unparsed(n)
      BY <1>2, <2>2, <3>1, NextColumn DEF Field
    <3>3. body[1] = value
      <4> HIDE DEF value
      <4>. QED BY <1>2, <3>2, OneTaken
    <3>. QED BY <3>1, <3>3
  <2>. QED BY <2>1, <2>2
<1>5. FailsForCause'
  <2>1. /\ Coerced(columns[n]) = "VARYING"
        /\ charset = "UTF8" /\ AsStored(columns[n]) /\ HasHigh(value)
    BY <1>3, <1>4 DEF Readable, Decodes
  <2>2. /\ columns[n].field \in TextFields /\ value = row[n] /\ row[n] # NULL
    BY <1>1, <1>2, <1>4, <2>1, TextSent
  <2>3. n \in DOMAIN columns /\ columns[n].field # "BLOB"
    BY <1>1, <1>2, <2>2, AtColumn DEF TextFields
  <2> HIDE DEF value, n
  <2>. QED BY <1>3, <2>1, <2>2, <2>3 DEF FailsForCause
<1>6. TypeOK'
  <2>1. body' \in Seq(Seq(Int))
    BY <1>2, <1>3
  <2>. QED BY <1>1, <1>3, <2>1 DEF TypeOK
<1>7. SettingOK' /\ MessageLeft' /\ OutputOK'
  BY <1>1, <1>2, <1>3 DEF SettingOK, MessageLeft, OutputOK
<1>8. DataOK'
  <2>1. \A j \in DOMAIN data : CellOf(j)' = CellOf(j)
    BY <1>3 DEF CellOf, Value, Decoded, IsNull
  <2>. QED BY <1>1, <1>2, <1>3, <2>1 DEF DataOK
<1>. QED BY <1>5, <1>6, <1>7, <1>8 DEF IInv

LEMMA ParsedInv == IInv /\ Parsed => IInv'
<1> SUFFICES ASSUME IInv, Parsed PROVE IInv'
  OBVIOUS
<1> USE DEF setting
<1>1. TypeOK /\ SettingOK /\ MessageLeft /\ DataOK /\ OutputOK
  BY DEF IInv
<1>2. /\ pc = "parse" /\ pc' = "into_column" /\ Len(data) = Len(columns)
      /\ UNCHANGED <<bound, columns, row, version, charset, body, null_map, data,
                     output>>
  BY DEF Parsed
<1>3. body = <<>>
  BY <1>1, <1>2, UnparsedEmpty DEF MessageLeft, SettingOK
<1>4. TypeOK' /\ SettingOK' /\ MessageLeft' /\ OutputOK' /\ FailsForCause'
  BY <1>1, <1>2, <1>3 DEF TypeOK, SettingOK, MessageLeft, OutputOK, FailsForCause
<1>5. DataOK'
  <2>1. \A i \in DOMAIN data : CellOf(i)' = CellOf(i)
    BY <1>2 DEF CellOf, Value, Decoded, IsNull
  <2>. QED BY <1>1, <1>2, <2>1 DEF DataOK
<1>. QED BY <1>4, <1>5 DEF IInv
-----------------------------------------------------------------------------
(* The blobs, and the values FirebirdScan makes of the columns.            *)

(* What is known of a column that is still a blob.                         *)
LEMMA BlobFacts ==
  ASSUME IInv, pc = "into_column", NEW i \in Blobs
  PROVE  /\ i \in 1..Len(row) /\ i \in DOMAIN data
         /\ data[i] = CellOf(i) /\ CellOf(i).is = "Blob"
         /\ data[i].v = row[i] /\ row[i] \in Seq(Int) /\ Len(row[i]) = 1
         /\ row[i] # NULL
         /\ columns[i].field = "BLOB" /\ columns[i].sub \in Int
<1>1. TypeOK /\ SettingOK /\ DataOK
  BY DEF IInv
<1>2. i \in DOMAIN data /\ data[i].is = "Blob"
  BY DEF Blobs
<1>3. i \in 1..Len(row) /\ i \in DOMAIN columns
  BY <1>1, <1>2 DEF TypeOK, SettingOK, DataOK
<1>4. data[i] = CellOf(i)
  BY <1>1, <1>2 DEF DataOK, BlobOf, Cell
<1>5. /\ columns[i] \in ColumnDef
      /\ row[i] \in Seq(Int) /\ (row[i] = NULL \/ IsValue(columns[i], row[i]))
  BY <1>1, <1>3, AtColumn
<1>6. ~IsNull(i)
  BY <1>2, <1>4 DEF CellOf, Cell
<1>7. /\ VariantOf(Coerced(columns[i])) = "Blob"
      /\ data[i].v = Sent(columns[i], row[i])
  <2>1. data[i] = Value(columns[i], Sent(columns[i], row[i]))
    BY <1>4, <1>6 DEF CellOf
  <2>2. VariantOf(Coerced(columns[i])) = "Blob"
    BY <1>2, <2>1 DEF Value, Cell
  <2>3. Coerced(columns[i]) # "VARYING"
    BY <2>2 DEF VariantOf
  <2>. QED BY <2>1, <2>2, <2>3 DEF Value, Cell
<1>8. Coerced(columns[i]) # "unsupported"
  BY <1>1, <1>3 DEF SettingOK
<1>9. columns[i].field = "BLOB"
  BY <1>5, <1>7, <1>8
     DEF VariantOf, Coerced, TextFields, FloatingTypes, IsScaled, IsInteger,
         IntegerFields, ColumnDef, Fields
<1>10. row[i] # NULL
  BY <1>1, <1>3, <1>6 DEF IsNull, TypeOK
<1>11. Len(row[i]) = 1
  BY <1>5, <1>9, <1>10 DEF IsValue
<1>12. data[i].v = row[i]
  BY <1>7, <1>9, <1>10 DEF Sent, IsScaled, IsInteger, IntegerFields
<1>. QED BY <1>2, <1>3, <1>4, <1>5, <1>9, <1>10, <1>11, <1>12 DEF ColumnDef

LEMMA IntoColumnInv ==
  ASSUME NEW i \in 1..Len(data), IInv, IntoColumn(i)
  PROVE  IInv'
<1> USE DEF setting
<1>1. TypeOK /\ SettingOK /\ MessageLeft /\ DataOK /\ OutputOK
  BY DEF IInv
<1>2. /\ pc = "into_column" /\ i \in Blobs
      /\ UNCHANGED <<bound, columns, row, version, charset, body, null_map, output,
                     pc>>
  BY DEF IntoColumn
<1> DEFINE c == IF IsBinary(i) THEN Cell("Binary", data[i].v)
                ELSE Cell("Text", Decoded(columns[i], data[i].v))
<1>3. data' = [data EXCEPT ![i] = c]
  BY DEF IntoColumn
<1>4. /\ i \in 1..Len(row) /\ i \in DOMAIN data
      /\ data[i] = CellOf(i) /\ CellOf(i).is = "Blob"
      /\ data[i].v = row[i] /\ row[i] \in Seq(Int) /\ Len(row[i]) = 1
  BY <1>2, BlobFacts
<1>5. Decoded(columns[i], row[i]) \in Seq(Int)
  BY <1>4, DecodedFacts
<1>6. c \in [is : Variants, v : Seq(Int)] /\ BlobOf(i, c)
  <2>1. CASE IsBinary(i)
    BY <1>4, <2>1 DEF Cell, BlobOf, Variants
  <2>2. CASE ~IsBinary(i)
    BY <1>4, <1>5, <2>2 DEF Cell, BlobOf, Variants
  <2>. QED BY <2>1, <2>2
<1> HIDE DEF c
<1>7. /\ data' \in Seq([is : Variants, v : Seq(Int)])
      /\ Len(data') = Len(data) /\ DOMAIN data' = DOMAIN data
      /\ data'[i] = c
      /\ \A j \in DOMAIN data : j # i => data'[j] = data[j]
  BY <1>1, <1>3, <1>4, <1>6 DEF TypeOK
<1>8. TypeOK' /\ SettingOK' /\ MessageLeft' /\ FailsForCause'
  BY <1>1, <1>2, <1>7 DEF TypeOK, SettingOK, MessageLeft, FailsForCause
<1>9. OutputOK'
  BY <1>1, <1>2 DEF OutputOK
<1>10. DataOK'
  <2>1. ASSUME NEW j \in DOMAIN data'
        PROVE  data'[j] = CellOf(j)' \/ BlobOf(j, data[j])'
    <3>1. CellOf(j)' = CellOf(j) /\ (BlobOf(j, data[j])' <=> BlobOf(j, data'[j]))
      BY <1>2 DEF CellOf, Value, Decoded, IsNull, BlobOf, IsBinary
    <3>2. CASE j = i
      BY <1>6, <1>7, <3>1, <3>2
    <3>3. CASE j # i
      BY <1>1, <1>7, <3>1, <3>3 DEF DataOK
    <3>. QED BY <3>2, <3>3
  <2>. QED BY <1>1, <1>2, <1>7, <2>1 DEF DataOK
<1>. QED BY <1>8, <1>9, <1>10 DEF IInv

LEMMA DecodeFailsInv ==
  ASSUME NEW i \in 1..Len(data), IInv, DecodeFails(i)
  PROVE  IInv'
<1> USE DEF setting
<1>1. TypeOK /\ SettingOK /\ MessageLeft /\ DataOK /\ OutputOK
  BY DEF IInv
<1>2. /\ pc = "into_column" /\ i \in Blobs /\ pc' = "failed"
      /\ UNCHANGED <<bound, columns, row, version, charset, body, null_map, data,
                     output>>
  BY DEF DecodeFails
<1>3. TypeOK' /\ SettingOK' /\ MessageLeft' /\ OutputOK'
  BY <1>1, <1>2 DEF TypeOK, SettingOK, MessageLeft, OutputOK
<1>4. DataOK'
  <2>1. \A j \in DOMAIN data : /\ CellOf(j)' = CellOf(j)
                               /\ BlobOf(j, data[j])' <=> BlobOf(j, data[j])
    BY <1>2 DEF CellOf, Value, Decoded, IsNull, BlobOf, IsBinary
  <2>. QED BY <1>1, <1>2, <2>1 DEF DataOK
<1>5. FailsForCause'
  <2>1. /\ i \in 1..Len(row) /\ columns[i].sub # 0
        /\ charset = "UTF8" /\ AsStored(columns[i])
        /\ row[i] # NULL /\ HasHigh(row[i])
    BY <1>2, BlobFacts DEF DecodeFails, Decodes, IsBinary
  <2>2. i \in DOMAIN columns
    BY <1>1, <2>1, AtColumn
  <2>. QED BY <1>2, <2>1, <2>2 DEF FailsForCause
<1>. QED BY <1>3, <1>4, <1>5 DEF IInv

LEMMA ConvertedInv == IInv /\ Converted => IInv'
<1> SUFFICES ASSUME IInv, Converted PROVE IInv'
  OBVIOUS
<1> USE DEF setting
<1>1. TypeOK /\ SettingOK /\ MessageLeft /\ DataOK /\ OutputOK
  BY DEF IInv
<1>2. /\ pc = "into_column" /\ Blobs = {} /\ pc' = "scan"
      /\ UNCHANGED <<bound, columns, row, version, charset, body, null_map, data,
                     output>>
  BY DEF Converted
<1>3. TypeOK' /\ SettingOK' /\ MessageLeft' /\ OutputOK' /\ FailsForCause'
  BY <1>1, <1>2 DEF TypeOK, SettingOK, MessageLeft, OutputOK, FailsForCause
<1>4. DataOK'
  <2>1. /\ \A j \in DOMAIN data : /\ CellOf(j)' = CellOf(j)
                                  /\ BlobOf(j, data[j])' <=> BlobOf(j, data[j])
        /\ Blobs' = Blobs
    BY <1>2 DEF CellOf, Value, Decoded, IsNull, BlobOf, IsBinary, Blobs
  <2>. QED BY <1>1, <1>2, <2>1 DEF DataOK
<1>. QED BY <1>3, <1>4 DEF IInv
(* The variant and the value of each column that is not null, once it is   *)
(* no blob any more.                                                       *)
LEMMA ScanCell ==
  ASSUME IInv, pc \in {"scan", "done"}, NEW i \in 1..Len(row)
  PROVE  LET c == columns[i]
             d == data[i]
         IN  /\ d.is = "Null" <=> row[i] = NULL
             /\ row[i] # NULL =>
                  /\ row[i] \in Seq(Int) /\ IsValue(c, row[i])
                  /\ d.v \in Seq(Int) /\ Len(d.v) = IF d.is = "Timestamp" THEN 2 ELSE 1
                  /\ d.is \in {"Text", "Integer", "Floating", "Timestamp", "Boolean",
                               "Binary"}
                  /\ c.field \in TextFields => d = Cell("Text", Decoded(c, row[i]))
                  /\ IsInteger(c) /\ c.scale = 0 => d = Cell("Integer", row[i])
                  /\ IsScaled(c) => d = Cell("Floating", <<Rounded("DOUBLE", row[i][1])>>)
                  /\ c.field \in FloatingTypes => d = Cell("Floating", row[i])
                  /\ c.field = "TIMESTAMP" => d = Cell("Timestamp", row[i])
                  /\ c.field = "DATE" => d = Cell("Timestamp", <<row[i][1], 0>>)
                  /\ c.field = "TIME" => d = Cell("Timestamp", <<Today, row[i][1]>>)
                  /\ c.field = "BOOLEAN" => d = Cell("Boolean", row[i])
                  /\ c.field = "BLOB" =>
                        /\ d.is \in {"Text", "Binary"}
                        /\ d.v = IF c.sub = 0 THEN row[i] ELSE Decoded(c, row[i])
                  /\ c.field \notin {"INT128", "OTHER"}
<1> DEFINE c == columns[i]
           d == data[i]
           s == Sent(c, row[i])
<1>1. TypeOK /\ SettingOK /\ DataOK
  BY DEF IInv
<1>2. /\ i \in DOMAIN columns /\ i \in DOMAIN row
      /\ c \in ColumnDef /\ row[i] \in Seq(Int)
      /\ row[i] = NULL \/ IsValue(c, row[i])
  BY <1>1, AtColumn
<1>3. i \in DOMAIN data
  BY <1>1, <1>2 DEF TypeOK, SettingOK, DataOK
<1>4. d.is # "Blob" /\ (d = CellOf(i) \/ BlobOf(i, d))
  BY <1>1, <1>3 DEF DataOK, Blobs
<1>5. Coerced(c) # "unsupported"
  BY <1>1, <1>2 DEF SettingOK
<1>6. IsNull(i) <=> row[i] = NULL
  BY <1>2 DEF IsNull
<1>7. CASE row[i] = NULL
  BY <1>4, <1>6, <1>7 DEF CellOf, Cell, BlobOf
<1>8. CASE row[i] # NULL
  <2>1. CellOf(i) = Cell(VariantOf(Coerced(c)),
                         IF Coerced(c) = "VARYING" THEN Decoded(c, s) ELSE s)
    BY <1>6, <1>8 DEF CellOf, Value
  <2>2. s = CASE IsScaled(c)      -> <<Rounded("DOUBLE", row[i][1])>>
              [] c.field = "DATE" -> <<row[i][1], 0>>
              [] c.field = "TIME" -> <<Today, row[i][1]>>
              [] OTHER            -> row[i]
    BY <1>8 DEF Sent
  <2>3. row[i] \in Seq(Int) /\ Len(row[i]) = IF c.field = "TIMESTAMP" THEN 2 ELSE 1
    BY <1>2, <1>8 DEF IsValue
  <2>4. row[i][1] \in Int /\ Today \in Int
    BY <2>3 DEF Today
  <2>5. /\ c.field \in Fields /\ c.sub \in Int
        /\ IsInteger(c) <=> c.field \in {"SHORT", "LONG", "INT64"}
        /\ IsScaled(c) <=> IsInteger(c) /\ c.scale # 0
        /\ TextFields = {"CHAR", "VARCHAR"} /\ FloatingTypes = {"FLOAT", "DOUBLE"}
    BY <1>2 DEF ColumnDef, IsScaled, IsInteger, IntegerFields, TextFields, FloatingTypes
  <2>9. Rounded("DOUBLE", row[i][1]) \in Int
    BY <2>4, <2>5, RoundedFacts
  <2>6. /\ s \in Seq(Int)
        /\ Len(s) = IF c.field \in {"TIMESTAMP", "DATE", "TIME"} THEN 2 ELSE 1
    BY <2>2, <2>3, <2>4, <2>5, <2>9
  <2>10. Len(row[i]) = 1 => /\ Decoded(c, row[i]) \in Seq(Int)
                            /\ Len(Decoded(c, row[i])) = 1
    BY <2>3, DecodedFacts
  <2> HIDE DEF c, d, s
  <2>7. CASE BlobOf(i, d)
    <3>1. /\ c.field = "BLOB" /\ c.sub <= 1
      BY <1>5, <2>1, <2>5, <2>7 DEF BlobOf, Cell, VariantOf, Coerced, Fields
    <3>2. /\ d.is \in {"Text", "Binary"} /\ Len(d.v) = 1
          /\ d.v = IF c.sub = 0 THEN row[i] ELSE Decoded(c, row[i])
      <4>1. Len(row[i]) = 1
        BY <2>3, <3>1
      <4>. QED BY <2>7, <2>10, <4>1 DEF BlobOf, IsBinary, Cell, c
    <3>3. d.v \in Seq(Int)
      <4>1. data \in Seq([is : Variants, v : Seq(Int)])
        BY <1>1 DEF TypeOK
      <4>2. i \in 1..Len(data)
        BY <1>3, <4>1
      <4>3. data[i] \in [is : Variants, v : Seq(Int)]
        BY <4>1, <4>2, ElementOfSeq
      <4>. QED BY <4>3 DEF d
    <3>. QED BY <1>2, <1>8, <2>3, <2>5, <3>1, <3>2, <3>3 DEF c, d
  <2>8. CASE d = CellOf(i)
    <3>1. /\ d.is = VariantOf(Coerced(c))
          /\ d = Cell(d.is, d.v)
          /\ d.v = IF Coerced(c) = "VARYING" THEN Decoded(c, s) ELSE s
      BY <2>1, <2>8 DEF Cell
    <3>2. /\ d.is \in {"Text", "Integer", "Floating", "Timestamp", "Boolean"}
          /\ c.field \in {"CHAR", "VARCHAR"} <=> d.is = "Text"
          /\ c.field \in {"CHAR", "VARCHAR"} <=> Coerced(c) = "VARYING"
          /\ IsInteger(c) /\ c.scale = 0 <=> d.is = "Integer"
          /\ (IsInteger(c) /\ c.scale # 0) \/ c.field \in {"FLOAT", "DOUBLE"}
                <=> d.is = "Floating"
          /\ c.field \in {"TIMESTAMP", "DATE", "TIME"} <=> d.is = "Timestamp"
          /\ c.field = "BOOLEAN" <=> d.is = "Boolean"
          /\ c.field \notin {"BLOB", "INT128", "OTHER"}
      BY <1>4, <1>5, <2>5, <3>1 DEF VariantOf, Coerced, Fields, d
    <3>3. CASE d.is = "Text"
      <4>1. s = row[i] /\ Len(row[i]) = 1
        BY <2>2, <2>3, <2>5, <3>2, <3>3
      <4>2. d = Cell("Text", Decoded(c, row[i])) /\ d.v = Decoded(c, row[i])
        BY <3>1, <3>2, <3>3, <4>1
      <4>3. d.v \in Seq(Int) /\ Len(d.v) = 1
        BY <2>10, <4>1, <4>2
      <4>. QED BY <1>2, <1>8, <2>3, <2>5, <3>2, <3>3, <4>2, <4>3 DEF c, d
    <3>4. CASE d.is # "Text"
      <4>1. d.v = s /\ d = Cell(d.is, s)
        BY <3>1, <3>2, <3>4
      <4>. QED BY <1>2, <1>8, <2>2, <2>3, <2>5, <2>6, <3>2, <3>4, <4>1 DEF c, d
    <3>. QED BY <3>3, <3>4
  <2>. QED BY <1>4, <2>7, <2>8 DEF d
<1>. QED BY <1>7, <1>8

(* Whatever type is bound, a vector gets a value, unless it is null.       *)
LEMMA OutputType ==
  ASSUME NEW b \in ColumnDef, NEW d, d.is # "Null",
         d.v \in Seq(Int), Len(d.v) = IF d.is = "Timestamp" THEN 2 ELSE 1
  PROVE  /\ Output(LogicalType(b), d) \in Seq(Int)
         /\ Output(LogicalType(b), d) # NULL
<1>1. LogicalType(b) \in {"SMALLINT", "INTEGER", "BIGINT", "FLOAT", "DOUBLE", "BOOLEAN",
                          "DATE", "TIME", "TIMESTAMP", "VARCHAR", "BLOB"}
  BY DEF LogicalType, IntegerType, IsInteger, IntegerFields
<1>2. d.v[1] \in Int
  OBVIOUS
<1>3. CellI64(d) \in Int
  <2>1. Truncated(d.v[1]) \in Int
    BY <1>2 DEF Truncated
  <2>2. Half["INT64"] \in Int
    BY DecodingAssumption DEF DecodingAssumption, IntegerFields
  <2>3. Saturated(Truncated(d.v[1])) \in Int
    BY <2>1, <2>2 DEF Saturated
  <2>. QED BY <1>2, <2>3 DEF CellI64
<1>4. ASSUME NEW h \in Nat \ {0}, NEW n \in Int
      PROVE  Wrap(h, n) \in Seq(Int) /\ Wrap(h, n) # NULL
  <2>1. (n + h) % (2 * h) \in Int
    OBVIOUS
  <2>. QED BY <2>1 DEF Wrap, NULL
<1>5. \A n \in Int : <<n>> \in Seq(Int) /\ <<n>> # NULL
  BY DEF NULL
<1>6. d.v # NULL
  <2>1. Len(d.v) # 0
    OBVIOUS
  <2>. QED BY <2>1 DEF NULL
<1>7. /\ CellF64(d) \in Seq(Int) /\ CellF64(d) # NULL
      /\ CellBool(d) \in Seq(Int) /\ CellBool(d) # NULL
  <2>1. Rounded("DOUBLE", 100 * d.v[1]) \in Int
    <3>1. 100 * d.v[1] \in Int
      BY <1>2
    <3>. QED BY <3>1, RoundedFacts DEF FloatingTypes
  <2>2. Bit(d.v[1] # 0) \in Seq(Int) /\ Bit(d.v[1] # 0) # NULL
    BY <1>5 DEF Bit
  <2>3. CellF64(d) \in Seq(Int) /\ CellF64(d) # NULL
    BY <1>2, <1>5, <2>1 DEF CellF64
  <2>4. <<0>> \in Seq(Int) /\ <<0>> # NULL
    BY <1>5
  <2>5. \/ CellBool(d) = d.v
        \/ CellBool(d) = Bit(d.v[1] # 0)
        \/ CellBool(d) = <<0>>
    BY DEF CellBool
  <2>. QED BY <1>6, <2>2, <2>3, <2>4, <2>5, Zenon
<1>8. /\ CellText(d) \in Seq(Int) /\ CellText(d) # NULL
      /\ CellBlob(d) \in Seq(Int) /\ CellBlob(d) # NULL
  <2>1. <<0>> \o d.v \in Seq(Int) /\ Len(<<0>> \o d.v) # 0
    OBVIOUS
  <2>2. <<0>> \o d.v # NULL
    BY <2>1 DEF NULL
  <2>. QED BY <1>5, <1>6, <2>1, <2>2 DEF CellText, CellBlob
<1>9. /\ CellTimestamp(d) \in Seq(Int) /\ CellTimestamp(d) # NULL
       /\ CellTimestamp(d)[1] \in Int /\ CellTimestamp(d)[2] \in Int
  <2>1. CASE d.is = "Timestamp"
    <3>1. CellTimestamp(d) = d.v
      BY <2>1 DEF CellTimestamp
    <3>. QED BY <1>6, <2>1, <3>1
  <2>2. CASE d.is # "Timestamp"
    <3>1. CellTimestamp(d) = <<0, 0>>
      BY <2>2 DEF CellTimestamp
    <3>2. <<0, 0>> \in Seq(Int) /\ Len(<<0, 0>>) = 2
      OBVIOUS
    <3>3. <<0, 0>> # NULL /\ <<0, 0>>[1] = 0 /\ <<0, 0>>[2] = 0
      BY DEF NULL
    <3>. QED BY <3>1, <3>2, <3>3
  <2>. QED BY <2>1, <2>2
<1>10. /\ Half["SHORT"] \in Nat \ {0} /\ Half["LONG"] \in Nat \ {0}
      /\ Half["INT64"] \in Nat \ {0}
  BY DecodingAssumption DEF DecodingAssumption, IntegerFields
<1>11. Rounded("FLOAT", CellF64(d)[1]) \in Int
  <2>1. Rounded("DOUBLE", 100 * d.v[1]) \in Int
    <3>1. 100 * d.v[1] \in Int
      BY <1>2
    <3>. QED BY <3>1, RoundedFacts DEF FloatingTypes
  <2>2. CellF64(d)[1] \in Int
    BY <1>2, <2>1 DEF CellF64
  <2>. QED BY <2>2, RoundedFacts DEF FloatingTypes
<1>. QED BY <1>1, <1>3, <1>4, <1>5, <1>7, <1>10, <1>8, <1>9, <1>11 DEF Output
LEMMA ReadCellInv == IInv /\ ReadCell => IInv'
<1> SUFFICES ASSUME IInv, ReadCell PROVE IInv'
  OBVIOUS
<1> USE DEF setting
<1> DEFINE i == Len(output) + 1
           o == Output(LogicalType(bound[i]), data[i])
<1>1. TypeOK /\ SettingOK /\ MessageLeft /\ DataOK /\ OutputOK
  BY DEF IInv
<1>2. /\ pc = "scan" /\ Len(output) < Len(bound)
      /\ output' = Append(output, o)
      /\ UNCHANGED <<bound, columns, row, version, charset, body, null_map, data, pc>>
  BY DEF ReadCell
<1>3. i \in 1..Len(row)
  BY <1>1, <1>2 DEF TypeOK, SettingOK
<1>4. o \in Seq(Int)
  <2>1. CASE data[i].is = "Null"
    <3>1. o = NULL
      BY <2>1 DEF Output
    <3>. QED BY <3>1 DEF NULL
  <2>2. CASE data[i].is # "Null"
    <3>1. /\ data[i].v \in Seq(Int)
          /\ Len(data[i].v) = IF data[i].is = "Timestamp" THEN 2 ELSE 1
      BY <1>2, <1>3, <2>2, ScanCell
    <3>2. bound[i] \in ColumnDef
      BY <1>1, <1>3, AtColumn
    <3>. QED BY <2>2, <3>1, <3>2, OutputType
  <2>. QED BY <2>1, <2>2
<1>5. /\ output' \in Seq(Seq(Int)) /\ Len(output') = i
      /\ output'[i] = o
      /\ \A j \in 1..Len(output) : output'[j] = output[j]
  <2> HIDE DEF o
  <2>1. output \in Seq(Seq(Int))
    BY <1>1 DEF TypeOK
  <2>. QED BY <1>2, <1>4, <2>1, AppendProperties
<1>6. TypeOK' /\ SettingOK' /\ MessageLeft' /\ FailsForCause'
  BY <1>1, <1>2, <1>5 DEF TypeOK, SettingOK, MessageLeft, FailsForCause
<1>7. DataOK'
  <2>1. /\ \A j \in DOMAIN data : /\ CellOf(j)' = CellOf(j)
                                  /\ BlobOf(j, data[j])' <=> BlobOf(j, data[j])
        /\ Blobs' = Blobs
    BY <1>2 DEF CellOf, Value, Decoded, IsNull, BlobOf, IsBinary, Blobs
  <2>. QED BY <1>1, <1>2, <2>1 DEF DataOK
<1>8. OutputOK'
  <2>1. ASSUME NEW j \in DOMAIN output'
        PROVE  output'[j] = Output(LogicalType(bound[j]), data[j])
    <3>1. j \in 1..i
      BY <1>5
    <3>2. CASE j = i
      BY <1>5, <3>2
    <3>3. CASE j # i
      <4>1. j \in 1..Len(output) /\ j \in DOMAIN output
        <5>1. output \in Seq(Seq(Int))
          BY <1>1 DEF TypeOK
        <5>. QED BY <3>1, <3>3, <5>1
      <4>. QED BY <1>1, <1>5, <4>1 DEF OutputOK
    <3>. QED BY <3>2, <3>3
  <2>2. Len(output') <= Len(bound)
    BY <1>1, <1>2, <1>5 DEF TypeOK
  <2>. QED BY <1>2, <2>1, <2>2 DEF OutputOK
<1>. QED BY <1>6, <1>7, <1>8 DEF IInv

LEMMA RowReadInv == IInv /\ RowRead => IInv'
<1> SUFFICES ASSUME IInv, RowRead PROVE IInv'
  OBVIOUS
<1> USE DEF setting
<1>1. TypeOK /\ SettingOK /\ MessageLeft /\ DataOK /\ OutputOK
  BY DEF IInv
<1>2. /\ pc = "scan" /\ pc' = "done"
      /\ UNCHANGED <<bound, columns, row, version, charset, body, null_map, data,
                     output>>
  BY DEF RowRead
<1>3. TypeOK' /\ SettingOK' /\ MessageLeft' /\ OutputOK' /\ FailsForCause'
  BY <1>1, <1>2 DEF TypeOK, SettingOK, MessageLeft, OutputOK, FailsForCause
<1>4. DataOK'
  <2>1. /\ \A j \in DOMAIN data : /\ CellOf(j)' = CellOf(j)
                                  /\ BlobOf(j, data[j])' <=> BlobOf(j, data[j])
        /\ Blobs' = Blobs
    BY <1>2 DEF CellOf, Value, Decoded, IsNull, BlobOf, IsBinary, Blobs
  <2>. QED BY <1>1, <1>2, <2>1 DEF DataOK
<1>. QED BY <1>3, <1>4 DEF IInv

LEMMA StutterInv == IInv /\ UNCHANGED vars => IInv'
<1> SUFFICES ASSUME IInv, UNCHANGED vars PROVE IInv'
  OBVIOUS
<1>1. UNCHANGED <<bound, columns, row, version, charset, body, null_map, data, output, pc>>
  BY DEF vars, setting
<1>2. TypeOK' /\ SettingOK' /\ OutputOK' /\ FailsForCause'
  BY <1>1 DEF IInv, TypeOK, SettingOK, OutputOK, FailsForCause
<1>3. MessageLeft'
  <2>1. Bitmap' = Bitmap /\ Unparsed(0)' = Unparsed(0)
        /\ Unparsed(Len(data))' = Unparsed(Len(data))
    BY <1>1 DEF Bitmap, Unparsed, Field, IsNull
  <2>. QED BY <1>1, <2>1 DEF IInv, MessageLeft
<1>4. DataOK'
  <2>1. /\ \A j \in DOMAIN data : /\ CellOf(j)' = CellOf(j)
                                  /\ BlobOf(j, data[j])' <=> BlobOf(j, data[j])
        /\ Blobs' = Blobs
    BY <1>1 DEF CellOf, Value, Decoded, IsNull, BlobOf, IsBinary, Blobs
  <2>. QED BY <1>1, <2>1 DEF IInv, DataOK
<1>. QED BY <1>2, <1>3, <1>4 DEF IInv

THEOREM Inductive == Spec => []IInv
<1>1. IInv /\ [Next]_vars => IInv'
  <2> SUFFICES ASSUME IInv, [Next]_vars PROVE IInv'
    OBVIOUS
  <2>1. CASE UNCHANGED vars
    BY <2>1, StutterInv
  <2>2. CASE Next
    BY <2>2, PrepareInv, UnsupportedInv, ReadNullMapInv, ParseNullInv, ParseValueInv,
       ParseFlaggedInv, TextUndecodableInv, ParsedInv, IntoColumnInv, DecodeFailsInv, ConvertedInv,
       ReadCellInv, RowReadInv DEF Next
  <2>. QED BY <2>1, <2>2
<1>. QED BY <1>1, InitInv, PTL DEF Spec

-----------------------------------------------------------------------------
(* What IInv says of a row.                                                *)

(* A value that a narrower integer has room for is not changed by the cast.*)
LEMMA WrapFits ==
  ASSUME NEW h \in Nat \ {0}, NEW n \in Int, -h <= n, n < h
  PROVE  Wrap(h, n) = <<n>>
<1>1. ((n + h) % (2 * h)) - h = n
  OBVIOUS
<1>. QED BY <1>1 DEF Wrap

LEMMA HalfType ==
  /\ Half["SHORT"] \in Nat \ {0} /\ Half["LONG"] \in Nat \ {0}
  /\ Half["INT64"] \in Nat \ {0}
BY DecodingAssumption DEF DecodingAssumption, IntegerFields

LEMMA OneTuple ==
  ASSUME NEW v \in Seq(Int), Len(v) = 1
  PROVE  v[1] \in Int /\ v = <<v[1]>>
OBVIOUS

LEMMA OutputIs ==
  ASSUME IInv, NEW i \in DOMAIN output
  PROVE  /\ pc \in {"scan", "done"}
         /\ i \in 1..Len(row)
         /\ bound[i] \in ColumnDef /\ columns[i] \in ColumnDef
         /\ bound[i].scale <= 0 /\ columns[i].scale <= 0
         /\ output[i] = Output(LogicalType(bound[i]), data[i])
<1>1. TypeOK /\ SettingOK /\ OutputOK
  BY DEF IInv
<1>2. output \in Seq(Seq(Int)) /\ i \in 1..Len(output)
  BY <1>1 DEF TypeOK
<1>3. pc \in {"scan", "done"}
  BY <1>1, <1>2 DEF OutputOK
<1>4. i \in 1..Len(row)
  BY <1>1, <1>2 DEF OutputOK, SettingOK, TypeOK
<1>. QED BY <1>1, <1>3, <1>4, AtColumn DEF OutputOK

LEMMA NullsKept ==
  ASSUME IInv, NEW i \in DOMAIN output
  PROVE  (output[i] = NULL) <=> (row[i] = NULL)
<1>1. /\ data[i].is = "Null" <=> row[i] = NULL
      /\ row[i] # NULL => /\ data[i].v \in Seq(Int)
                          /\ Len(data[i].v) = IF data[i].is = "Timestamp" THEN 2 ELSE 1
  BY OutputIs, ScanCell
<1>2. CASE row[i] = NULL
  BY <1>1, <1>2, OutputIs DEF Output
<1>3. CASE row[i] # NULL
  BY <1>1, <1>3, OutputIs, OutputType
<1>. QED BY <1>2, <1>3

LEMMA ValuesKept ==
  ASSUME IInv, NEW i \in DOMAIN output,
         bound[i] = columns[i], row[i] # NULL => Lossless(columns[i], row[i])
  PROVE  output[i] = row[i]
<1> DEFINE c == columns[i]
           d == data[i]
           v == row[i]
<1>1. CASE v = NULL
  BY <1>1, NullsKept
<1>2. CASE v # NULL
  <2>1. /\ v \in Seq(Int) /\ IsValue(c, v) /\ d.is # "Null"
        /\ c.field \in TextFields => d = Cell("Text", Decoded(c, v))
        /\ IsInteger(c) /\ c.scale = 0 => d = Cell("Integer", v)
        /\ IsScaled(c) => d = Cell("Floating", <<Rounded("DOUBLE", v[1])>>)
        /\ c.field \in FloatingTypes => d = Cell("Floating", v)
        /\ c.field = "TIMESTAMP" => d = Cell("Timestamp", v)
        /\ c.field = "DATE" => d = Cell("Timestamp", <<v[1], 0>>)
        /\ c.field = "TIME" => d = Cell("Timestamp", <<Today, v[1]>>)
        /\ c.field = "BOOLEAN" => d = Cell("Boolean", v)
        /\ c.field = "BLOB" => /\ d.is \in {"Text", "Binary"}
                               /\ d.v = IF c.sub = 0 THEN v ELSE Decoded(c, v)
        /\ c.field \notin {"INT128", "OTHER"}
    BY <1>2, OutputIs, ScanCell
  <2>2. /\ output[i] = Output(LogicalType(c), d)
        /\ c \in ColumnDef /\ c.scale <= 0
    BY OutputIs
  <2>3. c.field \in Fields /\ c.sub \in Int /\ c.scale \in Int
    BY <2>2 DEF ColumnDef
  <2>4. c.field # "TIMESTAMP" => Len(v) = 1 /\ v[1] \in Int /\ v = <<v[1]>>
    BY <1>2, <2>1, OneTuple DEF IsValue
  <2>5. /\ c.field \in TextFields => d = Cell("Text", v)
        /\ c.field = "BLOB" => d.v = v
    <3>1. (c.field \in TextFields \/ (c.field = "BLOB" /\ c.sub # 0))
              => Decoded(c, v) = v
      <4>1. ASSUME c.field \in TextFields \/ (c.field = "BLOB" /\ c.sub # 0)
            PROVE  ~(AsStored(c) /\ HasHigh(v)) /\ c.field # "TIMESTAMP"
        BY <1>2, <4>1 DEF Lossless, TextFields
      <4>. QED BY <2>1, <2>4, <4>1, DecodedFacts
    <3>. QED BY <2>1, <3>1
  <2> HIDE DEF c, d, v
  <2>6. CASE IsInteger(c)
    <3>1. /\ c.field \in {"SHORT", "LONG", "INT64"}
          /\ -Half[c.field] <= v[1] /\ v[1] < Half[c.field]
      BY <2>1, <2>6 DEF IsValue, IsInteger, IntegerFields
    <3>2. CASE c.scale = 0
      <4>1. d = Cell("Integer", v) /\ CellI64(d) = v[1]
        BY <2>1, <2>6, <3>2 DEF CellI64, Cell
      <4>2. LogicalType(c) = IntegerType[c.field]
        BY <2>6, <3>1, <3>2 DEF LogicalType, IsInteger, IntegerFields
      <4>3. Output(LogicalType(c), d) = Wrap(Half[c.field], v[1])
        BY <2>1, <3>1, <4>1, <4>2 DEF Output, IntegerType
      <4>4. Wrap(Half[c.field], v[1]) = <<v[1]>>
        BY <2>4, <3>1, HalfType, WrapFits
      <4>. QED BY <2>2, <2>4, <3>1, <4>3, <4>4 DEF v
    <3>3. CASE c.scale # 0
      <4>1. LogicalType(c) = "DOUBLE"
        BY <2>2, <2>3, <2>6, <3>1, <3>3 DEF LogicalType, IsInteger, IntegerFields
      <4>2. d = Cell("Floating", <<v[1]>>)
        <5>1. v[1] \in Floating["DOUBLE"] /\ v[1] \in Int
          BY <1>2, <2>4, <2>6, <3>1, <3>3 DEF Lossless, IsScaled, c, v
        <5>2. Rounded("DOUBLE", v[1]) = v[1]
          BY <5>1, RoundedFacts DEF FloatingTypes
        <5>. QED BY <2>1, <2>6, <3>3, <5>2 DEF IsScaled
      <4>3. Output(LogicalType(c), d) = <<v[1]>>
        BY <4>1, <4>2 DEF Output, CellF64, Cell
      <4>. QED BY <2>2, <2>4, <3>1, <4>3 DEF v
    <3>. QED BY <3>2, <3>3
  <2>7. CASE c.field \in {"FLOAT", "DOUBLE"}
    <3>1. LogicalType(c) = c.field /\ d = Cell("Floating", v)
      BY <2>1, <2>7 DEF LogicalType, IsInteger, IntegerFields, FloatingTypes
    <3>2. CellF64(d) = <<v[1]>>
      BY <3>1 DEF CellF64, Cell
    <3>3. Rounded(c.field, v[1]) = v[1]
      BY <2>1, <2>4, <2>7, RoundedFacts DEF IsValue, FloatingTypes
    <3>4. Output(LogicalType(c), d) = <<v[1]>>
      BY <2>7, <3>1, <3>2, <3>3 DEF Output, Cell
    <3>. QED BY <2>2, <2>4, <2>7, <3>4 DEF v
  <2>8. CASE c.field \in {"DATE", "TIME", "TIMESTAMP"}
    <3>1. LogicalType(c) = c.field
      BY <2>8 DEF LogicalType, IsInteger, IntegerFields
    <3>2. CASE c.field = "TIMESTAMP"
      <4>1. Output(LogicalType(c), d) = v
        BY <2>1, <3>1, <3>2 DEF Output, CellTimestamp, Cell
      <4>. QED BY <2>2, <4>1 DEF v
    <3>3. CASE c.field = "DATE"
      <4>1. Output(LogicalType(c), d) = <<v[1]>>
        BY <2>1, <3>1, <3>3 DEF Output, CellTimestamp, Cell
      <4>. QED BY <2>2, <2>4, <3>3, <4>1 DEF v
    <3>4. CASE c.field = "TIME"
      <4>1. Output(LogicalType(c), d) = <<v[1]>>
        BY <2>1, <3>1, <3>4 DEF Output, CellTimestamp, Cell
      <4>. QED BY <2>2, <2>4, <3>4, <4>1 DEF v
    <3>. QED BY <2>8, <3>2, <3>3, <3>4
  <2>9. CASE c.field = "BOOLEAN"
    <3>1. LogicalType(c) = "BOOLEAN" /\ d = Cell("Boolean", v)
      BY <2>1, <2>9 DEF LogicalType, IsInteger, IntegerFields
    <3>2. Output(LogicalType(c), d) = v
      BY <3>1 DEF Output, CellBool, Cell
    <3>. QED BY <2>2, <3>2 DEF v
  <2>10. CASE c.field \in {"CHAR", "VARCHAR"}
    <3>1. LogicalType(c) = "VARCHAR" /\ d = Cell("Text", v)
      BY <2>5, <2>10 DEF LogicalType, IsInteger, IntegerFields, TextFields
    <3>2. Output(LogicalType(c), d) = v
      BY <3>1 DEF Output, CellText, Cell
    <3>. QED BY <2>2, <3>2 DEF v
  <2>11. CASE c.field = "BLOB"
    <3>1. LogicalType(c) \in {"VARCHAR", "BLOB"}
      BY <2>11 DEF LogicalType, IsInteger, IntegerFields
    <3>2. d.is \in {"Text", "Binary"} /\ d.v = v
      BY <2>1, <2>3, <2>5, <2>11
    <3>3. Output(LogicalType(c), d) = v
      BY <3>1, <3>2 DEF Output, CellText, CellBlob
    <3>. QED BY <2>2, <3>3 DEF v
  <2>. QED BY <2>1, <2>3, <2>6, <2>7, <2>8, <2>9, <2>10, <2>11
           DEF Fields, IsInteger
<1>. QED BY <1>1, <1>2

LEMMA NumbersKept ==
  ASSUME IInv, NEW i \in DOMAIN output,
         Numeric(bound[i]), Numeric(columns[i]), row[i] # NULL,
         IsScaled(columns[i]) => Hundredths(LogicalType(columns[i]), row[i])
                                     \in Floating["DOUBLE"],
         Expressible(bound[i], Hundredths(LogicalType(columns[i]), row[i]))
  PROVE  Hundredths(LogicalType(bound[i]), output[i])
            = Hundredths(LogicalType(columns[i]), row[i])
<1> DEFINE b == bound[i]
           c == columns[i]
           d == data[i]
           v == row[i]
           number == Hundredths(LogicalType(c), v)
<1>1. /\ v \in Seq(Int) /\ IsValue(c, v) /\ d.is # "Null"
      /\ IsInteger(c) /\ c.scale = 0 => d = Cell("Integer", v)
      /\ IsScaled(c) => d = Cell("Floating", <<Rounded("DOUBLE", v[1])>>)
      /\ c.field \in FloatingTypes => d = Cell("Floating", v)
  BY OutputIs, ScanCell
<1>2. /\ output[i] = Output(LogicalType(b), d)
      /\ b \in ColumnDef /\ b.scale <= 0 /\ b.scale \in Int
      /\ c \in ColumnDef /\ c.scale <= 0 /\ c.scale \in Int
  BY OutputIs DEF ColumnDef
<1>3. /\ b.field \in {"SHORT", "LONG", "INT64", "FLOAT", "DOUBLE"}
      /\ c.field \in {"SHORT", "LONG", "INT64", "FLOAT", "DOUBLE"}
  BY DEF Numeric
<1>4. v[1] \in Int /\ v = <<v[1]>>
  BY <1>1, <1>3, OneTuple DEF IsValue
<1>5. /\ d.is \in {"Integer", "Floating"} /\ d.v = v
      /\ number = IF d.is = "Integer" THEN 100 * v[1] ELSE v[1]
      /\ number \in Int
  <2> HIDE DEF b, c, d, v
  <2>1. CASE IsInteger(c) /\ c.scale = 0
    <3>1. d = Cell("Integer", v)
      BY <1>1, <2>1
    <3>2. LogicalType(c) \in {"SMALLINT", "INTEGER", "BIGINT"}
      BY <2>1, <1>3 DEF LogicalType, IsInteger, IntegerFields, IntegerType
    <3>. QED BY <1>4, <3>1, <3>2 DEF Hundredths, FloatingTypes, Cell
  <2>2. CASE ~(IsInteger(c) /\ c.scale = 0)
    <3>2. LogicalType(c) \in {"FLOAT", "DOUBLE"}
      BY <2>2, <1>2, <1>3 DEF LogicalType, IsInteger, IntegerFields
    <3>3. ASSUME IsScaled(c) PROVE Rounded("DOUBLE", v[1]) = v[1]
      <4>1. v[1] \in Floating["DOUBLE"]
        BY <3>2, <3>3 DEF Hundredths, FloatingTypes, c, v
      <4>. QED BY <1>4, <4>1, RoundedFacts DEF FloatingTypes
    <3>1. d = Cell("Floating", v)
      BY <1>1, <1>3, <1>4, <2>2, <3>3
         DEF IsScaled, IsInteger, IntegerFields, FloatingTypes
    <3>. QED BY <1>4, <3>1, <3>2 DEF Hundredths, FloatingTypes, Cell
  <2>. QED BY <2>1, <2>2
<1>6. Expressible(b, number)
  OBVIOUS
<1> HIDE DEF b, c, d, v, number
<1>7. CASE LogicalType(b) \in {"FLOAT", "DOUBLE"}
  <2>1. /\ number \in Floating[LogicalType(b)]
        /\ number \in Floating["DOUBLE"]
    BY <1>6, <1>7, DecodingAssumption DEF Expressible, FloatingTypes, DecodingAssumption
  <2>2. CellF64(d) = <<number>>
    BY <1>5, <2>1, RoundedFacts DEF CellF64, FloatingTypes
  <2>3. Rounded(LogicalType(b), number) = number
    BY <1>5, <1>7, <2>1, RoundedFacts DEF FloatingTypes
  <2>4. Output(LogicalType(b), d) = <<number>>
    BY <1>5, <1>7, <2>2, <2>3 DEF Output
  <2>5. Hundredths(LogicalType(b), <<number>>) = number
    BY <1>7 DEF Hundredths, FloatingTypes
  <2>. QED BY <1>2, <2>4, <2>5 DEF b, c, v, number
<1>8. CASE LogicalType(b) \notin {"FLOAT", "DOUBLE"}
  <2> DEFINE n == number \div 100
  <2>1. /\ b.field \in {"SHORT", "LONG", "INT64"}
        /\ LogicalType(b) = IntegerType[b.field]
    BY <1>2, <1>3, <1>8 DEF LogicalType, IsInteger, IntegerFields
  <2>2. number % 100 = 0 /\ -Half[b.field] <= n /\ n < Half[b.field]
    BY <1>6, <1>8 DEF Expressible, FloatingTypes
  <2>3. n \in Int /\ 100 * n = number
    BY <1>5, <2>2
  <2>4. CellI64(d) = n
    <3>1. CASE d.is = "Integer"
      BY <1>4, <1>5, <3>1 DEF CellI64
    <3>2. CASE d.is = "Floating"
      <4>1. CellI64(d) = Saturated(Truncated(number))
        BY <1>5, <3>2 DEF CellI64
      <4>2. Truncated(number) = n
        <5> HIDE DEF n
        <5>1. CASE number >= 0
          BY <2>3, <5>1 DEF Truncated
        <5>2. CASE ~(number >= 0)
          BY <2>3, <5>2 DEF Truncated
        <5>. QED BY <5>1, <5>2
      <4>3. /\ -Half["INT64"] <= n /\ n < Half["INT64"]
        <5> HIDE DEF n
        <5>1. /\ Half[b.field] \in Nat /\ Half["INT64"] \in Nat
              /\ Half[b.field] <= Half["INT64"]
          BY <2>1, DecodingAssumption DEF DecodingAssumption, IntegerFields
        <5>. QED BY <2>2, <2>3, <5>1
      <4>4. Saturated(n) = n
        <5> HIDE DEF n
        <5>. QED BY <2>3, <4>3, HalfType DEF Saturated
      <4>. QED BY <4>1, <4>2, <4>4
    <3>. QED BY <1>5, <3>1, <3>2
  <2> HIDE DEF n
  <2>5. Output(LogicalType(b), d) = Wrap(Half[b.field], n)
    BY <1>5, <2>1, <2>4 DEF Output, IntegerType
  <2>6. Wrap(Half[b.field], n) = <<n>>
    BY <2>1, <2>2, <2>3, HalfType, WrapFits
  <2>7. Hundredths(LogicalType(b), <<n>>) = number
    BY <1>8, <2>3 DEF Hundredths, FloatingTypes
  <2>. QED BY <1>2, <2>5, <2>6, <2>7 DEF b, c, v, number
<1>. QED BY <1>7, <1>8

-----------------------------------------------------------------------------
(* Every variable has its type; in particular no parser asks for more than *)
(* its message has (BytesWireExt).                                         *)
THEOREM TypeCorrect == Spec => []TypeOK
<1>1. IInv => TypeOK
  BY DEF IInv
<1>. QED BY <1>1, Inductive, PTL

(* The parser takes each row's message to its end and no further, for any  *)
(* number of columns and whatever is null (parse_sql_response).            *)
THEOREM Consumed == Spec => []MessageConsumed
<1>1. IInv => MessageConsumed
  BY DEF IInv, TypeOK, MessageLeft, MessageConsumed
<1>. QED BY <1>1, Inductive, PTL

(* What is on the server is what is in the vectors (XSqlVar::coerce, the   *)
(* parser, into_column and the accessors agree on every type), but for     *)
(* bytes that are no text and scaled integers that no DOUBLE expresses.    *)
THEOREM Faithful == Spec => []RowFaithful
<1>1. IInv => RowFaithful
  <2> SUFFICES ASSUME IInv, NEW i \in DOMAIN output
               PROVE  /\ (output[i] = NULL) <=> (row[i] = NULL)
                      /\ (/\ bound[i] = columns[i]
                          /\ row[i] # NULL /\ Lossless(columns[i], row[i]))
                              => output[i] = row[i]
    BY DEF RowFaithful
  <2>. QED BY NullsKept, ValuesKept
<1>. QED BY <1>1, Inductive, PTL

(* A number that the type it was bound as can express survives the change  *)
(* of its column to another type of numbers.                               *)
THEOREM Numbers == Spec => []NumbersSurvive
<1>1. IInv => NumbersSurvive
  BY NumbersKept DEF NumbersSurvive
<1>. QED BY <1>1, Inductive, PTL

(* Only a column of an unsupported type, or in UTF-8 bytes that are sent   *)
(* as stored and are no text, make it fail (coerce, Charset::decode).      *)
THEOREM Failures == Spec => []FailsForCause
<1>1. IInv => FailsForCause
  BY DEF IInv
<1>. QED BY <1>1, Inductive, PTL

-----------------------------------------------------------------------------
(* Describe.                                                               *)

USE DescribeAssumption DEF DescribeAssumption

-----------------------------------------------------------------------------
(* Items.                                                                  *)

LEMMA IndexIsItem ==
  ASSUME NEW c \in Nat \ {0}
  PROVE  Index(c) \in Items /\ IsItem(Index(c))
BY DEF Index, Item, Items, Kinds, IsItem

LEMMA AfterIsItem ==
  ASSUME NEW item \in Items, IsItem(item)
  PROVE  After(item) \in Items /\ IsItem(After(item))
BY DEF After, Index, Item, Items, Kinds, IsItem

LEMMA MarkerIsNoItem ==
  ASSUME NEW kind \in {"truncated", "end"}
  PROVE  Marker(kind) \in Items /\ Marker(kind).kind = kind
BY DEF Marker, Item, Items, Kinds

-----------------------------------------------------------------------------
LEMMA DescribeInitInv == DescribeInit => DescribeInv
<1> SUFFICES ASSUME DescribeInit PROVE DescribeInv
  OBVIOUS
<1>1. PICK n \in 0..Columns : size \in [1..n -> [1..Attributes -> Sizes]]
  BY DEF DescribeInit
<1>2. size \in Seq([1..Attributes -> Nat]) /\ Len(size) = n
  <2> DEFINE S == [1..Attributes -> Nat]
  <2>1. n \in Nat
    OBVIOUS
  <2>2. ASSUME NEW f \in [1..Attributes -> Sizes] PROVE f \in S
    OBVIOUS
  <2> HIDE DEF S
  <2>3. size \in [1..n -> S]
    BY <1>1, <2>2
  <2>4. size \in Seq(S) /\ Len(size) = n
    BY <2>1, <2>3
  <2>. QED BY <2>4 DEF S
<1>3. /\ telling = Index(1) /\ room = Room /\ reply = <<>> /\ xsqlda = <<>>
      /\ col_index = 0 /\ phase = "server"
  BY DEF DescribeInit
<1>4. DescribeTypeOK
  BY <1>2, <1>3, IndexIsItem DEF DescribeTypeOK
<1>5. TellingOK
  BY <1>2, <1>3 DEF TellingOK, Index, Item
<1>6. Chained /\ XsqldaOK /\ FirstOK /\ HeadOK /\ DoneOK
  BY <1>2, <1>3 DEF Chained, XsqldaOK, FirstOK, HeadOK, DoneOK, Heard, Complete, Begins
<1>. QED BY <1>4, <1>5, <1>6 DEF DescribeInv

LEMMA TellInv == DescribeInv /\ Tell => DescribeInv'
<1> SUFFICES ASSUME DescribeInv, Tell PROVE DescribeInv'
  OBVIOUS
<1> USE DEF server
<1>1. DescribeTypeOK /\ TellingOK /\ Chained /\ XsqldaOK /\ FirstOK /\ HeadOK /\ DoneOK
  BY DEF DescribeInv
<1>2. /\ phase = "server" /\ telling.column <= Len(size)
      /\ SizeOf(telling) <= room
      /\ reply' = Append(reply, telling)
      /\ room' = room - SizeOf(telling)
      /\ telling' = After(telling)
      /\ UNCHANGED <<size, xsqlda, col_index, phase>>
  BY DEF Tell, Telling
<1>3. telling \in Items /\ IsItem(telling) /\ reply \in Seq(Items)
  BY <1>1 DEF DescribeTypeOK
<1>4. /\ reply' \in Seq(Items) /\ Len(reply') = Len(reply) + 1
      /\ reply'[Len(reply) + 1] = telling
      /\ \A j \in 1..Len(reply) : reply'[j] = reply[j]
  BY <1>2, <1>3, AppendProperties
<1>5. SizeOf(telling) \in Nat
  <2>1. CASE telling.kind = "attribute"
    <3> DEFINE c == telling.column
               a == telling.attribute
               S == [1..Attributes -> Nat]
    <3>1. c \in Nat /\ c > 0 /\ c <= Len(size) /\ a \in 1..Attributes
      BY <1>2, <1>3, <2>1 DEF Items, IsItem
    <3>2. SizeOf(telling) = size[c][a] /\ size \in Seq(S)
      BY <1>1, <2>1 DEF SizeOf, DescribeTypeOK
    <3> HIDE DEF c, a, S
    <3>3. c \in 1..Len(size)
      BY <3>1, <3>2
    <3>4. size[c] \in S
      BY <3>2, <3>3, ElementOfSeq
    <3>. QED BY <3>1, <3>2, <3>4 DEF S
  <2>2. CASE telling.kind # "attribute"
    BY <2>2 DEF SizeOf
  <2>. QED BY <2>1, <2>2
<1>6. DescribeTypeOK'
  BY <1>1, <1>2, <1>3, <1>4, <1>5, AfterIsItem DEF DescribeTypeOK
<1>7. TellingOK'
  BY <1>1, <1>2, <1>3 DEF DescribeTypeOK, TellingOK, After, Index, Item, Items
<1>8. Chained'
  <2>1. ASSUME NEW j \in 1..(Len(reply') - 1)
        PROVE  Follows(reply[j], reply[j + 1])'
    <3>1. j \in 1..Len(reply)
      BY <1>3, <1>4
    <3>2. CASE j = Len(reply)
      <4>1. /\ IsItem(reply[j]) /\ reply[j].column <= Len(size)
            /\ telling = After(reply[j])
        BY <1>1, <1>2, <1>3, <3>1, <3>2 DEF Chained
      <4>2. reply'[j] = reply[j] /\ reply'[j + 1] = telling
        BY <1>4, <3>1, <3>2
      <4>3. Follows(reply[j], telling)
        BY <1>2, <1>3, <4>1 DEF Follows
      <4>. QED BY <1>2, <4>2, <4>3 DEF Follows
    <3>3. CASE j # Len(reply)
      <4>1. /\ j \in 1..(Len(reply) - 1)
            /\ reply'[j] = reply[j] /\ reply'[j + 1] = reply[j + 1]
        BY <1>3, <1>4, <3>1, <3>3
      <4>2. Follows(reply[j], reply[j + 1])
        BY <1>1, <4>1 DEF Chained
      <4>. QED BY <1>2, <4>1, <4>2 DEF Follows
    <3>. QED BY <3>2, <3>3
  <2>2. ASSUME NEW j \in DOMAIN reply', j = Len(reply')
        PROVE  IsItem(reply'[j]) /\ reply'[j].column <= Len(size)
               /\ telling' = After(reply'[j])
    <3>1. reply'[j] = telling
      BY <1>4, <2>2
    <3>. QED BY <1>2, <1>3, <3>1
  <2>. QED BY <1>2, <2>1, <2>2 DEF Chained
<1>9. XsqldaOK' /\ HeadOK' /\ DoneOK'
  BY <1>1, <1>2 DEF XsqldaOK, HeadOK, DoneOK, Heard, Complete
<1>10. FirstOK'
  <2>1. Begins(reply'[1])
    <3>1. CASE reply = <<>>
      BY <1>1, <1>2, <1>4, <3>1 DEF FirstOK
    <3>2. CASE reply # <<>>
      BY <1>1, <1>2, <1>3, <1>4, <3>2 DEF FirstOK
    <3>. QED BY <3>1, <3>2
  <2>. QED BY <1>2, <1>4, <2>1 DEF FirstOK, Begins, Heard
<1>. QED BY <1>6, <1>7, <1>8, <1>9, <1>10 DEF DescribeInv

(* The answer ends, with either mark.                                      *)
LEMMA AnswerEnds ==
  ASSUME DescribeInv, phase = "server", NEW kind \in {"truncated", "end"}, Ends(kind),
         kind = "end" => telling = Index(Len(size) + 1)
  PROVE  DescribeInv'
<1> USE DEF server
<1>1. DescribeTypeOK /\ TellingOK /\ Chained /\ XsqldaOK /\ FirstOK /\ HeadOK /\ DoneOK
  BY DEF DescribeInv
<1> DEFINE mark == Marker(kind)
<1>2. /\ reply' = Append(reply, mark) /\ phase' = "header"
      /\ UNCHANGED <<size, telling, room, xsqlda, col_index>>
  BY DEF Ends
<1>3. mark \in Items /\ mark.kind = kind /\ reply \in Seq(Items) /\ Len(size) \in Nat
  BY <1>1, MarkerIsNoItem DEF DescribeTypeOK
<1> HIDE DEF mark
<1>4. /\ reply' \in Seq(Items) /\ Len(reply') = Len(reply) + 1 /\ reply' # <<>>
      /\ reply'[Len(reply) + 1] = mark
      /\ \A j \in 1..Len(reply) : reply'[j] = reply[j]
  BY <1>2, <1>3, AppendProperties
<1>5. DescribeTypeOK'
  BY <1>1, <1>2, <1>4 DEF DescribeTypeOK
<1>6. TellingOK' /\ XsqldaOK' /\ HeadOK' /\ DoneOK'
  BY <1>1, <1>2 DEF TellingOK, XsqldaOK, HeadOK, DoneOK, Heard, Complete
<1>7. Chained'
  <2>1. ASSUME NEW j \in 1..(Len(reply') - 1)
        PROVE  Follows(reply[j], reply[j + 1])'
    <3>1. j \in 1..Len(reply)
      BY <1>3, <1>4
    <3>2. CASE j = Len(reply)
      <4>1. /\ IsItem(reply[j]) /\ reply[j].column <= Len(size)
            /\ telling = After(reply[j])
        BY <1>1, <1>3, <3>1, <3>2 DEF Chained
      <4>2. reply'[j] = reply[j] /\ reply'[j + 1] = mark
        BY <1>4, <3>1, <3>2
      <4>3. kind = "end" => reply[j] = Item("describe_end", Len(size), 0)
        <5>1. SUFFICES ASSUME kind = "end"
                       PROVE  reply[j] = Item("describe_end", Len(size), 0)
          OBVIOUS
        <5>2. After(reply[j]) = Index(Len(size) + 1) /\ reply[j] \in Items
          BY <1>3, <3>1, <4>1, <5>1
        <5>3. After(reply[j]).kind = "sqlda_seq" /\ After(reply[j]).column = Len(size) + 1
          BY <5>2 DEF Index, Item
        <5>4. reply[j].kind = "describe_end"
          BY <5>3 DEF After, Item
        <5>5. After(reply[j]).column = reply[j].column + 1 /\ reply[j].attribute = 0
          BY <4>1, <5>2, <5>4 DEF After, Index, Item, IsItem, Items
        <5>6. reply[j].column = Len(size)
          BY <1>3, <5>2, <5>3, <5>5 DEF Items
        <5>. QED BY <5>2, <5>4, <5>5, <5>6 DEF Item, Items
      <4>4. Follows(reply[j], mark)
        BY <1>3, <4>1, <4>3 DEF Follows
      <4>. QED BY <1>2, <4>2, <4>4 DEF Follows
    <3>3. CASE j # Len(reply)
      <4>1. /\ j \in 1..(Len(reply) - 1)
            /\ reply'[j] = reply[j] /\ reply'[j + 1] = reply[j + 1]
        BY <1>3, <1>4, <3>1, <3>3
      <4>2. Follows(reply[j], reply[j + 1])
        BY <1>1, <4>1 DEF Chained
      <4>. QED BY <1>2, <4>1, <4>2 DEF Follows
    <3>. QED BY <3>2, <3>3
  <2>2. reply'[Len(reply')].kind \in {"truncated", "end"}
    BY <1>3, <1>4
  <2>. QED BY <1>2, <1>4, <2>1, <2>2 DEF Chained
<1>8. FirstOK'
  <2>1. CASE reply = <<>>
    <3>1. reply'[1] = mark
      BY <1>4, <2>1
    <3>2. kind = "end" => Len(size) = 0
      <4>1. SUFFICES ASSUME kind = "end" PROVE Len(size) = 0
        OBVIOUS
      <4>2. Begins(Index(Len(size) + 1))
        BY <1>1, <2>1, <4>1 DEF FirstOK
      <4>3. Len(size) + 1 = IF Heard = 0 THEN 1 ELSE Heard
        BY <4>2 DEF Begins, Index, Item
      <4>4. Heard \in Nat /\ Heard <= Len(size)
        BY <1>1 DEF XsqldaOK, DescribeTypeOK, Heard
      <4>. QED BY <1>3, <4>3, <4>4
    <3>. QED BY <1>2, <1>3, <3>1, <3>2 DEF FirstOK
  <2>2. CASE reply # <<>>
    <3>1. Begins(reply[1]) /\ reply'[1] = reply[1]
      BY <1>1, <1>3, <1>4, <2>2 DEF FirstOK
    <3>. QED BY <1>2, <3>1 DEF FirstOK, Begins, Heard
  <2>. QED BY <2>1, <2>2
<1>. QED BY <1>5, <1>6, <1>7, <1>8 DEF DescribeInv

LEMMA CutOffInv == DescribeInv /\ CutOff => DescribeInv'
BY AnswerEnds DEF CutOff, Telling

LEMMA ToldAllInv == DescribeInv /\ ToldAll => DescribeInv'
<1> SUFFICES ASSUME DescribeInv, ToldAll PROVE DescribeInv'
  OBVIOUS
<1>1. phase = "server" /\ ~(telling.column <= Len(size)) /\ Ends("end")
  BY DEF ToldAll, Telling
<1>2. telling = Index(Len(size) + 1)
  <2>1. /\ telling \in Items /\ IsItem(telling) /\ Len(size) \in Nat
        /\ telling.column > Len(size) =>
              telling.kind = "sqlda_seq" /\ telling.column = Len(size) + 1
    BY DEF DescribeInv, DescribeTypeOK, TellingOK
  <2>. QED BY <1>1, <2>1 DEF Items, IsItem, Index, Item
<1>. QED BY <1>1, <1>2, AnswerEnds

-----------------------------------------------------------------------------
(* The client.                                                             *)

LEMMA HeaderInv == DescribeInv /\ Header => DescribeInv'
<1> SUFFICES ASSUME DescribeInv, Header PROVE DescribeInv'
  OBVIOUS
<1> USE DEF server
<1>1. DescribeTypeOK /\ TellingOK /\ Chained /\ XsqldaOK /\ FirstOK /\ HeadOK /\ DoneOK
  BY DEF DescribeInv
<1>2. /\ phase = "header" /\ phase' = "items" /\ col_index' = 1
      /\ UNCHANGED <<size, telling, room, reply, xsqlda>>
  BY DEF Header
<1>3. DescribeTypeOK' /\ TellingOK' /\ XsqldaOK' /\ FirstOK' /\ DoneOK'
  BY <1>1, <1>2 DEF DescribeTypeOK, TellingOK, XsqldaOK, FirstOK, DoneOK, Heard, Complete
<1>4. Chained'
  BY <1>1, <1>2 DEF Chained, Follows
<1>5. HeadOK'
  <2>1. \/ Begins(reply[1])
        \/ reply[1].kind = "truncated"
        \/ reply[1].kind = "end" /\ Len(size) = 0
    BY <1>1, <1>2 DEF FirstOK
  <2>2. CASE Begins(reply[1])
    BY <1>2, <2>2 DEF HeadOK, Begins, Index, Item, Heard
  <2>3. CASE reply[1].kind = "truncated"
    BY <1>2, <2>3 DEF HeadOK
  <2>4. CASE reply[1].kind = "end" /\ Len(size) = 0
    <3>1. Heard = 0
      BY <1>1, <2>4 DEF XsqldaOK, DescribeTypeOK, Heard
    <3>. QED BY <1>2, <2>4, <3>1 DEF HeadOK, Heard, Complete
  <2>. QED BY <2>1, <2>2, <2>3, <2>4
<1>. QED BY <1>3, <1>4, <1>5 DEF DescribeInv

LEMMA HeaderInvalidInv == DescribeInv /\ HeaderInvalid => DescribeInv'
BY DEF DescribeInv, HeaderInvalid, server, DescribeTypeOK, TellingOK, Chained, Follows, XsqldaOK,
       FirstOK, HeadOK, DoneOK, Heard, Complete

(* What follows an item that is no mark.                                   *)
LEMMA NextItem ==
  ASSUME DescribeInv, phase = "items", reply[1].kind \notin {"truncated", "end"}
  PROVE  /\ reply \in Seq(Items) /\ Len(reply) >= 2
         /\ reply[1] \in Items /\ reply[2] \in Items
         /\ Follows(reply[1], reply[2])
         /\ Tail(reply) \in Seq(Items) /\ Len(Tail(reply)) = Len(reply) - 1
         /\ \A j \in 1..(Len(reply) - 1) : Tail(reply)[j] = reply[j + 1]
<1>1. /\ reply \in Seq(Items) /\ reply # <<>>
      /\ reply[Len(reply)].kind \in {"truncated", "end"}
      /\ \A j \in 1..(Len(reply) - 1) : Follows(reply[j], reply[j + 1])
  BY DEF DescribeInv, DescribeTypeOK, Chained
<1> DEFINE n == Len(reply)
<1>2. n \in Nat /\ n # 0
  BY <1>1, EmptySeq
<1>3. n # 1
  BY <1>1
<1> HIDE DEF n
<1>4. n >= 2 /\ 1 \in 1..(n - 1) /\ 1 \in 1..n /\ 2 \in 1..n
  BY <1>2, <1>3
<1> USE DEF n
<1>5. reply[1] \in Items /\ reply[2] \in Items
  BY <1>1, <1>4, ElementOfSeq
<1>. QED BY <1>1, <1>2, <1>3, <1>4, <1>5, HeadTailProperties

LEMMA TailChained ==
  ASSUME DescribeInv, phase = "items", reply[1].kind \notin {"truncated", "end"},
         reply' = Tail(reply), phase' = "items", UNCHANGED size
  PROVE  Chained'
<1>1. /\ \A j \in 1..(Len(reply) - 1) : Follows(reply[j], reply[j + 1])
      /\ reply[Len(reply)].kind \in {"truncated", "end"}
  BY DEF DescribeInv, Chained
<1>2. /\ reply \in Seq(Items) /\ Len(reply) >= 2
      /\ Len(reply') = Len(reply) - 1 /\ reply' \in Seq(Items)
      /\ \A j \in 1..(Len(reply) - 1) : reply'[j] = reply[j + 1]
  BY NextItem
<1>3. ASSUME NEW j \in 1..(Len(reply') - 1)
      PROVE  Follows(reply[j], reply[j + 1])'
  <2>1. /\ j + 1 \in 1..(Len(reply) - 1)
        /\ reply'[j] = reply[j + 1] /\ reply'[j + 1] = reply[(j + 1) + 1]
    BY <1>2
  <2>2. Follows(reply[j + 1], reply[(j + 1) + 1])
    BY <1>1, <2>1
  <2>. QED BY <2>1, <2>2 DEF Follows
<1>4. reply'[Len(reply')].kind \in {"truncated", "end"} /\ reply' # <<>>
  <2> DEFINE n == Len(reply)
             m == Len(reply')
  <2>1. n \in Nat /\ n >= 2 /\ m = n - 1
    BY <1>2, LenProperties
  <2> HIDE DEF n, m
  <2>2. m \in 1..(n - 1) /\ m + 1 = n
    BY <2>1
  <2>3. reply'[m] = reply[n] /\ m # 0
    BY <1>2, <2>1, <2>2 DEF n
  <2>4. reply' # <<>>
    BY <1>2, <2>3 DEF m
  <2>. QED BY <1>1, <2>3, <2>4 DEF n, m
<1>. QED BY <1>3, <1>4 DEF Chained

LEMMA NewColumnInv == DescribeInv /\ NewColumn => DescribeInv'
<1> SUFFICES ASSUME DescribeInv, NewColumn PROVE DescribeInv'
  OBVIOUS
<1> USE DEF server
<1>0. PICK c : c = reply[1].column
  OBVIOUS
<1>1. DescribeTypeOK /\ TellingOK /\ XsqldaOK /\ HeadOK
  BY DEF DescribeInv
<1>2. /\ phase = "items" /\ reply[1].kind = "sqlda_seq"
      /\ col_index' = c /\ reply' = Tail(reply)
      /\ xsqlda' = IF c > Len(xsqlda) THEN Append(xsqlda, Unknown) ELSE xsqlda
      /\ UNCHANGED <<size, telling, room, phase>>
  <2>1. reply # <<>> => Head(reply) = reply[1]
    OBVIOUS
  <2>. QED BY <1>0, <2>1 DEF NewColumn, ParsingItem, DescribeInv, Chained
<1>3. /\ Follows(reply[1], reply[2]) /\ reply[1] \in Items /\ reply[2] \in Items
      /\ reply' \in Seq(Items) /\ reply'[1] = reply[2]
  BY <1>2, NextItem
<1>4. c \in Nat /\ c >= 1 /\ c <= Len(size) /\ Len(size) \in Nat
  <2>1. IsItem(reply[1]) /\ c <= Len(size)
    BY <1>0, <1>3 DEF Follows
  <2>2. c \in Nat
    BY <1>0, <1>3 DEF Items
  <2>3. size \in Seq([1..Attributes -> Nat])
    BY <1>1 DEF DescribeTypeOK
  <2>4. Len(size) \in Nat
    BY <2>3, LenProperties
  <2>. QED BY <1>0, <2>1, <2>2, <2>4 DEF IsItem
<1>5. \/ c = (IF Heard = 0 THEN 1 ELSE Heard)
      \/ c = Heard + 1 /\ Complete(Heard)
  BY <1>0, <1>1, <1>2 DEF HeadOK, Begins, Index, Item
<1> DEFINE A == [1..Attributes -> {<<>>} \cup (Nat \X Nat)]
<1>6. xsqlda \in Seq(A) /\ Heard = Len(xsqlda) /\ Heard \in Nat
  BY <1>1 DEF DescribeTypeOK, Heard
<1>7. Unknown \in A
  BY DEF Unknown
<1>8. /\ xsqlda' \in Seq(A) /\ Len(xsqlda') = c
      /\ \A b \in 1..Heard : xsqlda'[b] = xsqlda[b]
      /\ c > Heard => xsqlda'[c] = Unknown
  <2> HIDE DEF A
  <2>1. CASE c > Len(xsqlda)
    <3>1. /\ xsqlda' \in Seq(A) /\ Len(xsqlda') = Heard + 1
          /\ \A b \in 1..Heard : xsqlda'[b] = xsqlda[b]
          /\ xsqlda'[Heard + 1] = Unknown
      BY <1>2, <1>6, <1>7, <2>1, AppendProperties
    <3>2. c = Heard + 1
      BY <1>4, <1>5, <1>6, <2>1
    <3>. QED BY <3>1, <3>2
  <2>2. CASE ~(c > Len(xsqlda))
    BY <1>2, <1>4, <1>5, <1>6, <2>2
  <2>. QED BY <2>1, <2>2
<1>9. c > Heard => Complete(Heard)
  BY <1>4, <1>5, <1>6 DEF Complete
<1>10. DescribeTypeOK'
  BY <1>1, <1>2, <1>3, <1>4, <1>8 DEF DescribeTypeOK
<1>11. TellingOK' /\ FirstOK' /\ DoneOK'
  BY <1>1, <1>2 DEF TellingOK, FirstOK, DoneOK
<1>12. Chained'
  BY <1>2, TailChained
<1>13. XsqldaOK'
  <2>1. Complete(c - 1)'
    <3>1. ASSUME NEW b \in 1..(c - 1) PROVE xsqlda'[b] = Described(b)
      <4>1. b \in 1..Heard /\ xsqlda'[b] = xsqlda[b]
        BY <1>4, <1>5, <1>6, <1>8
      <4>2. CASE c > Heard
        BY <1>9, <4>1, <4>2 DEF Complete
      <4>3. CASE ~(c > Heard)
        <5>1. b \in 1..(Heard - 1)
          BY <1>4, <1>5, <1>6, <4>3
        <5>. QED BY <1>1, <4>1, <5>1 DEF XsqldaOK, Complete
      <4>. QED BY <4>2, <4>3
    <3>. QED BY <3>1, Zenon DEF Complete, Described
  <2>2. ASSUME NEW a \in 1..Attributes PROVE xsqlda'[c][a] \in {<<>>, <<c, a>>}
    <3>1. CASE c > Heard
      BY <1>8, <3>1 DEF Unknown
    <3>2. CASE ~(c > Heard)
      <4>1. c = Heard /\ c \in 1..Heard
        BY <1>4, <1>5, <1>6, <3>2
      <4>. QED BY <1>1, <1>4, <1>8, <4>1 DEF XsqldaOK
    <3>. QED BY <3>1, <3>2
  <2>3. Heard' = c
    BY <1>8 DEF Heard
  <2>. QED BY <1>2, <1>4, <2>1, <2>2, <2>3 DEF XsqldaOK
<1>14. HeadOK'
  <2>1. CASE reply[2].kind = "truncated"
    BY <1>3, <2>1 DEF HeadOK
  <2>2. CASE reply[2].kind # "truncated"
    <3>1. reply[2] = After(reply[1])
      BY <1>2, <1>3, <2>2 DEF Follows, Item
    <3>2. reply[1].attribute = 0
      <4>1. IsItem(reply[1])
        BY <1>3 DEF Follows
      <4>2. reply[1].attribute \in 0..Attributes
        BY <1>3 DEF Items
      <4>. QED BY <1>2, <4>1, <4>2 DEF IsItem
    <3>3. reply[2] = Item("attribute", c, 1)
      BY <1>0, <1>2, <3>1, <3>2 DEF After
    <3>4. /\ reply'[1].kind = "attribute" /\ reply'[1].column = c
          /\ reply'[1].attribute = 1
      BY <1>3, <3>3 DEF Item
    <3>5. Heard' = c /\ col_index' = c
      BY <1>2, <1>8 DEF Heard
    <3>. QED BY <3>4, <3>5 DEF HeadOK
  <2>. QED BY <2>1, <2>2
<1>. QED BY <1>10, <1>11, <1>12, <1>13, <1>14 DEF DescribeInv

LEMMA AttributeInv == DescribeInv /\ Attribute => DescribeInv'
<1> SUFFICES ASSUME DescribeInv, Attribute PROVE DescribeInv'
  OBVIOUS
<1> USE DEF server
<1>0. PICK c, a : c = reply[1].column /\ a = reply[1].attribute
  OBVIOUS
<1>1. DescribeTypeOK /\ TellingOK /\ XsqldaOK /\ HeadOK
  BY DEF DescribeInv
<1>2. /\ phase = "items" /\ reply[1].kind = "attribute" /\ reply' = Tail(reply)
      /\ xsqlda' = [xsqlda EXCEPT ![col_index][a] = <<c, a>>]
      /\ UNCHANGED <<size, telling, room, col_index, phase>>
  <2>1. reply # <<>> => Head(reply) = reply[1]
    OBVIOUS
  <2>. QED BY <1>0, <2>1 DEF Attribute, ParsingItem, DescribeInv, Chained
<1>3. /\ Follows(reply[1], reply[2]) /\ reply[1] \in Items /\ reply[2] \in Items
      /\ reply' \in Seq(Items) /\ reply'[1] = reply[2]
  BY <1>2, NextItem
<1>4. /\ c \in Nat /\ c >= 1 /\ c <= Len(size) /\ Len(size) \in Nat
      /\ a \in 1..Attributes
  <2>1. IsItem(reply[1]) /\ c <= Len(size)
    BY <1>0, <1>3 DEF Follows
  <2>2. c \in Nat /\ a \in 0..Attributes
    BY <1>0, <1>3 DEF Items
  <2>3. size \in Seq([1..Attributes -> Nat])
    BY <1>1 DEF DescribeTypeOK
  <2>4. Len(size) \in Nat
    BY <2>3, LenProperties
  <2>. QED BY <1>0, <1>2, <2>1, <2>2, <2>4 DEF IsItem
<1>5. /\ c = Heard /\ col_index = c
      /\ \A b \in 1..(a - 1) : xsqlda[c][b] = <<c, b>>
  BY <1>0, <1>1, <1>2 DEF HeadOK
<1> DEFINE A == [1..Attributes -> {<<>>} \cup (Nat \X Nat)]
<1>6. xsqlda \in Seq(A) /\ Heard = Len(xsqlda) /\ c \in 1..Len(xsqlda)
  BY <1>1, <1>4, <1>5 DEF DescribeTypeOK, Heard
<1>7. xsqlda[c] \in A
  BY <1>6, ElementOfSeq
<1> DEFINE new == [xsqlda[c] EXCEPT ![a] = <<c, a>>]
<1>8. new \in A /\ new[a] = <<c, a>> /\ \A b \in 1..Attributes : b # a => new[b] = xsqlda[c][b]
  BY <1>4, <1>7
<1>9. xsqlda' = [xsqlda EXCEPT ![c] = new]
  BY <1>2, <1>5
<1> HIDE DEF A, new
<1>10. /\ xsqlda' \in Seq(A) /\ Len(xsqlda') = Len(xsqlda)
       /\ xsqlda'[c] = new
       /\ \A b \in 1..Len(xsqlda) : b # c => xsqlda'[b] = xsqlda[b]
  BY <1>6, <1>8, <1>9, ExceptSeq
<1>11. DescribeTypeOK'
  BY <1>1, <1>2, <1>3, <1>10 DEF DescribeTypeOK, A
<1>12. TellingOK' /\ FirstOK' /\ DoneOK'
  BY <1>1, <1>2 DEF TellingOK, FirstOK, DoneOK
<1>13. Chained'
  BY <1>2, TailChained
<1>14. XsqldaOK'
  <2>1. \A b \in 1..(c - 1) : xsqlda'[b] = Described(b)
    <3>1. \A b \in 1..(c - 1) : b \in 1..Len(xsqlda) /\ b # c
      BY <1>4, <1>5, <1>6
    <3>. QED BY <1>1, <1>5, <1>10, <3>1 DEF XsqldaOK, Complete
  <2>2. ASSUME NEW b \in 1..Attributes PROVE xsqlda'[c][b] \in {<<>>, <<c, b>>}
    <3>1. CASE b = a
      BY <1>8, <1>10, <3>1
    <3>2. CASE b # a
      <4>1. xsqlda'[c][b] = xsqlda[c][b]
        BY <1>8, <1>10, <3>2
      <4>. QED BY <1>1, <1>4, <1>5, <4>1 DEF XsqldaOK
    <3>. QED BY <3>1, <3>2
  <2>. QED BY <1>1, <1>2, <1>5, <1>6, <1>10, <2>1, <2>2
           DEF XsqldaOK, Heard, Complete, Described
<1>15. \A b \in 1..a : xsqlda'[c][b] = <<c, b>>
  <2>1. \A b \in 1..a : b \in 1..Attributes /\ (b # a => b \in 1..(a - 1))
    BY <1>4
  <2>. QED BY <1>5, <1>8, <1>10, <2>1
<1>16. HeadOK'
  <2>1. CASE reply[2].kind = "truncated"
    BY <1>3, <2>1 DEF HeadOK
  <2>2. CASE reply[2].kind # "truncated"
    <3>1. reply[2] = After(reply[1])
      BY <1>2, <1>3, <2>2 DEF Follows, Item
    <3>2. CASE a = Attributes
      <4>1. reply[2] = Item("describe_end", c, 0)
        BY <1>0, <1>2, <3>1, <3>2 DEF After
      <4>2. xsqlda'[c] = Described(c)
        <5>1. xsqlda'[c] \in A
          BY <1>8, <1>10
        <5>. QED BY <1>15, <3>2, <5>1 DEF Described, A
      <4>3. Complete(Heard)'
        <5>1. ASSUME NEW b \in 1..c PROVE xsqlda'[b] = Described(b)
          <6>1. CASE b = c
            BY <4>2, <6>1
          <6>2. CASE b # c
            <7>1. b \in 1..(Heard - 1) /\ b \in 1..Len(xsqlda)
              BY <1>4, <1>5, <1>6, <6>2
            <7>. QED BY <1>1, <1>10, <6>2, <7>1 DEF XsqldaOK, Complete
          <6>. QED BY <6>1, <6>2
        <5>. QED BY <1>5, <1>6, <1>10, <5>1 DEF Complete, Heard, Described
      <4>. QED BY <1>3, <1>5, <1>6, <1>10, <4>1, <4>3 DEF HeadOK, Heard, Item
    <3>3. CASE a # Attributes
      <4>1. reply[2] = Item("attribute", c, a + 1)
        BY <1>0, <1>2, <3>1, <3>3 DEF After
      <4>2. /\ reply'[1].kind = "attribute" /\ reply'[1].column = c
            /\ reply'[1].attribute - 1 = a
        BY <1>3, <1>4, <4>1 DEF Item
      <4>3. Heard' = c /\ col_index' = c
        BY <1>2, <1>5, <1>6, <1>10 DEF Heard
      <4>4. \A b \in 1..(reply'[1].attribute - 1) : xsqlda'[Heard'][b] = <<Heard', b>>
        BY <1>15, <4>2, <4>3
      <4>. QED BY <4>2, <4>3, <4>4 DEF HeadOK, Heard
    <3>. QED BY <3>2, <3>3
  <2>. QED BY <2>1, <2>2
<1>. QED BY <1>11, <1>12, <1>13, <1>14, <1>16 DEF DescribeInv

(* Behind the end of a column comes the index of the next one, or the end  *)
(* of the answer; in either case the column is complete.                   *)
LEMMA DescribeEndInv == DescribeInv /\ DescribeEnd => DescribeInv'
<1> SUFFICES ASSUME DescribeInv, DescribeEnd PROVE DescribeInv'
  OBVIOUS
<1> USE DEF server
<1>1. DescribeTypeOK /\ TellingOK /\ XsqldaOK /\ HeadOK
  BY DEF DescribeInv
<1>2. /\ phase = "items" /\ reply[1].kind = "describe_end" /\ reply' = Tail(reply)
      /\ UNCHANGED <<size, telling, room, xsqlda, col_index, phase>>
  <2>1. reply # <<>> => Head(reply) = reply[1]
    OBVIOUS
  <2>. QED BY <2>1 DEF DescribeEnd, ParsingItem, DescribeInv, Chained
<1>3. /\ Follows(reply[1], reply[2]) /\ reply[1] \in Items
      /\ reply' \in Seq(Items) /\ reply'[1] = reply[2]
  BY <1>2, NextItem
<1>4. reply[1].column = Heard /\ Complete(Heard)
  BY <1>1, <1>2 DEF HeadOK
<1>5. Heard' = Heard /\ Complete(Heard)'
  BY <1>2, <1>4 DEF Heard, Complete, Described
<1>6. DescribeTypeOK'
  BY <1>1, <1>2, <1>3 DEF DescribeTypeOK
<1>7. TellingOK' /\ FirstOK' /\ DoneOK' /\ XsqldaOK'
  BY <1>1, <1>2 DEF TellingOK, FirstOK, DoneOK, XsqldaOK, Heard, Complete
<1>8. Chained'
  BY <1>2, TailChained
<1>9. HeadOK'
  <2>1. CASE reply[2].kind = "truncated"
    BY <1>3, <2>1 DEF HeadOK
  <2>2. CASE reply[2].kind = "end"
    <3>1. reply[2] # After(reply[1])
      BY <1>2, <2>2 DEF After, Index, Item
    <3>2. reply[1] = Item("describe_end", Len(size), 0)
      BY <1>3, <2>2, <3>1 DEF Follows
    <3>3. Heard = Len(size)
      BY <1>4, <3>2 DEF Item
    <3>4. reply'[1].kind = "end" /\ Heard' = Len(size')
      BY <1>2, <1>3, <1>5, <2>2, <3>3
    <3>. QED BY <1>5, <3>4 DEF HeadOK
  <2>3. CASE reply[2].kind \notin {"truncated", "end"}
    <3>1. reply[2] = After(reply[1])
      BY <1>3, <2>3 DEF Follows
    <3>2. After(reply[1]) = Index(reply[1].column + 1)
      BY <1>2 DEF After
    <3>3. reply'[1] = Index(Heard' + 1)
      BY <1>3, <1>4, <1>5, <3>1, <3>2
    <3>4. reply'[1].kind = "sqlda_seq" /\ reply'[1].column = Heard' + 1
      BY <3>3 DEF Index, Item
    <3>. QED BY <1>5, <3>4 DEF HeadOK
  <2>. QED BY <2>1, <2>2, <2>3
<1>. QED BY <1>6, <1>7, <1>8, <1>9 DEF DescribeInv

LEMMA DoneInv == DescribeInv /\ Done => DescribeInv'
<1> SUFFICES ASSUME DescribeInv, Done PROVE DescribeInv'
  OBVIOUS
<1> USE DEF server
<1>1. DescribeTypeOK /\ TellingOK /\ XsqldaOK /\ HeadOK
  BY DEF DescribeInv
<1>2. /\ phase = "items" /\ reply[1].kind = "end" /\ reply' = <<>> /\ phase' = "done"
      /\ UNCHANGED <<size, telling, room, xsqlda, col_index>>
  <2>1. reply # <<>> => Head(reply) = reply[1]
    OBVIOUS
  <2>. QED BY <2>1 DEF Done, ParsingItem, DescribeInv, Chained
<1>3. DoneOK'
  <2>1. Heard = Len(size) /\ Complete(Heard)
    BY <1>1, <1>2 DEF HeadOK
  <2>. QED BY <1>2, <2>1 DEF DoneOK, Heard, Complete
<1>4. DescribeTypeOK' /\ TellingOK' /\ XsqldaOK'
  BY <1>1, <1>2 DEF DescribeTypeOK, TellingOK, XsqldaOK, Heard, Complete
<1>5. Chained' /\ FirstOK' /\ HeadOK'
  BY <1>2 DEF Chained, FirstOK, HeadOK
<1>. QED BY <1>3, <1>4, <1>5 DEF DescribeInv

(* The client asks for what is missing, from its last column on.           *)
LEMMA TruncatedInv == DescribeInv /\ AnswerTruncated => DescribeInv'
<1> SUFFICES ASSUME DescribeInv, AnswerTruncated PROVE DescribeInv'
  OBVIOUS
<1> USE DEF server
<1>1. DescribeTypeOK /\ TellingOK /\ Chained /\ XsqldaOK
  BY DEF DescribeInv
<1> DEFINE first == Index(IF Heard = 0 THEN 1 ELSE Heard)
<1>2. /\ phase = "items" /\ reply' = <<>> /\ phase' = "server" /\ telling' = first
      /\ room' = Room /\ UNCHANGED <<size, xsqlda, col_index>>
  BY DEF AnswerTruncated, AskFrom, ParsingItem, Heard
<1>3. Heard \in Nat /\ Len(size) \in Nat /\ Heard <= Len(size)
  BY <1>1 DEF XsqldaOK, DescribeTypeOK, Heard
<1>4. first \in Items /\ IsItem(first)
  BY <1>3, IndexIsItem
<1>5. DescribeTypeOK'
  BY <1>1, <1>2, <1>4 DEF DescribeTypeOK
<1>6. TellingOK'
  BY <1>2, <1>3 DEF TellingOK, Index, Item
<1>7. XsqldaOK' /\ HeadOK' /\ DoneOK'
  BY <1>1, <1>2 DEF XsqldaOK, HeadOK, DoneOK, Heard, Complete
<1>8. Chained' /\ FirstOK'
  BY <1>2 DEF Chained, FirstOK, Begins, Heard
<1>. QED BY <1>5, <1>6, <1>7, <1>8 DEF DescribeInv

LEMMA DescribeStutterInv == DescribeInv /\ UNCHANGED describe_vars => DescribeInv'
BY DEF DescribeInv, describe_vars, server, DescribeTypeOK, TellingOK, Chained, Follows, XsqldaOK, FirstOK,
       Begins, HeadOK, DoneOK, Heard, Complete

-----------------------------------------------------------------------------
(* DescribeInv holds in every state of the exchange: of an answer that is cut off *)
(* anywhere, what was parsed is a prefix of the description, and the next  *)
(* question goes on with the column that the prefix ends in.               *)
THEOREM DescribeInductive == DescribeSpec => []DescribeInv
<1>1. DescribeInit => DescribeInv
  BY DescribeInitInv
<1>2. DescribeInv /\ [DescribeNext]_describe_vars => DescribeInv'
  BY TellInv, CutOffInv, ToldAllInv, HeaderInv, HeaderInvalidInv, NewColumnInv,
     AttributeInv, DescribeEndInv, DoneInv, TruncatedInv, DescribeStutterInv DEF DescribeNext
<1>. QED BY <1>1, <1>2, PTL DEF DescribeSpec

(* Every variable keeps its type.                                          *)
THEOREM DescriptionTyped == DescribeSpec => []DescribeTypeOK
<1>1. DescribeInv => DescribeTypeOK
  BY DEF DescribeInv
<1>. QED BY <1>1, DescribeInductive, PTL

LEMMA InOrder == DescribeInv => DescribedInOrder
<1> SUFFICES ASSUME DescribeInv PROVE DescribedInOrder
  OBVIOUS
<1>1. DescribeTypeOK /\ Chained /\ XsqldaOK /\ HeadOK /\ DoneOK
  BY DEF DescribeInv
<1>2. /\ xsqlda \in Seq([1..Attributes -> {<<>>} \cup (Nat \X Nat)])
      /\ Heard = Len(xsqlda) /\ Heard \in Nat /\ DOMAIN xsqlda = 1..Heard
  BY <1>1 DEF DescribeTypeOK, Heard
<1>3. ASSUME NEW c \in DOMAIN xsqlda
      PROVE  \/ xsqlda[c] = Described(c)
             \/ /\ c = Len(xsqlda)
                /\ \A a \in 1..Attributes : xsqlda[c][a] \in {<<>>, <<c, a>>}
  <2>1. CASE c = Heard
    BY <1>1, <1>2, <1>3, <2>1 DEF XsqldaOK
  <2>2. CASE c # Heard
    <3>1. c \in 1..(Heard - 1)
      BY <1>2, <2>2
    <3>. QED BY <1>1, <3>1 DEF XsqldaOK, Complete
  <2>. QED BY <2>1, <2>2
<1>4. ASSUME phase = "items", Head(reply).kind = "attribute"
      PROVE  col_index \in DOMAIN xsqlda
  <2>1. Head(reply) = reply[1]
    BY <1>1, <1>4 DEF Chained
  <2>2. reply[1].column = Heard /\ col_index = Heard
    BY <1>1, <1>4, <2>1 DEF HeadOK
  <2>3. IsItem(reply[1])
    BY <1>4, <2>1, NextItem DEF Follows
  <2>. QED BY <1>2, <2>2, <2>3 DEF IsItem
<1>5. ASSUME phase = "done"
      PROVE  xsqlda = [c \in DOMAIN size |-> Described(c)]
  <2>1. Heard = Len(size) /\ \A c \in 1..Heard : xsqlda[c] = Described(c)
    BY <1>1, <1>5 DEF DoneOK, Complete
  <2>2. DOMAIN size = 1..Heard
    BY <1>1, <2>1 DEF DescribeTypeOK
  <2>3. xsqlda = [c \in 1..Heard |-> xsqlda[c]]
    BY <1>2
  <2>. QED BY <2>1, <2>2, <2>3
<1>. QED BY <1>3, <1>4, <1>5 DEF DescribedInOrder

(* Wherever the server's answers are cut, columns are heard of in order,   *)
(* all but the last one are complete, no attribute comes for a column that *)
(* was not heard of, and what prepare_statement returns is the description *)
(* of every column in full.                                                *)
THEOREM DescriptionComplete == DescribeSpec => []DescribedInOrder
BY DescribeInductive, InOrder, PTL
=============================================================================
