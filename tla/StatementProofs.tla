---------------------------- MODULE StatementProofs ----------------------------
(***************************************************************************)
(* That Statement keeps IInv, and with it that the WHERE clause loses no   *)
(* row and that WHERE and ROWS together leave the result of the query as   *)
(* it is, for every table, projection, nesting of filters and plan.        *)
(***************************************************************************)
EXTENDS Statement, SequenceTheorems, WellFoundedInduction, TLAPS

USE FilterAssumption DEF FilterAssumption

-----------------------------------------------------------------------------
(* Induction, and the functions that are defined level by level.           *)

(* Induction over the natural numbers, with a set for the predicate.       *)
LEMMA SetInduction ==
  ASSUME NEW S, 0 \in S, \A n \in Nat : n \in S => n + 1 \in S
  PROVE  \A n \in Nat : n \in S
<1> SUFFICES ASSUME NEW n \in Nat \ S PROVE FALSE
  OBVIOUS
<1>1. PICK x \in Nat \ S : \A y \in Nat \ S : <<y, x>> \notin OpToRel(<, Nat)
  BY NatLessThanWellFounded, WFMin, Zenon
<1>2. x # 0 /\ x - 1 \in Nat /\ x - 1 < x /\ (x - 1) + 1 = x
  OBVIOUS
<1>3. <<x - 1, x>> \in OpToRel(<, Nat)
  BY <1>2 DEF OpToRel
<1>4. x - 1 \in S
  BY <1>1, <1>2, <1>3
<1>. QED BY <1>2, <1>4

(* A set of numbers has a least one.                                       *)
LEMMA LeastOf ==
  ASSUME NEW S, S \subseteq Nat, S # {}
  PROVE  Min(S) \in S /\ \A x \in S : Min(S) <= x
<1> DEFINE R == OpToRel(<, Nat)
<1>1. IsWellFoundedOn(R, Nat)
  BY NatLessThanWellFounded
<1>2. \A x, y \in Nat : x < y => <<x, y>> \in R
  BY DEF OpToRel
<1> HIDE DEF R
<1>3. PICK x \in S : \A y \in S : <<y, x>> \notin R
  <2>1. S \subseteq Nat /\ S # {}
    OBVIOUS
  <2>. QED BY <1>1, <2>1, WFMin, Zenon
<1>4. ASSUME NEW y \in S PROVE x <= y
  <2>1. x \in Nat /\ y \in Nat
    OBVIOUS
  <2>2. ~(y < x)
    BY <1>2, <1>3, <2>1, Zenon
  <2>. QED BY <2>1, <2>2
<1>. QED BY <1>4 DEF Min

LEMMA FiltersDef ==
  Filters = [d \in 0..Depth |-> IF d = 0 THEN {} ELSE FiltersOver(Filters[d - 1])]
<1> DEFINE Is(f, m) == f = [d \in 0..m |-> IF d = 0 THEN {} ELSE FiltersOver(f[d - 1])]
           S == {m \in Nat : \E f : Is(f, m)}
<1>1. 0 \in S
  <2>1. Is([d \in 0..0 |-> {}], 0)
    OBVIOUS
  <2>. QED BY <2>1
<1>2. ASSUME NEW m \in Nat, m \in S PROVE m + 1 \in S
  <2>1. PICK f : Is(f, m)
    BY <1>2
  <2> DEFINE g == [d \in 0..m + 1 |-> IF d = 0 THEN {} ELSE FiltersOver(f[d - 1])]
  <2>2. \A d \in 0..m + 1 : d # 0 => d - 1 \in 0..m /\ d - 1 \in 0..m + 1
    OBVIOUS
  <2>3. \A d \in 0..m : g[d] = f[d]
    <3>1. ASSUME NEW d \in 0..m PROVE g[d] = f[d]
      <4>1. d \in 0..m + 1
        OBVIOUS
      <4>2. g[d] = IF d = 0 THEN {} ELSE FiltersOver(f[d - 1])
        BY <4>1, Zenon
      <4>3. f[d] = IF d = 0 THEN {} ELSE FiltersOver(f[d - 1])
        BY <2>1, Zenon
      <4>. QED BY <4>2, <4>3, Zenon
    <3>. QED BY <3>1
  <2>4. Is(g, m + 1)
    BY <2>2, <2>3
  <2> HIDE DEF Is, g
  <2>. QED BY <2>4
<1> HIDE DEF S
<1>3. Depth \in S
  BY <1>1, <1>2, SetInduction
<1>4. \E f : Is(f, Depth)
  BY <1>3 DEF S
<1>5. Filters = CHOOSE f : Is(f, Depth)
  BY Zenon DEF Filters
<1> HIDE DEF Is
<1>6. Is(Filters, Depth)
  BY <1>4, <1>5, Zenon
<1>. QED BY <1>6, Zenon DEF Is

LEMMA PassesDef ==
  Passes = [d \in 0..Depth |-> IF d = 0 THEN <<>> ELSE Passing(Passes[d - 1], Filters[d])]
<1> DEFINE Is(f, m) == f = [d \in 0..m |-> IF d = 0 THEN <<>> ELSE Passing(f[d - 1], Filters[d])]
           S == {m \in Nat : \E f : Is(f, m)}
<1>1. 0 \in S
  <2>1. Is([d \in 0..0 |-> <<>>], 0)
    OBVIOUS
  <2>. QED BY <2>1
<1>2. ASSUME NEW m \in Nat, m \in S PROVE m + 1 \in S
  <2>1. PICK f : Is(f, m)
    BY <1>2
  <2> DEFINE g == [d \in 0..m + 1 |-> IF d = 0 THEN <<>> ELSE Passing(f[d - 1], Filters[d])]
  <2>2. \A d \in 0..m + 1 : d # 0 => d - 1 \in 0..m /\ d - 1 \in 0..m + 1
    OBVIOUS
  <2>3. \A d \in 0..m : g[d] = f[d]
    <3>1. ASSUME NEW d \in 0..m PROVE g[d] = f[d]
      <4>1. d \in 0..m + 1
        OBVIOUS
      <4>2. g[d] = IF d = 0 THEN <<>> ELSE Passing(f[d - 1], Filters[d])
        BY <4>1, Zenon
      <4>3. f[d] = IF d = 0 THEN <<>> ELSE Passing(f[d - 1], Filters[d])
        BY <2>1, Zenon
      <4>. QED BY <4>2, <4>3, Zenon
    <3>. QED BY <3>1
  <2>4. Is(g, m + 1)
    BY <2>2, <2>3
  <2> HIDE DEF Is, g
  <2>. QED BY <2>4
<1> HIDE DEF S
<1>3. Depth \in S
  BY <1>1, <1>2, SetInduction
<1>4. \E f : Is(f, Depth)
  BY <1>3 DEF S
<1>5. Passes = CHOOSE f : Is(f, Depth)
  BY Zenon DEF Passes
<1> HIDE DEF Is
<1>6. Is(Passes, Depth)
  BY <1>4, <1>5, Zenon
<1>. QED BY <1>6, Zenon DEF Is

LEMMA TextsDef ==
  Texts = [d \in 0..Depth |-> IF d = 0 THEN {} ELSE Seq(Tokens(Texts[d - 1]))]
<1> DEFINE Is(f, m) == f = [d \in 0..m |-> IF d = 0 THEN {} ELSE Seq(Tokens(f[d - 1]))]
           S == {m \in Nat : \E f : Is(f, m)}
<1>1. 0 \in S
  <2>1. Is([d \in 0..0 |-> {}], 0)
    OBVIOUS
  <2>. QED BY <2>1
<1>2. ASSUME NEW m \in Nat, m \in S PROVE m + 1 \in S
  <2>1. PICK f : Is(f, m)
    BY <1>2
  <2> DEFINE g == [d \in 0..m + 1 |-> IF d = 0 THEN {} ELSE Seq(Tokens(f[d - 1]))]
  <2>2. \A d \in 0..m + 1 : d # 0 => d - 1 \in 0..m /\ d - 1 \in 0..m + 1
    OBVIOUS
  <2>3. \A d \in 0..m : g[d] = f[d]
    <3>1. ASSUME NEW d \in 0..m PROVE g[d] = f[d]
      <4>1. d \in 0..m + 1
        OBVIOUS
      <4>2. g[d] = IF d = 0 THEN {} ELSE Seq(Tokens(f[d - 1]))
        BY <4>1, Zenon
      <4>3. f[d] = IF d = 0 THEN {} ELSE Seq(Tokens(f[d - 1]))
        BY <2>1, Zenon
      <4>. QED BY <4>2, <4>3, Zenon
    <3>. QED BY <3>1
  <2>4. Is(g, m + 1)
    BY <2>2, <2>3
  <2> HIDE DEF Is, g
  <2>. QED BY <2>4
<1> HIDE DEF S
<1>3. Depth \in S
  BY <1>1, <1>2, SetInduction
<1>4. \E f : Is(f, Depth)
  BY <1>3 DEF S
<1>5. Texts = CHOOSE f : Is(f, Depth)
  BY Zenon DEF Texts
<1> HIDE DEF Is
<1>6. Is(Texts, Depth)
  BY <1>4, <1>5, Zenon
<1>. QED BY <1>6, Zenon DEF Is

LEMMA HoldsDef ==
  Holds = [d \in 0..Depth |-> IF d = 0 THEN <<>> ELSE Reading(Holds[d - 1], Texts[d])]
<1> DEFINE Is(f, m) == f = [d \in 0..m |-> IF d = 0 THEN <<>> ELSE Reading(f[d - 1], Texts[d])]
           S == {m \in Nat : \E f : Is(f, m)}
<1>1. 0 \in S
  <2>1. Is([d \in 0..0 |-> <<>>], 0)
    OBVIOUS
  <2>. QED BY <2>1
<1>2. ASSUME NEW m \in Nat, m \in S PROVE m + 1 \in S
  <2>1. PICK f : Is(f, m)
    BY <1>2
  <2> DEFINE g == [d \in 0..m + 1 |-> IF d = 0 THEN <<>> ELSE Reading(f[d - 1], Texts[d])]
  <2>2. \A d \in 0..m + 1 : d # 0 => d - 1 \in 0..m /\ d - 1 \in 0..m + 1
    OBVIOUS
  <2>3. \A d \in 0..m : g[d] = f[d]
    <3>1. ASSUME NEW d \in 0..m PROVE g[d] = f[d]
      <4>1. d \in 0..m + 1
        OBVIOUS
      <4>2. g[d] = IF d = 0 THEN <<>> ELSE Reading(f[d - 1], Texts[d])
        BY <4>1, Zenon
      <4>3. f[d] = IF d = 0 THEN <<>> ELSE Reading(f[d - 1], Texts[d])
        BY <2>1, Zenon
      <4>. QED BY <4>2, <4>3, Zenon
    <3>. QED BY <3>1
  <2>4. Is(g, m + 1)
    BY <2>2, <2>3
  <2> HIDE DEF Is, g
  <2>. QED BY <2>4
<1> HIDE DEF S
<1>3. Depth \in S
  BY <1>1, <1>2, SetInduction
<1>4. \E f : Is(f, Depth)
  BY <1>3 DEF S
<1>5. Holds = CHOOSE f : Is(f, Depth)
  BY Zenon DEF Holds
<1> HIDE DEF Is
<1>6. Is(Holds, Depth)
  BY <1>4, <1>5, Zenon
<1>. QED BY <1>6, Zenon DEF Is

LEMMA TranslateFilterDef ==
  TranslateFilter = [d \in 0..Depth |-> IF d = 0 THEN <<>> ELSE Translating(TranslateFilter[d - 1], Filters[d])]
<1> DEFINE Is(f, m) == f = [d \in 0..m |-> IF d = 0 THEN <<>> ELSE Translating(f[d - 1], Filters[d])]
           S == {m \in Nat : \E f : Is(f, m)}
<1>1. 0 \in S
  <2>1. Is([d \in 0..0 |-> <<>>], 0)
    OBVIOUS
  <2>. QED BY <2>1
<1>2. ASSUME NEW m \in Nat, m \in S PROVE m + 1 \in S
  <2>1. PICK f : Is(f, m)
    BY <1>2
  <2> DEFINE g == [d \in 0..m + 1 |-> IF d = 0 THEN <<>> ELSE Translating(f[d - 1], Filters[d])]
  <2>2. \A d \in 0..m + 1 : d # 0 => d - 1 \in 0..m /\ d - 1 \in 0..m + 1
    OBVIOUS
  <2>3. \A d \in 0..m : g[d] = f[d]
    <3>1. ASSUME NEW d \in 0..m PROVE g[d] = f[d]
      <4>1. d \in 0..m + 1
        OBVIOUS
      <4>2. g[d] = IF d = 0 THEN <<>> ELSE Translating(f[d - 1], Filters[d])
        BY <4>1, Zenon
      <4>3. f[d] = IF d = 0 THEN <<>> ELSE Translating(f[d - 1], Filters[d])
        BY <2>1, Zenon
      <4>. QED BY <4>2, <4>3, Zenon
    <3>. QED BY <3>1
  <2>4. Is(g, m + 1)
    BY <2>2, <2>3
  <2> HIDE DEF Is, g
  <2>. QED BY <2>4
<1> HIDE DEF S
<1>3. Depth \in S
  BY <1>1, <1>2, SetInduction
<1>4. \E f : Is(f, Depth)
  BY <1>3 DEF S
<1>5. TranslateFilter = CHOOSE f : Is(f, Depth)
  BY Zenon DEF TranslateFilter
<1> HIDE DEF Is
<1>6. Is(TranslateFilter, Depth)
  BY <1>4, <1>5, Zenon
<1>. QED BY <1>6, Zenon DEF Is

(* The levels from the second on.                                          *)
LEMMA Levels ==
  ASSUME NEW d \in 1..Depth
  PROVE  /\ d - 1 \in 0..Depth /\ d \in 0..Depth
         /\ Filters[d] = FiltersOver(Filters[d - 1])
         /\ Passes[d] = Passing(Passes[d - 1], Filters[d])
         /\ Texts[d] = Seq(Tokens(Texts[d - 1]))
         /\ Holds[d] = Reading(Holds[d - 1], Texts[d])
         /\ TranslateFilter[d] = Translating(TranslateFilter[d - 1], Filters[d])
<1>1. d - 1 \in 0..Depth /\ d \in 0..Depth /\ d # 0
  OBVIOUS
<1>2. Filters[d] = FiltersOver(Filters[d - 1])
  BY <1>1, FiltersDef, Zenon
<1>3. Passes[d] = Passing(Passes[d - 1], Filters[d])
  BY <1>1, PassesDef, Zenon
<1>4. Texts[d] = Seq(Tokens(Texts[d - 1]))
  BY <1>1, TextsDef, Zenon
<1>5. Holds[d] = Reading(Holds[d - 1], Texts[d])
  BY <1>1, HoldsDef, Zenon
<1>6. TranslateFilter[d] = Translating(TranslateFilter[d - 1], Filters[d])
  BY <1>1, TranslateFilterDef, Zenon
<1>. QED BY <1>1, <1>2, <1>3, <1>4, <1>5, <1>6

LEMMA LevelZero == Filters[0] = {} /\ Texts[0] = {}
<1>1. 0 \in 0..Depth
  OBVIOUS
<1>2. Filters[0] = {}
  BY <1>1, FiltersDef, Zenon
<1>3. Texts[0] = {}
  BY <1>1, TextsDef, Zenon
<1>. QED BY <1>2, <1>3

-----------------------------------------------------------------------------
(* Three-valued logic.                                                     *)

LEMMA AllOfIs ==
  ASSUME NEW S \in SUBSET (0..2)
  PROVE  AllOf(S) \in 0..2 /\ (AllOf(S) = 2 <=> \A t \in S : t = 2)
<1> DEFINE T == S \cup {2}
<1>1. T \subseteq Nat /\ T # {} /\ (\A t \in T : t \in 0..2) /\ 2 \in T
  OBVIOUS
<1>2. \A t \in S : t \in T
  OBVIOUS
<1>3. AllOf(S) = Min(T)
  BY DEF AllOf
<1>4. \A t \in T : t # 2 => t \in S
  OBVIOUS
<1> HIDE DEF T
<1>5. Min(T) \in T /\ \A x \in T : Min(T) <= x
  BY <1>1, LeastOf
<1>6. Min(T) \in 0..2
  BY <1>1, <1>5
<1>7. ASSUME Min(T) = 2, NEW t \in S PROVE t = 2
  <2>1. t \in T /\ 2 <= t
    BY <1>2, <1>5, <1>7
  <2>. QED BY <1>1, <2>1
<1>8. ASSUME \A t \in S : t = 2 PROVE Min(T) = 2
  BY <1>4, <1>5, <1>8
<1>. QED BY <1>3, <1>6, <1>7, <1>8

LEMMA AnyOfIs ==
  ASSUME NEW S \in SUBSET (0..2)
  PROVE  AnyOf(S) \in 0..2 /\ (AnyOf(S) = 2 <=> 2 \in S)
<1> DEFINE T == S \cup {0}
           m == IF 2 \in T THEN 2 ELSE IF 1 \in T THEN 1 ELSE 0
<1>1. m \in T /\ \A x \in T : m >= x
  OBVIOUS
<1>2. AnyOf(S) = CHOOSE x \in T : \A y \in T : x >= y
  BY DEF AnyOf, Max
<1>3. (\A x \in T : x \in 0..2) /\ (2 \in T <=> 2 \in S)
  OBVIOUS
<1>4. AnyOf(S) \in T /\ \A y \in T : AnyOf(S) >= y
  <2> HIDE DEF T, m
  <2>. QED BY <1>1, <1>2
<1> HIDE DEF T, m
<1>5. AnyOf(S) \in 0..2
  BY <1>3, <1>4
<1>6. 2 \in T => AnyOf(S) = 2
  BY <1>3, <1>4
<1>. QED BY <1>3, <1>4, <1>5, <1>6

LEMMA TestIs ==
  ASSUME NEW f, NEW x
  PROVE  Test(f, x) \in 0..2
<1>1. \A b : Truth(b) \in 0..2
  BY DEF Truth
<1>2. ASSUME NEW op, NEW u, NEW v PROVE Compare(op, u, v) \in 0..2
  <2> DEFINE b == CASE op = "="  -> u = v [] op = "<>" -> u # v
                    [] op = "<"  -> u < v [] op = ">"  -> u > v
                    [] op = "<=" -> u <= v [] op = ">=" -> u >= v
  <2>1. Compare(op, u, v) = IF u = Null \/ v = Null THEN 1 ELSE Truth(b)
    BY Zenon DEF Compare
  <2> HIDE DEF b
  <2>. QED BY <1>1, <2>1
<1>3. ASSUME NEW list PROVE Member(x, list) \in 0..2
  <2> DEFINE S == {Compare("=", x, list[i]) : i \in DOMAIN list}
  <2>1. S \subseteq 0..2
    BY <1>2
  <2>. QED BY <2>1, AnyOfIs DEF Member
<1>. QED BY <1>1, <1>2, <1>3 DEF Test

-----------------------------------------------------------------------------
(* Texts.  A text reads true iff there is a stretch of it, between two ORs *)
(* or the ends, all tokens of which are in G: its true operands, and AND.  *)
Sat(text, G) ==
    \E a \in 0..Len(text), b \in 1..Len(text) + 1 :
        /\ a < b
        /\ a = 0 \/ text[a] = Word("OR")
        /\ b = Len(text) + 1 \/ text[b] = Word("OR")
        /\ \A i \in a + 1 .. b - 1 : text[i] \in G

Good(texts, row, below) ==
    {t \in Tokens(texts) : t = Word("AND") \/ (t.kind # "word" /\ Operand(t, row, below) = 2)}

LEMMA WordsAreWords ==
  ASSUME NEW texts
  PROVE  /\ Word("AND") \in Tokens(texts) /\ Word("OR") \in Tokens(texts)
         /\ Word("AND") # Word("OR")
         /\ \A t \in Tokens(texts) : t.kind = "word" <=> t \in {Word("AND"), Word("OR")}
<1>1. Word("AND").kind = "word" /\ Word("OR").kind = "word"
  BY DEF Word
<1>2. Word("AND").word # Word("OR").word
  BY DEF Word
<1>. QED BY <1>1, <1>2 DEF Tokens

LEMMA OperandIs ==
  ASSUME NEW texts, NEW row, NEW below, \A u \in texts : below[u][row] \in 0..2,
         NEW t \in Tokens(texts), t.kind # "word"
  PROVE  Operand(t, row, below) \in 0..2
<1>1. t.kind = "paren" => t.text \in texts
  <2>1. t \in [kind : {"predicate"}, column : Columns, test : Tests]
          \/ t \in [kind : {"paren"}, text : texts]
    BY WordsAreWords DEF Tokens
  <2>. QED BY <2>1
<1>. QED BY <1>1, TestIs DEF Operand

(* A cut and the next one.                                                 *)
LEMMA NextCut ==
  ASSUME NEW A, NEW text \in Seq(A), NEW a \in Cuts(text) \ {Len(text) + 1}
  PROVE  \E b \in 1..Len(text) + 1 :
            /\ b = Min({c \in Cuts(text) : c > a})
            /\ a \in 0..Len(text) /\ a < b
            /\ a = 0 \/ text[a] = Word("OR")
            /\ b = Len(text) + 1 \/ text[b] = Word("OR")
            /\ \A i \in a + 1 .. b - 1 : i \in 1..Len(text) /\ text[i] # Word("OR")
<1> DEFINE n == Len(text)
           S == {c \in Cuts(text) : c > a}
<1>1. n \in Nat /\ DOMAIN text = 1..n
  OBVIOUS
<1>2. \A c : c \in Cuts(text) <=> c = 0 \/ c = n + 1 \/ (c \in 1..n /\ text[c] = Word("OR"))
  BY <1>1 DEF Cuts
<1>3. a \in 0..n
  BY <1>1, <1>2
<1>4. S \subseteq Nat /\ n + 1 \in S
  BY <1>1, <1>2, <1>3
<1>5. \A c \in S : c \in Cuts(text) /\ c > a
  OBVIOUS
<1>6. \A c \in Cuts(text) : c > a => c \in S
  OBVIOUS
<1>7. Min(S) \in S /\ \A c \in S : Min(S) <= c
  BY <1>4, LeastOf
<1> DEFINE b == Min(S)
<1> HIDE DEF S, n
<1>8. b \in 1..n + 1 /\ a < b /\ (b = n + 1 \/ text[b] = Word("OR"))
  BY <1>1, <1>2, <1>3, <1>5, <1>7
<1>9. ASSUME NEW i \in a + 1 .. b - 1
      PROVE  i \in 1..n /\ text[i] # Word("OR")
  <2>1. i \in 1..n /\ i > a /\ i < b
    BY <1>1, <1>3, <1>8
  <2>2. i \notin S
    BY <1>7, <1>8, <2>1
  <2>. QED BY <1>2, <1>6, <2>1, <2>2
<1>10. a = 0 \/ text[a] = Word("OR")
  BY <1>1, <1>2 DEF n
<1>. QED BY <1>3, <1>8, <1>9, <1>10 DEF S, n

LEMMA ReadingIs ==
  ASSUME NEW texts, NEW row, NEW below, \A u \in texts : below[u][row] \in 0..2,
         NEW text \in Seq(Tokens(texts))
  PROVE  /\ Read(text, row, below) \in 0..2
         /\ Read(text, row, below) = 2 <=> Sat(text, Good(texts, row, below))
<1> DEFINE n == Len(text)
           C == Cuts(text) \ {n + 1}
           G == Good(texts, row, below)
           V(a) == {Operand(text[i], row, below) : i \in Stretch(text, a)}
           T == {AllOf(V(a)) : a \in C}
<1>1. n \in Nat /\ \A i \in 1..n : text[i] \in Tokens(texts)
  OBVIOUS
<1>2. ASSUME NEW i \in 1..n
      PROVE  /\ text[i].kind # "word" => (text[i] \in G <=> Operand(text[i], row, below) = 2)
             /\ text[i].kind = "word" => (text[i] \in G <=> text[i] # Word("OR"))
  BY <1>1, WordsAreWords DEF Good
<1>3. ASSUME NEW a \in C
      PROVE  /\ V(a) \in SUBSET (0..2)
             /\ AllOf(V(a)) \in 0..2
             /\ AllOf(V(a)) = 2 => Sat(text, G)
  <2>1. PICK b \in 1..n + 1 :
            /\ b = Min({c \in Cuts(text) : c > a})
            /\ a \in 0..n /\ a < b
            /\ a = 0 \/ text[a] = Word("OR")
            /\ b = n + 1 \/ text[b] = Word("OR")
            /\ \A i \in a + 1 .. b - 1 : i \in 1..n /\ text[i] # Word("OR")
    BY NextCut
  <2>2. Stretch(text, a) = {i \in a + 1 .. b - 1 : text[i].kind # "word"}
    BY <2>1 DEF Stretch
  <2>3. V(a) \in SUBSET (0..2)
    <3>1. ASSUME NEW i \in Stretch(text, a) PROVE Operand(text[i], row, below) \in 0..2
      <4>1. i \in 1..n /\ text[i].kind # "word"
        BY <2>1, <2>2
      <4>. QED BY <1>1, <4>1, OperandIs
    <3>. QED BY <3>1
  <2>4. AllOf(V(a)) \in 0..2 /\ (AllOf(V(a)) = 2 <=> \A t \in V(a) : t = 2)
    BY <2>3, AllOfIs
  <2>5. ASSUME AllOf(V(a)) = 2 PROVE Sat(text, G)
    <3>1. ASSUME NEW i \in a + 1 .. b - 1 PROVE text[i] \in G
      <4>1. i \in 1..n /\ text[i] # Word("OR")
        BY <2>1
      <4>2. text[i].kind # "word" => Operand(text[i], row, below) \in V(a)
        BY <2>2
      <4>. QED BY <1>2, <2>4, <2>5, <4>1, <4>2
    <3>2. a \in 0..Len(text) /\ b \in 1..Len(text) + 1
      BY <2>1
    <3> HIDE DEF G, V, C
    <3>. QED BY <2>1, <3>1, <3>2 DEF Sat
  <2>. QED BY <2>3, <2>4, <2>5
<1>4. T \in SUBSET (0..2)
  BY <1>3
<1>5. Read(text, row, below) = AnyOf(T)
  BY DEF Read
<1>6. AnyOf(T) \in 0..2 /\ (AnyOf(T) = 2 <=> 2 \in T)
  BY <1>4, AnyOfIs
<1>7. ASSUME 2 \in T PROVE Sat(text, G)
  <2>1. PICK a \in C : AllOf(V(a)) = 2
    BY <1>7
  <2>. QED BY <1>3, <2>1
<1>8. ASSUME Sat(text, G) PROVE 2 \in T
  <2>1. PICK a \in 0..n, b \in 1..n + 1 :
            /\ a < b
            /\ a = 0 \/ text[a] = Word("OR")
            /\ b = n + 1 \/ text[b] = Word("OR")
            /\ \A i \in a + 1 .. b - 1 : text[i] \in G
    BY <1>8 DEF Sat
  <2>2. a \in C /\ b \in Cuts(text) /\ b > a
    BY <1>1, <2>1 DEF Cuts
  <2>3. PICK d \in 1..n + 1 :
            /\ d = Min({c \in Cuts(text) : c > a})
            /\ a < d
            /\ d = n + 1 \/ text[d] = Word("OR")
            /\ \A i \in a + 1 .. d - 1 : i \in 1..n /\ text[i] # Word("OR")
    BY <2>2, NextCut
  <2>4. d <= b
    <3>1. CASE b = n + 1
      BY <2>3, <3>1
    <3>2. CASE b # n + 1
      <4>1. text[b] = Word("OR")
        BY <2>1, <3>2
      <4>2. b \notin a + 1 .. d - 1
        BY <2>3, <4>1
      <4>. QED BY <1>1, <2>1, <2>3, <4>2
    <3>. QED BY <3>1, <3>2
  <2>5. Stretch(text, a) = {i \in a + 1 .. d - 1 : text[i].kind # "word"}
    BY <2>3 DEF Stretch
  <2>6. ASSUME NEW i \in Stretch(text, a) PROVE Operand(text[i], row, below) = 2
    <3>1. i \in 1..n /\ text[i].kind # "word" /\ i \in a + 1 .. b - 1
      BY <1>1, <2>1, <2>3, <2>4, <2>5
    <3>. QED BY <1>2, <2>1, <3>1
  <2>7. AllOf(V(a)) = 2
    <3>1. V(a) \in SUBSET (0..2) /\ \A t \in V(a) : t = 2
      BY <1>3, <2>2, <2>6
    <3>. QED BY <3>1, AllOfIs
  <2>. QED BY <2>2, <2>7
<1>. QED BY <1>5, <1>6, <1>7, <1>8

(* Two texts that are true are true with an AND between them.  (The two    *)
(* stretches, if they meet at the AND, become one.)                        *)
LEMMA SatAnd ==
  ASSUME NEW A, NEW p \in Seq(A), NEW q \in Seq(A), NEW G, Word("AND") \in G,
         Word("AND") \in A, Sat(p, G), Sat(q, G)
  PROVE  Sat(p \o <<Word("AND")>> \o q, G)
<1> DEFINE n == Len(p)
           m == Len(q)
           r == p \o <<Word("AND")>> \o q
<1>1. /\ n \in Nat /\ m \in Nat /\ Len(r) = n + 1 + m
      /\ \A i \in 1..n : r[i] = p[i]
      /\ r[n + 1] = Word("AND")
      /\ \A i \in 1..m : r[n + 1 + i] = q[i]
  OBVIOUS
<1>2. PICK a \in 0..n, b \in 1..n + 1 :
          /\ a < b
          /\ a = 0 \/ p[a] = Word("OR")
          /\ b = n + 1 \/ p[b] = Word("OR")
          /\ \A i \in a + 1 .. b - 1 : p[i] \in G
  BY DEF Sat
<1>3. PICK c \in 0..m, d \in 1..m + 1 :
          /\ c < d
          /\ c = 0 \/ q[c] = Word("OR")
          /\ d = m + 1 \/ q[d] = Word("OR")
          /\ \A i \in c + 1 .. d - 1 : q[i] \in G
  BY DEF Sat
<1> HIDE DEF n, m, r
<1>0. /\ n \in Nat /\ m \in Nat /\ Len(r) = n + 1 + m
      /\ a \in 0..n /\ b \in 1..n + 1 /\ a < b
      /\ c \in 0..m /\ d \in 1..m + 1 /\ c < d
  BY <1>1, <1>2, <1>3
<1>4. \A i \in a + 1 .. b - 1 : i \in 1..n
  BY <1>0
<1>5. \A i \in c + 1 .. d - 1 : i \in 1..m
  BY <1>0
<1>6. a = 0 \/ r[a] = Word("OR")
  BY <1>1, <1>2
<1>7. n + 1 + d = Len(r) + 1 \/ r[n + 1 + d] = Word("OR")
  BY <1>1, <1>3
<1> SUFFICES Sat(r, G)
  BY DEF r
<1>8. CASE b # n + 1
  <2>0. b \in 1..n
    BY <1>0, <1>8
  <2>1. b \in 1..n /\ r[b] = Word("OR")
    BY <1>1, <1>2, <1>8, <2>0
  <2>2. \A i \in a + 1 .. b - 1 : r[i] \in G
    BY <1>1, <1>2, <1>4
  <2>3. a \in 0..Len(r) /\ b \in 1..Len(r) + 1
    BY <1>0
  <2>. QED BY <1>1, <1>2, <1>6, <2>1, <2>2, <2>3 DEF Sat
<1>9. CASE b = n + 1 /\ c # 0
  <2>0. c \in 1..m
    BY <1>0, <1>9
  <2>1. c \in 1..m /\ r[n + 1 + c] = Word("OR")
    BY <1>1, <1>3, <1>9, <2>0
  <2>2. ASSUME NEW i \in n + 1 + c + 1 .. n + 1 + d - 1 PROVE r[i] \in G
    <3>1. i - (n + 1) \in c + 1 .. d - 1 /\ n + 1 + (i - (n + 1)) = i
      BY <1>0
    <3>2. r[n + 1 + (i - (n + 1))] = q[i - (n + 1)]
      BY <1>1, <1>5, <3>1
    <3>. QED BY <1>3, <3>1, <3>2
  <2>3. /\ n + 1 + c \in 0..Len(r) /\ n + 1 + d \in 1..Len(r) + 1
        /\ n + 1 + c < n + 1 + d
    BY <1>0
  <2> DEFINE x == n + 1 + c
             y == n + 1 + d
  <2>4. /\ x \in 0..Len(r) /\ y \in 1..Len(r) + 1 /\ x < y
        /\ r[x] = Word("OR") /\ (y = Len(r) + 1 \/ r[y] = Word("OR"))
        /\ \A i \in x + 1 .. y - 1 : r[i] \in G
    BY <1>1, <1>7, <2>1, <2>2, <2>3
  <2> HIDE DEF x, y
  <2>. QED BY <1>1, <2>4 DEF Sat
<1>10. CASE b = n + 1 /\ c = 0
  <2>2. ASSUME NEW i \in a + 1 .. n + 1 + d - 1 PROVE r[i] \in G
    <3>1. CASE i <= n
      <4>1. i \in a + 1 .. b - 1 /\ i \in 1..n
        BY <1>0, <1>10, <3>1
      <4>. QED BY <1>1, <1>2, <4>1
    <3>2. CASE i = n + 1
      BY <1>1, <3>2
    <3>3. CASE i > n + 1
      <4>1. i - (n + 1) \in c + 1 .. d - 1 /\ n + 1 + (i - (n + 1)) = i
        BY <1>0, <1>10, <3>3
      <4>2. r[n + 1 + (i - (n + 1))] = q[i - (n + 1)]
        BY <1>1, <1>5, <4>1
      <4>. QED BY <1>3, <4>1, <4>2
    <3>. QED BY <1>0, <3>1, <3>2, <3>3
  <2> DEFINE y == n + 1 + d
  <2>3. a \in 0..Len(r) /\ y \in 1..Len(r) + 1 /\ a < y
    BY <1>0
  <2>4. y = Len(r) + 1 \/ r[y] = Word("OR")
    BY <1>7
  <2>5. \A i \in a + 1 .. y - 1 : r[i] \in G
    BY <1>1, <2>2
  <2> HIDE DEF y
  <2>. QED BY <1>1, <1>6, <2>3, <2>4, <2>5 DEF Sat
<1>. QED BY <1>1, <1>8, <1>9, <1>10

(* With one more operand behind an OR, a text is true iff it was or the    *)
(* operand is.                                                             *)
LEMMA SatOr ==
  ASSUME NEW A, NEW p \in Seq(A), NEW t \in A, NEW G, Word("OR") \notin G,
         Word("OR") \in A, t # Word("OR")
  PROVE  Sat(p \o <<Word("OR")>> \o <<t>>, G) <=> Sat(p, G) \/ t \in G
<1> DEFINE n == Len(p)
           r == p \o <<Word("OR")>> \o <<t>>
<1>1. /\ n \in Nat /\ Len(r) = n + 2
      /\ \A i \in 1..n : r[i] = p[i]
      /\ r[n + 1] = Word("OR") /\ r[n + 2] = t
  OBVIOUS
<1> HIDE DEF r
<1>2. ASSUME Sat(r, G) PROVE Sat(p, G) \/ t \in G
  <2>1. PICK a \in 0..n + 2, b \in 1..n + 3 :
            /\ a < b
            /\ a = 0 \/ r[a] = Word("OR")
            /\ b = n + 3 \/ r[b] = Word("OR")
            /\ \A i \in a + 1 .. b - 1 : r[i] \in G
    BY <1>1, <1>2 DEF Sat
  <2>2. b # n + 2
    BY <1>1, <2>1
  <2>3. CASE b = n + 3
    <3>1. a # n + 2
      BY <1>1, <2>1
    <3>2. ~(a < n + 1)
      BY <1>1, <2>1, <2>3
    <3>3. n + 2 \in a + 1 .. b - 1
      BY <1>1, <2>1, <2>3, <3>1, <3>2
    <3>. QED BY <1>1, <2>1, <3>3
  <2>4. CASE b # n + 3
    <3>1. b \in 1..n + 1 /\ a \in 0..n
      BY <1>1, <2>1, <2>2, <2>4
    <3>2. \A i \in a + 1 .. b - 1 : i \in 1..n
      BY <1>1, <3>1
    <3>3. a = 0 \/ p[a] = Word("OR")
      BY <1>1, <2>1, <3>1
    <3>4. b = n + 1 \/ p[b] = Word("OR")
      BY <1>1, <2>1, <2>4, <3>1
    <3>5. \A i \in a + 1 .. b - 1 : p[i] \in G
      BY <1>1, <2>1, <3>2
    <3>. QED BY <2>1, <3>1, <3>3, <3>4, <3>5 DEF Sat
  <2>. QED BY <2>3, <2>4
<1>3. ASSUME Sat(p, G) PROVE Sat(r, G)
  <2>1. PICK a \in 0..n, b \in 1..n + 1 :
            /\ a < b
            /\ a = 0 \/ p[a] = Word("OR")
            /\ b = n + 1 \/ p[b] = Word("OR")
            /\ \A i \in a + 1 .. b - 1 : p[i] \in G
    BY <1>3 DEF Sat
  <2> HIDE DEF n
  <2>2. \A i \in a + 1 .. b - 1 : i \in 1..n
    BY <1>1
  <2>3. a = 0 \/ r[a] = Word("OR")
    BY <1>1, <2>1
  <2>4. r[b] = Word("OR")
    BY <1>1, <2>1
  <2>5. \A i \in a + 1 .. b - 1 : r[i] \in G
    BY <1>1, <2>1, <2>2
  <2>6. a \in 0..Len(r) /\ b \in 1..Len(r) + 1
    BY <1>1
  <2>. QED BY <2>1, <2>3, <2>4, <2>5, <2>6 DEF Sat
<1>4. ASSUME t \in G PROVE Sat(r, G)
  <2>1. /\ n + 1 \in 0..Len(r) /\ n + 3 \in 1..Len(r) + 1 /\ n + 3 = Len(r) + 1
        /\ n + 1 < n + 3 /\ r[n + 1] = Word("OR")
    BY <1>1
  <2>2. \A i \in (n + 1) + 1 .. (n + 3) - 1 : i = n + 2
    BY <1>1
  <2>3. \A i \in (n + 1) + 1 .. (n + 3) - 1 : r[i] \in G
    BY <1>1, <1>4, <2>2
  <2> HIDE DEF n
  <2>. QED BY <2>1, <2>3 DEF Sat
<1>. QED BY <1>2, <1>3, <1>4 DEF r

(* A text without OR is one stretch.                                       *)
AllIn(text, G) == \A i \in 1..Len(text) : text[i] \in G

LEMMA SatPlain ==
  ASSUME NEW A, NEW text \in Seq(A), NEW G,
         \A i \in 1..Len(text) : text[i] # Word("OR")
  PROVE  Sat(text, G) <=> AllIn(text, G)
<1> DEFINE n == Len(text)
<1>1. n \in Nat
  OBVIOUS
<1>2. ASSUME Sat(text, G) PROVE AllIn(text, G)
  <2>1. PICK a \in 0..n, b \in 1..n + 1 :
            /\ a < b
            /\ a = 0 \/ text[a] = Word("OR")
            /\ b = n + 1 \/ text[b] = Word("OR")
            /\ \A i \in a + 1 .. b - 1 : text[i] \in G
    BY <1>2 DEF Sat
  <2>2. a = 0 /\ b = n + 1
    BY <1>1, <2>1
  <2>3. \A i \in 1..n : i \in a + 1 .. b - 1
    BY <1>1, <2>2
  <2>. QED BY <2>1, <2>3 DEF AllIn
<1>3. ASSUME AllIn(text, G) PROVE Sat(text, G)
  <2>1. 0 \in 0..n /\ n + 1 \in 1..n + 1 /\ 0 < n + 1
    BY <1>1
  <2>2. \A i \in 0 + 1 .. (n + 1) - 1 : text[i] \in G
    BY <1>1, <1>3 DEF AllIn
  <2>. QED BY <2>1, <2>2 DEF Sat
<1>. QED BY <1>2, <1>3

-----------------------------------------------------------------------------
(* Join: its values At on the beginnings of the parts.                     *)
Joined1(at, parts, word, i) ==
    IF parts[i] = <<>> THEN at[i - 1]
    ELSE IF at[i - 1] = <<>> THEN parts[i]
    ELSE at[i - 1] \o <<Word(word)>> \o parts[i]

Joins(at, parts, word) ==
    /\ at[0] = <<>> /\ Join(parts, word) = at[Len(parts)]
    /\ \A i \in 1..Len(parts) : at[i] = Joined1(at, parts, word, i)

LEMMA JoinAt ==
  ASSUME NEW parts, Len(parts) \in Nat, NEW word
  PROVE  \E at : Joins(at, parts, word)
<1> DEFINE Step(f, i) == IF i = 0 THEN <<>> ELSE Joined1(f, parts, word, i)
           Is(f, m) == f = [i \in 0..m |-> Step(f, i)]
           S == {m \in Nat : \E f : Is(f, m)}
<1>1. 0 \in S
  <2>1. Is([i \in 0..0 |-> <<>>], 0)
    OBVIOUS
  <2>. QED BY <2>1
<1>2. ASSUME NEW m \in Nat, m \in S PROVE m + 1 \in S
  <2>1. PICK f : Is(f, m)
    BY <1>2
  <2> DEFINE g == [i \in 0..m + 1 |-> Step(f, i)]
  <2>2. \A i \in 0..m + 1 : i # 0 => i - 1 \in 0..m
    OBVIOUS
  <2>3. \A i \in 0..m : g[i] = f[i]
    <3>1. ASSUME NEW i \in 0..m PROVE g[i] = f[i]
      <4>1. i \in 0..m + 1
        OBVIOUS
      <4>2. g[i] = Step(f, i)
        BY <4>1, Zenon
      <4>3. f[i] = Step(f, i)
        BY <2>1, Zenon
      <4>. QED BY <4>2, <4>3, Zenon
    <3>. QED BY <3>1
  <2>4. \A i \in 0..m + 1 : Step(f, i) = Step(g, i)
    BY <2>2, <2>3 DEF Joined1
  <2>5. Is(g, m + 1)
    BY <2>4
  <2> HIDE DEF Is, g
  <2>. QED BY <2>5
<1> HIDE DEF S
<1>3. Len(parts) \in S
  BY <1>1, <1>2, SetInduction
<1>4. PICK f : Is(f, Len(parts))
  BY <1>3 DEF S
<1> DEFINE At == CHOOSE g : Is(g, Len(parts))
<1>5. Is(At, Len(parts))
  <2> HIDE DEF Is
  <2>. QED BY <1>4, Zenon
<1>6. Join(parts, word) = At[Len(parts)]
  BY Zenon DEF Join, Joined1
<1> HIDE DEF At
<1>7. \A i \in 0..Len(parts) : At[i] = Step(At, i)
  BY <1>5, Zenon
<1>8. At[0] = <<>>
  BY <1>7
<1>9. \A i \in 1..Len(parts) : At[i] = Joined1(At, parts, word, i)
  BY <1>7
<1>. QED BY <1>6, <1>8, <1>9, Zenon DEF Joins

LEMMA JoinIs ==
  ASSUME NEW A, NEW parts \in Seq(Seq(A)), NEW word, Word(word) \in A,
         NEW at, Joins(at, parts, word)
  PROVE  /\ \A i \in 0..Len(parts) : at[i] \in Seq(A)
         /\ Join(parts, word) \in Seq(A)
         /\ Join(parts, word) = <<>> <=> \A i \in 1..Len(parts) : parts[i] = <<>>
<1> DEFINE n == Len(parts)
           P(i) == at[i] \in Seq(A) /\ (at[i] = <<>> <=> \A j \in 1..i : parts[j] = <<>>)
           S == {i \in Nat : i <= n => P(i)}
<1>1. n \in Nat /\ \A i \in 1..n : parts[i] \in Seq(A)
  OBVIOUS
<1>2. P(0)
  BY DEF Joins
<1>3. ASSUME NEW i \in Nat, i \in S PROVE i + 1 \in S
  <2> SUFFICES ASSUME i + 1 <= n PROVE P(i + 1)
    OBVIOUS
  <2>1. i + 1 \in 1..n /\ (i + 1) - 1 = i /\ P(i)
    BY <1>1, <1>3
  <2> DEFINE p == at[i]
             q == parts[i + 1]
             r == at[i + 1]
  <2>2. r = IF q = <<>> THEN p ELSE IF p = <<>> THEN q ELSE p \o <<Word(word)>> \o q
    BY <2>1 DEF Joins, Joined1
  <2>3. p \in Seq(A) /\ q \in Seq(A)
    BY <1>1, <2>1
  <2>4. (p = <<>> <=> \A j \in 1..i : parts[j] = <<>>)
    BY <2>1
  <2> HIDE DEF p, q, r
  <2>5. r \in Seq(A) /\ (r = <<>> <=> p = <<>> /\ q = <<>>)
    BY <2>2, <2>3
  <2>6. (\A j \in 1..i + 1 : parts[j] = <<>>) <=> (\A j \in 1..i : parts[j] = <<>>) /\ q = <<>>
    BY DEF q
  <2>. QED BY <2>4, <2>5, <2>6 DEF r
<1> HIDE DEF P
<1>4. 0 \in S
  BY <1>2
<1> HIDE DEF S
<1>5. \A i \in Nat : i \in S
  BY <1>3, <1>4, SetInduction
<1>6. \A i \in 0..n : P(i)
  BY <1>1, <1>5 DEF S
<1>7. P(n) /\ Join(parts, word) = at[n]
  BY <1>1, <1>6 DEF Joins
<1>. QED BY <1>6, <1>7 DEF P

(* The tokens of joined texts are those of the texts, and the word.        *)
LEMMA AllInIs ==
  ASSUME NEW A, NEW p \in Seq(A), NEW q \in Seq(A), NEW w \in A, NEW G, w \in G
  PROVE  AllIn(p \o <<w>> \o q, G) <=> AllIn(p, G) /\ AllIn(q, G)
<1> DEFINE n == Len(p)
           m == Len(q)
           r == p \o <<w>> \o q
<1>1. /\ n \in Nat /\ m \in Nat /\ Len(r) = n + 1 + m
      /\ \A i \in 1..n : r[i] = p[i]
      /\ r[n + 1] = w
      /\ \A i \in 1..m : r[n + 1 + i] = q[i]
  OBVIOUS
<1> HIDE DEF r
<1>2. AllIn(r, G) => AllIn(p, G)
  BY <1>1 DEF AllIn
<1>3. ASSUME AllIn(r, G), NEW i \in 1..m PROVE q[i] \in G
  <2>1. n + 1 + i \in 1..Len(r)
    BY <1>1
  <2>. QED BY <1>1, <1>3, <2>1 DEF AllIn
<1>4. ASSUME AllIn(p, G), AllIn(q, G), NEW i \in 1..Len(r) PROVE r[i] \in G
  <2>1. CASE i <= n + 1
    <3>1. i \in 1..n \/ i = n + 1
      BY <1>1, <2>1
    <3>. QED BY <1>1, <1>4, <3>1 DEF AllIn
  <2>2. CASE i > n + 1
    <3>1. i - (n + 1) \in 1..m /\ n + 1 + (i - (n + 1)) = i
      BY <1>1, <2>2
    <3>2. r[n + 1 + (i - (n + 1))] = q[i - (n + 1)]
      BY <1>1, <3>1
    <3>. QED BY <1>4, <3>1, <3>2 DEF AllIn
  <2>. QED BY <1>1, <2>1, <2>2
<1>. QED BY <1>2, <1>3, <1>4 DEF AllIn, r

LEMMA JoinAllIn ==
  ASSUME NEW A, NEW parts \in Seq(Seq(A)), NEW word, Word(word) \in A,
         NEW G, Word(word) \in G
  PROVE  AllIn(Join(parts, word), G) <=> \A i \in 1..Len(parts) : AllIn(parts[i], G)
<1> DEFINE n == Len(parts)
<1>1. n \in Nat /\ \A i \in 1..n : parts[i] \in Seq(A)
  OBVIOUS
<1>2. PICK at : Joins(at, parts, word)
  BY <1>1, JoinAt
<1>3. \A i \in 0..n : at[i] \in Seq(A)
  BY <1>2, JoinIs
<1> DEFINE P(i) == AllIn(at[i], G) <=> \A j \in 1..i : AllIn(parts[j], G)
           S == {i \in Nat : i <= n => P(i)}
<1>4. P(0)
  BY <1>2 DEF Joins, AllIn
<1>5. ASSUME NEW i \in Nat, i \in S PROVE i + 1 \in S
  <2> SUFFICES ASSUME i + 1 <= n PROVE P(i + 1)
    OBVIOUS
  <2>1. i + 1 \in 1..n /\ (i + 1) - 1 = i /\ P(i) /\ i \in 0..n
    <3>1. i + 1 \in 1..n /\ (i + 1) - 1 = i /\ i \in 0..n /\ i <= n
      BY <1>1
    <3>2. P(i)
      BY <1>5, <3>1, Zenon
    <3>. QED BY <3>1, <3>2
  <2> DEFINE p == at[i]
             q == parts[i + 1]
             r == at[i + 1]
  <2>2. r = IF q = <<>> THEN p ELSE IF p = <<>> THEN q ELSE p \o <<Word(word)>> \o q
    BY <1>2, <2>1 DEF Joins, Joined1
  <2>3. p \in Seq(A) /\ q \in Seq(A)
    BY <1>1, <1>3, <2>1
  <2>4. AllIn(p, G) <=> \A j \in 1..i : AllIn(parts[j], G)
    BY <2>1
  <2>5. (\A j \in 1..i + 1 : AllIn(parts[j], G))
          <=> (\A j \in 1..i : AllIn(parts[j], G)) /\ AllIn(q, G)
    OBVIOUS
  <2> HIDE DEF p, q
  <2>6. AllIn(p \o <<Word(word)>> \o q, G) <=> AllIn(p, G) /\ AllIn(q, G)
    BY <2>3, AllInIs
  <2>7. AllIn(<<>>, G)
    BY DEF AllIn
  <2>8. AllIn(r, G) <=> AllIn(p, G) /\ AllIn(q, G)
    <3> HIDE DEF r
    <3>. QED BY <2>2, <2>6, <2>7, Zenon
  <2>. QED BY <2>4, <2>5, <2>8
<1> HIDE DEF P
<1>6. 0 \in S
  BY <1>4
<1> HIDE DEF S
<1>7. \A i \in Nat : i \in S
  BY <1>5, <1>6, SetInduction
<1>8. P(n)
  BY <1>1, <1>7 DEF S
<1>. QED BY <1>2, <1>8 DEF P, Joins

(* True texts, joined with AND without parentheses, are true.              *)
LEMMA JoinAnd ==
  ASSUME NEW A, NEW parts \in Seq(Seq(A)), Word("AND") \in A,
         NEW G, Word("AND") \in G,
         \A i \in 1..Len(parts) : parts[i] = <<>> \/ Sat(parts[i], G)
  PROVE  Join(parts, "AND") = <<>> \/ Sat(Join(parts, "AND"), G)
<1> DEFINE n == Len(parts)
<1>1. n \in Nat /\ \A i \in 1..n : parts[i] \in Seq(A)
  OBVIOUS
<1>2. PICK at : Joins(at, parts, "AND")
  BY <1>1, JoinAt
<1>3. \A i \in 0..n : at[i] \in Seq(A)
  BY <1>2, JoinIs
<1> DEFINE P(i) == at[i] = <<>> \/ Sat(at[i], G)
           S == {i \in Nat : i <= n => P(i)}
<1>4. P(0)
  BY <1>2 DEF Joins
<1>5. ASSUME NEW i \in Nat, i \in S PROVE i + 1 \in S
  <2> SUFFICES ASSUME i + 1 <= n PROVE P(i + 1)
    OBVIOUS
  <2>1. i + 1 \in 1..n /\ (i + 1) - 1 = i /\ P(i) /\ i \in 0..n
    <3>1. i + 1 \in 1..n /\ (i + 1) - 1 = i /\ i \in 0..n /\ i <= n
      BY <1>1
    <3>2. P(i)
      BY <1>5, <3>1, Zenon
    <3>. QED BY <3>1, <3>2
  <2> DEFINE p == at[i]
             q == parts[i + 1]
             r == at[i + 1]
  <2>2. r = IF q = <<>> THEN p ELSE IF p = <<>> THEN q ELSE p \o <<Word("AND")>> \o q
    BY <1>2, <2>1 DEF Joins, Joined1
  <2>3. p \in Seq(A) /\ q \in Seq(A) /\ (p = <<>> \/ Sat(p, G)) /\ (q = <<>> \/ Sat(q, G))
    BY <1>1, <1>3, <2>1
  <2> HIDE DEF p, q
  <2>4. Sat(p, G) /\ Sat(q, G) => Sat(p \o <<Word("AND")>> \o q, G)
    BY <2>3, SatAnd
  <2>5. r = <<>> \/ Sat(r, G)
    <3> HIDE DEF r
    <3>. QED BY <2>2, <2>3, <2>4, Zenon
  <2>. QED BY <2>5
<1> HIDE DEF P
<1>6. 0 \in S
  BY <1>4
<1> HIDE DEF S
<1>7. \A i \in Nat : i \in S
  BY <1>5, <1>6, SetInduction
<1>8. P(n)
  BY <1>1, <1>7 DEF S
<1>. QED BY <1>2, <1>8 DEF P, Joins

(* Operands joined with OR are true iff one of them is.                    *)
LEMMA JoinOr ==
  ASSUME NEW A, NEW tokens \in Seq(A), tokens # <<>>, Word("OR") \in A,
         NEW G, Word("OR") \notin G, \A i \in 1..Len(tokens) : tokens[i] # Word("OR"),
         NEW parts \in Seq(Seq(A)), parts = [i \in 1..Len(tokens) |-> <<tokens[i]>>]
  PROVE  /\ Join(parts, "OR") # <<>>
         /\ Sat(Join(parts, "OR"), G) <=> \E i \in 1..Len(tokens) : tokens[i] \in G
<1> DEFINE n == Len(tokens)
<1>1. /\ n \in Nat /\ n # 0 /\ Len(parts) = n
      /\ \A i \in 1..n : parts[i] = <<tokens[i]>> /\ tokens[i] \in A
  OBVIOUS
<1>2. PICK at : Joins(at, parts, "OR")
  BY <1>1, JoinAt
<1>3. \A i \in 0..n : at[i] \in Seq(A)
  BY <1>1, <1>2, JoinIs
<1>4. \A t \in A : t # Word("OR") => (Sat(<<t>>, G) <=> t \in G)
  <2>1. ASSUME NEW t \in A, t # Word("OR") PROVE Sat(<<t>>, G) <=> t \in G
    <3>1. <<t>> \in Seq(A) /\ \A i \in 1..Len(<<t>>) : <<t>>[i] # Word("OR")
      BY <2>1
    <3>2. Sat(<<t>>, G) <=> AllIn(<<t>>, G)
      BY <3>1, SatPlain
    <3>. QED BY <3>2 DEF AllIn
  <2>. QED BY <2>1
<1> DEFINE Some(i) == \E j \in 1..i : tokens[j] \in G
           P(i) == /\ at[i] = <<>> <=> i = 0
                   /\ i # 0 => (Sat(at[i], G) <=> Some(i))
           S == {i \in Nat : i <= n => P(i)}
<1>5. P(0)
  BY <1>2 DEF Joins
<1>6. ASSUME NEW i \in Nat, i \in S PROVE i + 1 \in S
  <2> SUFFICES ASSUME i + 1 <= n PROVE P(i + 1)
    OBVIOUS
  <2>1. i + 1 \in 1..n /\ (i + 1) - 1 = i /\ P(i) /\ i \in 0..n /\ i + 1 # 0
    BY <1>1, <1>6
  <2> DEFINE p == at[i]
             t == tokens[i + 1]
             r == at[i + 1]
  <2>2. r = IF p = <<>> THEN <<t>> ELSE p \o <<Word("OR")>> \o <<t>>
    <3>1. r = IF parts[i + 1] = <<>> THEN p ELSE IF p = <<>> THEN parts[i + 1]
              ELSE p \o <<Word("OR")>> \o parts[i + 1]
      <4>1. at[i + 1] = Joined1(at, parts, "OR", i + 1)
        BY <1>1, <1>2, <2>1 DEF Joins
      <4>. QED BY <2>1, <4>1 DEF Joined1
    <3>2. parts[i + 1] = <<t>> /\ <<t>> # <<>>
      BY <1>1, <2>1
    <3> HIDE DEF p, t, r
    <3>. QED BY <3>1, <3>2
  <2>3. p \in Seq(A) /\ t \in A /\ t # Word("OR")
    BY <1>1, <1>3, <2>1
  <2>4. (p = <<>> <=> i = 0) /\ (i # 0 => (Sat(p, G) <=> Some(i)))
    BY <2>1
  <2>5. Some(i + 1) <=> Some(i) \/ t \in G
    BY <2>1
  <2>6. ~Some(0)
    OBVIOUS
  <2> HIDE DEF p, t, r, Some
  <2>7. Sat(p \o <<Word("OR")>> \o <<t>>, G) <=> Sat(p, G) \/ t \in G
    BY <2>3, SatOr
  <2>8. r # <<>>
    BY <2>2, <2>3
  <2>9. Sat(<<t>>, G) <=> t \in G
    BY <1>4, <2>3
  <2>10. Sat(r, G) <=> Some(i + 1)
    <3>1. CASE i = 0
      BY <2>2, <2>4, <2>5, <2>6, <2>9, <3>1
    <3>2. CASE i # 0
      BY <2>2, <2>4, <2>5, <2>7, <3>2
    <3>. QED BY <3>1, <3>2
  <2>. QED BY <2>1, <2>8, <2>10 DEF r
<1> HIDE DEF P
<1>7. 0 \in S
  BY <1>5
<1> HIDE DEF S
<1>8. \A i \in Nat : i \in S
  BY <1>6, <1>7, SetInduction
<1>9. P(n)
  BY <1>1, <1>8 DEF S
<1>. QED BY <1>1, <1>2, <1>9 DEF P, Joins

-----------------------------------------------------------------------------
(* Filters, and what they come to on each level.                           *)
LEMMA FilterIs ==
  ASSUME NEW d \in 1..Depth, NEW f \in Filters[d]
  PROVE  /\ f.child_filters \in Seq(Filters[d - 1])
         /\ f.filter_type = "CONJUNCTION_OR" => f.child_filters # <<>>
         /\ f.filter_type \notin Conjunctions => f \in FiltersOver({})
<1>1. f \in FiltersOver(Filters[d - 1])
  BY Levels
<1>2. /\ f \in [filter_type : STRING, child_filters : Seq(Filters[d - 1]),
                comparison_type : STRING, values : Seq(Cells)]
      /\ f.filter_type \notin Conjunctions => f.child_filters = <<>>
      /\ f.filter_type = "CONJUNCTION_OR" => f.child_filters # <<>>
  BY <1>1, Zenon DEF FiltersOver
<1>3. ASSUME f.filter_type \notin Conjunctions PROVE f \in FiltersOver({})
  <2>1. f \in [filter_type : STRING, child_filters : Seq({}),
               comparison_type : STRING, values : Seq(Cells)]
    BY <1>2, <1>3
  <2>2. f.filter_type # "CONJUNCTION_OR"
    BY <1>3 DEF Conjunctions
  <2>. QED BY <1>2, <2>1, <2>2 DEF FiltersOver
<1>. QED BY <1>2, <1>3

(* The truths of a filter's children for a value.                          *)
Truths(d, f, x) == {Passes[d - 1][f.child_filters[i]][x] : i \in DOMAIN f.child_filters}

LEMMA PassLevel ==
  ASSUME NEW d \in 1..Depth, NEW f \in Filters[d], NEW x \in Cells
  PROVE  /\ f.filter_type = "CONJUNCTION_AND" => Passes[d][f][x] = AllOf(Truths(d, f, x))
         /\ f.filter_type = "CONJUNCTION_OR"  => Passes[d][f][x] = AnyOf(Truths(d, f, x))
         /\ f.filter_type \notin Conjunctions => Passes[d][f][x] = Test(f, x)
<1> DEFINE T == Truths(d, f, x)
           V == Pass(f, x, Passes[d - 1])
<1>1. Passes[d] = Passing(Passes[d - 1], Filters[d])
  BY Levels
<1>2. Passes[d][f][x] = V
  <2>1. Passes[d][f] = [y \in Cells |-> Pass(f, y, Passes[d - 1])]
    BY <1>1 DEF Passing
  <2>. QED BY <2>1
<1>3. V = CASE f.filter_type = "CONJUNCTION_AND" -> AllOf(T)
            [] f.filter_type = "CONJUNCTION_OR"  -> AnyOf(T)
            [] OTHER                             -> Test(f, x)
  BY Zenon DEF Pass, Truths
<1> HIDE DEF T, V
<1>4. /\ f.filter_type = "CONJUNCTION_AND" => V = AllOf(T)
      /\ f.filter_type = "CONJUNCTION_OR"  => V = AnyOf(T)
      /\ f.filter_type \notin Conjunctions => V = Test(f, x)
  BY <1>3 DEF Conjunctions
<1>. QED BY <1>2, <1>4, Zenon DEF T

LEMMA PassesIn ==
  ASSUME NEW d \in 0..Depth, NEW f \in Filters[d], NEW x \in Cells
  PROVE  Passes[d][f][x] \in 0..2
<1> DEFINE P(n) == \A g \in Filters[n] : Passes[n][g][x] \in 0..2
           S == {n \in Nat : n <= Depth => P(n)}
<1>1. P(0)
  BY LevelZero
<1>2. ASSUME NEW n \in Nat, n \in S PROVE n + 1 \in S
  <2> SUFFICES ASSUME n + 1 <= Depth PROVE P(n + 1)
    OBVIOUS
  <2>1. n + 1 \in 1..Depth /\ (n + 1) - 1 = n /\ n <= Depth
    OBVIOUS
  <2>2. P(n)
    BY <1>2, <2>1, Zenon
  <2> SUFFICES ASSUME NEW g \in Filters[n + 1] PROVE Passes[n + 1][g][x] \in 0..2
    OBVIOUS
  <2>3. g.child_filters \in Seq(Filters[n])
    BY <2>1, FilterIs
  <2>4. Truths(n + 1, g, x) \in SUBSET (0..2)
    <3>1. ASSUME NEW i \in DOMAIN g.child_filters
          PROVE  Passes[n][g.child_filters[i]][x] \in 0..2
      <4>1. g.child_filters[i] \in Filters[n]
        BY <2>3
      <4>. QED BY <2>2, <4>1
    <3>. QED BY <2>1, <3>1 DEF Truths
  <2>5. AllOf(Truths(n + 1, g, x)) \in 0..2 /\ AnyOf(Truths(n + 1, g, x)) \in 0..2
    BY <2>4, AllOfIs, AnyOfIs
  <2>6. Test(g, x) \in 0..2
    BY TestIs
  <2>. QED BY <2>1, <2>5, <2>6, PassLevel DEF Conjunctions
<1> HIDE DEF P
<1>3. 0 \in S
  BY <1>1
<1> HIDE DEF S
<1>4. \A n \in Nat : n \in S
  BY <1>2, <1>3, SetInduction
<1>5. P(d)
  BY <1>4 DEF S
<1>. QED BY <1>5 DEF P

(* For a row, the true operands of a text of level d, and AND.             *)
GoodOf(d, row) == Good(Texts[d - 1], row, Holds[d - 1])

LEMMA HoldsIn ==
  ASSUME NEW d \in 0..Depth, NEW text \in Texts[d], NEW row \in Rows
  PROVE  Holds[d][text][row] \in 0..2
<1> DEFINE P(n) == \A u \in Texts[n] : Holds[n][u][row] \in 0..2
           S == {n \in Nat : n <= Depth => P(n)}
<1>1. P(0)
  BY LevelZero
<1>2. ASSUME NEW n \in Nat, n \in S PROVE n + 1 \in S
  <2> SUFFICES ASSUME n + 1 <= Depth PROVE P(n + 1)
    OBVIOUS
  <2>1. n + 1 \in 1..Depth /\ (n + 1) - 1 = n /\ n <= Depth
    OBVIOUS
  <2>2. P(n)
    BY <1>2, <2>1, Zenon
  <2> SUFFICES ASSUME NEW u \in Texts[n + 1] PROVE Holds[n + 1][u][row] \in 0..2
    OBVIOUS
  <2>3. Holds[n + 1] = Reading(Holds[n], Texts[n + 1]) /\ u \in Seq(Tokens(Texts[n]))
    BY <2>1, Levels
  <2>4. Holds[n + 1][u] = [y \in Rows |-> Read(u, y, Holds[n])]
    BY <2>3 DEF Reading
  <2>5. Holds[n + 1][u][row] = Read(u, row, Holds[n])
    BY <2>4
  <2>6. Read(u, row, Holds[n]) \in 0..2
    BY <2>2, <2>3, ReadingIs
  <2>. QED BY <2>5, <2>6
<1> HIDE DEF P
<1>3. 0 \in S
  BY <1>1
<1> HIDE DEF S
<1>4. \A n \in Nat : n \in S
  BY <1>2, <1>3, SetInduction
<1>5. P(d)
  BY <1>4 DEF S
<1>. QED BY <1>5 DEF P

LEMMA HoldsLevel ==
  ASSUME NEW d \in 1..Depth, NEW text \in Texts[d], NEW row \in Rows
  PROVE  Holds[d][text][row] = 2 <=> Sat(text, GoodOf(d, row))
<1>1. Holds[d] = Reading(Holds[d - 1], Texts[d]) /\ text \in Seq(Tokens(Texts[d - 1]))
  BY Levels
<1>2. Holds[d][text][row] = Read(text, row, Holds[d - 1])
  <2>1. Holds[d][text] = [y \in Rows |-> Read(text, y, Holds[d - 1])]
    BY <1>1 DEF Reading
  <2>. QED BY <2>1
<1>3. \A u \in Texts[d - 1] : Holds[d - 1][u][row] \in 0..2
  BY Levels, HoldsIn
<1>. QED BY <1>1, <1>2, <1>3, ReadingIs DEF GoodOf

-----------------------------------------------------------------------------
(* A text says what its filter says, and what is skipped is always true.   *)
Says(d, f, col, t) ==
    \/ t = Threw
    \/ t = Skipped /\ \A x \in Cells : Passes[d][f][x] = 2
    \/ \E text \in Texts[d] \ {<<>>} :
          /\ t = Clause(text)
          /\ \A row \in Rows : Holds[d][text][row] = 2 <=> Passes[d][f][row[col]] = 2

(* A text of one predicate.                                                *)
LEMMA OnePredicate ==
  ASSUME NEW d \in 1..Depth, NEW f \in Filters[d], NEW col \in Columns,
         f.filter_type \notin Conjunctions, NEW test \in Tests,
         \A x \in Cells : IF test.filter_type = "FALSE" THEN Test(f, x) # 2
                          ELSE Test(test, x) = Test(f, x)
  PROVE  Says(d, f, col, Clause(<<Predicate(col, test)>>))
<1> DEFINE tok == Predicate(col, test)
           A == Tokens(Texts[d - 1])
<1>1. tok \in [kind : {"predicate"}, column : Columns, test : Tests]
  BY DEF Predicate
<1>2. tok \in A
  BY <1>1 DEF Tokens
<1>3. tok.kind = "predicate" /\ tok.column = col /\ tok.test = test
  BY DEF Predicate
<1> HIDE DEF tok
<1>4. tok # Word("OR") /\ tok # Word("AND")
  BY <1>3 DEF Word
<1>5. <<tok>> \in Texts[d] /\ <<tok>> # <<>>
  <2>1. <<tok>> \in Seq(A) /\ <<tok>> # <<>>
    BY <1>2
  <2>. QED BY <2>1, Levels
<1>6. ASSUME NEW row \in Rows
      PROVE  Holds[d][<<tok>>][row] = 2 <=> Passes[d][f][row[col]] = 2
  <2>1. row[col] \in Cells
    BY DEF Rows
  <2>2. Passes[d][f][row[col]] = Test(f, row[col])
    BY <2>1, PassLevel
  <2>3. Sat(<<tok>>, GoodOf(d, row)) <=> tok \in GoodOf(d, row)
    <3>1. <<tok>> \in Seq(A) /\ \A i \in 1..Len(<<tok>>) : <<tok>>[i] # Word("OR")
      BY <1>2, <1>4
    <3>2. Sat(<<tok>>, GoodOf(d, row)) <=> AllIn(<<tok>>, GoodOf(d, row))
      BY <3>1, SatPlain
    <3>. QED BY <3>2 DEF AllIn
  <2>4. tok \in GoodOf(d, row) <=> Operand(tok, row, Holds[d - 1]) = 2
    BY <1>2, <1>3, <1>4 DEF GoodOf, Good
  <2>5. Operand(tok, row, Holds[d - 1]) = 2 <=> Test(f, row[col]) = 2
    BY <1>3, <2>1 DEF Operand
  <2>. QED BY <1>5, <2>2, <2>3, <2>4, <2>5, HoldsLevel
<1>. QED BY <1>5, <1>6 DEF Says, tok

(* The parts of a conjunction that are joined, of its translated children. *)
PartOf(children, i) == IF children[i] = Skipped THEN <<>> ELSE <<Paren(children[i].text)>>
PartsOf(children) == [i \in DOMAIN children |-> PartOf(children, i)]

(* The children of a filter, translated.                                   *)
ChildrenOf(d, f, col) ==
    [i \in DOMAIN f.child_filters |-> TranslateFilter[d - 1][f.child_filters[i]][col]]

LEMMA ClauseIs ==
  /\ Skipped # Threw
  /\ \A text : Clause(text) # Skipped /\ Clause(text) # Threw /\ Clause(text).text = text
<1>1. /\ Skipped.result = "skipped" /\ Threw.result = "threw"
      /\ \A text : Clause(text).result = "clause" /\ Clause(text).text = text
  BY DEF Skipped, Threw, Clause
<1>. QED BY <1>1

LEMMA ParenIs ==
  ASSUME NEW texts, NEW text \in texts
  PROVE  /\ Paren(text) \in Tokens(texts)
         /\ Paren(text) # Word("OR") /\ Paren(text) # Word("AND")
         /\ \A row, below : Paren(text) \in Good(texts, row, below) <=> below[text][row] = 2
<1>1. Paren(text) \in [kind : {"paren"}, text : texts]
  BY DEF Paren
<1>2. Paren(text) \in Tokens(texts)
  BY <1>1 DEF Tokens
<1>3. Paren(text).kind = "paren" /\ Paren(text).text = text
  BY DEF Paren
<1>4. Paren(text) # Word("OR") /\ Paren(text) # Word("AND")
  BY <1>3 DEF Word
<1>5. \A row, below : Operand(Paren(text), row, below) = below[text][row]
  BY <1>3 DEF Operand
<1>. QED BY <1>2, <1>3, <1>4, <1>5 DEF Good

(* What is known of the children, by their number.                         *)
LEMMA ChildrenSay ==
  ASSUME NEW d \in 1..Depth, NEW f \in Filters[d], NEW col \in Columns,
         \A g \in Filters[d - 1] : Says(d - 1, g, col, TranslateFilter[d - 1][g][col])
  PROVE  /\ f.child_filters \in Seq(Filters[d - 1])
         /\ Len(f.child_filters) \in Nat
         /\ DOMAIN f.child_filters = 1..Len(f.child_filters)
         /\ DOMAIN ChildrenOf(d, f, col) = 1..Len(f.child_filters)
         /\ \A i \in 1..Len(f.child_filters) :
              Says(d - 1, f.child_filters[i], col, ChildrenOf(d, f, col)[i])
<1>1. f.child_filters \in Seq(Filters[d - 1])
  BY FilterIs
<1>2. /\ Len(f.child_filters) \in Nat /\ DOMAIN f.child_filters = 1..Len(f.child_filters)
      /\ \A i \in 1..Len(f.child_filters) : f.child_filters[i] \in Filters[d - 1]
  BY <1>1
<1>3. DOMAIN ChildrenOf(d, f, col) = 1..Len(f.child_filters)
  BY <1>2 DEF ChildrenOf
<1>4. \A i \in 1..Len(f.child_filters) :
        ChildrenOf(d, f, col)[i] = TranslateFilter[d - 1][f.child_filters[i]][col]
  BY <1>2 DEF ChildrenOf
<1>. QED BY <1>1, <1>2, <1>3, <1>4, Zenon

(* For a row, the part of a child holds iff the child passes.              *)
PartOK(d, g, col, t) ==
    /\ t = Skipped => \A x \in Cells : Passes[d - 1][g][x] = 2
    /\ t # Skipped =>
         /\ t.text \in Texts[d - 1]
         /\ \A row \in Rows : Paren(t.text) \in GoodOf(d, row)
                                <=> Passes[d - 1][g][row[col]] = 2

LEMMA PartSays ==
  ASSUME NEW d \in 1..Depth, NEW g \in Filters[d - 1], NEW col \in Columns,
         NEW t, t # Threw, Says(d - 1, g, col, t)
  PROVE  PartOK(d, g, col, t)
<1> USE DEF PartOK
<1>1. CASE t = Skipped
  <2>1. \A text : t # Clause(text)
    BY <1>1, ClauseIs
  <2>2. \A x \in Cells : Passes[d - 1][g][x] = 2
    BY <2>1, Zenon DEF Says
  <2>. QED BY <1>1, <2>2
<1>2. CASE t # Skipped
  <2>1. PICK text \in Texts[d - 1] \ {<<>>} :
          /\ t = Clause(text)
          /\ \A row \in Rows : Holds[d - 1][text][row] = 2
                                 <=> Passes[d - 1][g][row[col]] = 2
    BY <1>2, Zenon DEF Says
  <2>2. t.text = text /\ text \in Texts[d - 1]
    BY <2>1, ClauseIs
  <2>3. \A row \in Rows : Paren(text) \in GoodOf(d, row) <=> Holds[d - 1][text][row] = 2
    <3>1. \A row, below : Paren(text) \in Good(Texts[d - 1], row, below) <=> below[text][row] = 2
      BY <2>2, ParenIs
    <3>. QED BY <3>1 DEF GoodOf
  <2>. QED BY <1>2, <2>1, <2>2, <2>3, Zenon
<1>. QED BY <1>1, <1>2

LEMMA OneToken ==
  ASSUME NEW A, NEW t \in A
  PROVE  /\ <<t>> \in Seq(A) /\ <<t>> # <<>>
         /\ \A G : AllIn(<<t>>, G) <=> t \in G
         /\ \A G : AllIn(<<>>, G)
BY DEF AllIn

LEMMA ConjunctionSays ==
  ASSUME NEW d \in 1..Depth, NEW f \in Filters[d], NEW col \in Columns,
         f.filter_type = "CONJUNCTION_AND",
         \A g \in Filters[d - 1] : Says(d - 1, g, col, TranslateFilter[d - 1][g][col]),
         Threw \notin Range(ChildrenOf(d, f, col))
  PROVE  Says(d, f, col, Conjoined(ChildrenOf(d, f, col), "AND"))
<1> DEFINE n == Len(f.child_filters)
           c == ChildrenOf(d, f, col)
           A == Tokens(Texts[d - 1])
           parts == PartsOf(c)
           text == Join(parts, "AND")
           child(i) == f.child_filters[i]
<1>0. /\ f.child_filters \in Seq(Filters[d - 1])
      /\ n \in Nat /\ DOMAIN f.child_filters = 1..n /\ DOMAIN c = 1..n
      /\ \A i \in 1..n : Says(d - 1, child(i), col, c[i])
  BY ChildrenSay
<1>1. /\ n \in Nat /\ DOMAIN f.child_filters = 1..n /\ DOMAIN c = 1..n
      /\ \A i \in 1..n : child(i) \in Filters[d - 1] /\ Says(d - 1, child(i), col, c[i])
  <2>1. \A i \in 1..n : child(i) \in Filters[d - 1]
    BY <1>0
  <2>. QED BY <1>0, <2>1
<1>2. \A i \in 1..n : c[i] # Threw
  BY <1>1 DEF Range
<1>3. ASSUME NEW i \in 1..n
      PROVE  /\ c[i] = Skipped => \A x \in Cells : Passes[d - 1][child(i)][x] = 2
             /\ c[i] # Skipped =>
                  /\ c[i].text \in Texts[d - 1]
                  /\ \A row \in Rows : Paren(c[i].text) \in GoodOf(d, row)
                                         <=> Passes[d - 1][child(i)][row[col]] = 2
  <2> HIDE DEF c, child, n
  <2>1. child(i) \in Filters[d - 1] /\ Says(d - 1, child(i), col, c[i]) /\ c[i] # Threw
    BY <1>1, <1>2
  <2>2. PartOK(d, child(i), col, c[i])
    BY <2>1, PartSays
  <2>. QED BY <2>2, Zenon DEF PartOK
<1>4. Conjoined(c, "AND") = IF text = <<>> THEN Skipped ELSE Clause(text)
  BY Zenon DEF Conjoined, PartsOf, PartOf
<1> DEFINE One(i) == <<Paren(c[i].text)>>
<1>5. DOMAIN parts = 1..n /\ \A i \in 1..n : parts[i] = PartOf(c, i)
  BY <1>1 DEF PartsOf
<1> HIDE DEF c, child, parts, n
<1>6. /\ Word("AND") \in A /\ Word("OR") \in A /\ Word("AND") # Word("OR")
      /\ \A row : Word("AND") \in GoodOf(d, row)
  BY WordsAreWords, Zenon DEF GoodOf, Good
<1>7. \A i \in 1..n : parts[i] = IF c[i] = Skipped THEN <<>> ELSE One(i)
  BY <1>5, Zenon DEF PartOf
<1>8. ASSUME NEW i \in 1..n, c[i] # Skipped
      PROVE  /\ One(i) \in Seq(A) /\ One(i) # <<>> /\ AllIn(One(i), A \ {Word("OR")})
             /\ \A G : AllIn(One(i), G) <=> Paren(c[i].text) \in G
  <2>1. Paren(c[i].text) \in A /\ Paren(c[i].text) # Word("OR")
    BY <1>3, <1>8, ParenIs
  <2> HIDE DEF A
  <2>. QED BY <2>1, OneToken
<1> HIDE DEF A, One
<1>9. parts \in Seq(Seq(A)) /\ Len(parts) = n
  <2>1. \A i \in 1..n : parts[i] \in Seq(A)
    <3>1. <<>> \in Seq(A)
      OBVIOUS
    <3>. QED BY <1>7, <1>8, <3>1, Zenon
  <2>2. parts = [i \in 1..n |-> PartOf(c, i)]
    BY <1>1, Zenon DEF PartsOf, parts
  <2>3. \A i \in 1..n : PartOf(c, i) \in Seq(A)
    BY <1>5, <2>1
  <2>4. parts \in [1..n -> Seq(A)] /\ DOMAIN parts = 1..n
    BY <2>2, <2>3
  <2>. QED BY <1>1, <2>4
<1>10. text \in Seq(A) /\ (text = <<>> <=> \A i \in 1..n : parts[i] = <<>>)
  <2>1. PICK at : Joins(at, parts, "AND")
    BY <1>1, <1>9, JoinAt
  <2>2. text \in Seq(A) /\ (text = <<>> <=> \A i \in 1..Len(parts) : parts[i] = <<>>)
    BY <1>6, <1>9, <2>1, JoinIs
  <2>3. 1..n = 1..Len(parts)
    BY <1>9
  <2> HIDE DEF text
  <2>. QED BY <2>2, <2>3, Zenon
<1>11. \A i \in 1..n : parts[i] = <<>> <=> c[i] = Skipped
  BY <1>7, <1>8
<1>12. ASSUME NEW x \in Cells
       PROVE  Passes[d][f][x] = 2 <=> \A i \in 1..n : Passes[d - 1][child(i)][x] = 2
  <2>1. Truths(d, f, x) = {Passes[d - 1][child(i)][x] : i \in 1..n}
    BY <1>1 DEF Truths, child
  <2>2. \A i \in 1..n : Passes[d - 1][child(i)][x] \in 0..2
    BY <1>1, Levels, PassesIn
  <2>3. Truths(d, f, x) \in SUBSET (0..2)
    BY <2>1, <2>2
  <2>4. Passes[d][f][x] = AllOf(Truths(d, f, x))
    BY PassLevel
  <2>5. AllOf(Truths(d, f, x)) = 2 <=> \A t \in Truths(d, f, x) : t = 2
    BY <2>3, AllOfIs
  <2>6. (\A t \in Truths(d, f, x) : t = 2)
          <=> \A i \in 1..n : Passes[d - 1][child(i)][x] = 2
    BY <2>1
  <2>. QED BY <2>4, <2>5, <2>6
<1>13. CASE text = <<>>
  <2>1. \A i \in 1..n : c[i] = Skipped
    BY <1>10, <1>11, <1>13
  <2>2. \A x \in Cells : Passes[d][f][x] = 2
    BY <1>3, <1>12, <2>1
  <2>. QED BY <1>4, <1>13, <2>2 DEF Says, c
<1>14. CASE text # <<>>
  <2>1. text \in Texts[d] \ {<<>>}
    BY <1>10, <1>14, Levels DEF A
  <2>2. AllIn(text, A \ {Word("OR")})
    <3>1. \A i \in 1..n : AllIn(parts[i], A \ {Word("OR")})
      <4>1. AllIn(<<>>, A \ {Word("OR")})
        BY DEF AllIn
      <4>. QED BY <1>7, <1>8, <4>1, Zenon
    <3>. QED BY <1>6, <1>9, <3>1, JoinAllIn
  <2>3. \A i \in 1..Len(text) : text[i] # Word("OR")
    BY <2>2 DEF AllIn
  <2>4. ASSUME NEW row \in Rows
        PROVE  Holds[d][text][row] = 2 <=> Passes[d][f][row[col]] = 2
    <3>1. row[col] \in Cells
      BY DEF Rows
    <3>2. Holds[d][text][row] = 2 <=> AllIn(text, GoodOf(d, row))
      BY <1>10, <2>1, <2>3, HoldsLevel, SatPlain
    <3>3. AllIn(text, GoodOf(d, row)) <=> \A i \in 1..n : AllIn(parts[i], GoodOf(d, row))
      BY <1>6, <1>9, JoinAllIn
    <3>4. ASSUME NEW i \in 1..n
          PROVE  AllIn(parts[i], GoodOf(d, row)) <=> Passes[d - 1][child(i)][row[col]] = 2
      <4>1. CASE c[i] = Skipped
        <5>1. parts[i] = <<>>
          BY <1>7, <4>1
        <5>2. AllIn(parts[i], GoodOf(d, row))
          BY <5>1 DEF AllIn
        <5>. QED BY <1>3, <3>1, <4>1, <5>2
      <4>2. CASE c[i] # Skipped
        <5>1. parts[i] = One(i)
          BY <1>7, <4>2
        <5>. QED BY <1>3, <1>8, <4>2, <5>1
      <4>. QED BY <4>1, <4>2
    <3>. QED BY <1>12, <3>1, <3>2, <3>3, <3>4
  <2> HIDE DEF text
  <2>. QED BY <1>4, <1>14, <2>1, <2>4 DEF Says, c
<1>. QED BY <1>13, <1>14

LEMMA DisjunctionSays ==
  ASSUME NEW d \in 1..Depth, NEW f \in Filters[d], NEW col \in Columns,
         f.filter_type = "CONJUNCTION_OR",
         \A g \in Filters[d - 1] : Says(d - 1, g, col, TranslateFilter[d - 1][g][col]),
         Threw \notin Range(ChildrenOf(d, f, col)), Skipped \notin Range(ChildrenOf(d, f, col))
  PROVE  Says(d, f, col, Conjoined(ChildrenOf(d, f, col), "OR"))
<1> DEFINE n == Len(f.child_filters)
           c == ChildrenOf(d, f, col)
           A == Tokens(Texts[d - 1])
           parts == PartsOf(c)
           text == Join(parts, "OR")
           child(i) == f.child_filters[i]
           tokens == [i \in 1..n |-> Paren(c[i].text)]
<1>0. /\ f.child_filters \in Seq(Filters[d - 1])
      /\ n \in Nat /\ DOMAIN f.child_filters = 1..n /\ DOMAIN c = 1..n
      /\ \A i \in 1..n : Says(d - 1, child(i), col, c[i])
  BY ChildrenSay
<1>1. /\ n \in Nat /\ DOMAIN f.child_filters = 1..n /\ DOMAIN c = 1..n
      /\ \A i \in 1..n : child(i) \in Filters[d - 1] /\ Says(d - 1, child(i), col, c[i])
  <2>1. \A i \in 1..n : child(i) \in Filters[d - 1]
    BY <1>0
  <2>. QED BY <1>0, <2>1
<1>2. \A i \in 1..n : c[i] # Threw /\ c[i] # Skipped
  BY <1>1 DEF Range
<1>3. ASSUME NEW i \in 1..n
      PROVE  /\ c[i].text \in Texts[d - 1]
             /\ \A row \in Rows : Paren(c[i].text) \in GoodOf(d, row)
                                         <=> Passes[d - 1][child(i)][row[col]] = 2
  <2> HIDE DEF c, child, n
  <2>1. child(i) \in Filters[d - 1] /\ Says(d - 1, child(i), col, c[i]) /\ c[i] # Threw
    BY <1>1, <1>2
  <2>2. PartOK(d, child(i), col, c[i])
    BY <2>1, PartSays
  <2>. QED BY <2>1, <2>2, <1>2, Zenon DEF PartOK
<1>4. Conjoined(c, "OR") = IF text = <<>> THEN Skipped ELSE Clause(text)
  BY Zenon DEF Conjoined, PartsOf, PartOf
<1>5. parts = [i \in 1..n |-> <<tokens[i]>>] /\ n # 0
  <2>1. \A i \in 1..n : PartOf(c, i) = <<tokens[i]>>
    BY <1>2 DEF PartOf
  <2>2. parts = [i \in 1..n |-> PartOf(c, i)]
    BY <1>1, Zenon DEF PartsOf
  <2>3. n # 0
    <3>1. f.child_filters # <<>> /\ f.child_filters \in Seq(Filters[d - 1])
      BY FilterIs
    <3>. QED BY <3>1
  <2> HIDE DEF parts, c, tokens
  <2>. QED BY <2>1, <2>2, <2>3
<1>6. /\ Word("OR") \in A /\ \A row : Word("OR") \notin GoodOf(d, row)
  BY WordsAreWords, Zenon DEF GoodOf, Good
<1> HIDE DEF c, child, parts, n, A
<1>7. ASSUME NEW i \in 1..n
      PROVE  tokens[i] = Paren(c[i].text) /\ tokens[i] \in A /\ tokens[i] # Word("OR")
  <2>1. Paren(c[i].text) \in A /\ Paren(c[i].text) # Word("OR")
    BY <1>3, ParenIs, Zenon DEF A
  <2>. QED BY <2>1
<1>8. tokens \in Seq(A) /\ Len(tokens) = n /\ tokens # <<>>
  <2>1. tokens \in [1..n -> A]
    BY <1>7
  <2>2. DOMAIN tokens = 1..n
    OBVIOUS
  <2> HIDE DEF tokens
  <2>. QED BY <1>1, <1>5, <2>1, <2>2
<1> HIDE DEF tokens
<1>9. parts \in Seq(Seq(A)) /\ Len(parts) = n
  <2>1. \A i \in 1..n : <<tokens[i]>> \in Seq(A)
    BY <1>7
  <2>2. parts \in [1..n -> Seq(A)] /\ DOMAIN parts = 1..n
    BY <1>5, <2>1
  <2>. QED BY <1>1, <2>2
<1>10. text \in Seq(A)
  <2>1. PICK at : Joins(at, parts, "OR")
    BY <1>1, <1>9, JoinAt
  <2>. QED BY <1>6, <1>9, <2>1, JoinIs
<1>11. \A row : /\ text # <<>>
                /\ Sat(text, GoodOf(d, row)) <=> \E i \in 1..n : tokens[i] \in GoodOf(d, row)
  BY <1>5, <1>6, <1>7, <1>8, <1>9, JoinOr
<1>12. ASSUME NEW x \in Cells
       PROVE  Passes[d][f][x] = 2 <=> \E i \in 1..n : Passes[d - 1][child(i)][x] = 2
  <2>1. Truths(d, f, x) = {Passes[d - 1][child(i)][x] : i \in 1..n}
    BY <1>1 DEF Truths, child
  <2>2. \A i \in 1..n : Passes[d - 1][child(i)][x] \in 0..2
    BY <1>1, Levels, PassesIn
  <2>3. Truths(d, f, x) \in SUBSET (0..2)
    BY <2>1, <2>2
  <2>4. Passes[d][f][x] = AnyOf(Truths(d, f, x))
    BY PassLevel
  <2>. QED BY <2>1, <2>3, <2>4, AnyOfIs
<1>13. text \in Texts[d] \ {<<>>}
  BY <1>10, <1>11, Levels DEF A
<1>14. ASSUME NEW row \in Rows
       PROVE  Holds[d][text][row] = 2 <=> Passes[d][f][row[col]] = 2
  <2>1. row[col] \in Cells
    BY DEF Rows
  <2>2. Holds[d][text][row] = 2 <=> \E i \in 1..n : tokens[i] \in GoodOf(d, row)
    BY <1>11, <1>13, HoldsLevel
  <2>3. \A i \in 1..n : tokens[i] \in GoodOf(d, row) <=> Passes[d - 1][child(i)][row[col]] = 2
    BY <1>3, <1>7
  <2>. QED BY <1>12, <2>1, <2>2, <2>3
<1> HIDE DEF text
<1>. QED BY <1>4, <1>13, <1>14 DEF Says, c

(* What becomes of a filter, by its type.                                  *)
LEMMA TranslationIs ==
  ASSUME NEW f, NEW col, NEW c, NEW T, T = Translation(f, col, c)
  PROVE  /\ f.filter_type \in {"CONSTANT_COMPARISON", "IS_NULL", "IS_NOT_NULL"} =>
              T = Threw \/ T = Clause(<<Predicate(col, f)>>)
         /\ f.filter_type = "IN_FILTER" =>
              \/ T = Threw \/ T = Clause(<<Predicate(col, f)>>)
              \/ f.values = <<>> /\ T = Clause(<<Predicate(col, Leaf("FALSE"))>>)
         /\ f.filter_type = "CONJUNCTION_AND" =>
              T = Threw \/ (Threw \notin Range(c) /\ T = Conjoined(c, "AND"))
         /\ f.filter_type = "CONJUNCTION_OR" =>
              \/ T = Threw
              \/ /\ Threw \notin Range(c) /\ Skipped \notin Range(c)
                 /\ T = Conjoined(c, "OR")
         /\ f.filter_type \in Optional => T = Skipped
         /\ f.filter_type \notin {"CONSTANT_COMPARISON", "IS_NULL", "IS_NOT_NULL",
                                  "IN_FILTER", "CONJUNCTION_AND", "CONJUNCTION_OR"} \cup Optional
              => T = Threw
<1> DEFINE one == Clause(<<Predicate(col, f)>>)
           false == Clause(<<Predicate(col, Leaf("FALSE"))>>)
           and == Conjoined(c, "AND")
           or == Conjoined(c, "OR")
           literals == \A i \in DOMAIN f.values : HasLiteral(f.values[i])
           literal == f.comparison_type \in Compared /\ HasLiteral(f.values[1])
<1>1. T = CASE f.filter_type = "CONSTANT_COMPARISON" -> IF literal THEN one ELSE Threw
            [] f.filter_type \in {"IS_NULL", "IS_NOT_NULL"} -> one
            [] f.filter_type = "IN_FILTER" ->
                 IF f.values = <<>> THEN false ELSE IF literals THEN one ELSE Threw
            [] f.filter_type = "CONJUNCTION_AND" ->
                 IF Threw \in Range(c) THEN Threw ELSE and
            [] f.filter_type = "CONJUNCTION_OR" ->
                 IF {Threw, Skipped} \cap Range(c) # {} THEN Threw ELSE or
            [] f.filter_type \in Optional -> Skipped
            [] OTHER -> Threw
  BY Zenon DEF Translation
<1>2. {Threw, Skipped} \cap Range(c) = {} => Threw \notin Range(c) /\ Skipped \notin Range(c)
  OBVIOUS
<1> HIDE DEF one, false, and, or, literals, literal
<1>3. f.filter_type \in Optional <=>
        f.filter_type \in {"OPTIONAL_FILTER", "DYNAMIC_FILTER", "BLOOM_FILTER"}
  BY DEF Optional
<1>4. CASE f.filter_type \in {"CONSTANT_COMPARISON", "IS_NULL", "IS_NOT_NULL"}
  <2>1. T = Threw \/ T = one
    BY <1>1, <1>3, <1>4
  <2>. QED BY <1>3, <1>4, <2>1 DEF one
<1>5. CASE f.filter_type = "IN_FILTER"
  <2>1. T = Threw \/ T = one \/ (f.values = <<>> /\ T = false)
    BY <1>1, <1>3, <1>5
  <2>. QED BY <1>3, <1>5, <2>1 DEF one, false
<1>6. CASE f.filter_type = "CONJUNCTION_AND"
  <2>1. T = Threw \/ (Threw \notin Range(c) /\ T = and)
    BY <1>1, <1>3, <1>6
  <2>. QED BY <1>3, <1>6, <2>1 DEF and
<1>7. CASE f.filter_type = "CONJUNCTION_OR"
  <2>1. T = Threw \/ ({Threw, Skipped} \cap Range(c) = {} /\ T = or)
    BY <1>1, <1>3, <1>7
  <2>. QED BY <1>2, <1>3, <1>7, <2>1 DEF or
<1>8. CASE f.filter_type \in Optional
  <2>1. T = Skipped
    BY <1>1, <1>3, <1>8
  <2>. QED BY <1>3, <1>8, <2>1
<1>9. CASE f.filter_type \notin {"CONSTANT_COMPARISON", "IS_NULL", "IS_NOT_NULL", "IN_FILTER",
                                 "CONJUNCTION_AND", "CONJUNCTION_OR"} \cup Optional
  <2>1. T = Threw
    BY <1>1, <1>9
  <2>. QED BY <1>9, <2>1
<1>. QED BY <1>3, <1>4, <1>5, <1>6, <1>7, <1>8, <1>9

LEMMA TranslationSays ==
  ASSUME NEW d \in 1..Depth, NEW f \in Filters[d], NEW col \in Columns,
         \A g \in Filters[d - 1] : Says(d - 1, g, col, TranslateFilter[d - 1][g][col])
  PROVE  Says(d, f, col, TranslateFilter[d][f][col])
<1> DEFINE c == ChildrenOf(d, f, col)
           T == TranslateFilter[d][f][col]
<1>1. T = Translation(f, col, c)
  <2>1. TranslateFilter[d] = Translating(TranslateFilter[d - 1], Filters[d])
    BY Levels
  <2>2. TranslateFilter[d][f] = [k \in Columns |->
          Translation(f, k, [i \in DOMAIN f.child_filters |->
                               TranslateFilter[d - 1][f.child_filters[i]][k]])]
    BY <2>1, Zenon DEF Translating
  <2>. QED BY <2>2 DEF ChildrenOf
<1>2. CASE T = Threw
  BY <1>2 DEF Says
<1>3. ASSUME f.filter_type \notin Conjunctions
      PROVE  f \in Tests /\ \A x \in Cells : Passes[d][f][x] = Test(f, x)
  BY <1>3, FilterIs, PassLevel DEF Tests
<1>4. CASE f.filter_type \in {"CONSTANT_COMPARISON", "IS_NULL", "IS_NOT_NULL", "IN_FILTER"}
           /\ T = Clause(<<Predicate(col, f)>>)
  <2>1. f.filter_type \notin Conjunctions /\ f.filter_type # "FALSE"
    BY <1>4 DEF Conjunctions
  <2>. QED BY <1>3, <1>4, <2>1, OnePredicate
<1>5. CASE f.filter_type = "IN_FILTER" /\ f.values = <<>>
           /\ T = Clause(<<Predicate(col, Leaf("FALSE"))>>)
  <2>1. f.filter_type \notin Conjunctions
    BY <1>5 DEF Conjunctions
  <2>2. Leaf("FALSE") \in Tests /\ Leaf("FALSE").filter_type = "FALSE"
    BY DEF Tests, Leaf, Filter
  <2>3. ASSUME NEW x \in Cells PROVE Test(f, x) # 2
    <3>1. Test(f, x) = Member(x, <<>>)
      BY <1>5 DEF Test
    <3>2. Member(x, <<>>) = AnyOf({})
      <4>1. {Compare("=", x, (<<>>)[i]) : i \in DOMAIN <<>>} = {}
        OBVIOUS
      <4>. QED BY <4>1, Zenon DEF Member
    <3>3. AnyOf({}) # 2
      BY AnyOfIs
    <3>. QED BY <3>1, <3>2, <3>3
  <2>. QED BY <1>5, <2>1, <2>2, <2>3, OnePredicate
<1>6. CASE f.filter_type = "CONJUNCTION_AND" /\ Threw \notin Range(c)
           /\ T = Conjoined(c, "AND")
  BY <1>6, ConjunctionSays
<1>7. CASE f.filter_type = "CONJUNCTION_OR" /\ Threw \notin Range(c)
           /\ Skipped \notin Range(c) /\ T = Conjoined(c, "OR")
  BY <1>7, DisjunctionSays
<1>8. CASE f.filter_type \in Optional /\ T = Skipped
  <2>1. f.filter_type \notin Conjunctions
    BY <1>8 DEF Optional, Conjunctions
  <2>2. \A x \in Cells : Test(f, x) = 2
    BY <1>8 DEF Optional, Test
  <2>. QED BY <1>3, <1>8, <2>1, <2>2 DEF Says
<1> HIDE DEF c, T
<1>. QED BY <1>1, <1>2, <1>4, <1>5, <1>6, <1>7, <1>8, TranslationIs

(* The text of a filter of any depth says what the filter says.            *)
LEMMA TranslateSays ==
  ASSUME NEW d \in 0..Depth, NEW f \in Filters[d], NEW col \in Columns
  PROVE  Says(d, f, col, TranslateFilter[d][f][col])
<1> DEFINE P(n) == \A g \in Filters[n] : Says(n, g, col, TranslateFilter[n][g][col])
           S == {n \in Nat : n <= Depth => P(n)}
<1>1. P(0)
  BY LevelZero
<1>2. ASSUME NEW n \in Nat, n \in S PROVE n + 1 \in S
  <2> SUFFICES ASSUME n + 1 <= Depth PROVE P(n + 1)
    OBVIOUS
  <2>1. n + 1 \in 1..Depth /\ (n + 1) - 1 = n /\ n <= Depth
    OBVIOUS
  <2>2. P(n)
    BY <1>2, <2>1, Zenon
  <2> SUFFICES ASSUME NEW g \in Filters[n + 1]
               PROVE Says(n + 1, g, col, TranslateFilter[n + 1][g][col])
    OBVIOUS
  <2>3. \A h \in Filters[(n + 1) - 1] :
          Says((n + 1) - 1, h, col, TranslateFilter[(n + 1) - 1][h][col])
    BY <2>1, <2>2, Zenon
  <2> HIDE DEF P
  <2>. QED BY <2>1, <2>3, TranslationSays
<1> HIDE DEF P
<1>3. 0 \in S
  BY <1>1
<1> HIDE DEF S
<1>4. \A n \in Nat : n \in S
  BY <1>2, <1>3, SetInduction
<1>5. P(d)
  BY <1>4 DEF S
<1>. QED BY <1>5 DEF P

-----------------------------------------------------------------------------
(* The WHERE clause, once it is built.                                     *)
LEMMA ClauseHolds ==
  ASSUME TypeOK, ClausesOK, NEW i \in DOMAIN filters, i < entry, NEW row \in Rows
  PROVE  /\ TextOf(i) = Skipped => Passes[Depth][filters[i]][row[column_ids[i]]] = 2
         /\ \A k \in DOMAIN clauses : TextOf(i) = Clause(clauses[k]) =>
              (Holds[Depth][clauses[k]][row] = 2
                 <=> Passes[Depth][filters[i]][row[column_ids[i]]] = 2)
<1> DEFINE f == filters[i]
           col == column_ids[i]
<1>1. f \in Filters[Depth] /\ col \in Columns /\ Depth \in 0..Depth
  BY DEF TypeOK, ClausesOK
<1>2. TextOf(i) = TranslateFilter[Depth][f][col]
  BY DEF TextOf
<1>3. row[col] \in Cells
  BY <1>1 DEF Rows
<1> HIDE DEF f, col
<1>4. Says(Depth, f, col, TextOf(i))
  BY <1>1, <1>2, TranslateSays
<1>5. TextOf(i) = Skipped => Passes[Depth][f][row[col]] = 2
  <2> SUFFICES ASSUME TextOf(i) = Skipped PROVE Passes[Depth][f][row[col]] = 2
    OBVIOUS
  <2>1. TextOf(i) # Threw /\ \A text : TextOf(i) # Clause(text)
    BY ClauseIs
  <2>2. \A x \in Cells : Passes[Depth][f][x] = 2
    BY <1>4, <2>1, Zenon DEF Says
  <2>. QED BY <1>3, <2>2
<1>6. ASSUME NEW k \in DOMAIN clauses, TextOf(i) = Clause(clauses[k])
      PROVE  Holds[Depth][clauses[k]][row] = 2 <=> Passes[Depth][f][row[col]] = 2
  <2>1. TextOf(i) # Threw /\ TextOf(i) # Skipped
    BY <1>6, ClauseIs
  <2>2. PICK text \in Texts[Depth] \ {<<>>} :
          /\ TextOf(i) = Clause(text)
          /\ \A r \in Rows : Holds[Depth][text][r] = 2 <=> Passes[Depth][f][r[col]] = 2
    BY <1>4, <2>1, Zenon DEF Says
  <2>3. text = clauses[k]
    BY <1>6, <2>2, ClauseIs
  <2>. QED BY <2>2, <2>3
<1>. QED BY <1>5, <1>6 DEF f, col

(* DuckDB wants the rows for which every clause holds.                     *)
LEMMA WantedIs ==
  ASSUME TypeOK, OrderOK, ClausesOK, outcome = "built", NEW row \in Rows
  PROVE  Wanted(row) <=> \A k \in DOMAIN clauses : Holds[Depth][clauses[k]][row] = 2
<1> DEFINE Passed(i) == Passes[Depth][filters[i]][row[column_ids[i]]] = 2
           Hold(k) == Holds[Depth][clauses[k]][row] = 2
<1>1. \A i \in DOMAIN filters : i < entry
  <2>1. entry \in Nat /\ Len(column_ids) \in Nat /\ DOMAIN filters \subseteq 1..Len(column_ids)
    BY DEF TypeOK
  <2>2. entry > Len(column_ids)
    BY DEF OrderOK
  <2>. QED BY <2>1, <2>2
<1>2. \A i \in DOMAIN filters :
        /\ TextOf(i) = Skipped => Passed(i)
        /\ \A k \in DOMAIN clauses : TextOf(i) = Clause(clauses[k]) => (Hold(k) <=> Passed(i))
  <2> SUFFICES ASSUME NEW i \in DOMAIN filters
               PROVE  /\ TextOf(i) = Skipped => Passed(i)
                      /\ \A k \in DOMAIN clauses :
                           TextOf(i) = Clause(clauses[k]) => (Hold(k) <=> Passed(i))
    OBVIOUS
  <2>. QED BY <1>1, ClauseHolds
<1>3. Wanted(row) <=> \A i \in DOMAIN filters : Passed(i)
  BY Zenon DEF Wanted
<1> HIDE DEF Pass, Hold
<1>4. \A i \in DOMAIN filters :
         TextOf(i) = Skipped \/ \E k \in DOMAIN clauses : TextOf(i) = Clause(clauses[k])
  BY <1>1, Zenon DEF ClausesOK
<1>5. \A k \in DOMAIN clauses : \E i \in DOMAIN filters : TextOf(i) = Clause(clauses[k])
  BY Zenon DEF ClausesOK
<1>6. (\A i \in DOMAIN filters : Passed(i)) <=> (\A k \in DOMAIN clauses : Hold(k))
  BY <1>2, <1>4, <1>5, Zenon
<1>. QED BY <1>3, <1>6 DEF Hold

(* What the clauses are made of, and the text they are joined to.          *)
LEMMA WhereIs ==
  ASSUME TypeOK, clauses # <<>>
  PROVE  /\ Depth \in 1..Depth
         /\ clauses \in Seq(Seq(Tokens(Texts[Depth - 1])))
         /\ DOMAIN clauses = 1..Len(clauses) /\ Len(clauses) \in Nat \ {0}
         /\ \A k \in 1..Len(clauses) : clauses[k] \in Texts[Depth] /\ clauses[k] # <<>>
         /\ WhereClause \in Texts[Depth] \ {<<>>}
         /\ Len(clauses) = 1 => WhereClause = clauses[1]
<1> DEFINE A == Tokens(Texts[Depth - 1])
<1>1. /\ DOMAIN clauses = 1..Len(clauses) /\ Len(clauses) \in Nat \ {0}
      /\ \A k \in 1..Len(clauses) : clauses[k] \in Texts[Depth] /\ clauses[k] # <<>>
  BY DEF TypeOK
<1>2. Depth \in 1..Depth
  <2>1. clauses[1] \in Texts[Depth]
    BY <1>1
  <2>2. Depth # 0
    BY <2>1, LevelZero
  <2>. QED BY <2>2
<1>3. Texts[Depth] = Seq(A)
  BY <1>2, Levels
<1>4. clauses \in Seq(Seq(A))
  BY <1>3 DEF TypeOK
<1>5. Word("AND") \in A
  BY WordsAreWords
<1> HIDE DEF A
<1>6. PICK at : Joins(at, clauses, "AND")
  BY <1>1, JoinAt
<1>7. /\ WhereClause \in Seq(A)
      /\ WhereClause = <<>> <=> \A k \in 1..Len(clauses) : clauses[k] = <<>>
  BY <1>4, <1>5, <1>6, JoinIs, Zenon DEF WhereClause
<1>8. WhereClause # <<>>
  BY <1>1, <1>7
<1>9. ASSUME Len(clauses) = 1 PROVE WhereClause = clauses[1]
  <2>1. WhereClause = at[1] /\ at[0] = <<>> /\ at[1] = Joined1(at, clauses, "AND", 1)
    BY <1>6, <1>9 DEF Joins, WhereClause
  <2>2. 1 - 1 = 0
    OBVIOUS
  <2>. QED BY <2>1, <2>2, Zenon DEF Joined1
<1>. QED BY <1>1, <1>2, <1>3, <1>4, <1>7, <1>8, <1>9 DEF A

(* The statement selects every row that DuckDB wants.                      *)
LEMMA WantedSelected ==
  ASSUME TypeOK, OrderOK, ClausesOK, outcome = "built", NEW row \in Rows, Wanted(row)
  PROVE  Selected(row)
<1> SUFFICES ASSUME clauses # <<>> PROVE Holds[Depth][WhereClause][row] = 2
  BY DEF Selected
<1> DEFINE A == Tokens(Texts[Depth - 1])
           G == GoodOf(Depth, row)
<1>1. /\ Depth \in 1..Depth /\ clauses \in Seq(Seq(A)) /\ DOMAIN clauses = 1..Len(clauses)
      /\ \A k \in 1..Len(clauses) : clauses[k] \in Texts[Depth]
      /\ WhereClause \in Texts[Depth] /\ WhereClause # <<>>
  BY WhereIs
<1>2. \A k \in 1..Len(clauses) : Sat(clauses[k], G)
  <2>1. ASSUME NEW k \in 1..Len(clauses) PROVE Sat(clauses[k], G)
    <3>1. Holds[Depth][clauses[k]][row] = 2
      BY <1>1, WantedIs
    <3>. QED BY <1>1, <3>1, HoldsLevel
  <2>. QED BY <2>1
<1>3. Word("AND") \in A /\ Word("AND") \in G
  BY WordsAreWords, Zenon DEF GoodOf, Good
<1> HIDE DEF A, G
<1>4. WhereClause = <<>> \/ Sat(WhereClause, G)
  BY <1>1, <1>2, <1>3, JoinAnd, Zenon DEF WhereClause
<1>. QED BY <1>1, <1>4, HoldsLevel DEF G

(* It selects no other, unless texts with an OR are joined with AND.       *)
LEMMA SelectedWanted ==
  ASSUME TypeOK, OrderOK, ClausesOK, outcome = "built", NEW row \in Rows,
         ~Joined, Selected(row)
  PROVE  Wanted(row)
<1>1. CASE clauses = <<>>
  BY <1>1, WantedIs
<1>2. CASE clauses # <<>> /\ Len(clauses) = 1
  <2>1. WhereClause = clauses[1] /\ DOMAIN clauses = 1..1
    BY <1>2, WhereIs
  <2>2. Holds[Depth][clauses[1]][row] = 2
    BY <1>2, <2>1 DEF Selected
  <2>3. \A k \in DOMAIN clauses : k = 1
    BY <2>1
  <2>. QED BY <2>2, <2>3, WantedIs
<1>3. CASE clauses # <<>> /\ Len(clauses) # 1
  <2> DEFINE A == Tokens(Texts[Depth - 1])
             G == GoodOf(Depth, row)
  <2>1. /\ Depth \in 1..Depth /\ clauses \in Seq(Seq(A)) /\ DOMAIN clauses = 1..Len(clauses)
        /\ Len(clauses) > 1
        /\ \A k \in 1..Len(clauses) : clauses[k] \in Texts[Depth] /\ clauses[k] \in Seq(A)
        /\ WhereClause \in Texts[Depth] /\ WhereClause \in Seq(A)
    BY <1>3, WhereIs, Levels
  <2>2. /\ Word("AND") \in A /\ Word("AND") \in G
        /\ Word("AND") # Word("OR")
    BY WordsAreWords, Zenon DEF GoodOf, Good
  <2>3. \A k \in 1..Len(clauses) : \A j \in 1..Len(clauses[k]) :
          clauses[k][j] # Word("OR") /\ clauses[k][j] \in A
    <3>1. ASSUME NEW k \in 1..Len(clauses), NEW j \in 1..Len(clauses[k])
          PROVE  clauses[k][j] # Word("OR") /\ clauses[k][j] \in A
      <4>1. clauses[k] \in Seq(A)
        BY <2>1
      <4>2. j \in DOMAIN clauses[k] /\ clauses[k][j] \in A
        BY <4>1
      <4>. QED BY <2>1, <4>2 DEF Joined
    <3>. QED BY <3>1
  <2> HIDE DEF A, G
  <2>4. \A k \in 1..Len(clauses) : AllIn(clauses[k], A \ {Word("OR")})
    BY <2>3 DEF AllIn
  <2>5. AllIn(WhereClause, A \ {Word("OR")})
    BY <2>1, <2>2, <2>4, JoinAllIn DEF WhereClause
  <2>6. \A j \in 1..Len(WhereClause) : WhereClause[j] # Word("OR")
    BY <2>5 DEF AllIn
  <2>7. Sat(WhereClause, G)
    BY <1>3, <2>1, HoldsLevel DEF Selected, G
  <2>8. AllIn(WhereClause, G)
    BY <2>1, <2>6, <2>7, SatPlain
  <2>9. \A k \in 1..Len(clauses) : AllIn(clauses[k], G)
    BY <2>1, <2>2, <2>8, JoinAllIn DEF WhereClause
  <2>10. \A k \in 1..Len(clauses) : Sat(clauses[k], G)
    BY <2>1, <2>3, <2>9, SatPlain
  <2>11. \A k \in 1..Len(clauses) : Holds[Depth][clauses[k]][row] = 2
    BY <2>1, <2>10, HoldsLevel DEF G
  <2>. QED BY <2>1, <2>11, WantedIs
<1>. QED BY <1>1, <1>2, <1>3

-----------------------------------------------------------------------------
(* The rows of a result, and what a plan makes of them.                    *)
Places(at, table, places) ==
    /\ at[0] = <<>> /\ InOrder(table, places) = at[Len(table)]
    /\ \A i \in 1..Len(table) :
         at[i] = IF i \in places THEN Append(at[i - 1], i) ELSE at[i - 1]

LEMMA InOrderAt ==
  ASSUME NEW table, Len(table) \in Nat, NEW places
  PROVE  \E at : Places(at, table, places)
<1> DEFINE Step(f, i) == IF i = 0 THEN <<>>
                         ELSE IF i \in places THEN Append(f[i - 1], i) ELSE f[i - 1]
           Is(f, m) == f = [i \in 0..m |-> Step(f, i)]
           S == {m \in Nat : \E f : Is(f, m)}
<1>1. 0 \in S
  <2>1. Is([i \in 0..0 |-> <<>>], 0)
    OBVIOUS
  <2>. QED BY <2>1
<1>2. ASSUME NEW m \in Nat, m \in S PROVE m + 1 \in S
  <2>1. PICK f : Is(f, m)
    BY <1>2
  <2> DEFINE g == [i \in 0..m + 1 |-> Step(f, i)]
  <2>2. \A i \in 0..m + 1 : i # 0 => i - 1 \in 0..m
    OBVIOUS
  <2>3. \A i \in 0..m : g[i] = f[i]
    <3>1. ASSUME NEW i \in 0..m PROVE g[i] = f[i]
      <4>1. i \in 0..m + 1
        OBVIOUS
      <4>2. g[i] = Step(f, i)
        BY <4>1, Zenon
      <4>3. f[i] = Step(f, i)
        BY <2>1, Zenon
      <4>. QED BY <4>2, <4>3, Zenon
    <3>. QED BY <3>1
  <2>4. \A i \in 0..m + 1 : Step(f, i) = Step(g, i)
    BY <2>2, <2>3
  <2>5. Is(g, m + 1)
    BY <2>4
  <2> HIDE DEF Is, g
  <2>. QED BY <2>5
<1> HIDE DEF S
<1>3. Len(table) \in S
  BY <1>1, <1>2, SetInduction
<1>4. PICK f : Is(f, Len(table))
  BY <1>3 DEF S
<1> DEFINE At == CHOOSE g : Is(g, Len(table))
<1>5. Is(At, Len(table))
  <2> HIDE DEF Is
  <2>. QED BY <1>4, Zenon
<1>6. InOrder(table, places) = At[Len(table)]
  BY Zenon DEF InOrder
<1> HIDE DEF At
<1>7. \A i \in 0..Len(table) : At[i] = Step(At, i)
  BY <1>5, Zenon
<1>8. At[0] = <<>>
  BY <1>7
<1>9. \A i \in 1..Len(table) :
        At[i] = IF i \in places THEN Append(At[i - 1], i) ELSE At[i - 1]
  BY <1>7
<1>. QED BY <1>6, <1>8, <1>9, Zenon DEF Places

LEMMA InOrderIn ==
  ASSUME NEW table \in Seq(Rows), NEW places
  PROVE  InOrder(table, places) \in Seq(Nat)
<1> DEFINE n == Len(table)
<1>1. n \in Nat
  OBVIOUS
<1>2. PICK at : Places(at, table, places)
  BY <1>1, InOrderAt
<1> HIDE DEF n
<1> DEFINE S == {i \in Nat : i <= n => at[i] \in Seq(Nat)}
<1>3. 0 \in S
  <2>1. at[0] = <<>>
    BY <1>2, Zenon DEF Places
  <2>2. at[0] \in Seq(Nat)
    BY <2>1
  <2>. QED BY <2>2
<1>4. ASSUME NEW i \in Nat, i \in S PROVE i + 1 \in S
  <2> SUFFICES ASSUME i + 1 <= n PROVE at[i + 1] \in Seq(Nat)
    OBVIOUS
  <2>1. i + 1 \in 1..n /\ (i + 1) - 1 = i /\ at[i] \in Seq(Nat)
    BY <1>1, <1>4
  <2>2. at[i + 1] = IF i + 1 \in places THEN Append(at[i], i + 1) ELSE at[i]
    BY <1>2, <2>1 DEF Places, n
  <2>3. Append(at[i], i + 1) \in Seq(Nat)
    BY <2>1
  <2>. QED BY <2>1, <2>2, <2>3
<1> HIDE DEF S
<1>5. \A i \in Nat : i \in S
  BY <1>3, <1>4, SetInduction
<1>. QED BY <1>1, <1>2, <1>5 DEF S, Places, n

(* The first n of the first n rows.                                        *)
LEMMA FirstFirst ==
  ASSUME NEW rows \in Seq(Nat), NEW n \in Nat
  PROVE  L!First(n, L!First(n, rows)) = L!First(n, rows)
<1> DEFINE m == IF n < Len(rows) THEN n ELSE Len(rows)
           s == SubSeq(rows, 1, m)
<1>1. m \in Nat /\ m <= n /\ m <= Len(rows) /\ \A i \in 1..m : rows[i] \in Nat
  OBVIOUS
<1>2. L!First(n, rows) = s
  BY DEF L!First
<1> HIDE DEF m
<1>3. s \in Seq(Nat) /\ Len(s) = m
  BY <1>1, SubSeqProperties
<1>4. L!First(n, s) = SubSeq(s, 1, IF n < Len(s) THEN n ELSE Len(s))
  BY DEF L!First
<1> HIDE DEF s
<1>5. L!First(n, s) = SubSeq(s, 1, Len(s))
  <2>1. (IF n < Len(s) THEN n ELSE Len(s)) = Len(s)
    BY <1>1, <1>3
  <2>. QED BY <1>4, <2>1
<1>. QED BY <1>2, <1>3, <1>5, SubSeqFull

(* Out, from the scan up.                                                  *)
Results(out, source) ==
    /\ out[Len(plan)] = source /\ L!Result(source) = out[1]
    /\ \A i \in 1..Len(plan) - 1 : out[i] = L!Apply(plan[i], out[i + 1])

LEMMA ResultAt ==
  ASSUME Len(plan) \in Nat \ {0}, NEW source
  PROVE  \E out : Results(out, source)
<1> DEFINE n == Len(plan)
           Step(f, i) == IF i = n THEN source ELSE L!Apply(plan[i], f[i + 1])
           Is(f, m) == f = [i \in m..n |-> Step(f, i)]
           S == {k \in Nat : k < n => \E f : Is(f, n - k)}
<1>1. 0 \in S
  <2>1. Is([i \in n..n |-> source], n)
    OBVIOUS
  <2>2. n - 0 = n
    OBVIOUS
  <2> HIDE DEF Is, n
  <2>. QED BY <2>1, <2>2
<1>2. ASSUME NEW k \in Nat, k \in S PROVE k + 1 \in S
  <2> SUFFICES ASSUME k + 1 < n PROVE \E f : Is(f, n - (k + 1))
    OBVIOUS
  <2> DEFINE m == n - k
             l == n - (k + 1)
  <2>0. m \in 1..n /\ l \in 1..n /\ l = m - 1 /\ k < n /\ n \in Nat
    OBVIOUS
  <2>1. PICK f : Is(f, m)
    BY <1>2, <2>0
  <2> HIDE DEF m, l, n
  <2> DEFINE g == [i \in l..n |-> Step(f, i)]
  <2>2. \A i \in l..n : i # n => i + 1 \in m..n
    BY <2>0
  <2>3. \A i \in m..n : g[i] = f[i]
    <3>1. ASSUME NEW i \in m..n PROVE g[i] = f[i]
      <4>1. i \in l..n
        BY <2>0
      <4>2. g[i] = Step(f, i)
        BY <4>1, Zenon
      <4>3. f[i] = Step(f, i)
        BY <2>1, Zenon
      <4>. QED BY <4>2, <4>3, Zenon
    <3>. QED BY <3>1
  <2>4. \A i \in l..n : Step(f, i) = Step(g, i)
    BY <2>2, <2>3
  <2>5. Is(g, l)
    BY <2>4
  <2> HIDE DEF Is, g
  <2>. QED BY <2>5 DEF l
<1>3. n \in Nat \ {0} /\ n - 1 \in Nat /\ n - 1 < n /\ n - (n - 1) = 1
  OBVIOUS
<1> HIDE DEF S
<1>4. n - 1 \in S
  BY <1>1, <1>2, <1>3, SetInduction
<1>5. \E f : Is(f, 1)
  <2> HIDE DEF Is, n
  <2>. QED BY <1>3, <1>4 DEF S
<1> DEFINE Out == CHOOSE f : Is(f, 1)
<1>6. Is(Out, 1)
  <2> HIDE DEF Is
  <2>. QED BY <1>5, Zenon
<1>7. L!Result(source) = Out[1]
  BY Zenon DEF L!Result
<1> HIDE DEF Out
<1>8. \A i \in 1..n : Out[i] = Step(Out, i)
  BY <1>6, Zenon
<1>9. Out[n] = source
  BY <1>3, <1>8
<1>10. \A i \in 1..n - 1 : Out[i] = L!Apply(plan[i], Out[i + 1])
  <2>1. \A i \in 1..n - 1 : i \in 1..n /\ i # n
    BY <1>3
  <2>. QED BY <1>8, <2>1
<1>. QED BY <1>7, <1>9, <1>10, Zenon DEF Results

(* A limit that is pushed: no operator but projections below it, and its   *)
(* sum is not cut off.                                                     *)
LEMMA PushableIs ==
  ASSUME plan \in L!Plans, NEW i \in 1..Len(plan), L!Pushable(i)
  PROVE  /\ Len(plan) \in Nat \ {0} /\ i \in 1..Len(plan) - 1
         /\ plan[i].type = "LIMIT"
         /\ plan[i].limit_val.value \in Nat /\ plan[i].offset_val.value \in Nat
         /\ L!Total(i) = plan[i].limit_val.value + plan[i].offset_val.value
         /\ L!Total(i) \in L!Index
         /\ \A j \in i + 1 .. Len(plan) - 1 : plan[j].type = "PROJECTION"
<1> DEFINE l == plan[i].limit_val.value
           o == plan[i].offset_val.value
<1>1. /\ Len(plan) \in Nat \ {0} /\ plan[Len(plan)] = L!Get
      /\ \A j \in 1..Len(plan) : plan[j] \in L!Operators \cup {L!Get}
  BY DEF L!Plans
<1>2. plan[i].type = "LIMIT" /\ o <= MaxIndex - l /\ L!ReachesGet(i)
  BY Zenon DEF L!Pushable
<1>3. L!Get.type = "GET" /\ \A t : L!Plain(t).type = t
  BY DEF L!Get, L!Plain, L!Operator
<1>4. plan[i] \in L!Operators /\ i # Len(plan)
  BY <1>1, <1>2, <1>3
<1>5. PICK v \in L!Limits, w \in L!Offsets : plan[i] = L!Operator("LIMIT", v, w)
  BY <1>2, <1>3, <1>4 DEF L!Operators
<1>6. l = v.value /\ o = w.value
  BY <1>5 DEF L!Operator
<1>7. v.value \in 0..MaxIndex /\ w.value \in 0..MaxIndex
  BY StatementAssumption DEF L!Limits, L!Offsets, L!Node, L!Index, StatementAssumption
<1>8. L!Total(i) = (l + o) % (MaxIndex + 1)
  BY Zenon DEF L!Total
<1> HIDE DEF l, o
<1>9. l \in 0..MaxIndex /\ o \in 0..MaxIndex /\ MaxIndex \in Nat /\ l + o \in 0..MaxIndex
  BY <1>2, <1>6, <1>7, StatementAssumption DEF StatementAssumption
<1>10. (l + o) % (MaxIndex + 1) = l + o
  <2> DEFINE x == l + o
             k == MaxIndex + 1
  <2>1. x \in Nat /\ k \in Nat /\ x < k
    BY <1>9
  <2> HIDE DEF x, k
  <2>2. x % k = x
    BY <2>1
  <2>. QED BY <2>2, Zenon DEF x, k
<1>11. L!Total(i) = l + o /\ L!Total(i) \in L!Index
  BY <1>8, <1>9, <1>10 DEF L!Index
<1>12. \A j \in i + 1 .. Len(plan) - 1 : plan[j].type = "PROJECTION"
  BY <1>2, Zenon DEF L!ReachesGet
<1>13. i \in 1..Len(plan) - 1 /\ l \in Nat /\ o \in Nat
  BY <1>1, <1>4, <1>9
<1>. QED BY <1>1, <1>2, <1>11, <1>12, <1>13 DEF l, o

(* DuckDB gets the same result if the rows past the sum are left out.      *)
LEMMA LimitKept ==
  ASSUME plan \in L!Plans, NEW i \in 1..Len(plan), L!Pushable(i), NEW rows \in Seq(Nat)
  PROVE  L!Result(L!First(L!Total(i), rows)) = L!Result(rows)
<1> DEFINE n == Len(plan)
           t == L!Total(i)
           few == L!First(t, rows)
           o == plan[i].offset_val.value
<1>1. /\ n \in Nat \ {0} /\ i \in 1..n - 1 /\ plan[i].type = "LIMIT"
      /\ t = plan[i].limit_val.value + o /\ t \in Nat
      /\ \A j \in i + 1 .. n - 1 : plan[j].type = "PROJECTION"
  BY PushableIs
<1>2. PICK a : Results(a, few)
  BY <1>1, ResultAt
<1>3. PICK b : Results(b, rows)
  BY <1>1, ResultAt
<1>4. L!First(t, few) = few
  BY <1>1, FirstFirst
<1>5. \A source : L!Apply(plan[i], source)
                    = SubSeq(L!First(t, source), o + 1, Len(L!First(t, source)))
  BY <1>1 DEF L!Apply
<1>6. \A j \in i + 1 .. n - 1 : \A source : L!Apply(plan[j], source) = source
  BY <1>1 DEF L!Apply
<1>7. a[n] = few /\ b[n] = rows /\ L!Result(few) = a[1] /\ L!Result(rows) = b[1]
  BY <1>2, <1>3 DEF Results
<1>8. \A j \in 1..n - 1 : /\ a[j] = L!Apply(plan[j], a[j + 1])
                          /\ b[j] = L!Apply(plan[j], b[j + 1])
  BY <1>2, <1>3 DEF Results
<1> HIDE DEF n, t, few, o
<1> DEFINE S == {k \in Nat : n - k > i => a[n - k] = few /\ b[n - k] = rows}
<1>9. \A k \in Nat : k \in S
  <2>1. 0 \in S
    BY <1>1, <1>7
  <2>2. ASSUME NEW k \in Nat, k \in S PROVE k + 1 \in S
    <3> SUFFICES ASSUME n - (k + 1) > i
                 PROVE a[n - (k + 1)] = few /\ b[n - (k + 1)] = rows
      OBVIOUS
    <3> DEFINE j == n - (k + 1)
    <3>1. j \in i + 1 .. n - 1 /\ j \in 1..n - 1 /\ j + 1 = n - k /\ n - k > i
      BY <1>1
    <3>2. a[j + 1] = few /\ b[j + 1] = rows
      BY <2>2, <3>1
    <3> HIDE DEF j
    <3>3. a[j] = few /\ b[j] = rows
      BY <1>6, <1>8, <3>1, <3>2
    <3>. QED BY <3>3 DEF j
  <2> HIDE DEF S
  <2>. QED BY <2>1, <2>2, SetInduction
<1>10. a[i + 1] = few /\ b[i + 1] = rows
  <2>1. n - (i + 1) \in Nat /\ n - (n - (i + 1)) = i + 1 /\ i + 1 > i
    BY <1>1
  <2>2. n - (i + 1) \in S
    BY <1>9, <2>1
  <2>. QED BY <2>1, <2>2
<1>11. a[i] = b[i]
  <2>1. a[i] = L!Apply(plan[i], few) /\ b[i] = L!Apply(plan[i], rows)
    BY <1>1, <1>8, <1>10
  <2>2. L!Apply(plan[i], few) = L!Apply(plan[i], rows)
    BY <1>4, <1>5, Zenon DEF few
  <2>. QED BY <2>1, <2>2
<1> HIDE DEF S
<1> DEFINE R == {k \in Nat : k < i => a[i - k] = b[i - k]}
<1>12. \A k \in Nat : k \in R
  <2>1. 0 \in R
    BY <1>1, <1>11
  <2>2. ASSUME NEW k \in Nat, k \in R PROVE k + 1 \in R
    <3> SUFFICES ASSUME k + 1 < i PROVE a[i - (k + 1)] = b[i - (k + 1)]
      OBVIOUS
    <3> DEFINE j == i - (k + 1)
    <3>1. j \in 1..n - 1 /\ j + 1 = i - k /\ k < i
      BY <1>1
    <3>2. a[j + 1] = b[j + 1]
      BY <2>2, <3>1
    <3> HIDE DEF j
    <3>3. a[j] = b[j]
      BY <1>8, <3>1, <3>2
    <3>. QED BY <3>3 DEF j
  <2> HIDE DEF R
  <2>. QED BY <2>1, <2>2, SetInduction
<1>13. a[1] = b[1]
  <2>1. i - 1 \in Nat /\ i - 1 < i /\ i - (i - 1) = 1
    BY <1>1
  <2>2. i - 1 \in R
    BY <1>12, <2>1
  <2>. QED BY <2>1, <2>2
<1>. QED BY <1>7, <1>13 DEF few, t

-----------------------------------------------------------------------------
(* The inductive invariant.                                                *)

LEMMA InitInv == StatementInit => IInv
<1> SUFFICES ASSUME StatementInit PROVE IInv
  OBVIOUS
<1>1. PICK s \in Scans : Init(s) /\ L!Init(s.plans)
  BY DEF StatementInit
<1>2. /\ s.projections \subseteq Seq(Columns \cup {VirtualColumn})
      /\ s.trees \subseteq Filters[Depth]
  OBVIOUS
<1>3. s.plans \subseteq L!Plans /\ MaxIndex \in Nat
  BY StatementAssumption DEF StatementAssumption
<1>4. /\ column_ids \in Seq(Columns \cup {VirtualColumn})
      /\ entry = 1 /\ clauses = <<>> /\ outcome = "building"
  BY <1>1, <1>2 DEF Init
<1>5. PICK indices \in SUBSET DOMAIN column_ids : filters \in [indices -> s.trees]
  BY <1>1 DEF Init
<1>6. DOMAIN filters \subseteq DOMAIN column_ids /\ filters \in [DOMAIN filters -> Filters[Depth]]
  BY <1>2, <1>5
<1>7. plan \in L!Plans /\ visited = 0 /\ has_limit = FALSE /\ limit_rows = 0
  BY <1>1, <1>3 DEF L!Init
<1>8. sql = <<>>
  BY DEF StatementInit
<1>9. Len(column_ids) \in Nat /\ DOMAIN column_ids = 1..Len(column_ids)
  BY <1>4
<1>10. TypeOK
  <2>1. Len(plan) \in Nat
    BY <1>7 DEF L!Plans
  <2>2. entry \in 1..Len(column_ids) + 1 /\ visited \in 0..Len(plan) /\ limit_rows \in L!Index
    BY <1>3, <1>4, <1>7, <1>9, <2>1 DEF L!Index
  <2>3. clauses \in Seq(Texts[Depth] \ {<<>>})
    BY <1>4
  <2>. QED BY <1>4, <1>6, <1>7, <1>8, <2>2, <2>3 DEF TypeOK
<1>11. OrderOK
  BY <1>4, <1>8 DEF OrderOK
<1>12. ClausesOK
  <2>1. \A i \in DOMAIN filters : ~(i < entry)
    BY <1>4, <1>6, <1>9
  <2>2. DOMAIN clauses = {}
    BY <1>4
  <2>. QED BY <2>1, <2>2 DEF ClausesOK
<1>13. LimitOK
  BY <1>7 DEF LimitOK
<1>. QED BY <1>10, <1>11, <1>12, <1>13 DEF IInv

LEMMA ClausesFrame ==
  ASSUME ClausesOK, UNCHANGED <<column_ids, filters, entry, clauses>>
  PROVE  ClausesOK'
BY DEF ClausesOK, TextOf

LEMMA LimitFrame ==
  ASSUME LimitOK, UNCHANGED query
  PROVE  LimitOK'
BY DEF LimitOK, query, L!Pushable, L!ReachesGet, L!Total

(* The optimizer is at work: nothing has been built yet.                   *)
LEMMA Optimizing ==
  ASSUME IInv, L!Visit
  PROVE  /\ visited' = visited + 1 /\ visited' \in 1..Len(plan) /\ Len(plan) \in Nat
         /\ visited \in Nat /\ plan' = plan /\ plan \in L!Plans
         /\ entry = 1 /\ outcome = "building" /\ sql = <<>>
<1>1. plan \in L!Plans /\ visited \in 0..Len(plan) /\ outcome \in {"building", "built", "threw"}
  BY DEF IInv, TypeOK
<1>2. Len(plan) \in Nat
  BY <1>1 DEF L!Plans
<1>3. visited < Len(plan) /\ visited' = visited + 1 /\ plan' = plan
  BY DEF L!Visit
<1>4. entry = 1 /\ outcome = "building" /\ sql = <<>>
  BY <1>3 DEF IInv, OrderOK
<1>. QED BY <1>1, <1>2, <1>3, <1>4

LEMMA OptimizerInv ==
  ASSUME IInv, FirebirdPushLimit
  PROVE  IInv'
<1>1. L!Visit /\ UNCHANGED <<column_ids, filters, entry, clauses, outcome, sql>>
  BY DEF FirebirdPushLimit, L!Next, L!PushLimit, L!PassBy, vars
<1>2. /\ visited' = visited + 1 /\ visited' \in 1..Len(plan) /\ Len(plan) \in Nat
      /\ visited \in Nat /\ plan' = plan /\ plan \in L!Plans
      /\ entry = 1 /\ outcome = "building" /\ sql = <<>>
  BY <1>1, Optimizing
<1>3. ASSUME NEW i \in 1..Len(plan)
      PROVE  (L!Pushable(i)' <=> L!Pushable(i)) /\ L!Total(i)' = L!Total(i)
  BY <1>2 DEF L!Pushable, L!ReachesGet, L!Total
<1> DEFINE v == visited + 1
<1>4. \/ /\ L!Pushable(v)
         /\ IF ~has_limit \/ L!Total(v) < limit_rows
            THEN has_limit' = TRUE /\ limit_rows' = L!Total(v)
            ELSE UNCHANGED <<has_limit, limit_rows>>
      \/ ~L!Pushable(v) /\ UNCHANGED <<has_limit, limit_rows>>
  BY <1>2 DEF FirebirdPushLimit, L!Next, L!PushLimit, L!PassBy, L!Pushable, L!ReachesGet, L!Total
<1>5. has_limit \in BOOLEAN /\ limit_rows \in L!Index
  BY DEF IInv, TypeOK
<1>6. v \in 1..Len(plan) /\ visited' = v
  BY <1>2
<1>7. \A i \in 1..v : i \in 1..Len(plan) /\ (i \in 1..visited \/ i = v)
  BY <1>2
<1>8. \A i \in 1..visited : i \in 1..v
  BY <1>2
<1>9. \A i \in 1..Len(plan) : L!Pushable(i) => L!Total(i) \in Nat /\ L!Total(i) \in L!Index
  BY <1>2, PushableIs DEF L!Index
<1>10. limit_rows \in Nat
  BY <1>5, StatementAssumption DEF L!Index, StatementAssumption
<1> DEFINE before == /\ has_limit => \E i \in 1..visited : L!Pushable(i) /\ limit_rows = L!Total(i)
                     /\ \A i \in 1..visited :
                          L!Pushable(i) => has_limit /\ limit_rows <= L!Total(i)
           after == /\ has_limit' => \E i \in 1..v : L!Pushable(i) /\ limit_rows' = L!Total(i)
                    /\ \A i \in 1..v : L!Pushable(i) => has_limit' /\ limit_rows' <= L!Total(i)
<1>11. before
  BY DEF IInv, LimitOK
<1> HIDE DEF v
<1>12. has_limit' \in BOOLEAN /\ limit_rows' \in L!Index /\ after
  <2>1. CASE L!Pushable(v) /\ (~has_limit \/ L!Total(v) < limit_rows)
    <3>1. has_limit' = TRUE /\ limit_rows' = L!Total(v)
      BY <1>4, <2>1
    <3>2. limit_rows' \in L!Index /\ L!Total(v) <= L!Total(v)
      BY <1>6, <1>9, <2>1, <3>1
    <3>3. \A i \in 1..visited : L!Pushable(i) => L!Total(v) <= L!Total(i)
      <4>1. ASSUME NEW i \in 1..visited, L!Pushable(i) PROVE L!Total(v) <= L!Total(i)
        <5>1. has_limit /\ limit_rows <= L!Total(i)
          BY <1>11, <4>1
        <5>2. L!Total(v) < limit_rows
          BY <2>1, <5>1
        <5>3. L!Total(v) \in Nat /\ L!Total(i) \in Nat
          BY <1>6, <1>7, <1>8, <1>9, <2>1, <4>1
        <5>. QED BY <1>10, <5>1, <5>2, <5>3
      <4>. QED BY <4>1
    <3>4. v \in 1..v
      BY <1>6
    <3>5. \E i \in 1..v : L!Pushable(i) /\ limit_rows' = L!Total(i)
      BY <2>1, <3>1, <3>4, Zenon
    <3>6. \A i \in 1..v : L!Pushable(i) => has_limit' /\ limit_rows' <= L!Total(i)
      BY <1>7, <3>1, <3>2, <3>3, Zenon
    <3>. QED BY <3>1, <3>2, <3>5, <3>6
  <2>2. CASE ~(L!Pushable(v) /\ (~has_limit \/ L!Total(v) < limit_rows))
    <3>1. has_limit' = has_limit /\ limit_rows' = limit_rows
      BY <1>4, <2>2
    <3>2. L!Pushable(v) => has_limit /\ limit_rows <= L!Total(v)
      BY <1>6, <1>9, <1>10, <2>2
    <3>3. has_limit' => \E i \in 1..v : L!Pushable(i) /\ limit_rows' = L!Total(i)
      BY <1>8, <1>11, <3>1, Zenon
    <3>4. \A i \in 1..v : L!Pushable(i) => has_limit' /\ limit_rows' <= L!Total(i)
      BY <1>7, <1>11, <3>1, <3>2, Zenon
    <3>. QED BY <1>5, <3>1, <3>3, <3>4
  <2>. QED BY <2>1, <2>2
<1> HIDE DEF before
<1>13. LimitOK'
  <2>1. \A i \in 1..v : (L!Pushable(i)' <=> L!Pushable(i)) /\ L!Total(i)' = L!Total(i)
    BY <1>3, <1>7
  <2>2. /\ has_limit' => \E i \in 1..v : L!Pushable(i)' /\ limit_rows' = L!Total(i)'
        /\ \A i \in 1..v : L!Pushable(i)' => has_limit' /\ limit_rows' <= L!Total(i)'
    BY <1>12, <2>1, Zenon
  <2>. QED BY <1>6, <2>2, Zenon DEF LimitOK
<1>14. TypeOK'
  BY <1>1, <1>2, <1>12 DEF IInv, TypeOK
<1>15. OrderOK'
  BY <1>1, <1>2 DEF OrderOK
<1>16. ClausesOK'
  BY <1>1, ClausesFrame DEF IInv
<1>. QED BY <1>13, <1>14, <1>15, <1>16 DEF IInv

(* The filter to translate next.                                           *)
LEMMA AtEntry ==
  ASSUME IInv, AtFilter
  PROVE  /\ entry \in DOMAIN filters /\ entry \in 1..Len(column_ids) /\ sql = <<>>
         /\ Translated # Threw =>
              /\ column_ids[entry] \in Columns /\ Translated = TextOf(entry)
              /\ \/ Translated = Skipped
                 \/ \E text \in Texts[Depth] \ {<<>>} : Translated = Clause(text)
<1>1. /\ entry \in DOMAIN filters /\ outcome = "building"
      /\ DOMAIN filters \subseteq DOMAIN column_ids
      /\ column_ids \in Seq(Columns \cup {VirtualColumn})
      /\ filters[entry] \in Filters[Depth]
  BY DEF IInv, TypeOK, AtFilter
<1>2. entry \in 1..Len(column_ids) /\ column_ids[entry] \in Columns \cup {VirtualColumn}
  BY <1>1
<1>3. sql = <<>>
  BY <1>1 DEF IInv, OrderOK
<1>4. ASSUME Translated # Threw
      PROVE  /\ column_ids[entry] \in Columns /\ Translated = TextOf(entry)
             /\ \/ Translated = Skipped
                \/ \E text \in Texts[Depth] \ {<<>>} : Translated = Clause(text)
  <2>1. column_ids[entry] # VirtualColumn /\ Translated = TextOf(entry)
    BY <1>4 DEF Translated, TextOf
  <2>2. column_ids[entry] \in Columns /\ Depth \in 0..Depth
    BY <1>2, <2>1
  <2>3. Says(Depth, filters[entry], column_ids[entry], TextOf(entry))
    BY <1>1, <2>2, TranslateSays DEF TextOf
  <2>4. TextOf(entry) = Skipped \/ \E text \in Texts[Depth] \ {<<>>} : TextOf(entry) = Clause(text)
    BY <1>4, <2>1, <2>3, Zenon DEF Says
  <2>. QED BY <2>1, <2>2, <2>4
<1>. QED BY <1>1, <1>2, <1>3, <1>4

LEMMA ResultIs ==
  /\ Skipped.result = "skipped" /\ Threw.result = "threw"
  /\ \A text : Clause(text).result = "clause" /\ Clause(text).text = text
BY DEF Skipped, Threw, Clause

LEMMA AddClauseInv ==
  ASSUME IInv, Optimized, AddClause, UNCHANGED <<query, sql>>
  PROVE  IInv'
<1>1. /\ AtFilter /\ Translated.result = "clause"
      /\ clauses' = Append(clauses, Translated.text) /\ entry' = entry + 1
      /\ UNCHANGED <<column_ids, filters, outcome>>
  BY DEF AddClause
<1>2. /\ entry \in DOMAIN filters /\ entry \in 1..Len(column_ids) /\ sql = <<>>
      /\ column_ids[entry] \in Columns /\ Translated = TextOf(entry)
      /\ Translated.text \in Texts[Depth] \ {<<>>} /\ Translated = Clause(Translated.text)
  <2>1. Translated # Threw /\ Translated # Skipped
    BY <1>1, ResultIs
  <2>2. PICK text \in Texts[Depth] \ {<<>>} : Translated = Clause(text)
    BY <1>1, <2>1, AtEntry
  <2>3. Translated.text = text
    BY <2>2, ResultIs
  <2>. QED BY <1>1, <2>1, <2>2, <2>3, AtEntry
<1> DEFINE n == Len(clauses)
           text == Translated.text
<1>3. /\ clauses \in Seq(Texts[Depth] \ {<<>>}) /\ n \in Nat /\ DOMAIN clauses = 1..n
      /\ column_ids \in Seq(Columns \cup {VirtualColumn}) /\ Len(column_ids) \in Nat
      /\ DOMAIN filters \subseteq Nat
  BY DEF IInv, TypeOK
<1> HIDE DEF text
<1>4. /\ clauses' \in Seq(Texts[Depth] \ {<<>>}) /\ DOMAIN clauses' = 1..n + 1
      /\ clauses'[n + 1] = text /\ \A k \in 1..n : clauses'[k] = clauses[k]
  BY <1>1, <1>2, <1>3 DEF text
<1>5. TypeOK'
  <2>1. entry' \in 1..Len(column_ids) + 1
    BY <1>1, <1>2, <1>3
  <2>. QED BY <1>1, <1>2, <1>4, <2>1 DEF IInv, TypeOK, query
<1>6. OrderOK'
  BY <1>1, <1>2 DEF IInv, TypeOK, OrderOK, Optimized, query, AtFilter
<1> HIDE DEF n
<1>7. ASSUME NEW i \in DOMAIN filters, i < entry'
      PROVE  /\ column_ids[i] \in Columns
             /\ TextOf(i) = Skipped \/ \E k \in 1..n + 1 : TextOf(i) = Clause(clauses'[k])
  <2>1. CASE i = entry
    <3>1. TextOf(i) = Clause(clauses'[n + 1]) /\ n + 1 \in 1..n + 1
      BY <1>2, <1>3, <1>4, <2>1 DEF text
    <3>. QED BY <1>2, <2>1, <3>1
  <2>2. CASE i # entry
    <3>1. i < entry
      BY <1>1, <1>2, <1>3, <1>7, <2>2
    <3>2. /\ column_ids[i] \in Columns
          /\ TextOf(i) = Skipped \/ \E k \in 1..n : TextOf(i) = Clause(clauses[k])
      BY <1>3, <3>1 DEF IInv, ClausesOK
    <3>3. \A k \in 1..n : k \in 1..n + 1
      BY <1>3
    <3>. QED BY <1>4, <3>2, <3>3
  <2>. QED BY <2>1, <2>2
<1>8. ASSUME NEW k \in 1..n + 1
      PROVE  \E i \in DOMAIN filters : i < entry' /\ TextOf(i) = Clause(clauses'[k])
  <2>1. CASE k = n + 1
    <3>1. entry < entry' /\ TextOf(entry) = Clause(clauses'[k])
      BY <1>1, <1>2, <1>3, <1>4, <2>1 DEF text
    <3>. QED BY <1>2, <3>1
  <2>2. CASE k # n + 1
    <3>1. k \in 1..n
      BY <1>3, <2>2
    <3>2. PICK i \in DOMAIN filters : i < entry /\ TextOf(i) = Clause(clauses[k])
      BY <1>3, <3>1 DEF IInv, ClausesOK
    <3>3. i < entry'
      BY <1>1, <1>2, <1>3, <3>2
    <3>. QED BY <1>4, <3>1, <3>2, <3>3
  <2>. QED BY <2>1, <2>2
<1>9. ClausesOK'
  <2>1. \A i : TextOf(i)' = TextOf(i)
    BY <1>1 DEF TextOf
  <2>. QED BY <1>1, <1>4, <1>7, <1>8, <2>1 DEF ClausesOK
<1>10. LimitOK'
  BY LimitFrame DEF IInv
<1>. QED BY <1>5, <1>6, <1>9, <1>10 DEF IInv

(* A step to the next index that adds no clause.                           *)
LEMMA NextIndexInv ==
  ASSUME IInv, Optimized, outcome = "building", entry \in 1..Len(column_ids),
         entry' = entry + 1, UNCHANGED <<column_ids, filters, clauses, outcome, query, sql>>,
         entry \in DOMAIN filters => column_ids[entry] \in Columns /\ TextOf(entry) = Skipped
  PROVE  IInv'
<1>1. /\ Len(column_ids) \in Nat /\ DOMAIN filters \subseteq Nat /\ sql = <<>>
  BY DEF IInv, TypeOK, OrderOK
<1>2. TypeOK'
  <2>1. entry' \in 1..Len(column_ids) + 1
    BY <1>1
  <2>. QED BY <1>1, <2>1 DEF IInv, TypeOK, query
<1>3. OrderOK'
  BY <1>1 DEF IInv, TypeOK, OrderOK, Optimized, query
<1>4. ASSUME NEW i \in DOMAIN filters, i < entry'
      PROVE  /\ column_ids[i] \in Columns
             /\ TextOf(i) = Skipped \/ \E k \in DOMAIN clauses : TextOf(i) = Clause(clauses[k])
  <2>1. i = entry \/ i < entry
    BY <1>1, <1>4
  <2>. QED BY <2>1 DEF IInv, ClausesOK
<1>5. ASSUME NEW k \in DOMAIN clauses
      PROVE  \E i \in DOMAIN filters : i < entry' /\ TextOf(i) = Clause(clauses[k])
  <2>1. PICK i \in DOMAIN filters : i < entry /\ TextOf(i) = Clause(clauses[k])
    BY DEF IInv, ClausesOK
  <2>2. i < entry'
    BY <1>1, <2>1
  <2>. QED BY <2>1, <2>2
<1>6. ClausesOK'
  <2>1. \A i : TextOf(i)' = TextOf(i)
    BY DEF TextOf
  <2>. QED BY <1>4, <1>5, <2>1 DEF ClausesOK
<1>7. LimitOK'
  BY LimitFrame DEF IInv
<1>. QED BY <1>2, <1>3, <1>6, <1>7 DEF IInv

LEMMA ClauseInv ==
  ASSUME IInv, BuildWhereClause
  PROVE  IInv'
<1>1. Optimized /\ UNCHANGED <<query, sql>>
  BY DEF BuildWhereClause
<1>2. CASE AddClause
  BY <1>1, <1>2, AddClauseInv
<1>3. CASE SkipFilter
  <2>1. /\ AtFilter /\ Translated.result = "skipped" /\ entry' = entry + 1
        /\ UNCHANGED <<column_ids, filters, clauses, outcome>>
    BY <1>3 DEF SkipFilter
  <2>2. Translated # Threw /\ \A text : Translated # Clause(text)
    BY <2>1, ResultIs
  <2>3. /\ entry \in 1..Len(column_ids) /\ column_ids[entry] \in Columns
        /\ TextOf(entry) = Skipped
    BY <2>1, <2>2, AtEntry
  <2>4. outcome = "building"
    BY <2>1 DEF AtFilter
  <2>. QED BY <1>1, <2>1, <2>3, <2>4, NextIndexInv
<1>4. CASE NoFilter
  <2>1. /\ outcome = "building" /\ entry \in DOMAIN column_ids /\ entry \notin DOMAIN filters
        /\ entry' = entry + 1 /\ UNCHANGED <<column_ids, filters, clauses, outcome>>
    BY <1>4 DEF NoFilter
  <2>2. entry \in 1..Len(column_ids)
    BY <2>1 DEF IInv, TypeOK
  <2>. QED BY <1>1, <2>1, <2>2, NextIndexInv
<1>5. CASE Throw
  <2>1. outcome' = "threw" /\ UNCHANGED <<column_ids, filters, entry, clauses>> /\ sql = <<>>
    BY <1>5, AtEntry DEF Throw
  <2>2. TypeOK'
    BY <1>1, <2>1 DEF IInv, TypeOK, query
  <2>3. OrderOK'
    BY <1>1, <2>1 DEF IInv, TypeOK, OrderOK, Optimized, query
  <2>4. ClausesOK' /\ LimitOK'
    BY <1>1, <2>1, ClausesFrame, LimitFrame DEF IInv
  <2>. QED BY <2>2, <2>3, <2>4 DEF IInv
<1>6. CASE Build
  <2>1. /\ outcome = "building" /\ entry > Len(column_ids) /\ outcome' = "built"
        /\ UNCHANGED <<column_ids, filters, entry, clauses>> /\ sql = <<>>
    BY <1>6 DEF Build, IInv, OrderOK
  <2>2. TypeOK'
    BY <1>1, <2>1 DEF IInv, TypeOK, query
  <2>3. OrderOK'
    BY <1>1, <2>1 DEF IInv, TypeOK, OrderOK, Optimized, query
  <2>4. ClausesOK' /\ LimitOK'
    BY <1>1, <2>1, ClausesFrame, LimitFrame DEF IInv
  <2>. QED BY <2>2, <2>3, <2>4 DEF IInv
<1>. QED BY <1>2, <1>3, <1>4, <1>5, <1>6 DEF BuildWhereClause, Next

LEMMA InitGlobalInv ==
  ASSUME IInv, FirebirdInitGlobal
  PROVE  IInv'
<1>1. /\ outcome = "built" /\ sql' = [select |-> SelectList, rows |-> RowsClause]
      /\ UNCHANGED <<column_ids, filters, entry, clauses, outcome,
                     plan, visited, has_limit, limit_rows>>
  BY DEF FirebirdInitGlobal, vars, query
<1>2. SelectList' = SelectList /\ RowsClause' = RowsClause
  BY <1>1 DEF SelectList, RowsClause
<1>3. TypeOK'
  BY <1>1, <1>2 DEF IInv, TypeOK
<1>4. OrderOK'
  BY <1>1 DEF IInv, OrderOK
<1>5. ClausesOK' /\ LimitOK'
  BY <1>1, ClausesFrame, LimitFrame DEF IInv, query
<1>. QED BY <1>3, <1>4, <1>5 DEF IInv

LEMMA StutterInv ==
  ASSUME IInv, UNCHANGED <<vars, query, sql>>
  PROVE  IInv'
<1>1. UNCHANGED <<column_ids, filters, entry, clauses, outcome,
                  plan, visited, has_limit, limit_rows, sql>>
  BY DEF vars, query
<1>2. SelectList' = SelectList /\ RowsClause' = RowsClause
  BY <1>1 DEF SelectList, RowsClause
<1>3. TypeOK'
  BY <1>1, <1>2 DEF IInv, TypeOK
<1>4. OrderOK'
  BY <1>1 DEF IInv, OrderOK
<1>5. ClausesOK' /\ LimitOK'
  BY <1>1, ClausesFrame, LimitFrame DEF IInv, query
<1>. QED BY <1>3, <1>4, <1>5 DEF IInv

(* The clauses are the texts of the filters looked at so far, and the      *)
(* limit is that of a pushable LIMIT, the smallest, whatever the plan, the *)
(* projection and the filters.                                             *)
THEOREM Inductive == StatementSpec => []IInv
<1>1. ASSUME IInv, [StatementNext]_<<vars, query, sql>> PROVE IInv'
  BY <1>1, OptimizerInv, ClauseInv, InitGlobalInv, StutterInv DEF StatementNext
<1>. QED BY <1>1, InitInv, PTL DEF StatementSpec

-----------------------------------------------------------------------------
(* What the invariant says of the statement.                               *)

(* Every variable keeps its type: the filters are trees of at most Depth   *)
(* levels, the clauses texts of at most Depth levels, and none is empty.   *)
THEOREM TypeCorrect == StatementSpec => []TypeOK
<1>1. IInv => TypeOK
  BY DEF IInv
<1>. QED BY <1>1, Inductive, PTL

LEMMA NarrowsNone ==
  ASSUME IInv
  PROVE  NeverNarrows
BY WantedSelected DEF IInv, NeverNarrows

(* TranslateFilter, BuildWhereClause: every row that passes the filters    *)
(* passes the WHERE clause, though optional filters are left out and the   *)
(* texts are joined with AND without parentheses.                          *)
THEOREM WhereNeverNarrows == StatementSpec => []NeverNarrows
<1>. QED BY NarrowsNone, Inductive, PTL

LEMMA Answered ==
  ASSUME IInv
  PROVE  QueryAnswered
<1> SUFFICES ASSUME sql # <<>>, ~Joined
             PROVE  /\ \A table \in Tables :
                         L!Result(Answer(table)) = L!Result(WantedOf(table))
                    /\ sql.select # <<>>
                    /\ \A i \in DOMAIN column_ids :
                         column_ids[i] \in Columns => sql.select[i] = column_ids[i]
  BY DEF QueryAnswered
<1>1. /\ TypeOK /\ OrderOK /\ ClausesOK /\ LimitOK /\ outcome = "built"
      /\ sql = [select |-> SelectList, rows |-> RowsClause]
      /\ plan \in L!Plans /\ visited \in 0..Len(plan) /\ has_limit \in BOOLEAN
  BY DEF IInv, TypeOK, OrderOK
<1>2. sql.select = SelectList /\ sql.rows = RowsClause
  BY <1>1
<1>3. ASSUME NEW table \in Tables
      PROVE  L!Result(Answer(table)) = L!Result(WantedOf(table))
  <2> DEFINE kept == InOrder(table, {i \in DOMAIN table : Selected(table[i])})
  <2>1. table \in Seq(Rows)
    BY StatementAssumption DEF StatementAssumption
  <2>2. \A i \in DOMAIN table : Selected(table[i]) <=> Wanted(table[i])
    <3>1. ASSUME NEW i \in DOMAIN table
          PROVE  Selected(table[i]) <=> Wanted(table[i])
      <4>1. table[i] \in Rows
        BY <2>1
      <4>. QED BY <1>1, <4>1, WantedSelected, SelectedWanted
    <3>. QED BY <3>1
  <2>3. kept = WantedOf(table)
    <3>1. {i \in DOMAIN table : Selected(table[i])} = {i \in DOMAIN table : Wanted(table[i])}
      BY <2>2
    <3>. QED BY <3>1, Zenon DEF WantedOf
  <2>4. kept \in Seq(Nat)
    BY <2>1, InOrderIn
  <2>5. Answer(table) = IF sql.rows = <<>> THEN kept ELSE L!First(sql.rows[1], kept)
    BY Zenon DEF Answer
  <2> HIDE DEF kept
  <2>6. CASE ~has_limit
    <3>1. sql.rows = <<>>
      BY <1>2, <2>6 DEF RowsClause
    <3>. QED BY <2>3, <2>5, <3>1
  <2>7. CASE has_limit
    <3>1. sql.rows # <<>> /\ sql.rows[1] = limit_rows
      BY <1>2, <2>7 DEF RowsClause
    <3>2. PICK i \in 1..visited : L!Pushable(i) /\ limit_rows = L!Total(i)
      BY <1>1, <2>7 DEF LimitOK
    <3>3. i \in 1..Len(plan)
      <4>1. Len(plan) \in Nat
        BY <1>1 DEF L!Plans
      <4>. QED BY <1>1, <4>1
    <3>4. Answer(table) = L!First(L!Total(i), kept)
      BY <2>5, <3>1, <3>2
    <3>5. L!Result(L!First(L!Total(i), kept)) = L!Result(kept)
      BY <1>1, <2>4, <3>2, <3>3, LimitKept
    <3>. QED BY <2>3, <3>4, <3>5, Zenon
  <2>. QED BY <1>1, <2>6, <2>7
<1>4. SelectList # <<>>
  <2>1. CASE column_ids = <<>>
    BY <2>1 DEF SelectList
  <2>2. CASE column_ids # <<>>
    <3>1. 1 \in DOMAIN column_ids
      BY <1>1, <2>2 DEF TypeOK
    <3>2. DOMAIN SelectList = DOMAIN column_ids
      BY <2>2 DEF SelectList
    <3>3. DOMAIN <<>> = {}
      OBVIOUS
    <3>. QED BY <3>1, <3>2, <3>3
  <2>. QED BY <2>1, <2>2
<1>5. ASSUME NEW i \in DOMAIN column_ids, column_ids[i] \in Columns
      PROVE  SelectList[i] = column_ids[i]
  <2>1. column_ids # <<>>
    OBVIOUS
  <2>. QED BY <1>5, <2>1 DEF SelectList
<1>. QED BY <1>2, <1>3, <1>4, <1>5

(* FirebirdInitGlobal: WHERE and ROWS in one statement leave the result of *)
(* the query as it is, for every table, filters and plan; the exception    *)
(* are texts with an OR that are joined with AND.                          *)
THEOREM StatementAnswers == StatementSpec => []QueryAnswered
<1>. QED BY Answered, Inductive, PTL

LEMMA LimitPushed ==
  ASSUME IInv
  PROVE  DirectLimitPushed
<1> SUFFICES ASSUME NEW i \in 1..Len(plan) - 1,
                    visited = Len(plan), plan[i].type = "LIMIT",
                    {plan[j].type : j \in i + 1 .. Len(plan)} \subseteq {"PROJECTION", "GET"},
                    plan[i].limit_val.type = "CONSTANT_VALUE",
                    plan[i].offset_val.type # "EXPRESSION_VALUE",
                    plan[i].limit_val.value + plan[i].offset_val.value <= MaxIndex
             PROVE  /\ has_limit
                    /\ limit_rows <= plan[i].limit_val.value + plan[i].offset_val.value
  BY Zenon DEF DirectLimitPushed, L!DirectLimitPushed
<1>1. /\ plan \in L!Plans /\ Len(plan) \in Nat \ {0}
      /\ \A j \in 1..Len(plan) : plan[j] \in L!Operators \cup {L!Get}
      /\ \A j \in 1..Len(plan) : plan[j] = L!Get <=> j = Len(plan)
  BY DEF IInv, TypeOK, L!Plans
<1>2. i \in 1..Len(plan) /\ i \in 1..visited
  BY <1>1
<1>3. L!Pushable(i)
  <2>1. PICK v \in L!Limits, w \in L!Offsets : plan[i] = L!Operator("LIMIT", v, w)
    <3>1. L!Get.type = "GET" /\ \A t : L!Plain(t).type = t
      BY DEF L!Get, L!Plain, L!Operator
    <3>. QED BY <1>1, <1>2, <3>1 DEF L!Operators
  <2>2. plan[i].limit_val = v /\ plan[i].offset_val = w
    BY <2>1 DEF L!Operator
  <2>3. /\ v.value \in 0..MaxIndex /\ w.value \in 0..MaxIndex /\ MaxIndex \in Nat
        /\ w.type \in {"UNSET", "CONSTANT_VALUE", "EXPRESSION_VALUE"}
    BY StatementAssumption DEF L!Limits, L!Offsets, L!Node, L!NodeType, L!Index,
                               StatementAssumption
  <2>4. plan[i].offset_val.value <= MaxIndex - plan[i].limit_val.value
    BY <2>2, <2>3
  <2>5. plan[i].offset_val.type \in {"UNSET", "CONSTANT_VALUE"}
    BY <2>2, <2>3
  <2>6. L!ReachesGet(i)
    <3>1. ASSUME NEW j \in i + 1 .. Len(plan) - 1 PROVE plan[j].type = "PROJECTION"
      <4>1. j \in i + 1 .. Len(plan) /\ j \in 1..Len(plan) /\ j # Len(plan)
        BY <1>1
      <4>2. plan[j] \in L!Operators
        BY <1>1, <4>1
      <4>3. plan[j].type # "GET"
        BY <4>2 DEF L!Operators, L!Operator, L!Plain
      <4>4. plan[j].type \in {"PROJECTION", "GET"}
        BY <4>1
      <4>. QED BY <4>3, <4>4
    <3>. QED BY <3>1 DEF L!ReachesGet
  <2>. QED BY <2>4, <2>5, <2>6 DEF L!Pushable
<1>4. has_limit /\ limit_rows <= L!Total(i)
  BY <1>2, <1>3 DEF IInv, LimitOK
<1>. QED BY <1>1, <1>2, <1>3, <1>4, PushableIs

(* FirebirdPushLimit: a constant LIMIT with nothing but projections above  *)
(* the scan is in the ROWS clause, for every plan.                         *)
THEOREM LimitReachesScan == StatementSpec => []DirectLimitPushed
<1>. QED BY LimitPushed, Inductive, PTL
=============================================================================
