------------------------------ MODULE AttachProofs ------------------------------
(***************************************************************************)
(* That ParseDSN finds in an attach string the fields it was written from, *)
(* that ResolveParameters takes each parameter from the source that counts,*)
(* and that ATTACH is refused for a cause only, for any words, numbers,    *)
(* options and environment.                                                *)
(***************************************************************************)
EXTENDS Attach, SequenceTheorems, WellFoundedInduction, TLAPS

(* A set of numbers has a least one.                                       *)
LEMMA LeastOf ==
  ASSUME NEW S, S \subseteq Nat, S # {}
  PROVE  Min(S) \in S /\ \A x \in S : Min(S) <= x
<1> DEFINE R == OpToRel(<, Nat)
<1>1. IsWellFoundedOn(R, Nat)
  BY NatLessThanWellFounded
<1>2. \A x, y \in Nat : x < y => <<x, y>> \in R
  BY DEF OpToRel
<1> HIDE DEF R
<1>3. PICK x \in S : \A y \in S : <<y, x>> \notin R
  <2>1. S \subseteq Nat /\ S # {}
    OBVIOUS
  <2>. QED BY <1>1, <2>1, WFMin, Zenon
<1>4. ASSUME NEW y \in S PROVE x <= y
  <2>1. x \in Nat /\ y \in Nat
    OBVIOUS
  <2>2. ~(y < x)
    BY <1>2, <1>3, <2>1, Zenon
  <2>. QED BY <2>1, <2>2
<1>. QED BY <1>4 DEF Min

(* One of numbers that have a bound is the greatest: the one from which the *)
(* bound is least far.                                                     *)
LEMMA Greatest ==
  ASSUME NEW n \in Nat, NEW S, S \subseteq 0..n, S # {}
  PROVE  \E x \in S : \A y \in S : x >= y
<1> DEFINE D == {n - x : x \in S}
<1>1. D \subseteq Nat /\ D # {}
  <2>1. \A x \in S : n - x \in Nat
    OBVIOUS
  <2>. QED BY <2>1
<1>2. Min(D) \in D /\ \A d \in D : Min(D) <= d
  <2> HIDE DEF D
  <2>. QED BY <1>1, LeastOf
<1>3. PICK x \in S : Min(D) = n - x
  BY <1>2
<1>4. \A y \in S : n - x <= n - y
  BY <1>2, <1>3
<1>5. \A y \in S : x >= y
  BY <1>4
<1>. QED BY <1>5

(* A text without any of some marks.                                       *)
Free(text, marks) == \A i \in 1..Len(text) : text[i] \notin marks

LEMMA FindIs ==
  ASSUME NEW text, NEW mark
  PROVE  LET I == {i \in 1..Len(text) : text[i] = mark}
         IN  Find(text, mark) = IF I # {} THEN Min(I) ELSE 0
BY DEF Find, SelectInSeq

LEMMA FindNone ==
  ASSUME NEW text, NEW mark
  PROVE  Find(text, mark) = 0 <=> Free(text, {mark})
<1> DEFINE I == {i \in 1..Len(text) : text[i] = mark}
<1>1. Find(text, mark) = IF I # {} THEN Min(I) ELSE 0
  BY FindIs
<1>2. I = {} <=> Free(text, {mark})
  BY DEF Free
<1>3. I # {} => Min(I) # 0
  <2>1. I \subseteq Nat /\ 0 \notin I
    OBVIOUS
  <2> HIDE DEF I
  <2>. QED BY <2>1, LeastOf
<1> HIDE DEF I
<1>. QED BY <1>1, <1>2, <1>3

LEMMA SameText ==
  ASSUME NEW p \in Texts, NEW q \in Texts, Len(p) = Len(q),
         \A i \in 1..Len(p) : p[i] = q[i]
  PROVE  p = q
BY DEF Texts

(* The first mark behind a text without it.                                *)
LEMMA FindFirst ==
  ASSUME NEW p \in Texts, NEW q \in Texts, NEW mark \in Tokens, Free(p, {mark})
  PROVE  LET text == p \o (<<mark>> \o q)
         IN  /\ Find(text, mark) = Len(p) + 1
             /\ Before(text, Len(p) + 1) = p /\ After(text, Len(p) + 1) = q
<1> DEFINE text == p \o (<<mark>> \o q)
           n == Len(p)
           I == {i \in 1..Len(text) : text[i] = mark}
<1>1. /\ n \in Nat /\ Len(q) \in Nat /\ text \in Texts /\ Len(text) = n + 1 + Len(q)
      /\ \A i \in 1..n : text[i] = p[i]
      /\ text[n + 1] = mark
      /\ \A i \in 1..Len(q) : text[n + 1 + i] = q[i]
  BY DEF Texts
<1> HIDE DEF text
<1> HIDE DEF n
<1>2. Find(text, mark) = n + 1
  <2>1. n + 1 \in 1..Len(text)
    BY <1>1
  <2>2. ASSUME NEW i \in 1..Len(text), text[i] = mark PROVE n + 1 <= i
    <3>1. CASE i <= n
      <4>1. i \in 1..n
        BY <1>1, <3>1
      <4>. QED BY <1>1, <2>2, <4>1 DEF Free, n
    <3>. QED BY <1>1, <3>1
  <2>3. I \subseteq Nat /\ n + 1 \in I /\ \A i \in I : n + 1 <= i
    <3>1. I \subseteq Nat /\ n + 1 \in I
      BY <1>1, <2>1
    <3>. QED BY <2>2, <3>1
  <2>4. Find(text, mark) = IF I # {} THEN Min(I) ELSE 0
    BY FindIs
  <2> HIDE DEF I
  <2>5. Min(I) \in I /\ \A x \in I : Min(I) <= x
    BY <2>3, LeastOf
  <2>6. Min(I) = n + 1
    <3>1. Min(I) \in Nat /\ Min(I) <= n + 1 /\ n + 1 <= Min(I)
      BY <2>3, <2>5
    <3>. QED BY <1>1, <3>1
  <2>. QED BY <2>3, <2>4, <2>6
<1>3. Before(text, n + 1) = p
  <2>1. Before(text, n + 1) = SubSeq(text, 1, n)
    BY <1>1 DEF Before
  <2>2. SubSeq(text, 1, n) \in Texts /\ Len(SubSeq(text, 1, n)) = n
        /\ \A i \in 1..n : SubSeq(text, 1, n)[i] = p[i]
    BY <1>1 DEF Texts
  <2>. QED BY <2>1, <2>2, SameText DEF n
<1>4. After(text, n + 1) = q
  <2> DEFINE r == SubSeq(text, n + 2, Len(text))
  <2>1. After(text, n + 1) = r
    <3>1. n + 1 + 1 = n + 2
      BY <1>1
    <3>. QED BY <3>1 DEF After
  <2>2. r \in Texts /\ Len(r) = Len(q)
    BY <1>1 DEF Texts
  <2>3. ASSUME NEW i \in 1..Len(q) PROVE r[i] = q[i]
    <3>1. r[i] = text[n + 1 + i]
      BY <1>1 DEF Texts
    <3>. QED BY <1>1, <3>1
  <2> HIDE DEF r
  <2>. QED BY <2>1, <2>2, <2>3, SameText
<1>. QED BY <1>2, <1>3, <1>4 DEF text, n

LEMMA Concatenated ==
  ASSUME NEW p \in Texts, NEW q \in Texts
  PROVE  /\ p \o q \in Texts /\ Len(p \o q) = Len(p) + Len(q)
         /\ Len(p) \in Nat /\ (p = <<>> <=> Len(p) = 0)
         /\ p \o <<>> = p /\ <<>> \o p = p
         /\ \A marks : Free(p \o q, marks) <=> Free(p, marks) /\ Free(q, marks)
<1>1. /\ p \o q \in Texts /\ Len(p \o q) = Len(p) + Len(q)
      /\ Len(p) \in Nat /\ (p = <<>> <=> Len(p) = 0)
      /\ p \o <<>> = p /\ <<>> \o p = p
  BY DEF Texts
<1>2. ASSUME NEW marks PROVE Free(p \o q, marks) <=> Free(p, marks) /\ Free(q, marks)
  <2>1. /\ Len(q) \in Nat
        /\ \A i \in 1..Len(p) : i \in 1..Len(p \o q) /\ (p \o q)[i] = p[i]
        /\ \A i \in 1..Len(q) : Len(p) + i \in 1..Len(p \o q) /\ (p \o q)[Len(p) + i] = q[i]
        /\ \A i \in 1..Len(p \o q) : i \in 1..Len(p) \/ (i - Len(p) \in 1..Len(q) /\ Len(p) + (i - Len(p)) = i)
    BY <1>1 DEF Texts
  <2>. QED BY <2>1 DEF Free
<1>. QED BY <1>1, <1>2

LEMMA Associates ==
  ASSUME NEW p \in Texts, NEW q \in Texts, NEW r \in Texts
  PROVE  (p \o q) \o r = p \o (q \o r)
BY DEF Texts

LEMMA OneToken ==
  ASSUME NEW t \in Tokens
  PROVE  /\ <<t>> \in Texts /\ Len(<<t>>) = 1 /\ <<t>>[1] = t
         /\ \A marks : Free(<<t>>, marks) <=> t \notin marks
         /\ \A marks : Free(<<>>, marks)
<1> DEFINE r == <<t>>
<1>1. r \in Texts /\ Len(r) = 1 /\ r[1] = t
  <2>1. r \in Texts
    BY DEF Texts
  <2>. QED BY <2>1
<1>2. Len(<<>>) = 0
  OBVIOUS
<1> HIDE DEF r
<1>3. ASSUME NEW marks PROVE Free(r, marks) <=> t \notin marks
  <2>1. 1 \in 1..Len(r) /\ \A i \in 1..Len(r) : i = 1
    BY <1>1
  <2>. QED BY <1>1, <2>1 DEF Free
<1>4. ASSUME NEW marks PROVE Free(<<>>, marks)
  BY <1>2 DEF Free
<1>. QED BY <1>1, <1>3, <1>4 DEF r

LEMMA Prefixed ==
  ASSUME NEW t \in Tokens, NEW p \in Texts
  PROVE  /\ <<t>> \o p \in Texts /\ <<t>> \o p # <<>> /\ (<<t>> \o p)[1] = t
         /\ Tail(<<t>> \o p) = p
<1> DEFINE r == <<t>> \o p
<1>1. /\ r \in Texts /\ Len(r) = Len(p) + 1 /\ Len(p) \in Nat
      /\ r[1] = t /\ \A i \in 1..Len(p) : r[i + 1] = p[i]
  BY DEF Texts
<1> HIDE DEF r
<1>2. r # <<>>
  BY <1>1
<1>3. Tail(r) \in Texts /\ Len(Tail(r)) = Len(p)
      /\ \A i \in 1..Len(p) : Tail(r)[i] = r[i + 1]
  BY <1>1, <1>2 DEF Texts
<1>4. Tail(r) = p
  BY <1>1, <1>3, SameText
<1>. QED BY <1>1, <1>2, <1>4 DEF r

-----------------------------------------------------------------------------
(* What a source says.                                                     *)

LEMMA OverIs ==
  ASSUME NEW a, NEW b
  PROVE  /\ \A k : k \in DOMAIN Over(a, b) <=> k \in DOMAIN a \/ k \in DOMAIN b
         /\ \A k \in DOMAIN a : Over(a, b)[k] = a[k]
         /\ \A k \in DOMAIN b : k \notin DOMAIN a => Over(a, b)[k] = b[k]
BY DEF Over

LEMMA OnlyIs ==
  ASSUME NEW k, NEW v
  PROVE  DOMAIN Only(k, v) = {k} /\ Only(k, v)[k] = v
BY DEF Only

LEMMA PortIs ==
  ASSUME NEW text
  PROVE  IF text # <<>> /\ text[1] \in DOMAIN Number
         THEN /\ DOMAIN Port(text) = {"port"}
              /\ Port(text)["port"] = Number[text[1]] % (MaxPort + 1)
         ELSE DOMAIN Port(text) = {"threw"} /\ Port(text) = Only("threw", TRUE)
<1>1. CASE text # <<>> /\ text[1] \in DOMAIN Number
  <2>1. Port(text) = Only("port", Number[text[1]] % (MaxPort + 1))
    BY <1>1, Zenon DEF Port
  <2>. QED BY <1>1, <2>1, OnlyIs, Zenon
<1>2. CASE ~(text # <<>> /\ text[1] \in DOMAIN Number)
  <2>1. Port(text) = Only("threw", TRUE)
    BY <1>2, Zenon DEF Port
  <2>. QED BY <1>2, <2>1, OnlyIs, Zenon
<1>. QED BY <1>1, <1>2, Zenon

LEMMA ReadIs ==
  ASSUME NEW f \in Fields, NEW text
  PROVE  /\ f # "port" => DOMAIN Read(f, text) = {f} /\ Read(f, text)[f] = text
         /\ f = "port" => DOMAIN Read(f, text) \in {{"port"}, {"threw"}}
         /\ f \in DOMAIN Read(f, text) \/ "threw" \in DOMAIN Read(f, text)
         /\ \A k \in DOMAIN Read(f, text) : k = f \/ (f = "port" /\ k = "threw")
<1>1. CASE f # "port"
  <2>1. Read(f, text) = Only(f, text)
    BY <1>1, Zenon DEF Read
  <2>2. DOMAIN Read(f, text) = {f} /\ Read(f, text)[f] = text
    BY <2>1, OnlyIs, Zenon
  <2>. QED BY <1>1, <2>2, Zenon
<1>2. CASE f = "port"
  <2>1. Read(f, text) = Port(text)
    BY <1>2, Zenon DEF Read
  <2>2. DOMAIN Read(f, text) \in {{"port"}, {"threw"}}
    BY <2>1, PortIs, Zenon
  <2>. QED BY <1>2, <2>2, Zenon
<1>. QED BY <1>1, <1>2, Zenon

(* Each key is that of one field.                                          *)
LEMMA OneField ==
  ASSUME NEW f \in Fields, NEW g \in Fields, NEW s, NEW t, NEW k,
         k \in DOMAIN Read(f, s), k \in DOMAIN Read(g, t)
  PROVE  f = g
<1>1. k = f \/ (f = "port" /\ k = "threw")
  BY ReadIs, Zenon
<1>2. k = g \/ (g = "port" /\ k = "threw")
  BY ReadIs, Zenon
<1>3. "threw" \notin Fields
  BY DEF Fields
<1>. QED BY <1>1, <1>2, <1>3, Zenon

(* What was got is what those of F say that are among the fields.          *)
Means(got, fields, F) ==
    /\ \A k : k \in DOMAIN got <=>
                \E f \in F : f \in DOMAIN fields /\ k \in DOMAIN Read(f, fields[f])
    /\ \A f \in F : f \in DOMAIN fields =>
         \A k \in DOMAIN Read(f, fields[f]) : got[k] = Read(f, fields[f])[k]

LEMMA MeansOver ==
  ASSUME NEW a, NEW b, NEW fields, NEW F, NEW G, F \subseteq Fields, G \subseteq Fields,
         F \cap G = {}, Means(a, fields, F), Means(b, fields, G)
  PROVE  Means(Over(a, b), fields, F \cup G)
<1>1. ASSUME NEW k
      PROVE  k \in DOMAIN Over(a, b) <=>
               \E f \in F \cup G : f \in DOMAIN fields /\ k \in DOMAIN Read(f, fields[f])
  <2>1. k \in DOMAIN Over(a, b) <=> k \in DOMAIN a \/ k \in DOMAIN b
    BY OverIs
  <2>. QED BY <2>1, Zenon DEF Means
<1>2. ASSUME NEW f \in F \cup G, f \in DOMAIN fields, NEW k \in DOMAIN Read(f, fields[f])
      PROVE  Over(a, b)[k] = Read(f, fields[f])[k]
  <2>1. CASE f \in F
    <3>1. k \in DOMAIN a /\ a[k] = Read(f, fields[f])[k]
      BY <1>2, <2>1, Zenon DEF Means
    <3>. QED BY <3>1, OverIs
  <2>2. CASE f \in G
    <3>1. k \in DOMAIN b /\ b[k] = Read(f, fields[f])[k]
      BY <1>2, <2>2, Zenon DEF Means
    <3>2. k \notin DOMAIN a
      <4>1. SUFFICES ASSUME k \in DOMAIN a PROVE FALSE
        OBVIOUS
      <4>2. PICK g \in F : g \in DOMAIN fields /\ k \in DOMAIN Read(g, fields[g])
        BY <4>1, Zenon DEF Means
      <4>3. f \in Fields /\ g \in Fields
        BY <2>2
      <4>4. f = g
        BY <1>2, <4>2, <4>3, OneField
      <4>. QED BY <2>2, <4>2, <4>4
    <3>. QED BY <3>1, <3>2, OverIs
  <2>. QED BY <2>1, <2>2
<1>. QED BY <1>1, <1>2, Zenon DEF Means

LEMMA MeansNone ==
  ASSUME NEW fields, NEW F, \A f \in F : f \notin DOMAIN fields
  PROVE  Means(<<>>, fields, F)
<1>1. DOMAIN <<>> = {}
  OBVIOUS
<1>. QED BY <1>1 DEF Means

LEMMA MeansOne ==
  ASSUME NEW fields, NEW f \in DOMAIN fields
  PROVE  Means(Read(f, fields[f]), fields, {f})
BY DEF Means

-----------------------------------------------------------------------------
(* The settings behind the question mark.                                  *)

LEMMA TokensAre == Marks \cup Fields \cup Schemes \cup {"FB://"} \subseteq Tokens
BY AttachAssumption DEF Tokens, AttachAssumption

LEMMA ConcatAt ==
  ASSUME NEW p \in Texts, NEW q \in Texts
  PROVE  /\ Len(p) \in Nat /\ Len(q) \in Nat
         /\ p \o q \in Texts /\ Len(p \o q) = Len(p) + Len(q)
         /\ \A i \in 1..Len(p) : (p \o q)[i] = p[i]
         /\ \A i \in 1..Len(q) : (p \o q)[Len(p) + i] = q[i]
BY DEF Texts

LEMMA MarkedAt ==
  ASSUME NEW p \in Texts, NEW q \in Texts, NEW mark \in Tokens
  PROVE  LET r == p \o (<<mark>> \o q)
         IN  /\ r \in Texts /\ Len(r) = Len(p) + 1 + Len(q)
             /\ \A i \in 1..Len(p) : r[i] = p[i]
             /\ r[Len(p) + 1] = mark
             /\ \A i \in 1..Len(q) : r[Len(p) + 1 + i] = q[i]
BY DEF Texts

LEMMA ThreeTokens ==
  ASSUME NEW a \in Tokens, NEW b \in Tokens, NEW c \in Tokens, NEW v \in Texts
  PROVE  /\ <<a, b, c>> \o v = <<a>> \o (<<b>> \o (<<c>> \o v))
         /\ <<a, b, c>> \o v \in Texts
<1> DEFINE s == <<a, b, c>> \o v
           t == <<a>> \o (<<b>> \o (<<c>> \o v))
<1>1. /\ s \in Texts /\ Len(s) = Len(v) + 3 /\ s[1] = a /\ s[2] = b /\ s[3] = c
      /\ \A i \in 1..Len(v) : s[i + 3] = v[i]
  BY DEF Texts
<1>2. /\ t \in Texts /\ Len(t) = Len(v) + 3 /\ t[1] = a /\ t[2] = b /\ t[3] = c
      /\ \A i \in 1..Len(v) : t[i + 3] = v[i]
  BY DEF Texts
<1>3. Len(v) \in Nat
  BY DEF Texts
<1> HIDE DEF s, t
<1>4. ASSUME NEW i \in 1..Len(s) PROVE s[i] = t[i]
  <2>1. i = 1 \/ i = 2 \/ i = 3 \/ (i - 3 \in 1..Len(v) /\ (i - 3) + 3 = i)
    BY <1>1, <1>3
  <2>. QED BY <1>1, <1>2, <2>1
<1>5. s = t
  BY <1>1, <1>2, <1>4, SameText
<1>. QED BY <1>1, <1>5 DEF s, t

LEMMA AfterIs ==
  ASSUME NEW t \in Texts, NEW a \in 0..Len(t)
  PROVE  /\ After(t, a) \in Texts /\ Len(After(t, a)) = Len(t) - a
         /\ \A i \in 1..Len(t) - a : After(t, a)[i] = t[a + i]
<1> DEFINE r == SubSeq(t, a + 1, Len(t))
<1>1. Len(t) \in Nat /\ a \in Nat /\ a <= Len(t)
  BY DEF Texts
<1>2. r \in Texts /\ Len(r) = Len(t) - a
  BY <1>1 DEF Texts
<1>3. ASSUME NEW i \in 1..Len(t) - a PROVE r[i] = t[a + i]
  BY <1>1, <1>2 DEF Texts
<1>. QED BY <1>2, <1>3 DEF After

LEMMA AfterNone ==
  ASSUME NEW t \in Texts
  PROVE  After(t, 0) = t
<1>1. Len(t) \in Nat /\ 0 \in 0..Len(t) /\ Len(t) - 0 = Len(t)
      /\ \A i \in 1..Len(t) : 0 + i = i
  BY DEF Texts
<1>2. /\ After(t, 0) \in Texts /\ Len(After(t, 0)) = Len(t) - 0
      /\ \A i \in 1..Len(t) - 0 : After(t, 0)[i] = t[0 + i]
  BY <1>1, AfterIs
<1>. QED BY <1>1, <1>2, SameText

LEMMA AfterAppended ==
  ASSUME NEW t \in Texts, NEW w \in Texts, NEW a \in 0..Len(t)
  PROVE  After(t \o w, a) = After(t, a) \o w
<1> DEFINE r == t \o w
           u == After(t, a)
           x == After(r, a)
           y == u \o w
           n == Len(t)
           m == Len(w)
<1>1. /\ n \in Nat /\ m \in Nat /\ a \in Nat /\ a <= n
      /\ r \in Texts /\ Len(r) = n + m
      /\ \A i \in 1..n : r[i] = t[i]
      /\ \A i \in 1..m : r[n + i] = w[i]
  BY DEF Texts
<1>2. u \in Texts /\ Len(u) = n - a /\ \A i \in 1..n - a : u[i] = t[a + i]
  BY AfterIs
<1> HIDE DEF r, u, n, m
<1>3. /\ y \in Texts /\ Len(y) = (n - a) + m
      /\ \A i \in 1..n - a : y[i] = u[i]
      /\ \A i \in 1..m : y[(n - a) + i] = w[i]
  <2>1. /\ u \o w \in Texts /\ Len(u \o w) = Len(u) + m
        /\ \A i \in 1..Len(u) : (u \o w)[i] = u[i]
        /\ \A i \in 1..m : (u \o w)[Len(u) + i] = w[i]
    BY <1>2, ConcatAt DEF m
  <2>. QED BY <1>2, <2>1
<1>4. x \in Texts /\ Len(x) = Len(r) - a /\ \A i \in 1..Len(r) - a : x[i] = r[a + i]
  <2>1. a \in 0..Len(r)
    BY <1>1
  <2>. QED BY <1>1, <2>1, AfterIs
<1> HIDE DEF x, y
<1>5. ASSUME NEW i \in 1..(n + m) - a PROVE x[i] = y[i]
  <2>1. x[i] = r[a + i]
    BY <1>1, <1>4
  <2>2. CASE i <= n - a
    <3>1. i \in 1..n - a /\ a + i \in 1..n
      BY <1>1, <2>2
    <3>. QED BY <1>1, <1>2, <1>3, <2>1, <3>1
  <2>3. CASE i > n - a
    <3>1. /\ i - (n - a) \in 1..m /\ a + i = n + (i - (n - a))
          /\ i = (n - a) + (i - (n - a))
      BY <1>1, <2>3
    <3>2. r[n + (i - (n - a))] = w[i - (n - a)] /\ y[(n - a) + (i - (n - a))] = w[i - (n - a)]
      BY <1>1, <1>3, <3>1
    <3>. QED BY <2>1, <3>1, <3>2
  <2>. QED BY <1>1, <2>2, <2>3
<1>6. x = y
  <2>1. Len(x) = (n + m) - a /\ Len(y) = (n + m) - a
    BY <1>1, <1>3, <1>4
  <2>. QED BY <1>3, <1>4, <1>5, <2>1, SameText
<1>. QED BY <1>6 DEF x, y, r, u

(* A text with a mark is what is before its first and what is after it.    *)
LEMMA SplitsAtMark ==
  ASSUME NEW t \in Texts, NEW mark \in Tokens, Find(t, mark) # 0
  PROVE  \E p, q \in Texts : Free(p, {mark}) /\ t = p \o (<<mark>> \o q)
<1> DEFINE I == {i \in 1..Len(t) : t[i] = mark}
           k == Find(t, mark)
           p == Before(t, k)
           q == After(t, k)
           r == p \o (<<mark>> \o q)
<1>1. Len(t) \in Nat
  BY DEF Texts
<1>2. k \in 1..Len(t) /\ t[k] = mark /\ \A i \in 1..Len(t) : t[i] = mark => k <= i
  <2>1. k = IF I # {} THEN Min(I) ELSE 0
    BY FindIs
  <2>2. I \subseteq Nat /\ I # {} /\ k = Min(I)
    BY <1>1, <2>1
  <2>3. Min(I) \in I /\ \A x \in I : Min(I) <= x
    <3> HIDE DEF I
    <3>. QED BY <2>2, LeastOf
  <2>4. k \in I /\ \A x \in I : k <= x
    <3> HIDE DEF I, k
    <3>. QED BY <2>2, <2>3
  <2> HIDE DEF k
  <2>. QED BY <2>4
<1> HIDE DEF k
<1>3. p \in Texts /\ Len(p) = k - 1 /\ \A i \in 1..k - 1 : p[i] = t[i]
  BY <1>1, <1>2 DEF Texts, Before
<1>4. q \in Texts /\ Len(q) = Len(t) - k /\ \A i \in 1..Len(t) - k : q[i] = t[k + i]
  <2>1. k \in 0..Len(t)
    BY <1>1, <1>2
  <2>. QED BY <2>1, AfterIs
<1> HIDE DEF p, q
<1>5. Free(p, {mark})
  <2>1. ASSUME NEW i \in 1..Len(p) PROVE p[i] # mark
    <3>1. i \in 1..k - 1 /\ i \in 1..Len(t) /\ ~(k <= i)
      BY <1>1, <1>2, <1>3
    <3>. QED BY <1>2, <1>3, <3>1
  <2>. QED BY <2>1 DEF Free
<1>6. /\ r \in Texts /\ Len(r) = Len(p) + 1 + Len(q)
      /\ \A i \in 1..Len(p) : r[i] = p[i]
      /\ r[Len(p) + 1] = mark
      /\ \A i \in 1..Len(q) : r[Len(p) + 1 + i] = q[i]
  BY <1>3, <1>4, MarkedAt
<1> HIDE DEF r
<1>7. Len(r) = Len(t)
  BY <1>1, <1>2, <1>3, <1>4, <1>6
<1>8. ASSUME NEW i \in 1..Len(t) PROVE t[i] = r[i]
  <2>1. CASE i < k
    <3>1. i \in 1..k - 1 /\ i \in 1..Len(p)
      BY <1>1, <1>2, <1>3, <2>1
    <3>. QED BY <1>3, <1>6, <3>1
  <2>2. CASE i = k
    <3>1. Len(p) + 1 = k
      BY <1>1, <1>2, <1>3
    <3>. QED BY <1>2, <1>6, <2>2, <3>1
  <2>3. CASE i > k
    <3>1. i - k \in 1..Len(t) - k /\ i - k \in 1..Len(q) /\ k + (i - k) = i
          /\ Len(p) + 1 + (i - k) = i
      BY <1>1, <1>2, <1>3, <1>4, <2>3
    <3>2. q[i - k] = t[k + (i - k)] /\ r[Len(p) + 1 + (i - k)] = q[i - k]
      BY <1>4, <1>6, <3>1
    <3>. QED BY <3>1, <3>2
  <2>. QED BY <1>1, <1>2, <2>1, <2>2, <2>3
<1>9. t = r
  BY <1>6, <1>7, <1>8, SameText
<1>. QED BY <1>3, <1>4, <1>5, <1>9 DEF r

LEMMA MarkAssociates ==
  ASSUME NEW mark \in Tokens, NEW p \in Texts, NEW q \in Texts
  PROVE  /\ <<mark>> \in Texts /\ <<mark>> \o p \in Texts /\ p \o <<mark>> \in Texts
         /\ (<<mark>> \o p) \o q = <<mark>> \o (p \o q)
         /\ (p \o <<mark>>) \o q = p \o (<<mark>> \o q)
<1> DEFINE m == <<mark>>
<1>1. m \in Texts
  BY OneToken
<1> HIDE DEF m
<1>2. m \o p \in Texts /\ p \o m \in Texts
  BY <1>1, Concatenated
<1>3. (m \o p) \o q = m \o (p \o q) /\ (p \o m) \o q = p \o (m \o q)
  BY <1>1, Associates
<1>. QED BY <1>1, <1>2, <1>3 DEF m

(* The first mark stays where it is when a text goes on.                   *)
LEMMA FindGoesOn ==
  ASSUME NEW t \in Texts, NEW w \in Texts, NEW mark \in Tokens, Find(t, mark) # 0
  PROVE  /\ Find(t \o w, mark) = Find(t, mark)
         /\ Before(t \o w, Find(t, mark)) = Before(t, Find(t, mark))
<1>1. PICK p, q \in Texts : Free(p, {mark}) /\ t = p \o (<<mark>> \o q)
  BY SplitsAtMark
<1>2. <<mark>> \o q \in Texts /\ <<mark>> \in Texts /\ q \o w \in Texts
  BY Concatenated, OneToken
<1>3. t \o w = p \o (<<mark>> \o (q \o w))
  <2>1. t \o w = p \o ((<<mark>> \o q) \o w)
    <3> DEFINE k == <<mark>> \o q
    <3>1. k \in Texts /\ t = p \o k
      BY <1>1, <1>2
    <3> HIDE DEF k
    <3>2. (p \o k) \o w = p \o (k \o w)
      BY <3>1, Associates
    <3>. QED BY <3>1, <3>2 DEF k
  <2>2. (<<mark>> \o q) \o w = <<mark>> \o (q \o w)
    BY MarkAssociates
  <2>. QED BY <2>1, <2>2
<1>4. /\ Find(t, mark) = Len(p) + 1
      /\ Before(t, Len(p) + 1) = p
  BY <1>1, FindFirst
<1>5. /\ Find(t \o w, mark) = Len(p) + 1
      /\ Before(t \o w, Len(p) + 1) = p
  <2>1. LET u == p \o (<<mark>> \o (q \o w))
        IN  Find(u, mark) = Len(p) + 1 /\ Before(u, Len(p) + 1) = p
    BY <1>1, <1>2, FindFirst
  <2>. QED BY <1>3, <2>1, Zenon
<1>. QED BY <1>4, <1>5

SettingKeys == {"user", "password", "port", "charset"}

LEMMA SettingIs ==
  ASSUME NEW f \in SettingKeys, NEW v \in Texts
  PROVE  LET t == <<f>> \o (<<"=">> \o v)
         IN  t \in Texts /\ Setting(t) = Read(f, v)
<1> DEFINE t == <<f>> \o (<<"=">> \o v)
<1>1. /\ f \in Fields /\ f \in Tokens /\ "=" \in Tokens /\ f \notin Marks /\ "=" \in Marks
      /\ f \in DOMAIN Lower => Lower[f] = f
  <2>1. f \in Fields /\ "=" \in Marks
    BY Zenon DEF SettingKeys, Fields, Marks
  <2>2. Fields \subseteq Words /\ Words \cap Marks = {}
        /\ \A w \in DOMAIN Lower \cap (Fields \cup Schemes) : Lower[w] = w
    BY AttachAssumption DEF AttachAssumption
  <2>. QED BY <2>1, <2>2, TokensAre
<1>2. <<f>> \in Texts /\ Len(<<f>>) = 1 /\ Free(<<f>>, {"="})
  BY <1>1, OneToken
<1>3. t \in Texts
  BY <1>1, <1>2, Concatenated, Prefixed
<1>4. Find(t, "=") = 2 /\ Before(t, 2) = <<f>> /\ After(t, 2) = v
  <2>1. /\ Find(t, "=") = Len(<<f>>) + 1
        /\ Before(t, Len(<<f>>) + 1) = <<f>> /\ After(t, Len(<<f>>) + 1) = v
    BY <1>1, <1>2, FindFirst
  <2>2. Len(<<f>>) + 1 = 2
    BY <1>2
  <2> HIDE DEF t
  <2>. QED BY <2>1, <2>2, Zenon
<1> HIDE DEF t
<1>5. InCase(Lower, <<f>>) = <<f>>
  <2>1. DOMAIN <<f>> = {1} /\ <<f>>[1] = f
    OBVIOUS
  <2>2. <<f>> = [i \in DOMAIN <<f>> |-> <<f>>[i]]
    OBVIOUS
  <2>3. \A i \in DOMAIN <<f>> :
          (IF <<f>>[i] \in DOMAIN Lower THEN Lower[<<f>>[i]] ELSE <<f>>[i]) = <<f>>[i]
    BY <1>1, <2>1
  <2>. QED BY <2>2, <2>3, Zenon DEF InCase
<1>6. \A g : <<f>> = <<g>> <=> f = g
  OBVIOUS
<1>7. <<f>>[1] = f
  OBVIOUS
<1>8. 2 # 0
  OBVIOUS
<1>9. CASE f = "port"
  <2>1. Setting(t) = Port(v)
    BY <1>4, <1>5, <1>6, <1>8, <1>9, Zenon DEF Setting
  <2>. QED BY <1>3, <1>9, <2>1, Zenon DEF Read, t
<1>10. CASE f # "port"
  <2>1. <<f>> # <<"port">>
    BY <1>6, <1>10
  <2>2. <<f>> \in {<<"charset">>, <<"user">>, <<"password">>}
    <3>1. f = "user" \/ f = "password" \/ f = "charset"
      BY <1>10, Zenon DEF SettingKeys
    <3>. QED BY <3>1, Zenon
  <2>3. Setting(t) = Only(f, v)
    BY <1>4, <1>5, <1>7, <1>8, <2>1, <2>2, Zenon DEF Setting
  <2>. QED BY <1>3, <1>10, <2>3, Zenon DEF Read, t
<1>. QED BY <1>9, <1>10, Zenon

LEMMA AmpersandIs == "&" \in Tokens
BY TokensAre DEF Marks

LEMMA QueryOne ==
  ASSUME NEW t \in Texts, Free(t, {"&"})
  PROVE  DOMAIN Query(t) = DOMAIN Setting(t)
         /\ \A f \in DOMAIN Setting(t) : Query(t)[f] = Setting(t)[f]
<1>1. Starts(t) = {0}
  <2>1. DOMAIN t = 1..Len(t)
    BY DEF Texts
  <2>. QED BY <2>1 DEF Starts, Free
<1>2. Piece(t, 0) = t
  <2>1. After(t, 0) = t
    BY AfterNone
  <2>2. Find(t, "&") = 0
    BY FindNone
  <2>. QED BY <2>1, <2>2, Zenon DEF Piece
<1> DEFINE D == UNION {DOMAIN Setting(Piece(t, a)) : a \in Starts(t)}
           V(f) == Setting(Piece(t, Max({a \in Starts(t) : f \in DOMAIN Setting(Piece(t, a))})))[f]
<1>3. Query(t) = [f \in D |-> V(f)]
  BY DEF Query
<1>4. D = DOMAIN Setting(t)
  BY <1>1, <1>2
<1>5. ASSUME NEW f \in DOMAIN Setting(t) PROVE V(f) = Setting(t)[f]
  <2>1. {a \in Starts(t) : f \in DOMAIN Setting(Piece(t, a))} = {0}
    BY <1>1, <1>2
  <2>2. Max({0}) = 0
    BY DEF Max
  <2>. QED BY <1>2, <2>1, <2>2, Zenon
<1> HIDE DEF D, V
<1>. QED BY <1>3, <1>4, <1>5

LEMMA QueryMore ==
  ASSUME NEW t \in Texts, NEW p \in Texts, Free(p, {"&"})
  PROVE  LET u == t \o (<<"&">> \o p)
             both == Over(Setting(p), Query(t))
         IN  DOMAIN Query(u) = DOMAIN both /\ \A f \in DOMAIN both : Query(u)[f] = both[f]
<1> DEFINE w == <<"&">> \o p
           u == t \o w
           n == Len(t)
           both == Over(Setting(p), Query(t))
<1>1. w \in Texts /\ Len(w) = 1 + Len(p) /\ w[1] = "&" /\ Len(p) \in Nat /\ n \in Nat
      /\ \A i \in 1..Len(p) : w[1 + i] = p[i]
  BY AmpersandIs DEF Texts
<1>2. /\ u \in Texts /\ Len(u) = n + 1 + Len(p)
      /\ \A i \in 1..n : u[i] = t[i]
      /\ u[n + 1] = "&"
      /\ \A i \in 1..Len(p) : u[n + 1 + i] = p[i]
  <2>1. \A mark \in Tokens :
          LET r == t \o (<<mark>> \o p)
          IN  /\ r \in Texts /\ Len(r) = n + 1 + Len(p)
              /\ \A i \in 1..n : r[i] = t[i]
              /\ r[n + 1] = mark
              /\ \A i \in 1..Len(p) : r[n + 1 + i] = p[i]
    BY MarkedAt
  <2>. QED BY <2>1, AmpersandIs, Zenon
<1>3. DOMAIN u = 1..Len(u) /\ DOMAIN t = 1..n
  BY <1>2 DEF Texts
<1> HIDE DEF n, u
<1>4. Starts(u) = Starts(t) \cup {n + 1} /\ \A a \in Starts(t) : a \in 0..n
  <2>1. ASSUME NEW i \in 1..Len(p) PROVE u[n + 1 + i] # "&"
    BY <1>2 DEF Free
  <2>2. ASSUME NEW i \in DOMAIN u, u[i] = "&" PROVE i \in Starts(t) \cup {n + 1}
    <3>1. i \in 1..n \/ i = n + 1 \/ (i - (n + 1) \in 1..Len(p) /\ n + 1 + (i - (n + 1)) = i)
      BY <1>1, <1>2, <1>3
    <3>. QED BY <1>2, <1>3, <2>1, <2>2, <3>1 DEF Starts
  <2>3. n + 1 \in Starts(u)
    BY <1>1, <1>2, <1>3 DEF Starts
  <2>4. ASSUME NEW i \in DOMAIN t, t[i] = "&" PROVE i \in Starts(u)
    <3>1. i \in DOMAIN u
      BY <1>1, <1>2, <1>3
    <3>. QED BY <1>2, <1>3, <2>4, <3>1 DEF Starts
  <2>5. \A a \in Starts(t) : a \in 0..n
    BY <1>1, <1>3 DEF Starts
  <2>6. Starts(u) \subseteq Starts(t) \cup {n + 1}
    BY <2>2 DEF Starts
  <2>7. Starts(t) \subseteq Starts(u)
    BY <2>4 DEF Starts
  <2>. QED BY <2>3, <2>5, <2>6, <2>7
<1>5. ASSUME NEW a \in Starts(t) PROVE Piece(u, a) = Piece(t, a)
  <2> DEFINE rest == After(t, a)
  <2>1. rest \in Texts
    BY <1>4, AfterIs DEF n
  <2>2. After(u, a) = rest \o w
    BY <1>1, <1>4, AfterAppended DEF n, u
  <2>3. CASE Find(rest, "&") # 0
    <3>1. /\ Find(rest \o w, "&") = Find(rest, "&")
          /\ Before(rest \o w, Find(rest, "&")) = Before(rest, Find(rest, "&"))
      BY <1>1, <2>1, <2>3, AmpersandIs, FindGoesOn
    <3>. QED BY <2>2, <2>3, <3>1, Zenon DEF Piece
  <2>4. CASE Find(rest, "&") = 0
    <3>1. Free(rest, {"&"})
      BY <2>4, FindNone
    <3>2. /\ Find(rest \o w, "&") = Len(rest) + 1
          /\ Before(rest \o w, Len(rest) + 1) = rest
      BY <2>1, <3>1, AmpersandIs, FindFirst
    <3>3. Len(rest) + 1 # 0
      <4>1. Len(rest) \in Nat
        BY <2>1, Concatenated
      <4>. QED BY <4>1
    <3>4. Piece(u, a) = rest
      <4>1. Find(After(u, a), "&") # 0 /\ Before(After(u, a), Find(After(u, a), "&")) = rest
        BY <2>2, <3>2, <3>3, Zenon
      <4>. QED BY <4>1, Zenon DEF Piece
    <3>. QED BY <2>4, <3>4, Zenon DEF Piece
  <2>. QED BY <2>3, <2>4
<1>6. Piece(u, n + 1) = p
  <2>1. After(u, n + 1) \in Texts /\ Len(After(u, n + 1)) = Len(u) - (n + 1)
        /\ \A i \in 1..Len(u) - (n + 1) : After(u, n + 1)[i] = u[n + 1 + i]
    <3>1. n + 1 \in 0..Len(u)
      BY <1>1, <1>2
    <3>. QED BY <1>2, <3>1, AfterIs
  <2>2. Len(u) - (n + 1) = Len(p)
    BY <1>1, <1>2
  <2>3. After(u, n + 1) = p
    <3>1. \A i \in 1..Len(p) : After(u, n + 1)[i] = p[i]
      BY <1>2, <2>1, <2>2
    <3>. QED BY <2>1, <2>2, <3>1, SameText
  <2>4. Find(p, "&") = 0
    BY FindNone
  <2>. QED BY <2>3, <2>4, Zenon DEF Piece
<1> HIDE DEF w
<1> DEFINE S(x, a) == Setting(Piece(x, a))
           Saying(x, f) == {a \in Starts(x) : f \in DOMAIN S(x, a)}
           D(x) == UNION {DOMAIN S(x, a) : a \in Starts(x)}
<1>7. \A x : Query(x) = [f \in D(x) |-> S(x, Max(Saying(x, f)))[f]]
  BY DEF Query
<1>8. \A a \in Starts(t) : S(u, a) = S(t, a)
  BY <1>5
<1>9. S(u, n + 1) = Setting(p)
  BY <1>6
<1> HIDE DEF S
<1>10. \A x : DOMAIN Query(x) = D(x)
       /\ \A f \in D(x) : Query(x)[f] = S(x, Max(Saying(x, f)))[f]
  <2> HIDE DEF D, Saying
  <2>. QED BY <1>7
<1>11. D(u) = D(t) \cup DOMAIN Setting(p)
  BY <1>4, <1>8, <1>9
<1>12. DOMAIN both = D(u)
  <2> HIDE DEF D
  <2>. QED BY <1>10, <1>11 DEF Over
<1>13. ASSUME NEW f \in DOMAIN both PROVE Query(u)[f] = both[f]
  <2>1. f \in D(u) /\ Query(u)[f] = S(u, Max(Saying(u, f)))[f]
    BY <1>10, <1>12, Zenon
  <2>2. CASE f \in DOMAIN Setting(p)
    <3>1. n + 1 \in Saying(u, f) /\ \A a \in Saying(u, f) : a \in Nat /\ a <= n + 1
      BY <1>1, <1>4, <1>9, <2>2
    <3>2. Max(Saying(u, f)) = n + 1
      <4> HIDE DEF Saying
      <4>. QED BY <1>1, <3>1 DEF Max
    <3>3. both[f] = Setting(p)[f]
      BY <2>2, OverIs
    <3>. QED BY <1>9, <2>1, <3>2, <3>3, Zenon
  <2>3. CASE f \notin DOMAIN Setting(p)
    <3>1. f \in D(t)
      BY <1>11, <2>1, <2>3, Zenon
    <3>2. Saying(u, f) = Saying(t, f)
      BY <1>4, <1>8, <1>9, <2>3
    <3>3. Max(Saying(t, f)) \in Saying(t, f)
      <4>1. Saying(t, f) # {} /\ Saying(t, f) \subseteq 0..n
        BY <1>4, <3>1
      <4> HIDE DEF Saying
      <4>2. \E x \in Saying(t, f) : \A y \in Saying(t, f) : x >= y
        BY <1>1, <4>1, Greatest
      <4>. QED BY <4>2 DEF Max
    <3>4. S(u, Max(Saying(t, f))) = S(t, Max(Saying(t, f)))
      BY <1>8, <3>3
    <3>5. Query(t)[f] = S(t, Max(Saying(t, f)))[f]
      BY <1>10, <3>1, Zenon
    <3>6. both[f] = Query(t)[f]
      <4>1. f \in DOMAIN Query(t)
        BY <1>10, <3>1, Zenon
      <4>. QED BY <2>3, <4>1, OverIs
    <3>. QED BY <2>1, <3>2, <3>4, <3>5, <3>6, Zenon
  <2>. QED BY <2>2, <2>3
<1>14. Query(u) = Query(t \o (<<"&">> \o p))
  BY DEF u, w
<1> HIDE DEF both, D
<1>. QED BY <1>10, <1>12, <1>13, <1>14, Zenon DEF both

(* What a field may hold where attach strings are written from it.         *)
Writable(fields) ==
    /\ DOMAIN fields \subseteq Fields
    /\ \A f \in DOMAIN fields : /\ fields[f] \in Texts
                                /\ f # "password" => fields[f] # <<>>
                                /\ ToSet(fields[f]) \cap Marks \subseteq MayHold(f)

LEMMA HoldsNo ==
  ASSUME NEW fields, Writable(fields), NEW f \in DOMAIN fields,
         NEW mark \in Marks, mark \notin MayHold(f)
  PROVE  Free(fields[f], {mark})
<1>1. ToSet(fields[f]) \cap Marks \subseteq MayHold(f)
  BY Zenon DEF Writable
<1>2. fields[f] \in Texts
  BY Zenon DEF Writable
<1>3. ASSUME NEW i \in 1..Len(fields[f]) PROVE fields[f][i] # mark
  <2>1. fields[f][i] \in ToSet(fields[f])
    BY <1>2 DEF ToSet, Texts
  <2>. QED BY <1>1, <2>1
<1>. QED BY <1>3 DEF Free

LEMMA MeansSame ==
  ASSUME NEW a, NEW b, NEW fields, NEW F, Means(a, fields, F),
         DOMAIN b = DOMAIN a, \A k \in DOMAIN a : b[k] = a[k]
  PROVE  Means(b, fields, F)
BY Zenon DEF Means

LEMMA MeansMore ==
  ASSUME NEW a, NEW fields, NEW F, NEW G, F \subseteq G, Means(a, fields, F),
         \A f \in G \ F : f \notin DOMAIN fields
  PROVE  Means(a, fields, G)
<1>1. \A f \in G : f \in DOMAIN fields => f \in F
  OBVIOUS
<1>2. \A f \in F : f \in G
  OBVIOUS
<1>. QED BY <1>1, <1>2, Zenon DEF Means

LEMMA SettingTyped ==
  ASSUME NEW fields, Writable(fields), NEW behind, NEW g \in SettingKeys
  PROVE  WrittenSetting(g, fields, behind) \in Texts
<1> DEFINE W == WrittenSetting(g, fields, behind)
<1>1. CASE g \in DOMAIN fields /\ g \in behind
  <2>1. W = <<"&", g, "=">> \o fields[g]
    BY <1>1, Zenon DEF WrittenSetting, Has
  <2>2. fields[g] \in Texts
    BY <1>1, Zenon DEF Writable
  <2>3. g \in Tokens /\ "=" \in Tokens
    <3>1. g \in Fields /\ "=" \in Marks
      BY Zenon DEF SettingKeys, Fields, Marks
    <3>. QED BY <3>1, TokensAre
  <2>4. <<"&", g, "=">> \o fields[g] \in Texts
    BY <2>2, <2>3, AmpersandIs, ThreeTokens
  <2>. QED BY <2>1, <2>4, Zenon
<1>2. CASE ~(g \in DOMAIN fields /\ g \in behind)
  <2>1. W = <<>>
    BY <1>2, Zenon DEF WrittenSetting, Has
  <2>2. <<>> \in Texts
    BY DEF Texts
  <2>. QED BY <2>1, <2>2, Zenon
<1>. QED BY <1>1, <1>2

(* Settings, each behind its '&', say what those of F do.                  *)
Say(s, fields, F) ==
    \/ s = <<>> /\ Means(<<>>, fields, F)
    \/ \E t \in Texts : s = <<"&">> \o t /\ Means(Query(t), fields, F)

LEMMA SettingStep ==
  ASSUME NEW fields, Writable(fields), NEW behind, NEW s, NEW F, F \subseteq SettingKeys,
         NEW g \in SettingKeys, g \notin F, Say(s, fields, F)
  PROVE  Say(s \o WrittenSetting(g, fields, behind), fields, F \cup ({g} \cap behind))
<1> DEFINE G == F \cup ({g} \cap behind)
           W == WrittenSetting(g, fields, behind)
<1>0. s \in Texts /\ <<>> \in Texts
  <2>1. <<>> \in Texts
    BY DEF Texts
  <2>. QED BY <2>1, AmpersandIs, Prefixed DEF Say
<1>1. CASE ~(g \in DOMAIN fields /\ g \in behind)
  <2>1. W = <<>>
    BY <1>1, Zenon DEF WrittenSetting, Has
  <2>2. s \o W = s
    BY <1>0, <2>1, Concatenated
  <2>3. F \subseteq G /\ \A f \in G \ F : f \notin DOMAIN fields
    BY <1>1
  <2> HIDE DEF G, W
  <2>4. \A a : Means(a, fields, F) => Means(a, fields, G)
    BY <2>3, MeansMore
  <2>5. Say(s, fields, G)
    BY <2>4, Zenon DEF Say
  <2>. QED BY <2>2, <2>5, Zenon DEF G, W
<1>2. CASE g \in DOMAIN fields /\ g \in behind
  <2> DEFINE v == fields[g]
             p == <<g>> \o (<<"=">> \o v)
  <2>1. v \in Texts /\ Free(v, {"&"})
    <3>1. "&" \in Marks /\ "&" \notin MayHold(g)
      <4>1. "&" \in Marks
        BY Zenon DEF Marks
      <4>2. g = "user" \/ g = "password" \/ g = "port" \/ g = "charset"
        BY Zenon DEF SettingKeys
      <4>. QED BY <4>1, <4>2 DEF MayHold
    <3>2. v \in Texts
      BY <1>2, Zenon DEF Writable
    <3>. QED BY <1>2, <3>1, <3>2, HoldsNo
  <2>2. g \in Tokens /\ "=" \in Tokens /\ g # "&" /\ "=" # "&"
    <3>1. g \in Fields /\ "=" \in Marks /\ "&" \in Marks /\ "=" # "&"
      BY Zenon DEF SettingKeys, Fields, Marks
    <3>2. Fields \subseteq Words /\ Words \cap Marks = {}
      BY AttachAssumption DEF AttachAssumption
    <3>. QED BY <3>1, <3>2, TokensAre
  <2>3. p \in Texts /\ Free(p, {"&"}) /\ Setting(p) = Read(g, v)
    <3>1. <<g>> \in Texts /\ <<"=">> \in Texts /\ Free(<<g>>, {"&"}) /\ Free(<<"=">>, {"&"})
      BY <2>2, OneToken
    <3>2. <<"=">> \o v \in Texts /\ Free(<<"=">> \o v, {"&"})
      BY <2>1, <3>1, Concatenated
    <3>3. p \in Texts /\ Free(p, {"&"})
      BY <3>1, <3>2, Concatenated
    <3>. QED BY <2>1, <3>3, SettingIs
  <2>4. W = <<"&">> \o p
    <3>1. W = <<"&", g, "=">> \o v
      BY <1>2, Zenon DEF WrittenSetting, Has
    <3>2. <<"&", g, "=">> \o v = <<"&">> \o (<<g>> \o (<<"=">> \o v))
      BY <2>1, <2>2, AmpersandIs, ThreeTokens
    <3>. QED BY <3>1, <3>2, Zenon
  <2>5. Means(Read(g, v), fields, {g})
    BY <1>2, MeansOne
  <2>6. /\ F \subseteq Fields /\ {g} \subseteq Fields /\ {g} \cap F = {}
        /\ {g} \cup F = G
    <3>1. SettingKeys \subseteq Fields
      BY Zenon DEF SettingKeys, Fields
    <3>. QED BY <1>2, <3>1
  <2> HIDE DEF v, p, W, G
  <2>7. \A b : Means(b, fields, F) => Means(Over(Setting(p), b), fields, G)
    BY <2>3, <2>5, <2>6, MeansOver
  <2>8. CASE s = <<>> /\ Means(<<>>, fields, F)
    <3>1. s \o W = <<"&">> \o p
      <4>1. <<"&">> \o p \in Texts
        BY <2>3, AmpersandIs, Prefixed
      <4>. QED BY <2>4, <2>8, <4>1, Concatenated
    <3>2. Means(Over(Setting(p), <<>>), fields, G)
      BY <2>7, <2>8
    <3>3. /\ DOMAIN Over(Setting(p), <<>>) = DOMAIN Setting(p)
          /\ \A k \in DOMAIN Setting(p) : Over(Setting(p), <<>>)[k] = Setting(p)[k]
      <4>1. DOMAIN <<>> = {}
        OBVIOUS
      <4>. QED BY <4>1 DEF Over
    <3>4. Means(Setting(p), fields, G)
      BY <3>2, <3>3, MeansSame
    <3>5. Means(Query(p), fields, G)
      BY <2>3, <3>4, QueryOne, MeansSame
    <3>. QED BY <2>3, <3>1, <3>5, Zenon DEF Say, G, W
  <2>9. CASE \E t \in Texts : s = <<"&">> \o t /\ Means(Query(t), fields, F)
    <3>1. PICK t \in Texts : s = <<"&">> \o t /\ Means(Query(t), fields, F)
      BY <2>9
    <3> DEFINE u == t \o (<<"&">> \o p)
    <3>2. u \in Texts /\ s \o W = <<"&">> \o u
      <4>1. <<"&">> \in Texts /\ <<"&">> \o p \in Texts
        BY <2>3, AmpersandIs, OneToken, Concatenated
      <4>2. u \in Texts
        BY <4>1, Concatenated
      <4>3. (<<"&">> \o t) \o (<<"&">> \o p) = <<"&">> \o (t \o (<<"&">> \o p))
        BY <4>1, Associates
      <4>. QED BY <2>4, <3>1, <4>2, <4>3
    <3>3. Means(Over(Setting(p), Query(t)), fields, G)
      BY <2>7, <3>1
    <3>4. LET both == Over(Setting(p), Query(t))
          IN  DOMAIN Query(u) = DOMAIN both /\ \A f \in DOMAIN both : Query(u)[f] = both[f]
      BY <2>3, QueryMore
    <3> HIDE DEF u
    <3>5. Means(Query(u), fields, G)
      BY <3>3, <3>4, MeansSame
    <3>. QED BY <3>2, <3>5, Zenon DEF Say, G, W
  <2>. QED BY <2>8, <2>9, Zenon DEF Say
<1>. QED BY <1>1, <1>2

(* Read behind the question mark, the settings say what the fields do.     *)
LEMMA SettingsSay ==
  ASSUME NEW fields, Writable(fields), NEW behind \in Settings
  PROVE  Say(WrittenSettings(fields, behind), fields, behind)
<1> DEFINE W(g) == WrittenSetting(g, fields, behind)
           B(g) == {g} \cap behind
           B1 == {} \cup B("user")
           B2 == B1 \cup B("password")
           B3 == B2 \cup B("port")
           B4 == B3 \cup B("charset")
<1>1. Say(<<>>, fields, {})
  <2>1. Means(<<>>, fields, {})
    BY MeansNone
  <2>. QED BY <2>1 DEF Say
<1>2. /\ "user" \in SettingKeys /\ "password" \in SettingKeys
      /\ "port" \in SettingKeys /\ "charset" \in SettingKeys
  BY Zenon DEF SettingKeys
<1>3. /\ "user" \notin {} /\ "password" \notin B1 /\ "port" \notin B2 /\ "charset" \notin B3
  OBVIOUS
<1>4. {} \subseteq SettingKeys /\ B1 \subseteq SettingKeys /\ B2 \subseteq SettingKeys
      /\ B3 \subseteq SettingKeys
  BY <1>2
<1>5. B4 = behind
  <2>1. behind = {"charset"} \/ behind = {"user", "password", "port", "charset"}
    BY Zenon DEF Settings
  <2>. QED BY <2>1
<1>6. Say(<<>> \o W("user"), fields, B1)
  BY <1>1, <1>2, <1>3, <1>4, SettingStep
<1>7. <<>> \o W("user") = W("user")
  <2>1. W("user") \in Texts
    BY <1>2, SettingTyped
  <2>. QED BY <2>1, Concatenated
<1> HIDE DEF B1, B2, B3, B4
<1>8. Say(W("user") \o W("password"), fields, B2)
  <2>1. Say(W("user"), fields, B1)
    BY <1>6, <1>7, Zenon
  <2>. QED BY <1>2, <1>3, <1>4, <2>1, SettingStep DEF B2
<1>9. Say((W("user") \o W("password")) \o W("port"), fields, B3)
  BY <1>2, <1>3, <1>4, <1>8, SettingStep DEF B3
<1>10. Say(((W("user") \o W("password")) \o W("port")) \o W("charset"), fields, B4)
  BY <1>2, <1>3, <1>4, <1>9, SettingStep DEF B4
<1>. QED BY <1>5, <1>10, Zenon DEF WrittenSettings

-----------------------------------------------------------------------------
(* What is before the question mark.                                       *)

LEMMA NoText == <<>> \in Texts /\ \A marks : Free(<<>>, marks)
<1>1. <<>> \in Texts
  BY DEF Texts
<1>2. Len(<<>>) = 0
  OBVIOUS
<1>. QED BY <1>1, <1>2 DEF Free

LEMMA MarkIs ==
  ASSUME NEW mark \in Marks
  PROVE  mark \in Tokens /\ <<mark>> \in Texts
         /\ \A marks : mark \notin marks => Free(<<mark>>, marks)
<1>1. mark \in Tokens
  BY TokensAre
<1>. QED BY <1>1, OneToken

LEMMA FieldIs ==
  ASSUME NEW fields, Writable(fields), NEW f \in DOMAIN fields
  PROVE  /\ f \in Fields /\ fields[f] \in Texts
         /\ f # "password" => fields[f] # <<>>
         /\ \A mark \in Marks : mark \notin MayHold(f) => Free(fields[f], {mark})
<1>1. /\ f \in Fields /\ fields[f] \in Texts
      /\ f # "password" => fields[f] # <<>>
  BY Zenon DEF Writable
<1>. QED BY <1>1, HoldsNo

(* The part of a field, without and with a mark before it.                 *)
LEMMA PartIs ==
  ASSUME NEW fields, Writable(fields), NEW behind, NEW f \in Fields
  PROVE  /\ Part(f, fields, behind, <<>>) \in Texts
         /\ f # "password" =>
              (Part(f, fields, behind, <<>>) # <<>> <=> f \in DOMAIN fields /\ f \notin behind)
         /\ f \in DOMAIN fields /\ f \notin behind => Part(f, fields, behind, <<>>) = fields[f]
         /\ \A mark \in Marks : mark \notin MayHold(f) =>
              Free(Part(f, fields, behind, <<>>), {mark})
         /\ f # "port" /\ f # "password" =>
              Means(Some(f, Part(f, fields, behind, <<>>)), fields, {f} \ behind)
<1> DEFINE T == Part(f, fields, behind, <<>>)
<1>1. CASE f \in DOMAIN fields /\ f \notin behind
  <2>1. /\ fields[f] \in Texts
        /\ f # "password" => fields[f] # <<>>
        /\ \A mark \in Marks : mark \notin MayHold(f) => Free(fields[f], {mark})
    BY <1>1, FieldIs
  <2>2. T = fields[f]
    <3>1. T = <<>> \o fields[f]
      BY <1>1, Zenon DEF Part, Has
    <3>. QED BY <2>1, <3>1, Concatenated
  <2> HIDE DEF T
  <2>3. ASSUME f # "port", f # "password" PROVE Means(Some(f, T), fields, {f} \ behind)
    <3>1. Some(f, T) = Read(f, fields[f])
      BY <2>1, <2>2, <2>3, Zenon DEF Some, Read
    <3>2. Means(Read(f, fields[f]), fields, {f})
      BY <1>1, MeansOne
    <3>3. {f} \ behind = {f}
      BY <1>1
    <3>. QED BY <3>1, <3>2, <3>3, Zenon
  <2>. QED BY <1>1, <2>1, <2>2, <2>3 DEF T
<1>2. CASE ~(f \in DOMAIN fields /\ f \notin behind)
  <2>1. T = <<>>
    BY <1>2, Zenon DEF Part, Has
  <2> HIDE DEF T
  <2>2. Means(Some(f, T), fields, {f} \ behind)
    <3>1. Some(f, T) = <<>>
      BY <2>1, Zenon DEF Some
    <3>2. \A g \in {f} \ behind : g \notin DOMAIN fields
      BY <1>2
    <3>. QED BY <3>1, <3>2, MeansNone
  <2>. QED BY <1>2, <2>1, <2>2, NoText DEF T
<1>. QED BY <1>1, <1>2

LEMMA MarkedPart ==
  ASSUME NEW fields, Writable(fields), NEW behind, NEW f \in Fields, NEW mark \in Marks
  PROVE  LET T == Part(f, fields, behind, <<mark>>)
         IN  \/ T = <<mark>> \o fields[f] /\ f \in DOMAIN fields /\ f \notin behind
             \/ T = <<>> /\ ~(f \in DOMAIN fields /\ f \notin behind)
BY Zenon DEF Part, Has

LEMMA MarkedPartIs ==
  ASSUME NEW fields, Writable(fields), NEW behind, NEW f \in Fields, NEW mark \in Marks
  PROVE  LET T == Part(f, fields, behind, <<mark>>)
         IN  /\ T \in Texts
             /\ T # <<>> <=> f \in DOMAIN fields /\ f \notin behind
             /\ \A m \in Marks : m # mark /\ m \notin MayHold(f) => Free(T, {m})
<1> DEFINE T == Part(f, fields, behind, <<mark>>)
<1>1. \/ T = <<mark>> \o fields[f] /\ f \in DOMAIN fields /\ f \notin behind
      \/ T = <<>> /\ ~(f \in DOMAIN fields /\ f \notin behind)
  BY MarkedPart
<1> HIDE DEF T
<1>2. CASE T = <<mark>> \o fields[f] /\ f \in DOMAIN fields /\ f \notin behind
  <2>1. /\ fields[f] \in Texts
        /\ \A m \in Marks : m \notin MayHold(f) => Free(fields[f], {m})
    BY <1>2, FieldIs
  <2>2. mark \in Tokens /\ <<mark>> \in Texts
        /\ \A m \in Marks : m # mark => Free(<<mark>>, {m})
    BY MarkIs
  <2>3. T \in Texts /\ T # <<>>
    BY <1>2, <2>1, <2>2, Prefixed
  <2>4. \A m \in Marks : m # mark /\ m \notin MayHold(f) => Free(T, {m})
    BY <1>2, <2>1, <2>2, Concatenated
  <2>. QED BY <1>2, <2>3, <2>4 DEF T
<1>3. CASE T = <<>> /\ ~(f \in DOMAIN fields /\ f \notin behind)
  BY <1>3, NoText DEF T
<1>. QED BY <1>1, <1>2, <1>3

LEMMA MarksAre ==
  /\ {"@", ":", "/", "?", "[", "]", "&", "="} \subseteq Marks
  /\ {"host", "port", "user", "password", "database", "charset"} \subseteq Fields
BY Zenon DEF Marks, Fields

(* The marks that end something, which no field in front of them holds.    *)
LEMMA NotHeld ==
  /\ "@" \notin MayHold("user") /\ ":" \notin MayHold("user") /\ "?" \notin MayHold("user")
  /\ "@" \notin MayHold("password") /\ "?" \notin MayHold("password")
  /\ "@" \notin MayHold("host") /\ "?" \notin MayHold("host") /\ "/" \notin MayHold("host")
  /\ "[" \notin MayHold("host") /\ "]" \notin MayHold("host")
  /\ "@" \notin MayHold("port") /\ "?" \notin MayHold("port") /\ "/" \notin MayHold("port")
  /\ "]" \notin MayHold("port")
  /\ "?" \notin MayHold("database")
BY DEF MayHold

LEMMA CredentialsSay ==
  ASSUME NEW fields, Writable(fields), NEW behind
  PROVE  LET C == WrittenCredentials(fields, behind)
             F == {"user", "password"} \ behind
         IN  \/ C = <<>> /\ \A f \in F : f \notin DOMAIN fields
             \/ \E c \in Texts : /\ C = c \o <<"@">>
                                 /\ Free(c, {"@"}) /\ Free(c, {"?"})
                                 /\ Means(Credentials(c), fields, F)
<1> DEFINE C == WrittenCredentials(fields, behind)
           F == {"user", "password"} \ behind
           U == Part("user", fields, behind, <<>>)
           P == Part("password", fields, behind, <<":">>)
           c == U \o P
<1>1. /\ "user" \in Fields /\ "password" \in Fields
      /\ "@" \in Marks /\ "?" \in Marks /\ ":" \in Marks /\ "@" # ":" /\ "?" # ":"
      /\ "user" # "password" /\ "user" # "port" /\ "password" # "port"
  BY Zenon DEF Marks, Fields
<1>2. C = IF c = <<>> THEN <<>> ELSE c \o <<"@">>
  BY Zenon DEF WrittenCredentials
<1>3. /\ U \in Texts
      /\ U # <<>> <=> "user" \in DOMAIN fields /\ "user" \notin behind
      /\ Free(U, {"@"}) /\ Free(U, {":"}) /\ Free(U, {"?"})
      /\ Means(Some("user", U), fields, {"user"} \ behind)
  BY <1>1, PartIs, NotHeld
<1>4. /\ P \in Texts
      /\ P # <<>> <=> "password" \in DOMAIN fields /\ "password" \notin behind
      /\ Free(P, {"@"}) /\ Free(P, {"?"})
  BY <1>1, MarkedPartIs, NotHeld
<1>5. \/ P = <<":">> \o fields["password"]
         /\ "password" \in DOMAIN fields /\ "password" \notin behind
      \/ P = <<>> /\ ~("password" \in DOMAIN fields /\ "password" \notin behind)
  BY <1>1, MarkedPart
<1>6. F = ({"user"} \ behind) \cup ({"password"} \ behind)
  OBVIOUS
<1> HIDE DEF U, P, C
<1>7. /\ c \in Texts /\ (c = <<>> <=> U = <<>> /\ P = <<>>)
      /\ Free(c, {"@"}) /\ Free(c, {"?"})
  <2>1. /\ c \in Texts /\ Len(c) = Len(U) + Len(P)
        /\ \A m : Free(c, m) <=> Free(U, m) /\ Free(P, m)
    BY <1>3, <1>4, Concatenated
  <2>2. \A t \in Texts : Len(t) \in Nat /\ (t = <<>> <=> Len(t) = 0)
    BY Concatenated
  <2> HIDE DEF c
  <2>3. c = <<>> <=> U = <<>> /\ P = <<>>
    BY <1>3, <1>4, <2>1, <2>2
  <2>. QED BY <1>3, <1>4, <2>1, <2>3
<1>8. CASE c = <<>>
  <2>1. C = <<>>
    BY <1>2, <1>8, Zenon
  <2>2. \A f \in F : f \notin DOMAIN fields
    BY <1>3, <1>4, <1>7, <1>8
  <2>. QED BY <2>1, <2>2 DEF C
<1>9. CASE c # <<>>
  <2>1. C = c \o <<"@">>
    BY <1>2, <1>9, Zenon
  <2>2. Means(Credentials(c), fields, F)
    <3>1. CASE P = <<>> /\ ~("password" \in DOMAIN fields /\ "password" \notin behind)
      <4>1. c = U
        BY <1>3, <3>1, Concatenated
      <4>2. Find(U, ":") = 0
        BY <1>3, FindNone
      <4>3. Credentials(c) = Some("user", U)
        BY <4>1, <4>2, Zenon DEF Credentials
      <4>4. {"user"} \ behind \subseteq F
            /\ \A f \in F \ ({"user"} \ behind) : f \notin DOMAIN fields
        BY <3>1
      <4> HIDE DEF F
      <4>5. Means(Some("user", U), fields, F)
        BY <1>3, <4>4, MeansMore
      <4>. QED BY <4>3, <4>5, Zenon
    <3>2. CASE P = <<":">> \o fields["password"]
               /\ "password" \in DOMAIN fields /\ "password" \notin behind
      <4> DEFINE w == fields["password"]
      <4>1. w \in Texts
        BY <3>2, FieldIs
      <4>2. c = U \o (<<":">> \o w)
        BY <3>2, Zenon
      <4>3. /\ Find(c, ":") = Len(U) + 1
            /\ Before(c, Len(U) + 1) = U /\ After(c, Len(U) + 1) = w
        <5>1. LET t == U \o (<<":">> \o w)
              IN  /\ Find(t, ":") = Len(U) + 1
                  /\ Before(t, Len(U) + 1) = U /\ After(t, Len(U) + 1) = w
          <6>1. ":" \in Tokens
            BY <1>1, MarkIs
          <6> HIDE DEF w
          <6>. QED BY <1>3, <4>1, <6>1, FindFirst
        <5> HIDE DEF c, w
        <5>. QED BY <4>2, <5>1, Zenon
      <4>4. Len(U) + 1 # 0
        <5>1. Len(U) \in Nat
          BY <1>3, Concatenated
        <5>. QED BY <5>1
      <4>5. Credentials(c) = Over(Some("user", U), Only("password", w))
        <5> HIDE DEF c, w
        <5>. QED BY <4>3, <4>4, Zenon DEF Credentials
      <4>6. Means(Only("password", w), fields, {"password"})
        <5>1. Read("password", w) = Only("password", w)
          BY <1>1, Zenon DEF Read
        <5>2. Means(Read("password", w), fields, {"password"})
          BY <3>2, MeansOne
        <5>. QED BY <5>1, <5>2, Zenon
      <4>7. /\ {"user"} \ behind \subseteq Fields /\ {"password"} \subseteq Fields
            /\ ({"user"} \ behind) \cap {"password"} = {}
            /\ ({"user"} \ behind) \cup {"password"} = F
        BY <1>1, <3>2
      <4> HIDE DEF F, w
      <4>8. Means(Over(Some("user", U), Only("password", w)), fields, F)
        <5> DEFINE A == {"user"} \ behind
                   B == {"password"}
        <5>1. /\ A \subseteq Fields /\ B \subseteq Fields /\ A \cap B = {} /\ A \cup B = F
          BY <4>7, Zenon
        <5>2. Means(Some("user", U), fields, A) /\ Means(Only("password", w), fields, B)
          BY <1>3, <4>6, Zenon
        <5> HIDE DEF A, B
        <5>. QED BY <5>1, <5>2, MeansOver
      <4>. QED BY <4>5, <4>8, Zenon
    <3>. QED BY <1>5, <3>1, <3>2, Zenon
  <2> HIDE DEF F, c
  <2>. QED BY <1>7, <2>1, <2>2, Zenon DEF C, F
<1>. QED BY <1>8, <1>9

LEMMA HostIs ==
  ASSUME NEW fields, Writable(fields), NEW behind
  PROVE  LET H == Part("host", fields, behind, <<>>)
         IN  /\ H \in Texts
             /\ H # <<>> <=> "host" \in DOMAIN fields /\ "host" \notin behind
             /\ "host" \in DOMAIN fields /\ "host" \notin behind => H = fields["host"]
             /\ \A mark \in Marks : mark \notin MayHold("host") => Free(H, {mark})
             /\ Means(Some("host", H), fields, {"host"} \ behind)
<1>1. "host" \in Fields /\ "host" # "port" /\ "host" # "password"
  BY Zenon DEF Fields
<1>. QED BY <1>1, PartIs

LEMMA DatabaseIs ==
  ASSUME NEW fields, Writable(fields), NEW behind
  PROVE  LET D == Part("database", fields, behind, <<>>)
         IN  /\ D \in Texts
             /\ D # <<>> <=> "database" \in DOMAIN fields /\ "database" \notin behind
             /\ "database" \in DOMAIN fields /\ "database" \notin behind =>
                  D = fields["database"]
             /\ \A mark \in Marks : mark \notin MayHold("database") => Free(D, {mark})
             /\ Means(Some("database", D), fields, {"database"} \ behind)
<1>1. "database" \in Fields /\ "database" # "port" /\ "database" # "password"
  BY Zenon DEF Fields
<1>. QED BY <1>1, PartIs

LEMMA Marked ==
  ASSUME NEW r \in Texts
  PROVE  /\ \A m \in Marks, p \in Texts : (<<m>> \o p) \o r = <<m>> \o (p \o r)
         /\ \A m \in Marks, p \in Texts : (p \o <<m>>) \o r = p \o (<<m>> \o r)
BY MarkIs, MarkAssociates

(* host and port, the colon in front of the port being no drive's.         *)
LEMMA HostPortSay ==
  ASSUME NEW fields, Writable(fields), NEW behind \in Settings, Plain(fields, behind),
         Find(Part("host", fields, behind, <<>>), ":") = 0
  PROVE  LET H == Part("host", fields, behind, <<>>)
             P == Part("port", fields, behind, <<":">>)
         IN  Means(HostPort(H \o P, "host"), fields, {"host", "port"} \ behind)
<1> DEFINE F == {"host", "port"} \ behind
           H == Part("host", fields, behind, <<>>)
           P == Part("port", fields, behind, <<":">>)
           t == H \o P
<1>1. /\ "host" \in Fields /\ "port" \in Fields /\ ":" \in Marks
      /\ "host" # "port" /\ "host" # "password"
  BY Zenon DEF Marks, Fields
<1>2. /\ H \in Texts
      /\ H # <<>> <=> "host" \in DOMAIN fields /\ "host" \notin behind
      /\ "host" \in DOMAIN fields /\ "host" \notin behind => H = fields["host"]
      /\ Means(Some("host", H), fields, {"host"} \ behind)
      /\ \A mark \in Marks : mark \notin MayHold("host") => Free(H, {mark})
  BY HostIs, Zenon
<1>3. \/ P = <<":">> \o fields["port"] /\ "port" \in DOMAIN fields /\ "port" \notin behind
      \/ P = <<>> /\ ~("port" \in DOMAIN fields /\ "port" \notin behind)
  BY <1>1, MarkedPart
<1>4. Find(H, ":") = 0 /\ Free(H, {":"})
  BY FindNone
<1>5. "host" \notin behind
  <2>1. behind = {"charset"} \/ behind = {"user", "password", "port", "charset"}
    BY Zenon DEF Settings
  <2>. QED BY <2>1
<1> HIDE DEF H, P
<1>6. CASE P = <<>> /\ ~("port" \in DOMAIN fields /\ "port" \notin behind)
  <2>1. t = H
    BY <1>2, <1>6, Concatenated
  <2>2. HostPort(t, "host") = Some("host", H)
    BY <1>4, <2>1, Zenon DEF HostPort
  <2>3. {"host"} \ behind \subseteq F
        /\ \A f \in F \ ({"host"} \ behind) : f \notin DOMAIN fields
    BY <1>6
  <2> HIDE DEF F, t
  <2>4. Means(Some("host", H), fields, F)
    BY <1>2, <2>3, MeansMore
  <2>. QED BY <2>2, <2>4, Zenon DEF F, t, H, P
<1>7. CASE P = <<":">> \o fields["port"] /\ "port" \in DOMAIN fields /\ "port" \notin behind
  <2> DEFINE w == fields["port"]
             n == Len(H)
  <2>1. w \in Texts
    BY <1>7, FieldIs
  <2>2. t = H \o (<<":">> \o w)
    BY <1>7, Zenon
  <2>3. Find(t, ":") = n + 1 /\ Before(t, n + 1) = H /\ After(t, n + 1) = w
    <3>1. ":" \in Tokens
      BY <1>1, MarkIs
    <3>2. LET r == H \o (<<":">> \o w)
          IN  /\ Find(r, ":") = Len(H) + 1
              /\ Before(r, Len(H) + 1) = H /\ After(r, Len(H) + 1) = w
      <4> HIDE DEF w
      <4>. QED BY <1>2, <1>4, <2>1, <3>1, FindFirst
    <3> HIDE DEF t, w
    <3>. QED BY <2>2, <3>2, Zenon
  <2>4. n \in Nat
    BY <1>2, Concatenated
  <2>5. ~(n + 1 = 2 /\ t[1] \in Letters \cup Marks)
    <3>1. SUFFICES ASSUME n + 1 = 2, t[1] \in Letters \cup Marks PROVE FALSE
      OBVIOUS
    <3>2. n = 1 /\ 1 \in 1..n
      <4> HIDE DEF n
      <4>. QED BY <2>4, <3>1
    <3>3. t[1] = H[1] /\ H[1] \in Tokens
      <4>1. <<":">> \o w \in Texts
        BY <1>1, <2>1, MarkIs, Concatenated
      <4>2. \A i \in 1..n : (H \o (<<":">> \o w))[i] = H[i]
        <5> HIDE DEF w
        <5>. QED BY <1>2, <4>1, ConcatAt
      <4>3. H[1] \in Tokens
        BY <1>2, <3>2 DEF Texts
      <4> HIDE DEF t, w
      <4>. QED BY <2>2, <3>2, <4>2, <4>3
    <3>4. H[1] \notin Marks
      <4>1. \A mark \in Marks : mark # ":" => Free(H, {mark})
        BY <1>2 DEF MayHold
      <4>2. \A mark \in Marks : Free(H, {mark})
        BY <1>4, <4>1
      <4>. QED BY <3>2, <4>2 DEF Free
    <3>5. "host" \in DOMAIN fields /\ H = fields["host"]
      <4>1. H # <<>>
        BY <1>2, <3>2
      <4>. QED BY <1>2, <4>1
    <3>6. ~(Len(fields["host"]) = 1 /\ fields["host"][1] \in Letters)
      <4>1. fields.host = fields["host"]
        OBVIOUS
      <4>. QED BY <1>7, <3>5, <4>1, Zenon DEF Plain, Has
    <3>. QED BY <3>1, <3>2, <3>3, <3>4, <3>5, <3>6
  <2>6. HostPort(t, "host") = Over(Some("host", H), Port(w))
    <3>1. n + 1 # 0
      BY <2>4
    <3> HIDE DEF t, w, n
    <3>. QED BY <2>3, <2>5, <3>1, Zenon DEF HostPort
  <2>7. Means(Port(w), fields, {"port"})
    <3>1. Read("port", w) = Port(w)
      BY Zenon DEF Read
    <3>2. Means(Read("port", w), fields, {"port"})
      BY <1>7, MeansOne
    <3>. QED BY <3>1, <3>2, Zenon
  <2> DEFINE A == {"host"} \ behind
             B == {"port"}
  <2>8. /\ A \subseteq Fields /\ B \subseteq Fields /\ A \cap B = {} /\ A \cup B = F
    BY <1>1, <1>7
  <2>9. Means(Some("host", H), fields, A) /\ Means(Port(w), fields, B)
    BY <1>2, <2>7, Zenon
  <2> HIDE DEF A, B, w, F
  <2>10. Means(Over(Some("host", H), Port(w)), fields, F)
    BY <2>8, <2>9, MeansOver
  <2> HIDE DEF t
  <2>. QED BY <2>6, <2>10, Zenon DEF F, t, H, P
<1>. QED BY <1>3, <1>6, <1>7, Zenon

LEMMA Inside ==
  ASSUME NEW b \in Tokens, NEW p \in Texts, NEW q \in Texts
  PROVE  SubSeq((<<b>> \o p) \o q, 2, Len(p) + 1) = p
<1> DEFINE t == <<b>> \o p
           r == t \o q
           s == SubSeq(r, 2, Len(p) + 1)
<1>1. /\ t \in Texts /\ Len(t) = Len(p) + 1 /\ Len(p) \in Nat
      /\ \A i \in 1..Len(p) : t[i + 1] = p[i]
  BY DEF Texts
<1> HIDE DEF t
<1>2. /\ r \in Texts /\ Len(q) \in Nat /\ Len(r) = Len(t) + Len(q)
      /\ \A i \in 1..Len(t) : r[i] = t[i]
  BY <1>1, ConcatAt
<1> HIDE DEF r
<1>3. s \in Texts /\ Len(s) = Len(p) /\ \A i \in 1..Len(p) : s[i] = r[i + 1]
  BY <1>1, <1>2 DEF Texts
<1> HIDE DEF s
<1>4. ASSUME NEW i \in 1..Len(p) PROVE s[i] = p[i]
  <2>1. i + 1 \in 1..Len(t)
    BY <1>1
  <2>. QED BY <1>1, <1>2, <1>3, <2>1
<1>5. s = p
  BY <1>3, <1>4, SameText
<1>. QED BY <1>5 DEF s, r, t

LEMMA BracketedSay ==
  ASSUME NEW fields, Writable(fields), NEW behind \in Settings,
         "host" \in DOMAIN fields
  PROVE  LET H == Part("host", fields, behind, <<>>)
             P == Part("port", fields, behind, <<":">>)
             D == Part("database", fields, behind, <<>>)
         IN  Means(Bracketed((<<"[">> \o (H \o <<"]">>)) \o (P \o (<<"/">> \o D))),
                   fields, {"host", "port", "database"} \ behind)
<1> DEFINE F == {"host", "port", "database"} \ behind
           H == Part("host", fields, behind, <<>>)
           P == Part("port", fields, behind, <<":">>)
           D == Part("database", fields, behind, <<>>)
           R == P \o (<<"/">> \o D)
           open == <<"[">> \o H
           t == (<<"[">> \o (H \o <<"]">>)) \o R
<1>1. /\ "host" \in Fields /\ "port" \in Fields /\ "database" \in Fields
      /\ ":" \in Marks /\ "/" \in Marks /\ "[" \in Marks /\ "]" \in Marks
      /\ ":" # "/" /\ "[" # "]"
      /\ "host" # "port" /\ "host" # "password" /\ "host" # "database"
      /\ "port" # "database" /\ "port" # "password" /\ "database" # "password"
  BY Zenon DEF Marks, Fields
<1>2. "host" \notin behind /\ "database" \notin behind
  <2>1. behind = {"charset"} \/ behind = {"user", "password", "port", "charset"}
    BY Zenon DEF Settings
  <2>. QED BY <2>1
<1>3. /\ ":" \in Tokens /\ "/" \in Tokens /\ "[" \in Tokens /\ "]" \in Tokens
      /\ <<":">> \in Texts /\ <<"/">> \in Texts /\ <<"[">> \in Texts /\ <<"]">> \in Texts
      /\ Free(<<"[">>, {"]"})
  <2>1. "[" \notin {"]"}
    BY <1>1
  <2>. QED BY <1>1, <2>1, MarkIs
<1>4. H \in Texts /\ H = fields["host"] /\ Free(H, {"]"})
  <2>1. /\ H \in Texts
        /\ H # <<>> <=> "host" \in DOMAIN fields /\ "host" \notin behind
        /\ "host" \in DOMAIN fields /\ "host" \notin behind => H = fields["host"]
        /\ \A mark \in Marks : mark \notin MayHold("host") => Free(H, {mark})
    BY HostIs, Zenon
  <2>2. "]" \notin MayHold("host")
    BY NotHeld
  <2>. QED BY <1>1, <1>2, <2>1, <2>2, Zenon
<1>5. D \in Texts /\ Means(Some("database", D), fields, {"database"} \ behind)
  BY DatabaseIs, Zenon
<1>6. P \in Texts /\ Free(P, {"/"})
  BY <1>1, MarkedPartIs, NotHeld
<1>7. \/ P = <<":">> \o fields["port"] /\ "port" \in DOMAIN fields /\ "port" \notin behind
      \/ P = <<>> /\ ~("port" \in DOMAIN fields /\ "port" \notin behind)
  BY <1>1, MarkedPart
<1> HIDE DEF H, P, D
<1>8. /\ Find(R, "/") = Len(P) + 1
      /\ Before(R, Len(P) + 1) = P /\ After(R, Len(P) + 1) = D
  BY <1>3, <1>5, <1>6, FindFirst
<1>9. R \in Texts /\ Len(P) \in Nat
  BY <1>3, <1>5, <1>6, Concatenated
<1> HIDE DEF R
<1>10. open \in Texts /\ Free(open, {"]"}) /\ Len(open) = Len(H) + 1 /\ Len(H) \in Nat
  <2>1. Len(<<"[">>) = 1
    BY <1>3, OneToken
  <2>2. /\ open \in Texts /\ Len(open) = Len(<<"[">>) + Len(H) /\ Len(H) \in Nat
        /\ \A m : Free(open, m) <=> Free(<<"[">>, m) /\ Free(H, m)
    BY <1>3, <1>4, Concatenated
  <2> HIDE DEF open
  <2>3. Len(open) = Len(H) + 1
    BY <2>1, <2>2
  <2>. QED BY <1>3, <1>4, <2>2, <2>3
<1>11. <<"]">> \o R \in Texts /\ t = open \o (<<"]">> \o R)
  <2>1. <<"]">> \o R \in Texts /\ H \o <<"]">> \in Texts
    BY <1>3, <1>4, <1>9, Concatenated
  <2>2. \A p \in Texts : (<<"[">> \o p) \o R = <<"[">> \o (p \o R)
    BY <1>1, <1>9, Marked, Zenon
  <2>3. (H \o <<"]">>) \o R = H \o (<<"]">> \o R)
    BY <1>1, <1>4, <1>9, Marked, Zenon
  <2>4. (<<"[">> \o H) \o (<<"]">> \o R) = <<"[">> \o (H \o (<<"]">> \o R))
    <3> DEFINE q == <<"]">> \o R
    <3>1. q \in Texts /\ H \in Texts /\ "[" \in Marks
      BY <1>1, <1>4, <2>1
    <3> HIDE DEF q
    <3>2. \A m \in Marks, p \in Texts : (<<m>> \o p) \o q = <<m>> \o (p \o q)
      BY <3>1, Marked
    <3>3. (<<"[">> \o H) \o q = <<"[">> \o (H \o q)
      BY <3>1, <3>2, Zenon
    <3>. QED BY <3>3 DEF q
  <2>. QED BY <2>1, <2>2, <2>3, <2>4, Zenon
<1> DEFINE close == Len(open) + 1
<1>12. Find(t, "]") = close /\ After(t, close) = R
  <2>1. LET u == open \o (<<"]">> \o R)
        IN  Find(u, "]") = Len(open) + 1 /\ After(u, Len(open) + 1) = R
    BY <1>3, <1>9, <1>10, FindFirst
  <2> HIDE DEF open, t
  <2>. QED BY <1>11, <2>1, Zenon
<1>13. SubSeq(t, 2, close - 1) = H
  <2>1. SubSeq((<<"[">> \o H) \o (<<"]">> \o R), 2, Len(H) + 1) = H
    BY <1>3, <1>4, <1>11, Inside
  <2>2. close - 1 = Len(H) + 1
    <3> HIDE DEF open
    <3>. QED BY <1>10
  <2> HIDE DEF t, close
  <2>. QED BY <1>11, <2>1, <2>2, Zenon DEF open
<1>14. close # 0 /\ Len(P) + 1 # 0
  <2> HIDE DEF open
  <2>. QED BY <1>9, <1>10
<1> DEFINE Q == IF P # <<>> /\ P[1] = ":" THEN Port(Tail(P)) ELSE <<>>
<1>15. Bracketed(t) = Over(Only("host", H), Over(Q, Some("database", D)))
  <2> HIDE DEF t, close
  <2>. QED BY <1>8, <1>12, <1>13, <1>14, Zenon DEF Bracketed
<1>16. Means(Q, fields, {"port"} \ behind)
  <2>1. CASE P = <<>> /\ ~("port" \in DOMAIN fields /\ "port" \notin behind)
    <3>1. Q = <<>>
      BY <2>1
    <3>2. \A f \in {"port"} \ behind : f \notin DOMAIN fields
      BY <2>1
    <3> HIDE DEF Q
    <3>. QED BY <3>1, <3>2, MeansNone
  <2>2. CASE P = <<":">> \o fields["port"] /\ "port" \in DOMAIN fields /\ "port" \notin behind
    <3>1. fields["port"] \in Texts
      BY <2>2, FieldIs
    <3>2. P # <<>> /\ P[1] = ":" /\ Tail(P) = fields["port"]
      BY <1>3, <2>2, <3>1, Prefixed
    <3>3. Q = Port(fields["port"])
      BY <3>2, Zenon
    <3>4. Read("port", fields["port"]) = Port(fields["port"])
      BY Zenon DEF Read
    <3>5. Means(Read("port", fields["port"]), fields, {"port"})
      BY <2>2, MeansOne
    <3>6. {"port"} \ behind = {"port"}
      BY <2>2
    <3> HIDE DEF Q
    <3>. QED BY <3>3, <3>4, <3>5, <3>6, Zenon
  <2>. QED BY <1>7, <2>1, <2>2, Zenon
<1>17. Means(Only("host", H), fields, {"host"})
  <2>1. Read("host", H) = Only("host", H)
    BY <1>1, Zenon DEF Read
  <2>2. Means(Read("host", fields["host"]), fields, {"host"})
    BY MeansOne
  <2>. QED BY <1>4, <2>1, <2>2, Zenon
<1> HIDE DEF Q
<1> DEFINE A == {"port"} \ behind
           B == {"database"} \ behind
           G == A \cup B
<1>18. /\ A \subseteq Fields /\ B \subseteq Fields /\ A \cap B = {}
       /\ G \subseteq Fields /\ {"host"} \cap G = {} /\ {"host"} \subseteq Fields
       /\ {"host"} \cup G = F
  BY <1>1, <1>2
<1>19. Means(Over(Q, Some("database", D)), fields, G)
  <2>1. Means(Q, fields, A) /\ Means(Some("database", D), fields, B)
    BY <1>5, <1>16, Zenon
  <2> HIDE DEF A, B
  <2>. QED BY <1>18, <2>1, MeansOver
<1> HIDE DEF G
<1> DEFINE K == {"host"}
<1>20. Means(Bracketed(t), fields, F)
  <2>1. /\ K \subseteq Fields /\ K \cap G = {} /\ K \cup G = F
        /\ Means(Only("host", H), fields, K)
    BY <1>17, <1>18, Zenon
  <2> HIDE DEF K, F, t
  <2>2. Means(Over(Only("host", H), Over(Q, Some("database", D))), fields, F)
    BY <1>18, <1>19, <2>1, MeansOver
  <2>. QED BY <1>15, <2>2, Zenon
<1> HIDE DEF t, F
<1>. QED BY <1>20, Zenon DEF t, F, H, P, D, R

LEMMA LocationSay ==
  ASSUME NEW fields, Writable(fields), NEW behind \in Settings, Plain(fields, behind)
  PROVE  LET L == WrittenLocation(fields, behind)
         IN  /\ L \in Texts /\ Free(L, {"?"})
             /\ Free(Part("database", fields, behind, <<>>), {"@"}) => Free(L, {"@"})
             /\ Means(Location(L), fields, {"host", "port", "database"} \ behind)
<1> DEFINE F == {"host", "port", "database"} \ behind
           H == Part("host", fields, behind, <<>>)
           P == Part("port", fields, behind, <<":">>)
           D == Part("database", fields, behind, <<>>)
           E == <<"/">> \o D
           R == P \o E
           M == H \o P
           B == <<"[">> \o (H \o <<"]">>)
           L == WrittenLocation(fields, behind)
<1>1. /\ ":" \in Marks /\ "/" \in Marks /\ "[" \in Marks /\ "]" \in Marks
      /\ "@" \in Marks /\ "?" \in Marks
      /\ "[" # "/"
  BY Zenon DEF Marks
<1>2. /\ "/" \in Tokens /\ "[" \in Tokens /\ "]" \in Tokens
      /\ <<"/">> \in Texts /\ <<"[">> \in Texts /\ <<"]">> \in Texts
      /\ Free(<<"/">>, {"?"}) /\ Free(<<"[">>, {"?"}) /\ Free(<<"]">>, {"?"})
      /\ Free(<<"/">>, {"@"}) /\ Free(<<"[">>, {"@"}) /\ Free(<<"]">>, {"@"})
  <2>1. /\ "/" \notin {"?"} /\ "[" \notin {"?"} /\ "]" \notin {"?"}
        /\ "/" \notin {"@"} /\ "[" \notin {"@"} /\ "]" \notin {"@"}
    OBVIOUS
  <2>. QED BY <1>1, <2>1, MarkIs
<1>3. /\ H \in Texts
      /\ H # <<>> <=> "host" \in DOMAIN fields /\ "host" \notin behind
      /\ \A mark \in Marks : mark \notin MayHold("host") => Free(H, {mark})
  BY HostIs, Zenon
<1>4. /\ D \in Texts
      /\ \A mark \in Marks : mark \notin MayHold("database") => Free(D, {mark})
      /\ Means(Some("database", D), fields, {"database"} \ behind)
  BY DatabaseIs, Zenon
<1>5. /\ P \in Texts
      /\ \A m \in Marks : m # ":" /\ m \notin MayHold("port") => Free(P, {m})
  <2>1. "port" \in Fields
    BY Zenon DEF Fields
  <2>. QED BY <1>1, <2>1, MarkedPartIs
<1> HIDE DEF H, P, D
<1>6. /\ Free(H, {"@"}) /\ Free(H, {"?"}) /\ Free(H, {"/"}) /\ Free(H, {"["})
      /\ Free(P, {"@"}) /\ Free(P, {"?"}) /\ Free(P, {"/"}) /\ Free(P, {"["})
      /\ Free(D, {"?"})
  <2>1. "@" # ":" /\ "?" # ":" /\ "/" # ":" /\ "[" # ":"
    OBVIOUS
  <2>2. "[" \notin MayHold("port")
    BY DEF MayHold
  <2>. QED BY <1>1, <1>3, <1>4, <1>5, <2>1, <2>2, NotHeld, Zenon
<1>7. /\ E \in Texts /\ Free(E, {"?"}) /\ (Free(D, {"@"}) => Free(E, {"@"}))
      /\ R \in Texts /\ Free(R, {"?"}) /\ (Free(D, {"@"}) => Free(R, {"@"}))
  <2>1. E \in Texts /\ \A m : Free(E, m) <=> Free(<<"/">>, m) /\ Free(D, m)
    BY <1>2, <1>4, Concatenated
  <2> HIDE DEF E
  <2>2. R \in Texts /\ \A m : Free(R, m) <=> Free(P, m) /\ Free(E, m)
    BY <1>5, <2>1, Concatenated
  <2>. QED BY <1>2, <1>6, <2>1, <2>2
<1>8. M \in Texts /\ Free(M, {"/"}) /\ Free(M, {"["})
  <2>1. M \in Texts /\ \A m : Free(M, m) <=> Free(H, m) /\ Free(P, m)
    BY <1>3, <1>5, Concatenated
  <2>. QED BY <1>6, <2>1
<1>9. L = (IF Find(H, ":") = 0 THEN H ELSE B) \o R
  BY Zenon DEF WrittenLocation, H, P, D
<1> HIDE DEF L
<1>10. CASE Find(H, ":") = 0
  <2>1. L = H \o R
    BY <1>9, <1>10, Zenon
  <2>2. L \in Texts /\ \A m : Free(L, m) <=> Free(H, m) /\ Free(R, m)
    <3> HIDE DEF R
    <3>. QED BY <1>3, <1>7, <2>1, Concatenated
  <2>3. L = M \o E
    <3> HIDE DEF E
    <3>. QED BY <1>3, <1>5, <1>7, <2>1, Associates
  <2>4. Find(L, "/") = Len(M) + 1 /\ Before(L, Len(M) + 1) = M /\ After(L, Len(M) + 1) = D
    <3>1. LET t == M \o (<<"/">> \o D)
          IN  /\ Find(t, "/") = Len(M) + 1
              /\ Before(t, Len(M) + 1) = M /\ After(t, Len(M) + 1) = D
      <4> HIDE DEF M
      <4>. QED BY <1>2, <1>4, <1>8, FindFirst
    <3> HIDE DEF M
    <3>. QED BY <2>3, <3>1, Zenon
  <2>5. Len(M) + 1 # 0
    <3>1. Len(M) \in Nat
      BY <1>8, Concatenated
    <3>. QED BY <3>1
  <2>6. ~(L # <<>> /\ L[1] = "[")
    <3> HIDE DEF M, E
    <3>1. /\ Len(M) \in Nat /\ \A i \in 1..Len(M) : L[i] = M[i]
          /\ \A i \in 1..Len(E) : L[Len(M) + i] = E[i]
      BY <1>7, <1>8, <2>3, ConcatAt
    <3>2. E[1] = "/" /\ 1 \in 1..Len(E)
      <4>1. E = <<"/">> \o D
        BY DEF E
      <4>2. Len(E) \in Nat /\ E # <<>> /\ E[1] = "/"
        BY <1>2, <1>4, <1>7, <4>1, Prefixed, Concatenated
      <4>3. Len(E) # 0
        BY <1>7, <4>2, Concatenated
      <4>. QED BY <4>2, <4>3
    <3>3. CASE Len(M) = 0
      <4>1. L[0 + 1] = E[1]
        BY <3>1, <3>2, <3>3
      <4>2. 0 + 1 = 1
        OBVIOUS
      <4>. QED BY <1>1, <3>2, <4>1, <4>2, Zenon
    <3>4. CASE Len(M) # 0
      <4>1. 1 \in 1..Len(M)
        BY <3>1, <3>4
      <4>2. M[1] # "["
        BY <1>8, <4>1 DEF Free
      <4>. QED BY <3>1, <4>1, <4>2
    <3>. QED BY <3>3, <3>4
  <2>7. Location(L) = Over(HostPort(M, "host"), Some("database", D))
    <3> HIDE DEF M
    <3>. QED BY <2>4, <2>5, <2>6, Zenon DEF Location
  <2>8. Means(HostPort(M, "host"), fields, {"host", "port"} \ behind)
    BY <1>10, HostPortSay DEF H, P
  <2> DEFINE A == {"host", "port"} \ behind
             G == {"database"} \ behind
  <2>9. A \subseteq Fields /\ G \subseteq Fields /\ A \cap G = {} /\ A \cup G = F
    <3>1. /\ "host" \in Fields /\ "port" \in Fields /\ "database" \in Fields
          /\ "host" # "database" /\ "port" # "database"
      BY Zenon DEF Fields
    <3>. QED BY <3>1
  <2>10. Means(HostPort(M, "host"), fields, A) /\ Means(Some("database", D), fields, G)
    BY <1>4, <2>8, Zenon
  <2> HIDE DEF A, G, F, M
  <2>11. Means(Location(L), fields, F)
    BY <2>7, <2>9, <2>10, MeansOver
  <2> HIDE DEF R
  <2>. QED BY <1>6, <1>7, <2>2, <2>11 DEF F, L, D
<1>11. CASE Find(H, ":") # 0
  <2>1. L = B \o R
    BY <1>9, <1>11, Zenon
  <2>2. B \in Texts /\ B # <<>> /\ B[1] = "[" /\ Free(B, {"?"}) /\ Free(B, {"@"})
        /\ H \o <<"]">> \in Texts
    <3> DEFINE C == H \o <<"]">>
    <3>1. C \in Texts /\ \A m : Free(C, m) <=> Free(H, m) /\ Free(<<"]">>, m)
      BY <1>2, <1>3, Concatenated
    <3> HIDE DEF C
    <3>2. <<"[">> \o C \in Texts
          /\ \A m : Free(<<"[">> \o C, m) <=> Free(<<"[">>, m) /\ Free(C, m)
      BY <1>2, <3>1, Concatenated
    <3>3. <<"[">> \o C # <<>> /\ (<<"[">> \o C)[1] = "["
      BY <1>2, <3>1, Prefixed
    <3>. QED BY <1>2, <1>6, <3>1, <3>2, <3>3 DEF C
  <2>3. L \in Texts /\ \A m : Free(L, m) <=> Free(B, m) /\ Free(R, m)
    <3> HIDE DEF B, R
    <3>. QED BY <1>7, <2>1, <2>2, Concatenated
  <2>4. L # <<>> /\ L[1] = "["
    <3> DEFINE C == (H \o <<"]">>) \o R
    <3>1. C \in Texts /\ L = <<"[">> \o C
      <4> HIDE DEF R
      <4> DEFINE G == H \o <<"]">>
      <4>1. G \in Texts
        BY <2>2
      <4>2. L = (<<"[">> \o G) \o R
        BY <2>1, Zenon
      <4> HIDE DEF G
      <4>3. (<<"[">> \o G) \o R = <<"[">> \o (G \o R)
        <5>1. R \in Texts /\ "[" \in Marks
          BY <1>1, <1>7
        <5>2. \A m \in Marks, p \in Texts : (<<m>> \o p) \o R = <<m>> \o (p \o R)
          BY <5>1, Marked
        <5>. QED BY <4>1, <5>1, <5>2, Zenon
      <4>4. G \o R \in Texts
        BY <1>7, <4>1, Concatenated
      <4>. QED BY <4>2, <4>3, <4>4, Zenon DEF G
    <3> HIDE DEF C, R
    <3>. QED BY <1>2, <3>1, Prefixed
  <2>5. Location(L) = Bracketed(L)
    BY <2>4, Zenon DEF Location
  <2>6. "host" \in DOMAIN fields
    <3>1. Find(<<>>, ":") = 0
      BY NoText, FindNone
    <3>. QED BY <1>3, <1>11, <3>1
  <2>7. Means(Bracketed(B \o R), fields, F)
    BY <2>6, BracketedSay DEF H, P, D
  <2>8. Means(Location(L), fields, F)
    BY <2>1, <2>5, <2>7, Zenon
  <2> HIDE DEF R, B, F
  <2>. QED BY <1>6, <1>7, <2>2, <2>3, <2>8 DEF F, L, D
<1>. QED BY <1>10, <1>11, Zenon

-----------------------------------------------------------------------------
(* The attach string as a whole.                                           *)

LEMMA QueryNone ==
  ASSUME NEW fields, NEW F, Means(<<>>, fields, F)
  PROVE  Means(Query(<<>>), fields, F)
<1>1. Find(<<>>, "=") = 0
  BY NoText, FindNone
<1>2. Setting(<<>>) = <<>>
  BY <1>1, Zenon DEF Setting
<1>3. DOMAIN Query(<<>>) = DOMAIN Setting(<<>>)
      /\ \A f \in DOMAIN Setting(<<>>) : Query(<<>>)[f] = Setting(<<>>)[f]
  BY NoText, QueryOne
<1>4. DOMAIN Query(<<>>) = DOMAIN <<>> /\ \A k \in DOMAIN <<>> : Query(<<>>)[k] = <<>>[k]
  BY <1>2, <1>3
<1>. QED BY <1>4, MeansSame

(* The part before the settings: credentials and location.                 *)
LEMMA MainSay ==
  ASSUME NEW fields, Writable(fields), NEW behind \in Settings, Plain(fields, behind)
  PROVE  LET main == WrittenCredentials(fields, behind) \o WrittenLocation(fields, behind)
             at   == Find(main, "@")
         IN  /\ main \in Texts /\ Free(main, {"?"})
             /\ Means(Over(IF at = 0 THEN <<>> ELSE Credentials(Before(main, at)),
                           Location(After(main, at))), fields, Fields \ behind)
<1> DEFINE C == WrittenCredentials(fields, behind)
           L == WrittenLocation(fields, behind)
           D == Part("database", fields, behind, <<>>)
           main == C \o L
           at == Find(main, "@")
           creds == IF at = 0 THEN <<>> ELSE Credentials(Before(main, at))
           A == {"user", "password"} \ behind
           B == {"host", "port", "database"} \ behind
           F == Fields \ behind
<1>1. "@" \in Marks /\ "@" \in Tokens /\ <<"@">> \in Texts
      /\ Free(<<"@">>, {"?"})
  <2>1. "@" \in Marks /\ "@" \notin {"?"}
    BY MarksAre
  <2>. QED BY <2>1, MarkIs
<1>2. A \subseteq Fields /\ B \subseteq Fields /\ A \cap B = {} /\ A \cup B = F
  <2>1. behind = {"charset"} \/ behind = {"user", "password", "port", "charset"}
    BY Zenon DEF Settings
  <2>. QED BY <2>1 DEF Fields
<1>3. \/ C = <<>> /\ \A f \in A : f \notin DOMAIN fields
      \/ \E c \in Texts : /\ C = c \o <<"@">>
                          /\ Free(c, {"@"}) /\ Free(c, {"?"})
                          /\ Means(Credentials(c), fields, A)
  BY CredentialsSay
<1>4. /\ L \in Texts /\ Free(L, {"?"})
      /\ Free(D, {"@"}) => Free(L, {"@"})
      /\ Means(Location(L), fields, B)
  BY LocationSay
<1> HIDE DEF C, L, F, B
<1>5. CASE C = <<>> /\ \A f \in A : f \notin DOMAIN fields
  <2>1. main = L
    BY <1>4, <1>5, Concatenated
  <2>2. Free(D, {"@"})
    <3>1. \/ D = fields["database"] /\ "database" \in DOMAIN fields
          \/ D = <<>>
      BY DatabaseIs, Zenon
    <3>2. CASE D = fields["database"] /\ "database" \in DOMAIN fields
      <4>1. fields.database = fields["database"]
        OBVIOUS
      <4>2. ~Contains(fields["database"], "@")
        <5>1. DOMAIN fields \cap A = {}
          BY <1>5
        <5>. QED BY <3>2, <4>1, <5>1, Zenon DEF Plain, Has
      <4>3. D \in Texts
        BY <3>2, FieldIs
      <4> HIDE DEF D
      <4>. QED BY <3>2, <4>2, <4>3 DEF Free, Contains
    <3>3. CASE D = <<>>
      BY <3>3, NoText
    <3> HIDE DEF D
    <3>. QED BY <3>1, <3>2, <3>3
  <2>3. at = 0
    BY <1>4, <2>1, <2>2, FindNone
  <2>4. After(main, at) = L
    BY <1>4, <2>1, <2>3, AfterNone
  <2>5. Over(creds, Location(After(main, at))) = Over(<<>>, Location(L))
    <3> HIDE DEF main, at
    <3>. QED BY <2>3, <2>4, Zenon
  <2>6. Means(Over(<<>>, Location(L)), fields, F)
    <3>1. Means(<<>>, fields, A)
      BY <1>5, MeansNone
    <3> HIDE DEF A
    <3>. QED BY <1>2, <1>4, <3>1, MeansOver
  <2> HIDE DEF creds, A, D
  <2>. QED BY <1>4, <2>1, <2>5, <2>6 DEF C, L, F, creds, at, main
<1>6. CASE \E c \in Texts : /\ C = c \o <<"@">>
                            /\ Free(c, {"@"}) /\ Free(c, {"?"})
                            /\ Means(Credentials(c), fields, A)
  <2>1. PICK c \in Texts : /\ C = c \o <<"@">>
                           /\ Free(c, {"@"}) /\ Free(c, {"?"})
                           /\ Means(Credentials(c), fields, A)
    BY <1>6
  <2>2. main = c \o (<<"@">> \o L)
    BY <1>1, <1>4, <2>1, Associates
  <2>3. main \in Texts /\ Free(main, {"?"})
    <3>1. C \in Texts /\ Free(C, {"?"})
      BY <1>1, <2>1, Concatenated
    <3>. QED BY <1>4, <3>1, Concatenated
  <2>4. at = Len(c) + 1 /\ Before(main, Len(c) + 1) = c /\ After(main, Len(c) + 1) = L
    <3>1. LET t == c \o (<<"@">> \o L)
          IN  /\ Find(t, "@") = Len(c) + 1
              /\ Before(t, Len(c) + 1) = c /\ After(t, Len(c) + 1) = L
      BY <1>1, <1>4, <2>1, FindFirst
    <3> HIDE DEF main
    <3>. QED BY <2>2, <3>1, Zenon
  <2>5. Len(c) + 1 # 0
    <3>1. Len(c) \in Nat
      BY Concatenated
    <3>. QED BY <3>1
  <2>6. Over(creds, Location(After(main, at))) = Over(Credentials(c), Location(L))
    <3> HIDE DEF main, at
    <3>. QED BY <2>4, <2>5, Zenon
  <2> HIDE DEF creds, A, main
  <2>7. Means(Over(Credentials(c), Location(L)), fields, F)
    BY <1>2, <1>4, <2>1, MeansOver
  <2>. QED BY <2>3, <2>6, <2>7 DEF C, L, F, creds, at, main
<1>. QED BY <1>3, <1>5, <1>6, Zenon

WrittenSchemes == {"firebird://", "fb://", "FB://"}

LEMMA SchemeIs ==
  ASSUME NEW scheme \in WrittenSchemes, NEW t \in Texts
  PROVE  /\ <<scheme>> \o t \in Texts /\ <<scheme>> \o t # <<>>
         /\ InCase(Lower, <<scheme>> \o t)[1] \in Schemes
         /\ Tail(<<scheme>> \o t) = t
<1> DEFINE r == <<scheme>> \o t
<1>1. scheme \in Schemes \cup {"FB://"}
  BY Zenon DEF WrittenSchemes, Schemes
<1>2. r \in Texts /\ r # <<>> /\ r[1] = scheme /\ Tail(r) = t
  BY <1>1, TokensAre, Prefixed
<1>3. 1 \in DOMAIN r
  <2> HIDE DEF r
  <2>. QED BY <1>2 DEF Texts
<1> HIDE DEF r
<1>4. InCase(Lower, r)[1] = IF scheme \in DOMAIN Lower THEN Lower[scheme] ELSE scheme
  BY <1>2, <1>3 DEF InCase
<1>5. /\ \A w \in DOMAIN Lower \cap (Fields \cup Schemes) : Lower[w] = w
      /\ "FB://" \in DOMAIN Lower /\ Lower["FB://"] = "fb://"
  BY AttachAssumption DEF AttachAssumption
<1>6. "fb://" \in Schemes
  BY DEF Schemes
<1>7. InCase(Lower, r)[1] \in Schemes
  <2>1. CASE scheme = "FB://"
    <3>1. scheme \in DOMAIN Lower /\ Lower[scheme] = "fb://"
      BY <1>5, <2>1, Zenon
    <3>. QED BY <1>4, <1>6, <3>1, Zenon
  <2>2. CASE scheme \in Schemes
    <3>1. CASE scheme \in DOMAIN Lower
      BY <1>4, <1>5, <2>2, <3>1
    <3>2. CASE scheme \notin DOMAIN Lower
      BY <1>4, <2>2, <3>2, Zenon
    <3>. QED BY <3>1, <3>2
  <2>. QED BY <1>1, <2>1, <2>2, Zenon
<1>. QED BY <1>2, <1>7 DEF r

(* A string of the documented form is parsed as what it was written from.  *)
LEMMA WrittenParsed ==
  ASSUME NEW scheme \in WrittenSchemes, NEW fields, Writable(fields),
         NEW behind \in Settings, Plain(fields, behind)
  PROVE  /\ Written(scheme, fields, behind) \in Texts
         /\ Means(ParseDSN(Written(scheme, fields, behind)), fields, Fields)
<1> DEFINE main == WrittenCredentials(fields, behind) \o WrittenLocation(fields, behind)
           at == Find(main, "@")
           place == Over(IF at = 0 THEN <<>> ELSE Credentials(Before(main, at)),
                         Location(After(main, at)))
           S == WrittenSettings(fields, behind)
           start == main \o (IF S = <<>> THEN <<>> ELSE <<"?">> \o Tail(S))
           text == Written(scheme, fields, behind)
           F == Fields \ behind
<1>1. main \in Texts /\ Free(main, {"?"}) /\ Means(place, fields, F)
  BY MainSay
<1>2. \/ S = <<>> /\ Means(<<>>, fields, behind)
      \/ \E t \in Texts : S = <<"&">> \o t /\ Means(Query(t), fields, behind)
  BY SettingsSay, Zenon DEF Say
<1>3. text = <<scheme>> \o start
  BY Zenon DEF Written
<1>4. behind \subseteq Fields /\ F \subseteq Fields /\ behind \cap F = {} /\ behind \cup F = Fields
  <2>1. behind = {"charset"} \/ behind = {"user", "password", "port", "charset"}
    BY Zenon DEF Settings
  <2>. QED BY <2>1 DEF Fields
<1> HIDE DEF main, S, text, F
<1> DEFINE mark == Find(start, "?")
           front == IF mark = 0 THEN start ELSE Before(start, mark)
           query == IF mark = 0 THEN <<>> ELSE After(start, mark)
<1>5. start \in Texts /\ front = main /\ Means(Query(query), fields, behind)
  <2>1. CASE S = <<>> /\ Means(<<>>, fields, behind)
    <3>1. start = main
      BY <1>1, <2>1, Concatenated
    <3>2. mark = 0
      BY <1>1, <3>1, FindNone
    <3>3. Means(Query(<<>>), fields, behind)
      BY <2>1, QueryNone
    <3>4. front = main /\ query = <<>>
      <4> HIDE DEF start, mark
      <4>. QED BY <3>1, <3>2, Zenon
    <3> HIDE DEF start, front, query
    <3>. QED BY <1>1, <3>1, <3>3, <3>4, Zenon
  <2>2. CASE \E t \in Texts : S = <<"&">> \o t /\ Means(Query(t), fields, behind)
    <3>1. PICK t \in Texts : S = <<"&">> \o t /\ Means(Query(t), fields, behind)
      BY <2>2
    <3>2. S # <<>> /\ Tail(S) = t
      BY <3>1, AmpersandIs, Prefixed
    <3>3. start = main \o (<<"?">> \o t)
      BY <3>2, Zenon
    <3>4. "?" \in Tokens
      BY MarksAre, MarkIs
    <3>5. /\ mark = Len(main) + 1
          /\ Before(start, Len(main) + 1) = main /\ After(start, Len(main) + 1) = t
      <4>1. LET u == main \o (<<"?">> \o t)
            IN  /\ Find(u, "?") = Len(main) + 1
                /\ Before(u, Len(main) + 1) = main /\ After(u, Len(main) + 1) = t
        BY <1>1, <3>4, FindFirst
      <4> HIDE DEF start
      <4>. QED BY <3>3, <4>1, Zenon
    <3>6. Len(main) + 1 # 0
      <4>1. Len(main) \in Nat
        BY <1>1, Concatenated
      <4>. QED BY <4>1
    <3>7. start \in Texts
      <4>1. <<"?">> \o t \in Texts
        BY <3>4, Prefixed
      <4> HIDE DEF start
      <4>. QED BY <1>1, <3>3, <4>1, Concatenated
    <3>8. front = main /\ query = t
      <4> HIDE DEF start, mark
      <4>. QED BY <3>5, <3>6, Zenon
    <3> HIDE DEF start, front, query
    <3>. QED BY <3>1, <3>7, <3>8, Zenon
  <2>. QED BY <1>2, <2>1, <2>2, Zenon
<1> HIDE DEF start
<1>6. text \in Texts /\ text # <<>> /\ InCase(Lower, text)[1] \in Schemes /\ Tail(text) = start
  BY <1>3, <1>5, SchemeIs
<1>7. ParseDSN(text) = Over(Query(query), place)
  <2>1. ParseDSN(text) =
          Over(Query(query),
               Over(IF Find(front, "@") = 0 THEN <<>> ELSE Credentials(Before(front, Find(front, "@"))),
                    Location(After(front, Find(front, "@")))))
    BY <1>6, Zenon DEF ParseDSN
  <2> HIDE DEF front, query
  <2>. QED BY <1>5, <2>1, Zenon
<1> HIDE DEF query, place
<1>8. Means(Over(Query(query), place), fields, Fields)
  BY <1>1, <1>4, <1>5, MeansOver
<1>. QED BY <1>6, <1>7, <1>8, Zenon DEF text

(* So is a database alone, and a string with nothing in it.                *)
LEMMA BareParsed ==
  ASSUME NEW text \in Texts, text # <<>>, Bare(text)
  PROVE  Means(ParseDSN(text), Only("database", text), Fields)
<1> DEFINE meaning == Only("database", text)
<1>1. /\ Free(text, {"/"}) /\ Free(text, {"@"}) /\ Free(text, {"?"})
      /\ text[1] # "[" /\ InCase(Lower, text)[1] \notin Schemes
      /\ Contains(text, ":") => Find(text, ":") = 2 /\ text[1] \in Letters
  <2>1. \A i \in 1..Len(text) : text[i] \in ToSet(text)
    BY DEF ToSet, Texts
  <2>2. ToSet(text) \cap {"/", "@", "?"} = {}
    BY Zenon DEF Bare
  <2>3. \A i \in 1..Len(text) : text[i] \notin {"/", "@", "?"}
    BY <2>1, <2>2
  <2>4. Free(text, {"/"}) /\ Free(text, {"@"}) /\ Free(text, {"?"})
    BY <2>3 DEF Free
  <2>. QED BY <2>4, Zenon DEF Bare
<1>2. Find(text, "/") = 0 /\ Find(text, "@") = 0 /\ Find(text, "?") = 0
  BY <1>1, FindNone
<1>3. Find(text, ":") # 0 => Find(text, ":") = 2 /\ text[1] \in Letters \cup Marks
  <2>1. Find(text, ":") # 0 => Contains(text, ":")
    <3>1. ~Contains(text, ":") => Free(text, {":"})
      BY DEF Contains, Free
    <3>. QED BY <3>1, FindNone
  <2>. QED BY <1>1, <2>1
<1>4. HostPort(text, "database") = Some("database", text)
  BY <1>3, Zenon DEF HostPort
<1>5. Location(text) = Some("database", text)
  BY <1>1, <1>2, <1>4, Zenon DEF Location
<1>6. Some("database", text) = Read("database", text) /\ DOMAIN meaning = {"database"}
      /\ meaning["database"] = text
  <2>1. "database" # "port"
    OBVIOUS
  <2>2. Some("database", text) = Read("database", text)
    BY <2>1, Zenon DEF Some, Read
  <2>. QED BY <2>2, OnlyIs
<1>7. ParseDSN(text) = Over(Query(<<>>), Over(<<>>, Location(text)))
  <2>1. After(text, 0) = text
    BY AfterNone
  <2>2. ~(text # <<>> /\ InCase(Lower, text)[1] \in Schemes)
    BY <1>1
  <2>. QED BY <1>2, <2>1, <2>2, Zenon DEF ParseDSN
<1> DEFINE D == {"database"}
           Q == {}
<1>8. Means(Location(text), meaning, D)
  <2>1. Means(Read("database", meaning["database"]), meaning, D)
    <3> HIDE DEF meaning
    <3>. QED BY <1>6, MeansOne
  <2> HIDE DEF meaning, D
  <2>. QED BY <1>5, <1>6, <2>1, Zenon
<1>9. Means(<<>>, meaning, Q) /\ Means(Query(<<>>), meaning, Q)
  <2>1. Means(<<>>, meaning, {})
    BY MeansNone
  <2>. QED BY <2>1, QueryNone
<1>10. /\ Q \subseteq Fields /\ D \subseteq Fields /\ Q \cap D = {} /\ Q \cup D = D
       /\ \A f \in Fields \ D : f \notin DOMAIN meaning
  BY <1>6, MarksAre
<1> HIDE DEF D, Q, meaning
<1>11. Means(Over(<<>>, Location(text)), meaning, D)
  BY <1>8, <1>9, <1>10, MeansOver
<1>12. Means(Over(Query(<<>>), Over(<<>>, Location(text))), meaning, D)
  BY <1>9, <1>10, <1>11, MeansOver
<1>13. Means(ParseDSN(text), meaning, Fields)
  BY <1>7, <1>10, <1>12, MeansMore
<1>. QED BY <1>13 DEF meaning

LEMMA NothingParsed == Means(ParseDSN(<<>>), <<>>, Fields)
<1>1. Find(<<>>, "/") = 0 /\ Find(<<>>, "@") = 0 /\ Find(<<>>, "?") = 0 /\ Find(<<>>, ":") = 0
  BY NoText, FindNone
<1>2. After(<<>>, 0) = <<>>
  BY NoText, AfterNone
<1>3. HostPort(<<>>, "database") = <<>>
  BY <1>1, Zenon DEF HostPort, Some
<1>4. Location(<<>>) = <<>>
  BY <1>1, <1>3, Zenon DEF Location
<1>5. ParseDSN(<<>>) = Over(Query(<<>>), Over(<<>>, <<>>))
  BY <1>1, <1>2, <1>4, Zenon DEF ParseDSN
<1>6. \A f \in Fields : f \notin DOMAIN <<>>
  OBVIOUS
<1>7. Means(<<>>, <<>>, Fields) /\ Means(<<>>, <<>>, {})
  BY <1>6, MeansNone
<1>8. Means(Query(<<>>), <<>>, {})
  BY <1>7, QueryNone
<1>9. {} \subseteq Fields /\ Fields \subseteq Fields /\ {} \cap Fields = {} /\ {} \cup Fields = Fields
  OBVIOUS
<1>10. Means(Over(<<>>, <<>>), <<>>, Fields)
  BY <1>7, <1>9, MeansOver
<1>. QED BY <1>5, <1>8, <1>9, <1>10, MeansOver

LEMMA DocumentedWritable ==
  ASSUME NEW d \in Documented
  PROVE  Writable(d) /\ d \in [DOMAIN d -> Texts] /\ Environments \subseteq [Fields -> Texts]
<1>1. /\ d \in [DOMAIN d -> Texts] /\ DOMAIN d \subseteq Fields
      /\ \A f \in DOMAIN d : /\ f # "password" => d[f] # <<>>
                             /\ ToSet(d[f]) \cap Marks \subseteq MayHold(f)
      /\ Environments \subseteq [Fields -> Texts]
  BY AttachAssumption DEF AttachAssumption
<1>2. \A f \in DOMAIN d : d[f] \in Texts
  BY <1>1
<1>. QED BY <1>1, <1>2 DEF Writable

(* The attach strings of the model are parsed as what they were written    *)
(* from, and without one of the fields they can be written again.          *)
LEMMA InputParsed ==
  ASSUME Input
  PROVE  /\ meant \in [DOMAIN meant -> Texts] /\ path \in Texts /\ Writable(meant)
         /\ Means(ParseDSN(path), meant, Fields)
<1>1. CASE /\ meant \in Documented
           /\ \E s \in Settings, scheme \in {"firebird://", "FB://"} :
                Plain(meant, s) /\ path = Written(scheme, meant, s)
  <2>1. PICK s \in Settings, scheme \in {"firebird://", "FB://"} :
               Plain(meant, s) /\ path = Written(scheme, meant, s)
    BY <1>1
  <2>2. scheme \in WrittenSchemes
    BY Zenon DEF WrittenSchemes
  <2>3. meant \in [DOMAIN meant -> Texts] /\ Writable(meant)
    BY <1>1, DocumentedWritable
  <2>. QED BY <2>1, <2>2, <2>3, WrittenParsed
<1>2. CASE /\ \E d \in Documented : Has("database", d) /\ meant = Only("database", d.database)
           /\ Bare(meant.database) /\ path = meant.database
  <2>1. PICK d \in Documented : Has("database", d) /\ meant = Only("database", d.database)
    BY <1>2
  <2> DEFINE text == d["database"]
  <2>2. meant = Only("database", text) /\ "database" \in DOMAIN d
    <3>1. d.database = d["database"]
      OBVIOUS
    <3>. QED BY <2>1, <3>1, Zenon DEF Has
  <2>3. Writable(d)
    BY DocumentedWritable
  <2>4. text \in Texts /\ text # <<>>
    <3>1. "database" # "password"
      OBVIOUS
    <3>. QED BY <2>2, <2>3, <3>1, FieldIs
  <2>5. DOMAIN meant = {"database"} /\ meant["database"] = text
    <3> HIDE DEF text
    <3>. QED BY <2>2, OnlyIs
  <2>6. Bare(text) /\ path = text
    <3>1. meant.database = meant["database"]
      OBVIOUS
    <3> HIDE DEF text
    <3>. QED BY <1>2, <2>5, <3>1, Zenon
  <2>7. Writable(meant)
    <3>1. \A f \in DOMAIN meant : f \in DOMAIN d /\ meant[f] = d[f]
      BY <2>2, <2>5
    <3>. QED BY <2>3, <3>1, Zenon DEF Writable
  <2>8. meant \in [DOMAIN meant -> Texts]
    <3> HIDE DEF text
    <3>1. meant = [f \in {"database"} |-> text]
      BY <2>2, Zenon DEF Only
    <3>. QED BY <2>4, <2>5, <3>1
  <2> HIDE DEF text
  <2>9. Means(ParseDSN(text), Only("database", text), Fields)
    BY <2>4, <2>6, BareParsed
  <2>. QED BY <2>2, <2>4, <2>6, <2>7, <2>8, <2>9
<1>3. CASE meant = <<>> /\ path = <<>>
  <2>1. DOMAIN <<>> = {} /\ <<>> \in [DOMAIN <<>> -> Texts]
    OBVIOUS
  <2>2. Writable(<<>>)
    BY <2>1 DEF Writable
  <2>. QED BY <1>3, <2>1, <2>2, NoText, NothingParsed
<1>. QED BY <1>1, <1>2, <1>3 DEF Input

-----------------------------------------------------------------------------
(* The options.                                                            *)

LEMMA GetOptionIs ==
  ASSUME NEW f, NEW opts
  PROVE  LET names == OptionNames[f]
             I == {i \in 1..Len(names) : names[i] \in DOMAIN opts}
         IN  /\ I = {} => GetOption(f, opts) = <<>>
             /\ I # {} => Min(I) \in I /\ GetOption(f, opts) = <<opts[names[Min(I)]]>>
<1> DEFINE names == OptionNames[f]
           I == {i \in 1..Len(names) : names[i] \in DOMAIN opts}
           first == IF I # {} THEN Min(I) ELSE 0
<1>1. GetOption(f, opts) = IF first = 0 THEN <<>> ELSE <<opts[names[first]]>>
  BY DEF GetOption, SelectInSeq
<1>2. I # {} => Min(I) \in I /\ Min(I) # 0
  <2>1. I \subseteq Nat /\ 0 \notin I
    OBVIOUS
  <2> HIDE DEF I
  <2>. QED BY <2>1, LeastOf
<1> HIDE DEF I, names
<1>3. I = {} => GetOption(f, opts) = <<>>
  BY <1>1
<1>4. I # {} => GetOption(f, opts) = <<opts[names[Min(I)]]>>
  BY <1>1, <1>2
<1>. QED BY <1>2, <1>3, <1>4 DEF I, names

(* Only the options under the names of a field count for it.               *)
LEMMA SameOption ==
  ASSUME NEW f, NEW a, NEW b,
         \A i \in 1..Len(OptionNames[f]) :
            LET k == OptionNames[f][i]
            IN  (k \in DOMAIN a <=> k \in DOMAIN b) /\ (k \in DOMAIN a => a[k] = b[k])
  PROVE  GetOption(f, a) = GetOption(f, b)
<1> DEFINE names == OptionNames[f]
           I == {i \in 1..Len(names) : names[i] \in DOMAIN a}
           J == {i \in 1..Len(names) : names[i] \in DOMAIN b}
<1>1. I = J /\ \A i \in I : a[names[i]] = b[names[i]]
  OBVIOUS
<1>2. /\ I = {} => GetOption(f, a) = <<>>
      /\ I # {} => Min(I) \in I /\ GetOption(f, a) = <<a[names[Min(I)]]>>
  BY GetOptionIs
<1>3. /\ J = {} => GetOption(f, b) = <<>>
      /\ J # {} => Min(J) \in J /\ GetOption(f, b) = <<b[names[Min(J)]]>>
  BY GetOptionIs
<1> HIDE DEF I, J, names
<1>. QED BY <1>1, <1>2, <1>3

LEMMA NoOption ==
  ASSUME NEW f, NEW opts,
         \A i \in 1..Len(OptionNames[f]) : OptionNames[f][i] \notin DOMAIN opts
  PROVE  GetOption(f, opts) = <<>>
<1> DEFINE names == OptionNames[f]
           I == {i \in 1..Len(names) : names[i] \in DOMAIN opts}
<1>1. I = {}
  OBVIOUS
<1>. QED BY <1>1, GetOptionIs

LEMMA OptionTyped ==
  ASSUME NEW f, NEW opts, opts \in [DOMAIN opts -> Texts], GetOption(f, opts) # <<>>
  PROVE  GetOption(f, opts)[1] \in Texts
<1> DEFINE names == OptionNames[f]
           I == {i \in 1..Len(names) : names[i] \in DOMAIN opts}
<1>1. I # {} /\ Min(I) \in I /\ GetOption(f, opts) = <<opts[names[Min(I)]]>>
  <2> HIDE DEF I
  <2>. QED BY GetOptionIs DEF I
<1>2. opts[names[Min(I)]] \in Texts
  BY <1>1
<1> HIDE DEF I, names
<1>3. <<opts[names[Min(I)]]>>[1] = opts[names[Min(I)]]
  OBVIOUS
<1>. QED BY <1>1, <1>2, <1>3, Zenon

(* No name is that of two fields.                                          *)
FieldOf(k) ==
    CASE k \in {"user", "username"} -> "user"
      [] k \in {"password", "pass"} -> "password"
      [] k \in {"database", "db"}   -> "database"
      [] OTHER                      -> k

LEMMA NameIs ==
  ASSUME NEW f \in Fields, NEW i \in 1..Len(OptionNames[f])
  PROVE  FieldOf(OptionNames[f][i]) = f
<1>1. OptionNames[f] = CASE f = "user"     -> <<"user", "username">>
                         [] f = "password" -> <<"password", "pass">>
                         [] f = "database" -> <<"database", "db">>
                         [] OTHER          -> <<f>>
  BY DEF OptionNames
<1>2. CASE f = "user"
  <2>1. OptionNames[f] = <<"user", "username">>
    BY <1>1, <1>2
  <2>2. OptionNames[f][i] \in {"user", "username"}
    BY <2>1
  <2>. QED BY <1>2, <2>2 DEF FieldOf
<1>3. CASE f = "password"
  <2>1. OptionNames[f] = <<"password", "pass">>
    BY <1>1, <1>3
  <2>2. OptionNames[f][i] \in {"password", "pass"}
    BY <2>1
  <2>. QED BY <1>3, <2>2 DEF FieldOf
<1>4. CASE f = "database"
  <2>1. OptionNames[f] = <<"database", "db">>
    BY <1>1, <1>4
  <2>2. OptionNames[f][i] \in {"database", "db"}
    BY <2>1
  <2>. QED BY <1>4, <2>2 DEF FieldOf
<1>5. CASE f \notin {"user", "password", "database"}
  <2>1. OptionNames[f] = <<f>>
    BY <1>1, <1>5
  <2>2. OptionNames[f][i] = f
    BY <2>1
  <2>3. f = "host" \/ f = "port" \/ f = "charset"
    BY <1>5 DEF Fields
  <2>. QED BY <2>2, <2>3 DEF FieldOf
<1>. QED BY <1>2, <1>3, <1>4, <1>5

LEMMA NamesRange ==
  ASSUME NEW f \in Fields
  PROVE  \A k : k \in Range(OptionNames[f]) <=>
                  \E i \in 1..Len(OptionNames[f]) : k = OptionNames[f][i]
<1>1. OptionNames[f] = CASE f = "user"     -> <<"user", "username">>
                         [] f = "password" -> <<"password", "pass">>
                         [] f = "database" -> <<"database", "db">>
                         [] OTHER          -> <<f>>
  BY DEF OptionNames
<1>2. DOMAIN OptionNames[f] = 1..Len(OptionNames[f])
  <2>1. CASE f = "user"
    BY <1>1, <2>1
  <2>2. CASE f = "password"
    BY <1>1, <2>2
  <2>3. CASE f = "database"
    BY <1>1, <2>3
  <2>4. CASE f \notin {"user", "password", "database"}
    <3>1. OptionNames[f] = <<f>>
      BY <1>1, <2>4
    <3>. QED BY <3>1
  <2>. QED BY <2>1, <2>2, <2>3, <2>4
<1> DEFINE names == OptionNames[f]
<1>3. DOMAIN names = 1..Len(names)
  BY <1>2
<1> HIDE DEF names
<1>4. \A k : k \in Range(names) <=> \E i \in 1..Len(names) : k = names[i]
  BY <1>3 DEF Range
<1>. QED BY <1>4 DEF names

-----------------------------------------------------------------------------
(* Whatever was parsed, a field is read from its option, what the attach   *)
(* string means, the environment or the default.                           *)

GivenIn(f, m, opts, environment) ==
    GetOption(f, opts) # <<>> \/ f \in DOMAIN m \/ environment[f] # <<>>

SourceIn(f, m, opts, environment) ==
    IF GetOption(f, opts) # <<>> THEN GetOption(f, opts)[1]
    ELSE IF f \in DOMAIN m THEN m[f] ELSE environment[f]

FromSource(f, m, opts, environment) ==
    IF GivenIn(f, m, opts, environment) THEN Read(f, SourceIn(f, m, opts, environment))
    ELSE Only(f, Default[f])

LEMMA NotAField == "threw" \notin Fields
BY DEF Fields

LEMMA ThrownPort ==
  ASSUME NEW f \in Fields, NEW text, "threw" \in DOMAIN Read(f, text)
  PROVE  f = "port" /\ Read(f, text) = Only("threw", TRUE)
         /\ Port(text) = Only("threw", TRUE)
<1>1. f = "port"
  BY ReadIs, NotAField, Zenon
<1>2. Read(f, text) = Port(text)
  BY <1>1, Zenon DEF Read
<1>3. "threw" # "port"
  OBVIOUS
<1>4. Port(text) = Only("threw", TRUE)
  <2>1. "threw" \in DOMAIN Port(text)
    BY <1>2, Zenon
  <2>2. CASE text # <<>> /\ text[1] \in DOMAIN Number
    <3>1. DOMAIN Port(text) = {"port"}
      BY <2>2, PortIs, Zenon
    <3>. QED BY <1>3, <2>1, <3>1
  <2>3. CASE ~(text # <<>> /\ text[1] \in DOMAIN Number)
    BY <2>3, PortIs, Zenon
  <2>. QED BY <2>2, <2>3
<1>. QED BY <1>1, <1>2, <1>4, Zenon

(* Which fields were parsed.                                               *)
LEMMA ParsedIs ==
  ASSUME NEW dsn, NEW m, DOMAIN m \subseteq Fields, Means(dsn, m, Fields)
  PROVE  /\ "threw" \in DOMAIN dsn <=>
              "port" \in DOMAIN m /\ Port(m["port"]) = Only("threw", TRUE)
         /\ \A f \in Fields : f \in DOMAIN dsn => f \in DOMAIN m /\ f \in DOMAIN Read(f, m[f])
                                                 /\ dsn[f] = Read(f, m[f])[f]
         /\ \A f \in Fields : f \in DOMAIN m => f \in DOMAIN dsn \/ "threw" \in DOMAIN dsn
<1>1. ASSUME "threw" \in DOMAIN dsn
      PROVE  "port" \in DOMAIN m /\ Port(m["port"]) = Only("threw", TRUE)
  <2>1. PICK f \in Fields : f \in DOMAIN m /\ "threw" \in DOMAIN Read(f, m[f])
    BY <1>1, Zenon DEF Means
  <2>. QED BY <2>1, ThrownPort, Zenon
<1>2. ASSUME "port" \in DOMAIN m, Port(m["port"]) = Only("threw", TRUE)
      PROVE  "threw" \in DOMAIN dsn
  <2>1. "port" \in Fields /\ Read("port", m["port"]) = Port(m["port"])
    BY Zenon DEF Fields, Read
  <2>2. "threw" \in DOMAIN Only("threw", TRUE)
    BY OnlyIs
  <2>3. "threw" \in DOMAIN Read("port", m["port"])
    BY <1>2, <2>1, <2>2, Zenon
  <2>. QED BY <1>2, <2>1, <2>3, Zenon DEF Means
<1>3. ASSUME NEW f \in Fields, f \in DOMAIN dsn
      PROVE  f \in DOMAIN m /\ f \in DOMAIN Read(f, m[f]) /\ dsn[f] = Read(f, m[f])[f]
  <2>1. PICK g \in Fields : g \in DOMAIN m /\ f \in DOMAIN Read(g, m[g])
    BY <1>3, Zenon DEF Means
  <2>2. f = g
    <3>1. f = g \/ (g = "port" /\ f = "threw")
      BY <2>1, ReadIs, Zenon
    <3>. QED BY <3>1, NotAField, Zenon
  <2>3. f \in DOMAIN m /\ f \in DOMAIN Read(f, m[f])
    BY <2>1, <2>2, Zenon
  <2>. QED BY <2>3, Zenon DEF Means
<1>4. ASSUME NEW f \in Fields, f \in DOMAIN m
      PROVE  f \in DOMAIN dsn \/ "threw" \in DOMAIN dsn
  <2>1. f \in DOMAIN Read(f, m[f]) \/ "threw" \in DOMAIN Read(f, m[f])
    BY ReadIs, Zenon
  <2>. QED BY <1>4, <2>1, Zenon DEF Means
<1>. QED BY <1>1, <1>2, <1>3, <1>4

(* A read field has nothing but its value.                                 *)
LEMMA ReadOnly ==
  ASSUME NEW f \in Fields, NEW text, f \in DOMAIN Read(f, text)
  PROVE  Read(f, text) = Only(f, Read(f, text)[f])
<1>1. CASE f # "port"
  <2>1. Read(f, text) = Only(f, text)
    BY <1>1, Zenon DEF Read
  <2>. QED BY <1>1, <2>1, ReadIs, Zenon
<1>2. CASE f = "port"
  <2>1. Read(f, text) = Port(text)
    BY <1>2, Zenon DEF Read
  <2>2. "threw" # "port"
    OBVIOUS
  <2>3. text # <<>> /\ text[1] \in DOMAIN Number
    <3>1. ~(text # <<>> /\ text[1] \in DOMAIN Number) => DOMAIN Port(text) = {"threw"}
      BY PortIs, Zenon
    <3>2. "port" \in DOMAIN Port(text)
      BY <1>2, <2>1, Zenon
    <3>. QED BY <2>2, <3>1, <3>2
  <2> DEFINE n == Number[text[1]] % (MaxPort + 1)
  <2>4. Port(text) = Only("port", n)
    BY <2>3, Zenon DEF Port
  <2> HIDE DEF n
  <2>5. Only("port", n)["port"] = n
    BY OnlyIs
  <2>. QED BY <1>2, <2>1, <2>4, <2>5, Zenon
<1>. QED BY <1>1, <1>2, Zenon

LEMMA ChosenIs ==
  ASSUME NEW dsn, NEW m, DOMAIN m \subseteq Fields, Means(dsn, m, Fields),
         "threw" \notin DOMAIN dsn, NEW opts, NEW environment, NEW f \in Fields
  PROVE  Chosen(f, dsn, opts, environment) = FromSource(f, m, opts, environment)
<1> DEFINE option == GetOption(f, opts)
<1>1. CASE option # <<>>
  BY <1>1, Zenon DEF Chosen, FromSource, GivenIn, SourceIn
<1>2. CASE option = <<>>
  <2>1. f \in DOMAIN dsn <=> f \in DOMAIN m
    BY ParsedIs, Zenon
  <2>2. CASE f \in DOMAIN m
    <3>1. f \in DOMAIN Read(f, m[f]) /\ dsn[f] = Read(f, m[f])[f]
      BY <2>1, <2>2, ParsedIs, Zenon
    <3>2. Only(f, dsn[f]) = Read(f, m[f])
      BY <3>1, ReadOnly
    <3>3. Chosen(f, dsn, opts, environment) = Only(f, dsn[f])
      BY <1>2, <2>1, <2>2, Zenon DEF Chosen
    <3>4. FromSource(f, m, opts, environment) = Read(f, m[f])
      BY <1>2, <2>2, Zenon DEF FromSource, GivenIn, SourceIn
    <3>. QED BY <3>2, <3>3, <3>4, Zenon
  <2>3. CASE f \notin DOMAIN m
    BY <1>2, <2>1, <2>3, Zenon DEF Chosen, FromSource, GivenIn, SourceIn
  <2>. QED BY <2>2, <2>3, Zenon
<1>. QED BY <1>1, <1>2, Zenon

(* What the parameters are resolved to.                                    *)
Refused(m, opts, environment) ==
    \/ \E f \in Fields : "threw" \in DOMAIN FromSource(f, m, opts, environment)
    \/ FromSource("database", m, opts, environment)["database"] = <<>>

ResolvedFrom(m, opts, environment) ==
    IF Refused(m, opts, environment) THEN Only("threw", TRUE)
    ELSE [f \in Fields |->
            IF f = "user" THEN NormalizeUser(FromSource(f, m, opts, environment)[f])
            ELSE FromSource(f, m, opts, environment)[f]]

LEMMA ResolveIs ==
  ASSUME NEW dsn, NEW m, DOMAIN m \subseteq Fields, Means(dsn, m, Fields),
         "threw" \notin DOMAIN dsn, NEW opts, NEW environment
  PROVE  ResolveParameters(dsn, opts, environment) = ResolvedFrom(m, opts, environment)
<1> DEFINE of(f) == Chosen(f, dsn, opts, environment)
           got(f) == FromSource(f, m, opts, environment)
           threw == "threw" \in DOMAIN dsn \cup UNION {DOMAIN of(f) : f \in Fields}
           params1 == [f \in Fields |-> IF f = "user" THEN NormalizeUser(of(f)[f]) ELSE of(f)[f]]
           params2 == [f \in Fields |-> IF f = "user" THEN NormalizeUser(got(f)[f]) ELSE got(f)[f]]
           empty == of("database").database = <<>>
<1>1. \A f \in Fields : of(f) = got(f)
  BY ChosenIs
<1>2. ResolveParameters(dsn, opts, environment)
        = IF threw \/ empty THEN Only("threw", TRUE) ELSE params1
  BY Zenon DEF ResolveParameters
<1>3. ResolvedFrom(m, opts, environment)
        = IF Refused(m, opts, environment) THEN Only("threw", TRUE) ELSE params2
  BY Zenon DEF ResolvedFrom
<1>4. threw <=> \E f \in Fields : "threw" \in DOMAIN got(f)
  <2> HIDE DEF of, got
  <2>. QED BY <1>1
<1>5. empty <=> got("database")["database"] = <<>>
  <2>1. of("database").database = of("database")["database"]
    OBVIOUS
  <2>2. "database" \in Fields
    BY MarksAre
  <2> HIDE DEF of, got
  <2>. QED BY <1>1, <2>1, <2>2, Zenon
<1>6. params1 = params2
  <2> HIDE DEF of, got
  <2>. QED BY <1>1
<1>7. Refused(m, opts, environment) <=> threw \/ empty
  BY <1>4, <1>5, Zenon DEF Refused
<1> HIDE DEF threw, empty, params1, params2
<1>8. CASE Refused(m, opts, environment)
  BY <1>2, <1>3, <1>7, <1>8, Zenon
<1>9. CASE ~Refused(m, opts, environment)
  <2>1. ~(threw \/ empty)
    BY <1>7, <1>9
  <2>. QED BY <1>2, <1>3, <1>6, <1>9, <2>1, Zenon
<1>. QED BY <1>8, <1>9

LEMMA ResolveThrew ==
  ASSUME NEW dsn, NEW opts, NEW environment, "threw" \in DOMAIN dsn
  PROVE  ResolveParameters(dsn, opts, environment) = Only("threw", TRUE)
<1> DEFINE of(f) == Chosen(f, dsn, opts, environment)
           threw == "threw" \in DOMAIN dsn \cup UNION {DOMAIN of(f) : f \in Fields}
<1>1. threw
  OBVIOUS
<1>. QED BY <1>1, Zenon DEF ResolveParameters

LEMMA ResolvedFromIs ==
  ASSUME NEW m, NEW opts, NEW environment
  PROVE  "threw" \in DOMAIN ResolvedFrom(m, opts, environment) <=> Refused(m, opts, environment)
<1> DEFINE params1 == [f \in Fields |->
              IF f = "user" THEN NormalizeUser(FromSource(f, m, opts, environment)[f])
              ELSE FromSource(f, m, opts, environment)[f]]
<1>1. "threw" \notin DOMAIN params1
  BY NotAField
<1>2. "threw" \in DOMAIN Only("threw", TRUE)
  BY OnlyIs
<1> HIDE DEF params1
<1>3. ResolvedFrom(m, opts, environment)
        = IF Refused(m, opts, environment) THEN Only("threw", TRUE) ELSE params1
  BY Zenon DEF ResolvedFrom, params1
<1>. QED BY <1>1, <1>2, <1>3, Zenon

-----------------------------------------------------------------------------
(* Types.                                                                  *)

LEMMA SourceTyped ==
  ASSUME NEW m, m \in [DOMAIN m -> Texts],
         NEW opts, opts \in [DOMAIN opts -> Texts],
         NEW environment \in [Fields -> Texts], NEW f \in Fields
  PROVE  SourceIn(f, m, opts, environment) \in Texts
<1>1. CASE GetOption(f, opts) # <<>>
  <2>1. SourceIn(f, m, opts, environment) = GetOption(f, opts)[1]
    BY <1>1, Zenon DEF SourceIn
  <2>. QED BY <1>1, <2>1, OptionTyped
<1>2. CASE GetOption(f, opts) = <<>> /\ f \in DOMAIN m
  <2>1. SourceIn(f, m, opts, environment) = m[f]
    BY <1>2, Zenon DEF SourceIn
  <2>. QED BY <1>2, <2>1
<1>3. CASE GetOption(f, opts) = <<>> /\ f \notin DOMAIN m
  <2>1. SourceIn(f, m, opts, environment) = environment[f]
    BY <1>3, Zenon DEF SourceIn
  <2>. QED BY <2>1
<1>. QED BY <1>1, <1>2, <1>3

LEMMA PortTyped ==
  ASSUME NEW text, text # <<>>, text[1] \in DOMAIN Number
  PROVE  Port(text)["port"] \in 0..MaxPort
         /\ (Number[text[1]] <= MaxPort => Port(text)["port"] = Number[text[1]])
<1> DEFINE n == Number[text[1]]
<1>1. n \in Nat /\ MaxPort \in Nat
  BY AttachAssumption DEF AttachAssumption
<1>2. Port(text)["port"] = n % (MaxPort + 1)
  BY PortIs, Zenon
<1> HIDE DEF n
<1>3. n % (MaxPort + 1) \in 0..MaxPort
  BY <1>1
<1>4. n <= MaxPort => n % (MaxPort + 1) = n
  BY <1>1
<1>. QED BY <1>2, <1>3, <1>4 DEF n

LEMMA DefaultIs ==
  /\ \A f \in Fields : f # "port" => Default[f] \in Texts
  /\ Default["port"] \in 0..MaxPort
  /\ Default["user"] = <<"SYSDBA">>
<1>1. \A f \in Fields : Default[f] = CASE f = "host"    -> <<"localhost">>
                                       [] f = "port"    -> 3050
                                       [] f = "user"    -> <<"SYSDBA">>
                                       [] f = "charset" -> <<"UTF8">>
                                       [] OTHER         -> <<>>
  BY DEF Default
<1>2. /\ "localhost" \in Tokens /\ "SYSDBA" \in Tokens /\ "UTF8" \in Tokens
      /\ MaxPort \in Nat /\ 3050 <= MaxPort
  BY AttachAssumption DEF AttachAssumption, Tokens
<1>3. /\ <<"localhost">> \in Texts /\ <<"SYSDBA">> \in Texts /\ <<"UTF8">> \in Texts
      /\ <<>> \in Texts
  <2>1. \A t \in Tokens : <<t>> \in Texts
    BY OneToken
  <2>2. "localhost" \in Tokens /\ "SYSDBA" \in Tokens /\ "UTF8" \in Tokens
    BY <1>2
  <2>3. <<"localhost">> \in Texts /\ <<"SYSDBA">> \in Texts /\ <<"UTF8">> \in Texts
    BY <2>1, <2>2, Zenon
  <2>. QED BY <2>3, NoText
<1>4. ASSUME NEW f \in Fields, f # "port" PROVE Default[f] \in Texts
  <2>1. CASE f = "host"
    <3>1. Default[f] = <<"localhost">>
      BY <1>1, <2>1
    <3>. QED BY <1>3, <3>1, Zenon
  <2>2. CASE f = "user"
    <3>1. f # "host"
      BY <2>2
    <3>2. Default[f] = <<"SYSDBA">>
      BY <1>1, <2>2
    <3>. QED BY <1>3, <3>2, Zenon
  <2>3. CASE f = "charset"
    <3>1. Default[f] = <<"UTF8">>
      BY <1>1, <2>3
    <3>. QED BY <1>3, <3>1, Zenon
  <2>4. CASE f \notin {"host", "user", "charset"}
    <3>1. Default[f] = <<>>
      BY <1>1, <1>4, <2>4
    <3>. QED BY <1>3, <3>1, Zenon
  <2>. QED BY <2>1, <2>2, <2>3, <2>4
<1>5. "port" \in Fields /\ "user" \in Fields
  BY MarksAre
<1>6. Default["port"] = 3050 /\ Default["user"] = <<"SYSDBA">>
  BY <1>1, <1>5
<1>. QED BY <1>2, <1>4, <1>6

LEMMA NormalizeTyped ==
  ASSUME NEW user \in Texts
  PROVE  NormalizeUser(user) \in Texts
<1>1. SubSeq(user, 2, Len(user) - 1) \in Texts
  BY DEF Texts
<1>2. InCase(Upper, user) \in Texts
  <2>1. \A w \in DOMAIN Upper : Upper[w] \in Tokens
    BY AttachAssumption DEF AttachAssumption, Tokens
  <2>2. DOMAIN user = 1..Len(user) /\ Len(user) \in Nat /\ \A i \in 1..Len(user) : user[i] \in Tokens
    BY DEF Texts
  <2>. QED BY <2>1, <2>2 DEF InCase, Texts
<1>. QED BY <1>1, <1>2, Zenon DEF NormalizeUser

LEMMA DefaultUser == NormalizeUser(<<"SYSDBA">>) = <<"SYSDBA">>
<1> DEFINE u == <<"SYSDBA">>
           name == "SYSDBA"
<1>1. Len(u) = 1 /\ u[1] = name /\ DOMAIN u = {1} /\ u = [i \in DOMAIN u |-> u[i]]
  OBVIOUS
<1>2. name \in DOMAIN Upper => Upper[name] = name
  BY AttachAssumption DEF AttachAssumption
<1> HIDE DEF u, name
<1>3. ~(Len(u) >= 2)
  BY <1>1
<1>4. NormalizeUser(u) = InCase(Upper, u)
  BY <1>3, Zenon DEF NormalizeUser
<1>5. \A i \in DOMAIN u : (IF u[i] \in DOMAIN Upper THEN Upper[u[i]] ELSE u[i]) = u[i]
  BY <1>1, <1>2
<1>6. InCase(Upper, u) = u
  BY <1>1, <1>5, Zenon DEF InCase
<1>. QED BY <1>4, <1>6, Zenon DEF u

LEMMA FromSourceTyped ==
  ASSUME NEW m, m \in [DOMAIN m -> Texts],
         NEW opts, opts \in [DOMAIN opts -> Texts],
         NEW environment \in [Fields -> Texts], NEW f \in Fields,
         "threw" \notin DOMAIN FromSource(f, m, opts, environment)
  PROVE  /\ f # "port" => FromSource(f, m, opts, environment)[f] \in Texts
         /\ f = "port" => FromSource(f, m, opts, environment)[f] \in 0..MaxPort
<1> DEFINE source == SourceIn(f, m, opts, environment)
           got == FromSource(f, m, opts, environment)
<1>1. source \in Texts
  BY SourceTyped
<1>2. CASE GivenIn(f, m, opts, environment)
  <2>1. got = Read(f, source)
    BY <1>2, Zenon DEF FromSource
  <2> HIDE DEF got, source
  <2>2. CASE f # "port"
    <3>1. got[f] = source
      BY <2>1, <2>2, ReadIs, Zenon
    <3>. QED BY <1>1, <2>2, <3>1 DEF got, source
  <2>3. CASE f = "port"
    <3>1. got = Port(source)
      BY <2>1, <2>3, Zenon DEF Read
    <3>2. "threw" \notin DOMAIN Port(source)
      BY <3>1, Zenon DEF got
    <3>3. source # <<>> /\ source[1] \in DOMAIN Number
      <4>1. ~(source # <<>> /\ source[1] \in DOMAIN Number) => DOMAIN Port(source) = {"threw"}
        BY PortIs, Zenon
      <4>. QED BY <3>2, <4>1
    <3>4. Port(source)["port"] \in 0..MaxPort
      BY <3>3, PortTyped
    <3>. QED BY <2>3, <3>1, <3>4, Zenon DEF got, source
  <2>. QED BY <2>2, <2>3
<1>3. CASE ~GivenIn(f, m, opts, environment)
  <2>1. got = Only(f, Default[f])
    BY <1>3, Zenon DEF FromSource
  <2>2. got[f] = Default[f]
    BY <2>1, OnlyIs, Zenon
  <2> HIDE DEF got
  <2>. QED BY <2>2, DefaultIs, Zenon DEF got
<1>. QED BY <1>2, <1>3

LEMMA ResolvedTyped ==
  ASSUME NEW m, m \in [DOMAIN m -> Texts],
         NEW opts, opts \in [DOMAIN opts -> Texts],
         NEW environment \in [Fields -> Texts],
         ~Refused(m, opts, environment)
  PROVE  LET R == ResolvedFrom(m, opts, environment)
         IN  /\ DOMAIN R = Fields
             /\ R["port"] \in 0..MaxPort
             /\ \A f \in Fields \ {"port"} : R[f] \in Texts
             /\ R["user"] = NormalizeUser(FromSource("user", m, opts, environment)["user"])
             /\ \A f \in Fields \ {"user"} : R[f] = FromSource(f, m, opts, environment)[f]
<1> DEFINE R == ResolvedFrom(m, opts, environment)
           got(f) == FromSource(f, m, opts, environment)
<1>1. R = [f \in Fields |-> IF f = "user" THEN NormalizeUser(got(f)[f]) ELSE got(f)[f]]
  BY Zenon DEF ResolvedFrom
<1>2. \A f \in Fields : "threw" \notin DOMAIN got(f)
  BY Zenon DEF Refused
<1>3. \A f \in Fields : /\ f # "port" => got(f)[f] \in Texts
                        /\ f = "port" => got(f)[f] \in 0..MaxPort
  BY <1>2, FromSourceTyped
<1>4. "port" \in Fields /\ "user" \in Fields /\ "port" # "user"
  BY MarksAre
<1> HIDE DEF R, got
<1>5. /\ DOMAIN R = Fields
      /\ R["user"] = NormalizeUser(got("user")["user"])
      /\ \A f \in Fields \ {"user"} : R[f] = got(f)[f]
  BY <1>1, <1>4
<1>6. R["user"] \in Texts
  BY <1>3, <1>4, <1>5, NormalizeTyped
<1>7. \A f \in Fields \ {"port"} : R[f] \in Texts
  BY <1>3, <1>5, <1>6
<1>8. R["port"] \in 0..MaxPort
  BY <1>3, <1>4, <1>5
<1>. QED BY <1>5, <1>7, <1>8 DEF R, got

-----------------------------------------------------------------------------
(* The inductive invariant.                                                *)

LEMMA InputsTyped ==
  ASSUME IInv
  PROVE  /\ meant \in [DOMAIN meant -> Texts] /\ DOMAIN meant \subseteq Fields
         /\ options \in [DOMAIN options -> Texts] /\ env \in [Fields -> Texts]
         /\ Writable(meant) /\ Means(ParseDSN(path), meant, Fields)
<1>1. Input /\ options \in OptionSets /\ env \in Environments
  BY Zenon DEF IInv, TypeOK
<1>2. /\ \A o \in OptionSets : o \in [DOMAIN o -> Texts]
      /\ Environments \subseteq [Fields -> Texts]
  BY AttachAssumption DEF AttachAssumption
<1>3. /\ meant \in [DOMAIN meant -> Texts] /\ Writable(meant)
      /\ Means(ParseDSN(path), meant, Fields)
  BY <1>1, InputParsed
<1>4. DOMAIN meant \subseteq Fields
  BY <1>3, Zenon DEF Writable
<1>. QED BY <1>1, <1>2, <1>3, <1>4

(* Attached with what the fields say.                                      *)
LEMMA AttachedIs ==
  ASSUME IInv, "threw" \notin DOMAIN Resolved
  PROVE  /\ "threw" \notin DOMAIN ParseDSN(path)
         /\ ~Refused(meant, options, env)
         /\ Resolved = ResolvedFrom(meant, options, env)
<1> DEFINE dsn == ParseDSN(path)
<1>1. Means(dsn, meant, Fields) /\ DOMAIN meant \subseteq Fields
  BY InputsTyped
<1>2. Resolved = ResolveParameters(dsn, options, env)
  BY Zenon DEF Resolved
<1> HIDE DEF dsn
<1>3. "threw" \notin DOMAIN dsn
  <2>1. "threw" \in DOMAIN Only("threw", TRUE)
    BY OnlyIs
  <2>. QED BY <1>2, <2>1, ResolveThrew
<1>4. Resolved = ResolvedFrom(meant, options, env)
  BY <1>1, <1>2, <1>3, ResolveIs
<1>5. ~Refused(meant, options, env)
  BY <1>4, ResolvedFromIs
<1>. QED BY <1>3, <1>4, <1>5 DEF dsn

LEMMA InitIInv == Init => IInv
<1> SUFFICES ASSUME Init PROVE IInv
  OBVIOUS
<1>1. Input /\ options \in OptionSets /\ env \in Environments
      /\ params = <<>> /\ outcome = "attaching"
  BY Zenon DEF Init
<1>2. meant \in [DOMAIN meant -> Texts] /\ path \in Texts /\ DOMAIN meant \subseteq Fields
  <2>1. meant \in [DOMAIN meant -> Texts] /\ path \in Texts /\ Writable(meant)
    BY <1>1, InputParsed
  <2>. QED BY <2>1, Zenon DEF Writable
<1>3. TypeOK
  BY <1>1, <1>2 DEF TypeOK
<1>4. OutcomeOK
  BY <1>1 DEF OutcomeOK
<1>. QED BY <1>1, <1>3, <1>4, Zenon DEF IInv

LEMMA StepIInv == IInv /\ [Next]_vars => IInv'
<1> SUFFICES ASSUME IInv, [Next]_vars PROVE IInv'
  OBVIOUS
<1>1. UNCHANGED <<meant, path, options, env>>
  BY Zenon DEF Next, vars, FirebirdAttach, AttachThrows
<1>2. Input' /\ Resolved' = Resolved
  <2>1. Input
    BY Zenon DEF IInv
  <2>2. Input'
    BY <1>1, <2>1 DEF Input
  <2>3. Resolved' = Resolved
    BY <1>1, Zenon DEF Resolved
  <2>. QED BY <2>2, <2>3
<1>3. CASE FirebirdAttach
  <2>1. "threw" \notin DOMAIN Resolved /\ params' = Resolved /\ outcome' = "attached"
    BY <1>3, Zenon DEF FirebirdAttach
  <2>2. ~Refused(meant, options, env) /\ Resolved = ResolvedFrom(meant, options, env)
    BY <2>1, AttachedIs
  <2>3. /\ DOMAIN Resolved = Fields /\ Resolved["port"] \in 0..MaxPort
        /\ \A f \in Fields \ {"port"} : Resolved[f] \in Texts
    <3>1. /\ meant \in [DOMAIN meant -> Texts] /\ options \in [DOMAIN options -> Texts]
          /\ env \in [Fields -> Texts]
      BY InputsTyped
    <3> DEFINE R == ResolvedFrom(meant, options, env)
    <3>2. /\ DOMAIN R = Fields /\ R["port"] \in 0..MaxPort
          /\ \A f \in Fields \ {"port"} : R[f] \in Texts
      BY <2>2, <3>1, ResolvedTyped
    <3> HIDE DEF R
    <3>3. Resolved = R
      BY <2>2 DEF R
    <3>. QED BY <3>2, <3>3
  <2>4. TypeOK'
    <3>1. TypeOK
      BY Zenon DEF IInv
    <3>2. params'.port = params'["port"]
      OBVIOUS
    <3>. QED BY <1>1, <2>1, <2>3, <3>1, <3>2 DEF TypeOK
  <2>5. OutcomeOK'
    <3>1. "attached" # "threw"
      OBVIOUS
    <3>. QED BY <1>2, <2>1, <3>1, Zenon DEF OutcomeOK
  <2>. QED BY <1>2, <2>4, <2>5, Zenon DEF IInv
<1>4. CASE AttachThrows
  <2>1. "threw" \in DOMAIN Resolved /\ params' = params /\ outcome' = "threw"
    BY <1>4, Zenon DEF AttachThrows
  <2>2. TypeOK'
    <3>1. TypeOK
      BY Zenon DEF IInv
    <3>. QED BY <1>1, <2>1, <3>1 DEF TypeOK
  <2>3. OutcomeOK'
    <3>1. "attached" # "threw"
      OBVIOUS
    <3>. QED BY <1>2, <2>1, <3>1, Zenon DEF OutcomeOK
  <2>. QED BY <1>2, <2>2, <2>3, Zenon DEF IInv
<1>5. CASE UNCHANGED vars
  <2>1. TypeOK /\ OutcomeOK
    BY Zenon DEF IInv
  <2>2. UNCHANGED <<meant, path, options, env, params, outcome>>
    BY <1>5 DEF vars
  <2>3. TypeOK'
    BY <2>1, <2>2 DEF TypeOK
  <2>4. OutcomeOK'
    BY <1>2, <2>1, <2>2 DEF OutcomeOK
  <2>. QED BY <1>2, <2>3, <2>4, Zenon DEF IInv
<1>. QED BY <1>3, <1>4, <1>5 DEF Next

LEMMA Invariance == Spec => []IInv
BY InitIInv, StepIInv, PTL DEF Spec

(* Every parameter is a text, the port a uint16_t, and the inputs are what *)
(* Init chose: ResolveParameters leaves no field without a value.          *)
THEOREM TypeCorrect == Spec => []TypeOK
<1>1. IInv => TypeOK
  BY Zenon DEF IInv
<1>. QED BY <1>1, Invariance, PTL

(* Each parameter is what its option, the attach string's own fields or    *)
(* the environment say: ParseDSN takes no mark in one field for the end of *)
(* it, and ResolveParameters takes each field from the source that counts. *)
THEOREM TakenAsWritten == Spec => []AsWritten
<1>1. ASSUME IInv PROVE AsWritten
  <2>1. SUFFICES ASSUME outcome = "attached", NEW f \in Fields
                 PROVE  LET meaning == IF Given(f) THEN Meaning(f, Source(f)) ELSE Default[f]
                        IN  params[f] = meaning \/ (f = "port" /\ meaning > MaxPort)
    BY DEF AsWritten
  <2> DEFINE R == ResolvedFrom(meant, options, env)
             got(g) == FromSource(g, meant, options, env)
             source == SourceIn(f, meant, options, env)
             given == GivenIn(f, meant, options, env)
             meaning == IF given THEN Meaning(f, source) ELSE Default[f]
  <2>2. "threw" \notin DOMAIN Resolved /\ params = Resolved
    BY <1>1, <2>1, Zenon DEF IInv, OutcomeOK
  <2>3. params = R /\ ~Refused(meant, options, env)
    BY <1>1, <2>2, AttachedIs
  <2>4. /\ R["user"] = NormalizeUser(got("user")["user"])
        /\ \A g \in Fields \ {"user"} : R[g] = got(g)[g]
    <3>1. /\ meant \in [DOMAIN meant -> Texts] /\ options \in [DOMAIN options -> Texts]
          /\ env \in [Fields -> Texts]
      BY <1>1, InputsTyped
    <3>. QED BY <2>3, <3>1, ResolvedTyped
  <2>5. "threw" \notin DOMAIN got(f)
    BY <2>3, Zenon DEF Refused
  <2>6. Given(f) = given /\ Source(f) = source
    BY Zenon DEF Given, Source, GivenIn, SourceIn, Has
  <2>7. got(f) = IF given THEN Read(f, source) ELSE Only(f, Default[f])
    BY Zenon DEF FromSource
  <2> HIDE DEF R, got, source, given
  <2>8. params[f] = meaning \/ (f = "port" /\ meaning > MaxPort)
    <3>1. CASE f = "user"
      <4>1. params[f] = NormalizeUser(got(f)[f])
        BY <2>3, <2>4, <3>1, Zenon
      <4>2. CASE given
        <5>1. got(f)[f] = source
          <6>1. f # "port"
            BY <3>1
          <6>. QED BY <2>7, <4>2, <6>1, ReadIs, Zenon
        <5>2. meaning = NormalizeUser(source)
          <6>1. f # "port"
            BY <3>1
          <6>. QED BY <3>1, <4>2, <6>1 DEF Meaning
        <5> HIDE DEF meaning
        <5>. QED BY <4>1, <5>1, <5>2, Zenon
      <4>3. CASE ~given
        <5>1. got(f)[f] = Default[f]
          BY <2>7, <4>3, OnlyIs, Zenon
        <5>2. Default[f] = <<"SYSDBA">> /\ meaning = Default[f]
          BY <3>1, <4>3, DefaultIs, Zenon
        <5> HIDE DEF meaning
        <5>. QED BY <4>1, <5>1, <5>2, DefaultUser, Zenon
      <4>. QED BY <4>2, <4>3
    <3>2. CASE f # "user"
      <4>1. params[f] = got(f)[f]
        BY <2>3, <2>4, <3>2
      <4>2. CASE ~given
        <5>1. got(f)[f] = Default[f]
          BY <2>7, <4>2, OnlyIs, Zenon
        <5>2. meaning = Default[f]
          BY <4>2, Zenon
        <5> HIDE DEF meaning
        <5>. QED BY <4>1, <5>1, <5>2, Zenon
      <4>3. CASE given /\ f # "port"
        <5>1. got(f)[f] = source
          BY <2>7, <4>3, ReadIs, Zenon
        <5>2. meaning = source
          BY <3>2, <4>3 DEF Meaning
        <5> HIDE DEF meaning
        <5>. QED BY <4>1, <5>1, <5>2, Zenon
      <4>4. CASE given /\ f = "port"
        <5>1. got(f) = Port(source)
          BY <2>7, <4>4, Zenon DEF Read
        <5>2. source # <<>> /\ source[1] \in DOMAIN Number
          <6>1. ~(source # <<>> /\ source[1] \in DOMAIN Number) => DOMAIN Port(source) = {"threw"}
            BY PortIs, Zenon
          <6>. QED BY <2>5, <5>1, <6>1
        <5>3. meaning = Number[source[1]]
          BY <4>4, <5>2 DEF Meaning
        <5>4. Number[source[1]] <= MaxPort => Port(source)["port"] = Number[source[1]]
          BY <5>2, PortTyped
        <5>5. Number[source[1]] \in Nat /\ MaxPort \in Nat
          BY <5>2, AttachAssumption DEF AttachAssumption
        <5> HIDE DEF meaning
        <5>6. params[f] = Port(source)["port"]
          BY <4>1, <4>4, <5>1, Zenon
        <5>. QED BY <4>4, <5>3, <5>4, <5>5, <5>6
      <4>. QED BY <4>2, <4>3, <4>4
    <3>. QED BY <3>1, <3>2
  <2> HIDE DEF meaning
  <2>. QED BY <2>6, <2>8, Zenon DEF meaning
<1>. QED BY <1>1, Invariance, PTL

(* ATTACH throws for nothing but a port that is none, where it has to be   *)
(* read, or a database that is not given.                                  *)
THEOREM OnlyForCause == Spec => []RefusedForCause
<1>1. ASSUME IInv PROVE RefusedForCause
  <2> DEFINE NoPort(text) == Port(text) = Only("threw", TRUE)
             cause == \/ Given("port") /\ NoPort(Source("port"))
                      \/ Has("port", meant) /\ NoPort(meant.port)
                      \/ ~Given("database") \/ Source("database") = <<>>
             dsn == ParseDSN(path)
             D == FromSource("database", meant, options, env)
  <2>1. SUFFICES ASSUME outcome = "threw" PROVE cause
    BY Zenon DEF RefusedForCause
  <2>2. meant.port = meant["port"]
    OBVIOUS
  <2>3. Means(dsn, meant, Fields) /\ DOMAIN meant \subseteq Fields
    BY <1>1, InputsTyped
  <2>4. "threw" \in DOMAIN ResolveParameters(dsn, options, env)
    BY <1>1, <2>1, Zenon DEF IInv, OutcomeOK, Resolved
  <2>5. /\ Given("port") = GivenIn("port", meant, options, env)
        /\ Source("port") = SourceIn("port", meant, options, env)
        /\ Given("database") = GivenIn("database", meant, options, env)
        /\ Source("database") = SourceIn("database", meant, options, env)
    BY Zenon DEF Given, Source, GivenIn, SourceIn, Has
  <2> HIDE DEF dsn
  <2>6. CASE "threw" \in DOMAIN dsn
    <3>1. "port" \in DOMAIN meant /\ Port(meant["port"]) = Only("threw", TRUE)
      BY <2>3, <2>6, ParsedIs, Zenon
    <3>. QED BY <2>2, <3>1, Zenon DEF Has
  <2>7. CASE "threw" \notin DOMAIN dsn
    <3>1. Refused(meant, options, env)
      <4>1. ResolveParameters(dsn, options, env) = ResolvedFrom(meant, options, env)
        BY <2>3, <2>7, ResolveIs
      <4>. QED BY <2>4, <4>1, ResolvedFromIs, Zenon
    <3>2. CASE \E f \in Fields : "threw" \in DOMAIN FromSource(f, meant, options, env)
      <4>1. PICK f \in Fields : "threw" \in DOMAIN FromSource(f, meant, options, env)
        BY <3>2
      <4>2. GivenIn(f, meant, options, env)
        <5>1. SUFFICES ASSUME ~GivenIn(f, meant, options, env) PROVE FALSE
          OBVIOUS
        <5>2. FromSource(f, meant, options, env) = Only(f, Default[f])
          BY <5>1, Zenon DEF FromSource
        <5>3. DOMAIN Only(f, Default[f]) = {f}
          BY OnlyIs
        <5>. QED BY <4>1, <5>2, <5>3, NotAField
      <4>3. FromSource(f, meant, options, env) = Read(f, SourceIn(f, meant, options, env))
        BY <4>2, Zenon DEF FromSource
      <4>4. f = "port" /\ Port(SourceIn(f, meant, options, env)) = Only("threw", TRUE)
        BY <4>1, <4>3, ThrownPort, Zenon
      <4>. QED BY <2>5, <4>2, <4>4, Zenon
    <3>3. CASE D["database"] = <<>>
      <4>1. SUFFICES ASSUME GivenIn("database", meant, options, env) PROVE cause
        BY <2>5, Zenon
      <4>2. D = Read("database", SourceIn("database", meant, options, env))
        BY <4>1, Zenon DEF FromSource
      <4>3. "database" \in Fields /\ "database" # "port"
        BY MarksAre
      <4>4. D["database"] = SourceIn("database", meant, options, env)
        BY <4>2, <4>3, ReadIs, Zenon
      <4>. QED BY <2>5, <3>3, <4>4, Zenon
    <3>. QED BY <3>1, <3>2, <3>3, Zenon DEF Refused
  <2>. QED BY <2>6, <2>7
<1>. QED BY <1>1, Invariance, PTL

(* What a field is read from does not depend on where its text is given.   *)
LEMMA MovedSource ==
  ASSUME NEW m, NEW opts, NEW environment, NEW f \in Fields, NEW source,
         GivenIn(f, m, opts, environment), source = SourceIn(f, m, opts, environment),
         source # <<>>,
         NEW m2, \A x : x \in DOMAIN m2 <=> x \in DOMAIN m /\ x # f,
         \A x \in DOMAIN m2 : m2[x] = m[x],
         NEW o2, \A x : x \in DOMAIN o2 <=> x \in DOMAIN opts /\ x \notin Range(OptionNames[f]),
         \A x \in DOMAIN o2 : o2[x] = opts[x],
         NEW e2, e2[f] = source, \A x \in Fields : x # f => e2[x] = environment[x],
         NEW g \in Fields
  PROVE  FromSource(g, m2, o2, e2) = FromSource(g, m, opts, environment)
<1> DEFINE names == OptionNames[g]
<1>3. CASE g = f
  <2>1. GetOption(g, o2) = <<>>
    <3>1. \A i \in 1..Len(names) : names[i] \notin DOMAIN o2
      BY <1>3, NamesRange
    <3>. QED BY <3>1, NoOption
  <2>2. g \notin DOMAIN m2 /\ e2[g] = source /\ source # <<>>
    BY <1>3
  <2>3. FromSource(g, m2, o2, e2) = Read(g, source)
    BY <2>1, <2>2, Zenon DEF FromSource, GivenIn, SourceIn
  <2>4. FromSource(g, m, opts, environment) = Read(g, source)
    BY <1>3, Zenon DEF FromSource
  <2>. QED BY <2>3, <2>4, Zenon
<1>4. CASE g # f
  <2>1. GetOption(g, o2) = GetOption(g, opts)
    <3>1. \A i \in 1..Len(names) : names[i] \notin Range(OptionNames[f])
      <4>1. SUFFICES ASSUME NEW i \in 1..Len(names), names[i] \in Range(OptionNames[f])
                     PROVE  FALSE
        OBVIOUS
      <4>2. PICK j \in 1..Len(OptionNames[f]) : names[i] = OptionNames[f][j]
        BY <4>1, NamesRange
      <4>3. FieldOf(names[i]) = g /\ FieldOf(OptionNames[f][j]) = f
        BY NameIs
      <4>. QED BY <1>4, <4>2, <4>3
    <3>2. \A i \in 1..Len(names) :
             /\ names[i] \in DOMAIN o2 <=> names[i] \in DOMAIN opts
             /\ names[i] \in DOMAIN o2 => o2[names[i]] = opts[names[i]]
      BY <3>1
    <3>. QED BY <3>2, SameOption
  <2>2. /\ g \in DOMAIN m2 <=> g \in DOMAIN m
        /\ g \in DOMAIN m2 => m2[g] = m[g]
        /\ e2[g] = environment[g]
    BY <1>4
  <2>3. GivenIn(g, m2, o2, e2) <=> GivenIn(g, m, opts, environment)
    BY <2>1, <2>2, Zenon DEF GivenIn
  <2>4. GivenIn(g, m, opts, environment) =>
          SourceIn(g, m2, o2, e2) = SourceIn(g, m, opts, environment)
    <3>1. CASE GetOption(g, opts) # <<>>
      BY <2>1, <3>1, Zenon DEF SourceIn
    <3>2. CASE GetOption(g, opts) = <<>> /\ g \in DOMAIN m
      BY <2>1, <2>2, <3>2, Zenon DEF SourceIn
    <3>3. CASE GetOption(g, opts) = <<>> /\ g \notin DOMAIN m
      BY <2>1, <2>2, <3>3, Zenon DEF SourceIn
    <3>. QED BY <3>1, <3>2, <3>3
  <2>5. FromSource(g, m2, o2, e2) = FromSource(g, m, opts, environment)
    <3>1. CASE GivenIn(g, m, opts, environment)
      BY <2>3, <2>4, <3>1, Zenon DEF FromSource
    <3>2. CASE ~GivenIn(g, m, opts, environment)
      BY <2>3, <3>2, Zenon DEF FromSource
    <3>. QED BY <3>1, <3>2
  <2>. QED BY <2>5
<1>. QED BY <1>3, <1>4

(* The parameters stay what they are when a field's text is moved to its   *)
(* environment variable: neither the parser nor the order of the sources   *)
(* makes one field depend on how another is given.                         *)
THEOREM FromAnySource == Spec => []AnySource
<1>1. ASSUME IInv PROVE AnySource
  <2>1. SUFFICES ASSUME outcome = "attached", NEW f \in Fields, Given(f), Source(f) # <<>>,
                        Plain([x \in DOMAIN meant \ {f} |-> meant[x]], {"charset"})
                 PROVE  ResolveParameters(
                          ParseDSN(Written("fb://", [x \in DOMAIN meant \ {f} |-> meant[x]],
                                           {"charset"})),
                          [x \in DOMAIN options \ Range(OptionNames[f]) |-> options[x]],
                          [env EXCEPT ![f] = Source(f)]) = params
    BY Zenon DEF AnySource
  <2> DEFINE m2 == [x \in DOMAIN meant \ {f} |-> meant[x]]
             o2 == [x \in DOMAIN options \ Range(OptionNames[f]) |-> options[x]]
             e2 == [env EXCEPT ![f] = Source(f)]
             dsn2 == ParseDSN(Written("fb://", m2, {"charset"}))
             dsn == ParseDSN(path)
  <2>2. "threw" \notin DOMAIN Resolved /\ params = Resolved
    BY <1>1, <2>1, Zenon DEF IInv, OutcomeOK
  <2>3. /\ "threw" \notin DOMAIN dsn /\ ~Refused(meant, options, env)
        /\ params = ResolvedFrom(meant, options, env)
    BY <1>1, <2>2, AttachedIs
  <2>4. /\ meant \in [DOMAIN meant -> Texts] /\ DOMAIN meant \subseteq Fields
        /\ options \in [DOMAIN options -> Texts] /\ env \in [Fields -> Texts]
        /\ Writable(meant) /\ Means(dsn, meant, Fields)
    BY <1>1, InputsTyped
  <2>5. Given(f) = GivenIn(f, meant, options, env)
        /\ Source(f) = SourceIn(f, meant, options, env)
    BY Zenon DEF Given, Source, GivenIn, SourceIn, Has
  <2>6. \A g \in Fields : FromSource(g, m2, o2, e2) = FromSource(g, meant, options, env)
    <3>2. GivenIn(f, meant, options, env) /\ Source(f) = SourceIn(f, meant, options, env)
          /\ Source(f) # <<>>
      BY <2>1, <2>5, Zenon
    <3>3. /\ \A x : x \in DOMAIN m2 <=> x \in DOMAIN meant /\ x # f
          /\ \A x \in DOMAIN m2 : m2[x] = meant[x]
      OBVIOUS
    <3>4. /\ \A x : x \in DOMAIN o2 <=> x \in DOMAIN options /\ x \notin Range(OptionNames[f])
          /\ \A x \in DOMAIN o2 : o2[x] = options[x]
      OBVIOUS
    <3>5. e2[f] = Source(f) /\ \A x \in Fields : x # f => e2[x] = env[x]
      BY <2>4
    <3> HIDE DEF m2, o2, e2
    <3>. QED BY <3>2, <3>3, <3>4, <3>5, MovedSource
  <2>7. /\ DOMAIN m2 \subseteq DOMAIN meant
        /\ \A x \in DOMAIN m2 : m2[x] = meant[x]
    OBVIOUS
  <2>8. Plain(m2, {"charset"})
    BY <2>1
  <2> HIDE DEF m2, o2, e2
  <2>9. Writable(m2)
    <3>1. \A x \in DOMAIN m2 : x \in DOMAIN meant /\ m2[x] = meant[x]
      BY <2>7
    <3>. QED BY <2>4, <3>1, Zenon DEF Writable
  <2>10. Means(dsn2, m2, Fields)
    <3>1. "fb://" \in WrittenSchemes /\ {"charset"} \in Settings
      BY Zenon DEF WrittenSchemes, Settings
    <3>. QED BY <2>8, <2>9, <3>1, WrittenParsed
  <2> HIDE DEF dsn, dsn2
  <2>11. DOMAIN m2 \subseteq Fields
    BY <2>4, <2>7
  <2>12. "threw" \notin DOMAIN dsn2
    <3>1. SUFFICES ASSUME "port" \in DOMAIN m2, Port(m2["port"]) = Only("threw", TRUE)
                   PROVE  FALSE
      BY <2>10, <2>11, ParsedIs, Zenon
    <3>2. "port" \in DOMAIN meant /\ m2["port"] = meant["port"]
      BY <2>7, <3>1
    <3>3. "threw" \in DOMAIN dsn
      BY <2>4, <3>1, <3>2, ParsedIs, Zenon
    <3>. QED BY <2>3, <3>3
  <2>13. ResolveParameters(dsn2, o2, e2) = ResolvedFrom(m2, o2, e2)
    BY <2>10, <2>11, <2>12, ResolveIs
  <2>14. ResolvedFrom(m2, o2, e2) = ResolvedFrom(meant, options, env)
    <3> DEFINE p2 == [g \in Fields |->
                        IF g = "user" THEN NormalizeUser(FromSource(g, m2, o2, e2)[g])
                        ELSE FromSource(g, m2, o2, e2)[g]]
               p1 == [g \in Fields |->
                        IF g = "user" THEN NormalizeUser(FromSource(g, meant, options, env)[g])
                        ELSE FromSource(g, meant, options, env)[g]]
    <3>1. p2 = p1
      BY <2>6
    <3>2. ~Refused(m2, o2, e2)
      <4>1. "database" \in Fields
        BY MarksAre
      <4>. QED BY <2>3, <2>6, <4>1 DEF Refused
    <3>3. ResolvedFrom(m2, o2, e2) = p2
      BY <3>2, Zenon DEF ResolvedFrom
    <3>4. ResolvedFrom(meant, options, env) = p1
      BY <2>3, Zenon DEF ResolvedFrom
    <3> HIDE DEF p1, p2
    <3>. QED BY <3>1, <3>3, <3>4, Zenon
  <2>15. ResolveParameters(dsn2, o2, e2) = params
    BY <2>3, <2>13, <2>14, Zenon
  <2>. QED BY <2>15, Zenon DEF dsn2, m2, o2, e2
<1>. QED BY <1>1, Invariance, PTL
=============================================================================
