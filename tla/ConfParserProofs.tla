--------------------------- MODULE ConfParserProofs ---------------------------
(***************************************************************************)
(* Theorems about the scanner of the configuration file: for every text,   *)
(* and for every document that a text can be written from.                 *)
(***************************************************************************)
EXTENDS ConfParser, NumberProofs, FiniteSetTheorems, TLAPS

-----------------------------------------------------------------------------
(* Sequences and characters *)

\* Sequences one after another are put together one by one.
LEMMA FlattenIs ==
  ASSUME NEW S, NEW s \in Seq(Seq(S))
  PROVE  \E f \in [1 .. Len(s) -> Seq(S)] :
           /\ \A k \in 1 .. Len(s) : f[k] = IF k = 1 THEN s[k] ELSE f[k - 1] \o s[k]
           /\ FlattenSeq(s) = IF Len(s) = 0 THEN <<>> ELSE f[Len(s)]
<1> DEFINE Steps(f, n) ==
             /\ f \in [1 .. n -> Seq(S)]
             /\ \A k \in 1 .. n : f[k] = IF k = 1 THEN s[k] ELSE f[k - 1] \o s[k]
           Some == {n \in Nat : \E f \in [1 .. n -> Seq(S)] : Steps(f, n)}
<1>0. Len(s) \in Nat /\ \A k \in 1 .. Len(s) : s[k] \in Seq(S)
  OBVIOUS
<1>1. 0 \in Some
  <2> DEFINE f == [k \in 1 .. 0 |-> <<>>]
  <2>1. f \in [1 .. 0 -> Seq(S)] /\ Steps(f, 0)
    OBVIOUS
  <2> HIDE DEF f
  <2> QED
    BY <2>1
<1>2. ASSUME NEW n \in 0 .. Len(s) - 1, n \in Some PROVE n + 1 \in Some
  <2>1. PICK f \in [1 .. n -> Seq(S)] : Steps(f, n)
    BY <1>2
  <2> DEFINE m == n + 1
             g == [k \in 1 .. m |-> IF k = m THEN IF k = 1 THEN s[k] ELSE f[n] \o s[m] ELSE f[k]]
  <2>2. s[m] \in Seq(S) /\ m \in Nat /\ n = m - 1 /\ (m # 1 => f[n] \in Seq(S))
    BY <1>0, <2>1
  <2>3. g \in [1 .. m -> Seq(S)]
    <3>1. m # 1 => f[n] \o s[m] \in Seq(S)
      BY <2>2
    <3> QED
      BY <2>1, <2>2, <3>1
  <2>4. \A k \in 1 .. m : g[k] = IF k = 1 THEN s[k] ELSE g[k - 1] \o s[k]
    <3> SUFFICES ASSUME NEW k \in 1 .. m PROVE g[k] = IF k = 1 THEN s[k] ELSE g[k - 1] \o s[k]
      OBVIOUS
    <3>1. CASE k = m
      BY <2>2, <3>1
    <3>2. CASE k # m
      <4>1. k \in 1 .. n /\ (k # 1 => k - 1 \in 1 .. m /\ k - 1 # m)
        BY <2>2, <3>2
      <4> QED
        BY <2>1, <3>2, <4>1
    <3> QED
      BY <3>1, <3>2
  <2> HIDE DEF g
  <2>5. Steps(g, m)
    BY <2>3, <2>4
  <2> HIDE DEF m
  <2>6. m \in Some
    BY <2>2, <2>3, <2>5
  <2> QED
    BY <2>6 DEF m
<1>3. PICK f \in [1 .. Len(s) -> Seq(S)] : Steps(f, Len(s))
  <2> HIDE DEF Some
  <2>1. 0 .. Len(s) \subseteq Some
    BY <1>0, <1>1, <1>2, BoundedInduction
  <2>2. Len(s) \in Some
    BY <1>0, <2>1
  <2> QED
    BY <2>2 DEF Some
<1> DEFINE Equation(g) == g = [i \in 1 .. Len(s) |-> IF i = 1 THEN s[i] ELSE g[i - 1] \o s[i]]
           flatten == CHOOSE g : Equation(g)
<1>4. Equation(f)
  BY <1>0, <1>3
<1>5. Equation(flatten)
  <2> HIDE DEF Equation
  <2> QED
    BY <1>4, Zenon
<1>6. FlattenSeq(s) = IF Len(s) = 0 THEN s ELSE flatten[Len(s)]
  BY DEF FlattenSeq
<1>7. \A n \in 0 .. Len(s) : n = 0 \/ flatten[n] = f[n]
  <2> DEFINE Same == {n \in Nat : n = 0 \/ flatten[n] = f[n]}
  <2>1. 0 \in Same
    OBVIOUS
  <2>2. ASSUME NEW n \in 0 .. Len(s) - 1, n \in Same PROVE n + 1 \in Same
    <3>1. n + 1 \in 1 .. Len(s) /\ (n + 1 # 1 => (n + 1) - 1 = n /\ n # 0)
      BY <1>0
    <3> HIDE DEF flatten
    <3>2. flatten[n + 1] = IF n + 1 = 1 THEN s[n + 1] ELSE flatten[(n + 1) - 1] \o s[n + 1]
      BY <1>5, <3>1
    <3>3. f[n + 1] = IF n + 1 = 1 THEN s[n + 1] ELSE f[(n + 1) - 1] \o s[n + 1]
      BY <1>3, <3>1
    <3> QED
      BY <2>2, <3>1, <3>2, <3>3
  <2> HIDE DEF Same
  <2>3. 0 .. Len(s) \subseteq Same
    BY <1>0, <2>1, <2>2, BoundedInduction
  <2> QED
    BY <2>3 DEF Same
<1>8. FlattenSeq(s) = IF Len(s) = 0 THEN <<>> ELSE f[Len(s)]
  <2>1. CASE Len(s) = 0
    <3>1. s = <<>>
      BY <2>1
    <3> QED
      BY <1>6, <2>1, <3>1
  <2>2. CASE Len(s) # 0
    <3>1. Len(s) \in 0 .. Len(s)
      BY <1>0
    <3> HIDE DEF flatten
    <3> QED
      BY <1>6, <1>7, <2>2, <3>1
  <2> QED
    BY <2>1, <2>2
<1> QED
  BY <1>3, <1>8

LEMMA FlattenType == ASSUME NEW S, NEW s \in Seq(Seq(S)) PROVE FlattenSeq(s) \in Seq(S)
<1>1. PICK f \in [1 .. Len(s) -> Seq(S)] :
         FlattenSeq(s) = IF Len(s) = 0 THEN <<>> ELSE f[Len(s)]
  BY FlattenIs
<1>2. CASE Len(s) = 0
  BY <1>1, <1>2
<1>3. CASE Len(s) # 0
  <2>1. Len(s) \in 1 .. Len(s)
    BY <1>3
  <2>2. f[Len(s)] \in Seq(S)
    BY <1>1, <2>1
  <2> QED
    BY <1>1, <1>3, <2>2
<1> QED
  BY <1>2, <1>3

\* Two sequences, one after another.
LEMMA Concat ==
  ASSUME NEW S, NEW a \in Seq(S), NEW b \in Seq(S)
  PROVE  /\ a \o b \in Seq(S) /\ Len(a \o b) = Len(a) + Len(b)
         /\ Len(a) \in Nat /\ Len(b) \in Nat
         /\ \A n \in 1 .. Len(a) : (a \o b)[n] = a[n]
         /\ \A n \in 1 .. Len(b) : (a \o b)[Len(a) + n] = b[n]
  OBVIOUS

\* Where each of the sequences is.
LEMMA FlattenPlaces ==
  ASSUME NEW S, NEW s \in Seq(Seq(S)), NEW c \in Seq(Nat), Len(c) = Len(s),
         \A k \in 1 .. Len(s) : c[k] = Len(s[k])
  PROVE  /\ Len(FlattenSeq(s)) = Sums(c)[Len(s)]
         /\ \A k \in 1 .. Len(s) : \A n \in 1 .. Len(s[k]) :
              FlattenSeq(s)[Sums(c)[k - 1] + n] = s[k][n]
<1>0. /\ Len(s) \in Nat /\ Sums(c) \in [0 .. Len(s) -> Nat] /\ Sums(c)[0] = 0
      /\ \A k \in 1 .. Len(s) : Sums(c)[k] = Sums(c)[k - 1] + c[k]
      /\ \A k \in 1 .. Len(s) : s[k] \in Seq(S) /\ Len(s[k]) \in Nat
  BY SumsAre
<1>1. PICK f \in [1 .. Len(s) -> Seq(S)] :
         /\ \A k \in 1 .. Len(s) : f[k] = IF k = 1 THEN s[k] ELSE f[k - 1] \o s[k]
         /\ FlattenSeq(s) = IF Len(s) = 0 THEN <<>> ELSE f[Len(s)]
  BY FlattenIs
<1> DEFINE g == [m \in 0 .. Len(s) |-> IF m = 0 THEN <<>> ELSE f[m]]
           Placed == {m \in Nat : /\ Len(g[m]) = Sums(c)[m]
                                  /\ \A k \in 1 .. m : \A n \in 1 .. Len(s[k]) :
                                       g[m][Sums(c)[k - 1] + n] = s[k][n]}
<1>2. /\ g[0] = <<>> /\ \A m \in 0 .. Len(s) : g[m] \in Seq(S)
      /\ \A m \in 1 .. Len(s) : g[m] = g[m - 1] \o s[m]
  <2>1. g[0] = <<>> /\ \A m \in 1 .. Len(s) : g[m] = f[m]
    BY <1>0
  <2>2. ASSUME NEW m \in 0 .. Len(s) PROVE g[m] \in Seq(S)
    <3>1. m = 0 \/ m \in 1 .. Len(s)
      BY <1>0
    <3>2. ASSUME m \in 1 .. Len(s) PROVE g[m] \in Seq(S)
      <4>1. g[m] = f[m]
        BY <2>1, <3>2
      <4> QED
        BY <1>1, <3>2, <4>1
    <3>3. <<>> \in Seq(S)
      OBVIOUS
    <3> HIDE DEF g
    <3> QED
      BY <2>1, <3>1, <3>2, <3>3
  <2>3. ASSUME NEW m \in 1 .. Len(s) PROVE g[m] = g[m - 1] \o s[m]
    <3>1. s[m] \in Seq(S)
      BY <1>0
    <3>2. CASE m = 1
      <4>1. g[m - 1] = <<>>
        <5>1. m - 1 = 0
          BY <3>2
        <5> HIDE DEF g
        <5> QED
          BY <2>1, <5>1
      <4>2. g[m] = s[m]
        <5> HIDE DEF g
        <5> QED
          BY <1>1, <2>1, <3>2
      <4> HIDE DEF g
      <4> QED
        BY <3>1, <4>1, <4>2
    <3>3. CASE m # 1
      <4>1. m - 1 \in 1 .. Len(s)
        BY <3>3
      <4>2. g[m] = f[m] /\ g[m - 1] = f[m - 1]
        BY <2>1, <4>1
      <4> HIDE DEF g
      <4> QED
        BY <1>1, <3>3, <4>2
    <3> QED
      BY <3>2, <3>3
  <2> QED
    BY <2>1, <2>2, <2>3
<1>3. FlattenSeq(s) = g[Len(s)]
  BY <1>0, <1>1
<1> HIDE DEF g
<1>4. 0 \in Placed
  BY <1>0, <1>2
<1>5. ASSUME NEW m \in 0 .. Len(s) - 1, m \in Placed PROVE m + 1 \in Placed
  <2> DEFINE h == m + 1
  <2>1. h \in 1 .. Len(s) /\ h \in Nat /\ h - 1 = m /\ m \in 0 .. Len(s) /\ m \in Nat
    BY <1>0
  <2> HIDE DEF h
  <2>2. g[h] = g[m] \o s[h] /\ g[m] \in Seq(S) /\ s[h] \in Seq(S)
    BY <1>0, <1>2, <2>1
  <2>3. /\ Len(g[m]) = Sums(c)[m] /\ Sums(c)[h] = Sums(c)[m] + Len(s[h])
        /\ \A k \in 1 .. m : \A n \in 1 .. Len(s[k]) : g[m][Sums(c)[k - 1] + n] = s[k][n]
    BY <1>0, <1>5, <2>1
  <2>4. /\ Len(g[h]) = Len(g[m]) + Len(s[h]) /\ Len(g[m]) \in Nat
        /\ \A n \in 1 .. Len(g[m]) : g[h][n] = g[m][n]
        /\ \A n \in 1 .. Len(s[h]) : g[h][Len(g[m]) + n] = s[h][n]
    <3> DEFINE a == g[m]
               b == s[h]
    <3>1. a \in Seq(S) /\ b \in Seq(S) /\ g[h] = a \o b
      BY <2>2
    <3> HIDE DEF a, b
    <3>2. /\ Len(a \o b) = Len(a) + Len(b) /\ Len(a) \in Nat
          /\ \A n \in 1 .. Len(a) : (a \o b)[n] = a[n]
          /\ \A n \in 1 .. Len(b) : (a \o b)[Len(a) + n] = b[n]
      BY <3>1, Concat
    <3> QED
      BY <3>1, <3>2 DEF a, b
  <2>5. Len(g[h]) = Sums(c)[h]
    BY <2>3, <2>4
  <2>6. ASSUME NEW k \in 1 .. h, NEW n \in 1 .. Len(s[k])
        PROVE  g[h][Sums(c)[k - 1] + n] = s[k][n]
    <3>1. CASE k = h
      BY <2>1, <2>3, <2>4, <3>1
    <3>2. CASE k # h
      <4>1. k \in 1 .. m /\ k \in 1 .. Len(s) /\ k - 1 \in 0 .. Len(s) /\ k \in 0 .. Len(s)
        BY <2>1, <3>2
      <4>2. Sums(c)[k - 1] + n \in 1 .. Sums(c)[k]
        <5>1. Sums(c)[k - 1] \in Nat /\ Sums(c)[k] = Sums(c)[k - 1] + Len(s[k]) /\ Len(s[k]) \in Nat
          BY <1>0, <4>1
        <5>2. n \in Nat /\ 1 <= n /\ n <= Len(s[k])
          BY <5>1
        <5> QED
          BY ONLY <5>1, <5>2
      <4>3. Sums(c)[k] <= Sums(c)[m]
        BY <2>1, <4>1, SumsGrow
      <4>4. Sums(c)[k - 1] + n \in 1 .. Len(g[m])
        <5>1. Sums(c)[k] \in Nat /\ Sums(c)[m] \in Nat
          BY <1>0, <2>1, <4>1
        <5>2. Len(g[m]) = Sums(c)[m]
          BY <2>3
        <5> QED
          BY ONLY <4>2, <4>3, <5>1, <5>2
      <4>5. g[h][Sums(c)[k - 1] + n] = g[m][Sums(c)[k - 1] + n]
        BY <2>4, <4>4
      <4> QED
        BY <2>3, <4>1, <4>5
    <3> QED
      BY <3>1, <3>2
  <2>7. h \in Placed
    BY <2>1, <2>5, <2>6
  <2> HIDE DEF Placed
  <2> QED
    BY <2>7 DEF h
<1>6. Len(s) \in Placed
  <2> HIDE DEF Placed
  <2>1. 0 .. Len(s) \subseteq Placed
    BY <1>0, <1>4, <1>5, BoundedInduction
  <2> QED
    BY <1>0, <2>1
<1> QED
  BY <1>3, <1>6

LEMMA Singleton == ASSUME NEW S, NEW x \in S PROVE <<x>> \in Seq(S)
  OBVIOUS

LEMMA Pair == ASSUME NEW S, NEW x \in S, NEW y \in S PROVE <<x, y>> \in Seq(S)
  OBVIOUS

\* A line is written in characters.
LEMMA WrittenType == ASSUME NEW l \in Line PROVE Written(l) \in Seq(Chars)
<1>1. \A n \in Nat : Spaces(n) \in Seq(Chars)
  BY DEF Spaces, Chars, Space
<1>2. /\ <<"quote">> \in Seq(Chars) /\ <<"#">> \in Seq(Chars) /\ <<"=">> \in Seq(Chars)
      /\ <<>> \in Seq(Chars) /\ Quote(l) \in Seq(Chars)
  <2>1. "quote" \in Chars /\ "#" \in Chars /\ "=" \in Chars
    BY DEF Chars
  <2> HIDE DEF Chars
  <2>2. <<>> \in Seq(Chars)
    OBVIOUS
  <2> QED
    BY <2>1, <2>2, Singleton DEF Quote
<1>3. l.eol \in Seq(Chars)
  <2>1. "LF" \in Chars /\ "CR" \in Chars
    BY DEF Chars, Eol
  <2>2. l.eol \in {<<"LF">>, <<"CR">>, <<"CR", "LF">>, <<>>}
    BY DEF Line
  <2> QED
    BY <1>2, <2>1, <2>2, Singleton, Pair
<1>4. /\ l.name \in Seq(Chars) /\ l.value \in Seq(Chars)
      /\ l.indent \in Nat /\ l.left \in Nat /\ l.right \in Nat
  BY DEF Line
<1> DEFINE middle == CASE l.kind = "blank"   -> <<>>
                       [] l.kind = "comment" -> <<"#">> \o l.value
                       [] OTHER -> l.name \o Spaces(l.left) \o <<"=">> \o Spaces(l.right)
                                   \o Quote(l) \o l.value \o Quote(l)
<1>5. middle \in Seq(Chars)
  <2>1. CASE l.kind = "blank"
    BY <1>2, <2>1
  <2>2. CASE l.kind = "comment"
    BY <1>2, <1>4, <2>2
  <2>3. CASE l.kind \notin {"blank", "comment"}
    <3> HIDE DEF Quote, Spaces, Chars
    <3>1. middle = l.name \o Spaces(l.left) \o <<"=">> \o Spaces(l.right) \o Quote(l) \o l.value \o Quote(l)
      BY <2>3
    <3> QED
      BY <1>1, <1>2, <1>4, <3>1
  <2> QED
    BY <2>1, <2>2, <2>3
<1> HIDE DEF middle
<1>6. Written(l) = Spaces(l.indent) \o middle \o l.eol
  BY DEF Written, middle
<1> HIDE DEF Chars, Spaces
<1> DEFINE first == Spaces(l.indent)
           last == l.eol
<1>7. first \in Seq(Chars) /\ last \in Seq(Chars)
  BY <1>1, <1>3, <1>4
<1> HIDE DEF first, last
<1>8. first \o middle \o last \in Seq(Chars)
  BY <1>5, <1>7
<1> QED
  BY <1>6, <1>8 DEF first, last

-----------------------------------------------------------------------------
(* Reading and skipping *)

Char(t, n) == t[n + 1]

\* What the scanner may find at a place of the buffer.
LEMMA WhatIsRead ==
  ASSUME text \in Seq(Chars)
  PROVE  /\ Size \in Nat
         /\ \A n \in 0 .. Size - 1 : Char(text, n) \in Chars /\ At(n) = {Char(text, n)}
         /\ At(Size) = {NUL}
<1>1. Size \in Nat /\ \A n \in 0 .. Size - 1 : n + 1 \in 1 .. Size
  BY DEF Size
<1>2. \A n \in 1 .. Size : text[n] \in Chars
  BY DEF Size
<1> QED
  BY <1>1, <1>2 DEF At, Char

\* The terminator is no character of a text, and characters are of one kind.
LEMMA Kinds ==
  /\ NUL \notin Chars /\ NUL \notin Space \cup Eol \cup {"=", "#", "quote", "backslash"}
  /\ Space \cap Eol = {}
  /\ \A c \in Space \cup Eol : c \notin {"=", "#", "quote", "backslash", Letter}
  /\ Letter \notin Space \cup Eol \cup {"=", "#", "quote", "backslash"}
  /\ Inline \cap Eol = {} /\ Chars \ Eol \subseteq Inline
  BY DEF NUL, Chars, Space, Eol, Letter, Other, Inline

\* The larger of two numbers.
LEMMA Larger ==
  ASSUME NEW a \in Nat, NEW b \in Nat
  PROVE  Max({a, b}) \in {a, b} /\ Max({a, b}) >= a /\ Max({a, b}) >= b
<1>1. \E x \in {a, b} : \A y \in {a, b} : x >= y
  OBVIOUS
<1>2. Max({a, b}) \in {a, b} /\ \A y \in {a, b} : Max({a, b}) >= y
  BY <1>1, Zenon DEF Max
<1> QED
  BY <1>2

\* A skip ends behind where it began, at the end of the text or at a character
\* that is not skipped, and all it passes is.
LEMMA SkipIs ==
  ASSUME text \in Seq(Chars), NEW p \in Nat, NEW S
  PROVE  /\ Skip(p, S) \in Nat /\ Skip(p, S) >= p + 1
         /\ Skip(p, S) = p + 1 \/ Skip(p, S) <= Size
         /\ \A l \in p + 1 .. Skip(p, S) - 1 : l < Size /\ Char(text, l) \in S
         /\ Skip(p, S) < Size => Char(text, Skip(p, S)) \notin S
<1> DEFINE stops == {k \in p + 1 .. Size + 1 : AtEnd(k) \/ At(k) \cap S = {}}
<1>0. Size \in Nat /\ \A n \in 0 .. Size - 1 : At(n) = {Char(text, n)}
  BY WhatIsRead
<1>1. Skip(p, S) = IF stops = {} THEN p + 1 ELSE Min(stops)
  BY DEF Skip
<1>2. CASE stops = {}
  <2>1. ~(p < Size)
    <3>1. p < Size => Size \in stops
      BY <1>0 DEF AtEnd
    <3> QED
      BY <1>2, <3>1
  <2> QED
    BY <1>0, <1>1, <1>2, <2>1
<1>3. CASE stops # {}
  <2> DEFINE k == Min(stops)
  <2>0. stops \subseteq Nat
    BY <1>0
  <2>1. k \in stops /\ \A l \in stops : k <= l
    <3>1. \E x \in stops : \A y \in stops : x <= y
      <4> HIDE DEF stops
      <4> QED
        BY <1>3, <2>0, Least
    <3> HIDE DEF stops
    <3> QED
      BY <3>1, Zenon DEF Min
  <2>2. Skip(p, S) = k
    BY <1>1, <1>3
  <2> HIDE DEF k
  <2>3. k \in p + 1 .. Size + 1 /\ (k >= Size \/ At(k) \cap S = {})
    BY <2>1 DEF AtEnd
  <2>4. k = p + 1 \/ k <= Size
    <3>1. CASE p + 1 <= Size
      <4>1. Size \in stops
        BY <1>0, <3>1 DEF AtEnd
      <4> HIDE DEF stops
      <4> QED
        BY <2>1, <4>1
    <3>2. CASE ~(p + 1 <= Size)
      BY <1>0, <2>3, <3>2
    <3> QED
      BY <3>1, <3>2
  <2>5. ASSUME NEW l \in p + 1 .. k - 1 PROVE l < Size /\ Char(text, l) \in S
    <3>1. l \in p + 1 .. Size + 1 /\ l < k
      BY <1>0, <2>3, <2>5
    <3>2. l \notin stops
      <4> HIDE DEF stops
      <4> QED
        BY <2>1, <2>3, <3>1
    <3>3. l < Size /\ At(l) \cap S # {}
      BY <1>0, <3>1, <3>2 DEF AtEnd
    <3> QED
      BY <1>0, <3>1, <3>3
  <2>6. k < Size => Char(text, k) \notin S
    BY <1>0, <2>3
  <2> HIDE DEF stops
  <2> QED
    BY <1>0, <2>2, <2>3, <2>4, <2>5, <2>6
<1> QED
  BY <1>2, <1>3

\* The end of a line is one character, or two within the text if the text goes on.
LEMMA EolIs ==
  ASSUME text \in Seq(Chars), NEW p \in Nat, NEW c, NEW n \in AfterEol(p, c)
  PROVE  \/ n = p + 1
         \/ n = p + 2 /\ c = "CR" /\ (p + 1 < Size => Char(text, p + 1) \in Eol) /\ p + 1 # Size
<1>0. Size \in Nat /\ At(Size) = {NUL} /\ \A l \in 0 .. Size - 1 : At(l) = {Char(text, l)}
  BY WhatIsRead
<1>1. n = p + 1 \/ (n = p + 2 /\ c = "CR" /\ "LF" \in At(p + 1))
  BY DEF AfterEol
<1>2. "LF" # NUL /\ "LF" \in Eol
  BY DEF NUL, Eol
<1> QED
  BY <1>0, <1>1, <1>2

-----------------------------------------------------------------------------
(* How far the cursor gets *)

Labels == {"top", "global", "assign", "value", "quoted", "unquote", "close", "done", "crashed"}

\* How far the cursor can be beyond the text at a label.
Beyond ==
    [l \in Labels |-> CASE l = "global" -> 0 [] l = "assign" -> 1
                        [] l \in {"value", "quoted"} -> 2
                        [] l = "unquote" -> 3 [] l = "close" -> 4 [] OTHER -> Overrun]

Reached ==
    /\ text \in Seq(Chars)
    /\ TypeOK
    /\ bp <= Size + Beyond[pc]
    /\ pc \in {"global", "assign", "value", "close"} => state = pc

LEMMA BeyondIs ==
  /\ \A l \in Labels : Beyond[l] \in 0 .. 6
  /\ Beyond["global"] = 0 /\ Beyond["assign"] = 1 /\ Beyond["value"] = 2 /\ Beyond["quoted"] = 2
  /\ Beyond["unquote"] = 3 /\ Beyond["close"] = 4
  /\ Beyond["top"] = 6 /\ Beyond["done"] = 6 /\ Beyond["crashed"] = 6
  BY DEF Beyond, Labels, Overrun

\* Reading at a place.
LEMMA ReadIs ==
  ASSUME NEW p \in Nat, reach \in Nat, Read(p)
  PROVE  reach' \in {reach, p} /\ reach' >= reach /\ reach' >= p
  BY Larger DEF Read

\* What a step has to keep.
LEMMA KeepsReached ==
  ASSUME Reached, text' = text, pc' \in Labels, bp' \in Nat, bp' <= Size + Beyond[pc'],
         reach' \in Nat, reach' <= Size + 6,
         state' \in {"global", "assign", "value", "close"}, status' \in BOOLEAN,
         pc' \in {"global", "assign", "value", "close"} => state' = pc',
         name' \in Span, value' \in Span, items' \in Seq([name : Span, value : Span])
  PROVE  Reached'
<1>1. Size' = Size /\ Span' = Span /\ Size \in Nat
  BY WhatIsRead DEF Size, Span, Reached
<1>2. Beyond[pc'] \in 0 .. 6
  BY BeyondIs
<1>3. pc' \in {"top", "global", "assign", "value", "quoted", "unquote", "close", "done", "crashed"}
  BY DEF Labels
<1>4. bp' \in 0 .. Size + Overrun /\ reach' \in 0 .. Size + Overrun
  BY <1>1, <1>2 DEF Overrun
<1>5. TypeOK'
  BY <1>1, <1>3, <1>4 DEF TypeOK
<1> QED
  BY <1>1, <1>5 DEF Reached

LEMMA ReachedAtFirst == Init => Reached
<1> SUFFICES ASSUME Init PROVE Reached
  OBVIOUS
<1>1. text \in Seq(Chars)
  <2>1. CASE text \in Texts
    BY <2>1, TextsAssumption
  <2>2. CASE \E d \in Documents : text = FlattenSeq([k \in DOMAIN d |-> Written(d[k])])
    <3>1. PICK d \in Documents : text = FlattenSeq([k \in DOMAIN d |-> Written(d[k])])
      BY <2>2
    <3>2. d \in Seq(Line)
      BY DocumentsAssumption
    <3> DEFINE written == [k \in DOMAIN d |-> Written(d[k])]
    <3>3. \A k \in DOMAIN d : Written(d[k]) \in Seq(Chars)
      BY <3>2, WrittenType
    <3>4. written \in Seq(Seq(Chars))
      BY <3>2, <3>3
    <3> HIDE DEF written
    <3>5. FlattenSeq(written) \in Seq(Chars)
      BY <3>4, FlattenType
    <3> QED
      BY <3>1, <3>5 DEF written
  <2> QED
    BY <2>1, <2>2 DEF Init
<1>2. Size \in Nat
  BY <1>1, WhatIsRead
<1>3. NoSpan \in Span
  BY <1>2 DEF NoSpan, Span, Overrun
<1>4. <<>> \in Seq([name : Span, value : Span])
  OBVIOUS
<1>5. TypeOK
  BY <1>2, <1>3, <1>4 DEF Init, TypeOK, Overrun
<1> QED
  BY <1>1, <1>2, <1>5, BeyondIs DEF Init, Reached

\* The numbers of the state.
LEMMA Numbers ==
  ASSUME Reached
  PROVE  /\ text \in Seq(Chars) /\ Size \in Nat /\ At(Size) = {NUL}
         /\ bp \in Nat /\ reach \in Nat /\ reach <= Size + 6 /\ bp <= Size + Beyond[pc]
         /\ \A n \in 0 .. Size - 1 : At(n) = {Char(text, n)} /\ Char(text, n) \in Chars
         /\ name \in Span /\ value \in Span /\ items \in Seq([name : Span, value : Span])
         /\ state \in {"global", "assign", "value", "close"} /\ status \in BOOLEAN
  BY WhatIsRead DEF Reached, TypeOK, Overrun

\* Spans of places up to the bound.
LEMMA SpanIs ==
  ASSUME Size \in Nat, NEW a \in Nat, NEW b \in Int, a <= Size + 6, b <= Size + 6, b >= -1
  PROVE  [start |-> a, end |-> b] \in Span
  BY DEF Span, Overrun

LEMMA EolReadIs ==
  ASSUME Reached, NEW c, EolRead(c)
  PROVE  /\ bp' \in Nat /\ reach' \in Nat /\ bp' \in {bp + 1, bp + 2}
         /\ reach' >= reach /\ reach' >= bp /\ (reach' <= Size + 6 \/ reach' <= bp + 1)
         /\ bp' = bp + 2 => /\ c = "CR" /\ bp + 1 # Size
                            /\ bp + 1 < Size => Char(text, bp + 1) \in Eol
<1>1. text \in Seq(Chars) /\ bp \in Nat /\ reach \in Nat /\ reach <= Size + 6 /\ Size \in Nat
  BY Numbers
<1>2. bp' \in AfterEol(bp, c)
  BY DEF EolRead
<1>3. \/ bp' = bp + 1
      \/ bp' = bp + 2 /\ c = "CR" /\ (bp + 1 < Size => Char(text, bp + 1) \in Eol) /\ bp + 1 # Size
  BY <1>1, <1>2, EolIs
<1>4. Read(IF c = "CR" THEN bp + 1 ELSE bp)
  BY DEF EolRead
<1>5. reach' \in {reach, bp, bp + 1} /\ reach' >= reach /\ reach' >= bp
  <2>1. CASE c = "CR"
    <3>1. bp + 1 \in Nat /\ Read(bp + 1)
      BY <1>1, <1>4, <2>1
    <3> QED
      BY <1>1, <3>1, ReadIs
  <2>2. CASE c # "CR"
    BY <1>1, <1>4, <2>2, ReadIs
  <2> QED
    BY <2>1, <2>2
<1> QED
  BY <1>1, <1>3, <1>5

\* A cursor that skips from no more than the end of the text.
LEMMA SkipBound ==
  ASSUME Reached, NEW S
  PROVE  /\ Skip(bp, S) \in Nat
         /\ Skip(bp, S) = bp + 1 \/ Skip(bp, S) <= Size
         /\ bp < Size => Skip(bp, S) <= Size
<1>1. text \in Seq(Chars) /\ bp \in Nat /\ Size \in Nat
  BY Numbers
<1> QED
  BY <1>1, SkipIs

LEMMA ReachedByStep == Reached /\ [Next]_vars => Reached'
<1> SUFFICES ASSUME Reached, [Next]_vars PROVE Reached'
  OBVIOUS
<1>0. /\ Size \in Nat /\ bp \in Nat /\ reach \in Nat /\ reach <= Size + 6
      /\ bp <= Size + Beyond[pc] /\ At(Size) = {NUL}
      /\ name \in Span /\ value \in Span /\ items \in Seq([name : Span, value : Span])
      /\ state \in {"global", "assign", "value", "close"} /\ status \in BOOLEAN
  BY Numbers
<1>1. /\ Beyond["global"] = 0 /\ Beyond["assign"] = 1 /\ Beyond["value"] = 2
      /\ Beyond["quoted"] = 2 /\ Beyond["unquote"] = 3 /\ Beyond["close"] = 4
      /\ Beyond["top"] = 6 /\ Beyond["done"] = 6 /\ Beyond["crashed"] = 6
      /\ \A l \in Labels : Beyond[l] \in 0 .. 6
  BY BeyondIs
<1>2. /\ "top" \in Labels /\ "global" \in Labels /\ "assign" \in Labels /\ "value" \in Labels
      /\ "quoted" \in Labels /\ "unquote" \in Labels /\ "close" \in Labels /\ "done" \in Labels
      /\ "crashed" \in Labels
  BY DEF Labels
<1>3. pc \in {"global", "assign", "value", "close"} => state = pc
  BY DEF Reached
<1> HIDE DEF Beyond, Labels
<1>4. CASE Top
  <2>1. bp < Size /\ bp' \in {bp, Skip(bp, Inline)} /\ pc' = state /\ Read(bp)
    <3>1. /\ ~(bp >= Size) /\ bp' = (IF "#" \in At(bp) THEN Skip(bp, Inline) ELSE bp)
          /\ pc' = state /\ Read(bp)
      BY <1>4 DEF Top, AtEnd
    <3> QED
      BY <1>0, <3>1
  <2>2. UNCHANGED <<text, state, status, name, value, items>>
    BY <1>4 DEF Top, values
  <2>3. bp' \in Nat /\ bp' <= Size
    BY <1>0, <2>1, SkipBound
  <2>4. reach' \in Nat /\ reach' <= Size + 6
    BY <1>0, <2>1, ReadIs
  <2>5. pc' \in Labels /\ Beyond[pc'] \in 0 .. 6
    BY <1>0, <1>1, <1>2, <2>1
  <2>6. bp' <= Size + Beyond[pc']
    BY <1>0, <2>3, <2>5
  <2> QED
    BY <1>0, <2>1, <2>2, <2>3, <2>4, <2>5, <2>6, KeepsReached
<1>5. CASE SkipBlank
  <2>1. PICK c \in At(bp) \cap (Eol \cup Space) : EolRead(c)
    BY <1>5 DEF SkipBlank
  <2>2. pc = "global" /\ pc' = "top" /\ UNCHANGED <<text, state, status, name, value, items>>
    BY <1>5 DEF SkipBlank, values
  <2>3. bp' \in Nat /\ bp' <= bp + 2 /\ reach' \in Nat /\ (reach' <= Size + 6 \/ reach' <= bp + 1)
    BY <1>0, <2>1, EolReadIs
  <2>4. bp' <= Size + Beyond["top"] /\ reach' <= Size + 6
    BY <1>0, <1>1, <2>2, <2>3
  <2> QED
    BY <1>0, <1>2, <2>2, <2>3, <2>4, KeepsReached
<1>6. CASE ReadName
  <2>1. pc = "global" /\ bp' = Skip(bp, Names) /\ Read(bp) /\ name' = [start |-> bp, end |-> bp']
    BY <1>6 DEF ReadName
  <2>2. state' = "assign" /\ pc' = "assign" /\ UNCHANGED <<text, status, value, items>>
    BY <1>6 DEF ReadName
  <2>3. bp' \in Nat /\ bp' <= Size + 1 /\ bp <= Size
    BY <1>0, <1>1, <2>1, SkipBound
  <2>4. reach' \in Nat /\ reach' <= Size + 6
    BY <1>0, <2>1, <2>3, ReadIs
  <2>5. name' \in Span
    BY <1>0, <2>1, <2>3, SpanIs
  <2>6. bp' <= Size + Beyond["assign"]
    BY <1>1, <2>3
  <2> QED
    BY <1>0, <1>2, <2>2, <2>3, <2>4, <2>5, <2>6, KeepsReached
<1>7. CASE AssignSpace
  <2>1. pc = "assign" /\ bp' = Skip(bp, Space) /\ Read(bp) /\ pc' = "top"
    BY <1>7 DEF AssignSpace
  <2>2. UNCHANGED <<text, state, status, name, value, items>>
    BY <1>7 DEF AssignSpace, values
  <2>3. bp' \in Nat /\ bp' <= Size + 2 /\ bp <= Size + 1
    BY <1>0, <1>1, <2>1, SkipBound
  <2>4. reach' \in Nat /\ reach' <= Size + 6
    BY <1>0, <2>1, <2>3, ReadIs
  <2>5. bp' <= Size + Beyond["top"]
    BY <1>0, <1>1, <2>3
  <2> QED
    BY <1>0, <1>2, <2>1, <2>2, <2>3, <2>4, <2>5, KeepsReached
<1>8. CASE Assign
  <2>1. pc = "assign" /\ bp' = Skip(bp, Space) /\ Read(bp) /\ pc' = "value" /\ state' = "value"
    BY <1>8 DEF Assign
  <2>2. UNCHANGED <<text, status, name, value, items>>
    BY <1>8 DEF Assign, values
  <2>3. bp' \in Nat /\ bp' <= Size + 2 /\ bp <= Size + 1
    BY <1>0, <1>1, <2>1, SkipBound
  <2>4. reach' \in Nat /\ reach' <= Size + 6
    BY <1>0, <2>1, <2>3, ReadIs
  <2>5. bp' <= Size + Beyond["value"]
    BY <1>0, <1>1, <2>3
  <2> QED
    BY <1>0, <1>2, <2>1, <2>2, <2>3, <2>4, <2>5, KeepsReached
<1>9. CASE NoAssign
  <2>1. PICK c \in At(bp) :
          \/ c = "#" /\ bp' = Skip(bp, Inline) /\ Read(bp) /\ state' = "global"
          \/ c \in Eol /\ EolRead(c) /\ state' = "global"
          \/ c \notin Eol \cup {"#"} /\ bp' = bp + 1 /\ Read(bp) /\ UNCHANGED state
    BY <1>9 DEF NoAssign
  <2>2. /\ pc = "assign" /\ pc' = "top" /\ status' = FALSE
        /\ UNCHANGED <<text, name, value, items>>
    BY <1>9 DEF NoAssign, Reject, values
  <2>3. bp <= Size + 1
    BY <1>0, <1>1, <2>2
  <2>4. /\ bp' \in Nat /\ bp' <= Size + 3 /\ state' \in {"global", "assign", "value", "close"}
        /\ reach' \in Nat /\ reach' <= Size + 6
    <3>1. CASE c = "#" /\ bp' = Skip(bp, Inline) /\ Read(bp) /\ state' = "global"
      <4>1. bp' \in Nat /\ bp' <= Size + 2
        BY <1>0, <2>3, <3>1, SkipBound
      <4>2. reach' \in Nat /\ reach' <= Size + 6
        BY <1>0, <2>3, <3>1, ReadIs
      <4> QED
        BY <1>0, <3>1, <4>1, <4>2
    <3>2. CASE c \in Eol /\ EolRead(c) /\ state' = "global"
      <4>1. bp' \in Nat /\ bp' <= bp + 2 /\ reach' \in Nat /\ (reach' <= Size + 6 \/ reach' <= bp + 1)
        BY <1>0, <3>2, EolReadIs
      <4> QED
        BY <1>0, <2>3, <3>2, <4>1
    <3>3. CASE bp' = bp + 1 /\ Read(bp) /\ UNCHANGED state
      BY <1>0, <2>3, <3>3, ReadIs
    <3> QED
      BY <2>1, <3>1, <3>2, <3>3
  <2>5. bp' <= Size + Beyond["top"]
    BY <1>0, <1>1, <2>4
  <2> QED
    BY <1>0, <1>2, <2>2, <2>4, <2>5, KeepsReached
<1>10. CASE ValueSpace
  <2>1. pc = "value" /\ bp' = Skip(bp, Space) /\ Read(bp) /\ pc' = "top"
    BY <1>10 DEF ValueSpace
  <2>2. UNCHANGED <<text, state, status, name, value, items>>
    BY <1>10 DEF ValueSpace, values
  <2>3. bp' \in Nat /\ bp' <= Size + 3 /\ bp <= Size + 2
    <3>1. bp <= Size + 2
      BY <1>0, <1>1, <2>1
    <3>2. Skip(bp, Space) \in Nat /\ Skip(bp, Space) <= Size + 3
      BY <1>0, <3>1, SkipBound
    <3> QED
      BY <1>0, <2>1, <3>1, <3>2
  <2>4. reach' \in Nat /\ reach' <= Size + 6
    BY <1>0, <2>1, <2>3, ReadIs
  <2>5. bp' <= Size + Beyond["top"]
    BY <1>0, <1>1, <2>3
  <2> QED
    BY <1>0, <1>2, <2>1, <2>2, <2>3, <2>4, <2>5, KeepsReached
<1>11. CASE NoValue
  <2>1. pc = "value" /\ Read(bp) /\ pc' = "top" /\ state' = "close"
    BY <1>11 DEF NoValue
  <2>2. UNCHANGED <<text, status, bp, name, value, items>>
    BY <1>11 DEF NoValue, values
  <2>3. bp <= Size + 2
    BY <1>0, <1>1, <2>1
  <2>4. reach' \in Nat /\ reach' <= Size + 6 /\ bp' <= Size + Beyond["top"]
    BY <1>0, <1>1, <2>1, <2>2, <2>3, ReadIs
  <2> QED
    BY <1>0, <1>2, <2>1, <2>2, <2>4, KeepsReached
<1>12. CASE OpenQuote
  <2>1. pc = "value" /\ Read(bp) /\ pc' = "quoted" /\ value' = [start |-> bp + 1, end |-> -1]
    BY <1>12 DEF OpenQuote
  <2>2. UNCHANGED <<text, state, status, bp, name, items>>
    BY <1>12 DEF OpenQuote
  <2>3. bp <= Size + 2
    BY <1>0, <1>1, <2>1
  <2>4. reach' \in Nat /\ reach' <= Size + 6 /\ bp' <= Size + Beyond["quoted"]
    BY <1>0, <1>1, <2>1, <2>2, <2>3, ReadIs
  <2>5. value' \in Span
    BY <1>0, <2>1, <2>3, SpanIs
  <2> QED
    BY <1>0, <1>2, <2>1, <2>2, <2>4, <2>5, KeepsReached
<1>13. CASE Quoted
  <2> DEFINE p == bp + 1
  <2>1. pc = "quoted" /\ UNCHANGED <<text, state, status, name, value, items>>
    BY <1>13 DEF Quoted, values
  <2>2. p \in Nat /\ p <= Size + 3
    BY <1>0, <1>1, <2>1
  <2>3. CASE bp' = p /\ pc' = "unquote" /\ Read(IF AtEnd(p) THEN bp ELSE p)
    <3>1. reach' \in Nat /\ reach' <= Size + 6
      <4> HIDE DEF p
      <4>1. CASE AtEnd(p)
        BY <1>0, <1>1, <2>1, <2>3, <4>1, ReadIs
      <4>2. CASE ~AtEnd(p)
        BY <1>0, <2>2, <2>3, <4>2, ReadIs
      <4> QED
        BY <4>1, <4>2
    <3>2. bp' <= Size + Beyond["unquote"]
      BY <1>0, <1>1, <2>2, <2>3
    <3> QED
      BY <1>0, <1>2, <2>1, <2>2, <2>3, <3>1, <3>2, KeepsReached
  <2>4. ASSUME Goes(p), NEW c \in At(p), pc' = pc,
               \/ bp' = p + 1
               \/ bp' \in AfterEol(p, c)
               \/ bp' = p,
               Read(IF c \in {"backslash", "CR"} THEN p + 1 ELSE p)
        PROVE  Reached'
    <3>1. p < Size
      BY <1>0, <2>2, <2>4 DEF Goes, AtEnd
    <3>2. bp' \in Nat /\ bp' <= p + 2
      BY <1>0, <2>2, <2>4 DEF AfterEol
    <3>3. reach' \in Nat /\ reach' <= Size + 6
      <4> HIDE DEF p
      <4>1. CASE c \in {"backslash", "CR"}
        <5>1. p + 1 \in Nat /\ Read(p + 1)
          BY <2>2, <2>4, <4>1
        <5> QED
          BY <1>0, <2>2, <3>1, <5>1, ReadIs
      <4>2. CASE c \notin {"backslash", "CR"}
        BY <1>0, <2>2, <2>4, <4>2, ReadIs
      <4> QED
        BY <4>1, <4>2
    <3>4. bp' <= Size + Beyond["quoted"]
      BY <1>0, <1>1, <2>2, <3>1, <3>2
    <3> QED
      BY <1>0, <1>2, <2>1, <2>4, <3>2, <3>3, <3>4, KeepsReached
  <2>5. \/ bp' = p /\ pc' = "unquote" /\ Read(IF AtEnd(p) THEN bp ELSE p)
        \/ /\ Goes(p) /\ pc' = pc
           /\ \E c \in At(p) :
                /\ bp' = p + 1 \/ bp' \in AfterEol(p, c) \/ bp' = p
                /\ Read(IF c \in {"backslash", "CR"} THEN p + 1 ELSE p)
    BY <1>13 DEF Quoted
  <2> QED
    BY <2>3, <2>4, <2>5
<1>14. CASE Unclosed
  <2>1. pc = "unquote" /\ Read(bp) /\ pc' = "top" /\ state' = "global" /\ status' = FALSE
    BY <1>14 DEF Unclosed, Reject
  <2>2. UNCHANGED <<text, bp, name, value, items>>
    BY <1>14 DEF Unclosed, values
  <2>3. bp <= Size + 3
    BY <1>0, <1>1, <2>1
  <2>4. reach' \in Nat /\ reach' <= Size + 6 /\ bp' <= Size + Beyond["top"]
    BY <1>0, <1>1, <2>1, <2>2, <2>3, ReadIs
  <2> QED
    BY <1>0, <1>2, <2>1, <2>2, <2>4, KeepsReached
<1>15. CASE CloseQuote
  <2>1. /\ pc = "unquote" /\ Read(bp) /\ pc' = "close" /\ state' = "close" /\ bp' = bp + 1
        /\ value' = [value EXCEPT !.end = bp]
    BY <1>15 DEF CloseQuote
  <2>2. UNCHANGED <<text, status, name, items>>
    BY <1>15 DEF CloseQuote
  <2>3. bp <= Size + 3
    BY <1>0, <1>1, <2>1
  <2>4. reach' \in Nat /\ reach' <= Size + 6 /\ bp' \in Nat /\ bp' <= Size + Beyond["close"]
    BY <1>0, <1>1, <2>1, <2>2, <2>3, ReadIs
  <2>5. value' \in Span
    <3>1. bp \in -1 .. Size + Overrun
      BY <1>0, <2>3 DEF Overrun
    <3> QED
      BY <1>0, <2>1, <3>1 DEF Span
  <2> QED
    BY <1>0, <1>2, <2>1, <2>2, <2>4, <2>5, KeepsReached
<1>16. CASE ReadValue
  <2>1. /\ pc = "value" /\ pc' = "close" /\ state' = "close" /\ Read(bp')
        /\ bp' = (IF AtEnd(bp) THEN bp ELSE Skip(bp, Inline \ Space))
        /\ value' = [start |-> bp, end |-> bp']
    BY <1>16 DEF ReadValue
  <2>2. UNCHANGED <<text, status, name, items>>
    BY <1>16 DEF ReadValue
  <2>3. bp <= Size + 2
    BY <1>0, <1>1, <2>1
  <2>4. bp' \in Nat /\ bp' <= Size + 2
    BY <1>0, <2>1, <2>3, SkipBound DEF AtEnd
  <2>5. reach' \in Nat /\ reach' <= Size + 6 /\ bp' <= Size + Beyond["close"]
    BY <1>0, <1>1, <2>1, <2>4, ReadIs
  <2>6. value' \in Span
    BY <1>0, <2>1, <2>3, <2>4, SpanIs
  <2> QED
    BY <1>0, <1>2, <2>1, <2>2, <2>4, <2>5, <2>6, KeepsReached
<1>17. CASE CloseLine
  <2>1. PICK c \in At(bp) :
         IF c \in Eol THEN EolRead(c) /\ UNCHANGED status
         ELSE /\ Read(bp)
              /\ IF AtEnd(bp) THEN UNCHANGED <<bp, status>>
                              ELSE bp' = Skip(bp, Inline) /\ Reject
    BY <1>17 DEF CloseLine
  <2>2. /\ pc = "close" /\ state' = "global" /\ text' = text
        /\ name' = NoSpan /\ value' = NoSpan
        /\ IF status' THEN AddItem ELSE pc' = "top" /\ UNCHANGED items
    BY <1>17 DEF CloseLine
  <2>3. bp <= Size + 4
    BY <1>0, <1>1, <2>2
  <2>4. /\ bp' \in Nat /\ bp' <= Size + 6 /\ status' \in BOOLEAN
        /\ reach' \in Nat /\ reach' <= Size + 6
    <3>1. CASE c \in Eol
      <4>1. EolRead(c) /\ status' = status
        BY <2>1, <3>1
      <4>2. bp' \in Nat /\ bp' <= bp + 2 /\ reach' \in Nat /\ (reach' <= Size + 6 \/ reach' <= bp + 1)
        BY <1>0, <4>1, EolReadIs
      <4> QED
        BY <1>0, <2>3, <4>1, <4>2
    <3>2. CASE c \notin Eol
      <4>1. Read(bp) /\ status' \in BOOLEAN /\ bp' \in {bp, Skip(bp, Inline)}
        BY <1>0, <2>1, <3>2 DEF Reject
      <4> QED
        <5>1. bp' \in Nat /\ bp' <= Size + 5
          BY <1>0, <2>3, <4>1, SkipBound
        <5>2. reach' \in Nat /\ reach' <= Size + 6
          BY <1>0, <2>3, <4>1, ReadIs
        <5> QED
          BY <1>0, <4>1, <5>1, <5>2
    <3> QED
      BY <3>1, <3>2
  <2>5. pc' \in {"top", "crashed"} /\ items' \in Seq([name : Span, value : Span])
    <3>1. CASE status' /\ value # NoSpan
      <4>1. items' = <<[name |-> name, value |-> value]>> \o items /\ pc' = "top"
        BY <2>2, <3>1 DEF AddItem
      <4>2. [name |-> name, value |-> value] \in [name : Span, value : Span]
        BY <1>0
      <4> HIDE DEF Span
      <4>3. <<[name |-> name, value |-> value]>> \in Seq([name : Span, value : Span])
        BY <4>2, Singleton
      <4> QED
        BY <1>0, <4>1, <4>3
    <3>2. CASE ~(status' /\ value # NoSpan)
      BY <1>0, <2>2, <3>2 DEF AddItem
    <3> QED
      BY <3>1, <3>2
  <2>6. NoSpan \in Span
    BY <1>0 DEF NoSpan, Span, Overrun
  <2>7. pc' \in Labels /\ bp' <= Size + Beyond[pc']
    BY <1>1, <1>2, <2>4, <2>5
  <2>8. pc' \notin {"global", "assign", "value", "close"}
    BY <2>5
  <2> QED
    BY <1>0, <1>2, <2>2, <2>4, <2>5, <2>6, <2>7, <2>8, KeepsReached
<1>18. CASE Finish
  <2>1. /\ pc = "top" /\ pc' = "done" /\ status' = (status /\ state = "global")
        /\ items' = (IF status' THEN items ELSE <<>>)
        /\ UNCHANGED <<text, state, bp, name, value, reach>>
    BY <1>18 DEF Finish, values
  <2>2. status' \in BOOLEAN
    BY <2>1
  <2>3. items' \in Seq([name : Span, value : Span])
    <3>1. <<>> \in Seq([name : Span, value : Span])
      OBVIOUS
    <3> QED
      BY <1>0, <2>1, <3>1
  <2>4. bp' <= Size + Beyond["done"]
    BY <1>0, <1>1, <2>1
  <2> QED
    BY <1>0, <1>2, <2>1, <2>2, <2>3, <2>4, KeepsReached
<1>19. CASE UNCHANGED vars
  <2>1. UNCHANGED <<text, pc, state, status, bp, name, value, items, reach>>
    BY <1>19 DEF vars, values
  <2> QED
    BY <2>1 DEF Reached, TypeOK, Size, Span
<1> QED
  BY <1>4, <1>5, <1>6, <1>7, <1>8, <1>9, <1>10, <1>11, <1>12, <1>13, <1>14, <1>15, <1>16,
     <1>17, <1>18, <1>19 DEF Next

\* For every text and every document the cursor gets at most six characters
\* beyond the buffer's text, and what is read is a sequence of spans.
THEOREM TypeCorrect == Spec => []TypeOK
<1>1. Reached => TypeOK
  BY DEF Reached
<1> QED
  BY <1>1, ReachedAtFirst, ReachedByStep, PTL DEF Spec

-----------------------------------------------------------------------------
(* What has been understood of a text *)

\* Between a place and the end of the line before it there are spaces only.
LineStart(t, n) ==
    \A l \in 0 .. n - 1 : Char(t, l) \notin Space => \E e \in l .. n - 1 : Char(t, e) \in Eol

\* A place in a comment.
Commented(t, n) ==
    \E k \in 0 .. n :
        Char(t, k) = "#" /\ (\A l \in k .. n : Char(t, l) \notin Eol) /\ LineStart(t, k)

\* The places before n that are neither in an item nor in a comment.
Glued(t, its, n) ==
    {l \in 0 .. n - 1 :
        (\A k \in DOMAIN its : ~In(l, its[k].name) /\ ~In(l, its[k].value)) /\ ~Commented(t, l)}

Assignments(t, its, n) == {l \in Glued(t, its, n) : Char(t, l) = "="}

\* Names and values that end before n, the newest first, and not at n unless
\* the text ends there.
InOrder(t, its, n) ==
    \A k \in DOMAIN its :
        /\ its[k].name.start < its[k].name.end /\ its[k].name.end < its[k].value.start
        /\ its[k].value.start <= its[k].value.end
        /\ its[k].value.end <= n /\ (n < Len(t) => its[k].value.end < n)
        /\ k > 1 => its[k].value.end < its[k - 1].name.start

\* The text before n is accounted for, as NothingIgnored says of the whole.
Understood(t, its, n) ==
    /\ \A l \in Glued(t, its, n) : Char(t, l) \in Space \cup Eol \cup {"=", "quote"}
    /\ Cardinality(Assignments(t, its, n)) = Len(its)
    /\ InOrder(t, its, n)

Places == [start : Nat, end : Int]
Items  == Seq([name : Places, value : Places])

\* The ends of a name and a value are numbers.
LEMMA ItemIs ==
  ASSUME NEW its \in Items, NEW k \in DOMAIN its
  PROVE  /\ its[k].name.start \in Nat /\ its[k].name.end \in Int
         /\ its[k].value.start \in Nat /\ its[k].value.end \in Int
         /\ k \in Nat /\ k >= 1
<1> DEFINE Item == [name : Places, value : Places]
<1>1. its \in Seq(Item)
  BY DEF Items
<1> HIDE DEF Item
<1>2. its[k] \in Item /\ k \in 1 .. Len(its) /\ Len(its) \in Nat
  BY <1>1
<1>3. its[k].name \in Places /\ its[k].value \in Places
  BY <1>2 DEF Item
<1> QED
  BY <1>2, <1>3 DEF Places

\* The beginning of a text is the start of a line.
LEMMA FirstLine == ASSUME NEW t PROVE LineStart(t, 0)
  BY DEF LineStart

\* A space does not end the start of a line.
LEMMA LineGoesOn ==
  ASSUME NEW t, NEW n \in Nat, LineStart(t, n), Char(t, n) \in Space PROVE LineStart(t, n + 1)
<1> SUFFICES ASSUME NEW l \in 0 .. n, Char(t, l) \notin Space
             PROVE  \E e \in l .. n : Char(t, e) \in Eol
  BY DEF LineStart
<1>1. l \in 0 .. n - 1
  OBVIOUS
<1>2. PICK e \in l .. n - 1 : Char(t, e) \in Eol
  BY <1>1 DEF LineStart
<1> QED
  BY <1>2

\* A line starts behind the end of another.
LEMMA NewLine ==
  ASSUME NEW t, NEW n \in Nat, Char(t, n) \in Eol PROVE LineStart(t, n + 1)
<1> SUFFICES ASSUME NEW l \in 0 .. n PROVE \E e \in l .. n : Char(t, e) \in Eol
  BY DEF LineStart
<1>1. n \in l .. n
  OBVIOUS
<1> QED
  BY <1>1

\* From a '#' that starts a line to its end all is comment.
LEMMA CommentIs ==
  ASSUME NEW t, NEW n \in Nat, NEW m \in Nat, LineStart(t, n), Char(t, n) = "#",
         \A l \in n + 1 .. m - 1 : Char(t, l) \notin Eol
  PROVE  \A l \in n .. m - 1 : Commented(t, l)
<1> SUFFICES ASSUME NEW l \in n .. m - 1 PROVE Commented(t, l)
  OBVIOUS
<1>1. n \in 0 .. l
  OBVIOUS
<1>2. ASSUME NEW j \in n .. l PROVE Char(t, j) \notin Eol
  <2>1. CASE j = n
    BY <2>1, Kinds
  <2>2. CASE j # n
    <3>1. j \in n + 1 .. m - 1
      BY <2>2
    <3> QED
      BY <3>1
  <2> QED
    BY <2>1, <2>2
<1> QED
  BY <1>1, <1>2 DEF Commented

\* Nothing is in a comment on a line that begins with something else.
LEMMA NoComment ==
  ASSUME NEW t, NEW a \in Nat, NEW q \in Nat, a <= q, LineStart(t, a),
         Char(t, a) \notin Space \cup {"#"}, \A l \in a .. q : Char(t, l) \notin Eol
  PROVE  ~Commented(t, q)
<1> SUFFICES ASSUME NEW k \in 0 .. q, Char(t, k) = "#", \A l \in k .. q : Char(t, l) \notin Eol,
                    LineStart(t, k)
             PROVE  FALSE
  BY DEF Commented
<1>1. CASE k < a
  <2>1. k \in 0 .. a - 1 /\ Char(t, k) \notin Space
    BY <1>1, Kinds
  <2>2. PICK e \in k .. a - 1 : Char(t, e) \in Eol
    BY <2>1 DEF LineStart
  <2>3. e \in k .. q
    BY <1>1
  <2> QED
    BY <2>2, <2>3
<1>2. CASE k = a
  BY <1>2
<1>3. CASE a < k
  <2>1. a \in 0 .. k - 1
    BY <1>3
  <2>2. PICK e \in a .. k - 1 : Char(t, e) \in Eol
    BY <2>1 DEF LineStart
  <2>3. e \in a .. q
    BY <1>3
  <2> QED
    BY <2>2, <2>3
<1> QED
  BY <1>1, <1>2, <1>3

\* A stretch of spaces, ends of lines and comments is understood.
LEMMA GoesOn ==
  ASSUME NEW t \in Seq(Chars), NEW its \in Items, NEW n \in Nat, NEW m \in Nat, n <= m, m <= Len(t),
         Understood(t, its, n),
         \A l \in n .. m - 1 : Commented(t, l) \/ Char(t, l) \in Space \cup Eol
  PROVE  Understood(t, its, m)
<1>0. \A l \in 0 .. m - 1 : l \in 0 .. n - 1 \/ l \in n .. m - 1
  OBVIOUS
<1>1. ASSUME NEW l \in Glued(t, its, m)
      PROVE  l \in Glued(t, its, n) \/ Char(t, l) \in Space \cup Eol
  BY <1>0, <1>1 DEF Glued
<1>2. Glued(t, its, n) \subseteq Glued(t, its, m)
  BY DEF Glued
<1>3. Assignments(t, its, m) = Assignments(t, its, n)
  BY <1>1, <1>2, Kinds DEF Assignments
<1>4. \A l \in Glued(t, its, m) : Char(t, l) \in Space \cup Eol \cup {"=", "quote"}
  BY <1>1 DEF Understood
<1>5. InOrder(t, its, m)
  <2> SUFFICES ASSUME NEW k \in DOMAIN its
               PROVE  its[k].value.end <= m /\ (m < Len(t) => its[k].value.end < m)
    BY DEF Understood, InOrder
  <2>1. its[k].value.end \in Int
    BY ItemIs
  <2>2. its[k].value.end <= n /\ (n < Len(t) => its[k].value.end < n)
    BY DEF Understood, InOrder
  <2>3. Len(t) \in Nat
    OBVIOUS
  <2> QED
    BY <2>1, <2>2, <2>3
<1> QED
  BY <1>3, <1>4, <1>5 DEF Understood

\* Only spaces between two places.
Blanks(t, m, n) == \A l \in m .. n - 1 : Char(t, l) \in Space

LEMMA NoBlanks == ASSUME NEW t, NEW n \in Nat PROVE Blanks(t, n, n)
  BY DEF Blanks

LEMMA MoreBlanks ==
  ASSUME NEW t, NEW a \in Nat, NEW n \in Nat, NEW m \in Nat, a <= n, Blanks(t, a, n),
         Char(t, n) \in Space, \A l \in n + 1 .. m - 1 : Char(t, l) \in Space
  PROVE  Blanks(t, a, m)
<1> SUFFICES ASSUME NEW l \in a .. m - 1 PROVE Char(t, l) \in Space
  BY DEF Blanks
<1>1. l \in a .. n - 1 \/ l = n \/ l \in n + 1 .. m - 1
  OBVIOUS
<1> QED
  BY <1>1 DEF Blanks

\* A line that begins with the name v, and n after the spaces behind it.
Named(t, its, v, n) ==
    /\ v \in [start : Nat, end : Nat] /\ v.start < v.end /\ v.end <= n
    /\ Understood(t, its, v.start) /\ LineStart(t, v.start)
    /\ Char(t, v.start) \notin Space \cup Eol \cup {"#"}
    /\ \A l \in v.start + 1 .. v.end - 1 : Char(t, l) \in Names
    /\ Blanks(t, v.end, n)

\* A line that is named has no end of a line up to n.
LEMMA NamedLine ==
  ASSUME NEW t, NEW its, NEW v, NEW n \in Nat, Named(t, its, v, n), NEW l \in v.start .. n - 1
  PROVE  Char(t, l) \notin Eol
<1>1. v.start \in Nat /\ v.end \in Nat /\ v.start < v.end /\ v.end <= n
  BY DEF Named
<1>2. CASE l = v.start
  BY <1>2 DEF Named
<1>3. CASE l \in v.start + 1 .. v.end - 1
  BY <1>3, Kinds DEF Named, Names
<1>4. CASE l \in v.end .. n - 1
  BY <1>4, Kinds DEF Named, Blanks
<1> QED
  BY <1>1, <1>2, <1>3, <1>4

\* A definition that is read adds its item: its '=' is the one character more
\* that is not in an item, and no comment hides it.
LEMMA NewItem ==
  ASSUME NEW t \in Seq(Chars), NEW its \in Items, NEW v, NEW w \in [start : Nat, end : Nat],
         NEW q \in Nat, NEW m \in Nat, Named(t, its, v, q), Char(t, q) = "=",
         q < w.start, w.start <= w.end, w.end <= m, m <= Len(t), m < Len(t) => w.end < m,
         \A l \in q + 1 .. w.start - 1 : Char(t, l) \in Space \cup {"quote"},
         \A l \in w.end .. m - 1 : Char(t, l) \in Space \cup Eol \cup {"quote"}
  PROVE  Understood(t, <<[name |-> v, value |-> w]>> \o its, m)
<1> DEFINE a == v.start
           new == <<[name |-> v, value |-> w]>> \o its
           Outside(l, s) == \A k \in DOMAIN s : ~In(l, s[k].name) /\ ~In(l, s[k].value)
<1>1. /\ v.start \in Nat /\ v.end \in Nat /\ v.start < v.end /\ v.end <= q
      /\ w.start \in Nat /\ w.end \in Nat /\ Len(t) \in Nat
  BY DEF Named
<1>2. Understood(t, its, a) /\ LineStart(t, a) /\ Char(t, a) \notin Space \cup Eol \cup {"#"}
  BY DEF Named
<1>3. /\ Len(its) \in Nat /\ Len(new) = Len(its) + 1 /\ DOMAIN new = 1 .. Len(its) + 1
      /\ DOMAIN its = 1 .. Len(its)
      /\ new[1] = [name |-> v, value |-> w] /\ \A k \in DOMAIN its : new[k + 1] = its[k]
  <2> DEFINE Item == [name : Places, value : Places]
             x == [name |-> v, value |-> w]
  <2>1. its \in Seq(Item)
    BY DEF Items
  <2>2. v \in [start : Nat, end : Nat]
    BY DEF Named
  <2>3. v \in Places /\ w \in Places
    BY <2>2 DEF Places
  <2>4. x \in Item
    BY <2>3
  <2> HIDE DEF Item, x
  <2>5. /\ Len(its) \in Nat /\ Len(<<x>> \o its) = Len(its) + 1
        /\ DOMAIN (<<x>> \o its) = 1 .. Len(its) + 1 /\ DOMAIN its = 1 .. Len(its)
        /\ (<<x>> \o its)[1] = x /\ \A k \in DOMAIN its : (<<x>> \o its)[k + 1] = its[k]
    BY <2>1, <2>4
  <2> QED
    BY <2>5 DEF x
<1>4. \A l : Outside(l, new) <=> ~In(l, v) /\ ~In(l, w) /\ Outside(l, its)
  <2> HIDE DEF new
  <2> SUFFICES ASSUME NEW l PROVE Outside(l, new) <=> ~In(l, v) /\ ~In(l, w) /\ Outside(l, its)
    OBVIOUS
  <2>1. ASSUME Outside(l, new) PROVE ~In(l, v) /\ ~In(l, w) /\ Outside(l, its)
    <3>1. 1 \in DOMAIN new /\ new[1].name = v /\ new[1].value = w
      BY <1>3
    <3>2. \A k \in DOMAIN its : k + 1 \in DOMAIN new /\ new[k + 1] = its[k]
      BY <1>3
    <3> QED
      BY <2>1, <3>1, <3>2
  <2>2. ASSUME ~In(l, v), ~In(l, w), Outside(l, its) PROVE Outside(l, new)
    <3> SUFFICES ASSUME NEW k \in DOMAIN new PROVE ~In(l, new[k].name) /\ ~In(l, new[k].value)
      OBVIOUS
    <3>1. CASE k = 1
      BY <1>3, <2>2, <3>1
    <3>2. CASE k # 1
      <4> DEFINE j == k - 1
      <4>1. j \in DOMAIN its /\ k = j + 1
        BY <1>3, <3>2
      <4> HIDE DEF j
      <4>2. new[k] = its[j]
        BY <1>3, <4>1
      <4> QED
        BY <2>2, <4>1, <4>2
    <3> QED
      BY <3>1, <3>2
  <2> QED
    BY <2>1, <2>2
<1> HIDE DEF new
<1>5. \A k \in DOMAIN its :
        /\ its[k].name.start \in Nat /\ its[k].name.end \in Int
        /\ its[k].value.start \in Nat /\ its[k].value.end \in Int
        /\ its[k].name.start < its[k].name.end /\ its[k].name.end < its[k].value.start
        /\ its[k].value.start <= its[k].value.end /\ its[k].value.end < a
        /\ k > 1 => its[k].value.end < its[k - 1].name.start
  <2>1. a < Len(t)
    BY <1>1
  <2> QED
    BY <1>2, <2>1, ItemIs DEF Understood, InOrder
<1>6. \A l \in 0 .. a - 1 : l \in Glued(t, new, m) <=> l \in Glued(t, its, a)
  <2> SUFFICES ASSUME NEW l \in 0 .. a - 1 PROVE l \in Glued(t, new, m) <=> l \in Glued(t, its, a)
    OBVIOUS
  <2>1. ~In(l, v) /\ ~In(l, w) /\ l \in 0 .. m - 1
    BY <1>1 DEF In
  <2>2. Outside(l, new) <=> Outside(l, its)
    BY <1>4, <2>1
  <2> QED
    BY <2>1, <2>2 DEF Glued
<1>7. Glued(t, its, a) \subseteq 0 .. a - 1
  BY DEF Glued
<1>8. ASSUME NEW l \in Glued(t, new, m), l >= a
      PROVE  l = q \/ Char(t, l) \in Space \cup Eol \cup {"quote"}
  <2>1. l \in 0 .. m - 1 /\ Outside(l, new)
    BY <1>8 DEF Glued
  <2>2. ~In(l, v) /\ ~In(l, w)
    BY <1>4, <2>1
  <2>3. l \in v.end .. q - 1 \/ l = q \/ l \in q + 1 .. w.start - 1 \/ l \in w.end .. m - 1
    BY <1>1, <1>8, <2>1, <2>2 DEF In
  <2>4. CASE l \in v.end .. q - 1
    BY <2>4 DEF Named, Blanks
  <2> QED
    BY <2>3, <2>4
<1>9. q \in Glued(t, new, m)
  <2>1. q \in 0 .. m - 1 /\ ~In(q, v) /\ ~In(q, w)
    BY <1>1 DEF In
  <2>2. Outside(q, its)
    BY <1>1, <1>5 DEF In
  <2>3. ~Commented(t, q)
    <3>1. \A l \in a .. q : Char(t, l) \notin Eol
      <4> SUFFICES ASSUME NEW l \in a .. q PROVE Char(t, l) \notin Eol
        OBVIOUS
      <4>1. CASE l = q
        BY <4>1, Kinds
      <4>2. CASE l # q
        <5>1. l \in v.start .. q - 1
          BY <1>1, <4>2
        <5> QED
          BY <5>1, NamedLine
      <4> QED
        BY <4>1, <4>2
    <3> QED
      BY <1>1, <1>2, <3>1, NoComment
  <2> QED
    BY <1>4, <2>1, <2>2, <2>3 DEF Glued
<1>10. \A l \in Glued(t, new, m) : Char(t, l) \in Space \cup Eol \cup {"=", "quote"}
  <2> SUFFICES ASSUME NEW l \in Glued(t, new, m)
               PROVE  Char(t, l) \in Space \cup Eol \cup {"=", "quote"}
    OBVIOUS
  <2>1. l \in 0 .. m - 1
    BY DEF Glued
  <2>2. CASE l < a
    <3>1. l \in 0 .. a - 1
      BY <1>1, <2>1, <2>2
    <3>2. l \in Glued(t, its, a)
      BY <1>6, <3>1
    <3> QED
      BY <1>2, <3>2 DEF Understood
  <2>3. CASE l >= a
    BY <1>8, <2>3
  <2> QED
    BY <1>1, <2>1, <2>2, <2>3
<1>11. Assignments(t, new, m) = Assignments(t, its, a) \cup {q}
  <2>1. ASSUME NEW l \in Assignments(t, new, m) PROVE l \in Assignments(t, its, a) \cup {q}
    <3>1. l \in Glued(t, new, m) /\ Char(t, l) = "=" /\ l \in 0 .. m - 1
      BY DEF Assignments, Glued
    <3>2. CASE l < a
      <4>1. l \in 0 .. a - 1
        BY <1>1, <3>1, <3>2
      <4> QED
        BY <1>6, <3>1, <4>1 DEF Assignments
    <3>3. CASE l >= a
      BY <1>8, <3>1, <3>3, Kinds
    <3> QED
      BY <1>1, <3>1, <3>2, <3>3
  <2>2. Assignments(t, its, a) \subseteq Assignments(t, new, m)
    BY <1>6, <1>7 DEF Assignments
  <2>3. q \in Assignments(t, new, m)
    BY <1>9 DEF Assignments
  <2> QED
    BY <2>1, <2>2, <2>3
<1>12. Cardinality(Assignments(t, new, m)) = Len(new)
  <2> DEFINE A == Assignments(t, its, a)
  <2>1. A \subseteq 0 .. a - 1
    BY <1>7 DEF Assignments
  <2>2. q \notin A
    BY <1>1, <2>1
  <2>3. IsFiniteSet(0 .. a - 1)
    <3>1. 0 \in Int /\ a - 1 \in Int
      BY <1>1
    <3> HIDE DEF a
    <3> QED
      BY <3>1, FS_Interval
  <2>4. IsFiniteSet(A)
    BY <2>1, <2>3, FS_Subset
  <2>5. Cardinality(A) = Len(its)
    BY <1>2 DEF Understood
  <2> HIDE DEF A
  <2>6. Cardinality(A \cup {q}) = Cardinality(A) + 1
    BY <2>2, <2>4, FS_AddElement
  <2> QED
    BY <1>3, <1>11, <2>5, <2>6 DEF A
<1>13. InOrder(t, new, m)
  <2> SUFFICES ASSUME NEW k \in DOMAIN new
               PROVE  /\ new[k].name.start < new[k].name.end /\ new[k].name.end < new[k].value.start
                      /\ new[k].value.start <= new[k].value.end
                      /\ new[k].value.end <= m /\ (m < Len(t) => new[k].value.end < m)
                      /\ k > 1 => new[k].value.end < new[k - 1].name.start
    BY DEF InOrder
  <2>1. CASE k = 1
    BY <1>1, <1>3, <2>1
  <2>2. CASE k # 1
    <3> DEFINE j == k - 1
    <3>1. j \in DOMAIN its /\ k = j + 1 /\ j >= 1 /\ j \in Nat
      BY <1>3, <2>2
    <3> HIDE DEF j
    <3>2. new[k] = its[j]
      BY <1>3, <3>1
    <3>3. /\ its[j].name.start < its[j].name.end /\ its[j].name.end < its[j].value.start
          /\ its[j].value.start <= its[j].value.end /\ its[j].value.end < a
          /\ its[j].value.end \in Int
      BY <1>5, <3>1
    <3>4. its[j].value.end < m
      BY <1>1, <3>3
    <3>5. its[j].value.end < new[j].name.start
      <4>1. CASE j = 1
        BY <1>3, <3>3, <4>1
      <4>2. CASE j # 1
        <5> DEFINE h == j - 1
        <5>1. h \in DOMAIN its /\ j = h + 1 /\ j > 1 /\ j - 1 = h
          BY <1>3, <3>1, <4>2
        <5> HIDE DEF h
        <5>2. new[j] = its[h]
          BY <1>3, <5>1
        <5>3. its[j].value.end < its[j - 1].name.start
          BY <1>5, <3>1, <5>1
        <5> QED
          BY <5>1, <5>2, <5>3
      <4> QED
        BY <4>1, <4>2
    <3>6. k - 1 = j
      BY <3>1
    <3> QED
      BY <3>2, <3>3, <3>4, <3>5, <3>6
  <2> QED
    BY <2>1, <2>2
<1>14. Understood(t, new, m)
  BY <1>10, <1>12, <1>13 DEF Understood
<1> QED
  BY <1>14 DEF new

-----------------------------------------------------------------------------
(* The scanner understands what it reads *)

\* A name, '=' and spaces up to n.
Assigned(t, its, v, n) ==
    \E q \in 0 .. n - 1 : Named(t, its, v, q) /\ Char(t, q) = "=" /\ Blanks(t, q + 1, n)

\* A definition that has a name and no value where its line ends.
NoValueAt(t, its, v, w, n) ==
    n < Len(t) /\ Char(t, n) \in Eol /\ Assigned(t, its, v, n) /\ w = NoSpan

\* Behind a definition's value, plain or between quotes.
Valued(t, its, v, w, n) ==
    /\ n <= Len(t) /\ w.start <= w.end
    /\ \/ n = w.end /\ Assigned(t, its, v, w.start)
       \/ /\ n = w.end + 1 /\ 0 < w.start /\ Assigned(t, its, v, w.start - 1)
          /\ Char(t, w.start - 1) = "quote" /\ Char(t, w.end) = "quote"

\* What the scanner has read up to the cursor.
Reading ==
    /\ pc \in {"top", "global", "assign", "value"} => value = NoSpan
    /\ pc = "top" => state # "value"
    /\ pc = "top" /\ state = "global" =>
         bp <= Size /\ Understood(text, items, bp) /\ (bp < Size => LineStart(text, bp))
    /\ pc = "top" /\ state = "assign" => (bp < Size => Named(text, items, name, bp))
    /\ pc = "top" /\ state = "close" => NoValueAt(text, items, name, value, bp)
    /\ pc = "global" =>
         /\ Understood(text, items, bp)
         /\ bp < Size /\ Char(text, bp) \notin Eol => LineStart(text, bp) /\ Char(text, bp) # "#"
    /\ pc = "assign" =>
         (bp < Size /\ Char(text, bp) \in Space \cup {"="} => Named(text, items, name, bp))
    /\ pc = "value" =>
         bp <= Size /\ Assigned(text, items, name, bp) /\ (bp < Size => Char(text, bp) \notin Space)
    /\ pc \in {"quoted", "unquote"} =>
         /\ 0 < value.start /\ value.start <= (IF pc = "quoted" THEN bp + 1 ELSE bp)
         /\ Assigned(text, items, name, value.start - 1) /\ Char(text, value.start - 1) = "quote"
    /\ pc = "close" =>
         NoValueAt(text, items, name, value, bp) \/ Valued(text, items, name, value, bp)
    /\ pc = "done" => bp = Size /\ Understood(text, items, Size)

\* As long as it has met no error and has not left the buffer.
Understands == status /\ reach <= Size => Reading

LEMMA UnderstandsAtFirst == Init => Understands
<1> SUFFICES ASSUME Init PROVE Reading
  BY DEF Understands
<1>1. pc = "top" /\ state = "global" /\ bp = 0 /\ value = NoSpan /\ items = <<>>
  BY DEF Init
<1>2. Glued(text, items, 0) = {} /\ Assignments(text, items, 0) = {}
  BY DEF Glued, Assignments
<1>3. Cardinality(Assignments(text, items, 0)) = Len(items)
  BY <1>1, <1>2, FS_EmptySet
<1>4. Understood(text, items, 0)
  BY <1>1, <1>2, <1>3 DEF Understood, InOrder
<1>5. LineStart(text, 0) /\ Size \in Nat
  BY ReachedAtFirst, Numbers, FirstLine
<1> QED
  BY <1>1, <1>4, <1>5 DEF Reading

\* What the actions share.
LEMMA Still ==
  ASSUME Reached, Understands, text' = text
  PROVE  /\ Size \in Nat /\ Size' = Size /\ Size = Len(text) /\ text \in Seq(Chars)
         /\ bp \in Nat /\ reach \in Nat /\ At(Size) = {NUL} /\ items \in Items
         /\ \A n \in 0 .. Size - 1 : At(n) = {Char(text, n)} /\ Char(text, n) \in Chars
         /\ status /\ reach <= Size => Reading
<1>1. items \in Items
  <2>1. Span \subseteq Places
    BY Numbers DEF Span, Places, Overrun
  <2> DEFINE A == [name : Span, value : Span]
             B == [name : Places, value : Places]
  <2>2. A \subseteq B
    BY <2>1
  <2>3. items \in Seq(A)
    BY Numbers
  <2> HIDE DEF A, B
  <2>4. items \in Seq(B)
    BY <2>2, <2>3
  <2> QED
    BY <2>4 DEF Items, B
<1> QED
  BY <1>1, Numbers DEF Size, Understands

LEMMA TopUnderstands == ASSUME Reached, Understands, Top PROVE Understands'
<1>1. /\ pc = "top" /\ ~(bp >= Size) /\ pc' = state /\ Read(bp)
      /\ bp' = (IF "#" \in At(bp) THEN Skip(bp, Inline) ELSE bp)
  BY DEF Top, AtEnd
<1>2. UNCHANGED <<text, state, status, name, value, items>>
  BY DEF Top, values
<1>3. /\ Size \in Nat /\ Size' = Size /\ Size = Len(text) /\ text \in Seq(Chars)
      /\ bp \in Nat /\ reach \in Nat /\ items \in Items
      /\ \A n \in 0 .. Size - 1 : At(n) = {Char(text, n)} /\ Char(text, n) \in Chars
      /\ status /\ reach <= Size => Reading
  BY <1>2, Still
<1> SUFFICES ASSUME status', reach' <= Size' PROVE Reading'
  BY DEF Understands
<1>4. Reading /\ bp < Size /\ At(bp) = {Char(text, bp)} /\ state \in {"global", "assign", "value", "close"}
  BY <1>1, <1>2, <1>3, ReadIs, Numbers
<1>5. CASE Char(text, bp) = "#"
  <2>1. bp' = Skip(bp, Inline)
    BY <1>1, <1>4, <1>5
  <2>2. /\ bp' \in Nat /\ bp' > bp /\ bp' <= Size
        /\ \A l \in bp + 1 .. bp' - 1 : Char(text, l) \in Inline
        /\ bp' < Size => Char(text, bp') \in Eol
    <3>1. /\ bp' \in Nat /\ bp' >= bp + 1 /\ (bp' = bp + 1 \/ bp' <= Size)
          /\ \A l \in bp + 1 .. bp' - 1 : Char(text, l) \in Inline
          /\ bp' < Size => Char(text, bp') \notin Inline
      BY <1>3, <2>1, SkipIs
    <3>2. bp' < Size => Char(text, bp') \in Chars
      BY <1>3, <3>1
    <3> QED
      BY <1>3, <1>4, <3>1, <3>2, Kinds
  <2>3. CASE state = "global"
    <3>1. Understood(text, items, bp) /\ LineStart(text, bp)
      BY <1>1, <1>4, <2>3 DEF Reading
    <3>2. \A l \in bp + 1 .. bp' - 1 : Char(text, l) \notin Eol
      BY <2>2, Kinds
    <3>3. \A l \in bp .. bp' - 1 : Commented(text, l)
      BY <1>3, <1>5, <2>2, <3>1, <3>2, CommentIs
    <3>4. Understood(text, items, bp')
      <4>1. \A l \in bp .. bp' - 1 : Commented(text, l) \/ Char(text, l) \in Space \cup Eol
        BY <3>3
      <4>2. bp <= bp' /\ bp' <= Len(text) /\ bp \in Nat /\ bp' \in Nat
        BY <1>3, <2>2
      <4> QED
        BY ONLY <1>3, <3>1, <4>1, <4>2, GoesOn
    <3> QED
      BY <1>1, <1>2, <1>3, <1>4, <2>2, <2>3, <3>4 DEF Reading
  <2>4. CASE state = "assign"
    <3>1. bp' < Size => Char(text, bp') \notin Space \cup {"="}
      BY <2>2, Kinds
    <3> QED
      BY <1>1, <1>2, <1>3, <1>4, <2>4, <3>1 DEF Reading
  <2>5. CASE state = "close"
    <3>1. Char(text, bp) \in Eol
      BY <1>1, <1>4, <2>5 DEF Reading, NoValueAt
    <3> QED
      BY <1>5, <3>1, Kinds
  <2> QED
    BY <1>1, <1>4, <2>3, <2>4, <2>5 DEF Reading
<1>6. CASE Char(text, bp) # "#"
  <2>1. bp' = bp
    BY <1>1, <1>4, <1>6
  <2>2. CASE state = "global"
    <3>1. Understood(text, items, bp) /\ LineStart(text, bp)
      BY <1>1, <1>4, <2>2 DEF Reading
    <3> QED
      BY <1>1, <1>2, <1>3, <1>4, <1>6, <2>1, <2>2, <3>1 DEF Reading
  <2>3. CASE state = "assign"
    <3>1. Named(text, items, name, bp)
      BY <1>1, <1>4, <2>3 DEF Reading
    <3> QED
      BY <1>1, <1>2, <1>3, <1>4, <2>1, <2>3, <3>1 DEF Reading
  <2>4. CASE state = "close"
    <3>1. NoValueAt(text, items, name, value, bp)
      BY <1>1, <1>4, <2>4 DEF Reading
    <3> QED
      BY <1>1, <1>2, <1>3, <1>4, <2>1, <2>4, <3>1 DEF Reading
  <2> QED
    BY <1>1, <1>4, <2>2, <2>3, <2>4 DEF Reading
<1> QED
  BY <1>5, <1>6

LEMMA SkipBlankUnderstands == ASSUME Reached, Understands, SkipBlank PROVE Understands'
<1>1. PICK c \in At(bp) \cap (Eol \cup Space) : EolRead(c)
  BY DEF SkipBlank
<1>2. /\ pc = "global" /\ pc' = "top" /\ state = "global"
      /\ UNCHANGED <<text, state, status, name, value, items>>
  BY DEF SkipBlank, values, Reached
<1>3. /\ Size \in Nat /\ Size' = Size /\ Size = Len(text) /\ text \in Seq(Chars)
      /\ bp \in Nat /\ reach \in Nat /\ items \in Items /\ At(Size) = {NUL}
      /\ \A n \in 0 .. Size - 1 : At(n) = {Char(text, n)} /\ Char(text, n) \in Chars
      /\ status /\ reach <= Size => Reading
  BY <1>2, Still
<1> SUFFICES ASSUME status', reach' <= Size' PROVE Reading'
  BY DEF Understands
<1>4. /\ bp' \in Nat /\ reach' >= reach /\ reach' \in Nat /\ bp' \in {bp + 1, bp + 2}
      /\ bp' = bp + 2 => c = "CR" /\ bp + 1 # Size /\ (bp + 1 < Size => Char(text, bp + 1) \in Eol)
  BY <1>1, EolReadIs
<1>5. Reading /\ bp <= Size
  <2>1. bp <= Size + Beyond["global"]
    BY <1>2, Numbers
  <2> QED
    BY <1>2, <1>3, <1>4, <2>1, BeyondIs
<1>6. bp < Size /\ Char(text, bp) = c /\ c \in Eol \cup Space
  <2>1. bp # Size
    BY <1>1, <1>3, Kinds
  <2>2. bp < Size
    BY <1>3, <1>5, <2>1
  <2> QED
    BY <1>1, <1>3, <2>2
<1>7. Understood(text, items, bp) /\ (c \notin Eol => LineStart(text, bp))
  BY <1>2, <1>5, <1>6 DEF Reading
<1>8. bp' <= Size /\ LineStart(text, bp') /\ \A l \in bp .. bp' - 1 : Char(text, l) \in Eol \cup Space
  <2>1. CASE bp' = bp + 1
    <3>1. LineStart(text, bp + 1)
      BY <1>3, <1>6, <1>7, LineGoesOn, NewLine
    <3>2. \A l \in bp .. bp' - 1 : l = bp
      BY <1>3, <2>1
    <3> QED
      BY <1>3, <1>6, <2>1, <3>1, <3>2
  <2>2. CASE bp' = bp + 2
    <3>1. bp + 1 < Size /\ Char(text, bp + 1) \in Eol
      BY <1>3, <1>4, <1>6, <2>2
    <3>2. LineStart(text, (bp + 1) + 1) /\ (bp + 1) + 1 = bp'
      BY <1>3, <2>2, <3>1, NewLine
    <3>3. \A l \in bp .. bp' - 1 : l = bp \/ l = bp + 1
      BY <1>3, <2>2
    <3> QED
      BY <1>3, <1>6, <2>2, <3>1, <3>2, <3>3
  <2> QED
    BY <1>4, <2>1, <2>2
<1>9. Understood(text, items, bp')
  <2>1. \A l \in bp .. bp' - 1 : Commented(text, l) \/ Char(text, l) \in Space \cup Eol
    BY <1>8
  <2>2. bp <= bp' /\ bp' <= Len(text) /\ bp \in Nat /\ bp' \in Nat
    BY <1>3, <1>4, <1>8
  <2> QED
    BY ONLY <1>3, <1>7, <2>1, <2>2, GoesOn
<1>10. value = NoSpan
  BY <1>2, <1>5 DEF Reading
<1> QED
  BY <1>2, <1>3, <1>8, <1>9, <1>10 DEF Reading

LEMMA ReadNameUnderstands == ASSUME Reached, Understands, ReadName PROVE Understands'
<1>1. /\ pc = "global" /\ pc' = "assign" /\ state' = "assign" /\ Read(bp)
      /\ bp' = Skip(bp, Names) /\ name' = [start |-> bp, end |-> bp']
      /\ At(bp) \ (Eol \cup Space) # {}
      /\ UNCHANGED <<text, status, value, items>>
  BY DEF ReadName
<1>2. /\ Size \in Nat /\ Size' = Size /\ Size = Len(text) /\ text \in Seq(Chars)
      /\ bp \in Nat /\ reach \in Nat /\ items \in Items /\ At(Size) = {NUL}
      /\ \A n \in 0 .. Size - 1 : At(n) = {Char(text, n)} /\ Char(text, n) \in Chars
      /\ status /\ reach <= Size => Reading
  BY <1>1, Still
<1> SUFFICES ASSUME status', reach' <= Size' PROVE Reading'
  BY DEF Understands
<1>3. reach' \in Nat /\ reach' >= reach /\ reach' >= bp
  BY <1>1, <1>2, ReadIs
<1>4. Reading
  BY <1>1, <1>2, <1>3
<1>5. /\ bp' \in Nat /\ bp' >= bp + 1
      /\ \A l \in bp + 1 .. bp' - 1 : Char(text, l) \in Names
  BY <1>1, <1>2, SkipIs
<1>6. value' = NoSpan
  BY <1>1, <1>4 DEF Reading
<1>7. ASSUME bp' < Size, Char(text, bp') \in Space \cup {"="}
      PROVE  Named(text, items, name', bp')
  <2>1. bp < Size /\ Char(text, bp) \notin Eol \cup Space
    BY <1>1, <1>2, <1>5, <1>7
  <2>2. Understood(text, items, bp) /\ LineStart(text, bp) /\ Char(text, bp) # "#"
    BY <1>1, <1>4, <2>1 DEF Reading
  <2>3. Blanks(text, bp', bp')
    BY ONLY <1>5, NoBlanks
  <2>4. /\ name' \in [start : Nat, end : Nat] /\ name'.start = bp /\ name'.end = bp'
    BY <1>1, <1>2, <1>5
  <2> QED
    <3>1. \A l \in name'.start + 1 .. name'.end - 1 : Char(text, l) \in Names
      BY <1>5, <2>4
    <3>2. name'.start < name'.end /\ name'.end <= bp'
      BY <1>2, <1>5, <2>4
    <3>3. /\ Understood(text, items, name'.start) /\ LineStart(text, name'.start)
          /\ Char(text, name'.start) \notin Space \cup Eol \cup {"#"}
          /\ Blanks(text, name'.end, bp')
      BY <2>1, <2>2, <2>3, <2>4
    <3> QED
      BY ONLY <2>4, <3>1, <3>2, <3>3 DEF Named
<1> QED
  BY <1>1, <1>2, <1>6, <1>7 DEF Reading

LEMMA AssignSpaceUnderstands == ASSUME Reached, Understands, AssignSpace PROVE Understands'
<1>1. /\ pc = "assign" /\ pc' = "top" /\ state = "assign" /\ Read(bp)
      /\ bp' = Skip(bp, Space) /\ At(bp) \cap Space # {}
      /\ UNCHANGED <<text, state, status, name, value, items>>
  BY DEF AssignSpace, values, Reached
<1>2. /\ Size \in Nat /\ Size' = Size /\ Size = Len(text) /\ text \in Seq(Chars)
      /\ bp \in Nat /\ reach \in Nat /\ items \in Items /\ At(Size) = {NUL}
      /\ \A n \in 0 .. Size - 1 : At(n) = {Char(text, n)} /\ Char(text, n) \in Chars
      /\ status /\ reach <= Size => Reading
  BY <1>1, Still
<1> SUFFICES ASSUME status', reach' <= Size' PROVE Reading'
  BY DEF Understands
<1>3. reach' \in Nat /\ reach' >= reach /\ reach' >= bp
  BY <1>1, <1>2, ReadIs
<1>4. Reading
  BY <1>1, <1>2, <1>3
<1>5. bp < Size /\ Char(text, bp) \in Space
  <2>1. bp # Size
    BY <1>1, <1>2, Kinds
  <2>2. bp < Size
    BY <1>2, <1>3, <2>1
  <2> QED
    BY <1>1, <1>2, <2>2
<1>6. Named(text, items, name, bp) /\ value = NoSpan
  BY <1>1, <1>4, <1>5 DEF Reading
<1>7. /\ bp' \in Nat /\ bp' >= bp + 1
      /\ \A l \in bp + 1 .. bp' - 1 : Char(text, l) \in Space
  BY <1>1, <1>2, SkipIs
<1>8. Named(text, items, name, bp')
  <2>1. name.start \in Nat /\ name.end \in Nat /\ name.end <= bp /\ Blanks(text, name.end, bp)
    BY <1>6 DEF Named
  <2>2. Blanks(text, name.end, bp')
    BY ONLY <1>2, <1>5, <1>7, <2>1, MoreBlanks
  <2>3. name.end <= bp'
    BY <1>2, <1>7, <2>1
  <2> QED
    BY <1>6, <2>2, <2>3 DEF Named
<1> QED
  BY <1>1, <1>2, <1>6, <1>8 DEF Reading

LEMMA AssignUnderstands == ASSUME Reached, Understands, Assign PROVE Understands'
<1>1. /\ pc = "assign" /\ pc' = "value" /\ state' = "value" /\ Read(bp)
      /\ bp' = Skip(bp, Space) /\ "=" \in At(bp)
      /\ UNCHANGED <<text, status, name, value, items>>
  BY DEF Assign, values
<1>2. /\ Size \in Nat /\ Size' = Size /\ Size = Len(text) /\ text \in Seq(Chars)
      /\ bp \in Nat /\ reach \in Nat /\ items \in Items /\ At(Size) = {NUL}
      /\ \A n \in 0 .. Size - 1 : At(n) = {Char(text, n)} /\ Char(text, n) \in Chars
      /\ status /\ reach <= Size => Reading
  BY <1>1, Still
<1> SUFFICES ASSUME status', reach' <= Size' PROVE Reading'
  BY DEF Understands
<1>3. reach' \in Nat /\ reach' >= reach /\ reach' >= bp
  BY <1>1, <1>2, ReadIs
<1>4. Reading
  BY <1>1, <1>2, <1>3
<1>5. bp < Size /\ Char(text, bp) = "="
  <2>1. bp # Size
    BY <1>1, <1>2, Kinds
  <2>2. bp < Size
    BY <1>2, <1>3, <2>1
  <2> QED
    BY <1>1, <1>2, <2>2
<1>6. Named(text, items, name, bp) /\ value = NoSpan
  BY <1>1, <1>4, <1>5 DEF Reading
<1>7. /\ bp' \in Nat /\ bp' >= bp + 1 /\ bp' <= Size
      /\ \A l \in bp + 1 .. bp' - 1 : Char(text, l) \in Space
      /\ bp' < Size => Char(text, bp') \notin Space
  BY <1>1, <1>2, <1>5, SkipIs
<1>8. Assigned(text, items, name, bp')
  <2> DEFINE n == bp'
  <2>1. bp \in Nat /\ n \in Nat /\ n >= bp + 1
    BY <1>2, <1>7
  <2>2. Blanks(text, bp + 1, n)
    BY <1>7 DEF Blanks
  <2> HIDE DEF n
  <2>3. bp \in 0 .. n - 1
    BY <2>1
  <2>4. Assigned(text, items, name, n)
    BY <1>5, <1>6, <2>2, <2>3 DEF Assigned
  <2> QED
    BY <2>4 DEF n
<1> QED
  BY <1>1, <1>2, <1>6, <1>7, <1>8 DEF Reading

LEMMA ValueSpaceUnderstands == ASSUME Reached, Understands, ValueSpace PROVE Understands'
<1>1. pc = "value" /\ Read(bp) /\ At(bp) \cap Space # {} /\ UNCHANGED <<text, status>>
  BY DEF ValueSpace
<1>2. /\ Size \in Nat /\ Size' = Size /\ Size = Len(text) /\ text \in Seq(Chars)
      /\ bp \in Nat /\ reach \in Nat /\ items \in Items /\ At(Size) = {NUL}
      /\ \A n \in 0 .. Size - 1 : At(n) = {Char(text, n)} /\ Char(text, n) \in Chars
      /\ status /\ reach <= Size => Reading
  BY <1>1, Still
<1> SUFFICES ASSUME status', reach' <= Size' PROVE Reading'
  BY DEF Understands
<1>3. reach' \in Nat /\ reach' >= reach /\ reach' >= bp
  BY <1>1, <1>2, ReadIs
<1>4. bp <= Size /\ (bp < Size => Char(text, bp) \notin Space)
  BY <1>1, <1>2, <1>3 DEF Reading
<1>5. CASE bp = Size
  BY <1>1, <1>2, <1>5, Kinds
<1>6. CASE bp < Size
  BY <1>1, <1>2, <1>4, <1>6
<1> QED
  BY <1>2, <1>4, <1>5, <1>6

LEMMA NoValueUnderstands == ASSUME Reached, Understands, NoValue PROVE Understands'
<1>1. /\ pc = "value" /\ pc' = "top" /\ state' = "close" /\ Read(bp) /\ At(bp) \cap Eol # {}
      /\ UNCHANGED <<text, status, bp, name, value, items>>
  BY DEF NoValue, values
<1>2. /\ Size \in Nat /\ Size' = Size /\ Size = Len(text) /\ text \in Seq(Chars)
      /\ bp \in Nat /\ reach \in Nat /\ items \in Items /\ At(Size) = {NUL}
      /\ \A n \in 0 .. Size - 1 : At(n) = {Char(text, n)} /\ Char(text, n) \in Chars
      /\ status /\ reach <= Size => Reading
  BY <1>1, Still
<1> SUFFICES ASSUME status', reach' <= Size' PROVE Reading'
  BY DEF Understands
<1>3. reach' \in Nat /\ reach' >= reach /\ reach' >= bp
  BY <1>1, <1>2, ReadIs
<1>4. Assigned(text, items, name, bp) /\ value = NoSpan /\ bp <= Size
  BY <1>1, <1>2, <1>3 DEF Reading
<1>5. bp < Size /\ Char(text, bp) \in Eol
  <2>1. bp # Size
    BY <1>1, <1>2, Kinds
  <2>2. bp < Size
    BY <1>2, <1>4, <2>1
  <2> QED
    BY <1>1, <1>2, <2>2
<1>6. NoValueAt(text, items, name, value, bp)
  BY <1>2, <1>4, <1>5 DEF NoValueAt
<1> QED
  BY <1>1, <1>2, <1>4, <1>6 DEF Reading

LEMMA OpenQuoteUnderstands == ASSUME Reached, Understands, OpenQuote PROVE Understands'
<1>1. /\ pc = "value" /\ pc' = "quoted" /\ Read(bp) /\ "quote" \in At(bp)
      /\ value' = [start |-> bp + 1, end |-> -1]
      /\ UNCHANGED <<text, state, status, bp, name, items>>
  BY DEF OpenQuote
<1>2. /\ Size \in Nat /\ Size' = Size /\ Size = Len(text) /\ text \in Seq(Chars)
      /\ bp \in Nat /\ reach \in Nat /\ items \in Items /\ At(Size) = {NUL}
      /\ \A n \in 0 .. Size - 1 : At(n) = {Char(text, n)} /\ Char(text, n) \in Chars
      /\ status /\ reach <= Size => Reading
  BY <1>1, Still
<1> SUFFICES ASSUME status', reach' <= Size' PROVE Reading'
  BY DEF Understands
<1>3. reach' \in Nat /\ reach' >= reach /\ reach' >= bp
  BY <1>1, <1>2, ReadIs
<1>4. Assigned(text, items, name, bp) /\ bp <= Size
  BY <1>1, <1>2, <1>3 DEF Reading
<1>5. Char(text, bp) = "quote"
  <2>1. bp # Size
    BY <1>1, <1>2, Kinds
  <2>2. bp < Size
    BY <1>2, <1>4, <2>1
  <2> QED
    BY <1>1, <1>2, <2>2
<1>6. value'.start = bp + 1 /\ (bp + 1) - 1 = bp /\ 0 < bp + 1 /\ bp + 1 <= bp' + 1
  BY <1>1, <1>2
<1> QED
  BY <1>1, <1>2, <1>4, <1>5, <1>6 DEF Reading

LEMMA QuotedUnderstands == ASSUME Reached, Understands, Quoted PROVE Understands'
<1>1. /\ pc = "quoted" /\ pc' \in {"quoted", "unquote"}
      /\ UNCHANGED <<text, state, status, name, value, items>>
  BY DEF Quoted, values
<1>2. /\ Size \in Nat /\ Size' = Size /\ Size = Len(text) /\ text \in Seq(Chars)
      /\ bp \in Nat /\ reach \in Nat /\ items \in Items /\ At(Size) = {NUL}
      /\ \A n \in 0 .. Size - 1 : At(n) = {Char(text, n)} /\ Char(text, n) \in Chars
      /\ status /\ reach <= Size => Reading
  BY <1>1, Still
<1> SUFFICES ASSUME status', reach' <= Size' PROVE Reading'
  BY DEF Understands
<1>3. /\ bp' \in {bp + 1, bp + 2, bp + 3}
      /\ reach' \in Nat /\ reach' >= reach
  <2> DEFINE p == bp + 1
  <2>0. p \in Nat
    BY <1>2
  <2>1. \/ bp' = p /\ Read(IF AtEnd(p) THEN bp ELSE p)
        \/ \E c \in At(p) :
             /\ bp' = p + 1 \/ bp' \in AfterEol(p, c) \/ bp' = p
             /\ Read(IF c \in {"backslash", "CR"} THEN p + 1 ELSE p)
    BY DEF Quoted
  <2>2. bp' \in {bp + 1, bp + 2, bp + 3}
    BY <1>2, <2>1 DEF AfterEol
  <2>3. Read(bp) \/ Read(p) \/ Read(p + 1)
    <3>1. CASE Read(IF AtEnd(p) THEN bp ELSE p)
      <4> HIDE DEF p
      <4> QED
        BY <3>1
    <3>2. CASE \E c \in At(p) : Read(IF c \in {"backslash", "CR"} THEN p + 1 ELSE p)
      <4> HIDE DEF p
      <4> QED
        BY <3>2
    <3> QED
      BY <2>1, <3>1, <3>2
  <2>4. reach' \in Nat /\ reach' >= reach
    BY <1>2, <2>0, <2>3, ReadIs
  <2> QED
    BY <2>2, <2>4
<1>4. Reading
  BY <1>1, <1>2, <1>3
<1>5. /\ 0 < value.start /\ value.start <= bp + 1
      /\ Assigned(text, items, name, value.start - 1) /\ Char(text, value.start - 1) = "quote"
  BY <1>1, <1>4 DEF Reading
<1>6. value.start <= bp' /\ value.start <= bp' + 1
  <2>1. value.start \in Nat
    BY Numbers DEF Span, Overrun
  <2> QED
    BY <1>2, <1>3, <1>5, <2>1
<1> QED
  BY <1>1, <1>2, <1>5, <1>6 DEF Reading

LEMMA CloseQuoteUnderstands == ASSUME Reached, Understands, CloseQuote PROVE Understands'
<1>1. /\ pc = "unquote" /\ pc' = "close" /\ state' = "close" /\ Read(bp) /\ "quote" \in At(bp)
      /\ bp' = bp + 1 /\ value' = [value EXCEPT !.end = bp]
      /\ UNCHANGED <<text, status, name, items>>
  BY DEF CloseQuote
<1>2. /\ Size \in Nat /\ Size' = Size /\ Size = Len(text) /\ text \in Seq(Chars)
      /\ bp \in Nat /\ reach \in Nat /\ items \in Items /\ At(Size) = {NUL}
      /\ \A n \in 0 .. Size - 1 : At(n) = {Char(text, n)} /\ Char(text, n) \in Chars
      /\ status /\ reach <= Size => Reading
  BY <1>1, Still
<1> SUFFICES ASSUME status', reach' <= Size' PROVE Reading'
  BY DEF Understands
<1>3. reach' \in Nat /\ reach' >= reach /\ reach' >= bp
  BY <1>1, <1>2, ReadIs
<1>4. /\ 0 < value.start /\ value.start <= bp
      /\ Assigned(text, items, name, value.start - 1) /\ Char(text, value.start - 1) = "quote"
  BY <1>1, <1>2, <1>3 DEF Reading
<1>5. bp < Size /\ Char(text, bp) = "quote"
  <2>1. bp # Size
    BY <1>1, <1>2, Kinds
  <2>2. bp < Size
    BY <1>2, <1>3, <2>1
  <2> QED
    BY <1>1, <1>2, <2>2
<1>6. value'.start = value.start /\ value'.end = bp
  BY <1>1, Numbers DEF Span
<1>7. Valued(text, items, name, value', bp')
  BY <1>1, <1>2, <1>4, <1>5, <1>6 DEF Valued
<1> QED
  BY <1>1, <1>2, <1>7 DEF Reading

LEMMA ReadValueUnderstands == ASSUME Reached, Understands, ReadValue PROVE Understands'
<1>1. /\ pc = "value" /\ pc' = "close" /\ state' = "close" /\ Read(bp')
      /\ bp' = (IF bp >= Size THEN bp ELSE Skip(bp, Inline \ Space))
      /\ value' = [start |-> bp, end |-> bp']
      /\ UNCHANGED <<text, status, name, items>>
  BY DEF ReadValue, AtEnd
<1>2. /\ Size \in Nat /\ Size' = Size /\ Size = Len(text) /\ text \in Seq(Chars)
      /\ bp \in Nat /\ reach \in Nat /\ items \in Items /\ At(Size) = {NUL}
      /\ \A n \in 0 .. Size - 1 : At(n) = {Char(text, n)} /\ Char(text, n) \in Chars
      /\ status /\ reach <= Size => Reading
  BY <1>1, Still
<1> SUFFICES ASSUME status', reach' <= Size' PROVE Reading'
  BY DEF Understands
<1>3. bp' \in Nat /\ bp' >= bp
  BY <1>1, <1>2, SkipIs
<1>4. reach' \in Nat /\ reach' >= reach /\ reach' >= bp'
  BY <1>1, <1>2, <1>3, ReadIs
<1>5. Assigned(text, items, name, bp)
  BY <1>1, <1>2, <1>4 DEF Reading
<1>6. value'.start = bp /\ value'.end = bp' /\ bp' <= Size
  BY <1>1, <1>2, <1>3, <1>4
<1>7. Valued(text, items, name, value', bp')
  BY <1>2, <1>3, <1>5, <1>6 DEF Valued
<1> QED
  BY <1>1, <1>2, <1>7 DEF Reading

LEMMA FinishUnderstands == ASSUME Reached, Understands, Finish PROVE Understands'
<1>1. /\ pc = "top" /\ pc' = "done" /\ bp >= Size /\ status' = (status /\ state = "global")
      /\ items' = (IF status' THEN items ELSE <<>>)
      /\ UNCHANGED <<text, state, bp, name, value, reach>>
  BY DEF Finish, values, AtEnd
<1>2. /\ Size \in Nat /\ Size' = Size /\ Size = Len(text) /\ text \in Seq(Chars)
      /\ bp \in Nat /\ reach \in Nat /\ items \in Items /\ At(Size) = {NUL}
      /\ \A n \in 0 .. Size - 1 : At(n) = {Char(text, n)} /\ Char(text, n) \in Chars
      /\ status /\ reach <= Size => Reading
  BY <1>1, Still
<1> SUFFICES ASSUME status', reach' <= Size' PROVE Reading'
  BY DEF Understands
<1>3. status /\ state = "global" /\ items' = items
  BY <1>1
<1>4. bp <= Size /\ Understood(text, items, bp)
  BY <1>1, <1>2, <1>3 DEF Reading
<1>5. bp = Size
  BY <1>1, <1>2, <1>4
<1> QED
  BY <1>1, <1>2, <1>3, <1>4, <1>5 DEF Reading

\* The definition that ends a line, or the text, and its item.
LEMMA ValueAdded ==
  ASSUME NEW t \in Seq(Chars), NEW its \in Items, NEW v, NEW w \in [start : Nat, end : Int],
         NEW n \in Nat, NEW m \in Nat, Valued(t, its, v, w, n), n <= m, m <= Len(t),
         n = m => n = Len(t), \A l \in n .. m - 1 : Char(t, l) \in Eol
  PROVE  Understood(t, <<[name |-> v, value |-> w]>> \o its, m)
<1>1. w.start \in Nat /\ w.end \in Nat /\ w \in [start : Nat, end : Nat] /\ n <= Len(t)
  BY DEF Valued
<1>2. Len(t) \in Nat
  OBVIOUS
<1>3. ASSUME NEW a \in Nat, a <= w.start, Assigned(t, its, v, a), w.start <= w.end, w.end <= n,
             \A l \in a .. w.start - 1 : Char(t, l) = "quote",
             \A l \in w.end .. n - 1 : Char(t, l) = "quote"
      PROVE  Understood(t, <<[name |-> v, value |-> w]>> \o its, m)
  <2>1. PICK q \in 0 .. a - 1 : Named(t, its, v, q) /\ Char(t, q) = "=" /\ Blanks(t, q + 1, a)
    BY <1>3 DEF Assigned
  <2>2. q \in Nat /\ q < w.start /\ w.end <= m /\ (m < Len(t) => w.end < m)
    BY <1>1, <1>2, <1>3
  <2>3. ASSUME NEW l \in q + 1 .. w.start - 1 PROVE Char(t, l) \in Space \cup {"quote"}
    <3>1. l \in q + 1 .. a - 1 \/ l \in a .. w.start - 1
      BY <1>1, <2>2
    <3> QED
      BY <1>3, <2>1, <3>1 DEF Blanks
  <2>4. ASSUME NEW l \in w.end .. m - 1 PROVE Char(t, l) \in Space \cup Eol \cup {"quote"}
    <3>1. l \in w.end .. n - 1 \/ l \in n .. m - 1
      BY <1>1, <1>3
    <3> QED
      BY <1>3, <3>1
  <2> QED
    BY <1>1, <1>3, <2>1, <2>2, <2>3, <2>4, NewItem
<1>4. CASE n = w.end /\ Assigned(t, its, v, w.start)
  <2>1. w.start <= w.end /\ w.start <= w.start /\ w.end <= n
    BY <1>1, <1>4 DEF Valued
  <2>2. /\ \A l \in w.start .. w.start - 1 : Char(t, l) = "quote"
        /\ \A l \in w.end .. n - 1 : Char(t, l) = "quote"
    BY <1>1, <1>4
  <2> QED
    BY <1>1, <1>3, <1>4, <2>1, <2>2
<1>5. CASE /\ n = w.end + 1 /\ 0 < w.start /\ Assigned(t, its, v, w.start - 1)
           /\ Char(t, w.start - 1) = "quote" /\ Char(t, w.end) = "quote"
  <2> DEFINE a == w.start - 1
  <2>1. w.start <= w.end /\ a <= w.start /\ w.end <= n /\ a \in Nat
    BY <1>1, <1>5 DEF Valued
  <2>2. /\ \A l \in a .. w.start - 1 : Char(t, l) = "quote"
        /\ \A l \in w.end .. n - 1 : Char(t, l) = "quote"
    <3>1. \A l \in a .. w.start - 1 : l = a
      BY <1>1
    <3>2. \A l \in w.end .. n - 1 : l = w.end
      BY <1>1, <1>5
    <3> QED
      BY <1>5, <3>1, <3>2
  <2>3. Assigned(t, its, v, a)
    BY <1>5
  <2> HIDE DEF a
  <2> QED
    BY <1>3, <2>1, <2>2, <2>3
<1> QED
  BY <1>4, <1>5 DEF Valued

\* What a definition without a value looks like, from the end of its line.
LEMMA NoValueSeen ==
  ASSUME NEW t \in Seq(Chars), NEW its, NEW v, NEW w, NEW n \in Nat, NoValueAt(t, its, v, w, n)
  PROVE  \E k \in 1 .. Len(t), e \in 1 .. Len(t) :
             /\ t[k] = "=" /\ k < e /\ t[e] \in Eol
             /\ \A l \in k + 1 .. e - 1 : t[l] \in Space
<1>1. n < Len(t) /\ Char(t, n) \in Eol /\ Assigned(t, its, v, n) /\ Len(t) \in Nat
  BY DEF NoValueAt
<1>2. PICK q \in 0 .. n - 1 : Named(t, its, v, q) /\ Char(t, q) = "=" /\ Blanks(t, q + 1, n)
  BY <1>1 DEF Assigned
<1> DEFINE k == q + 1
           e == n + 1
<1>3. k \in 1 .. Len(t) /\ e \in 1 .. Len(t) /\ k < e
  BY <1>1
<1>4. t[k] = "=" /\ t[e] \in Eol
  BY <1>1, <1>2 DEF Char
<1>5. \A l \in k + 1 .. e - 1 : t[l] \in Space
  <2> SUFFICES ASSUME NEW l \in k + 1 .. e - 1 PROVE t[l] \in Space
    OBVIOUS
  <2> DEFINE j == l - 1
  <2>1. j \in q + 1 .. n - 1 /\ j + 1 = l
    OBVIOUS
  <2> HIDE DEF j
  <2>2. t[j + 1] \in Space
    BY <1>2, <2>1 DEF Blanks, Char
  <2> QED
    BY <2>1, <2>2
<1> HIDE DEF k, e
<1> QED
  BY <1>3, <1>4, <1>5

\* What NothingIgnored says of a definition without a value.
CrashedAtEol ==
    pc = "crashed" /\ reach <= Size =>
         \E k \in 1 .. Size, e \in 1 .. Size :
             /\ text[k] = "=" /\ k < e /\ text[e] \in Eol
             /\ \A l \in k + 1 .. e - 1 : text[l] \in Space

LEMMA CloseLineUnderstands ==
  ASSUME Reached, Understands, CloseLine PROVE Understands' /\ CrashedAtEol'
<1>0. PICK c \in At(bp) :
         IF c \in Eol THEN EolRead(c) /\ UNCHANGED status
         ELSE /\ Read(bp)
              /\ IF bp >= Size THEN UNCHANGED <<bp, status>>
                               ELSE bp' = Skip(bp, Inline) /\ Reject
  BY DEF CloseLine, AtEnd
<1>1. /\ pc = "close" /\ state' = "global" /\ value' = NoSpan /\ text' = text
      /\ status' => AddItem
      /\ ~status' => pc' = "top"
  BY DEF CloseLine
<1>2. /\ Size \in Nat /\ Size' = Size /\ Size = Len(text) /\ text \in Seq(Chars)
      /\ bp \in Nat /\ reach \in Nat /\ items \in Items /\ At(Size) = {NUL}
      /\ \A n \in 0 .. Size - 1 : At(n) = {Char(text, n)} /\ Char(text, n) \in Chars
      /\ status /\ reach <= Size => Reading
  BY <1>1, Still
<1>3. pc' \in {"top", "crashed"}
  BY <1>1 DEF AddItem
<1>4. CASE ~status'
  BY <1>1, <1>4 DEF Understands, CrashedAtEol
<1>5. CASE ~(reach' <= Size')
  BY <1>5 DEF Understands, CrashedAtEol
<1>6. CASE status' /\ reach' <= Size'
  <2>1. AddItem /\ status
    BY <1>0, <1>1, <1>6 DEF Reject
  <2>2. reach' \in Nat /\ reach' >= reach /\ reach' >= bp
    <3>1. CASE c \in Eol
      BY <1>0, <3>1, EolReadIs
    <3>2. CASE c \notin Eol
      BY <1>0, <1>2, <3>2, ReadIs
    <3> QED
      BY <3>1, <3>2
  <2>3. Reading /\ bp <= Size
    BY <1>2, <1>6, <2>1, <2>2
  <2>4. \/ /\ bp' \in Nat /\ bp' > bp /\ bp' <= Size /\ LineStart(text, bp')
           /\ \A l \in bp .. bp' - 1 : Char(text, l) \in Eol
        \/ bp' = bp /\ bp = Size
    <3>1. CASE c \in Eol
      <4>1. bp < Size /\ Char(text, bp) = c
        <5>1. bp # Size
          BY <1>2, <3>1, Kinds
        <5>2. bp < Size
          BY <1>2, <2>3, <5>1
        <5> QED
          BY <1>2, <5>2
      <4>2. /\ bp' \in Nat /\ bp' \in {bp + 1, bp + 2}
            /\ bp' = bp + 2 => bp + 1 # Size /\ (bp + 1 < Size => Char(text, bp + 1) \in Eol)
        BY <1>0, <3>1, EolReadIs
      <4>3. CASE bp' = bp + 1
        <5>1. \A l \in bp .. bp' - 1 : l = bp
          BY <1>2, <4>3
        <5> QED
          BY <1>2, <3>1, <4>1, <4>3, <5>1, NewLine
      <4>4. CASE bp' = bp + 2
        <5>1. bp + 1 < Size /\ Char(text, bp + 1) \in Eol
          BY <1>2, <4>1, <4>2, <4>4
        <5>2. LineStart(text, (bp + 1) + 1) /\ (bp + 1) + 1 = bp'
          BY <1>2, <4>4, <5>1, NewLine
        <5>3. \A l \in bp .. bp' - 1 : l = bp \/ l = bp + 1
          BY <1>2, <4>4
        <5> QED
          BY <1>2, <3>1, <4>1, <4>4, <5>1, <5>2, <5>3
      <4> QED
        BY <4>2, <4>3, <4>4
    <3>2. CASE c \notin Eol
      <4>1. status' = FALSE \/ (bp >= Size /\ bp' = bp)
        BY <1>0, <3>2 DEF Reject
      <4> QED
        BY <1>2, <1>6, <2>3, <4>1
    <3> QED
      BY <3>1, <3>2
  <2>5. NoValueAt(text, items, name, value, bp) \/ Valued(text, items, name, value, bp)
    BY <1>1, <2>3 DEF Reading
  <2>6. CASE value = NoSpan
    <3>1. pc' = "crashed"
      BY <2>1, <2>6 DEF AddItem
    <3>2. NoValueAt(text, items, name, value, bp)
      BY <2>5, <2>6 DEF Valued, NoSpan
    <3>3. \E k \in 1 .. Size, e \in 1 .. Size :
             /\ text[k] = "=" /\ k < e /\ text[e] \in Eol
             /\ \A l \in k + 1 .. e - 1 : text[l] \in Space
      BY <1>2, <3>2, NoValueSeen
    <3>4. CrashedAtEol'
      BY <1>1, <1>2, <3>3 DEF CrashedAtEol
    <3>5. Reading'
      BY <3>1 DEF Reading
    <3> QED
      BY <3>4, <3>5 DEF Understands
  <2>7. CASE value # NoSpan
    <3>1. pc' = "top" /\ items' = <<[name |-> name, value |-> value]>> \o items
      BY <2>1, <2>7 DEF AddItem
    <3>2. Valued(text, items, name, value, bp)
      BY <2>5, <2>7 DEF NoValueAt
    <3>3. value \in [start : Nat, end : Int]
      BY Numbers DEF Span, Overrun
    <3>4. /\ bp' \in Nat /\ bp <= bp' /\ bp' <= Len(text) /\ (bp = bp' => bp = Len(text))
          /\ \A l \in bp .. bp' - 1 : Char(text, l) \in Eol
          /\ bp' < Size => LineStart(text, bp')
      BY <1>2, <2>4
    <3>5. Understood(text, <<[name |-> name, value |-> value]>> \o items, bp')
      BY ONLY <1>2, <3>2, <3>3, <3>4, ValueAdded
    <3>6. Reading'
      BY <1>1, <1>2, <3>1, <3>4, <3>5 DEF Reading
    <3> QED
      BY <3>1, <3>6 DEF Understands, CrashedAtEol
  <2> QED
    BY <2>6, <2>7
<1> QED
  BY <1>4, <1>5, <1>6

\* The inductive invariant: where the cursor is, what the scanner has read up to
\* there, and where the process can have ended.
IInv == Reached /\ Understands /\ CrashedAtEol

LEMMA IInvAtFirst == Init => IInv
<1>1. Init => pc # "crashed"
  BY DEF Init
<1> QED
  BY <1>1, ReachedAtFirst, UnderstandsAtFirst DEF IInv, CrashedAtEol

LEMMA IInvByStep == IInv /\ [Next]_vars => IInv'
<1> SUFFICES ASSUME IInv, [Next]_vars PROVE IInv'
  OBVIOUS
<1>1. Reached /\ Understands /\ CrashedAtEol /\ Reached'
  BY ReachedByStep DEF IInv
<1> SUFFICES Understands' /\ CrashedAtEol'
  BY <1>1 DEF IInv
<1>2. ASSUME pc' # "crashed" PROVE CrashedAtEol'
  BY <1>2 DEF CrashedAtEol
<1>3. CASE Top
  <2>1. pc' # "crashed"
    BY <1>1, <1>3, Numbers DEF Top
  <2> QED
    BY <1>1, <1>2, <1>3, <2>1, TopUnderstands
<1>4. CASE SkipBlank
  <2>1. pc' # "crashed"
    BY <1>4 DEF SkipBlank
  <2> QED
    BY <1>1, <1>2, <1>4, <2>1, SkipBlankUnderstands
<1>5. CASE ReadName
  <2>1. pc' # "crashed"
    BY <1>5 DEF ReadName
  <2> QED
    BY <1>1, <1>2, <1>5, <2>1, ReadNameUnderstands
<1>6. CASE AssignSpace
  <2>1. pc' # "crashed"
    BY <1>6 DEF AssignSpace
  <2> QED
    BY <1>1, <1>2, <1>6, <2>1, AssignSpaceUnderstands
<1>7. CASE Assign
  <2>1. pc' # "crashed"
    BY <1>7 DEF Assign
  <2> QED
    BY <1>1, <1>2, <1>7, <2>1, AssignUnderstands
<1>8. CASE NoAssign \/ Unclosed
  <2>1. pc' # "crashed" /\ ~status'
    BY <1>8 DEF NoAssign, Unclosed, Reject
  <2> QED
    BY <1>2, <2>1 DEF Understands
<1>9. CASE ValueSpace
  <2>1. pc' # "crashed"
    BY <1>9 DEF ValueSpace
  <2> QED
    BY <1>1, <1>2, <1>9, <2>1, ValueSpaceUnderstands
<1>10. CASE NoValue
  <2>1. pc' # "crashed"
    BY <1>10 DEF NoValue
  <2> QED
    BY <1>1, <1>2, <1>10, <2>1, NoValueUnderstands
<1>11. CASE OpenQuote
  <2>1. pc' # "crashed"
    BY <1>11 DEF OpenQuote
  <2> QED
    BY <1>1, <1>2, <1>11, <2>1, OpenQuoteUnderstands
<1>12. CASE Quoted
  <2>1. pc' # "crashed"
    BY <1>12 DEF Quoted
  <2> QED
    BY <1>1, <1>2, <1>12, <2>1, QuotedUnderstands
<1>13. CASE CloseQuote
  <2>1. pc' # "crashed"
    BY <1>13 DEF CloseQuote
  <2> QED
    BY <1>1, <1>2, <1>13, <2>1, CloseQuoteUnderstands
<1>14. CASE ReadValue
  <2>1. pc' # "crashed"
    BY <1>14 DEF ReadValue
  <2> QED
    BY <1>1, <1>2, <1>14, <2>1, ReadValueUnderstands
<1>15. CASE CloseLine
  BY <1>1, <1>15, CloseLineUnderstands
<1>16. CASE Finish
  <2>1. pc' # "crashed"
    BY <1>16 DEF Finish
  <2> QED
    BY <1>1, <1>2, <1>16, <2>1, FinishUnderstands
<1>17. CASE UNCHANGED vars
  <2>1. UNCHANGED <<text, pc, state, status, bp, name, value, items, reach>>
    BY <1>17 DEF vars, values
  <2>2. Size' = Size
    BY <2>1 DEF Size
  <2> QED
    BY <1>1, <2>1, <2>2 DEF Understands, Reading, CrashedAtEol
<1> QED
  BY <1>3, <1>4, <1>5, <1>6, <1>7, <1>8, <1>9, <1>10, <1>11, <1>12, <1>13, <1>14, <1>15,
     <1>16, <1>17 DEF Next

\* Of every text that the scanner accepts it has understood each character: what
\* is in no name, value or comment is a space, the end of a line, a quote or the
\* one '=' of an item, and the process ends only at a definition without a value.
THEOREM NothingIsIgnored == Spec => []NothingIgnored
<1>1. IInv => NothingIgnored
  <2> SUFFICES ASSUME IInv PROVE NothingIgnored
    OBVIOUS
  <2>1. \A l : InComment(l) <=> Commented(text, l)
    BY DEF InComment, Commented, LineStart, Char
  <2>2. {l \in 0 .. Size - 1 :
           (\A k \in DOMAIN items : ~In(l, items[k].name) /\ ~In(l, items[k].value))
           /\ ~InComment(l)} = Glued(text, items, Size)
    BY <2>1 DEF Glued
  <2>3. ASSUME pc = "done", status, reach <= Size
        PROVE  Understood(text, items, Size)
    BY <2>3 DEF IInv, Understands, Reading
  <2>4. ASSUME pc = "done", status, reach <= Size
        PROVE  /\ \A l \in Glued(text, items, Size) : text[l + 1] \in Space \cup Eol \cup {"=", "quote"}
               /\ Cardinality({l \in Glued(text, items, Size) : text[l + 1] = "="}) = Len(items)
               /\ \A k \in DOMAIN items :
                    /\ items[k].name.start < items[k].name.end
                    /\ items[k].name.end < items[k].value.start
                    /\ items[k].value.start <= items[k].value.end /\ items[k].value.end <= Size
                    /\ k > 1 => items[k].value.end < items[k - 1].name.start
    BY <2>3, <2>4 DEF Understood, Assignments, InOrder, Char
  <2>5. CrashedAtEol
    BY DEF IInv
  <2> QED
    BY <2>2, <2>4, <2>5 DEF NothingIgnored, CrashedAtEol
<1> QED
  BY <1>1, IInvAtFirst, IInvByStep, PTL DEF Spec

-----------------------------------------------------------------------------
(* Where a document's lines are in its text *)

\* The text was written from the document.
WrittenFrom(d, t) == d \in Documents /\ t = FlattenSeq([k \in DOMAIN d |-> Written(d[k])])

\* The lengths of a document's lines, and where line k begins.
Lengths(d)  == [k \in DOMAIN d |-> Len(Written(d[k]))]
Start(d, k) == Sums(Lengths(d))[k - 1]

\* The places in line k, which is a definition but for NameAt and EolAt.
NameAt(d, k)   == Start(d, k) + d[k].indent
NameEnd(d, k)  == NameAt(d, k) + Len(d[k].name)
EqualsAt(d, k) == NameEnd(d, k) + d[k].left
QuoteAt(d, k)  == EqualsAt(d, k) + 1 + d[k].right
ValueAt(d, k)  == QuoteAt(d, k) + Len(Quote(d[k]))
ValueEnd(d, k) == ValueAt(d, k) + Len(d[k].value)
EolAt(d, k)    == Start(d, k + 1) - Len(d[k].eol)

\* A part of the text from place n on.
Stands(t, n, x) ==
    n \in Nat /\ n + Len(x) <= Len(t) /\ \A i \in 1 .. Len(x) : t[n + i] = x[i]

\* Its parts stand one behind the other.
LEMMA StandsApart ==
  ASSUME NEW t, NEW n \in Nat, NEW S, NEW x \in Seq(S), NEW y \in Seq(S), Stands(t, n, x \o y),
         Len(t) \in Nat
  PROVE  Stands(t, n, x) /\ Stands(t, n + Len(x), y)
<1> DEFINE z == x \o y
<1>1. /\ Len(z) = Len(x) + Len(y) /\ Len(x) \in Nat /\ Len(y) \in Nat
      /\ \A i \in 1 .. Len(x) : z[i] = x[i]
      /\ \A i \in 1 .. Len(y) : z[Len(x) + i] = y[i]
  BY Concat
<1>2. n + Len(z) <= Len(t) /\ \A i \in 1 .. Len(z) : t[n + i] = z[i]
  BY DEF Stands
<1> HIDE DEF z
<1>3. ASSUME NEW i \in 1 .. Len(x) PROVE t[n + i] = x[i]
  <2>1. i \in 1 .. Len(z)
    BY <1>1
  <2> QED
    BY <1>1, <1>2, <2>1
<1>4. ASSUME NEW i \in 1 .. Len(y) PROVE t[n + Len(x) + i] = y[i]
  <2>1. Len(x) + i \in 1 .. Len(z) /\ n + Len(x) + i = n + (Len(x) + i)
    BY <1>1
  <2> QED
    BY <1>1, <1>2, <2>1
<1>5. n + Len(x) \in Nat /\ n + Len(x) <= Len(t) /\ n + Len(x) + Len(y) <= Len(t)
  BY <1>1, <1>2
<1> QED
  BY <1>3, <1>4, <1>5 DEF Stands

\* What stands somewhere is there.
LEMMA StandsIs ==
  ASSUME NEW t \in Seq(Chars), NEW n, NEW x \in Seq(Chars), Stands(t, n, x)
  PROVE  /\ n \in Nat /\ Len(x) \in Nat /\ Len(t) \in Nat /\ n + Len(x) <= Len(t)
         /\ \A l \in n .. n + Len(x) - 1 : l - n + 1 \in 1 .. Len(x) /\ Char(t, l) = x[l - n + 1]
         /\ SubSeq(t, n + 1, n + Len(x)) = x
<1>1. /\ n \in Nat /\ Len(x) \in Nat /\ Len(t) \in Nat /\ n + Len(x) <= Len(t)
      /\ \A i \in 1 .. Len(x) : t[n + i] = x[i]
  BY DEF Stands
<1>2. ASSUME NEW l \in n .. n + Len(x) - 1
      PROVE  l - n + 1 \in 1 .. Len(x) /\ Char(t, l) = x[l - n + 1]
  <2>1. l - n + 1 \in 1 .. Len(x) /\ n + (l - n + 1) = l + 1
    BY <1>1
  <2> QED
    BY <1>1, <2>1 DEF Char
<1> DEFINE s == SubSeq(t, n + 1, n + Len(x))
<1>3. Len(s) = Len(x) /\ s \in Seq(Chars) /\ \A i \in 1 .. Len(x) : s[i] = t[n + i]
  BY <1>1
<1> HIDE DEF s
<1>4. s = x
  BY <1>1, <1>3
<1> QED
  BY <1>1, <1>2, <1>4 DEF s

\* The lines stand one behind the other.
LEMMA Layout ==
  ASSUME NEW d, NEW t, WrittenFrom(d, t)
  PROVE  /\ t \in Seq(Chars) /\ d \in Seq(Line) /\ Legible(d)
         /\ Len(t) \in Nat /\ Len(d) \in Nat
         /\ Start(d, 1) = 0 /\ Start(d, Len(d) + 1) = Len(t)
         /\ \A k \in 1 .. Len(d) :
              /\ d[k] \in Line /\ Written(d[k]) \in Seq(Chars)
              /\ Start(d, k) \in Nat /\ Start(d, k + 1) \in Nat
              /\ Start(d, k + 1) = Start(d, k) + Len(Written(d[k]))
              /\ Stands(t, Start(d, k), Written(d[k]))
<1>1. d \in Seq(Line) /\ Legible(d)
  BY DocumentsAssumption DEF WrittenFrom
<1> DEFINE s == [k \in DOMAIN d |-> Written(d[k])]
           c == Lengths(d)
<1>2. Len(d) \in Nat /\ DOMAIN d = 1 .. Len(d) /\ \A k \in 1 .. Len(d) : d[k] \in Line
  BY <1>1
<1>3. \A k \in 1 .. Len(d) : Written(d[k]) \in Seq(Chars) /\ Len(Written(d[k])) \in Nat
  BY <1>2, WrittenType
<1>4. s \in Seq(Seq(Chars)) /\ Len(s) = Len(d) /\ \A k \in 1 .. Len(d) : s[k] = Written(d[k])
  BY <1>2, <1>3
<1>5. c \in Seq(Nat) /\ Len(c) = Len(d) /\ \A k \in 1 .. Len(d) : c[k] = Len(Written(d[k]))
  BY <1>2, <1>3 DEF Lengths
<1>6. t = FlattenSeq(s)
  BY DEF WrittenFrom
<1> HIDE DEF s, c
<1>7. t \in Seq(Chars) /\ Len(t) \in Nat
  BY <1>4, <1>6, FlattenType
<1>8. \A k \in 1 .. Len(s) : c[k] = Len(s[k])
  BY <1>4, <1>5
<1>9. /\ Len(t) = Sums(c)[Len(s)]
      /\ \A k \in 1 .. Len(s) : \A n \in 1 .. Len(s[k]) : t[Sums(c)[k - 1] + n] = s[k][n]
  BY <1>4, <1>5, <1>6, <1>8, FlattenPlaces
<1>10. /\ Sums(c) \in [0 .. Len(d) -> Nat] /\ Sums(c)[0] = 0
       /\ \A k \in 1 .. Len(d) : Sums(c)[k] = Sums(c)[k - 1] + c[k]
  BY <1>5, SumsAre
<1>11. \A k : Start(d, k) = Sums(c)[k - 1]
  BY DEF Start, c
<1>12. Start(d, 1) = 0 /\ Start(d, Len(d) + 1) = Len(t)
  <2>1. 1 - 1 = 0 /\ (Len(d) + 1) - 1 = Len(d)
    BY <1>2
  <2>2. Start(d, 1) = Sums(c)[0] /\ Start(d, Len(d) + 1) = Sums(c)[Len(d)]
    BY <1>11, <2>1
  <2> QED
    BY <1>4, <1>9, <1>10, <2>2
<1>13. ASSUME NEW k \in 1 .. Len(d)
       PROVE  /\ Start(d, k) \in Nat /\ Start(d, k + 1) \in Nat
              /\ Start(d, k + 1) = Start(d, k) + Len(Written(d[k]))
              /\ Stands(t, Start(d, k), Written(d[k]))
  <2>1. k - 1 \in 0 .. Len(d) /\ k \in 0 .. Len(d) /\ (k + 1) - 1 = k /\ Len(d) \in 0 .. Len(d)
    BY <1>2
  <2>2. /\ Start(d, k) = Sums(c)[k - 1] /\ Start(d, k + 1) = Sums(c)[k]
        /\ Start(d, k) \in Nat /\ Start(d, k + 1) \in Nat
    BY <1>10, <1>11, <2>1
  <2>3. Start(d, k + 1) = Start(d, k) + Len(Written(d[k]))
    BY <1>5, <1>10, <2>2
  <2>4. Sums(c)[k] <= Sums(c)[Len(d)]
    BY <1>2, <1>5, <2>1, SumsGrow
  <2>5. Start(d, k) + Len(Written(d[k])) <= Len(t)
    <3>1. Len(t) = Sums(c)[Len(d)] /\ Start(d, k + 1) = Sums(c)[k]
      BY <1>4, <1>9, <2>2
    <3> QED
      BY ONLY <2>3, <2>4, <3>1
  <2>6. \A n \in 1 .. Len(Written(d[k])) : t[Start(d, k) + n] = Written(d[k])[n]
    <3>1. k \in 1 .. Len(s) /\ s[k] = Written(d[k]) /\ Start(d, k) = Sums(c)[k - 1]
      BY <1>4, <2>2
    <3> QED
      BY ONLY <1>9, <3>1
  <2> QED
    BY <2>2, <2>3, <2>5, <2>6 DEF Stands
<1> QED
  BY <1>1, <1>2, <1>3, <1>7, <1>12, <1>13

\* The spaces a line begins with, and the spaces around its '='.
LEMMA SpacesAre ==
  ASSUME NEW n \in Nat
  PROVE  Spaces(n) \in Seq(Chars) /\ Len(Spaces(n)) = n /\ \A i \in 1 .. n : Spaces(n)[i] \in Space
  BY DEF Spaces, Chars, Space

\* How a line can end.
LEMMA EolsAre ==
  ASSUME NEW l \in Line
  PROVE  /\ l.eol \in Seq(Chars)
         /\ \/ l.eol = <<>> /\ Len(l.eol) = 0
            \/ l.eol = <<"LF">> /\ Len(l.eol) = 1 /\ l.eol[1] = "LF"
            \/ l.eol = <<"CR">> /\ Len(l.eol) = 1 /\ l.eol[1] = "CR"
            \/ l.eol = <<"CR", "LF">> /\ Len(l.eol) = 2 /\ l.eol[1] = "CR" /\ l.eol[2] = "LF"
<1>1. "LF" \in Chars /\ "CR" \in Chars
  BY DEF Chars, Eol
<1>2. l.eol \in {<<"LF">>, <<"CR">>, <<"CR", "LF">>, <<>>}
  BY DEF Line
<1> HIDE DEF Chars
<1>3. <<>> \in Seq(Chars)
  OBVIOUS
<1>4. l.eol \in Seq(Chars)
  BY <1>1, <1>2, <1>3, Singleton, Pair
<1>5. /\ Len(<<>>) = 0
      /\ Len(<<"LF">>) = 1 /\ <<"LF">>[1] = "LF" /\ Len(<<"CR">>) = 1 /\ <<"CR">>[1] = "CR"
      /\ Len(<<"CR", "LF">>) = 2 /\ <<"CR", "LF">>[1] = "CR" /\ <<"CR", "LF">>[2] = "LF"
  OBVIOUS
<1>6. l.eol = <<>> \/ l.eol = <<"LF">> \/ l.eol = <<"CR">> \/ l.eol = <<"CR", "LF">>
  BY <1>2
<1> QED
  BY <1>4, <1>5, <1>6, Zenon

\* What is between the spaces a line begins with and its end.
Content(l) == CASE l.kind = "blank"   -> <<>>
                [] l.kind = "comment" -> <<"#">> \o l.value
                [] OTHER -> l.name \o Spaces(l.left) \o <<"=">> \o Spaces(l.right)
                            \o Quote(l) \o l.value \o Quote(l)

\* A line is its spaces, its content and its end.
LEMMA ContentIs ==
  ASSUME NEW l \in Line
  PROVE  /\ Written(l) = Spaces(l.indent) \o Content(l) \o l.eol
         /\ Content(l) \in Seq(Chars)
         /\ Quote(l) \in Seq(Chars) /\ l.name \in Seq(Chars) /\ l.value \in Seq(Chars)
         /\ <<"#">> \in Seq(Chars) /\ <<"=">> \in Seq(Chars)
         /\ l.indent \in Nat /\ l.left \in Nat /\ l.right \in Nat
         /\ l.kind \in {"blank", "comment", "definition"} /\ l.quoted \in BOOLEAN
<1>1. /\ l.indent \in Nat /\ l.left \in Nat /\ l.right \in Nat
      /\ l.name \in Seq(Chars) /\ l.value \in Seq(Chars)
      /\ l.kind \in {"blank", "comment", "definition"} /\ l.quoted \in BOOLEAN
  BY DEF Line
<1>2. /\ Spaces(l.indent) \in Seq(Chars) /\ Spaces(l.left) \in Seq(Chars)
      /\ Spaces(l.right) \in Seq(Chars)
  BY <1>1, SpacesAre
<1>3. "#" \in Chars /\ "=" \in Chars /\ "quote" \in Chars
  BY DEF Chars
<1> HIDE DEF Chars, Spaces
<1>4. /\ <<"#">> \in Seq(Chars) /\ <<"=">> \in Seq(Chars) /\ <<>> \in Seq(Chars)
      /\ Quote(l) \in Seq(Chars)
  <2>1. <<>> \in Seq(Chars)
    OBVIOUS
  <2> QED
    BY <1>3, <2>1, Singleton DEF Quote
<1> HIDE DEF Quote
<1>5. Content(l) \in Seq(Chars)
  <2>1. CASE l.kind = "blank"
    BY <1>4, <2>1 DEF Content
  <2>2. CASE l.kind = "comment"
    <3>1. Content(l) = <<"#">> \o l.value
      BY <2>2 DEF Content
    <3> QED
      BY <1>1, <1>4, <3>1
  <2>3. CASE l.kind = "definition"
    <3>1. Content(l) = l.name \o Spaces(l.left) \o <<"=">> \o Spaces(l.right)
                       \o Quote(l) \o l.value \o Quote(l)
      BY <2>3 DEF Content
    <3> QED
      BY <1>1, <1>2, <1>4, <3>1
  <2> QED
    BY <1>1, <2>1, <2>2, <2>3
<1>6. Written(l) = Spaces(l.indent) \o Content(l) \o l.eol
  BY DEF Written, Content, Quote
<1> QED
  BY <1>1, <1>4, <1>5, <1>6

\* Where a line's content and its end stand.
LEMMA ContentStands ==
  ASSUME NEW d, NEW t, WrittenFrom(d, t), NEW k \in 1 .. Len(d)
  PROVE  /\ Start(d, k) \in Nat /\ NameAt(d, k) \in Nat /\ EolAt(d, k) \in Nat
         /\ Start(d, k) <= NameAt(d, k) /\ NameAt(d, k) <= EolAt(d, k)
         /\ \A l \in Start(d, k) .. NameAt(d, k) - 1 : Char(t, l) \in Space
         /\ Stands(t, NameAt(d, k), Content(d[k]))
         /\ EolAt(d, k) = NameAt(d, k) + Len(Content(d[k]))
         /\ Stands(t, EolAt(d, k), d[k].eol)
         /\ Start(d, k + 1) = EolAt(d, k) + Len(d[k].eol) /\ Start(d, k + 1) <= Len(t)
         /\ Start(d, k + 1) \in Nat
<1> DEFINE l == d[k]
           n == Start(d, k)
           s == Spaces(l.indent)
           c == Content(l)
           e == l.eol
<1>1. /\ l \in Line /\ n \in Nat /\ Start(d, k + 1) = n + Len(Written(l))
      /\ Stands(t, n, Written(l)) /\ Len(t) \in Nat /\ t \in Seq(Chars)
  BY Layout
<1>2. /\ Written(l) = s \o c \o e /\ c \in Seq(Chars) /\ l.indent \in Nat /\ e \in Seq(Chars)
  BY <1>1, ContentIs, EolsAre
<1>3. s \in Seq(Chars) /\ Len(s) = l.indent /\ \A i \in 1 .. l.indent : s[i] \in Space
  BY <1>2, SpacesAre
<1>4. NameAt(d, k) = n + l.indent /\ EolAt(d, k) = Start(d, k + 1) - Len(e)
  BY DEF NameAt, EolAt
<1> HIDE DEF l, n, s, c, e
<1> DEFINE h == s \o c
<1>5. /\ h \in Seq(Chars) /\ Len(h) = Len(s) + Len(c) /\ Len(s) \in Nat /\ Len(c) \in Nat
  BY <1>2, <1>3, Concat
<1>6. Written(l) = h \o e /\ Len(h \o e) = Len(h) + Len(e) /\ Len(e) \in Nat
  <2>1. Written(l) = h \o e
    BY <1>2
  <2> HIDE DEF h
  <2> QED
    BY <1>2, <1>5, <2>1, Concat
<1>7. Stands(t, n, h) /\ Stands(t, n + Len(h), e)
  <2> HIDE DEF h
  <2> QED
    BY <1>1, <1>2, <1>5, <1>6, StandsApart
<1>8. Stands(t, n, s) /\ Stands(t, n + Len(s), c)
  BY <1>1, <1>2, <1>3, <1>7, StandsApart
<1> HIDE DEF h
<1>9. NameAt(d, k) = n + Len(s) /\ EolAt(d, k) = n + Len(h) /\ n + Len(h) = (n + Len(s)) + Len(c)
  <2>1. Start(d, k + 1) = n + (Len(h) + Len(e))
    BY <1>1, <1>6
  <2>2. Len(h) \in Nat /\ Len(h) = Len(s) + Len(c)
    BY <1>5
  <2>3. n \in Nat /\ Len(e) \in Nat /\ Len(s) \in Nat /\ Len(c) \in Nat
    BY <1>1, <1>5, <1>6
  <2>4. NameAt(d, k) = n + Len(s) /\ EolAt(d, k) = (n + (Len(h) + Len(e))) - Len(e)
    BY <1>3, <1>4, <2>1
  <2> HIDE DEF h
  <2> QED
    BY <2>2, <2>3, <2>4
<1>10. ASSUME NEW m \in n .. n + Len(s) - 1 PROVE Char(t, m) \in Space
  <2>1. m - n + 1 \in 1 .. Len(s) /\ Char(t, m) = s[m - n + 1]
    BY <1>1, <1>3, <1>8, StandsIs
  <2> QED
    BY <1>3, <2>1
<1>11. Stands(t, NameAt(d, k), c) /\ Stands(t, EolAt(d, k), e)
  BY <1>7, <1>8, <1>9
<1>12. /\ NameAt(d, k) \in Nat /\ EolAt(d, k) \in Nat
       /\ n <= NameAt(d, k) /\ NameAt(d, k) <= EolAt(d, k)
       /\ EolAt(d, k) = NameAt(d, k) + Len(c)
  BY <1>1, <1>5, <1>9
<1>13. Start(d, k + 1) = EolAt(d, k) + Len(e) /\ Start(d, k + 1) \in Nat
  BY <1>1, <1>5, <1>6, <1>9
<1>14. EolAt(d, k) + Len(e) <= Len(t)
  BY <1>11 DEF Stands
<1>15. ASSUME NEW m \in n .. NameAt(d, k) - 1 PROVE Char(t, m) \in Space
  <2>1. m \in n .. n + Len(s) - 1
    BY <1>1, <1>5, <1>9
  <2> QED
    BY <1>10, <2>1
<1> QED
  BY <1>1, <1>11, <1>12, <1>13, <1>14, <1>15 DEF l, n, c, e

\* The end of a line, which the last may lack.
LEMMA EolPlace ==
  ASSUME NEW d, NEW t, WrittenFrom(d, t), NEW k \in 1 .. Len(d)
  PROVE  /\ d[k].eol = <<>> => k = Len(d) /\ EolAt(d, k) = Len(t) /\ Start(d, k + 1) = Len(t)
         /\ d[k].eol # <<>> => EolAt(d, k) < Len(t) /\ Char(t, EolAt(d, k)) \in Eol
         /\ d[k].eol = <<"LF">> =>
              Char(t, EolAt(d, k)) = "LF" /\ Start(d, k + 1) = EolAt(d, k) + 1
         /\ d[k].eol = <<"CR">> =>
              Char(t, EolAt(d, k)) = "CR" /\ Start(d, k + 1) = EolAt(d, k) + 1
         /\ d[k].eol = <<"CR", "LF">> =>
              /\ Char(t, EolAt(d, k)) = "CR" /\ Char(t, EolAt(d, k) + 1) = "LF"
              /\ Start(d, k + 1) = EolAt(d, k) + 2
         /\ d[k].eol = <<>> \/ d[k].eol = <<"LF">> \/ d[k].eol = <<"CR">> \/ d[k].eol = <<"CR", "LF">>
<1> DEFINE n == EolAt(d, k)
           e == d[k].eol
<1>1. /\ n \in Nat /\ Stands(t, n, e) /\ Start(d, k + 1) = n + Len(e)
      /\ t \in Seq(Chars) /\ Len(t) \in Nat /\ Len(d) \in Nat /\ Legible(d)
      /\ d[k] \in Line /\ Start(d, Len(d) + 1) = Len(t)
  BY Layout, ContentStands
<1>2. /\ e \in Seq(Chars)
      /\ \/ e = <<>> /\ Len(e) = 0
         \/ e = <<"LF">> /\ Len(e) = 1 /\ e[1] = "LF"
         \/ e = <<"CR">> /\ Len(e) = 1 /\ e[1] = "CR"
         \/ e = <<"CR", "LF">> /\ Len(e) = 2 /\ e[1] = "CR" /\ e[2] = "LF"
  BY <1>1, EolsAre
<1>3. e = <<>> => k = Len(d)
  BY <1>1 DEF Legible
<1> HIDE DEF n, e
<1>4. n + Len(e) <= Len(t) /\ \A i \in 1 .. Len(e) : t[n + i] = e[i]
  BY <1>1 DEF Stands
<1>5. "CR" \in Eol /\ "LF" \in Eol
  BY DEF Eol
<1>6. CASE e = <<>> /\ Len(e) = 0
  <2>1. Start(d, k + 1) = Len(t)
    BY <1>1, <1>3, <1>6
  <2>2. e # <<"LF">> /\ e # <<"CR">> /\ e # <<"CR", "LF">>
    BY <1>6
  <2>3. n = Len(t)
    BY <1>1, <1>6, <2>1
  <2> QED
    BY <1>3, <1>6, <2>1, <2>2, <2>3 DEF n, e
<1>7. ASSUME NEW c \in Eol, e = <<c>>, Len(e) = 1, e[1] = c
      PROVE  /\ Char(t, n) = c /\ Start(d, k + 1) = n + 1 /\ n < Len(t)
             /\ e # <<>> /\ e # <<"CR", "LF">> /\ \A x : e = <<x>> => x = c
  <2>1. t[n + 1] = e[1] /\ n + 1 <= Len(t)
    BY <1>4, <1>7
  <2>2. Char(t, n) = c /\ Start(d, k + 1) = n + 1 /\ n < Len(t)
    BY <1>1, <1>7, <2>1 DEF Char
  <2>3. e # <<>> /\ e # <<"CR", "LF">> /\ \A x : e = <<x>> => x = c
    BY <1>7
  <2> QED
    BY <2>2, <2>3
<1>8. CASE e = <<"LF">> /\ Len(e) = 1 /\ e[1] = "LF"
  BY <1>5, <1>7, <1>8 DEF n, e
<1>9. CASE e = <<"CR">> /\ Len(e) = 1 /\ e[1] = "CR"
  BY <1>5, <1>7, <1>9 DEF n, e
<1>10. CASE e = <<"CR", "LF">> /\ Len(e) = 2 /\ e[1] = "CR" /\ e[2] = "LF"
  <2>1. t[n + 1] = e[1] /\ t[n + 2] = e[2] /\ n + 2 <= Len(t) /\ (n + 1) + 1 = n + 2
    BY <1>1, <1>4, <1>10
  <2>2. Char(t, n) = "CR" /\ Char(t, n + 1) = "LF" /\ Start(d, k + 1) = n + 2 /\ n < Len(t)
    BY <1>1, <1>10, <2>1 DEF Char
  <2>3. e # <<>> /\ e # <<"CR">> /\ e # <<"LF">>
    BY <1>10
  <2> QED
    BY <1>5, <1>10, <2>2, <2>3 DEF n, e
<1> QED
  BY <1>2, <1>6, <1>8, <1>9, <1>10

\* A blank line ends where its content would begin.
LEMMA BlankPlaces ==
  ASSUME NEW d, NEW t, WrittenFrom(d, t), NEW k \in 1 .. Len(d), d[k].kind = "blank"
  PROVE  EolAt(d, k) = NameAt(d, k)
<1>1. Content(d[k]) = <<>> /\ Len(<<>>) = 0
  BY DEF Content
<1>2. EolAt(d, k) = NameAt(d, k) + Len(Content(d[k])) /\ NameAt(d, k) \in Nat
  BY ContentStands
<1> QED
  BY <1>1, <1>2

\* A comment begins with a '#', and has an end.
LEMMA CommentPlaces ==
  ASSUME NEW d, NEW t, WrittenFrom(d, t), NEW k \in 1 .. Len(d), d[k].kind = "comment"
  PROVE  /\ NameAt(d, k) < EolAt(d, k) /\ EolAt(d, k) < Len(t) /\ Char(t, EolAt(d, k)) \in Eol
         /\ Char(t, NameAt(d, k)) = "#"
         /\ \A l \in NameAt(d, k) .. EolAt(d, k) - 1 : Char(t, l) \in Chars \ Eol
<1> DEFINE c == Content(d[k])
           v == d[k].value
           n == NameAt(d, k)
<1>1. /\ n \in Nat /\ Stands(t, n, c) /\ EolAt(d, k) = n + Len(c)
      /\ t \in Seq(Chars) /\ Len(t) \in Nat /\ Legible(d) /\ d[k] \in Line /\ d \in Seq(Line)
  BY Layout, ContentStands
<1>2. c = <<"#">> \o v
  BY DEF Content
<1>3. /\ c \in Seq(Chars) /\ v \in Seq(Chars) /\ <<"#">> \in Seq(Chars)
  BY <1>1, ContentIs
<1>4. d[k].eol # <<>> /\ \A i \in DOMAIN v : v[i] \notin Eol
  BY <1>1 DEF Legible
<1>5. EolAt(d, k) < Len(t) /\ Char(t, EolAt(d, k)) \in Eol
  BY <1>4, EolPlace
<1> HIDE DEF c, v, n
<1>6. Len(<<"#">>) = 1 /\ <<"#">>[1] = "#"
  OBVIOUS
<1> DEFINE a == <<"#">>
<1>7. a \in Seq(Chars) /\ Len(a) = 1 /\ a[1] = "#" /\ c = a \o v
  BY <1>2, <1>3, <1>6
<1> HIDE DEF a
<1>8. /\ Len(c) = 1 + Len(v) /\ Len(v) \in Nat
      /\ \A i \in 1 .. Len(v) : c[1 + i] = v[i]
  <2>1. /\ Len(a \o v) = Len(a) + Len(v) /\ Len(v) \in Nat
        /\ \A i \in 1 .. Len(v) : (a \o v)[Len(a) + i] = v[i]
    <3>1. a \in Seq(Chars) /\ v \in Seq(Chars)
      BY <1>3, <1>7
    <3> QED
      BY ONLY <3>1, Concat
  <2> QED
    BY <1>7, <2>1
<1>9. c[1] = "#"
  BY <1>3, <1>7, Concat
<1>10. \A i \in 1 .. Len(c) : c[i] \in Chars \ Eol
  <2> SUFFICES ASSUME NEW i \in 1 .. Len(c) PROVE c[i] \in Chars \ Eol
    OBVIOUS
  <2>1. c[i] \in Chars
    BY <1>3
  <2>2. c[i] \notin Eol
    <3>1. CASE i = 1
      BY <1>9, <3>1, Kinds
    <3>2. CASE i # 1
      <4>1. i - 1 \in 1 .. Len(v) /\ 1 + (i - 1) = i
        BY <1>8, <3>2
      <4>2. i - 1 \in DOMAIN v
        BY <1>3, <4>1
      <4> QED
        BY <1>4, <1>8, <4>1, <4>2
    <3> QED
      BY <3>1, <3>2
  <2> QED
    BY <2>1, <2>2
<1>11. \A l \in n .. n + Len(c) - 1 : l - n + 1 \in 1 .. Len(c) /\ Char(t, l) = c[l - n + 1]
  BY <1>1, <1>3, StandsIs
<1>12. Char(t, n) = "#"
  <2>1. n \in n .. n + Len(c) - 1 /\ n - n + 1 = 1
    BY <1>1, <1>8
  <2> QED
    BY <1>9, <1>11, <2>1
<1>13. n < EolAt(d, k)
  BY <1>1, <1>8
<1>14. ASSUME NEW l \in n .. EolAt(d, k) - 1 PROVE Char(t, l) \in Chars \ Eol
  <2>1. l \in n .. n + Len(c) - 1
    BY <1>1
  <2> QED
    BY <1>10, <1>11, <2>1
<1> QED
  BY <1>5, <1>12, <1>13, <1>14 DEF n

\* Where the parts of a definition stand.
LEMMA PartsStand ==
  ASSUME NEW d, NEW t, WrittenFrom(d, t), NEW k \in 1 .. Len(d), d[k].kind = "definition"
  PROVE  /\ Stands(t, NameAt(d, k), d[k].name)
         /\ Stands(t, NameEnd(d, k), Spaces(d[k].left))
         /\ Stands(t, EqualsAt(d, k), <<"=">>)
         /\ Stands(t, EqualsAt(d, k) + 1, Spaces(d[k].right))
         /\ Stands(t, QuoteAt(d, k), Quote(d[k]))
         /\ Stands(t, ValueAt(d, k), d[k].value)
         /\ Stands(t, ValueEnd(d, k), Quote(d[k]))
         /\ EolAt(d, k) = ValueEnd(d, k) + Len(Quote(d[k]))
<1> DEFINE l == d[k]
           n == NameAt(d, k)
           c == Content(l)
           a == l.name
           b == Spaces(l.left)
           e == <<"=">>
           f == Spaces(l.right)
           q == Quote(l)
           v == l.value
<1>1. /\ n \in Nat /\ Stands(t, n, c) /\ EolAt(d, k) = n + Len(c) /\ l \in Line
      /\ Len(t) \in Nat
  BY Layout, ContentStands
<1>2. /\ a \in Seq(Chars) /\ e \in Seq(Chars) /\ q \in Seq(Chars) /\ v \in Seq(Chars)
      /\ l.left \in Nat /\ l.right \in Nat
  BY <1>1, ContentIs
<1>3. /\ b \in Seq(Chars) /\ f \in Seq(Chars) /\ Len(b) = l.left /\ Len(f) = l.right
      /\ Len(e) = 1
  BY <1>2, SpacesAre
<1>4. c = a \o b \o e \o f \o q \o v \o q
  BY DEF Content
<1>5. /\ NameEnd(d, k) = n + Len(a) /\ EqualsAt(d, k) = NameEnd(d, k) + Len(b)
      /\ QuoteAt(d, k) = EqualsAt(d, k) + 1 + Len(f) /\ ValueAt(d, k) = QuoteAt(d, k) + Len(q)
      /\ ValueEnd(d, k) = ValueAt(d, k) + Len(v)
  BY <1>3 DEF NameEnd, EqualsAt, QuoteAt, ValueAt, ValueEnd
<1> HIDE DEF l, n, c, a, b, e, f, q, v
<1> DEFINE c1 == a \o b
           c2 == c1 \o e
           c3 == c2 \o f
           c4 == c3 \o q
           c5 == c4 \o v
<1>6. c = c5 \o q
  BY <1>4
<1>7. c1 \in Seq(Chars) /\ Len(c1) = Len(a) + Len(b) /\ Len(a) \in Nat /\ Len(b) \in Nat
  BY <1>2, <1>3, Concat
<1> HIDE DEF c1
<1>8. c2 \in Seq(Chars) /\ Len(c2) = Len(c1) + Len(e) /\ Len(c1) \in Nat
  BY <1>2, <1>7, Concat
<1> HIDE DEF c2
<1>9. c3 \in Seq(Chars) /\ Len(c3) = Len(c2) + Len(f) /\ Len(c2) \in Nat /\ Len(f) \in Nat
  BY <1>3, <1>8, Concat
<1> HIDE DEF c3
<1>10. c4 \in Seq(Chars) /\ Len(c4) = Len(c3) + Len(q) /\ Len(c3) \in Nat /\ Len(q) \in Nat
  BY <1>2, <1>9, Concat
<1> HIDE DEF c4
<1>11. c5 \in Seq(Chars) /\ Len(c5) = Len(c4) + Len(v) /\ Len(c4) \in Nat /\ Len(v) \in Nat
  BY <1>2, <1>10, Concat
<1> HIDE DEF c5
<1>12. Len(c) = Len(c5) + Len(q) /\ Len(c5) \in Nat
  BY <1>2, <1>6, <1>11, Concat
<1>13. Stands(t, n, c5) /\ Stands(t, n + Len(c5), q)
  <2>1. c5 \in Seq(Chars) /\ q \in Seq(Chars) /\ n \in Nat /\ Len(t) \in Nat /\ Stands(t, n, c5 \o q)
    BY <1>1, <1>2, <1>6, <1>11
  <2> QED
    BY ONLY <2>1, StandsApart
<1>14. Stands(t, n, c4) /\ Stands(t, n + Len(c4), v)
  <2>1. c4 \in Seq(Chars) /\ v \in Seq(Chars) /\ n \in Nat /\ Len(t) \in Nat /\ Stands(t, n, c4 \o v)
    BY <1>1, <1>2, <1>10, <1>13 DEF c5
  <2> QED
    BY ONLY <2>1, StandsApart
<1>15. Stands(t, n, c3) /\ Stands(t, n + Len(c3), q)
  <2>1. c3 \in Seq(Chars) /\ q \in Seq(Chars) /\ n \in Nat /\ Len(t) \in Nat /\ Stands(t, n, c3 \o q)
    BY <1>1, <1>2, <1>9, <1>14 DEF c4
  <2> QED
    BY ONLY <2>1, StandsApart
<1>16. Stands(t, n, c2) /\ Stands(t, n + Len(c2), f)
  <2>1. c2 \in Seq(Chars) /\ f \in Seq(Chars) /\ n \in Nat /\ Len(t) \in Nat /\ Stands(t, n, c2 \o f)
    BY <1>1, <1>3, <1>8, <1>15 DEF c3
  <2> QED
    BY ONLY <2>1, StandsApart
<1>17. Stands(t, n, c1) /\ Stands(t, n + Len(c1), e)
  <2>1. c1 \in Seq(Chars) /\ e \in Seq(Chars) /\ n \in Nat /\ Len(t) \in Nat /\ Stands(t, n, c1 \o e)
    BY <1>1, <1>2, <1>7, <1>16 DEF c2
  <2> QED
    BY ONLY <2>1, StandsApart
<1>18. Stands(t, n, a) /\ Stands(t, n + Len(a), b)
  <2>1. a \in Seq(Chars) /\ b \in Seq(Chars) /\ n \in Nat /\ Len(t) \in Nat /\ Stands(t, n, a \o b)
    BY <1>1, <1>2, <1>3, <1>17 DEF c1
  <2> QED
    BY ONLY <2>1, StandsApart
<1>19. NameEnd(d, k) = n + Len(a)
  BY <1>5
<1>20. EqualsAt(d, k) = n + Len(c1)
  BY <1>1, <1>5, <1>7
<1>21. EqualsAt(d, k) + 1 = n + Len(c2)
  BY <1>1, <1>3, <1>8, <1>20
<1>22. QuoteAt(d, k) = n + Len(c3)
  <2>1. QuoteAt(d, k) = (n + Len(c2)) + Len(f)
    BY <1>5, <1>21
  <2>2. Len(c3) = Len(c2) + Len(f) /\ Len(c2) \in Nat /\ Len(f) \in Nat /\ n \in Nat
    BY <1>1, <1>9
  <2> QED
    BY ONLY <2>1, <2>2
<1>23. ValueAt(d, k) = n + Len(c4)
  <2>1. ValueAt(d, k) = (n + Len(c3)) + Len(q)
    BY <1>5, <1>22
  <2>2. Len(c4) = Len(c3) + Len(q) /\ Len(c3) \in Nat /\ Len(q) \in Nat /\ n \in Nat
    BY <1>1, <1>10
  <2> QED
    BY ONLY <2>1, <2>2
<1>24. ValueEnd(d, k) = n + Len(c5)
  <2>1. ValueEnd(d, k) = (n + Len(c4)) + Len(v)
    BY <1>5, <1>23
  <2>2. Len(c5) = Len(c4) + Len(v) /\ Len(c4) \in Nat /\ Len(v) \in Nat /\ n \in Nat
    BY <1>1, <1>11
  <2> QED
    BY ONLY <2>1, <2>2
<1>25. EolAt(d, k) = ValueEnd(d, k) + Len(q)
  <2>1. EolAt(d, k) = n + Len(c)
    BY <1>1
  <2>2. Len(c) = Len(c5) + Len(q) /\ Len(c5) \in Nat /\ Len(q) \in Nat /\ n \in Nat
    BY <1>1, <1>10, <1>12
  <2> QED
    BY ONLY <1>24, <2>1, <2>2
<1> QED
  BY <1>13, <1>14, <1>15, <1>16, <1>17, <1>18, <1>19, <1>20, <1>21, <1>22, <1>23, <1>24, <1>25
     DEF l, n, a, b, e, f, q, v

\* What the parts of a definition are.
DefinitionIs(d, t, k) ==
    /\ NameAt(d, k) \in Nat /\ NameEnd(d, k) \in Nat /\ EqualsAt(d, k) \in Nat
    /\ QuoteAt(d, k) \in Nat /\ ValueAt(d, k) \in Nat /\ ValueEnd(d, k) \in Nat
    /\ EolAt(d, k) \in Nat
    /\ NameAt(d, k) < NameEnd(d, k) /\ NameEnd(d, k) <= EqualsAt(d, k)
    /\ EqualsAt(d, k) < QuoteAt(d, k) /\ QuoteAt(d, k) <= ValueAt(d, k)
    /\ ValueAt(d, k) <= ValueEnd(d, k) /\ ValueEnd(d, k) <= EolAt(d, k)
    /\ QuoteAt(d, k) < EolAt(d, k) /\ EolAt(d, k) <= Len(t)
    /\ Char(t, NameAt(d, k)) \in Chars \ (Space \cup Eol \cup {"#"})
    /\ \A l \in NameAt(d, k) + 1 .. NameEnd(d, k) - 1 : Char(t, l) = Letter
    /\ \A l \in NameEnd(d, k) .. EqualsAt(d, k) - 1 : Char(t, l) \in Space
    /\ Char(t, EqualsAt(d, k)) = "="
    /\ \A l \in EqualsAt(d, k) + 1 .. QuoteAt(d, k) - 1 : Char(t, l) \in Space
    /\ \A l \in ValueAt(d, k) .. ValueEnd(d, k) - 1 :
         /\ l - ValueAt(d, k) + 1 \in 1 .. Len(d[k].value)
         /\ Char(t, l) = d[k].value[l - ValueAt(d, k) + 1]
    /\ d[k].value \in Seq(Chars)
    /\ ValueEnd(d, k) = ValueAt(d, k) + Len(d[k].value) /\ Len(d[k].value) \in Nat
    /\ d[k].quoted =>
         /\ ValueAt(d, k) = QuoteAt(d, k) + 1 /\ EolAt(d, k) = ValueEnd(d, k) + 1
         /\ Char(t, QuoteAt(d, k)) = "quote" /\ Char(t, ValueEnd(d, k)) = "quote"
         /\ Quotable(d[k].value)
    /\ ~d[k].quoted =>
         /\ ValueAt(d, k) = QuoteAt(d, k) /\ EolAt(d, k) = ValueEnd(d, k)
         /\ QuoteAt(d, k) < ValueEnd(d, k) /\ Char(t, QuoteAt(d, k)) # "quote"
         /\ \A l \in ValueAt(d, k) .. ValueEnd(d, k) - 1 : Char(t, l) \in Chars \ (Space \cup Eol)
    /\ SubSeq(t, NameAt(d, k) + 1, NameEnd(d, k)) = d[k].name
    /\ SubSeq(t, ValueAt(d, k) + 1, ValueEnd(d, k)) = d[k].value

\* A definition of a legible document has its parts where they belong.
LEMMA DefinitionPlaces ==
  ASSUME NEW d, NEW t, WrittenFrom(d, t), NEW k \in 1 .. Len(d), d[k].kind = "definition"
  PROVE  DefinitionIs(d, t, k)
<1> DEFINE l == d[k]
           a == l.name
           v == l.value
           q == Quote(l)
<1>1. /\ t \in Seq(Chars) /\ Len(t) \in Nat /\ l \in Line /\ Legible(d) /\ d \in Seq(Line)
      /\ NameAt(d, k) \in Nat /\ EolAt(d, k) \in Nat
      /\ Start(d, k + 1) = EolAt(d, k) + Len(l.eol) /\ Start(d, k + 1) <= Len(t)
  BY Layout, ContentStands
<1>2. /\ a \in Seq(Chars) /\ v \in Seq(Chars) /\ q \in Seq(Chars) /\ l.quoted \in BOOLEAN
      /\ l.left \in Nat /\ l.right \in Nat /\ <<"=">> \in Seq(Chars)
  BY <1>1, ContentIs
<1>3. Nameable(a) /\ (IF l.quoted THEN Quotable(v) ELSE Plain(v))
  BY <1>1 DEF Legible
<1>4. /\ Stands(t, NameAt(d, k), a)
      /\ Stands(t, NameEnd(d, k), Spaces(l.left))
      /\ Stands(t, EqualsAt(d, k), <<"=">>)
      /\ Stands(t, EqualsAt(d, k) + 1, Spaces(l.right))
      /\ Stands(t, QuoteAt(d, k), q)
      /\ Stands(t, ValueAt(d, k), v)
      /\ Stands(t, ValueEnd(d, k), q)
      /\ EolAt(d, k) = ValueEnd(d, k) + Len(q)
  BY PartsStand
<1>5. /\ Spaces(l.left) \in Seq(Chars) /\ Len(Spaces(l.left)) = l.left
      /\ \A i \in 1 .. l.left : Spaces(l.left)[i] \in Space
      /\ Spaces(l.right) \in Seq(Chars) /\ Len(Spaces(l.right)) = l.right
      /\ \A i \in 1 .. l.right : Spaces(l.right)[i] \in Space
  BY <1>2, SpacesAre
<1>6. /\ NameEnd(d, k) = NameAt(d, k) + Len(a) /\ EqualsAt(d, k) = NameEnd(d, k) + l.left
      /\ QuoteAt(d, k) = EqualsAt(d, k) + 1 + l.right /\ ValueAt(d, k) = QuoteAt(d, k) + Len(q)
      /\ ValueEnd(d, k) = ValueAt(d, k) + Len(v)
  BY DEF NameEnd, EqualsAt, QuoteAt, ValueAt, ValueEnd
<1>7. EolAt(d, k) <= Len(t)
  BY <1>1, EolsAre
<1> HIDE DEF l, a, v, q
<1>8. Len(a) \in Nat /\ Len(v) \in Nat /\ Len(q) \in Nat /\ Len(a) > 0
  <2>1. a # <<>>
    BY <1>3 DEF Nameable
  <2> QED
    BY <1>2, <2>1
<1>9. /\ NameEnd(d, k) \in Nat /\ EqualsAt(d, k) \in Nat /\ QuoteAt(d, k) \in Nat
      /\ ValueAt(d, k) \in Nat /\ ValueEnd(d, k) \in Nat
      /\ NameAt(d, k) < NameEnd(d, k) /\ NameEnd(d, k) <= EqualsAt(d, k)
      /\ EqualsAt(d, k) < QuoteAt(d, k) /\ QuoteAt(d, k) <= ValueAt(d, k)
      /\ ValueAt(d, k) <= ValueEnd(d, k) /\ ValueEnd(d, k) <= EolAt(d, k)
  <2>1. /\ NameEnd(d, k) \in Nat /\ NameAt(d, k) < NameEnd(d, k)
    BY <1>1, <1>6, <1>8
  <2>2. EqualsAt(d, k) \in Nat /\ NameEnd(d, k) <= EqualsAt(d, k)
    BY <1>2, <1>6, <2>1
  <2>3. QuoteAt(d, k) \in Nat /\ EqualsAt(d, k) < QuoteAt(d, k)
    BY <1>2, <1>6, <2>2
  <2>4. ValueAt(d, k) \in Nat /\ QuoteAt(d, k) <= ValueAt(d, k)
    BY <1>6, <1>8, <2>3
  <2>5. ValueEnd(d, k) \in Nat /\ ValueAt(d, k) <= ValueEnd(d, k)
    BY <1>6, <1>8, <2>4
  <2>6. ValueEnd(d, k) <= EolAt(d, k)
    BY <1>4, <1>8, <2>5
  <2> QED
    BY <2>1, <2>2, <2>3, <2>4, <2>5, <2>6
<1>10. /\ Char(t, NameAt(d, k)) \in Chars \ (Space \cup Eol \cup {"#"})
       /\ \A m \in NameAt(d, k) + 1 .. NameEnd(d, k) - 1 : Char(t, m) = Letter
       /\ SubSeq(t, NameAt(d, k) + 1, NameEnd(d, k)) = a
  <2> DEFINE n == NameAt(d, k)
  <2>1. /\ \A m \in n .. n + Len(a) - 1 : m - n + 1 \in 1 .. Len(a) /\ Char(t, m) = a[m - n + 1]
        /\ SubSeq(t, n + 1, n + Len(a)) = a
    <3>1. t \in Seq(Chars) /\ a \in Seq(Chars) /\ Stands(t, n, a)
      BY <1>1, <1>2, <1>4
    <3> QED
      BY ONLY <3>1, StandsIs
  <2>2. n \in Nat
    BY <1>1
  <2> HIDE DEF n
  <2>3. Char(t, n) = a[1]
    <3>1. n \in n .. n + Len(a) - 1 /\ n - n + 1 = 1
      BY <1>8, <2>2
    <3> QED
      BY <2>1, <3>1
  <2>4. a[1] \in Chars \ (Space \cup Eol \cup {"#"})
    <3>1. a[1] \in Chars
      BY <1>2, <1>8
    <3> QED
      BY <1>3, <3>1 DEF Nameable
  <2>5. ASSUME NEW m \in n + 1 .. n + Len(a) - 1 PROVE Char(t, m) = Letter
    <3>1. m \in n .. n + Len(a) - 1 /\ m - n + 1 \in 2 .. Len(a)
      BY <1>8, <2>2
    <3>2. a[m - n + 1] = Letter
      BY <1>3, <3>1 DEF Nameable
    <3> QED
      BY <2>1, <3>1, <3>2
  <2>6. NameEnd(d, k) = n + Len(a) /\ n = NameAt(d, k)
    BY <1>6 DEF n
  <2>7. ASSUME NEW m \in n + 1 .. NameEnd(d, k) - 1 PROVE Char(t, m) = Letter
    <3>1. m \in n + 1 .. n + Len(a) - 1
      BY <1>8, <2>2, <2>6
    <3> QED
      BY <2>5, <3>1
  <2>8. SubSeq(t, n + 1, NameEnd(d, k)) = a
    BY <2>1, <2>6
  <2>9. Char(t, n) \in Chars \ (Space \cup Eol \cup {"#"})
    BY <2>3, <2>4
  <2> QED
    BY <2>7, <2>8, <2>9 DEF n
<1>11. ASSUME NEW n, NEW w \in Nat, Stands(t, n, Spaces(w))
       PROVE  \A m \in n .. n + w - 1 : Char(t, m) \in Space
  <2>1. Spaces(w) \in Seq(Chars) /\ Len(Spaces(w)) = w /\ \A i \in 1 .. w : Spaces(w)[i] \in Space
    BY SpacesAre
  <2> DEFINE s == Spaces(w)
  <2>2. s \in Seq(Chars) /\ Len(s) = w /\ \A i \in 1 .. w : s[i] \in Space
    BY <2>1
  <2>3. Stands(t, n, s)
    BY <1>11
  <2> HIDE DEF s
  <2>4. \A m \in n .. n + Len(s) - 1 : m - n + 1 \in 1 .. Len(s) /\ Char(t, m) = s[m - n + 1]
    <3>1. t \in Seq(Chars) /\ s \in Seq(Chars)
      BY <1>1, <2>2
    <3> QED
      BY ONLY <2>3, <3>1, StandsIs
  <2> QED
    BY <2>2, <2>4
<1>12. ASSUME NEW n \in Nat, NEW c \in Chars, Stands(t, n, <<c>>)
       PROVE  Char(t, n) = c
  <2>1. Len(<<c>>) = 1 /\ <<c>>[1] = c
    OBVIOUS
  <2>2. t[n + 1] = c
    BY ONLY <1>12, <2>1 DEF Stands
  <2> QED
    BY <2>2 DEF Char
<1>13. ASSUME NEW m \in NameEnd(d, k) .. EqualsAt(d, k) - 1 PROVE Char(t, m) \in Space
  <2>1. m \in NameEnd(d, k) .. NameEnd(d, k) + l.left - 1
    <3>1. l.left \in Nat /\ NameEnd(d, k) \in Nat /\ EqualsAt(d, k) = NameEnd(d, k) + l.left
      BY <1>2, <1>6, <1>9
    <3> QED
      BY ONLY m \in NameEnd(d, k) .. EqualsAt(d, k) - 1, <3>1
  <2> QED
    BY <1>2, <1>4, <1>11, <2>1
<1>14. ASSUME NEW m \in EqualsAt(d, k) + 1 .. QuoteAt(d, k) - 1 PROVE Char(t, m) \in Space
  <2>1. m \in EqualsAt(d, k) + 1 .. (EqualsAt(d, k) + 1) + l.right - 1
    <3>1. /\ l.right \in Nat /\ EqualsAt(d, k) \in Nat
          /\ QuoteAt(d, k) = EqualsAt(d, k) + 1 + l.right
      BY <1>2, <1>6, <1>9
    <3> QED
      BY ONLY m \in EqualsAt(d, k) + 1 .. QuoteAt(d, k) - 1, <3>1
  <2> QED
    BY <1>2, <1>4, <1>11, <2>1
<1>15. Char(t, EqualsAt(d, k)) = "="
  <2>1. "=" \in Chars
    BY DEF Chars
  <2> QED
    BY <1>4, <1>9, <1>12, <2>1
<1>16. /\ \A m \in ValueAt(d, k) .. ValueEnd(d, k) - 1 :
            m - ValueAt(d, k) + 1 \in 1 .. Len(v) /\ Char(t, m) = v[m - ValueAt(d, k) + 1]
       /\ SubSeq(t, ValueAt(d, k) + 1, ValueEnd(d, k)) = v
  <2> DEFINE n == ValueAt(d, k)
  <2>1. /\ \A m \in n .. n + Len(v) - 1 : m - n + 1 \in 1 .. Len(v) /\ Char(t, m) = v[m - n + 1]
        /\ SubSeq(t, n + 1, n + Len(v)) = v
    <3>1. t \in Seq(Chars) /\ v \in Seq(Chars) /\ Stands(t, n, v)
      BY <1>1, <1>2, <1>4
    <3> QED
      BY ONLY <3>1, StandsIs
  <2>2. ASSUME NEW m \in n .. ValueEnd(d, k) - 1
        PROVE  m - n + 1 \in 1 .. Len(v) /\ Char(t, m) = v[m - n + 1]
    <3>1. m \in n .. n + Len(v) - 1
      BY <1>6, <1>8, <1>9
    <3> HIDE DEF n
    <3> QED
      BY <2>1, <3>1
  <2>3. SubSeq(t, n + 1, ValueEnd(d, k)) = v
    BY <1>6, <2>1
  <2> QED
    BY <2>2, <2>3
<1>17. ASSUME l.quoted
       PROVE  /\ ValueAt(d, k) = QuoteAt(d, k) + 1 /\ EolAt(d, k) = ValueEnd(d, k) + 1
              /\ Char(t, QuoteAt(d, k)) = "quote" /\ Char(t, ValueEnd(d, k)) = "quote"
              /\ Quotable(v) /\ QuoteAt(d, k) < EolAt(d, k)
  <2>1. q = <<"quote">> /\ Len(q) = 1 /\ "quote" \in Chars
    BY <1>17 DEF Quote, q, Chars
  <2>2. ValueAt(d, k) = QuoteAt(d, k) + 1 /\ EolAt(d, k) = ValueEnd(d, k) + 1
    BY <1>4, <1>6, <2>1
  <2>3. Char(t, QuoteAt(d, k)) = "quote" /\ Char(t, ValueEnd(d, k)) = "quote"
    BY <1>4, <1>9, <1>12, <2>1
  <2>4. QuoteAt(d, k) < EolAt(d, k)
    BY <1>9, <2>2
  <2> QED
    BY <1>3, <1>17, <2>2, <2>3, <2>4
<1>18. ASSUME ~l.quoted
       PROVE  /\ ValueAt(d, k) = QuoteAt(d, k) /\ EolAt(d, k) = ValueEnd(d, k)
              /\ QuoteAt(d, k) < ValueEnd(d, k) /\ Char(t, QuoteAt(d, k)) # "quote"
              /\ \A m \in ValueAt(d, k) .. ValueEnd(d, k) - 1 : Char(t, m) \in Chars \ (Space \cup Eol)
  <2>1. q = <<>> /\ Len(q) = 0
    BY <1>18 DEF Quote, q
  <2>2. ValueAt(d, k) = QuoteAt(d, k) /\ EolAt(d, k) = ValueEnd(d, k)
    BY <1>4, <1>6, <1>9, <2>1
  <2>3. v # <<>> /\ v[1] # "quote" /\ \A i \in DOMAIN v : v[i] \notin Space \cup Eol
    BY <1>3, <1>18 DEF Plain
  <2>4. Len(v) > 0 /\ \A i \in 1 .. Len(v) : v[i] \in Chars \ (Space \cup Eol)
    <3>1. \A i \in 1 .. Len(v) : v[i] \in Chars /\ i \in DOMAIN v
      BY <1>2
    <3> QED
      BY <1>2, <2>3, <3>1
  <2>5. QuoteAt(d, k) < ValueEnd(d, k)
    BY <1>6, <1>8, <1>9, <2>2, <2>4
  <2>6. Char(t, QuoteAt(d, k)) # "quote"
    <3>1. ValueAt(d, k) \in ValueAt(d, k) .. ValueEnd(d, k) - 1
      BY <1>9, <2>2, <2>5
    <3>2. ValueAt(d, k) - ValueAt(d, k) + 1 = 1
      BY <1>9
    <3>3. Char(t, ValueAt(d, k)) = v[1]
      BY <1>16, <3>1, <3>2
    <3> QED
      BY <2>2, <2>3, <3>3
  <2> QED
    BY <1>16, <2>2, <2>4, <2>5, <2>6
<1>19. QuoteAt(d, k) < EolAt(d, k)
  BY <1>2, <1>17, <1>18
<1> QED
  BY <1>1, <1>2, <1>6, <1>7, <1>8, <1>9, <1>10, <1>13, <1>14, <1>15, <1>16, <1>17, <1>18, <1>19
     DEF DefinitionIs, l, a, v

\* A skip over what can be skipped ends where something else is, or the text does.
LEMMA SkipTo ==
  ASSUME text \in Seq(Chars), NEW p \in Nat, NEW S, NEW q \in Nat, p + 1 <= q, q <= Size,
         \A l \in p + 1 .. q - 1 : Char(text, l) \in S,
         q < Size => Char(text, q) \notin S
  PROVE  Skip(p, S) = q
<1> DEFINE r == Skip(p, S)
<1>1. /\ r \in Nat /\ r >= p + 1
      /\ \A l \in p + 1 .. r - 1 : l < Size /\ Char(text, l) \in S
      /\ r < Size => Char(text, r) \notin S
  BY SkipIs
<1>2. Size \in Nat
  BY WhatIsRead
<1> HIDE DEF r
<1>3. ~(r < q)
  <2> SUFFICES ASSUME r < q PROVE FALSE
    OBVIOUS
  <2>1. r \in p + 1 .. q - 1 /\ r < Size
    BY <1>1, <1>2
  <2> QED
    BY <1>1, <2>1
<1>4. ~(q < r)
  <2> SUFFICES ASSUME q < r PROVE FALSE
    OBVIOUS
  <2>1. q \in p + 1 .. r - 1
    BY <1>1
  <2> QED
    BY <1>1, <2>1
<1>5. r = q
  BY <1>1, <1>3, <1>4
<1> QED
  BY <1>5 DEF r

-----------------------------------------------------------------------------
(* What a document defines, and what items say *)

\* The definitions of the first lines, as equations.
LEMMA DefinedIs ==
  ASSUME NEW d \in Seq(Line)
  PROVE  /\ Defined(d)[0] = <<>>
         /\ \A k \in 1 .. Len(d) :
              Defined(d)[k] = IF d[k].kind = "definition"
                              THEN <<<<d[k].name, d[k].value>>>> \o Defined(d)[k - 1]
                              ELSE Defined(d)[k - 1]
<1> DEFINE S == Seq(Seq(Chars) \X Seq(Chars))
           New(k, x) == IF d[k].kind = "definition" THEN <<<<d[k].name, d[k].value>>>> \o x ELSE x
           Steps(f, n) == /\ f \in [0 .. n -> S]
                          /\ f[0] = <<>>
                          /\ \A k \in 1 .. n : f[k] = New(k, f[k - 1])
           Some == {n \in Nat : \E f \in [0 .. n -> S] : Steps(f, n)}
<1>0. Len(d) \in Nat /\ <<>> \in S
  OBVIOUS
<1>1. ASSUME NEW k \in 1 .. Len(d), NEW x \in S PROVE New(k, x) \in S
  <2>1. d[k] \in Line
    OBVIOUS
  <2>2. <<d[k].name, d[k].value>> \in Seq(Chars) \X Seq(Chars)
    BY <2>1, ContentIs
  <2> DEFINE y == <<d[k].name, d[k].value>>
             P == Seq(Chars) \X Seq(Chars)
  <2>3. y \in P
    BY <2>2
  <2> HIDE DEF y, P
  <2>4. x \in Seq(P) => <<y>> \o x \in Seq(P)
    BY <2>3
  <2> QED
    BY <2>4 DEF y, P
<1> HIDE DEF New, S
<1>2. 0 \in Some
  <2> DEFINE f == [k \in 0 .. 0 |-> <<>>]
  <2>1. f \in [0 .. 0 -> S] /\ Steps(f, 0)
    BY <1>0
  <2> HIDE DEF f
  <2> QED
    BY <2>1
<1>3. ASSUME NEW n \in 0 .. Len(d) - 1, n \in Some PROVE n + 1 \in Some
  <2>1. PICK f \in [0 .. n -> S] : Steps(f, n)
    BY <1>3
  <2> DEFINE m == n + 1
             g == [k \in 0 .. m |-> IF k = m THEN New(m, f[n]) ELSE f[k]]
  <2>2. New(m, f[n]) \in S /\ f[n] \in S /\ m \in Nat /\ n = m - 1
    BY <1>0, <1>1, <2>1
  <2>3. g \in [0 .. m -> S] /\ g[0] = <<>>
    BY <2>1, <2>2
  <2>4. \A k \in 1 .. m : g[k] = New(k, g[k - 1])
    <3> SUFFICES ASSUME NEW k \in 1 .. m PROVE g[k] = New(k, g[k - 1])
      OBVIOUS
    <3>1. CASE k = m
      BY <2>2, <3>1
    <3>2. CASE k # m
      <4>1. k \in 1 .. n /\ k \in 0 .. m /\ k - 1 \in 0 .. m /\ k - 1 # m
        BY <2>2, <3>2
      <4>2. g[k] = f[k] /\ g[k - 1] = f[k - 1] /\ f[k] = New(k, f[k - 1])
        BY <2>1, <3>2, <4>1
      <4> QED
        BY <4>2
    <3> QED
      BY <3>1, <3>2
  <2> HIDE DEF g
  <2>5. Steps(g, m)
    BY <2>3, <2>4
  <2> HIDE DEF m
  <2>6. m \in Some
    BY <2>2, <2>3, <2>5
  <2> QED
    BY <2>6 DEF m
<1>4. PICK f \in [0 .. Len(d) -> S] : Steps(f, Len(d))
  <2> HIDE DEF Some
  <2>1. 0 .. Len(d) \subseteq Some
    BY <1>0, <1>2, <1>3, BoundedInduction
  <2>2. Len(d) \in Some
    BY <1>0, <2>1
  <2> QED
    BY <2>2 DEF Some
<1> DEFINE Equation(g) == g = [k \in 0 .. Len(d) |-> IF k = 0 THEN <<>> ELSE New(k, g[k - 1])]
<1>5. Equation(f)
  BY <1>0, <1>4
<1>6. Defined(d) = CHOOSE g : Equation(g)
  BY DEF Defined, New
<1>7. Equation(Defined(d))
  <2> HIDE DEF Equation
  <2> QED
    BY <1>5, <1>6, Zenon
<1> DEFINE g == Defined(d)
<1>8. g = [k \in 0 .. Len(d) |-> IF k = 0 THEN <<>> ELSE New(k, g[k - 1])]
  BY <1>7
<1> HIDE DEF g
<1>9. g[0] = <<>> /\ \A k \in 1 .. Len(d) : g[k] = New(k, g[k - 1])
  BY <1>0, <1>8
<1> QED
  BY <1>9 DEF g, New

\* What an item says, and what items do.
Said(t, item) ==
    <<SubSeq(t, item.name.start + 1, item.name.end), SubSeq(t, item.value.start + 1, item.value.end)>>

Meaning(t, its) == [k \in DOMAIN its |-> Said(t, its[k])]

LEMMA MeaningGrows ==
  ASSUME NEW t, NEW S, NEW its \in Seq(S), NEW item \in S
  PROVE  Meaning(t, <<item>> \o its) = <<Said(t, item)>> \o Meaning(t, its)
<1> DEFINE P == {Said(t, item)} \cup {Said(t, its[k]) : k \in 1 .. Len(its)}
           a == <<item>>
           z == a \o its
           x == <<Said(t, item)>>
           m == Meaning(t, its)
           w == x \o m
<1>1. a \in Seq(S) /\ Len(a) = 1 /\ a[1] = item
  OBVIOUS
<1>2. Len(its) \in Nat /\ DOMAIN its = 1 .. Len(its)
  OBVIOUS
<1>3. m \in Seq(P) /\ Len(m) = Len(its) /\ \A k \in 1 .. Len(its) : m[k] = Said(t, its[k])
  BY <1>2 DEF Meaning
<1>4. Said(t, item) \in P
  OBVIOUS
<1> HIDE DEF P, m
<1>5. x \in Seq(P) /\ Len(x) = 1 /\ x[1] = Said(t, item)
  BY <1>4
<1> HIDE DEF a, x
<1>6. /\ z \in Seq(S) /\ Len(z) = 1 + Len(its) /\ z[1] = item
      /\ \A k \in 1 .. Len(its) : z[1 + k] = its[k]
  <2>1. /\ z \in Seq(S) /\ Len(z) = Len(a) + Len(its)
        /\ \A n \in 1 .. Len(a) : z[n] = a[n]
        /\ \A n \in 1 .. Len(its) : z[Len(a) + n] = its[n]
    <3>1. a \in Seq(S) /\ its \in Seq(S)
      BY <1>1
    <3> QED
      BY ONLY <3>1, Concat
  <2> QED
    BY <1>1, <2>1
<1>7. /\ w \in Seq(P) /\ Len(w) = 1 + Len(its) /\ w[1] = Said(t, item)
      /\ \A k \in 1 .. Len(its) : w[1 + k] = Said(t, its[k])
  <2>1. /\ w \in Seq(P) /\ Len(w) = Len(x) + Len(m)
        /\ \A n \in 1 .. Len(x) : w[n] = x[n]
        /\ \A n \in 1 .. Len(m) : w[Len(x) + n] = m[n]
    <3>1. x \in Seq(P) /\ m \in Seq(P)
      BY <1>3, <1>5
    <3> QED
      BY ONLY <3>1, Concat
  <2> QED
    BY <1>3, <1>5, <2>1
<1> HIDE DEF z, w
<1>8. ASSUME NEW k \in 1 .. 1 + Len(its) PROVE Said(t, z[k]) = w[k]
  <2>1. CASE k = 1
    BY <1>6, <1>7, <2>1
  <2>2. CASE k # 1
    <3>1. k - 1 \in 1 .. Len(its) /\ 1 + (k - 1) = k
      <4>1. Len(its) \in Nat
        BY <1>2
      <4> QED
        BY ONLY <4>1, <2>2
    <3>2. z[1 + (k - 1)] = its[k - 1]
      BY ONLY <1>6, <3>1
    <3>3. w[1 + (k - 1)] = Said(t, its[k - 1])
      BY ONLY <1>7, <3>1
    <3> QED
      BY ONLY <3>1, <3>2, <3>3
  <2> QED
    BY <2>1, <2>2
<1>9. Meaning(t, z) = [k \in 1 .. 1 + Len(its) |-> Said(t, z[k])]
  BY <1>2, <1>6 DEF Meaning
<1>10. w = [k \in 1 .. 1 + Len(its) |-> w[k]]
  BY <1>2, <1>7
<1>11. Meaning(t, z) = w
  BY <1>8, <1>9, <1>10
<1> QED
  BY <1>11 DEF z, w, a, x, m

-----------------------------------------------------------------------------
(* The scanner follows a document *)

NameOf(d, k)  == [start |-> NameAt(d, k), end |-> NameEnd(d, k)]
ValueOf(d, k) == [start |-> ValueAt(d, k), end |-> ValueEnd(d, k)]

\* A backslash that takes the next character with it.
Escapes(t, n) == Char(t, n) = "backslash" /\ Char(t, n + 1) = "quote"

InDefinition(d, k) == k \in 1 .. Len(d) /\ d[k].kind = "definition"

\* The scanner is in line k, or behind the last.
InLine(d, k) ==
    /\ pc # "done" => Meaning(text, items) = Defined(d)[k - 1]
    /\ pc \in {"top", "global"} /\ state = "global" =>
         \/ k = Len(d) + 1 /\ pc = "top" /\ bp = Start(d, k)
         \/ k <= Len(d) /\ bp \in Start(d, k) .. NameAt(d, k)
            /\ (pc = "global" => bp < Size /\ (d[k].kind = "comment" => bp < NameAt(d, k)))
         \/ k <= Len(d) /\ d[k].kind = "comment" /\ pc = "global" /\ bp = EolAt(d, k)
    /\ pc \in {"top", "assign"} /\ state = "assign" =>
         InDefinition(d, k) /\ name = NameOf(d, k) /\ bp \in {NameEnd(d, k), EqualsAt(d, k)}
    /\ pc = "top" => state \notin {"value", "close"}
    /\ pc = "value" => InDefinition(d, k) /\ name = NameOf(d, k) /\ bp = QuoteAt(d, k)
    /\ pc = "quoted" =>
         /\ InDefinition(d, k) /\ name = NameOf(d, k) /\ d[k].quoted
         /\ value.start = ValueAt(d, k)
         /\ bp \in QuoteAt(d, k) .. ValueEnd(d, k) - 1 /\ ~Escapes(text, bp)
    /\ pc = "unquote" =>
         /\ InDefinition(d, k) /\ name = NameOf(d, k) /\ d[k].quoted
         /\ value.start = ValueAt(d, k) /\ bp = ValueEnd(d, k)
    /\ pc = "close" =>
         InDefinition(d, k) /\ name = NameOf(d, k) /\ value = ValueOf(d, k) /\ bp = EolAt(d, k)
    /\ pc = "done" => Meaning(text, items) = Defined(d)[Len(d)]

\* All is well, and the scanner is in some line.
Follows(d) ==
    /\ WrittenFrom(d, text)
    /\ status /\ reach <= Size /\ pc # "crashed"
    /\ \E k \in 1 .. Len(d) + 1 : InLine(d, k)

FollowsDocument == \A d \in document : Follows(d)

\* At the beginning of a line, or at the end of the last.
LEMMA BeginsLine ==
  ASSUME NEW d, WrittenFrom(d, text), text' = text, status', reach' <= Size,
         pc' = "top", state' = "global",
         NEW m \in 1 .. Len(d) + 1, bp' = Start(d, m), Meaning(text, items') = Defined(d)[m - 1]
  PROVE  Follows(d)'
<1>1. Len(d) \in Nat /\ Size' = Size
  BY Layout DEF Size
<1>2. m <= Len(d) => bp' \in Start(d, m) .. NameAt(d, m)
  <2>1. ASSUME m <= Len(d) PROVE bp' \in Start(d, m) .. NameAt(d, m)
    <3>1. m \in 1 .. Len(d)
      BY <1>1, <2>1
    <3>2. Start(d, m) \in Nat /\ NameAt(d, m) \in Nat /\ Start(d, m) <= NameAt(d, m)
      BY <3>1, ContentStands
    <3> QED
      BY <3>2
  <2> QED
    BY <2>1
<1>3. m = Len(d) + 1 \/ m <= Len(d)
  BY <1>1
<1>4. InLine(d, m)'
  BY <1>1, <1>2, <1>3 DEF InLine
<1> QED
  BY <1>1, <1>4 DEF Follows

\* At first the scanner is at the beginning of a document.
LEMMA FollowsAtFirst == Init => FollowsDocument
<1> SUFFICES ASSUME Init, NEW d \in document PROVE Follows(d)
  BY DEF FollowsDocument
<1>1. /\ pc = "top" /\ state = "global" /\ status = TRUE /\ bp = 0 /\ items = <<>> /\ reach = 0
  BY DEF Init
<1>2. WrittenFrom(d, text)
  <2>1. \E x \in Documents :
          text = FlattenSeq([k \in DOMAIN x |-> Written(x[k])]) /\ document = {x}
    BY DEF Init
  <2>2. PICK x \in Documents :
          text = FlattenSeq([k \in DOMAIN x |-> Written(x[k])]) /\ document = {x}
    BY <2>1
  <2>3. x = d
    BY <2>2
  <2> QED
    BY <2>2, <2>3 DEF WrittenFrom
<1>3. Len(d) \in Nat /\ Start(d, 1) = 0 /\ d \in Seq(Line) /\ Size \in Nat
  BY <1>2, Layout DEF Size
<1>4. Meaning(text, items) = <<>>
  BY <1>1 DEF Meaning
<1>5. Meaning(text, items) = Defined(d)[1 - 1]
  BY <1>3, <1>4, DefinedIs
<1>6. 1 <= Len(d) => bp \in Start(d, 1) .. NameAt(d, 1)
  <2>1. ASSUME 1 <= Len(d) PROVE bp \in Start(d, 1) .. NameAt(d, 1)
    <3>1. 1 \in 1 .. Len(d)
      BY <1>3, <2>1
    <3>2. NameAt(d, 1) \in Nat /\ Start(d, 1) <= NameAt(d, 1)
      BY <1>2, <3>1, ContentStands
    <3> QED
      BY <1>1, <1>3, <3>2
  <2> QED
    BY <2>1
<1>7. 1 = Len(d) + 1 \/ 1 <= Len(d)
  BY <1>3
<1>8. InLine(d, 1)
  BY <1>1, <1>3, <1>5, <1>6, <1>7 DEF InLine
<1>9. 1 \in 1 .. Len(d) + 1
  BY <1>3
<1> QED
  BY <1>1, <1>2, <1>3, <1>8, <1>9 DEF Follows

\* From the end of a line the scanner goes to the beginning of a line, the next
\* or, if a "LF" makes a line of its own behind a "CR", the one behind it.
LEMMA EolStep ==
  ASSUME Reached, NEW d, WrittenFrom(d, text), NEW k \in 1 .. Len(d), bp = EolAt(d, k),
         reach <= Size, NEW c \in At(bp), c \in Space \cup Eol, EolRead(c)
  PROVE  /\ reach' <= Size
         /\ \E m \in 1 .. Len(d) + 1 : bp' = Start(d, m) /\ Defined(d)[m - 1] = Defined(d)[k]
<1> DEFINE n == EolAt(d, k)
           e == d[k].eol
<1>0. /\ text \in Seq(Chars) /\ Size \in Nat /\ Size = Len(text) /\ At(Size) = {NUL}
      /\ reach \in Nat /\ Len(d) \in Nat /\ d \in Seq(Line)
      /\ \A i \in 0 .. Size - 1 : At(i) = {Char(text, i)}
  BY Numbers, Layout DEF Size
<1>1. /\ n \in Nat /\ n <= Size
      /\ e = <<>> => n = Size
      /\ e # <<>> => n < Size /\ Char(text, n) \in Eol
      /\ e = <<"LF">> => Char(text, n) = "LF" /\ Start(d, k + 1) = n + 1
      /\ e = <<"CR">> => Char(text, n) = "CR" /\ Start(d, k + 1) = n + 1
      /\ e = <<"CR", "LF">> => /\ Char(text, n) = "CR" /\ Char(text, n + 1) = "LF"
                               /\ Start(d, k + 1) = n + 2
      /\ e = <<>> \/ e = <<"LF">> \/ e = <<"CR">> \/ e = <<"CR", "LF">>
      /\ Start(d, k + 1) <= Size
  <2>1. n \in Nat /\ Start(d, k + 1) <= Size
    BY <1>0, ContentStands
  <2> QED
    BY <1>0, <2>1, EolPlace
<1>2. bp = n
  OBVIOUS
<1> HIDE DEF n, e
<1>3. n < Size /\ e # <<>> /\ c = Char(text, n)
  <2>1. n # Size
    <3>1. NUL \notin Space \cup Eol
      BY Kinds
    <3> QED
      BY <1>0, <1>2, <3>1
  <2>2. n < Size
    BY <1>0, <1>1, <2>1
  <2> QED
    BY <1>0, <1>1, <1>2, <2>1, <2>2
<1>4. reach' \in {reach, n, n + 1}
  <2>1. Read(IF c = "CR" THEN n + 1 ELSE n)
    BY <1>2 DEF EolRead
  <2>2. CASE c = "CR"
    <3>1. Read(n + 1) /\ n + 1 \in Nat
      BY <1>1, <2>1, <2>2
    <3> QED
      BY <1>0, <3>1, ReadIs
  <2>3. CASE c # "CR"
    BY <1>0, <1>1, <2>1, <2>3, ReadIs
  <2> QED
    BY <2>2, <2>3
<1>5. reach' <= Size
  BY <1>0, <1>1, <1>3, <1>4
<1>6. bp' \in IF c = "CR" THEN {IF x = "LF" THEN n + 2 ELSE n + 1 : x \in At(n + 1)} ELSE {n + 1}
  BY <1>2 DEF EolRead, AfterEol
<1>7. k + 1 \in 1 .. Len(d) + 1 /\ (k + 1) - 1 = k
  BY <1>0
<1>8. ASSUME bp' = Start(d, k + 1)
      PROVE  \E m \in 1 .. Len(d) + 1 : bp' = Start(d, m) /\ Defined(d)[m - 1] = Defined(d)[k]
  BY <1>7, <1>8
<1>9. "LF" # "CR" /\ "LF" # NUL
  BY DEF NUL
<1>10. CASE e = <<"LF">>
  <2>1. bp' = n + 1
    BY <1>1, <1>3, <1>6, <1>9, <1>10
  <2> QED
    BY <1>1, <1>5, <1>8, <1>10, <2>1
<1>11. CASE e = <<"CR", "LF">>
  <2>1. n + 1 \in 0 .. Size - 1
    BY <1>0, <1>1, <1>11
  <2>2. At(n + 1) = {"LF"}
    BY <1>0, <1>1, <1>11, <2>1
  <2>3. bp' = n + 2
    BY <1>1, <1>3, <1>6, <1>11, <2>2
  <2> QED
    BY <1>1, <1>5, <1>8, <1>11, <2>3
<1>12. CASE e = <<"CR">>
  <2>1. bp' = n + 1 \/ (bp' = n + 2 /\ "LF" \in At(n + 1))
    BY <1>1, <1>3, <1>6, <1>12
  <2>2. CASE bp' = n + 1
    BY <1>1, <1>5, <1>8, <1>12, <2>2
  <2>3. CASE bp' = n + 2 /\ "LF" \in At(n + 1)
    <3> DEFINE j == k + 1
    <3>1. n + 1 < Size
      BY <1>0, <1>1, <1>3, <1>9, <2>3
    <3>2. Start(d, j) = n + 1 /\ Char(text, n + 1) = "LF" /\ n + 1 \in Nat
      <4>1. n + 1 \in 0 .. Size - 1
        BY <1>0, <1>1, <3>1
      <4> QED
        BY <1>0, <1>1, <1>12, <2>3, <4>1
    <3>3. j \in 1 .. Len(d) /\ j - 1 = k
      <4>1. k # Len(d)
        <5>1. Start(d, Len(d) + 1) = Size
          BY <1>0, Layout
        <5> QED
          BY <1>0, <3>1, <3>2, <5>1
      <4> QED
        BY <1>0, <4>1
    <3> HIDE DEF j
    <3>4. /\ NameAt(d, j) \in Nat /\ Start(d, j) <= NameAt(d, j)
          /\ \A l \in Start(d, j) .. NameAt(d, j) - 1 : Char(text, l) \in Space
          /\ d[j] \in Line
      BY <3>3, ContentStands, Layout
    <3>5. "LF" \in Eol /\ "LF" \notin Space /\ "LF" # "#"
      BY DEF Eol, Space
    <3>6. NameAt(d, j) = n + 1
      <4>1. CASE NameAt(d, j) > n + 1
        <5>1. n + 1 \in Start(d, j) .. NameAt(d, j) - 1
          BY <3>2, <3>4, <4>1
        <5> QED
          BY <3>2, <3>4, <3>5, <5>1
      <4> QED
        BY <3>2, <3>4, <4>1
    <3>7. d[j].kind = "blank"
      <4>1. CASE d[j].kind = "comment"
        BY <3>2, <3>3, <3>5, <3>6, <4>1, CommentPlaces
      <4>2. CASE d[j].kind = "definition"
        <5>1. DefinitionIs(d, text, j)
          BY <3>3, <4>2, DefinitionPlaces
        <5> QED
          BY <3>2, <3>5, <3>6, <5>1 DEF DefinitionIs
      <4> QED
        BY <3>4, <4>1, <4>2, ContentIs
    <3>8. EolAt(d, j) = n + 1
      BY <3>3, <3>6, <3>7, BlankPlaces
    <3>9. d[j].eol = <<"LF">>
      <4>1. /\ d[j].eol = <<>> => EolAt(d, j) = Size
            /\ d[j].eol = <<"CR">> => Char(text, EolAt(d, j)) = "CR"
            /\ d[j].eol = <<"CR", "LF">> => Char(text, EolAt(d, j)) = "CR"
            /\ d[j].eol = <<>> \/ d[j].eol = <<"LF">> \/ d[j].eol = <<"CR">> \/ d[j].eol = <<"CR", "LF">>
        BY <1>0, <3>3, EolPlace
      <4>2. n + 1 # Size
        BY <1>0, <3>1, <3>2
      <4> QED
        BY <1>9, <3>2, <3>8, <4>1, <4>2
    <3>10. Start(d, j + 1) = n + 2
      <4>1. Start(d, j + 1) = EolAt(d, j) + 1
        BY <3>3, <3>9, EolPlace
      <4> QED
        BY <1>1, <3>8, <4>1
    <3>11. Defined(d)[j] = Defined(d)[k]
      <4>1. d[j].kind # "definition"
        BY <3>7
      <4> QED
        BY <1>0, <3>3, <4>1, DefinedIs
    <3>12. j + 1 \in 1 .. Len(d) + 1 /\ (j + 1) - 1 = j
      BY <1>0, <3>3
    <3> QED
      BY <1>5, <2>3, <3>10, <3>11, <3>12
  <2> QED
    BY <2>1, <2>2, <2>3
<1> QED
  BY <1>1, <1>3, <1>10, <1>11, <1>12

\* What the scanner finds in a line.
LEMMA LineIs ==
  ASSUME Reached, NEW d, WrittenFrom(d, text), NEW k \in 1 .. Len(d)
  PROVE  /\ Start(d, k) \in Nat /\ NameAt(d, k) \in Nat /\ EolAt(d, k) \in Nat
         /\ Start(d, k) <= NameAt(d, k) /\ NameAt(d, k) <= EolAt(d, k) /\ EolAt(d, k) <= Size
         /\ \A l \in Start(d, k) .. NameAt(d, k) - 1 : l < Size /\ Char(text, l) \in Space
         /\ EolAt(d, k) < Size => Char(text, EolAt(d, k)) \in Eol
         /\ EolAt(d, k) = Size => k = Len(d)
         /\ d[k].kind \in {"blank", "comment", "definition"}
         /\ d[k].kind = "blank" => EolAt(d, k) = NameAt(d, k)
         /\ d[k].kind = "comment" =>
              /\ NameAt(d, k) < EolAt(d, k) /\ EolAt(d, k) < Size /\ Char(text, NameAt(d, k)) = "#"
              /\ \A l \in NameAt(d, k) .. EolAt(d, k) - 1 : Char(text, l) \in Chars \ Eol
         /\ d[k].kind = "definition" => DefinitionIs(d, text, k)
<1>1. Size = Len(text) /\ Size \in Nat /\ Len(d) \in Nat /\ d[k] \in Line
  BY Layout DEF Size
<1>2. /\ Start(d, k) \in Nat /\ NameAt(d, k) \in Nat /\ EolAt(d, k) \in Nat
      /\ Start(d, k) <= NameAt(d, k) /\ NameAt(d, k) <= EolAt(d, k)
      /\ \A l \in Start(d, k) .. NameAt(d, k) - 1 : Char(text, l) \in Space
      /\ Start(d, k + 1) = EolAt(d, k) + Len(d[k].eol) /\ Start(d, k + 1) <= Size
  BY <1>1, ContentStands
<1>3. Len(d[k].eol) \in Nat
  BY <1>1, EolsAre
<1>4. EolAt(d, k) <= Size
  BY <1>1, <1>2, <1>3
<1>5. /\ d[k].eol = <<>> => k = Len(d) /\ EolAt(d, k) = Size
      /\ d[k].eol # <<>> => EolAt(d, k) < Size /\ Char(text, EolAt(d, k)) \in Eol
  BY <1>1, EolPlace
<1>6. /\ EolAt(d, k) < Size => Char(text, EolAt(d, k)) \in Eol
      /\ EolAt(d, k) = Size => k = Len(d)
  BY <1>1, <1>5
<1>7. ASSUME NEW l \in Start(d, k) .. NameAt(d, k) - 1 PROVE l < Size /\ Char(text, l) \in Space
  BY <1>1, <1>2, <1>4
<1>8. d[k].kind \in {"blank", "comment", "definition"}
  BY <1>1, ContentIs
<1>9. d[k].kind = "blank" => EolAt(d, k) = NameAt(d, k)
  BY BlankPlaces
<1>10. d[k].kind = "comment" =>
         /\ NameAt(d, k) < EolAt(d, k) /\ EolAt(d, k) < Size /\ Char(text, NameAt(d, k)) = "#"
         /\ \A l \in NameAt(d, k) .. EolAt(d, k) - 1 : Char(text, l) \in Chars \ Eol
  BY <1>1, CommentPlaces
<1>11. d[k].kind = "definition" => DefinitionIs(d, text, k)
  BY DefinitionPlaces
<1> QED
  BY <1>2, <1>4, <1>6, <1>7, <1>8, <1>9, <1>10, <1>11

\* A name begins with something else than a space, an end or a comment.
LEMMA NameBegins ==
  ASSUME Reached, NEW d, WrittenFrom(d, text), NEW k \in 1 .. Len(d), d[k].kind = "definition"
  PROVE  NameAt(d, k) < Size /\ Char(text, NameAt(d, k)) \notin Space \cup Eol \cup {"#"}
<1>1. DefinitionIs(d, text, k) /\ Size = Len(text) /\ Size \in Nat
  BY DefinitionPlaces, Layout DEF Size
<1> QED
  BY <1>1 DEF DefinitionIs

\* Behind a name there are spaces and a '='.
LEMMA BehindName ==
  ASSUME NEW d, NEW t, NEW k, DefinitionIs(d, t, k), Len(t) \in Nat,
         NEW n \in {NameEnd(d, k), EqualsAt(d, k)}
  PROVE  /\ n \in Nat /\ n < Len(t) /\ EqualsAt(d, k) \in Nat
         /\ \/ n = EqualsAt(d, k) /\ Char(t, n) = "="
            \/ n < EqualsAt(d, k) /\ n = NameEnd(d, k) /\ Char(t, n) \in Space
<1>1. /\ NameEnd(d, k) \in Nat /\ EqualsAt(d, k) \in Nat /\ QuoteAt(d, k) \in Nat
      /\ EolAt(d, k) \in Nat /\ NameEnd(d, k) <= EqualsAt(d, k)
      /\ EqualsAt(d, k) < QuoteAt(d, k) /\ QuoteAt(d, k) < EolAt(d, k) /\ EolAt(d, k) <= Len(t)
      /\ Char(t, EqualsAt(d, k)) = "="
      /\ \A l \in NameEnd(d, k) .. EqualsAt(d, k) - 1 : Char(t, l) \in Space
  BY DEF DefinitionIs
<1>2. CASE n = EqualsAt(d, k)
  BY <1>1, <1>2
<1>3. CASE n # EqualsAt(d, k)
  <2>1. n = NameEnd(d, k) /\ n < EqualsAt(d, k)
    BY <1>1, <1>3
  <2>2. n \in NameEnd(d, k) .. EqualsAt(d, k) - 1
    BY <1>1, <2>1
  <2> QED
    BY <1>1, <2>1, <2>2
<1> QED
  BY <1>2, <1>3

\* A value begins with a quote or with something that is no space and no end.
LEMMA ValueBegins ==
  ASSUME NEW d, NEW t, NEW k, DefinitionIs(d, t, k), Len(t) \in Nat, d[k].quoted \in BOOLEAN
  PROVE  /\ QuoteAt(d, k) \in Nat /\ QuoteAt(d, k) < Len(t)
         /\ Char(t, QuoteAt(d, k)) \notin Space \cup Eol
         /\ Char(t, QuoteAt(d, k)) = "quote" <=> d[k].quoted
<1>1. /\ QuoteAt(d, k) \in Nat /\ ValueAt(d, k) \in Nat /\ ValueEnd(d, k) \in Nat
      /\ EolAt(d, k) \in Nat /\ QuoteAt(d, k) < EolAt(d, k) /\ EolAt(d, k) <= Len(t)
      /\ d[k].quoted => Char(t, QuoteAt(d, k)) = "quote"
      /\ ~d[k].quoted =>
           /\ ValueAt(d, k) = QuoteAt(d, k) /\ QuoteAt(d, k) < ValueEnd(d, k)
           /\ Char(t, QuoteAt(d, k)) # "quote"
           /\ \A l \in ValueAt(d, k) .. ValueEnd(d, k) - 1 : Char(t, l) \in Chars \ (Space \cup Eol)
  BY DEF DefinitionIs
<1>2. CASE d[k].quoted
  BY <1>1, <1>2, Kinds
<1>3. CASE ~d[k].quoted
  <2>1. QuoteAt(d, k) \in ValueAt(d, k) .. ValueEnd(d, k) - 1
    BY <1>1, <1>3
  <2> QED
    BY <1>1, <1>3, <2>1
<1> QED
  BY <1>2, <1>3

\* A value is between quotes or it is not.
LEMMA QuotedOrNot ==
  ASSUME NEW d, NEW t, WrittenFrom(d, t), NEW k \in 1 .. Len(d)
  PROVE  d[k].quoted \in BOOLEAN
<1>1. d[k] \in Line
  BY Layout
<1> QED
  BY <1>1, ContentIs

\* The top of the loop: a comment is skipped to its line's end.
LEMMA TopFollows == ASSUME Reached, NEW d, Follows(d), Top PROVE Follows(d)'
<1>0. /\ text \in Seq(Chars) /\ Size \in Nat /\ bp \in Nat /\ reach \in Nat
      /\ \A n \in 0 .. Size - 1 : At(n) = {Char(text, n)} /\ Char(text, n) \in Chars
      /\ state \in {"global", "assign", "value", "close"}
  BY Numbers
<1>1. WrittenFrom(d, text) /\ status /\ reach <= Size /\ Len(d) \in Nat
  BY Layout DEF Follows
<1>2. PICK k \in 1 .. Len(d) + 1 : InLine(d, k)
  BY DEF Follows
<1>3. /\ pc = "top" /\ bp < Size /\ pc' = state /\ Read(bp)
      /\ bp' = (IF "#" \in At(bp) THEN Skip(bp, Inline) ELSE bp)
      /\ UNCHANGED <<text, state, status, name, value, items>>
  BY <1>0 DEF Top, AtEnd, values
<1>4. reach' <= Size
  BY <1>0, <1>1, <1>3, ReadIs
<1>5. bp \in 0 .. Size - 1 /\ bp' = (IF Char(text, bp) = "#" THEN Skip(bp, Inline) ELSE bp)
  BY <1>0, <1>3
<1>6. Size' = Size
  BY <1>3 DEF Size
<1>7. CASE state = "global"
  <2>1. /\ \/ k = Len(d) + 1 /\ bp = Start(d, k)
           \/ k <= Len(d) /\ bp \in Start(d, k) .. NameAt(d, k)
        /\ Meaning(text, items) = Defined(d)[k - 1]
    BY <1>2, <1>3, <1>7 DEF InLine
  <2>2. k \in 1 .. Len(d) /\ bp \in Start(d, k) .. NameAt(d, k)
    <3>1. Start(d, Len(d) + 1) = Size
      BY <1>1, Layout DEF Size
    <3> QED
      BY <1>0, <1>1, <1>3, <2>1, <3>1
  <2>3. /\ Start(d, k) \in Nat /\ NameAt(d, k) \in Nat /\ EolAt(d, k) \in Nat
        /\ \A l \in Start(d, k) .. NameAt(d, k) - 1 : Char(text, l) \in Space
        /\ EolAt(d, k) < Size => Char(text, EolAt(d, k)) \in Eol
        /\ d[k].kind \in {"blank", "comment", "definition"}
        /\ d[k].kind = "blank" => EolAt(d, k) = NameAt(d, k)
        /\ d[k].kind = "comment" =>
             /\ NameAt(d, k) < EolAt(d, k) /\ EolAt(d, k) < Size /\ Char(text, NameAt(d, k)) = "#"
             /\ \A l \in NameAt(d, k) .. EolAt(d, k) - 1 : Char(text, l) \in Chars \ Eol
        /\ d[k].kind = "definition" => Char(text, NameAt(d, k)) # "#"
    BY <1>1, <2>2, LineIs, NameBegins
  <2>4. CASE Char(text, bp) = "#"
    <3>1. bp = NameAt(d, k)
      <4>1. bp \notin Start(d, k) .. NameAt(d, k) - 1
        BY <2>3, <2>4, Kinds
      <4> QED
        BY <1>0, <2>2, <2>3, <4>1
    <3>2. d[k].kind = "comment"
      <4>1. d[k].kind # "blank"
        BY <1>3, <2>3, <2>4, <3>1, Kinds
      <4> QED
        BY <2>3, <2>4, <3>1, <4>1
    <3>3. Skip(bp, Inline) = EolAt(d, k)
      <4> DEFINE q == EolAt(d, k)
      <4>1. q \in Nat /\ bp + 1 <= q /\ q < Size /\ Char(text, q) \notin Inline
        BY <1>0, <2>3, <3>1, <3>2, Kinds
      <4>2. ASSUME NEW l \in bp + 1 .. q - 1 PROVE Char(text, l) \in Inline
        <5>1. l \in NameAt(d, k) .. q - 1
          BY <2>3, <3>1
        <5> QED
          BY <2>3, <3>2, <5>1, Kinds
      <4> HIDE DEF q
      <4> QED
        BY <1>0, <4>1, <4>2, SkipTo DEF q
    <3>4. bp' = EolAt(d, k)
      BY <1>5, <2>4, <3>3
    <3>5. InLine(d, k)'
      BY <1>1, <1>3, <1>7, <2>1, <2>2, <3>2, <3>4 DEF InLine
    <3> QED
      BY <1>1, <1>2, <1>3, <1>4, <1>6, <1>7, <3>5 DEF Follows
  <2>5. CASE Char(text, bp) # "#"
    <3>1. bp' = bp
      BY <1>5, <2>5
    <3>2. d[k].kind = "comment" => bp < NameAt(d, k)
      BY <2>2, <2>3, <2>5
    <3>3. InLine(d, k)'
      BY <1>1, <1>3, <1>6, <1>7, <2>1, <2>2, <3>1, <3>2 DEF InLine
    <3> QED
      BY <1>1, <1>2, <1>3, <1>4, <1>6, <1>7, <3>3 DEF Follows
  <2> QED
    BY <2>4, <2>5
<1>8. CASE state = "assign"
  <2>1. /\ InDefinition(d, k) /\ name = NameOf(d, k) /\ bp \in {NameEnd(d, k), EqualsAt(d, k)}
        /\ Meaning(text, items) = Defined(d)[k - 1]
    BY <1>2, <1>3, <1>8 DEF InLine
  <2>2. k \in 1 .. Len(d) /\ d[k].kind = "definition"
    BY <2>1 DEF InDefinition
  <2>3. DefinitionIs(d, text, k)
    BY <1>1, <2>2, DefinitionPlaces
  <2>4. Char(text, bp) # "#"
    <3>1. Char(text, bp) = "=" \/ Char(text, bp) \in Space
      BY <2>1, <2>3, BehindName
    <3> QED
      BY <3>1, Kinds
  <2>5. bp' = bp
    BY <1>5, <2>4
  <2>6. InLine(d, k)'
    BY <1>3, <1>8, <2>1, <2>5 DEF InLine
  <2> QED
    BY <1>1, <1>2, <1>3, <1>4, <1>6, <1>8, <2>6 DEF Follows
<1>9. state \notin {"value", "close"}
  BY <1>2, <1>3 DEF InLine
<1> QED
  BY <1>0, <1>7, <1>8, <1>9

\* A space, or the end of a blank line or of a comment.
LEMMA SkipBlankFollows == ASSUME Reached, NEW d, Follows(d), SkipBlank PROVE Follows(d)'
<1>0. /\ text \in Seq(Chars) /\ Size \in Nat /\ bp \in Nat /\ reach \in Nat
      /\ At(Size) = {NUL} /\ bp <= Size + Beyond[pc]
      /\ \A n \in 0 .. Size - 1 : At(n) = {Char(text, n)} /\ Char(text, n) \in Chars
  BY Numbers
<1>1. WrittenFrom(d, text) /\ status /\ reach <= Size /\ Len(d) \in Nat /\ d \in Seq(Line)
  BY Layout DEF Follows
<1>2. PICK k \in 1 .. Len(d) + 1 : InLine(d, k)
  BY DEF Follows
<1>3. PICK c \in At(bp) \cap (Eol \cup Space) : EolRead(c)
  BY DEF SkipBlank
<1>4. pc = "global" /\ pc' = "top" /\ UNCHANGED <<text, state, status, name, value, items>>
  BY DEF SkipBlank, values
<1>5. state = "global"
  BY <1>4 DEF Reached
<1>6. /\ \/ k <= Len(d) /\ bp \in Start(d, k) .. NameAt(d, k) /\ bp < Size
            /\ (d[k].kind = "comment" => bp < NameAt(d, k))
         \/ k <= Len(d) /\ d[k].kind = "comment" /\ bp = EolAt(d, k)
      /\ Meaning(text, items) = Defined(d)[k - 1]
  BY <1>2, <1>4, <1>5 DEF InLine
<1>7. k \in 1 .. Len(d) /\ k - 1 \in 0 .. Len(d)
  BY <1>1, <1>6
<1>8. /\ Start(d, k) \in Nat /\ NameAt(d, k) \in Nat /\ EolAt(d, k) \in Nat
      /\ \A l \in Start(d, k) .. NameAt(d, k) - 1 : l < Size /\ Char(text, l) \in Space
      /\ d[k].kind \in {"blank", "comment", "definition"}
      /\ d[k].kind = "blank" => EolAt(d, k) = NameAt(d, k)
      /\ d[k].kind = "definition" => Char(text, NameAt(d, k)) \notin Space \cup Eol
      /\ d[k].kind = "comment" => EolAt(d, k) < Size
  BY <1>1, <1>7, LineIs, NameBegins
<1>9. bp < Size /\ c = Char(text, bp) /\ c \in Space \cup Eol
  BY <1>0, <1>3, <1>6, <1>8
<1>10. Size' = Size
  BY <1>4 DEF Size
<1>11. CASE bp \in Start(d, k) .. NameAt(d, k) - 1
  <2>1. c \in Space /\ c # "CR"
    BY <1>8, <1>9, <1>11 DEF Space
  <2>2. bp' = bp + 1 /\ Read(bp)
    BY <1>3, <2>1 DEF EolRead, AfterEol
  <2>3. reach' <= Size
    BY <1>0, <1>1, <1>9, <2>2, ReadIs
  <2>4. bp + 1 \in Start(d, k) .. NameAt(d, k)
    BY <1>8, <1>11
  <2>5. InLine(d, k)'
    BY <1>4, <1>5, <1>6, <1>7, <2>2, <2>4 DEF InLine
  <2> QED
    BY <1>1, <1>2, <1>4, <1>10, <2>3, <2>5 DEF Follows
<1>12. CASE bp \notin Start(d, k) .. NameAt(d, k) - 1
  <2>1. d[k].kind # "definition"
    <3>1. bp \in Start(d, k) .. NameAt(d, k) /\ d[k].kind = "definition" => bp = NameAt(d, k)
      BY <1>0, <1>8, <1>12
    <3> QED
      BY <1>6, <1>8, <1>9, <3>1
  <2>2. bp = EolAt(d, k)
    <3>1. CASE bp \in Start(d, k) .. NameAt(d, k) /\ (d[k].kind = "comment" => bp < NameAt(d, k))
      <4>1. bp = NameAt(d, k)
        BY <1>0, <1>8, <1>12, <3>1
      <4>2. d[k].kind = "blank"
        BY <1>0, <1>8, <2>1, <3>1, <4>1
      <4> QED
        BY <1>8, <4>1, <4>2
    <3> QED
      BY <1>6, <3>1
  <2>3. /\ reach' <= Size
        /\ \E m \in 1 .. Len(d) + 1 : bp' = Start(d, m) /\ Defined(d)[m - 1] = Defined(d)[k]
    BY <1>1, <1>3, <1>7, <2>2, EolStep
  <2>4. PICK m \in 1 .. Len(d) + 1 : bp' = Start(d, m) /\ Defined(d)[m - 1] = Defined(d)[k]
    BY <2>3
  <2>5. Defined(d)[k] = Defined(d)[k - 1]
    BY <1>1, <1>7, <2>1, DefinedIs
  <2>6. Meaning(text, items') = Defined(d)[m - 1]
    BY <1>4, <1>6, <2>4, <2>5
  <2> QED
    BY <1>1, <1>4, <1>5, <2>3, <2>4, <2>6, BeginsLine
<1> QED
  BY <1>11, <1>12

\* A name is read to its end.
LEMMA ReadNameFollows == ASSUME Reached, NEW d, Follows(d), ReadName PROVE Follows(d)'
<1>0. /\ text \in Seq(Chars) /\ Size \in Nat /\ bp \in Nat /\ reach \in Nat
      /\ \A n \in 0 .. Size - 1 : At(n) = {Char(text, n)} /\ Char(text, n) \in Chars
  BY Numbers
<1>1. WrittenFrom(d, text) /\ status /\ reach <= Size /\ Len(d) \in Nat /\ Size = Len(text)
  BY Layout DEF Follows, Size
<1>2. PICK k \in 1 .. Len(d) + 1 : InLine(d, k)
  BY DEF Follows
<1>3. /\ pc = "global" /\ At(bp) \ (Eol \cup Space) # {} /\ bp' = Skip(bp, Names)
      /\ name' = [start |-> bp, end |-> bp'] /\ Read(bp)
      /\ state' = "assign" /\ pc' = "assign" /\ UNCHANGED <<text, status, value, items>>
  BY DEF ReadName
<1>4. state = "global"
  BY <1>3 DEF Reached
<1>5. /\ \/ k <= Len(d) /\ bp \in Start(d, k) .. NameAt(d, k) /\ bp < Size
            /\ (d[k].kind = "comment" => bp < NameAt(d, k))
         \/ k <= Len(d) /\ d[k].kind = "comment" /\ bp = EolAt(d, k)
      /\ Meaning(text, items) = Defined(d)[k - 1]
  BY <1>2, <1>3, <1>4 DEF InLine
<1>6. k \in 1 .. Len(d)
  BY <1>1, <1>5
<1>7. /\ Start(d, k) \in Nat /\ NameAt(d, k) \in Nat /\ EolAt(d, k) \in Nat
      /\ \A l \in Start(d, k) .. NameAt(d, k) - 1 : l < Size /\ Char(text, l) \in Space
      /\ EolAt(d, k) < Size => Char(text, EolAt(d, k)) \in Eol
      /\ d[k].kind \in {"blank", "comment", "definition"}
      /\ d[k].kind = "blank" => EolAt(d, k) = NameAt(d, k)
      /\ d[k].kind = "comment" => EolAt(d, k) < Size
      /\ d[k].kind = "definition" => DefinitionIs(d, text, k)
  BY <1>1, <1>6, LineIs
<1>8. bp < Size /\ Char(text, bp) \notin Space \cup Eol
  <2>1. bp < Size
    BY <1>5, <1>7
  <2>2. At(bp) = {Char(text, bp)}
    BY <1>0, <2>1
  <2> QED
    BY <1>3, <2>1, <2>2
<1>9. bp \notin Start(d, k) .. NameAt(d, k) - 1
  BY <1>7, <1>8
<1>10. bp = NameAt(d, k) /\ d[k].kind = "definition"
  <2>1. bp # EolAt(d, k)
    BY <1>7, <1>8
  <2>2. bp \in Start(d, k) .. NameAt(d, k) /\ (d[k].kind = "comment" => bp < NameAt(d, k))
    BY <1>5, <2>1
  <2>3. bp = NameAt(d, k)
    BY <1>0, <1>7, <1>9, <2>2
  <2>4. d[k].kind # "comment"
    BY <1>7, <2>2, <2>3
  <2> QED
    BY <1>7, <2>1, <2>3, <2>4
<1>11. DefinitionIs(d, text, k)
  BY <1>7, <1>10
<1> DEFINE q == NameEnd(d, k)
<1>12. /\ q \in Nat /\ bp < q
       /\ \A l \in bp + 1 .. q - 1 : Char(text, l) = Letter
  BY <1>10, <1>11 DEF DefinitionIs
<1>13. q < Size /\ (Char(text, q) = "=" \/ Char(text, q) \in Space)
  BY <1>0, <1>1, <1>11, BehindName
<1>14. Skip(bp, Names) = q
  <2> HIDE DEF q
  <2>1. bp + 1 <= q /\ q <= Size
    BY <1>0, <1>12, <1>13
  <2>2. \A l \in bp + 1 .. q - 1 : Char(text, l) \in Names
    BY <1>12 DEF Names
  <2>3. Char(text, q) \notin Names
    BY <1>13, Kinds DEF Names
  <2> QED
    BY <1>0, <1>12, <2>1, <2>2, <2>3, SkipTo
<1>15. name' = NameOf(d, k) /\ bp' = NameEnd(d, k)
  BY <1>3, <1>10, <1>14 DEF NameOf
<1>16. reach' <= Size /\ Size' = Size
  BY <1>0, <1>1, <1>3, <1>8, ReadIs DEF Size
<1>17. InLine(d, k)'
  BY <1>3, <1>5, <1>6, <1>10, <1>15 DEF InLine, InDefinition
<1> QED
  BY <1>1, <1>2, <1>3, <1>16, <1>17 DEF Follows

\* Behind a name, and before the value.
LEMMA AtAssign ==
  ASSUME Reached, NEW d, Follows(d), pc = "assign"
  PROVE  /\ state = "assign"
         /\ \E k \in 1 .. Len(d) :
              /\ InDefinition(d, k) /\ DefinitionIs(d, text, k) /\ name = NameOf(d, k)
              /\ Meaning(text, items) = Defined(d)[k - 1]
              /\ bp \in {NameEnd(d, k), EqualsAt(d, k)}
              /\ bp < Size /\ At(bp) = {Char(text, bp)} /\ EqualsAt(d, k) \in Nat
              /\ \/ bp = EqualsAt(d, k) /\ Char(text, bp) = "="
                 \/ bp < EqualsAt(d, k) /\ bp = NameEnd(d, k) /\ Char(text, bp) \in Space
<1>0. /\ Size \in Nat /\ bp \in Nat /\ Size = Len(text)
      /\ \A n \in 0 .. Size - 1 : At(n) = {Char(text, n)}
  BY Numbers DEF Size
<1>1. state = "assign" /\ WrittenFrom(d, text)
  BY DEF Reached, Follows
<1>2. PICK k \in 1 .. Len(d) + 1 : InLine(d, k)
  BY DEF Follows
<1>3. /\ InDefinition(d, k) /\ name = NameOf(d, k) /\ bp \in {NameEnd(d, k), EqualsAt(d, k)}
      /\ Meaning(text, items) = Defined(d)[k - 1]
  BY <1>1, <1>2 DEF InLine
<1>4. k \in 1 .. Len(d) /\ DefinitionIs(d, text, k)
  BY <1>1, <1>3, DefinitionPlaces DEF InDefinition
<1>5. /\ bp < Size /\ EqualsAt(d, k) \in Nat
      /\ \/ bp = EqualsAt(d, k) /\ Char(text, bp) = "="
         \/ bp < EqualsAt(d, k) /\ bp = NameEnd(d, k) /\ Char(text, bp) \in Space
  BY <1>0, <1>3, <1>4, BehindName
<1>6. At(bp) = {Char(text, bp)}
  BY <1>0, <1>5
<1> QED
  BY <1>1, <1>3, <1>4, <1>5, <1>6

\* The spaces up to the '='.
LEMMA AssignSpaceFollows == ASSUME Reached, NEW d, Follows(d), AssignSpace PROVE Follows(d)'
<1>0. text \in Seq(Chars) /\ Size \in Nat /\ bp \in Nat /\ reach \in Nat
  BY Numbers
<1>1. WrittenFrom(d, text) /\ status /\ reach <= Size /\ Len(d) \in Nat
  BY Layout DEF Follows
<1>2. /\ pc = "assign" /\ At(bp) \cap Space # {} /\ bp' = Skip(bp, Space) /\ Read(bp)
      /\ pc' = "top" /\ UNCHANGED <<text, state, status, name, value, items>>
  BY DEF AssignSpace, values
<1>3. PICK k \in 1 .. Len(d) :
        /\ InDefinition(d, k) /\ DefinitionIs(d, text, k) /\ name = NameOf(d, k)
        /\ Meaning(text, items) = Defined(d)[k - 1]
        /\ bp < Size /\ At(bp) = {Char(text, bp)} /\ EqualsAt(d, k) \in Nat
        /\ \/ bp = EqualsAt(d, k) /\ Char(text, bp) = "="
           \/ bp < EqualsAt(d, k) /\ bp = NameEnd(d, k) /\ Char(text, bp) \in Space
  BY <1>2, AtAssign
<1>4. state = "assign"
  BY <1>2, AtAssign
<1>5. bp < EqualsAt(d, k) /\ bp = NameEnd(d, k)
  <2>1. "=" \notin Space
    BY Kinds
  <2> QED
    BY <1>2, <1>3, <2>1
<1> DEFINE q == EqualsAt(d, k)
<1>6. /\ q < Size /\ Char(text, q) = "="
      /\ \A l \in bp .. q - 1 : Char(text, l) \in Space
  <2>1. Size = Len(text)
    BY DEF Size
  <2>2. q < Size /\ Char(text, q) = "="
    BY <1>0, <1>3, <2>1, BehindName
  <2>3. \A l \in bp .. q - 1 : Char(text, l) \in Space
    BY <1>3, <1>5 DEF DefinitionIs
  <2> QED
    BY <2>2, <2>3
<1>7. bp' = q
  <2>1. q \in Nat /\ bp < q
    BY <1>3, <1>5
  <2> HIDE DEF q
  <2>2. bp + 1 <= q /\ q <= Size /\ \A l \in bp + 1 .. q - 1 : Char(text, l) \in Space
    BY <1>0, <1>6, <2>1
  <2>3. Char(text, q) \notin Space
    BY <1>6, Kinds
  <2> QED
    BY <1>0, <1>2, <2>1, <2>2, <2>3, SkipTo
<1>8. reach' <= Size /\ Size' = Size
  BY <1>0, <1>1, <1>2, <1>3, ReadIs DEF Size
<1>9. InLine(d, k)' /\ k \in 1 .. Len(d) + 1
  BY <1>1, <1>2, <1>3, <1>4, <1>7 DEF InLine
<1> QED
  BY <1>1, <1>2, <1>8, <1>9 DEF Follows

\* The '=', and the spaces up to the value.
LEMMA AssignFollows == ASSUME Reached, NEW d, Follows(d), Assign PROVE Follows(d)'
<1>0. text \in Seq(Chars) /\ Size \in Nat /\ bp \in Nat /\ reach \in Nat /\ Size = Len(text)
  BY Numbers DEF Size
<1>1. WrittenFrom(d, text) /\ status /\ reach <= Size /\ Len(d) \in Nat
  BY Layout DEF Follows
<1>2. /\ pc = "assign" /\ "=" \in At(bp) /\ bp' = Skip(bp, Space) /\ Read(bp)
      /\ pc' = "value" /\ state' = "value" /\ UNCHANGED <<text, status, name, value, items>>
  BY DEF Assign, values
<1>3. PICK k \in 1 .. Len(d) :
        /\ InDefinition(d, k) /\ DefinitionIs(d, text, k) /\ name = NameOf(d, k)
        /\ Meaning(text, items) = Defined(d)[k - 1]
        /\ bp < Size /\ At(bp) = {Char(text, bp)} /\ EqualsAt(d, k) \in Nat
        /\ \/ bp = EqualsAt(d, k) /\ Char(text, bp) = "="
           \/ bp < EqualsAt(d, k) /\ bp = NameEnd(d, k) /\ Char(text, bp) \in Space
  BY <1>2, AtAssign
<1>4. bp = EqualsAt(d, k)
  <2>1. "=" \notin Space
    BY Kinds
  <2> QED
    BY <1>2, <1>3, <2>1
<1> DEFINE q == QuoteAt(d, k)
<1>5. /\ q \in Nat /\ bp < q /\ q < Size /\ Char(text, q) \notin Space
      /\ \A l \in bp + 1 .. q - 1 : Char(text, l) \in Space
  <2>1. /\ q \in Nat /\ bp < q /\ \A l \in bp + 1 .. q - 1 : Char(text, l) \in Space
    BY <1>3, <1>4 DEF DefinitionIs
  <2>2. q < Size /\ Char(text, q) \notin Space
    <3>1. d[k].quoted \in BOOLEAN
      BY <1>1, QuotedOrNot
    <3> QED
      BY <1>0, <1>3, <3>1, ValueBegins
  <2> QED
    BY <2>1, <2>2
<1>6. bp' = q
  <2> HIDE DEF q
  <2>1. bp + 1 <= q /\ q <= Size
    BY <1>0, <1>5
  <2> QED
    BY <1>0, <1>2, <1>5, <2>1, SkipTo
<1>7. reach' <= Size /\ Size' = Size
  BY <1>0, <1>1, <1>2, <1>3, ReadIs DEF Size
<1>8. InLine(d, k)' /\ k \in 1 .. Len(d) + 1
  BY <1>1, <1>2, <1>3, <1>6 DEF InLine
<1> QED
  BY <1>1, <1>2, <1>7, <1>8 DEF Follows

\* A legible definition has a '='.
LEMMA NoAssignNever == ASSUME Reached, NEW d, Follows(d), NoAssign PROVE FALSE
<1>1. pc = "assign" /\ At(bp) \ (Space \cup {"="}) # {}
  BY DEF NoAssign
<1>2. At(bp) = {"="} \/ \E c \in Space : At(bp) = {c}
  BY <1>1, AtAssign
<1> QED
  BY <1>1, <1>2

\* At the beginning of a value.
LEMMA AtValue ==
  ASSUME Reached, NEW d, Follows(d), pc = "value"
  PROVE  /\ \E k \in 1 .. Len(d) :
              /\ InDefinition(d, k) /\ DefinitionIs(d, text, k) /\ name = NameOf(d, k)
              /\ Meaning(text, items) = Defined(d)[k - 1] /\ d[k].quoted \in BOOLEAN
              /\ bp = QuoteAt(d, k) /\ bp < Size /\ At(bp) = {Char(text, bp)}
              /\ Char(text, bp) \notin Space \cup Eol /\ (Char(text, bp) = "quote" <=> d[k].quoted)
<1>0. /\ Size \in Nat /\ bp \in Nat /\ Size = Len(text)
      /\ \A n \in 0 .. Size - 1 : At(n) = {Char(text, n)}
  BY Numbers DEF Size
<1>1. WrittenFrom(d, text)
  BY DEF Follows
<1>2. PICK k \in 1 .. Len(d) + 1 : InLine(d, k)
  BY DEF Follows
<1>3. /\ InDefinition(d, k) /\ name = NameOf(d, k) /\ bp = QuoteAt(d, k)
      /\ Meaning(text, items) = Defined(d)[k - 1]
  BY <1>2 DEF InLine
<1>4. k \in 1 .. Len(d) /\ DefinitionIs(d, text, k) /\ d[k].quoted \in BOOLEAN
  BY <1>1, <1>3, DefinitionPlaces, QuotedOrNot DEF InDefinition
<1>5. /\ bp < Size /\ Char(text, bp) \notin Space \cup Eol
      /\ Char(text, bp) = "quote" <=> d[k].quoted
  BY <1>0, <1>3, <1>4, ValueBegins
<1>6. At(bp) = {Char(text, bp)}
  BY <1>0, <1>5
<1> QED
  BY <1>3, <1>4, <1>5, <1>6

\* A legible definition has a value, and no more spaces before it.
LEMMA ValueSpaceNever ==
  ASSUME Reached, NEW d, Follows(d), ValueSpace \/ NoValue PROVE FALSE
<1>1. pc = "value" /\ At(bp) \cap (Space \cup Eol) # {}
  BY DEF ValueSpace, NoValue
<1>2. \E c : At(bp) = {c} /\ c \notin Space \cup Eol
  BY <1>1, AtValue
<1> QED
  BY <1>1, <1>2

\* A value between quotes begins.
LEMMA OpenQuoteFollows == ASSUME Reached, NEW d, Follows(d), OpenQuote PROVE Follows(d)'
<1>0. Size \in Nat /\ bp \in Nat /\ reach \in Nat
  BY Numbers
<1>1. WrittenFrom(d, text) /\ status /\ reach <= Size /\ Len(d) \in Nat
  BY Layout DEF Follows
<1>2. /\ pc = "value" /\ "quote" \in At(bp) /\ value' = [start |-> bp + 1, end |-> -1] /\ Read(bp)
      /\ pc' = "quoted" /\ UNCHANGED <<text, state, status, bp, name, items>>
  BY DEF OpenQuote
<1>3. PICK k \in 1 .. Len(d) :
        /\ InDefinition(d, k) /\ DefinitionIs(d, text, k) /\ name = NameOf(d, k)
        /\ Meaning(text, items) = Defined(d)[k - 1]
        /\ bp = QuoteAt(d, k) /\ bp < Size /\ At(bp) = {Char(text, bp)}
        /\ Char(text, bp) = "quote" <=> d[k].quoted
  BY <1>2, AtValue
<1>4. d[k].quoted /\ Char(text, bp) = "quote"
  BY <1>2, <1>3
<1>5. /\ ValueAt(d, k) = bp + 1 /\ ValueAt(d, k) <= ValueEnd(d, k)
      /\ ValueAt(d, k) \in Nat /\ ValueEnd(d, k) \in Nat
  BY <1>3, <1>4 DEF DefinitionIs
<1>6. bp \in QuoteAt(d, k) .. ValueEnd(d, k) - 1 /\ ~Escapes(text, bp)
  <2>1. bp \in QuoteAt(d, k) .. ValueEnd(d, k) - 1
    BY <1>0, <1>3, <1>5
  <2> QED
    BY <1>4, <2>1 DEF Escapes
<1>7. reach' <= Size /\ Size' = Size
  BY <1>0, <1>1, <1>2, <1>3, ReadIs DEF Size
<1>8. value'.start = ValueAt(d, k)
  BY <1>2, <1>5
<1>9. InLine(d, k)' /\ k \in 1 .. Len(d) + 1
  BY <1>1, <1>2, <1>3, <1>4, <1>6, <1>8 DEF InLine
<1> QED
  BY <1>1, <1>2, <1>7, <1>9 DEF Follows

\* Within quotes a quote is behind a backslash that takes it along, and a step
\* over a backslash or the end of a line does not get to the end of the value.
LEMMA WithinQuotes ==
  ASSUME NEW d, NEW t, NEW k, DefinitionIs(d, t, k), Len(t) \in Nat, d[k].quoted,
         NEW p \in ValueAt(d, k) .. ValueEnd(d, k)
  PROVE  /\ ValueAt(d, k) \in Nat /\ ValueEnd(d, k) \in Nat /\ ValueEnd(d, k) < Len(t)
         /\ ValueAt(d, k) = QuoteAt(d, k) + 1 /\ p \in Nat
         /\ p = ValueEnd(d, k) => Char(t, p) = "quote"
         /\ p < ValueEnd(d, k) /\ Char(t, p) = "quote" =>
              /\ p > ValueAt(d, k) /\ Char(t, p - 1) = "backslash"
              /\ p - 2 >= ValueAt(d, k) => Char(t, p - 2) \notin Eol
         /\ p < ValueEnd(d, k) /\ Char(t, p) \in Eol \cup {"backslash"} => p + 1 < ValueEnd(d, k)
<1> DEFINE n == ValueAt(d, k)
           m == ValueEnd(d, k)
           v == d[k].value
<1>1. /\ n \in Nat /\ m \in Nat /\ EolAt(d, k) \in Nat /\ EolAt(d, k) <= Len(t)
      /\ m = n + Len(v) /\ Len(v) \in Nat
      /\ n = QuoteAt(d, k) + 1 /\ EolAt(d, k) = m + 1 /\ Char(t, m) = "quote"
      /\ Quotable(v)
      /\ \A l \in n .. m - 1 : l - n + 1 \in 1 .. Len(v) /\ Char(t, l) = v[l - n + 1]
  BY DEF DefinitionIs
<1>2. /\ \A i \in DOMAIN v : v[i] = "quote" =>
           i > 1 /\ v[i - 1] = "backslash" /\ (i > 2 => v[i - 2] \notin Eol)
      /\ v # <<>> => v[Len(v)] \notin Eol \cup {"backslash"}
  BY <1>1 DEF Quotable
<1>3. DOMAIN v = 1 .. Len(v) /\ (Len(v) # 0 => v # <<>>)
  <2>1. v \in Seq(Chars)
    BY DEF DefinitionIs
  <2> QED
    BY <2>1
<1> HIDE DEF n, m, v
<1>5. p \in Nat /\ p >= n /\ p <= m /\ m < Len(t)
  BY <1>1 DEF n, m
<1>6. ASSUME p < m, Char(t, p) = "quote"
      PROVE  p > n /\ Char(t, p - 1) = "backslash" /\ (p - 2 >= n => Char(t, p - 2) \notin Eol)
  <2> DEFINE i == p - n + 1
  <2>1. i \in 1 .. Len(v) /\ v[i] = "quote"
    BY <1>1, <1>5, <1>6
  <2>2. i > 1 /\ v[i - 1] = "backslash" /\ (i > 2 => v[i - 2] \notin Eol)
    BY <1>2, <1>3, <2>1
  <2>3. p > n
    BY <1>1, <1>5, <2>2
  <2>4. p - 1 \in n .. m - 1 /\ (p - 1) - n + 1 = i - 1
    BY <1>1, <1>5, <2>3
  <2>5. Char(t, p - 1) = v[i - 1]
    BY <1>1, <2>4
  <2>6. p - 2 >= n => p - 2 \in n .. m - 1 /\ (p - 2) - n + 1 = i - 2 /\ i > 2
    BY <1>1, <1>5
  <2>7. p - 2 >= n => Char(t, p - 2) = v[i - 2] /\ i > 2
    BY <1>1, <2>6
  <2> QED
    BY <2>2, <2>3, <2>5, <2>7
<1>7. ASSUME p < m, Char(t, p) \in Eol \cup {"backslash"} PROVE p + 1 < m
  <2>1. p \in n .. m - 1
    BY <1>1, <1>5, <1>7
  <2>2. p - n + 1 \in 1 .. Len(v) /\ Char(t, p) = v[p - n + 1]
    BY <1>1, <2>1
  <2>3. v[Len(v)] \notin Eol \cup {"backslash"}
    BY <1>1, <1>2, <1>3, <2>2
  <2>4. p - n + 1 # Len(v)
    BY <1>7, <2>2, <2>3
  <2>5. n \in Nat /\ p \in Nat /\ Len(v) \in Nat /\ m = n + Len(v) /\ p - n + 1 <= Len(v)
    BY <1>1, <1>5, <2>2
  <2> QED
    BY ONLY <2>4, <2>5
<1> QED
  BY <1>1, <1>5, <1>6, <1>7 DEF n, m

\* A turn of the loop within quotes stays in the value, or ends at its quote.
LEMMA QuotedFollows == ASSUME Reached, NEW d, Follows(d), Quoted PROVE Follows(d)'
<1>0. /\ text \in Seq(Chars) /\ Size \in Nat /\ bp \in Nat /\ reach \in Nat /\ Size = Len(text)
      /\ \A l \in 0 .. Size - 1 : At(l) = {Char(text, l)} /\ Char(text, l) \in Chars
  BY Numbers DEF Size
<1>1. WrittenFrom(d, text) /\ status /\ reach <= Size /\ Len(d) \in Nat
  BY Layout DEF Follows
<1>2. pc = "quoted" /\ UNCHANGED <<text, state, status, name, value, items>>
  BY DEF Quoted, values
<1>3. PICK k \in 1 .. Len(d) + 1 : InLine(d, k)
  BY DEF Follows
<1>4. /\ InDefinition(d, k) /\ name = NameOf(d, k) /\ d[k].quoted /\ value.start = ValueAt(d, k)
      /\ bp \in QuoteAt(d, k) .. ValueEnd(d, k) - 1 /\ ~Escapes(text, bp)
      /\ Meaning(text, items) = Defined(d)[k - 1]
  BY <1>2, <1>3 DEF InLine
<1>5. DefinitionIs(d, text, k)
  BY <1>1, <1>4, DefinitionPlaces DEF InDefinition
<1> DEFINE p == bp + 1
           n == ValueAt(d, k)
           m == ValueEnd(d, k)
<1>6. n \in Nat /\ m \in Nat /\ m < Size /\ QuoteAt(d, k) = n - 1
  <2>1. QuoteAt(d, k) \in Nat /\ n \in Nat /\ m \in Nat /\ n = QuoteAt(d, k) + 1
        /\ m + 1 <= Size
    BY <1>0, <1>4, <1>5 DEF DefinitionIs
  <2> QED
    BY <1>0, <2>1
<1>7. p \in n .. m
  BY <1>4, <1>6
<1>8. ASSUME NEW l \in n .. m
      PROVE  /\ l \in Nat /\ l < Size /\ At(l) = {Char(text, l)}
             /\ l = m => Char(text, l) = "quote"
             /\ l < m /\ Char(text, l) = "quote" =>
                  /\ l > n /\ Char(text, l - 1) = "backslash"
                  /\ l - 2 >= n => Char(text, l - 2) \notin Eol
             /\ l < m /\ Char(text, l) \in Eol \cup {"backslash"} => l + 1 < m
  <2>1. l \in Nat /\ l < Size /\ l \in 0 .. Size - 1
    BY <1>0, <1>6
  <2> QED
    BY <1>0, <1>4, <1>5, <2>1, WithinQuotes
<1>9. /\ p \in Nat /\ p < Size /\ At(p) = {Char(text, p)} /\ p - 1 = bp /\ (p < m => p + 1 \in n .. m)
      /\ ~AtEnd(p)
  BY <1>0, <1>6, <1>7, <1>8 DEF AtEnd
<1>10. p < m /\ Char(text, p) = "quote" => Char(text, bp) = "backslash"
  BY <1>7, <1>8, <1>9
<1>11. ~(p < m /\ Char(text, p) = "quote")
  BY <1>4, <1>10 DEF Escapes
<1>12. Size' = Size
  BY <1>2 DEF Size
<1>13. CASE ~Goes(p)
  <2>1. bp' = p /\ pc' = "unquote" /\ Read(p)
    BY <1>9, <1>13 DEF Quoted
  <2>2. Char(text, p) = "quote"
    BY <1>9, <1>13 DEF Goes
  <2>3. p = m
    BY <1>6, <1>7, <1>11, <2>2
  <2>4. reach' <= Size
    BY <1>0, <1>1, <1>9, <2>1, ReadIs
  <2>5. InLine(d, k)'
    BY <1>2, <1>4, <2>1, <2>3 DEF InLine
  <2> QED
    BY <1>1, <1>2, <1>3, <1>12, <2>1, <2>4, <2>5 DEF Follows
<1>14. CASE Goes(p)
  <2>1. /\ \/ Escaped(p) /\ bp' = p + 1
           \/ ~Escaped(p) /\ Char(text, p) \in Eol /\ bp' \in AfterEol(p, Char(text, p))
           \/ ~Escaped(p) /\ Char(text, p) \notin Eol /\ bp' = p
        /\ Read(IF Char(text, p) \in {"backslash", "CR"} THEN p + 1 ELSE p)
        /\ pc' = "quoted"
    BY <1>2, <1>9, <1>14 DEF Quoted
  <2>2. Char(text, p) # "quote" /\ p < m
    <3>1. Char(text, p) # "quote"
      BY <1>9, <1>14 DEF Goes
    <3> QED
      BY <1>6, <1>7, <1>8, <3>1
  <2> HIDE DEF p, n, m
  <2>3. p + 1 \in n .. m /\ p + 1 < Size /\ At(p + 1) = {Char(text, p + 1)} /\ p + 1 \in Nat
    BY <1>8, <1>9, <2>2
  <2>4. reach' <= Size
    <3>1. Read(p) \/ Read(p + 1)
      BY <2>1
    <3> QED
      BY <1>0, <1>1, <1>9, <2>3, <3>1, ReadIs
  <2>5. bp' \in n - 1 .. m - 1 /\ ~Escapes(text, bp')
    <3>1. CASE Escaped(p) /\ bp' = p + 1
      <4>1. Char(text, p) = "backslash" /\ Char(text, p + 1) = "quote"
        BY <1>9, <2>3, <3>1 DEF Escaped
      <4>2. p + 1 < m
        BY <1>7, <1>8, <2>2, <4>1
      <4>3. p + 1 \in n - 1 .. m - 1
        BY <1>6, <2>3, <4>2
      <4> QED
        BY <3>1, <4>1, <4>3 DEF Escapes
    <3>2. CASE ~Escaped(p) /\ Char(text, p) \in Eol /\ bp' \in AfterEol(p, Char(text, p))
      <4>1. p + 1 < m
        BY <1>7, <1>8, <2>2, <3>2
      <4>2. bp' = p + 1 \/ (bp' = p + 2 /\ Char(text, p + 1) \in Eol)
        <5>1. \/ bp' = p + 1
              \/ bp' = p + 2 /\ (p + 1 < Size => Char(text, p + 1) \in Eol)
          BY <1>0, <1>9, <3>2, EolIs
        <5> QED
          BY <2>3, <5>1
      <4> DEFINE q == bp'
      <4>3. q \in n + 1 .. m - 1 /\ Char(text, q - 1) \in Eol
        <5>1. CASE bp' = p + 1
          <6>1. p + 1 \in n + 1 .. m - 1 /\ (p + 1) - 1 = p
            BY <1>6, <1>7, <1>9, <4>1
          <6> QED
            BY <3>2, <5>1, <6>1
        <5>2. CASE bp' = p + 2 /\ Char(text, p + 1) \in Eol
          <6>1. p + 1 + 1 < m
            BY <1>8, <2>3, <4>1, <5>2
          <6>2. p + 2 \in n + 1 .. m - 1 /\ (p + 2) - 1 = p + 1
            BY <1>6, <1>7, <1>9, <6>1
          <6> QED
            BY <5>2, <6>2
        <5> QED
          BY <4>2, <5>1, <5>2
      <4> HIDE DEF q
      <4>4. ~Escapes(text, q)
        <5> SUFFICES ASSUME Char(text, q) = "backslash", Char(text, q + 1) = "quote" PROVE FALSE
          BY DEF Escapes
        <5>1. q \in n .. m /\ q < m /\ q + 1 \in n .. m
          BY <1>6, <4>3
        <5>2. q + 1 < m
          BY <1>8, <5>1
        <5>3. (q + 1) - 2 >= n /\ (q + 1) - 2 = q - 1
          BY <1>6, <4>3
        <5>4. Char(text, (q + 1) - 2) \notin Eol
          BY <1>8, <5>1, <5>2, <5>3
        <5> QED
          BY <4>3, <5>3, <5>4
      <4>5. q \in n - 1 .. m - 1
        BY <1>6, <4>3
      <4> QED
        BY <4>4, <4>5 DEF q
    <3>3. CASE ~Escaped(p) /\ bp' = p
      <4>1. ~Escapes(text, p)
        BY <1>9, <2>3, <3>3 DEF Escaped, Escapes
      <4>2. p \in n - 1 .. m - 1
        BY <1>6, <1>7, <1>9, <2>2
      <4> QED
        BY <3>3, <4>1, <4>2
    <3> QED
      BY <2>1, <3>1, <3>2, <3>3
  <2>6. bp' \in QuoteAt(d, k) .. ValueEnd(d, k) - 1 /\ ~Escapes(text, bp')
    BY <1>6, <2>5 DEF n, m
  <2>7. InLine(d, k)'
    BY <1>2, <1>4, <2>1, <2>6 DEF InLine
  <2> QED
    BY <1>1, <1>2, <1>3, <1>12, <2>1, <2>4, <2>7 DEF Follows
<1> QED
  BY <1>13, <1>14

\* At the closing quote.
LEMMA AtUnquote ==
  ASSUME Reached, NEW d, Follows(d), pc = "unquote"
  PROVE  \E k \in 1 .. Len(d) :
           /\ InDefinition(d, k) /\ DefinitionIs(d, text, k) /\ name = NameOf(d, k)
           /\ Meaning(text, items) = Defined(d)[k - 1]
           /\ value.start = ValueAt(d, k) /\ bp = ValueEnd(d, k) /\ EolAt(d, k) = bp + 1
           /\ bp < Size /\ At(bp) = {"quote"}
<1>0. /\ Size \in Nat /\ bp \in Nat /\ Size = Len(text)
      /\ \A n \in 0 .. Size - 1 : At(n) = {Char(text, n)}
  BY Numbers DEF Size
<1>1. WrittenFrom(d, text)
  BY DEF Follows
<1>2. PICK k \in 1 .. Len(d) + 1 : InLine(d, k)
  BY DEF Follows
<1>3. /\ InDefinition(d, k) /\ name = NameOf(d, k) /\ d[k].quoted
      /\ value.start = ValueAt(d, k) /\ bp = ValueEnd(d, k)
      /\ Meaning(text, items) = Defined(d)[k - 1]
  BY <1>2 DEF InLine
<1>4. k \in 1 .. Len(d) /\ DefinitionIs(d, text, k)
  BY <1>1, <1>3, DefinitionPlaces DEF InDefinition
<1>5. EolAt(d, k) = bp + 1 /\ Char(text, bp) = "quote" /\ EolAt(d, k) <= Size
  BY <1>0, <1>3, <1>4 DEF DefinitionIs
<1>6. bp < Size /\ At(bp) = {"quote"}
  BY <1>0, <1>5
<1> QED
  BY <1>3, <1>4, <1>5, <1>6

\* A legible value is closed.
LEMMA UnclosedNever == ASSUME Reached, NEW d, Follows(d), Unclosed PROVE FALSE
<1>1. pc = "unquote" /\ At(bp) \ {"quote"} # {}
  BY DEF Unclosed
<1> QED
  BY <1>1, AtUnquote

\* The closing quote ends the value.
LEMMA CloseQuoteFollows == ASSUME Reached, NEW d, Follows(d), CloseQuote PROVE Follows(d)'
<1>0. Size \in Nat /\ bp \in Nat /\ reach \in Nat /\ value \in Span
  BY Numbers
<1>1. WrittenFrom(d, text) /\ status /\ reach <= Size /\ Len(d) \in Nat
  BY Layout DEF Follows
<1>2. /\ pc = "unquote" /\ value' = [value EXCEPT !.end = bp] /\ bp' = bp + 1 /\ Read(bp)
      /\ state' = "close" /\ pc' = "close" /\ UNCHANGED <<text, status, name, items>>
  BY DEF CloseQuote
<1>3. PICK k \in 1 .. Len(d) :
        /\ InDefinition(d, k) /\ name = NameOf(d, k)
        /\ Meaning(text, items) = Defined(d)[k - 1]
        /\ value.start = ValueAt(d, k) /\ bp = ValueEnd(d, k) /\ EolAt(d, k) = bp + 1
        /\ bp < Size
  BY <1>2, AtUnquote
<1>4. value' = ValueOf(d, k)
  BY <1>0, <1>2, <1>3 DEF ValueOf, Span
<1>5. reach' <= Size /\ Size' = Size
  BY <1>0, <1>1, <1>2, <1>3, ReadIs DEF Size
<1>6. InLine(d, k)' /\ k \in 1 .. Len(d) + 1
  BY <1>1, <1>2, <1>3, <1>4 DEF InLine
<1> QED
  BY <1>1, <1>2, <1>5, <1>6 DEF Follows

\* A value without quotes is read to its end.
LEMMA ReadValueFollows == ASSUME Reached, NEW d, Follows(d), ReadValue PROVE Follows(d)'
<1>0. text \in Seq(Chars) /\ Size \in Nat /\ bp \in Nat /\ reach \in Nat /\ Size = Len(text)
  BY Numbers DEF Size
<1>1. WrittenFrom(d, text) /\ status /\ reach <= Size /\ Len(d) \in Nat
  BY Layout DEF Follows
<1>2. /\ pc = "value" /\ At(bp) \ (Space \cup Eol \cup {"quote"}) # {}
      /\ bp' = (IF bp >= Size THEN bp ELSE Skip(bp, Inline \ Space))
      /\ value' = [start |-> bp, end |-> bp'] /\ Read(bp')
      /\ state' = "close" /\ pc' = "close" /\ UNCHANGED <<text, status, name, items>>
  BY DEF ReadValue, AtEnd
<1>3. PICK k \in 1 .. Len(d) :
        /\ InDefinition(d, k) /\ DefinitionIs(d, text, k) /\ name = NameOf(d, k)
        /\ Meaning(text, items) = Defined(d)[k - 1] /\ d[k].quoted \in BOOLEAN
        /\ bp = QuoteAt(d, k) /\ bp < Size /\ At(bp) = {Char(text, bp)}
        /\ Char(text, bp) = "quote" <=> d[k].quoted
  BY <1>2, AtValue
<1>4. ~d[k].quoted
  BY <1>2, <1>3
<1> DEFINE q == ValueEnd(d, k)
<1>5. /\ q \in Nat /\ ValueAt(d, k) = bp /\ EolAt(d, k) = q /\ bp < q /\ q <= Size
      /\ \A l \in bp .. q - 1 : Char(text, l) \in Chars \ (Space \cup Eol)
  BY <1>0, <1>3, <1>4 DEF DefinitionIs
<1>6. q < Size => Char(text, q) \in Eol
  BY <1>1, <1>5, LineIs
<1>7. bp' = q
  <2>1. bp' = Skip(bp, Inline \ Space)
    BY <1>0, <1>2, <1>3
  <2> HIDE DEF q
  <2>2. \A l \in bp + 1 .. q - 1 : Char(text, l) \in Inline \ Space
    <3> SUFFICES ASSUME NEW l \in bp + 1 .. q - 1 PROVE Char(text, l) \in Inline \ Space
      OBVIOUS
    <3>1. l \in bp .. q - 1
      BY <1>0, <1>5
    <3> QED
      BY <1>5, <3>1, Kinds
  <2>3. q < Size => Char(text, q) \notin Inline \ Space
    BY <1>6, Kinds
  <2>4. bp + 1 <= q
    BY <1>0, <1>5
  <2> QED
    BY <1>0, <1>5, <2>1, <2>2, <2>3, <2>4, SkipTo
<1>8. reach' <= Size /\ Size' = Size
  <2>1. Read(q)
    BY <1>2, <1>7
  <2> HIDE DEF q
  <2> QED
    BY <1>0, <1>1, <1>2, <1>5, <2>1, ReadIs DEF Size
<1>9. value' = ValueOf(d, k)
  BY <1>2, <1>5, <1>7 DEF ValueOf
<1>10. InLine(d, k)' /\ k \in 1 .. Len(d) + 1
  BY <1>1, <1>2, <1>3, <1>5, <1>7, <1>9 DEF InLine
<1> QED
  BY <1>1, <1>2, <1>8, <1>10 DEF Follows

\* The end of a definition, which becomes an item.
LEMMA CloseLineFollows == ASSUME Reached, NEW d, Follows(d), CloseLine PROVE Follows(d)'
<1>0. /\ text \in Seq(Chars) /\ Size \in Nat /\ bp \in Nat /\ reach \in Nat /\ At(Size) = {NUL}
      /\ \A n \in 0 .. Size - 1 : At(n) = {Char(text, n)}
      /\ name \in Span /\ value \in Span /\ items \in Seq([name : Span, value : Span])
  BY Numbers
<1>1. WrittenFrom(d, text) /\ status /\ reach <= Size /\ Len(d) \in Nat /\ d \in Seq(Line)
  BY Layout DEF Follows
<1>2. PICK j \in 1 .. Len(d) + 1 : InLine(d, j)
  BY DEF Follows
<1>3. pc = "close" /\ state' = "global" /\ text' = text
  BY DEF CloseLine
<1>4. /\ InDefinition(d, j) /\ name = NameOf(d, j) /\ value = ValueOf(d, j) /\ bp = EolAt(d, j)
      /\ Meaning(text, items) = Defined(d)[j - 1]
  BY <1>2, <1>3 DEF InLine
<1>5. j \in 1 .. Len(d) /\ d[j].kind = "definition" /\ DefinitionIs(d, text, j)
  BY <1>1, <1>4, DefinitionPlaces DEF InDefinition
<1>6. /\ EolAt(d, j) <= Size
      /\ EolAt(d, j) < Size => Char(text, EolAt(d, j)) \in Eol
      /\ EolAt(d, j) = Size => j = Len(d)
  BY <1>1, <1>5, LineIs
<1>7. /\ status' = status /\ reach' <= Size
      /\ \E m \in 1 .. Len(d) + 1 : bp' = Start(d, m) /\ Defined(d)[m - 1] = Defined(d)[j]
  <2>1. PICK c \in At(bp) :
          IF c \in Eol THEN EolRead(c) /\ UNCHANGED status
          ELSE /\ Read(bp)
               /\ IF AtEnd(bp) THEN UNCHANGED <<bp, status>>
                               ELSE bp' = Skip(bp, Inline) /\ Reject
    BY DEF CloseLine
  <2>2. CASE bp < Size
    <3>1. c \in Eol
      BY <1>0, <1>4, <1>6, <2>1, <2>2
    <3>2. EolRead(c) /\ UNCHANGED status
      BY <2>1, <3>1
    <3> QED
      BY <1>1, <1>4, <1>5, <2>1, <3>1, <3>2, EolStep
  <2>3. CASE ~(bp < Size)
    <3>1. bp = Size /\ j = Len(d)
      BY <1>0, <1>4, <1>6, <2>3
    <3>2. c \notin Eol
      BY <1>0, <2>1, <3>1, Kinds
    <3>3. Read(bp) /\ UNCHANGED <<bp, status>>
      BY <1>0, <2>1, <3>1, <3>2 DEF AtEnd
    <3>4. reach' <= Size
      BY <1>0, <1>1, <3>1, <3>3, ReadIs
    <3>5. bp' = Start(d, Len(d) + 1)
      BY <1>1, <3>1, <3>3, Layout DEF Size
    <3>6. Len(d) + 1 \in 1 .. Len(d) + 1 /\ (Len(d) + 1) - 1 = j
      BY <1>1, <3>1
    <3> QED
      BY <3>3, <3>4, <3>5, <3>6
  <2> QED
    BY <2>2, <2>3
<1> DEFINE item == [name |-> name, value |-> value]
<1>8. items' = <<item>> \o items /\ pc' = "top"
  <2>1. value # NoSpan
    <3>1. value.start = ValueAt(d, j)
      BY <1>4 DEF ValueOf
    <3>2. ValueAt(d, j) > 0
      BY <1>5 DEF DefinitionIs
    <3> QED
      BY <3>1, <3>2 DEF NoSpan
  <2>2. IF status' THEN AddItem ELSE pc' = "top" /\ UNCHANGED items
    BY DEF CloseLine
  <2>3. AddItem
    BY <1>1, <1>7, <2>2
  <2> QED
    BY <2>1, <2>3 DEF AddItem
<1>9. Meaning(text, items') = <<Said(text, item)>> \o Meaning(text, items)
  <2>1. item \in [name : Span, value : Span]
    BY <1>0
  <2> HIDE DEF item
  <2> QED
    BY <1>0, <1>8, <2>1, MeaningGrows
<1>10. Said(text, item) = <<d[j].name, d[j].value>>
  <2>1. /\ SubSeq(text, NameAt(d, j) + 1, NameEnd(d, j)) = d[j].name
        /\ SubSeq(text, ValueAt(d, j) + 1, ValueEnd(d, j)) = d[j].value
    BY <1>5 DEF DefinitionIs
  <2>2. /\ item.name.start = NameAt(d, j) /\ item.name.end = NameEnd(d, j)
        /\ item.value.start = ValueAt(d, j) /\ item.value.end = ValueEnd(d, j)
    BY <1>4 DEF NameOf, ValueOf
  <2> HIDE DEF item
  <2> QED
    BY <2>1, <2>2 DEF Said
<1> HIDE DEF item
<1>11. Meaning(text, items') = Defined(d)[j]
  <2>1. Defined(d)[j] = <<<<d[j].name, d[j].value>>>> \o Defined(d)[j - 1]
    BY <1>1, <1>5, DefinedIs
  <2> QED
    BY <1>4, <1>9, <1>10, <2>1
<1>12. PICK m \in 1 .. Len(d) + 1 : bp' = Start(d, m) /\ Defined(d)[m - 1] = Defined(d)[j]
  BY <1>7
<1> QED
  BY <1>1, <1>3, <1>7, <1>8, <1>11, <1>12, BeginsLine

\* The end of the text.
LEMMA FinishFollows == ASSUME Reached, NEW d, Follows(d), Finish PROVE Follows(d)'
<1>0. /\ Size \in Nat /\ bp \in Nat /\ Size = Len(text)
      /\ state \in {"global", "assign", "value", "close"}
  BY Numbers DEF Size
<1>1. WrittenFrom(d, text) /\ status /\ reach <= Size /\ Len(d) \in Nat /\ d \in Seq(Line)
  BY Layout DEF Follows
<1>2. PICK k \in 1 .. Len(d) + 1 : InLine(d, k)
  BY DEF Follows
<1>3. /\ pc = "top" /\ bp >= Size /\ status' = (status /\ state = "global")
      /\ items' = (IF status' THEN items ELSE <<>>) /\ pc' = "done"
      /\ UNCHANGED <<text, state, bp, name, value, reach>>
  BY DEF Finish, AtEnd, values
<1>4. state = "global"
  <2>1. state # "assign"
    <3> SUFFICES ASSUME state = "assign" PROVE FALSE
      OBVIOUS
    <3>1. InDefinition(d, k) /\ bp \in {NameEnd(d, k), EqualsAt(d, k)}
      BY <1>2, <1>3 DEF InLine
    <3>2. DefinitionIs(d, text, k)
      BY <1>1, <3>1, DefinitionPlaces DEF InDefinition
    <3>3. bp < Size
      BY <1>0, <3>1, <3>2, BehindName
    <3> QED
      BY <1>0, <1>3, <3>3
  <2>2. state \notin {"value", "close"}
    BY <1>2, <1>3 DEF InLine
  <2> QED
    BY <1>0, <2>1, <2>2
<1>5. status' /\ items' = items /\ Size' = Size
  BY <1>1, <1>3, <1>4 DEF Size
<1>6. /\ k = Len(d) + 1 \/ (k <= Len(d) /\ bp \in Start(d, k) .. NameAt(d, k))
      /\ Meaning(text, items) = Defined(d)[k - 1]
  BY <1>2, <1>3, <1>4 DEF InLine
<1>7. Defined(d)[k - 1] = Defined(d)[Len(d)]
  <2>1. CASE k = Len(d) + 1
    <3>1. k - 1 = Len(d)
      BY <1>1, <2>1
    <3> QED
      BY <3>1
  <2>2. CASE k # Len(d) + 1
    <3>1. k \in 1 .. Len(d) /\ bp \in Start(d, k) .. NameAt(d, k)
      BY <1>1, <1>6, <2>2
    <3>2. /\ Start(d, k) \in Nat /\ NameAt(d, k) \in Nat /\ EolAt(d, k) \in Nat
          /\ NameAt(d, k) <= EolAt(d, k) /\ EolAt(d, k) <= Size
          /\ EolAt(d, k) = Size => k = Len(d)
          /\ d[k].kind = "comment" => NameAt(d, k) < EolAt(d, k)
          /\ d[k].kind = "definition" => NameAt(d, k) < Size
      BY <1>1, <3>1, LineIs, NameBegins
    <3>3. NameAt(d, k) = Size /\ EolAt(d, k) = Size
      BY <1>0, <1>3, <3>1, <3>2
    <3>4. k = Len(d) /\ d[k].kind # "definition"
      BY <1>0, <3>2, <3>3
    <3> QED
      BY <1>1, <3>1, <3>4, DefinedIs
  <2> QED
    BY <2>1, <2>2
<1>8. InLine(d, k)'
  BY <1>3, <1>5, <1>6, <1>7 DEF InLine
<1> QED
  BY <1>1, <1>2, <1>3, <1>5, <1>8 DEF Follows

\* Each step follows the document.
LEMMA FollowsByStep == Reached /\ FollowsDocument /\ [Next]_vars => FollowsDocument'
<1> SUFFICES ASSUME Reached, FollowsDocument, [Next]_vars, NEW d \in document' PROVE Follows(d)'
  BY DEF FollowsDocument
<1>1. document' = document
  BY DEF Next, vars, Top, SkipBlank, ReadName, AssignSpace, Assign, NoAssign, ValueSpace, NoValue,
         OpenQuote, Quoted, Unclosed, CloseQuote, ReadValue, CloseLine, Finish
<1>2. Follows(d)
  BY <1>1 DEF FollowsDocument
<1>3. CASE UNCHANGED vars
  <2>1. UNCHANGED <<text, pc, state, status, bp, name, value, items, reach>>
    BY <1>3 DEF vars, values
  <2>2. Size' = Size
    BY <2>1 DEF Size
  <2>3. PICK k \in 1 .. Len(d) + 1 : InLine(d, k)
    BY <1>2 DEF Follows
  <2>4. InLine(d, k)'
    BY <2>1, <2>2, <2>3 DEF InLine
  <2> QED
    BY <1>2, <2>1, <2>2, <2>3, <2>4 DEF Follows
<1> QED
  BY <1>2, <1>3, TopFollows, SkipBlankFollows, ReadNameFollows, AssignSpaceFollows, AssignFollows,
     NoAssignNever, ValueSpaceNever, OpenQuoteFollows, QuotedFollows, UnclosedNever,
     CloseQuoteFollows, ReadValueFollows, CloseLineFollows, FinishFollows DEF Next

\* Every legible document is read as it was written: all that its lines define,
\* whatever they are, without an error and without a look beyond the buffer.
THEOREM DocumentsAreRead == Spec => []ReadAsWritten
<1>1. FollowsDocument => ReadAsWritten
  <2> SUFFICES ASSUME FollowsDocument, NEW d \in document
               PROVE  /\ pc # "crashed" /\ reach <= Size
                      /\ pc = "done" =>
                           /\ status
                           /\ [k \in DOMAIN items |-> <<Text(items[k].name), Text(items[k].value)>>]
                              = Defined(d)[Len(d)]
    BY DEF ReadAsWritten
  <2>1. Follows(d)
    BY DEF FollowsDocument
  <2>2. pc = "done" => Meaning(text, items) = Defined(d)[Len(d)]
    BY <2>1 DEF Follows, InLine
  <2>3. Meaning(text, items) = [k \in DOMAIN items |-> <<Text(items[k].name), Text(items[k].value)>>]
    BY DEF Meaning, Said, Text
  <2> QED
    BY <2>1, <2>2, <2>3 DEF Follows
<1>2. Reached /\ FollowsDocument /\ [Next]_vars => (Reached /\ FollowsDocument)'
  BY ReachedByStep, FollowsByStep
<1> QED
  BY <1>1, <1>2, ReachedAtFirst, FollowsAtFirst, PTL DEF Spec

===============================================================================
