----------------------------- MODULE NumberProofs -----------------------------
(***************************************************************************)
(* Numbers the components count with.  A counter that wraps, as the        *)
(* uint16_t counts of fields and entries do, is after any number of        *)
(* increments that number modulo its width.  The sums of Sums satisfy the  *)
(* equations that define them; this rests on induction over the naturals,  *)
(* stated for sets, since no prover here instantiates an operator: the     *)
(* numbers without a property have no least element.                       *)
(***************************************************************************)
EXTENDS Sums, WellFoundedInduction, TLAPS

-----------------------------------------------------------------------------
(* Remainders *)

\* A quotient and a remainder.
LEMMA Division ==
  ASSUME NEW a \in Nat, NEW m \in Nat, m > 0
  PROVE  a = m * (a \div m) + (a % m) /\ a % m \in 0 .. m - 1 /\ a \div m \in Nat
  OBVIOUS

\* A number below the width is its own remainder.
LEMMA SmallRemainder == ASSUME NEW a \in Nat, NEW m \in Nat, a < m PROVE a % m = a
  OBVIOUS

\* A positive multiple is no smaller than what it is a multiple of.
LEMMA AtLeastOnce == ASSUME NEW m \in Nat, m > 0, NEW q \in Int, q >= 1 PROVE m * q >= m
  OBVIOUS

\* A number has one remainder.
LEMMA OneRemainder ==
  ASSUME NEW m \in Nat, m > 0, NEW q \in Int, NEW p \in Int,
         NEW r \in 0 .. m - 1, NEW s \in 0 .. m - 1, m * q + r = m * p + s
  PROVE  r = s
<1>1. m * (q - p) = s - r /\ m * (p - q) = r - s
  OBVIOUS
<1>2. CASE q - p >= 1
  <2>1. m * (q - p) >= m
    BY <1>2, AtLeastOnce
  <2> QED
    BY <1>1, <2>1
<1>3. CASE p - q >= 1
  <2>1. m * (p - q) >= m
    BY <1>3, AtLeastOnce
  <2> QED
    BY <1>1, <2>1
<1>4. CASE p = q
  BY <1>4
<1> QED
  BY <1>2, <1>3, <1>4

\* Counting modulo the width is the count modulo the width.
LEMMA WrapStep ==
  ASSUME NEW a \in Nat, NEW m \in Nat, m > 0
  PROVE  ((a % m) + 1) % m = (a + 1) % m
<1> DEFINE r == a % m
           b == a + 1
<1>1. r \in 0 .. m - 1 /\ a \div m \in Nat /\ a = m * (a \div m) + r
  BY Division
<1>2. (r + 1) % m \in 0 .. m - 1 /\ (r + 1) \div m \in Nat /\ r + 1 = m * ((r + 1) \div m) + ((r + 1) % m)
  BY <1>1, Division
<1>3. b % m \in 0 .. m - 1 /\ b \div m \in Nat /\ b = m * (b \div m) + (b % m)
  BY Division
<1>4. m * ((a \div m) + ((r + 1) \div m)) + ((r + 1) % m) = m * (b \div m) + (b % m)
  <2> DEFINE qa == a \div m
             qr == (r + 1) \div m
             sr == (r + 1) % m
             qb == b \div m
             sb == b % m
  <2>1. /\ r \in Nat /\ a = m * qa + r /\ r + 1 = m * qr + sr /\ a + 1 = m * qb + sb
        /\ qa \in Nat /\ qr \in Nat /\ qb \in Nat /\ sr \in Nat /\ sb \in Nat
    BY <1>1, <1>2, <1>3
  <2> HIDE DEF r, qa, qr, sr, qb, sb
  <2>2. m * (qa + qr) = m * qa + m * qr
    BY <2>1
  <2> QED
    BY <2>1, <2>2 DEF qa, qr, sr, qb, sb
<1> HIDE DEF r, b
<1>5. (a \div m) + ((r + 1) \div m) \in Int /\ b \div m \in Int
  BY <1>1, <1>2, <1>3
<1>6. (r + 1) % m = b % m
  BY ONLY <1>2, <1>3, <1>4, <1>5, m \in Nat, m > 0, OneRemainder
<1> QED
  BY <1>6 DEF r, b

-----------------------------------------------------------------------------
(* Induction *)

\* Numbers have a least one.
LEMMA Least == ASSUME NEW S \in SUBSET Nat, S # {} PROVE \E x \in S : \A y \in S : x <= y
<1>1. PICK x \in S : \A y \in S : ~(<<y, x>> \in OpToRel(<, Nat))
  BY NatLessThanWellFounded, WFMin
<1>2. \A y \in S : ~(y < x)
  BY <1>1 DEF OpToRel
<1> QED
  BY <1>2

\* Induction: what holds of zero, and of a number's successor if it holds of
\* the number, holds of every number.
LEMMA Induction ==
  ASSUME NEW S, 0 \in S, \A n \in Nat : n \in S => n + 1 \in S
  PROVE  Nat \subseteq S
<1> DEFINE T == {n \in Nat : n \notin S}
<1> SUFFICES ASSUME T # {} PROVE FALSE
  OBVIOUS
<1>1. PICK x \in T : \A y \in T : x <= y
  <2> HIDE DEF T
  <2>1. T \subseteq Nat
    BY DEF T
  <2> QED
    BY <2>1, Least
<1>2. x \in Nat /\ x \notin S /\ x # 0
  OBVIOUS
<1> DEFINE y == x - 1
<1>3. y \in Nat /\ y < x /\ x = y + 1
  BY <1>2
<1> HIDE DEF y
<1>4. y \in S
  BY <1>1, <1>3
<1> QED
  BY <1>2, <1>3, <1>4

\* The same up to a bound.
LEMMA BoundedInduction ==
  ASSUME NEW m \in Nat, NEW S, 0 \in S, \A n \in 0 .. m - 1 : n \in S => n + 1 \in S
  PROVE  0 .. m \subseteq S
<1> DEFINE T == {n \in Nat : n <= m => n \in S}
<1>1. 0 \in T /\ \A n \in Nat : n \in T => n + 1 \in T
  OBVIOUS
<1> HIDE DEF T
<1>2. Nat \subseteq T
  BY <1>1, Induction
<1> QED
  BY <1>2 DEF T

-----------------------------------------------------------------------------
(* Sums *)

\* The sums of a sequence of numbers, as equations.
LEMMA SumsAre ==
  ASSUME NEW s \in Seq(Nat)
  PROVE  /\ Sums(s) \in [0 .. Len(s) -> Nat]
         /\ Sums(s)[0] = 0
         /\ \A k \in 1 .. Len(s) : Sums(s)[k] = Sums(s)[k - 1] + s[k]
<1> DEFINE Steps(f, n) ==
             /\ f \in [0 .. n -> Nat]
             /\ f[0] = 0
             /\ \A k \in 1 .. n : f[k] = f[k - 1] + s[k]
           Some == {n \in Nat : \E f \in [0 .. n -> Nat] : Steps(f, n)}
<1>0. Len(s) \in Nat /\ \A k \in 1 .. Len(s) : s[k] \in Nat
  OBVIOUS
<1>1. 0 \in Some
  <2> DEFINE f == [k \in 0 .. 0 |-> 0]
  <2>1. f \in [0 .. 0 -> Nat] /\ Steps(f, 0)
    OBVIOUS
  <2> HIDE DEF f
  <2> QED
    BY <2>1
<1>2. ASSUME NEW n \in 0 .. Len(s) - 1, n \in Some PROVE n + 1 \in Some
  <2>1. PICK f \in [0 .. n -> Nat] : Steps(f, n)
    BY <1>2
  <2> DEFINE m == n + 1
             g == [k \in 0 .. m |-> IF k = m THEN f[n] + s[m] ELSE f[k]]
  <2>2. s[m] \in Nat /\ f[n] \in Nat /\ m \in Nat /\ n = m - 1
    BY <1>0, <2>1
  <2>3. g \in [0 .. m -> Nat] /\ g[0] = 0
    BY <2>1, <2>2
  <2>4. \A k \in 1 .. m : g[k] = g[k - 1] + s[k]
    <3> SUFFICES ASSUME NEW k \in 1 .. m PROVE g[k] = g[k - 1] + s[k]
      OBVIOUS
    <3>1. CASE k = m
      BY <2>2, <3>1
    <3>2. CASE k # m
      <4>1. k \in 1 .. n /\ k \in 0 .. m /\ k - 1 \in 0 .. m /\ k - 1 # m
        BY <2>2, <3>2
      <4>2. g[k] = f[k] /\ g[k - 1] = f[k - 1] /\ f[k] = f[k - 1] + s[k]
        BY <2>1, <3>2, <4>1
      <4> QED
        BY <4>2
    <3> QED
      BY <3>1, <3>2
  <2> HIDE DEF g
  <2>5. Steps(g, m)
    BY <2>3, <2>4
  <2> HIDE DEF m
  <2>6. m \in Some
    BY <2>2, <2>3, <2>5
  <2> QED
    BY <2>6 DEF m
<1>3. PICK f \in [0 .. Len(s) -> Nat] : Steps(f, Len(s))
  <2> HIDE DEF Some
  <2>1. 0 .. Len(s) \subseteq Some
    BY <1>0, <1>1, <1>2, BoundedInduction
  <2>2. Len(s) \in Some
    BY <1>0, <2>1
  <2> QED
    BY <2>2 DEF Some
<1> DEFINE Equation(g) == g = [k \in 0 .. Len(s) |-> IF k = 0 THEN 0 ELSE g[k - 1] + s[k]]
<1>4. Equation(f)
  BY <1>0, <1>3
<1>5. Sums(s) = CHOOSE g : Equation(g)
  BY DEF Sums
<1>6. Equation(Sums(s))
  <2> HIDE DEF Equation
  <2> QED
    BY <1>4, <1>5, Zenon
<1> DEFINE g == Sums(s)
<1>7. g = [k \in 0 .. Len(s) |-> IF k = 0 THEN 0 ELSE g[k - 1] + s[k]]
  BY <1>6
<1> HIDE DEF g
<1>8. g[0] = 0 /\ \A k \in 1 .. Len(s) : g[k] = g[k - 1] + s[k]
  BY <1>0, <1>7
<1> DEFINE Good == {k \in 0 .. Len(s) : g[k] \in Nat}
<1>9. 0 .. Len(s) \subseteq Good
  <2>1. 0 \in Good
    BY <1>0, <1>8
  <2>2. ASSUME NEW n \in 0 .. Len(s) - 1, n \in Good PROVE n + 1 \in Good
    <3>1. n + 1 \in 1 .. Len(s) /\ (n + 1) - 1 = n
      BY <1>0
    <3>2. g[n + 1] = g[n] + s[n + 1]
      BY <1>8, <3>1
    <3> QED
      BY <1>0, <2>2, <3>1, <3>2
  <2> HIDE DEF Good
  <2> QED
    BY <1>0, <2>1, <2>2, BoundedInduction
<1>10. g \in [0 .. Len(s) -> Nat]
  BY <1>7, <1>9
<1> QED
  BY <1>8, <1>10 DEF g

\* Sums grow.
LEMMA SumsGrow ==
  ASSUME NEW s \in Seq(Nat), NEW k \in 0 .. Len(s), NEW l \in 0 .. Len(s), k <= l
  PROVE  Sums(s)[k] <= Sums(s)[l]
<1> DEFINE f == Sums(s)
           Above == {n \in 0 .. Len(s) : k <= n => f[k] <= f[n]}
<1>0. Len(s) \in Nat /\ \A n \in 1 .. Len(s) : s[n] \in Nat
  OBVIOUS
<1>1. f \in [0 .. Len(s) -> Nat] /\ \A n \in 1 .. Len(s) : f[n] = f[n - 1] + s[n]
  BY SumsAre
<1> HIDE DEF f
<1>2. 0 \in Above
  BY <1>0, <1>1
<1>3. ASSUME NEW n \in 0 .. Len(s) - 1, n \in Above PROVE n + 1 \in Above
  <2>1. n + 1 \in 1 .. Len(s) /\ (n + 1) - 1 = n /\ n \in 0 .. Len(s) /\ n + 1 \in 0 .. Len(s)
    BY <1>0
  <2>2. f[n] \in Nat /\ f[n + 1] \in Nat /\ f[k] \in Nat
    BY <1>0, <1>1, <2>1
  <2>3. f[n + 1] = f[n] + s[n + 1] /\ s[n + 1] \in Nat
    BY <1>0, <1>1, <2>1
  <2> QED
    BY <1>3, <2>1, <2>2, <2>3
<1> HIDE DEF Above
<1>4. 0 .. Len(s) \subseteq Above
  BY <1>0, <1>2, <1>3, BoundedInduction
<1> QED
  BY <1>4 DEF Above, f

\* Elements of a least size add up.
LEMMA SumsAtLeast ==
  ASSUME NEW s \in Seq(Nat), NEW c \in Nat, \A k \in 1 .. Len(s) : s[k] >= c,
         NEW l \in 0 .. Len(s)
  PROVE  Sums(s)[l] >= l * c
<1> DEFINE f == Sums(s)
           Enough == {n \in 0 .. Len(s) : f[n] >= n * c}
<1>0. Len(s) \in Nat /\ \A n \in 1 .. Len(s) : s[n] \in Nat
  OBVIOUS
<1>1. f \in [0 .. Len(s) -> Nat] /\ f[0] = 0 /\ \A n \in 1 .. Len(s) : f[n] = f[n - 1] + s[n]
  BY SumsAre
<1> HIDE DEF f
<1>2. 0 \in Enough
  BY <1>0, <1>1
<1>3. ASSUME NEW n \in 0 .. Len(s) - 1, n \in Enough PROVE n + 1 \in Enough
  <2>1. n + 1 \in 1 .. Len(s) /\ (n + 1) - 1 = n /\ n \in 0 .. Len(s) /\ n + 1 \in 0 .. Len(s)
    BY <1>0
  <2>2. f[n + 1] = f[n] + s[n + 1] /\ s[n + 1] >= c /\ s[n + 1] \in Nat
    BY <1>0, <1>1, <2>1
  <2>3. f[n] >= n * c /\ f[n] \in Nat
    BY <1>1, <1>3
  <2>4. (n + 1) * c = n * c + c
    OBVIOUS
  <2>5. f[n + 1] >= (n + 1) * c
    BY <2>2, <2>3, <2>4
  <2> QED
    BY <1>0, <2>1, <2>5
<1> HIDE DEF Enough
<1>4. 0 .. Len(s) \subseteq Enough
  BY <1>0, <1>2, <1>3, BoundedInduction
<1> QED
  BY <1>4 DEF Enough, f

\* Raising one element raises the total by as much.
LEMMA TotalRaised ==
  ASSUME NEW s \in Seq(Nat), NEW t \in Seq(Nat), Len(t) = Len(s),
         NEW c \in 1 .. Len(s), NEW d \in Nat, t[c] = s[c] + d,
         \A k \in 1 .. Len(s) : k # c => t[k] = s[k]
  PROVE  Total(t) = Total(s) + d
<1> DEFINE f == Sums(s)
           g == Sums(t)
           Raised == {n \in 0 .. Len(s) : g[n] = f[n] + (IF c <= n THEN d ELSE 0)}
<1>0. Len(s) \in Nat /\ (\A n \in 1 .. Len(s) : s[n] \in Nat)
      /\ \A n \in 1 .. Len(t) : t[n] \in Nat
  OBVIOUS
<1>1. f \in [0 .. Len(s) -> Nat] /\ f[0] = 0 /\ \A n \in 1 .. Len(s) : f[n] = f[n - 1] + s[n]
  BY SumsAre
<1>2. g \in [0 .. Len(s) -> Nat] /\ g[0] = 0 /\ \A n \in 1 .. Len(s) : g[n] = g[n - 1] + t[n]
  BY SumsAre
<1>3. Total(s) = f[Len(s)] /\ Total(t) = g[Len(s)]
  BY DEF Total
<1> HIDE DEF f, g
<1>4. 0 \in Raised
  BY <1>0, <1>1, <1>2
<1>5. ASSUME NEW n \in 0 .. Len(s) - 1, n \in Raised PROVE n + 1 \in Raised
  <2>1. n + 1 \in 1 .. Len(s) /\ (n + 1) - 1 = n /\ n \in 0 .. Len(s) /\ n + 1 \in 0 .. Len(s)
    BY <1>0
  <2>2. f[n + 1] = f[n] + s[n + 1] /\ g[n + 1] = g[n] + t[n + 1]
    BY <1>1, <1>2, <2>1
  <2>3. f[n] \in Nat /\ s[n + 1] \in Nat /\ t[n + 1] \in Nat
    BY <1>0, <1>1, <2>1
  <2>4. g[n] = f[n] + (IF c <= n THEN d ELSE 0)
    BY <1>5
  <2>5. t[n + 1] = s[n + 1] + (IF n + 1 = c THEN d ELSE 0)
    <3>1. n + 1 # c => t[n + 1] = s[n + 1]
      BY <2>1
    <3> QED
      BY <2>3, <3>1
  <2>6. g[n + 1] = f[n + 1] + (IF c <= n + 1 THEN d ELSE 0)
    <3>1. CASE n + 1 = c
      <4>1. ~(c <= n) /\ c <= n + 1
        BY <1>0, <2>1, <3>1
      <4>2. g[n] = f[n]
        BY <2>3, <2>4, <4>1
      <4>3. t[n + 1] = s[n + 1] + d
        BY <2>5, <3>1
      <4>4. f[n] + (s[n + 1] + d) = (f[n] + s[n + 1]) + d
        <5>1. \A a, b, e \in Nat : a + (b + e) = (a + b) + e
          OBVIOUS
        <5> QED
          BY ONLY <2>3, <5>1, d \in Nat
      <4> QED
        BY <2>2, <4>1, <4>2, <4>3, <4>4
    <3>2. CASE n + 1 # c
      <4>1. c <= n <=> c <= n + 1
        BY <1>0, <2>1, <3>2
      <4> QED
        BY <2>2, <2>3, <2>4, <2>5, <3>2, <4>1
    <3> QED
      BY <3>1, <3>2
  <2> QED
    BY <2>1, <2>6
<1> HIDE DEF Raised
<1>6. 0 .. Len(s) \subseteq Raised
  BY <1>0, <1>4, <1>5, BoundedInduction
<1>7. Len(s) \in Raised /\ c <= Len(s)
  <2>1. Len(s) \in 0 .. Len(s)
    BY <1>0
  <2> QED
    BY <1>6, <2>1
<1>8. g[Len(s)] = f[Len(s)] + d
  BY <1>7 DEF Raised
<1> QED
  BY <1>3, <1>8

\* One more element adds itself to the total.
LEMMA TotalAppended ==
  ASSUME NEW s \in Seq(Nat), NEW x \in Nat
  PROVE  Append(s, x) \in Seq(Nat) /\ Total(Append(s, x)) = Total(s) + x
<1> DEFINE t == Append(s, x)
           f == Sums(s)
           g == Sums(t)
           Same == {n \in 0 .. Len(s) : g[n] = f[n]}
<1>0. /\ t \in Seq(Nat) /\ Len(t) = Len(s) + 1 /\ Len(s) \in Nat
      /\ t[Len(s) + 1] = x /\ \A n \in 1 .. Len(s) : t[n] = s[n]
  OBVIOUS
<1> HIDE DEF t
<1>1. f \in [0 .. Len(s) -> Nat] /\ f[0] = 0 /\ \A n \in 1 .. Len(s) : f[n] = f[n - 1] + s[n]
  BY SumsAre
<1>2. g \in [0 .. Len(t) -> Nat] /\ g[0] = 0 /\ \A n \in 1 .. Len(t) : g[n] = g[n - 1] + t[n]
  BY <1>0, SumsAre
<1>3. Total(s) = f[Len(s)] /\ Total(t) = g[Len(s) + 1]
  BY <1>0 DEF Total
<1> HIDE DEF f, g
<1>4. 0 \in Same
  BY <1>0, <1>1, <1>2
<1>5. ASSUME NEW n \in 0 .. Len(s) - 1, n \in Same PROVE n + 1 \in Same
  <2>1. n + 1 \in 1 .. Len(s) /\ n + 1 \in 1 .. Len(t) /\ (n + 1) - 1 = n /\ n + 1 \in 0 .. Len(s)
    BY <1>0
  <2>2. f[n + 1] = f[n] + s[n + 1] /\ g[n + 1] = g[n] + t[n + 1] /\ t[n + 1] = s[n + 1]
    BY <1>0, <1>1, <1>2, <2>1
  <2> QED
    BY <1>5, <2>1, <2>2
<1> HIDE DEF Same
<1>6. 0 .. Len(s) \subseteq Same
  BY <1>0, <1>4, <1>5, BoundedInduction
<1>7. g[Len(s)] = f[Len(s)]
  BY <1>0, <1>6 DEF Same
<1>8. g[Len(s) + 1] = g[Len(s)] + x
  <2>1. Len(s) + 1 \in 1 .. Len(t) /\ (Len(s) + 1) - 1 = Len(s)
    BY <1>0
  <2> QED
    BY <1>0, <1>2, <2>1
<1> QED
  BY <1>0, <1>3, <1>7, <1>8 DEF t

\* A total is a number.
LEMMA TotalIsNat == ASSUME NEW s \in Seq(Nat) PROVE Total(s) \in Nat
<1>1. Len(s) \in Nat /\ Len(s) \in 0 .. Len(s)
  OBVIOUS
<1> QED
  BY <1>1, SumsAre DEF Total

\* Nothing adds up to zero.
LEMMA TotalEmpty == <<>> \in Seq(Nat) /\ Total(<<>>) = 0
<1> DEFINE s == <<>>
<1>1. s \in Seq(Nat) /\ Len(s) = 0
  OBVIOUS
<1> HIDE DEF s
<1>2. Sums(s)[0] = 0
  BY <1>1, SumsAre
<1> QED
  BY <1>1, <1>2 DEF Total, s
===============================================================================
