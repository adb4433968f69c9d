---------------------------- MODULE NumberProofs ----------------------------
(***************************************************************************)
(* Facts about natural numbers that the other proofs use: least elements,  *)
(* induction over a set, quotients, and the powers of two of Shift.        *)
(***************************************************************************)
EXTENDS Shift, WellFoundedInduction, TLAPS

(* Induction, from the well-founded order of the natural numbers. *)
Lesser == {x \in Nat \X Nat : x[1] < x[2]}

(* A set of natural numbers has a least element ...                         *)
LEMMA Least ==
    ASSUME NEW S \in SUBSET Nat, S # {}
    PROVE  \E n \in S : \A m \in S : n <= m
<1>1. IsWellFoundedOn(Lesser, Nat)
  BY NatLessThanWellFounded DEF OpToRel, Lesser
<1>2. PICK x \in S : \A y \in S : ~(<<y, x>> \in Lesser)
  BY <1>1, WFMin
<1>3. \A y \in S : ~(y < x)
  BY <1>2 DEF Lesser
<1> QED BY <1>3

(* ... so a set that holds zero and the successor of each member is Nat.    *)
LEMMA Induct ==
    ASSUME NEW S, 0 \in S, \A n \in Nat : n \in S => n + 1 \in S
    PROVE  Nat \subseteq S
<1> SUFFICES ASSUME Nat \ S # {} PROVE FALSE
  OBVIOUS
<1>1. PICK n \in Nat \ S : \A m \in Nat \ S : n <= m
  BY Least
<1>2. n # 0 /\ n - 1 \in Nat /\ (n - 1) + 1 = n
  BY <1>1
<1>3. n - 1 \in S
  BY <1>1, <1>2
<1> QED BY <1>2, <1>3

Starts(n) == {f \in [0 .. n -> Nat] : f[0] = 1 /\ \A k \in 1 .. n : f[k] = 2 * f[k - 1]}

LEMMA StartsExist == \A n \in Nat : Starts(n) # {}
<1> DEFINE S == {n \in Nat : Starts(n) # {}}
<1>1. 0 \in S
  <2>1. [k \in 0 .. 0 |-> 1] \in Starts(0)
    BY DEF Starts
  <2> QED BY <2>1
<1>2. ASSUME NEW n \in Nat, n \in S PROVE n + 1 \in S
  <2>1. PICK f \in Starts(n) : TRUE
    BY <1>2
  <2>2. f \in [0 .. n -> Nat] /\ f[0] = 1 /\ \A k \in 1 .. n : f[k] = 2 * f[k - 1]
    BY DEF Starts
  <2> DEFINE g == [k \in 0 .. n + 1 |-> IF k = n + 1 THEN 2 * f[n] ELSE f[k]]
  <2>3. g \in [0 .. n + 1 -> Nat] /\ g[0] = 1
    BY <2>2
  <2>4. ASSUME NEW k \in 1 .. n + 1 PROVE g[k] = 2 * g[k - 1]
    BY <2>2
  <2>5. g \in Starts(n + 1)
    BY <2>3, <2>4 DEF Starts
  <2> QED BY <2>5
<1> HIDE DEF S
<1>3. Nat \subseteq S
  BY <1>1, <1>2, Induct
<1> QED BY <1>3 DEF S

LEMMA StartsAgree ==
    ASSUME NEW n \in Nat, NEW m \in Nat, NEW f \in Starts(n), NEW g \in Starts(m),
           NEW k \in Nat, k <= n, k <= m
    PROVE  f[k] = g[k]
<1> DEFINE S == {i \in Nat : i <= n /\ i <= m => f[i] = g[i]}
<1>0. /\ f[0] = 1 /\ \A i \in 1 .. n : f[i] = 2 * f[i - 1]
      /\ g[0] = 1 /\ \A i \in 1 .. m : g[i] = 2 * g[i - 1]
  BY DEF Starts
<1>1. 0 \in S
  BY <1>0
<1>2. ASSUME NEW i \in Nat, i \in S PROVE i + 1 \in S
  <2> SUFFICES ASSUME i + 1 <= n, i + 1 <= m PROVE f[i + 1] = g[i + 1]
    OBVIOUS
  <2>1. f[i] = g[i]
    BY <1>2
  <2>2. i + 1 \in 1 .. n /\ i + 1 \in 1 .. m /\ (i + 1) - 1 = i
    OBVIOUS
  <2> QED BY <1>0, <2>1, <2>2
<1> HIDE DEF S
<1>3. Nat \subseteq S
  BY <1>1, <1>2, Induct
<1> QED BY <1>3 DEF S

LEMMA ShlFacts ==
    /\ Shl \in [Nat -> Nat]
    /\ Shl[0] = 1
    /\ \A n \in Nat : Shl[n + 1] = 2 * Shl[n]
<1> DEFINE St(n) == CHOOSE f \in Starts(n) : TRUE
           F == [n \in Nat |-> St(n)[n]]
<1>1. \A n \in Nat : St(n) \in Starts(n)
  BY StartsExist
<1> HIDE DEF St
<1>2. \A n \in Nat : F[n] \in Nat
  BY <1>1 DEF Starts
<1>3. F[0] = 1
  BY <1>1 DEF Starts
<1>4. ASSUME NEW n \in Nat, n # 0 PROVE F[n] = 2 * F[n - 1]
  <2>1. n - 1 \in Nat /\ n - 1 <= n /\ n - 1 <= n - 1 /\ n \in 1 .. n
    BY <1>4
  <2>2. F[n] = St(n)[n] /\ F[n - 1] = St(n - 1)[n - 1]
    BY <2>1
  <2>3. St(n)[n] = 2 * St(n)[n - 1]
    BY <1>1, <2>1 DEF Starts
  <2>4. St(n) \in Starts(n) /\ St(n - 1) \in Starts(n - 1)
    BY <1>1, <2>1
  <2>5. St(n)[n - 1] = St(n - 1)[n - 1]
    BY <2>1, <2>4, StartsAgree
  <2> QED BY <2>2, <2>3, <2>5
<1>5. F = [n \in Nat |-> IF n = 0 THEN 1 ELSE 2 * F[n - 1]]
  BY <1>3, <1>4
<1> HIDE DEF F
<1>6. Shl = [n \in Nat |-> IF n = 0 THEN 1 ELSE 2 * Shl[n - 1]]
  BY <1>5 DEF Shl
<1>7. Shl[0] = 1
  BY <1>6
<1>8. \A n \in Nat : Shl[n + 1] = 2 * Shl[n]
  BY <1>6
<1> DEFINE S == {n \in Nat : Shl[n] \in Nat}
<1>9. 0 \in S /\ \A n \in Nat : n \in S => n + 1 \in S
  BY <1>7, <1>8
<1> HIDE DEF S
<1>10. Nat \subseteq S
  BY <1>9, Induct
<1>11. \A n \in Nat : Shl[n] \in Nat
  BY <1>10 DEF S
<1>12. Shl = [n \in Nat |-> Shl[n]]
  BY <1>6
<1> QED BY <1>7, <1>8, <1>11, <1>12

LEMMA ShlPositive == \A n \in Nat : Shl[n] \in Nat \ {0}
<1> DEFINE S == {n \in Nat : Shl[n] # 0}
<1>1. 0 \in S /\ \A n \in Nat : n \in S => n + 1 \in S
  BY ShlFacts
<1> HIDE DEF S
<1>2. Nat \subseteq S
  BY <1>1, Induct
<1> QED BY <1>2, ShlFacts DEF S

LEMMA ShlDivides ==
    ASSUME NEW o \in Nat, NEW s \in Nat, o <= s
    PROVE  \E q \in Nat \ {0} : Shl[s] = q * Shl[o]
<1> DEFINE S == {d \in Nat : \E q \in Nat \ {0} : Shl[o + d] = q * Shl[o]}
<1>1. 0 \in S
  BY ShlFacts
<1>2. ASSUME NEW d \in Nat, d \in S PROVE d + 1 \in S
  <2>1. PICK q \in Nat \ {0} : Shl[o + d] = q * Shl[o]
    BY <1>2
  <2>2. Shl[(o + d) + 1] = 2 * Shl[o + d] /\ Shl[o] \in Nat
    BY ShlFacts
  <2>3. Shl[o + (d + 1)] = (2 * q) * Shl[o]
    BY <2>1, <2>2
  <2> QED BY <2>3
<1> HIDE DEF S
<1>3. Nat \subseteq S
  BY <1>1, <1>2, Induct
<1>4. s - o \in S /\ o + (s - o) = s
  BY <1>3
<1> QED BY <1>4 DEF S

LEMMA MulMod ==
    ASSUME NEW q \in Nat, NEW d \in Nat \ {0}
    PROVE  (q * d) % d = 0
  OBVIOUS

LEMMA DivRoom ==
    ASSUME NEW t \in Nat, NEW i \in Nat, NEW d \in Nat \ {0}, i < t \div d
    PROVE  i * d + d <= t
  OBVIOUS

(* Shl[n] exceeds n, so that every number of pages has an order. *)
LEMMA ShlGrows == \A n \in Nat : Shl[n] > n
<1> DEFINE S == {n \in Nat : Shl[n] > n}
<1>1. 0 \in S /\ \A n \in Nat : n \in S => n + 1 \in S
  BY ShlFacts
<1> HIDE DEF S
<1>2. Nat \subseteq S
  BY <1>1, Induct
<1> QED BY <1>2 DEF S

(* Quotients. *)
LEMMA Quotient ==
  ASSUME NEW n \in Nat \ {0}, NEW v \in Nat, NEW q \in Nat, n * q <= v, v < n * q + n
  PROVE  v \div n = q
<1>1. PICK d \in Nat : d = v \div n
  OBVIOUS
<1>2. n * d <= v /\ v < n * d + n
  BY <1>1
<1>3. n * d < n * (q + 1) /\ n * q < n * (d + 1)
  BY <1>2
<1>4. d < q + 1 /\ q < d + 1
  BY <1>3
<1> QED
  BY <1>1, <1>4

(* f starts with a and goes on by g, which sees the value before and where  *)
(* it is.                                                                   *)
Runs(f, n, a, g) == f[0] = a /\ \A k \in 1 .. n : f[k] = g[<<f[k - 1], k>>]

(* A function may be defined by recursion on a number. *)
LEMMA Recursion ==
  ASSUME NEW T, NEW n \in Nat, NEW a \in T, NEW g, g \in [T \X (1 .. n) -> T]
  PROVE  \E f : f \in [0 .. n -> T] /\ Runs(f, n, a, g)
<1> DEFINE Fits(f, m) == f[0] = a /\ \A k \in 1 .. m : f[k] = g[<<f[k - 1], k>>]
           S == {m \in Nat : m <= n => \E f \in [0 .. m -> T] : Fits(f, m)}
<1>1. 0 \in S
  <2>1. [k \in 0 .. 0 |-> a] \in [0 .. 0 -> T] /\ Fits([k \in 0 .. 0 |-> a], 0)
    OBVIOUS
  <2> QED
    BY <2>1
<1>2. ASSUME NEW m \in Nat, m \in S PROVE m + 1 \in S
  <2> SUFFICES ASSUME m + 1 <= n PROVE \E f \in [0 .. m + 1 -> T] : Fits(f, m + 1)
    OBVIOUS
  <2>1. PICK f \in [0 .. m -> T] : Fits(f, m)
    BY <1>2
  <2>2. f[m] \in T /\ <<f[m], m + 1>> \in T \X (1 .. n)
    BY <2>1
  <2>3. PICK x \in T : x = g[<<f[m], m + 1>>]
    BY <2>2
  <2> DEFINE h == [k \in 0 .. m + 1 |-> IF k = m + 1 THEN x ELSE f[k]]
  <2>4. h \in [0 .. m + 1 -> T] /\ h[0] = a
    BY <2>1
  <2>5. ASSUME NEW k \in 1 .. m + 1 PROVE h[k] = g[<<h[k - 1], k>>]
    <3>1. h[k - 1] = f[k - 1]
      OBVIOUS
    <3> HIDE DEF h
    <3>2. CASE k = m + 1
      BY <2>3, <3>1, <3>2 DEF h
    <3>3. CASE k # m + 1
      <4>1. k \in 1 .. m /\ h[k] = f[k]
        BY <3>3 DEF h
      <4> QED
        BY <2>1, <3>1, <4>1
    <3> QED
      BY <3>2, <3>3
  <2> QED
    BY <2>4, <2>5
<1> HIDE DEF S
<1>3. Nat \subseteq S
  BY <1>1, <1>2, Induct
<1>4. n \in S
  BY <1>3
<1> QED
  BY <1>4 DEF S, Runs

(* A common factor is taken away. *)
LEMMA MulLess ==
  ASSUME NEW n \in Nat, NEW q \in Nat, NEW m \in Nat, n * q < n * m
  PROVE  q < m
<1> SUFFICES ASSUME m <= q PROVE FALSE
  OBVIOUS
<1>1. PICK e \in Nat : q = m + e
  OBVIOUS
<1>2. n * q = n * m + n * e /\ n * e \in Nat /\ n * m \in Nat
  BY <1>1
<1> QED
  BY <1>2

(* The places of a tree of two levels of blocks. *)
LEMMA PairPlace ==
  ASSUME NEW P \in Nat \ {0}, NEW m \in Nat, NEW a \in Nat, NEW b \in Nat, a < m, b < P
  PROVE  a * P + b \in Nat /\ a * P + b < m * P
<1>1. PICK e \in Nat : m = a + 1 + e
  OBVIOUS
<1>2. m * P = a * P + P + e * P /\ e * P \in Nat /\ a * P \in Nat
  BY <1>1
<1> QED
  BY <1>2

(* A remainder is no larger than the number. *)
LEMMA ModLess ==
  ASSUME NEW c \in Nat, NEW u \in Nat \ {0}
  PROVE  c % u \in Nat /\ c % u <= c
<1>1. PICK q \in Nat : q = c \div u
  OBVIOUS
<1>2. PICK r \in Nat : r = c % u
  OBVIOUS
<1>3. c = u * q + r /\ u * q \in Nat
  BY <1>1, <1>2
<1> QED
  BY <1>2, <1>3

(* A place of three digits to the base P. *)
AreDigits(l, m, P, a, b, c) ==
    /\ a < P /\ b < P /\ c < P
    /\ a = l \div m /\ b = (l % m) \div P /\ c = (l % m) % P
    /\ l = (a * P + b) * P + c

(* Every place of a tree of three levels has three digits. *)
LEMMA ThreeDigits ==
  ASSUME NEW P \in Nat \ {0}, NEW m \in Nat \ {0}, m = P * P, NEW l \in Nat, l < m * P
  PROVE  \E a, b, c \in Nat : AreDigits(l, m, P, a, b, c)
<1>1. PICK a \in Nat : a = l \div m
  OBVIOUS
<1>2. PICK x \in Nat : x = l % m /\ x < m
  OBVIOUS
<1>3. l = m * a + x
  BY <1>1, <1>2
<1>4. PICK b \in Nat : b = x \div P
  OBVIOUS
<1>5. PICK c \in Nat : c = x % P /\ c < P
  OBVIOUS
<1>6. x = P * b + c
  BY <1>4, <1>5
<1>7. a < P
  <2>1. m * a < m * P
    BY <1>3
  <2> QED
    BY <2>1, MulLess
<1>8. b < P
  <2>1. P * b < P * P
    BY <1>2, <1>6
  <2> QED
    BY <2>1, MulLess
<1>9. l = (a * P + b) * P + c
  <2>1. (a * P + b) * P = a * (P * P) + b * P
    OBVIOUS
  <2> QED
    BY <1>3, <1>6, <2>1
<1> QED
  BY <1>1, <1>2, <1>4, <1>5, <1>7, <1>8, <1>9 DEF AreDigits

(* The blocks needed hold the file. *)
LEMMA RoundUp ==
  ASSUME NEW s \in Nat, NEW b \in Nat \ {0}
  PROVE  s <= ((s + b - 1) \div b) * b
<1>1. PICK v \in Nat : v = s + b - 1
  OBVIOUS
<1>2. PICK q \in Nat : q = v \div b
  OBVIOUS
<1>3. v < b * q + b /\ b * q \in Nat
  BY <1>2
<1>4. s <= b * q
  BY <1>1, <1>3
<1> QED
  BY <1>1, <1>2, <1>4

=============================================================================
