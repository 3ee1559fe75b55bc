------------------------------ MODULE NatFacts ------------------------------
(***************************************************************************)
(* Facts about natural numbers that the proofs of several modules need.    *)
(***************************************************************************)
EXTENDS Integers, WellFoundedInduction, TLAPS

\* A set of natural numbers that is not empty has a least element: the loops
\* that stop at the first slot that qualifies stop at one that does.
LEMMA Least == ASSUME NEW S \in SUBSET Nat, S # {}
               PROVE  \E m \in S : \A n \in S : m <= n
<1> DEFINE R == OpToRel(<, Nat)
<1>1. \A x, y \in Nat : x < y => <<x, y>> \in R
  BY DEF OpToRel
<1> HIDE DEF R
<1>2. IsWellFoundedOn(R, Nat)
  BY NatLessThanWellFounded DEF R
<1>3. \E m \in S : \A n \in S : ~(<<n, m>> \in R)
  BY <1>2, WFMin, Zenon
<1>4. PICK m \in S : \A n \in S : <<n, m>> \notin R
  BY <1>3, Zenon
<1>5. \A n \in S : ~(n < m)
  BY <1>1, <1>4, Zenon
<1> QED BY <1>5

\* Quotient and remainder, and that they are the only ones.
LEMMA DivMod == ASSUME NEW a \in Nat, NEW m \in Nat \ {0}
                PROVE  /\ a \div m \in Nat /\ (a % m) \in 0..(m - 1)
                       /\ a = m * (a \div m) + (a % m)
  OBVIOUS

LEMMA ModUnique == ASSUME NEW q \in Int, NEW m \in Nat \ {0}, NEW r \in 0..(m - 1)
                   PROVE  (m * q + r) % m = r /\ (m * q + r) \div m = q
  OBVIOUS

\* Rounding down to a multiple of m, as PGROUNDDOWN does.
LEMMA RoundDown ==
  ASSUME NEW a \in Nat, NEW m \in Nat \ {0}
  PROVE  LET g == a - (a % m) IN g \in Nat /\ g % m = 0 /\ g <= a /\ a < g + m
<1>1. PICK q \in Nat, r \in 0..(m - 1) : a = m * q + r /\ r = a % m
  BY DivMod
<1>2. a - (a % m) = m * q /\ m * q \in Nat
  BY <1>1
<1>3. (m * q + 0) % m = 0
  BY ModUnique
<1>4. (a - (a % m)) % m = 0
  BY <1>2, <1>3
<1> QED BY <1>1, <1>2, <1>4

\* Between two multiples of m there is room for m.
LEMMA Multiples ==
  ASSUME NEW m \in Nat \ {0}, NEW a \in Nat, NEW b \in Nat, a % m = 0, b % m = 0, a < b
  PROVE  a + m <= b /\ (a + m) % m = 0
<1> DEFINE p == a \div m
           q == b \div m
<1>1. p \in Nat /\ q \in Nat /\ a = m * p /\ b = m * q
  BY DivMod
<1> HIDE DEF p, q
<1>2. p < q
  BY <1>1
<1>3. m * (p + 1) <= m * q /\ m * (p + 1) = a + m
  BY <1>1, <1>2
<1>4. (m * (p + 1) + 0) % m = 0
  BY <1>1, ModUnique
<1> QED BY <1>1, <1>3, <1>4

\* f starts with a and goes on to N by H.
Recursive(f, N, S, a, H) ==
  f \in [0..N -> S] /\ f[0] = a /\ \A n \in 1..N : f[n] = H[<<n, f[n - 1]>>]

\* There is what a function defined by recursion from 0 to N is defined by.
LEMMA Recursion ==
  ASSUME NEW N \in Nat, NEW S, NEW a \in S, NEW H \in [(1..N) \X S -> S]
  PROVE  \E f : Recursive(f, N, S, a, H)
<1> DEFINE Good(m) == \E f \in [0..m -> S] : f[0] = a /\ \A n \in 1..m : f[n] = H[<<n, f[n - 1]>>]
           Bad == {m \in 0..N : ~Good(m)}
<1>1. SUFFICES ASSUME Bad # {} PROVE FALSE
  BY DEF Recursive
<1>2. PICK m \in Bad : \A n \in Bad : m <= n
  <2>1. Bad \in SUBSET Nat
    OBVIOUS
  <2> HIDE DEF Bad
  <2> QED BY <1>1, <2>1, Least
<1>3. Good(0)
  <2> DEFINE f == [n \in 0..0 |-> a]
  <2>1. f \in [0..0 -> S] /\ f[0] = a
    OBVIOUS
  <2>2. 1..0 = {}
    OBVIOUS
  <2> QED BY <2>1, <2>2
<1>4. m \in 1..N /\ m - 1 \in 0..N /\ Good(m - 1)
  <2> HIDE DEF Good
  <2>1. m # 0 /\ m \in 0..N
    BY <1>2, <1>3
  <2> QED BY <1>2, <2>1
<1>5. PICK g \in [0..(m - 1) -> S] :
        g[0] = a /\ \A n \in 1..(m - 1) : g[n] = H[<<n, g[n - 1]>>]
  BY <1>4
<1> DEFINE f == [n \in 0..m |-> IF n = m THEN H[<<m, g[m - 1]>>] ELSE g[n]]
<1>6. g[m - 1] \in S /\ H[<<m, g[m - 1]>>] \in S
  BY <1>4, <1>5
<1>7. f \in [0..m -> S] /\ f[0] = a
  BY <1>4, <1>5, <1>6
<1>8. ASSUME NEW n \in 1..m PROVE f[n] = H[<<n, f[n - 1]>>]
  <2>1. CASE n = m
    <3>1. f[m] = H[<<m, g[m - 1]>>] /\ f[m - 1] = g[m - 1]
      BY <1>4
    <3> HIDE DEF f
    <3> QED BY <2>1, <3>1
  <2>2. CASE n # m
    <3>1. n \in 1..(m - 1) /\ n \in 0..m /\ n - 1 \in 0..m /\ n - 1 # m
      BY <1>4, <2>2
    <3> QED BY <1>5, <2>2, <3>1
  <2> QED BY <2>1, <2>2
<1>9. Good(m)
  <2> HIDE DEF f
  <2> QED BY <1>7, <1>8
<1> QED BY <1>2, <1>9

\* Induction from 0 to N, for the numbers that have a property.
LEMMA UpTo ==
  ASSUME NEW N \in Nat, NEW S, 0 \in S, \A n \in 1..N : n - 1 \in S => n \in S
  PROVE  \A n \in 0..N : n \in S
<1> DEFINE Bad == {n \in 0..N : n \notin S}
<1>1. SUFFICES ASSUME Bad # {} PROVE FALSE
  OBVIOUS
<1>2. PICK m \in Bad : \A n \in Bad : m <= n
  <2>1. Bad \in SUBSET Nat
    OBVIOUS
  <2> HIDE DEF Bad
  <2> QED BY <1>1, <2>1, Least
<1>3. m \in 1..N /\ m - 1 \in 0..N /\ m - 1 \notin Bad
  BY <1>2
<1> QED BY <1>2, <1>3
=============================================================================
