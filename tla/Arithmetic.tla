----------------------------- MODULE Arithmetic -----------------------------
(***************************************************************************)
(* Facts about numbers that more than one proof rests on: the least        *)
(* element of a set, which a fence or a finished prefix is found by; what  *)
(* one step at a time leads to, as a parser is led from byte to byte; and  *)
(* remainders, which say whose turn it is when chunks are dealt out        *)
(* round-robin.                                                            *)
(***************************************************************************)
EXTENDS Integers, WellFoundedInduction, TLAPS

(* Every set of naturals that is not empty has a least element.            *)
LEMMA LeastExists ==
    ASSUME NEW S, S \subseteq Nat, S # {}
    PROVE  \E m \in S : \A n \in S : m <= n
<1> DEFINE R == OpToRel(<, Nat)
<1>1. \A x, y \in Nat : <<x, y>> \in R <=> x < y
  BY DEF OpToRel
<1>2. IsWellFoundedOn(R, Nat)
  BY NatLessThanWellFounded
<1> HIDE DEF R
<1>3. \E m \in S : \A n \in S : ~(<<n, m>> \in R)
  BY <1>2, WFMin
<1>4. PICK m \in S : \A n \in S : ~(<<n, m>> \in R)
  BY <1>3
<1>5. \A n \in S : m <= n
  <2> TAKE n \in S
  <2>1. n \in Nat /\ m \in Nat
    OBVIOUS
  <2>2. ~(n < m)
    BY <1>1, <1>4, <2>1
  <2> QED  BY <2>1, <2>2
<1> QED  BY <1>5

-----------------------------------------------------------------------------
(* What holds of p, and of every number after one it holds of, up to q,    *)
(* holds of them all.                                                      *)
LEMMA Upward ==
    ASSUME NEW p \in Int, NEW q \in Int, NEW T, p \in T,
           \A i \in (p + 1)..q : i - 1 \in T => i \in T
    PROVE  \A i \in p..q : i \in T
<1> DEFINE S == {n \in 0..(q - p) : p + n \notin T}
<1>1. S = {}
  <2>1. SUFFICES ASSUME S # {} PROVE FALSE
    OBVIOUS
  <2>2. PICK n \in S : \A m \in S : n <= m
    <3>1. S \subseteq Nat
      OBVIOUS
    <3> QED  BY <2>1, <3>1, LeastExists
  <2>3. n # 0
    BY <2>2
  <2>4. n - 1 \in 0..(q - p) /\ n - 1 \notin S
    BY <2>2, <2>3
  <2>5. p + n - 1 \in T
    BY <2>4
  <2>6. p + n \in (p + 1)..q /\ p + n \in Int /\ (p + n) - 1 = p + n - 1
    BY <2>2, <2>3
  <2>7. p + n \in T
    BY <2>5, <2>6
  <2> QED  BY <2>2, <2>7
<1>2. ASSUME NEW i \in p..q
      PROVE  i \in T
  <2>1. i - p \in 0..(q - p) /\ p + (i - p) = i
    OBVIOUS
  <2>2. p + (i - p) \in T
    BY <1>1, <2>1
  <2> QED  BY <2>1, <2>2
<1> QED  BY <1>2

(* A value of S at p, and a step from each number up to q to the next; and *)
(* a function of those numbers, the value each step takes to the next.     *)
Steps(S, p, q) == [(p + 1)..q -> [S -> S]]
Follows(S, p, q, a, G) ==
    \E r \in [p..q -> S] : r[p] = a /\ \A i \in (p + 1)..q : r[i] = G[i][r[i - 1]]

(* There is one.                                                           *)
LEMMA Recursion ==
    ASSUME NEW S, NEW p \in Int, NEW q \in Int, p <= q, NEW a \in S,
           NEW G \in Steps(S, p, q)
    PROVE  Follows(S, p, q, a, G)
<1> USE DEF Steps
<1> DEFINE Reaches(k) ==
               \E r \in [p..k -> S] : r[p] = a /\ \A i \in (p + 1)..k : r[i] = G[i][r[i - 1]]
           T == {k \in p..q : Reaches(k)}
<1>1. p \in T
  <2>1. [i \in p..p |-> a] \in [p..p -> S] /\ [i \in p..p |-> a][p] = a
    OBVIOUS
  <2>2. \A i \in (p + 1)..p : FALSE
    OBVIOUS
  <2>3. Reaches(p)
    BY <2>1, <2>2
  <2> QED  BY <2>3
<1>2. ASSUME NEW k \in (p + 1)..q, k - 1 \in T
      PROVE  k \in T
  <2>1. PICK r \in [p..(k - 1) -> S] :
           r[p] = a /\ \A i \in (p + 1)..(k - 1) : r[i] = G[i][r[i - 1]]
    BY <1>2
  <2> DEFINE s == [i \in p..k |-> IF i = k THEN G[k][r[k - 1]] ELSE r[i]]
  <2>2. /\ k - 1 \in p..(k - 1) /\ r[k - 1] \in S /\ G[k] \in [S -> S]
        /\ p \in p..k /\ p # k
    BY <1>2
  <2>3. \A i \in p..k : i # k => i \in p..(k - 1)
    BY <1>2
  <2>4. s \in [p..k -> S]
    BY <2>2, <2>3
  <2>5. s[p] = a
    BY <2>1, <2>2
  <2>6. ASSUME NEW i \in (p + 1)..k
        PROVE  s[i] = G[i][s[i - 1]]
    <3>1. i \in p..k /\ i - 1 \in p..k /\ i - 1 # k
      BY <1>2
    <3>2. s[i - 1] = r[i - 1]
      BY <3>1
    <3>3. CASE i = k
      BY <3>1, <3>2, <3>3
    <3>4. CASE i # k
      <4>1. i \in (p + 1)..(k - 1)
        BY <1>2, <3>4
      <4>2. s[i] = r[i]
        BY <3>1, <3>4
      <4> QED  BY <2>1, <3>2, <4>1, <4>2
    <3> QED  BY <3>3, <3>4
  <2> HIDE DEF s
  <2>7. Reaches(k)
    BY <2>4, <2>5, <2>6
  <2>8. k \in p..q
    BY <1>2
  <2> HIDE DEF Reaches
  <2> QED  BY <2>7, <2>8
<1> HIDE DEF T
<1>3. \A i \in p..q : i \in T
  BY <1>1, <1>2, Upward
<1>4. q \in T
  BY <1>3
<1> QED  BY <1>4 DEF T, Follows

-----------------------------------------------------------------------------
(* Division with remainder.                                                *)
LEMMA DivMod ==
    ASSUME NEW n \in Nat \ {0}, NEW a \in Nat
    PROVE  a = n * (a \div n) + (a % n) /\ a \div n \in Nat /\ a % n \in 0..(n - 1)
OBVIOUS

(* And it is unique.                                                       *)
LEMMA RemainderUnique ==
    ASSUME NEW n \in Nat \ {0}, NEW k \in Int, NEW l \in Int,
           NEW x \in 0..(n - 1), NEW y \in 0..(n - 1), x + n * k = y + n * l
    PROVE  x = y
<1>1. CASE k = l
  BY <1>1
<1>2. CASE k >= l + 1
  <2>1. n * k >= n * (l + 1)
    BY <1>2
  <2>2. n * (l + 1) = n * l + n /\ n * k \in Int /\ n * l \in Int
    OBVIOUS
  <2> QED  BY <2>1, <2>2
<1>3. CASE l >= k + 1
  <2>1. n * l >= n * (k + 1)
    BY <1>3
  <2>2. n * (k + 1) = n * k + n /\ n * k \in Int /\ n * l \in Int
    OBVIOUS
  <2> QED  BY <2>1, <2>2
<1> QED  BY <1>1, <1>2, <1>3

(* Two numbers less than n apart with the same remainder are the same.     *)
LEMMA SameRemainder ==
    ASSUME NEW n \in Nat \ {0}, NEW a \in Nat, NEW b \in Nat,
           a <= b, b < a + n, a % n = b % n
    PROVE  a = b
<1> DEFINE p == a \div n
           q == b \div n
           r == a % n
<1>1. a = n * p + r /\ p \in Int /\ r \in 0..(n - 1)
  BY DivMod
<1>2. b = n * q + r /\ q \in Int
  BY DivMod
<1>3. b - a \in 0..(n - 1)
  OBVIOUS
<1> HIDE DEF p, q, r
<1>4. n * p \in Int /\ n * q \in Int
  BY <1>1, <1>2
<1>5. (b - a) + n * p = 0 + n * q
  BY <1>1, <1>2, <1>4
<1>6. b - a = 0
  BY <1>1, <1>2, <1>3, <1>5, RemainderUnique
<1> QED  BY <1>6

(* A full turn later it is the same one's turn.                            *)
LEMMA RemainderTurn ==
    ASSUME NEW n \in Nat \ {0}, NEW a \in Nat
    PROVE  (a + n) % n = a % n
<1> DEFINE p == a \div n
           q == (a + n) \div n
           x == a % n
           y == (a + n) % n
<1>1. a = n * p + x /\ p \in Int /\ x \in 0..(n - 1)
  BY DivMod
<1>2. a + n \in Nat
  OBVIOUS
<1>3. a + n = n * q + y /\ q \in Int /\ y \in 0..(n - 1)
  BY <1>2, DivMod
<1> HIDE DEF p, q, x, y
<1>4. n * (p + 1) = n * p + n /\ n * p \in Int /\ n * q \in Int
  BY <1>1, <1>3
<1>5. x + n * (p + 1) = y + n * q
  BY <1>1, <1>3, <1>4
<1>6. x = y
  BY <1>1, <1>3, <1>5, RemainderUnique
<1> QED  BY <1>6 DEF x, y
=============================================================================
