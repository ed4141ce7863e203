------------------------- MODULE RosterTotalsProofs -------------------------
(* What Total computes, for every length and every integer function.       *)
EXTENDS RosterTotals, SequencesExt, WellFoundedInduction, TLAPS

(* Every nonempty set of naturals has a least element.                     *)
LEMMA LeastNatural ==
    ASSUME NEW T, T \subseteq Nat, T # {}
    PROVE  \E m \in T : \A k \in T : m <= k
<1>1. PICK m \in T : \A k \in T : ~ (<<k, m>> \in OpToRel(<, Nat))
  BY NatLessThanWellFounded, WFMin
<1>2. \A k \in T : m <= k
  <2>1. TAKE k \in T
  <2>2. <<k, m>> \in Nat \X Nat
    OBVIOUS
  <2>3. ~ (k < m)
    BY <1>1, <2>2 DEF OpToRel
  <2>. QED
    BY <2>2, <2>3
<1>. QED
  BY <1>2

(* A running sum exists for every function on the roster.                  *)
LEMMA RunningSumExists ==
    ASSUME NEW n \in Nat, NEW f \in [1..n -> Int]
    PROVE  \E r \in [0..n -> Int] : IsRunningSum(n, f, r)
<1>. DEFINE Good(k) == \E r \in [0..k -> Int] :
                          /\ r[0] = 0
                          /\ \A i \in 1..k : r[i] = r[i - 1] + f[i]
            Bad == {k \in 0..n : ~ Good(k)}
<1>1. Good(0)
  <2>. DEFINE z == [i \in 0..0 |-> 0]
  <2>1. z \in [0..0 -> Int] /\ z[0] = 0 /\ \A i \in 1..0 : z[i] = z[i - 1] + f[i]
    OBVIOUS
  <2>. QED
    BY <2>1
<1>2. ASSUME NEW m \in 1..n, Good(m - 1) PROVE Good(m)
  <2>1. PICK r \in [0..(m - 1) -> Int] :
            /\ r[0] = 0
            /\ \A i \in 1..(m - 1) : r[i] = r[i - 1] + f[i]
    BY <1>2
  <2>. DEFINE q == [i \in 0..m |-> IF i = m THEN r[m - 1] + f[m] ELSE r[i]]
  <2>2. q \in [0..m -> Int]
    BY <2>1
  <2>3. q[0] = 0
    BY <2>1
  <2>4. ASSUME NEW i \in 1..m PROVE q[i] = q[i - 1] + f[i]
    <3>1. i \in 0..m /\ i - 1 \in 0..m /\ i - 1 # m
      OBVIOUS
    <3>2. CASE i = m
      BY <3>1, <3>2
    <3>3. CASE i # m
      <4>1. i \in 1..(m - 1)
        BY <3>3
      <4>. QED
        BY <4>1, <3>1, <3>3, <2>1
    <3>. QED
      BY <3>2, <3>3
  <2>. QED
    <3>. HIDE DEF q
    <3>. QED
      BY <2>2, <2>3, <2>4
<1>3. Bad = {}
  <2>. HIDE DEF Good
  <2>1. SUFFICES ASSUME Bad # {} PROVE FALSE
    OBVIOUS
  <2>2. PICK m \in Bad : \A k \in Bad : m <= k
    BY <2>1, LeastNatural, Bad \subseteq Nat
  <2>3. m \in 1..n /\ ~ Good(m)
    BY <1>1, <2>2
  <2>4. m - 1 \in 0..n /\ m - 1 \notin Bad
    BY <2>2, <2>3
  <2>. QED
    BY <1>2, <2>3, <2>4
<1>4. Good(n)
  <2>. HIDE DEF Good
  <2>. QED
    BY <1>3
<1>5. PICK r \in [0..n -> Int] : r[0] = 0 /\ \A i \in 1..n : r[i] = r[i - 1] + f[i]
  BY <1>4
<1>6. r = [i \in 0..n |-> IF i = 0 THEN 0 ELSE r[i - 1] + f[i]]
  BY <1>5
<1>. QED
  BY <1>6 DEF IsRunningSum

(* A running sum is unique: it is determined by the function it sums.      *)
LEMMA RunningSumUnique ==
    ASSUME NEW n \in Nat, NEW f \in [1..n -> Int],
           NEW r \in [0..n -> Int], IsRunningSum(n, f, r),
           NEW q, IsRunningSum(n, f, q)
    PROVE  r = q
<1>. DEFINE Differ == {i \in 0..n : r[i] # q[i]}
<1>1. Differ = {}
  <2>1. SUFFICES ASSUME Differ # {} PROVE FALSE
    OBVIOUS
  <2>2. PICK m \in Differ : \A k \in Differ : m <= k
    BY <2>1, LeastNatural, Differ \subseteq Nat
  <2>3. m # 0
    BY DEF IsRunningSum
  <2>4. m - 1 \in 0..n /\ m - 1 \notin Differ
    BY <2>2, <2>3
  <2>. QED
    BY <2>2, <2>3, <2>4 DEF IsRunningSum
<1>2. q = [i \in 0..n |-> q[i]] /\ r = [i \in 0..n |-> r[i]]
  BY DEF IsRunningSum
<1>. QED
  BY <1>1, <1>2

(* Total is the last value of the running sum.                             *)
LEMMA TotalIsLast ==
    ASSUME NEW n \in Nat, NEW f \in [1..n -> Int],
           NEW r \in [0..n -> Int], IsRunningSum(n, f, r)
    PROVE  Total(n, f) = r[n]
<1>. DEFINE c == CHOOSE q : q = [i \in 0..n |-> IF i = 0 THEN 0 ELSE q[i - 1] + f[i]]
<1>1. IsRunningSum(n, f, c)
  BY DEF IsRunningSum
<1>2. c = r
  <2>. HIDE DEF c
  <2>. QED
    BY <1>1, RunningSumUnique
<1>. QED
  BY <1>2 DEF Total

(* The running sum behind Total, in the form the lemmas below use.         *)
LEMMA TotalByRunning ==
    ASSUME NEW n \in Nat, NEW f \in [1..n -> Int]
    PROVE  \E r \in [0..n -> Int] :
              /\ r[0] = 0
              /\ \A i \in 1..n : r[i] = r[i - 1] + f[i]
              /\ Total(n, f) = r[n]
<1>1. PICK r \in [0..n -> Int] : IsRunningSum(n, f, r)
  BY RunningSumExists
<1>2. Total(n, f) = r[n]
  BY <1>1, TotalIsLast
<1>3. r[0] = 0 /\ \A i \in 1..n : r[i] = r[i - 1] + f[i]
  BY <1>1 DEF IsRunningSum
<1>. QED
  BY <1>2, <1>3

(* Any function with the running-sum equations determines the total.       *)
LEMMA TotalFromRunning ==
    ASSUME NEW n \in Nat, NEW f \in [1..n -> Int], NEW r \in [0..n -> Int],
           r[0] = 0, \A i \in 1..n : r[i] = r[i - 1] + f[i]
    PROVE  Total(n, f) = r[n]
<1>1. r = [i \in 0..n |-> IF i = 0 THEN 0 ELSE r[i - 1] + f[i]]
  OBVIOUS
<1>. QED
  BY <1>1, TotalIsLast DEF IsRunningSum

(* A sum of integers is an integer.                                        *)
LEMMA TotalType ==
    ASSUME NEW n \in Nat, NEW f \in [1..n -> Int]
    PROVE  Total(n, f) \in Int
<1>1. PICK r \in [0..n -> Int] : Total(n, f) = r[n]
  BY TotalByRunning
<1>. QED
  BY <1>1

(* The sum of zeros is zero.                                               *)
LEMMA TotalZero ==
    ASSUME NEW n \in Nat
    PROVE  Total(n, [i \in 1..n |-> 0]) = 0
<1>. DEFINE z == [i \in 1..n |-> 0]
            r == [i \in 0..n |-> 0]
<1>1. z \in [1..n -> Int] /\ r \in [0..n -> Int]
  OBVIOUS
<1>2. r[0] = 0 /\ \A i \in 1..n : r[i] = r[i - 1] + z[i]
  OBVIOUS
<1>3. Total(n, z) = r[n]
  <2>. HIDE DEF z, r
  <2>. QED
    BY <1>1, <1>2, TotalFromRunning
<1>. QED
  BY <1>3

(* Replacing one addend moves the sum by the difference.                   *)
LEMMA TotalUpdate ==
    ASSUME NEW n \in Nat, NEW f \in [1..n -> Int], NEW j \in 1..n, NEW v \in Int
    PROVE  Total(n, [f EXCEPT ![j] = v]) = Total(n, f) - f[j] + v
<1>1. PICK r \in [0..n -> Int] : /\ r[0] = 0
                                 /\ \A i \in 1..n : r[i] = r[i - 1] + f[i]
                                 /\ Total(n, f) = r[n]
  BY TotalByRunning
<1>. DEFINE g == [f EXCEPT ![j] = v]
            q == [i \in 0..n |-> IF i < j THEN r[i] ELSE r[i] - f[j] + v]
<1>2. g \in [1..n -> Int] /\ q \in [0..n -> Int]
  OBVIOUS
<1>3. q[0] = 0
  BY <1>1
<1>4. ASSUME NEW i \in 1..n PROVE q[i] = q[i - 1] + g[i]
  <2>1. i - 1 \in 0..n /\ i \in 0..n /\ r[i] = r[i - 1] + f[i]
    BY <1>1
  <2>2. CASE i < j
    BY <2>1, <2>2
  <2>3. CASE i = j
    <3>1. q[i] = r[i] - f[j] + v /\ g[i] = v /\ q[i - 1] = r[i - 1]
      BY <2>1, <2>3
    <3>2. r[i] \in Int /\ r[i - 1] \in Int /\ f[i] \in Int
      BY <2>1
    <3>. QED
      BY <2>1, <2>3, <3>1, <3>2
  <2>4. CASE i > j
    BY <2>1, <2>4
  <2>. QED
    BY <2>2, <2>3, <2>4
<1>5. Total(n, g) = q[n]
  <2>. HIDE DEF g, q
  <2>. QED
    BY <1>2, <1>3, <1>4, TotalFromRunning
<1>6. q[n] = r[n] - f[j] + v
  OBVIOUS
<1>. QED
  BY <1>1, <1>5, <1>6

(* The sum of a pointwise sum is the sum of the sums.                      *)
LEMMA TotalOfSum ==
    ASSUME NEW n \in Nat, NEW f \in [1..n -> Int], NEW g \in [1..n -> Int]
    PROVE  Total(n, [i \in 1..n |-> f[i] + g[i]]) = Total(n, f) + Total(n, g)
<1>1. PICK r \in [0..n -> Int] : /\ r[0] = 0
                                 /\ \A i \in 1..n : r[i] = r[i - 1] + f[i]
                                 /\ Total(n, f) = r[n]
  BY TotalByRunning
<1>2. PICK q \in [0..n -> Int] : /\ q[0] = 0
                                 /\ \A i \in 1..n : q[i] = q[i - 1] + g[i]
                                 /\ Total(n, g) = q[n]
  BY TotalByRunning
<1>. DEFINE h == [i \in 1..n |-> f[i] + g[i]]
            p == [i \in 0..n |-> r[i] + q[i]]
<1>3. h \in [1..n -> Int] /\ p \in [0..n -> Int]
  <2>1. \A i \in 1..n : f[i] + g[i] \in Int
    OBVIOUS
  <2>2. \A i \in 0..n : r[i] + q[i] \in Int
    OBVIOUS
  <2>. QED
    BY <2>1, <2>2
<1>4. ASSUME NEW i \in 1..n PROVE p[i] = p[i - 1] + h[i]
  <2>1. i - 1 \in 0..n /\ i \in 0..n
    OBVIOUS
  <2>2. p[i] = r[i] + q[i] /\ p[i - 1] = r[i - 1] + q[i - 1] /\ h[i] = f[i] + g[i]
    BY <2>1
  <2>3. r[i] = r[i - 1] + f[i] /\ q[i] = q[i - 1] + g[i]
    BY <1>1, <1>2
  <2>4. /\ r[i - 1] \in Int /\ q[i - 1] \in Int
        /\ f[i] \in Int /\ g[i] \in Int
    BY <2>1
  <2>. HIDE DEF p, h
  <2>. QED
    BY <2>2, <2>3, <2>4
<1>6. p[0] = 0
  BY <1>1, <1>2
<1>5. Total(n, h) = p[n]
  <2>. HIDE DEF h, p
  <2>. QED
    BY <1>3, <1>4, <1>6, TotalFromRunning
<1>. QED
  BY <1>1, <1>2, <1>5

(* The sum is monotone in every addend.                                    *)
LEMMA TotalMonotone ==
    ASSUME NEW n \in Nat, NEW f \in [1..n -> Int], NEW g \in [1..n -> Int],
           \A i \in 1..n : f[i] <= g[i]
    PROVE  Total(n, f) <= Total(n, g)
<1>1. PICK r \in [0..n -> Int] : /\ r[0] = 0
                                 /\ \A i \in 1..n : r[i] = r[i - 1] + f[i]
                                 /\ Total(n, f) = r[n]
  BY TotalByRunning
<1>2. PICK q \in [0..n -> Int] : /\ q[0] = 0
                                 /\ \A i \in 1..n : q[i] = q[i - 1] + g[i]
                                 /\ Total(n, g) = q[n]
  BY TotalByRunning
<1>. DEFINE Above == {i \in 0..n : r[i] > q[i]}
<1>3. ASSUME Above # {} PROVE FALSE
  <2>1. PICK m \in Above : \A k \in Above : m <= k
    BY <1>3, LeastNatural, Above \subseteq Nat
  <2>2. m # 0
    BY <1>1, <1>2
  <2>3. m - 1 \in 0..n /\ m \in 1..n /\ m - 1 \notin Above
    BY <2>1, <2>2
  <2>. QED
    BY <1>1, <1>2, <2>1, <2>3
<1>4. n \notin Above
  <2>. HIDE DEF Above
  <2>. QED
    BY <1>3
<1>5. r[n] <= q[n]
  BY <1>4
<1>. QED
  BY <1>1, <1>2, <1>5

(* Two functions that differ in one addend have sums that differ by it.    *)
LEMMA TotalChange ==
    ASSUME NEW n \in Nat, NEW f \in [1..n -> Int], NEW g \in [1..n -> Int],
           NEW j \in 1..n, \A i \in 1..n : i # j => g[i] = f[i]
    PROVE  Total(n, g) = Total(n, f) - f[j] + g[j]
<1>1. g[j] \in Int
  OBVIOUS
<1>2. g = [f EXCEPT ![j] = g[j]]
  OBVIOUS
<1>3. Total(n, [f EXCEPT ![j] = g[j]]) = Total(n, f) - f[j] + g[j]
  BY <1>1, TotalUpdate
<1>. QED
  BY <1>2, <1>3

(* A sum of naturals is a natural.                                         *)
LEMMA TotalNat ==
    ASSUME NEW n \in Nat, NEW f \in [1..n -> Nat]
    PROVE  Total(n, f) \in Nat
<1>. DEFINE z == [i \in 1..n |-> 0]
<1>1. z \in [1..n -> Int] /\ f \in [1..n -> Int] /\ \A i \in 1..n : z[i] <= f[i]
  OBVIOUS
<1>2. Total(n, z) = 0
  BY TotalZero
<1>3. Total(n, z) <= Total(n, f)
  <2>. HIDE DEF z
  <2>. QED
    BY <1>1, TotalMonotone
<1>4. Total(n, f) \in Int
  BY <1>1, TotalType
<1>. QED
  BY <1>2, <1>3, <1>4

(* A sum of naturals is at least each of them.                             *)
LEMMA TotalCoversAddend ==
    ASSUME NEW n \in Nat, NEW f \in [1..n -> Nat], NEW j \in 1..n
    PROVE  f[j] <= Total(n, f)
<1>. DEFINE z == [i \in 1..n |-> 0]
            g == [z EXCEPT ![j] = f[j]]
<1>1. z \in [1..n -> Int] /\ g \in [1..n -> Int] /\ f \in [1..n -> Int] /\ f[j] \in Int
  OBVIOUS
<1>2. \A i \in 1..n : g[i] <= f[i]
  OBVIOUS
<1>3. Total(n, g) = Total(n, z) - z[j] + f[j]
  <2>. HIDE DEF z
  <2>. QED
    BY <1>1, TotalUpdate
<1>4. Total(n, z) = 0 /\ z[j] = 0
  BY TotalZero
<1>5. Total(n, g) <= Total(n, f)
  <2>. HIDE DEF g
  <2>. QED
    BY <1>1, <1>2, TotalMonotone
<1>. QED
  BY <1>1, <1>3, <1>4, <1>5

-----------------------------------------------------------------------------
(* A sum is the sum of its two parts.                                      *)
LEMMA TotalSplit ==
    ASSUME NEW n \in Nat, NEW m \in Nat, NEW f \in [1..n + m -> Int]
    PROVE  Total(n + m, f) = Total(n, [k \in 1..n |-> f[k]]) + Total(m, [k \in 1..m |-> f[n + k]])
<1>. DEFINE a == [k \in 1..n |-> f[k]]
            b == [k \in 1..m |-> f[n + k]]
<1>1. a \in [1..n -> Int] /\ b \in [1..m -> Int]
  OBVIOUS
<1>a. (\A k \in 1..n : a[k] = f[k]) /\ (\A k \in 1..m : b[k] = f[n + k])
  OBVIOUS
<1>. HIDE DEF a, b
<1>2. PICK r \in [0..n -> Int] : r[0] = 0 /\ (\A i \in 1..n : r[i] = r[i - 1] + a[i]) /\ Total(n, a) = r[n]
  BY <1>1, TotalByRunning
<1>3. PICK q \in [0..m -> Int] : q[0] = 0 /\ (\A i \in 1..m : q[i] = q[i - 1] + b[i]) /\ Total(m, b) = q[m]
  BY <1>1, TotalByRunning
<1>. DEFINE w == [i \in 0..n + m |-> IF i <= n THEN r[i] ELSE r[n] + q[i - n]]
<1>4. w \in [0..n + m -> Int] /\ w[0] = 0
  BY <1>2, <1>3
<1>5. ASSUME NEW i \in 1..n + m PROVE w[i] = w[i - 1] + f[i]
  <2>1. CASE i <= n
    <3>1. w[i] = r[i] /\ w[i - 1] = r[i - 1]
      BY <2>1
    <3>2. r[i] = r[i - 1] + a[i] /\ a[i] = f[i]
      BY <1>2, <1>a, <2>1
    <3>. QED
      BY <3>1, <3>2
  <2>2. CASE i = n + 1
    <3>1. w[i] = r[n] + q[1] /\ w[i - 1] = r[n] /\ 1 \in 1..m
      BY <2>2
    <3>2. q[1] = q[0] + b[1] /\ b[1] = f[i] /\ b[1] \in Int
      BY <1>1, <1>3, <1>a, <2>2, <3>1
    <3>. QED
      BY <1>3, <3>1, <3>2
  <2>3. CASE i > n + 1
    <3>1. PICK j \in 1..m : j = i - n /\ j - 1 \in 1..m /\ n + j = i
      BY <2>3
    <3>2. w[i] = r[n] + q[j] /\ w[i - 1] = r[n] + q[j - 1]
      BY <2>3, <3>1
    <3>3. q[j] = q[j - 1] + b[j] /\ b[j] = f[i]
      BY <1>3, <1>a, <3>1
    <3>4. r[n] \in Int /\ q[j - 1] \in Int /\ b[j] \in Int
      <4>1. n \in 0..n /\ j - 1 \in 0..m
        BY <3>1
      <4>. QED
        BY <1>1, <4>1
    <3>5. PICK x \in Int, y \in Int, z \in Int : x = r[n] /\ y = q[j - 1] /\ z = b[j]
      BY <3>4
    <3>6. w[i] = x + (y + z) /\ w[i - 1] = x + y /\ f[i] = z
      BY <3>2, <3>3, <3>5
    <3>. HIDE DEF w
    <3>. QED
      BY <3>6
  <2>. QED
    BY <2>1, <2>2, <2>3
<1>6. w[n + m] = r[n] + q[m]
  <2>1. n + m \in 0..n + m /\ n \in 0..n /\ (n + m) - n = m
    OBVIOUS
  <2>2. w[n + m] = IF n + m <= n THEN r[n + m] ELSE r[n] + q[(n + m) - n]
    BY <2>1
  <2>3. r[n] \in Int
    BY <2>1
  <2>. HIDE DEF w
  <2>4. CASE m = 0
    BY <1>3, <2>2, <2>3, <2>4
  <2>5. CASE m # 0
    BY <2>1, <2>2, <2>5
  <2>. QED
    BY <2>4, <2>5
<1>. HIDE DEF w
<1>7. Total(n + m, f) = w[n + m]
  <2>1. PICK z \in Nat : z = n + m
    OBVIOUS
  <2>2. f \in [1..z -> Int] /\ w \in [0..z -> Int] /\ w[0] = 0 /\ \A i \in 1..z : w[i] = w[i - 1] + f[i]
    BY <1>4, <1>5, <2>1
  <2>3. Total(z, f) = w[z]
    BY <2>2, TotalFromRunning
  <2>. QED
    BY <2>1, <2>3
<1>. QED
  BY <1>2, <1>3, <1>6, <1>7 DEF a, b

(* The sum of one.                                                         *)
LEMMA TotalOne ==
    ASSUME NEW f \in [1..1 -> Int]
    PROVE  Total(1, f) = f[1]
<1>. DEFINE r == [i \in 0..1 |-> IF i = 0 THEN 0 ELSE f[1]]
<1>1. r \in [0..1 -> Int] /\ r[0] = 0 /\ r[1] = f[1] /\ \A i \in 1..1 : r[i] = r[i - 1] + f[i]
  OBVIOUS
<1>. HIDE DEF r
<1>. QED
  BY <1>1, TotalFromRunning

(* Sequences of sequences.                                                 *)

(* Induction up to n, for a set of naturals.                               *)
LEMMA UpTo ==
    ASSUME NEW n \in Nat, NEW G, 0 \in G,
           \A m \in 1..n : m - 1 \in G => m \in G
    PROVE  \A m \in 0..n : m \in G
<1>. DEFINE Bad == {m \in 0..n : m \notin G}
<1>1. SUFFICES ASSUME Bad # {} PROVE FALSE
  OBVIOUS
<1>2. PICK m \in Bad : \A k \in Bad : m <= k
  BY <1>1, LeastNatural, Bad \subseteq Nat
<1>3. m \in 1..n /\ m - 1 \in 0..n /\ m - 1 \notin Bad
  BY <1>2
<1>. QED
  BY <1>2, <1>3

Lists(S) == Seq(S)
Joined(s, t) == s \o t
Pieces(S, n) == [1..n -> Lists(S)]
Chains(S, n) == [0..n -> Lists(S)]
FlatOf(f, n) == CHOOSE h : h = [i \in 1..n |-> IF i = 1 THEN f[i] ELSE Joined(h[i - 1], f[i])]
Links(g, f, n) == \A i \in 1..n : g[i] = Joined(g[i - 1], f[i])

(* Lists are closed under concatenation.                                   *)
LEMMA ListsJoin ==
    ASSUME NEW S
    PROVE
    /\ <<>> \in Lists(S)
    /\ \A s, t \in Lists(S) : Joined(s, t) \in Lists(S)
    /\ \A s \in Lists(S) : Joined(<<>>, s) = s
  BY DEF Lists, Joined

(* A function on 1..n is a list of n elements.                             *)
LEMMA ListFromFunction ==
    ASSUME NEW S, NEW n \in Nat, NEW s \in [1..n -> S]
    PROVE  s \in Lists(S) /\ Len(s) = n
  BY DEF Lists

(* The elements of s and then those of t.                                  *)
Glued(r, s, t) ==
    /\ Len(s) \in Nat /\ Len(t) \in Nat /\ Len(r) = Len(s) + Len(t)
    /\ DOMAIN r = 1..Len(s) + Len(t)
    /\ \A x \in 1..Len(s) : r[x] = s[x]
    /\ \A x \in Len(s) + 1..Len(s) + Len(t) : r[x] = t[x - Len(s)] /\ x - Len(s) \in 1..Len(t)

(* Two lists joined are a list that is one after the other.                *)
LEMMA JoinedIs ==
    ASSUME NEW S, NEW s \in Lists(S), NEW t \in Lists(S)
    PROVE  Joined(s, t) \in Lists(S) /\ Glued(Joined(s, t), s, t)
<1>1. s \in Seq(S) /\ t \in Seq(S)
  BY DEF Lists
<1>. QED
  BY <1>1 DEF Lists, Joined, Glued

(* A function with a value at 0 and a step from each value to the next.    *)
LEMMA IterationExists ==
    ASSUME NEW S, NEW n \in Nat, NEW f \in Pieces(S, n), NEW z \in Lists(S)
    PROVE  \E g \in Chains(S, n) : g[0] = z /\ Links(g, f, n)
<1>. USE DEF Pieces, Chains, Links
<1>. DEFINE Good(k) == \E g \in [0..k -> Lists(S)] :
                          g[0] = z /\ \A i \in 1..k : g[i] = Joined(g[i - 1], f[i])
            G == {k \in 0..n : Good(k)}
<1>1. Good(0)
  <2>. DEFINE h == [i \in 0..0 |-> z]
  <2>1. h \in [0..0 -> Lists(S)] /\ h[0] = z /\ \A i \in 1..0 : h[i] = Joined(h[i - 1], f[i])
    OBVIOUS
  <2>. QED
    BY <2>1
<1>2. ASSUME NEW m \in 1..n, Good(m - 1) PROVE Good(m)
  <2>1. PICK g \in [0..(m - 1) -> Lists(S)] :
            g[0] = z /\ \A i \in 1..(m - 1) : g[i] = Joined(g[i - 1], f[i])
    BY <1>2
  <2>2. Joined(g[m - 1], f[m]) \in Lists(S)
    <3>1. g[m - 1] \in Lists(S) /\ f[m] \in Lists(S)
      BY <2>1
    <3>. QED
      BY <3>1, ListsJoin
  <2>. PICK v \in Lists(S) : v = Joined(g[m - 1], f[m])
    BY <2>2
  <2>. DEFINE h == [i \in 0..m |-> IF i = m THEN v ELSE g[i]]
  <2>3. h \in [0..m -> Lists(S)] /\ h[0] = z
    BY <2>1
  <2>4. ASSUME NEW i \in 1..m PROVE h[i] = Joined(h[i - 1], f[i])
    <3>1. i \in 0..m /\ i - 1 \in 0..m /\ i - 1 # m /\ h[i - 1] = g[i - 1]
      OBVIOUS
    <3>2. CASE i = m
      <4>1. h[i] = v
        BY <3>1, <3>2
      <4>. QED
        BY <3>1, <3>2, <4>1
    <3>3. CASE i # m
      <4>1. i \in 1..(m - 1) /\ h[i] = g[i]
        BY <3>1, <3>3
      <4>. QED
        BY <4>1, <3>1, <2>1
    <3>. QED
      BY <3>2, <3>3
  <2>. HIDE DEF h
  <2>. QED
    BY <2>3, <2>4
<1>. HIDE DEF Good
<1>3. 0 \in G
  BY <1>1
<1>4. \A m \in 1..n : m - 1 \in G => m \in G
  BY <1>2
<1>5. n \in G
  <2>. HIDE DEF G
  <2>1. n \in 0..n
    OBVIOUS
  <2>. QED
    BY <1>3, <1>4, <2>1, UpTo
<1>6. Good(n)
  BY <1>5
<1>. QED
  BY <1>6 DEF Good

(* The recursion of FlattenSeq has one solution.                           *)
LEMMA RecursionIsIteration ==
    ASSUME NEW S, NEW n \in Nat \ {0}, NEW f \in Pieces(S, n), NEW g \in Chains(S, n),
           g[1] = f[1], Links(g, f, n)
    PROVE  FlatOf(f, n)[n] = g[n]
<1>. USE DEF Pieces, Chains, Links
<1>. DEFINE IsFlat(h) == h = [i \in 1..n |-> IF i = 1 THEN f[i] ELSE Joined(h[i - 1], f[i])]
            joins == [i \in 1..n |-> g[i]]
            flat == FlatOf(f, n)
<1>1. \A i \in 1..n : joins[i] = IF i = 1 THEN f[i] ELSE Joined(joins[i - 1], f[i])
  <2>. SUFFICES ASSUME NEW i \in 1..n, i # 1 PROVE g[i] = Joined(joins[i - 1], f[i])
    OBVIOUS
  <2>1. joins[i - 1] = g[i - 1]
    OBVIOUS
  <2>. QED
    BY <2>1
<1>2. IsFlat(joins)
  BY <1>1
<1>3. IsFlat(flat)
  <2>. HIDE DEF joins
  <2>. QED
    BY <1>2 DEF FlatOf
<1>. HIDE DEF flat
<1>4. \A i \in 1..n : flat[i] = IF i = 1 THEN f[i] ELSE Joined(flat[i - 1], f[i])
  BY <1>3
<1>. DEFINE G == {i \in 0..n : i # 0 => flat[i] = g[i]}
<1>5. ASSUME NEW m \in 1..n, m - 1 \in G PROVE m \in G
  <2>1. CASE m = 1
    <3>1. 1 \in 1..n /\ flat[1] = f[1]
      BY <1>4, <2>1
    <3>. QED
      BY <2>1, <3>1
  <2>2. CASE m # 1
    <3>1. m - 1 \in 1..n /\ flat[m - 1] = g[m - 1]
      BY <1>5, <2>2
    <3>2. flat[m] = Joined(flat[m - 1], f[m])
      BY <1>4, <2>2
    <3>. QED
      BY <3>1, <3>2
  <2>. QED
    BY <2>1, <2>2
<1>6. 0 \in G
  OBVIOUS
<1>7. n \in G
  <2>. HIDE DEF G
  <2>1. n \in 0..n
    OBVIOUS
  <2>. QED
    BY <1>5, <1>6, <2>1, UpTo
<1>. QED
  BY <1>7 DEF flat

(* FlattenSeq is the iteration of concatenation, from the left.            *)
LEMMA FlattenIsIteration ==
    ASSUME NEW S, NEW n \in Nat, NEW f \in Pieces(S, n)
    PROVE  \E g \in Chains(S, n) : g[0] = <<>> /\ g[n] = FlattenSeq(f) /\ Links(g, f, n)
<1>1. f \in Seq(Lists(S)) /\ Len(f) = n /\ (n = 0 => f = <<>>)
  BY DEF Pieces
<1>2. PICK g \in Chains(S, n) : g[0] = <<>> /\ Links(g, f, n)
  <2>1. <<>> \in Lists(S)
    BY ListsJoin
  <2>. QED
    BY <2>1, IterationExists
<1>3. g[n] = FlattenSeq(f)
  <2>1. CASE n = 0
    BY <1>1, <1>2, <2>1 DEF FlattenSeq
  <2>2. CASE n # 0
    <3>1. g[1] = f[1]
      BY <1>2, <2>2, ListsJoin DEF Pieces, Chains, Links
    <3>2. FlattenSeq(f) = FlatOf(f, n)[n]
      BY <1>1, <2>2 DEF FlattenSeq, FlatOf, Joined
    <3>3. n \in Nat \ {0}
      BY <2>2
    <3>4. FlatOf(f, n)[n] = g[n]
      BY <1>2, <3>1, <3>3, RecursionIsIteration
    <3>. QED
      BY <3>2, <3>4
  <2>. QED
    BY <2>1, <2>2
<1>. QED
  BY <1>2, <1>3

(* Every block of f at its place in s, and nothing else.                   *)
Placed(s, f, n) ==
    \E cut \in [0..n -> Nat] :
       /\ cut[0] = 0 /\ cut[n] = Len(s)
       /\ \A i \in 1..n : cut[i] = cut[i - 1] + Len(f[i])
       /\ \A i \in 1..n : \A j \in 1..Len(f[i]) :
             cut[i - 1] + j \in 1..Len(s) /\ s[cut[i - 1] + j] = f[i][j]
       /\ \A x \in 1..Len(s) : \E i \in 1..n : x - cut[i - 1] \in 1..Len(f[i])

(* It holds every block at its place and nothing else.                     *)
LEMMA FlattenedBlocks ==
    ASSUME NEW S, NEW n \in Nat, NEW f \in Pieces(S, n)
    PROVE  FlattenSeq(f) \in Lists(S) /\ Placed(FlattenSeq(f), f, n)
<1>0. PICK g \in Chains(S, n) : g[0] = <<>> /\ g[n] = FlattenSeq(f) /\ Links(g, f, n)
  BY FlattenIsIteration
<1>. USE <1>0 DEF Pieces, Chains, Links, Placed
<1>1. \A s \in Lists(S) : Len(s) \in Nat
  BY DEF Lists
<1>2. \A s, t \in Lists(S) :
        /\ Len(Joined(s, t)) = Len(s) + Len(t)
        /\ \A x \in 1..Len(s) : Joined(s, t)[x] = s[x]
        /\ \A j \in 1..Len(t) : Joined(s, t)[Len(s) + j] = t[j]
  BY DEF Lists, Joined
<1>. DEFINE cut == [i \in 0..n |-> Len(g[i])]
<1>3. cut \in [0..n -> Nat] /\ cut[0] = 0 /\ cut[n] = Len(g[n])
  BY <1>1
<1>4. ASSUME NEW i \in 1..n
      PROVE  /\ cut[i - 1] \in Nat /\ cut[i] \in Nat /\ Len(f[i]) \in Nat
             /\ cut[i] = cut[i - 1] + Len(f[i])
             /\ \A x \in 1..cut[i - 1] : g[i][x] = g[i - 1][x]
             /\ \A j \in 1..Len(f[i]) : g[i][cut[i - 1] + j] = f[i][j]
  <2>1. /\ g[i] = Joined(g[i - 1], f[i])
        /\ g[i - 1] \in Lists(S) /\ f[i] \in Lists(S) /\ i - 1 \in 0..n /\ i \in 0..n
    OBVIOUS
  <2>2. cut[i] = Len(g[i]) /\ cut[i - 1] = Len(g[i - 1])
    BY <2>1
  <2>. HIDE DEF cut
  <2>. PICK s \in Lists(S), t \in Lists(S) : s = g[i - 1] /\ t = f[i] /\ g[i] = Joined(s, t)
    BY <2>1
  <2>3. Len(s) \in Nat /\ Len(t) \in Nat /\ Len(Joined(s, t)) = Len(s) + Len(t)
    BY <1>1, <1>2, ZenonT(30)
  <2>4. /\ cut[i - 1] \in Nat /\ cut[i] \in Nat /\ Len(f[i]) \in Nat
        /\ cut[i] = cut[i - 1] + Len(f[i])
    BY <2>2, <2>3
  <2>5. /\ \A x \in 1..Len(s) : Joined(s, t)[x] = s[x]
        /\ \A j \in 1..Len(t) : Joined(s, t)[Len(s) + j] = t[j]
    BY <1>2
  <2>6. /\ \A x \in 1..Len(s) : g[i][x] = s[x]
        /\ \A j \in 1..Len(t) : g[i][Len(s) + j] = t[j]
    BY <2>5, Zenon
  <2>. QED
    BY <2>2, <2>4, <2>6
<1>. HIDE DEF cut
<1>5. ASSUME NEW i \in 0..n
      PROVE  \A m \in i..n : cut[i] <= cut[m] /\ \A x \in 1..cut[i] : g[m][x] = g[i][x]
  <2>. DEFINE G == {m \in 0..n : m >= i => cut[i] <= cut[m] /\ \A x \in 1..cut[i] : g[m][x] = g[i][x]}
  <2>0. cut[i] \in Nat
    BY <1>3
  <2>1. 0 \in G
    BY <1>3, <2>0
  <2>2. ASSUME NEW m \in 1..n, m - 1 \in G PROVE m \in G
    <3>. SUFFICES ASSUME m >= i
                  PROVE  cut[i] <= cut[m] /\ \A x \in 1..cut[i] : g[m][x] = g[i][x]
      OBVIOUS
    <3>1. CASE m = i
      BY <2>0, <3>1
    <3>2. CASE m # i
      <4>1. cut[i] <= cut[m - 1] /\ \A x \in 1..cut[i] : g[m - 1][x] = g[i][x]
        BY <2>2, <3>2
      <4>. QED
        BY <1>4, <2>0, <4>1
    <3>. QED
      BY <3>1, <3>2
  <2>3. \A m \in 0..n : m \in G
    <3>. HIDE DEF G
    <3>. QED
      BY <2>1, <2>2, UpTo
  <2>. QED
    BY <2>3
<1>6. ASSUME NEW i \in 1..n, NEW j \in 1..Len(f[i])
      PROVE  cut[i - 1] + j \in 1..Len(g[n]) /\ g[n][cut[i - 1] + j] = f[i][j]
  <2>1. /\ i \in 0..n /\ n \in i..n /\ cut[n] \in Nat /\ cut[n] = Len(g[n])
        /\ cut[i - 1] \in Nat /\ cut[i] \in Nat /\ Len(f[i]) \in Nat
    BY <1>3, <1>4
  <2>2. cut[i] = cut[i - 1] + Len(f[i]) /\ cut[i] <= cut[n]
    BY <1>4, <1>5, <2>1
  <2>3. cut[i - 1] + j \in 1..cut[i] /\ cut[i - 1] + j \in 1..cut[n]
    BY <2>1, <2>2
  <2>4. g[n][cut[i - 1] + j] = g[i][cut[i - 1] + j]
    BY <1>5, <2>1, <2>3
  <2>. QED
    BY <1>4, <2>1, <2>3, <2>4
<1>7. ASSUME NEW x \in 1..Len(g[n])
      PROVE  \E i \in 1..n : x - cut[i - 1] \in 1..Len(f[i])
  <2>. DEFINE Past == {i \in 0..n : x <= cut[i]}
  <2>1. n \in Past
    BY <1>3
  <2>2. PICK m \in Past : \A k \in Past : m <= k
    BY <2>1, LeastNatural, Past \subseteq Nat
  <2>3. m # 0
    BY <1>3, <2>2
  <2>4. m \in 1..n /\ m - 1 \in 0..n /\ m - 1 \notin Past
    BY <2>2, <2>3
  <2>5. cut[m - 1] \in Nat /\ x <= cut[m] /\ ~ (x <= cut[m - 1])
    BY <1>4, <2>2, <2>4
  <2>6. x - cut[m - 1] \in 1..Len(f[m])
    BY <1>4, <2>4, <2>5, SMTT(30)
  <2>. QED
    BY <2>4, <2>6
<1>8. FlattenSeq(f) \in Lists(S)
  OBVIOUS
<1>9. /\ cut[0] = 0 /\ cut[n] = Len(FlattenSeq(f))
      /\ \A i \in 1..n : cut[i] = cut[i - 1] + Len(f[i])
  BY <1>3, <1>4
<1>10. \A i \in 1..n : \A j \in 1..Len(f[i]) :
          /\ cut[i - 1] + j \in 1..Len(FlattenSeq(f))
          /\ FlattenSeq(f)[cut[i - 1] + j] = f[i][j]
  BY <1>6
<1>11. \A x \in 1..Len(FlattenSeq(f)) : \E i \in 1..n : x - cut[i - 1] \in 1..Len(f[i])
  BY <1>7
<1>. QED
  BY <1>3, <1>8, <1>9, <1>10, <1>11
-----------------------------------------------------------------------------
(* The programs of the operations.                                         *)
=============================================================================
