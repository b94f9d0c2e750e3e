------------------------ MODULE EncryptedTally_proofs ------------------------
(***************************************************************************)
(* Proofs about EncryptedTally: that the Paillier library of the           *)
(* repository decrypts, adds and recovers blinding factors, for keys of    *)
(* every even length and bytes of every base.  The lemmas go from          *)
(* induction and divisors to Fermat's theorem, then follow a choice        *)
(* through the conversions, the ciphertexts, their product and back.       *)
(***************************************************************************)
EXTENDS EncryptedTally, FiniteSetTheorems, SequenceTheorems, WellFoundedInduction, TLAPS

-----------------------------------------------------------------------------
(* Induction. *)

\* A set of numbers has a least one.
LEMMA LeastNumber ==
    ASSUME NEW T \in SUBSET Nat, T # {}
    PROVE  \E x \in T : \A y \in T : x <= y
<1>1. PICK x \in T : \A y \in T : ~(<<y, x>> \in OpToRel(<, Nat))
  BY NatLessThanWellFounded, WFMin
<1>2. \A y \in T : ~(y < x)
  BY <1>1 DEF OpToRel
<1> QED
  BY <1>2

\* What holds at 0 and goes from each number to the next holds of all.
LEMMA AllNumbers ==
    ASSUME NEW P, 0 \in P, \A k \in Nat : k \in P => k + 1 \in P
    PROVE  Nat \subseteq P
<1> SUFFICES ASSUME NEW z \in Nat, z \notin P
             PROVE  FALSE
  OBVIOUS
<1> DEFINE T == {k \in Nat : k \notin P}
<1>1. PICK x \in T : \A y \in T : x <= y
  BY LeastNumber
<1>2. x # 0 /\ x - 1 \in Nat /\ x - 1 \notin T
  BY <1>1
<1>3. (x - 1) + 1 \in P
  BY <1>2
<1> QED
  BY <1>1, <1>2, <1>3

\* What holds at 0 and goes from each number to the next, while there is one,
\* holds up to n.
LEMMA NumbersUpTo ==
    ASSUME NEW e \in Nat, NEW P, 0 \in P, \A k \in 0 .. e - 1 : k \in P => k + 1 \in P
    PROVE  \A k \in 0 .. e : k \in P
<1> DEFINE Q == {k \in Nat : k <= e => k \in P}
<1>1. 0 \in Q
  OBVIOUS
<1>2. \A k \in Nat : k \in Q => k + 1 \in Q
  OBVIOUS
<1>3. Nat \subseteq Q
  <2> HIDE DEF Q
  <2> QED
    BY <1>1, <1>2, AllNumbers
<1> QED
  BY <1>3

\* A sequence that begins with start and goes on by step.
Iterates(f, S, start, step) ==
    f \in [Nat -> S] /\ f[0] = start /\ \A k \in Nat : f[k + 1] = step[<<k, f[k]>>]

Steps(S) == [Nat \X S -> S]

\* A start and a step have a sequence.
LEMMA RecursionExists ==
    ASSUME NEW S, NEW start \in S, NEW step \in Steps(S)
    PROVE  \E f : Iterates(f, S, start, step)
<1> DEFINE Good(len, g) == /\ g \in [0 .. len -> S] /\ g[0] = start
                           /\ \A k \in 0 .. len - 1 : g[k + 1] = step[<<k, g[k]>>]
           P == {len \in Nat : \E g : Good(len, g)}
<1>1. Good(0, [k \in 0 .. 0 |-> start])
  OBVIOUS
<1>2. ASSUME NEW len \in Nat, NEW g, Good(len, g) PROVE \E h : Good(len + 1, h)
  <2> DEFINE h == [k \in 0 .. len + 1 |-> IF k = len + 1 THEN step[<<len, g[len]>>] ELSE g[k]]
  <2>1. len \in 0 .. len /\ g[len] \in S
    BY <1>2
  <2>2. h \in [0 .. len + 1 -> S]
    <3>1. \A k \in 0 .. len + 1 : k # len + 1 => k \in 0 .. len
      OBVIOUS
    <3>2. step[<<len, g[len]>>] \in S
      BY <2>1 DEF Steps
    <3> QED
      BY <1>2, <3>1, <3>2
  <2>3. h[0] = start
    BY <1>2
  <2>4. ASSUME NEW k \in 0 .. len PROVE h[k + 1] = step[<<k, h[k]>>]
    <3>1. k \in 0 .. len + 1 /\ k + 1 \in 0 .. len + 1 /\ h[k] = g[k]
      OBVIOUS
    <3>2. CASE k = len
      BY <3>1, <3>2
    <3>3. CASE k # len
      <4>1. k \in 0 .. len - 1 /\ h[k + 1] = g[k + 1]
        BY <3>1, <3>3
      <4> QED
        BY <1>2, <3>1, <4>1
    <3> QED
      BY <3>2, <3>3
  <2>5. (len + 1) - 1 = len
    OBVIOUS
  <2> HIDE DEF h
  <2>6. Good(len + 1, h)
    BY <2>2, <2>3, <2>4, <2>5
  <2> QED
    BY <2>6
<1> HIDE DEF Good
<1>3. \A len \in Nat : \E g : Good(len, g)
  <2>1. 0 \in P /\ \A len \in Nat : len \in P => len + 1 \in P
    BY <1>1, <1>2
  <2>2. Nat \subseteq P
    <3> HIDE DEF P
    <3> QED
      BY <2>1, AllNumbers
  <2> QED
    BY <2>2
<1>4. ASSUME NEW a \in Nat, NEW b \in Nat, a <= b, NEW g, NEW h, Good(a, g), Good(b, h)
      PROVE  \A k \in 0 .. a : g[k] = h[k]
  <2> DEFINE Q == {k \in 0 .. a : g[k] = h[k]}
  <2> USE DEF Good
  <2>1. 0 \in Q
    BY <1>4
  <2>2. ASSUME NEW k \in 0 .. a - 1, k \in Q PROVE k + 1 \in Q
    <3>1. k \in 0 .. b - 1 /\ k + 1 \in 0 .. a
      BY <1>4
    <3>2. g[k + 1] = step[<<k, g[k]>>] /\ h[k + 1] = step[<<k, h[k]>>]
      BY <1>4, <3>1
    <3> QED
      BY <2>2, <3>1, <3>2
  <2>3. \A k \in 0 .. a : k \in Q
    <3> HIDE DEF Q
    <3> QED
      BY <2>1, <2>2, NumbersUpTo
  <2> QED
    BY <2>3
<1> DEFINE G(len) == CHOOSE g : Good(len, g)
           f == [len \in Nat |-> G(len)[len]]
<1>5. \A len \in Nat : Good(len, G(len))
  BY <1>3
<1> HIDE DEF G
<1>6. f \in [Nat -> S]
  <2>1. \A len \in Nat : len \in 0 .. len /\ G(len) \in [0 .. len -> S]
    BY <1>5 DEF Good
  <2> QED
    BY <2>1
<1>7. f[0] = start
  BY <1>5 DEF Good
<1>8. ASSUME NEW k \in Nat PROVE f[k + 1] = step[<<k, f[k]>>]
  <2>1. Good(k, G(k)) /\ Good(k + 1, G(k + 1))
    BY <1>5
  <2>2. G(k)[k] = G(k + 1)[k]
    BY <1>4, <2>1
  <2>3. G(k + 1)[k + 1] = step[<<k, G(k + 1)[k]>>]
    <3>1. k \in 0 .. (k + 1) - 1
      OBVIOUS
    <3> QED
      BY <2>1, <3>1 DEF Good
  <2> QED
    BY <2>2, <2>3
<1> QED
  BY <1>6, <1>7, <1>8 DEF Iterates

\* Such a sequence up to a number.
IteratesUpTo(f, S, start, step, e) ==
    /\ f \in [0 .. e -> S] /\ f[0] = start
    /\ \A i \in 1 .. e : f[i] = step[<<i - 1, f[i - 1]>>]

\* And so they have a sequence of any length.
LEMMA RecursionUpTo ==
    ASSUME NEW S, NEW start \in S, NEW step \in Steps(S), NEW e \in Nat
    PROVE  \E f : IteratesUpTo(f, S, start, step, e)
<1>1. PICK g : Iterates(g, S, start, step)
  BY RecursionExists
<1> DEFINE f == [i \in 0 .. e |-> g[i]]
<1>2. f \in [0 .. e -> S] /\ f[0] = start
  BY <1>1 DEF Iterates
<1>3. ASSUME NEW i \in 1 .. e PROVE f[i] = step[<<i - 1, f[i - 1]>>]
  <2>1. i - 1 \in Nat /\ i - 1 \in 0 .. e /\ (i - 1) + 1 = i /\ i \in 0 .. e
    OBVIOUS
  <2>2. g[i] = step[<<i - 1, g[i - 1]>>]
    BY <1>1, <2>1 DEF Iterates
  <2> QED
    BY <2>1, <2>2
<1> QED
  BY <1>2, <1>3 DEF IteratesUpTo

-----------------------------------------------------------------------------
(* Divisors. *)

Divides(d, x) == \E k \in Int : x = d * k

\* The remainder is what is left of a multiple.
LEMMA Division ==
    ASSUME NEW a \in Int, NEW m \in Nat, m > 0
    PROVE  /\ a \div m \in Int
           /\ a = m * (a \div m) + (a % m)
           /\ a % m \in 0 .. m - 1
OBVIOUS

\* A number has one quotient and one remainder.
LEMMA OneRemainder ==
    ASSUME NEW a \in Int, NEW m \in Nat, m > 0, NEW k \in Int, NEW r \in 0 .. m - 1,
           a = m * k + r
    PROVE  a % m = r /\ a \div m = k
OBVIOUS

\* The remainder is zero where there is a divisor.
LEMMA DividesIff ==
    ASSUME NEW a \in Int, NEW m \in Nat, m > 0
    PROVE  a % m = 0 <=> Divides(m, a)
<1>1. ASSUME a % m = 0 PROVE Divides(m, a)
  <2>1. a = m * (a \div m) /\ a \div m \in Int
    BY <1>1, Division
  <2> QED
    BY <2>1 DEF Divides
<1>2. ASSUME Divides(m, a) PROVE a % m = 0
  <2>1. PICK k \in Int : a = m * k
    BY <1>2 DEF Divides
  <2>2. a = m * k + 0
    BY <2>1
  <2> QED
    BY <2>2, OneRemainder
<1> QED
  BY <1>1, <1>2

\* The least positive sum of multiples of two numbers divides both.
LEMMA Bezout ==
    ASSUME NEW a \in Nat \ {0}, NEW b \in Nat \ {0}
    PROVE  \E d \in Nat \ {0} : \E u, v \in Int :
              d = a * u + b * v /\ Divides(d, a) /\ Divides(d, b)
<1> DEFINE T == {x \in Nat \ {0} : \E u, v \in Int : x = a * u + b * v}
<1>1. a \in T /\ b \in T
  <2>1. a = a * 1 + b * 0 /\ b = a * 0 + b * 1
    OBVIOUS
  <2> QED
    BY <2>1
<1>2. PICK d \in T : \A x \in T : d <= x
  BY <1>1, LeastNumber
<1>3. PICK u \in Int, v \in Int : d = a * u + b * v
  OBVIOUS
<1>4. ASSUME NEW x \in T PROVE Divides(d, x)
  <2> DEFINE k == x \div d
             r == x % d
  <2>1. k \in Int /\ x = d * k + r /\ r \in 0 .. d - 1
    BY Division
  <2> HIDE DEF k, r
  <2>2. PICK s \in Int, t \in Int : x = a * s + b * t
    OBVIOUS
  <2>3. r = a * (s - u * k) + b * (t - v * k)
    <3>1. d * k = a * (u * k) + b * (v * k)
      BY <1>3, <2>1
    <3>2. a * (s - u * k) = a * s - a * (u * k)
      BY <2>1
    <3>3. b * (t - v * k) = b * t - b * (v * k)
      BY <2>1
    <3> QED
      BY <2>1, <2>2, <3>1, <3>2, <3>3
  <2>4. s - u * k \in Int /\ t - v * k \in Int
    BY <2>1
  <2>5. \E y, z \in Int : r = a * y + b * z
    <3> DEFINE y == s - u * k
               z == t - v * k
    <3>1. y \in Int /\ z \in Int /\ r = a * y + b * z
      BY <2>3, <2>4
    <3> HIDE DEF y, z
    <3> QED
      BY <3>1
  <2>6. d \in Nat /\ r \in Nat /\ r < d
    BY <2>1
  <2>7. r \notin T
    <3> HIDE DEF T
    <3> QED
      BY <1>2, <2>6
  <2>8. r = 0
    BY <2>5, <2>6, <2>7
  <2> QED
    BY <2>1, <2>8 DEF Divides
<1> QED
  BY <1>1, <1>3, <1>4
\* A divisor is not above a positive number it divides.
LEMMA DivisorBound ==
    ASSUME NEW d \in Nat \ {0}, NEW x \in Nat \ {0}, Divides(d, x)
    PROVE  \E k \in Nat \ {0} : x = d * k /\ d <= x
<1>1. PICK k \in Int : x = d * k
  BY DEF Divides
<1>2. k > 0
  <2> SUFFICES ASSUME k <= 0 PROVE FALSE
    OBVIOUS
  <2> QED
    BY <1>1
<1>3. d <= d * k
  BY <1>2
<1> QED
  BY <1>1, <1>2, <1>3

\* What divides a number divides its multiples.
LEMMA DividesMultiple ==
    ASSUME NEW d \in Int, NEW x \in Int, NEW y \in Int, Divides(d, x)
    PROVE  Divides(d, x * y) /\ Divides(d, y * x)
<1>1. PICK k \in Int : x = d * k
  BY DEF Divides
<1>2. x * y = d * (k * y) /\ y * x = d * (k * y) /\ k * y \in Int
  BY <1>1
<1> HIDE <1>1
<1> QED
  BY <1>2 DEF Divides

\* A divisor of a divisor is a divisor.
LEMMA DividesTransitive ==
    ASSUME NEW d \in Int, NEW x \in Int, NEW y \in Int, Divides(d, x), Divides(x, y)
    PROVE  Divides(d, y)
<1>1. PICK k \in Int : y = x * k
  BY DEF Divides
<1> QED
  BY <1>1, DividesMultiple

\* What divides a product and is prime to one factor divides the other.
LEMMA OtherFactor ==
    ASSUME NEW m \in Int, NEW f \in Int, NEW x \in Int, NEW u \in Int, NEW v \in Int,
           1 = m * u + f * v, Divides(m, f * x)
    PROVE  Divides(m, x)
<1>1. PICK k \in Int : f * x = m * k
  BY DEF Divides
<1>2. x = m * (u * x) + (f * x) * v
  <2>1. x = (m * u + f * v) * x
    OBVIOUS
  <2> QED
    BY <2>1
<1>3. (f * x) * v = m * (k * v)
  BY <1>1
<1>4. x = m * (u * x + k * v) /\ u * x + k * v \in Int
  BY <1>2, <1>3
<1> HIDE <1>1, <1>2, <1>3
<1> QED
  BY <1>4 DEF Divides

\* A prime has two divisors.
LEMMA PrimeDivisors ==
    ASSUME NEW p \in Nat, IsPrime(p), NEW d \in Nat \ {0}, Divides(d, p)
    PROVE  d = 1 \/ d = p
<1>1. p > 1 /\ d <= p
  BY DivisorBound DEF IsPrime
<1>2. p % d = 0
  BY DividesIff
<1> QED
  BY <1>1, <1>2 DEF IsPrime

\* A number is prime to a prime, or a multiple of it.
LEMMA PrimeTo ==
    ASSUME NEW p \in Nat, IsPrime(p), NEW x \in Nat \ {0}, ~Divides(p, x)
    PROVE  \E u, v \in Int : 1 = p * u + x * v
<1>1. p \in Nat \ {0}
  BY DEF IsPrime
<1>2. PICK d \in Nat \ {0}, u \in Int, v \in Int :
         d = p * u + x * v /\ Divides(d, p) /\ Divides(d, x)
  BY <1>1, Bezout
<1>3. d = 1
  BY <1>2, PrimeDivisors
<1> QED
  BY <1>2, <1>3

\* A prime divides a product only if it divides a factor.
LEMMA PrimeFactor ==
    ASSUME NEW p \in Nat, IsPrime(p), NEW x \in Nat \ {0}, NEW y \in Int,
           Divides(p, x * y)
    PROVE  Divides(p, x) \/ Divides(p, y)
<1> SUFFICES ASSUME ~Divides(p, x) PROVE Divides(p, y)
  OBVIOUS
<1>1. PICK u \in Int, v \in Int : 1 = p * u + x * v
  BY PrimeTo
<1>2. p \in Int /\ x \in Int
  OBVIOUS
<1> QED
  BY <1>1, <1>2, OtherFactor

\* A number that neither of two primes divides is prime to their product.
LEMMA PrimeToBoth ==
    ASSUME NEW p \in Nat, IsPrime(p), NEW q \in Nat, IsPrime(q),
           NEW a \in Nat \ {0}, ~Divides(p, a), ~Divides(q, a)
    PROVE  \E u, v \in Int : 1 = a * u + (p * q) * v
<1>1. p * q \in Nat \ {0}
  BY DEF IsPrime
<1>2. PICK d \in Nat \ {0}, u \in Int, v \in Int :
         d = a * u + (p * q) * v /\ Divides(d, a) /\ Divides(d, p * q)
  BY <1>1, Bezout
<1>3. ~Divides(p, d)
  BY <1>2, DividesTransitive
<1>4. PICK s \in Int, t \in Int : 1 = p * s + d * t
  BY <1>3, PrimeTo
<1>5. Divides(d, q)
  <2>1. 1 = d * t + p * s /\ d \in Int /\ p \in Int /\ q \in Int
    BY <1>4
  <2> QED
    BY <1>2, <2>1, OtherFactor
<1>6. d # q
  BY <1>2
<1>7. d = 1
  BY <1>5, <1>6, PrimeDivisors
<1> QED
  BY <1>2, <1>7

\* mpz_invert finds an inverse of a number that is prime to the modulus.
LEMMA InverseExists ==
    ASSUME NEW a \in Int, NEW m \in Nat, m > 1, NEW u \in Int, NEW v \in Int,
           1 = a * u + m * v
    PROVE  Inverses(a, m) # {}
<1> DEFINE k == u \div m
           x == u % m
<1>1. k \in Int /\ u = m * k + x /\ x \in 0 .. m - 1
  BY Division
<1> HIDE DEF k, x
<1>2. a * x = m * (-v - a * k) + 1 /\ -v - a * k \in Int
  <2>1. a * u = a * (m * k) + a * x
    BY <1>1
  <2>2. a * (m * k) = m * (a * k)
    BY <1>1
  <2>3. m * (-v - a * k) = m * (-v) - m * (a * k)
    BY <1>1
  <2> QED
    BY <1>1, <2>1, <2>2, <2>3
<1>3. (a * x) % m = 1
  <2> DEFINE w == -v - a * k
  <2>1. w \in Int /\ a * x = m * w + 1 /\ 1 \in 0 .. m - 1 /\ a * x \in Int
    BY <1>1, <1>2
  <2> HIDE DEF w
  <2> QED
    BY <2>1, OneRemainder
<1>4. x # 0
  <2> SUFFICES ASSUME x = 0 PROVE FALSE
    OBVIOUS
  <2>1. a * x = m * 0 + 0
    OBVIOUS
  <2>2. (a * x) % m = 0
    BY <2>1, OneRemainder
  <2> QED
    BY <1>3, <2>2
<1>5. x \in 1 .. m - 1
  BY <1>1, <1>4
<1> QED
  BY <1>3, <1>5, Zenon DEF Inverses
-----------------------------------------------------------------------------
(* Powers of two: the number of subsets. *)

LEMMA PowerOfTwo ==
    ASSUME NEW k \in Nat
    PROVE  2^k \in Nat \ {0} /\ 2^(k + 1) = 2 * 2^k
<1> DEFINE A == SUBSET (1 .. k)
           B == {T \cup {k + 1} : T \in A}
<1>1. IsFiniteSet(1 .. k) /\ Cardinality(1 .. k) = k
  BY FS_Interval
<1>2. IsFiniteSet(1 .. k + 1) /\ Cardinality(1 .. k + 1) = k + 1
  <2>1. k + 1 \in Int /\ ~(1 > k + 1) /\ (k + 1) - 1 + 1 = k + 1
    OBVIOUS
  <2> QED
    BY <2>1, FS_Interval
<1>3. IsFiniteSet(A) /\ Cardinality(A) = 2^k
  BY <1>1, FS_SUBSET
<1>4. IsFiniteSet(SUBSET (1 .. k + 1)) /\ Cardinality(SUBSET (1 .. k + 1)) = 2^(k + 1)
  BY <1>2, FS_SUBSET
<1>5. SUBSET (1 .. k + 1) = A \cup B
  <2>1. ASSUME NEW T \in SUBSET (1 .. k + 1), T \notin A PROVE T \in B
    <3>1. k + 1 \in T
      BY <2>1
    <3>2. T \ {k + 1} \in A /\ T = (T \ {k + 1}) \cup {k + 1}
      BY <3>1
    <3> QED
      BY <3>2
  <2>2. 1 .. k \subseteq 1 .. k + 1 /\ {k + 1} \subseteq 1 .. k + 1
    OBVIOUS
  <2>3. A \cup B \subseteq SUBSET (1 .. k + 1)
    BY <2>2, Zenon
  <2> QED
    BY <2>1, <2>3
<1>6. A \cap B = {}
  OBVIOUS
<1>7. ExistsBijection(A, B)
  <2> DEFINE f == [T \in A |-> T \cup {k + 1}]
  <2>1. f \in [A -> B] /\ \A T \in B : \E U \in A : f[U] = T
    OBVIOUS
  <2>2. ASSUME NEW T \in A, NEW U \in A, f[T] = f[U] PROVE T = U
    <3>1. T \cup {k + 1} = U \cup {k + 1} /\ k + 1 \notin T /\ k + 1 \notin U
      BY <2>2
    <3> QED
      BY <3>1
  <2>3. f \in Injection(A, B)
    BY <2>1, <2>2, Zenon DEF Injection, IsInjective
  <2>4. f \in Surjection(A, B)
    BY <2>1, Zenon DEF Surjection
  <2>5. f \in Bijection(A, B)
    BY <2>3, <2>4 DEF Bijection
  <2> QED
    BY <2>5 DEF ExistsBijection
<1>8. IsFiniteSet(B) /\ Cardinality(B) = Cardinality(A)
  BY <1>3, <1>7, FS_Bijection
<1>9. IsFiniteSet(A \cap B) /\ Cardinality(A \cap B) = 0
  BY <1>6, FS_EmptySet
<1>11. Cardinality(A) \in Nat /\ Cardinality(A) # 0
  <2>1. {} \in A
    OBVIOUS
  <2> QED
    BY <1>3, <2>1, FS_CardinalityType, FS_EmptySet
<1> HIDE DEF A, B
<1>10. Cardinality(A \cup B) = Cardinality(A) + Cardinality(B) - Cardinality(A \cap B)
  BY <1>3, <1>8, FS_Union
<1>12. Cardinality(A) + Cardinality(A) - 0 = 2 * Cardinality(A)
  BY <1>11
<1>13. 2^(k + 1) = Cardinality(A) + Cardinality(A) - 0
  BY <1>4, <1>5, <1>8, <1>9, <1>10, Zenon
<1> QED
  BY <1>3, <1>11, <1>12, <1>13, Zenon

\* Powers of two of a sum: 2^k counts the subsets of a set of k.
LEMMA PowerOfSum ==
    ASSUME NEW j \in Nat, NEW k \in Nat
    PROVE  2^(j + k) = 2^j * 2^k
<1> DEFINE P == {i \in Nat : 2^(j + i) = 2^j * 2^i}
<1>1. 2^0 = 1
  <2>1. Cardinality(SUBSET {}) = 2^0
    BY FS_EmptySet, FS_SUBSET
  <2>2. SUBSET {} = {{}}
    OBVIOUS
  <2> QED
    BY <2>1, <2>2, FS_Singleton
<1>2. 0 \in P
  BY <1>1, PowerOfTwo
<1>3. ASSUME NEW i \in Nat, i \in P PROVE i + 1 \in P
  <2>1. 2^(j + (i + 1)) = 2 * 2^(j + i)
    <3>1. j + (i + 1) = (j + i) + 1 /\ j + i \in Nat
      OBVIOUS
    <3> QED
      BY <3>1, PowerOfTwo
  <2>2. 2^(i + 1) = 2 * 2^i /\ 2^i \in Nat /\ 2^j \in Nat
    BY PowerOfTwo
  <2>3. 2 * (2^j * 2^i) = 2^j * (2 * 2^i)
    BY <2>2
  <2>4. 2^(j + (i + 1)) = 2^j * 2^(i + 1)
    BY <1>3, <2>1, <2>2, <2>3
  <2> QED
    BY <2>4
<1> QED
  BY <1>2, <1>3, AllNumbers
-----------------------------------------------------------------------------
(* Keys. *)

\* The top bit of the product makes both primes longer than half its length
\* less one: neither is twice the other.
LEMMA PrimesOfOneLength ==
    ASSUME NEW k \in KeyPairs
    PROVE  /\ k.p \in Nat /\ IsPrime(k.p) /\ k.p > 2 /\ k.p < 2 * k.q
           /\ k.q \in Nat /\ IsPrime(k.q) /\ k.q > 2 /\ k.q < 2 * k.p
<1> DEFINE h == Bits \div 2
           M == 2^(h - 1)
           p == k.p
           q == k.q
<1>1. h \in Nat /\ h > 1 /\ Bits = 2 * h
  BY PaillierAssumption
<1> HIDE DEF h
<1>2. M \in Nat /\ M > 1 /\ 2^h = 2 * M
  <2>1. h - 2 \in Nat /\ h - 1 \in Nat /\ (h - 2) + 1 = h - 1 /\ (h - 1) + 1 = h
    BY <1>1
  <2>2. 2^(h - 2) \in Nat \ {0} /\ 2^(h - 1) = 2 * 2^(h - 2) /\ 2^h = 2 * 2^(h - 1)
    BY <2>1, PowerOfTwo
  <2> QED
    BY <2>2
<1>3. 2^(Bits - 1) = (2 * M) * M
  <2>1. Bits - 1 = h + (h - 1) /\ h - 1 \in Nat
    BY <1>1
  <2> QED
    BY <1>1, <1>2, <2>1, PowerOfSum
<1>4. /\ p \in 0 .. 2^h - 1 /\ IsPrime(p)
      /\ q \in 0 .. 2^h - 1 /\ IsPrime(q)
      /\ (p * q) \div 2^(Bits - 1) = 1
  BY DEF KeyPairs, h
<1> HIDE DEF M, p, q
<1>5. p \in 0 .. 2 * M - 1 /\ q \in 0 .. 2 * M - 1
  BY <1>2, <1>4
<1>6. (2 * M) * M <= p * q
  <2> DEFINE T == (2 * M) * M
  <2>1. T \in Nat /\ T > 0 /\ (p * q) \div T = 1 /\ p * q \in Int
    BY <1>2, <1>3, <1>4, <1>5
  <2> HIDE DEF T
  <2>2. p * q = T * 1 + ((p * q) % T) /\ (p * q) % T \in 0 .. T - 1
    BY <2>1, Division
  <2> QED
    BY <2>1, <2>2 DEF T
<1>7. ASSUME NEW a \in 0 .. 2 * M - 1, NEW b \in 0 .. 2 * M - 1, (2 * M) * M <= a * b
      PROVE  a > M
  <2> SUFFICES ASSUME a <= M PROVE FALSE
    BY <1>2
  <2>1. a * b <= M * b
    BY <1>2
  <2>2. M * b <= M * (2 * M - 1)
    BY <1>2
  <2>3. M * (2 * M - 1) = (2 * M) * M - M
    BY <1>2
  <2> QED
    BY <1>2, <1>7, <2>1, <2>2, <2>3
<1>8. p > M /\ q > M
  BY <1>5, <1>6, <1>7
<1>9. /\ p \in Nat /\ p > 2 /\ p < 2 * q
      /\ q \in Nat /\ q > 2 /\ q < 2 * p
  BY <1>2, <1>5, <1>8
<1> QED
  BY <1>4, <1>9 DEF p, q

\* Such primes divide neither totient.
LEMMA TotientNotDivided ==
    ASSUME NEW p \in Nat, IsPrime(p), p > 2, NEW q \in Nat, IsPrime(q), q > 2, q < 2 * p
    PROVE  ~Divides(p, (p - 1) * (q - 1))
<1> SUFFICES ASSUME Divides(p, (p - 1) * (q - 1)) PROVE FALSE
  OBVIOUS
<1>1. p - 1 \in Nat \ {0} /\ q - 1 \in Nat \ {0} /\ p \in Nat \ {0} /\ q - 1 \in Int
  OBVIOUS
<1>2. ~Divides(p, p - 1)
  <2>1. ~(p <= p - 1)
    OBVIOUS
  <2> QED
    BY <1>1, <2>1, DivisorBound
<1>3. Divides(p, q - 1)
  BY <1>1, <1>2, PrimeFactor
<1>4. PICK k \in Nat \ {0} : q - 1 = p * k /\ p <= q - 1
  BY <1>1, <1>3, DivisorBound
<1>5. k = 1
  <2> SUFFICES ASSUME k > 1 PROVE FALSE
    OBVIOUS
  <2>1. p * 2 <= p * k
    OBVIOUS
  <2> QED
    BY <1>4, <2>1
<1>6. q = p + 1
  BY <1>4, <1>5
<1>7. p % 2 # 0 /\ q % 2 # 0
  BY DEF IsPrime
<1> QED
  BY <1>6, <1>7

\* The least common multiple divides every other.
LEMMA LcmProperties ==
    ASSUME NEW a \in Nat \ {0}, NEW b \in Nat \ {0}
    PROVE  /\ Lcm(a, b) \in 1 .. a * b /\ Divides(Lcm(a, b), a * b)
           /\ Divides(a, Lcm(a, b)) /\ Divides(b, Lcm(a, b))
<1> DEFINE T == {k \in 1 .. a * b : k % a = 0 /\ k % b = 0}
           l == Lcm(a, b)
<1>1. a * b \in Nat \ {0}
  OBVIOUS
<1>2. a * b \in T
  <2>1. Divides(a, a * b) /\ Divides(b, a * b)
    BY DEF Divides
  <2>2. (a * b) % a = 0 /\ (a * b) % b = 0
    BY <1>1, <2>1, DividesIff
  <2> QED
    BY <1>1, <2>2
<1>3. T \in SUBSET Nat /\ T # {}
  <2>1. 1 .. a * b \subseteq Nat
    BY <1>1
  <2> QED
    BY <1>2, <2>1
<1>4. \E x \in T : \A y \in T : x <= y
  BY <1>3, LeastNumber
<1>5. l \in T /\ \A y \in T : l <= y
  BY <1>4, Zenon DEF Lcm, Min
<1> HIDE DEF l
<1> DEFINE k == (a * b) \div l
           r == (a * b) % l
<1>6. l \in Nat /\ l > 0 /\ k \in Int /\ a * b = l * k + r /\ r \in 0 .. l - 1
  <2>1. l \in Nat /\ l > 0
    BY <1>1, <1>5
  <2> QED
    BY <1>1, <2>1, Division
<1> HIDE DEF k, r
<1>7. ASSUME NEW c \in {a, b} PROVE r % c = 0
  <2>1. c \in Nat /\ c > 0 /\ r \in Int
    BY <1>6
  <2>2. Divides(c, a * b) /\ Divides(c, l)
    <3>1. (a * b) % c = 0 /\ l % c = 0
      BY <1>2, <1>5
    <3>2. a * b \in Int /\ l \in Int
      BY <1>1, <1>6
    <3> QED
      BY <2>1, <3>1, <3>2, DividesIff
  <2>3. PICK s \in Int, t \in Int : a * b = c * s /\ l = c * t
    BY <2>2 DEF Divides
  <2>4. r = c * (s - t * k) /\ s - t * k \in Int
    <3>1. r = c * s - (c * t) * k
      BY <1>6, <2>3
    <3>2. c * (s - t * k) = c * s - (c * t) * k
      BY <1>6, <2>1, <2>3
    <3> QED
      BY <1>6, <3>1, <3>2
  <2>5. Divides(c, r)
    <3> DEFINE w == s - t * k
    <3>1. w \in Int /\ r = c * w
      BY <2>4
    <3> HIDE DEF w
    <3> QED
      BY <3>1 DEF Divides
  <2> QED
    BY <2>1, <2>5, DividesIff
<1>8. r = 0
  <2> SUFFICES ASSUME r # 0 PROVE FALSE
    OBVIOUS
  <2>1. l <= a * b
    BY <1>5
  <2>2. r \in 1 .. a * b
    BY <1>1, <1>6, <2>1
  <2>3. r \in T
    BY <1>7, <2>2
  <2> QED
    BY <1>5, <1>6, <2>3
<1>9. Divides(l, a * b)
  BY <1>6, <1>8 DEF Divides
<1>10. Divides(a, l) /\ Divides(b, l)
  BY <1>5, <1>6, DividesIff
<1> QED
  BY <1>5, <1>9, <1>10 DEF l
\* x of the key is an inverse of Lambda: powers of n + 1 modulo the square of
\* n are multiples of n plus one.
LEMMA PowerOfGenerator ==
    ASSUME NEW n0 \in Nat, n0 > 1, NEW e \in 0 .. n0 - 1
    PROVE  PowMod(n0 + 1, e, Square(n0)) = 1 + e * n0
<1> DEFINE m == Square(n0)
           Eq(f) == f = [k \in 0 .. e |-> IF k = 0 THEN 1 ELSE (f[k - 1] * (n0 + 1)) % m]
           line == [k \in 0 .. e |-> 1 + k * n0]
           pow == CHOOSE f : Eq(f)
<1>1. m \in Nat /\ m = n0 * n0
  BY DEF Square
<1>2. \A k \in 0 .. n0 - 1 : 1 + k * n0 \in 0 .. m - 1
  <2> TAKE k \in 0 .. n0 - 1
  <2>1. k * n0 <= (n0 - 1) * n0
    OBVIOUS
  <2>2. (n0 - 1) * n0 = n0 * n0 - n0
    OBVIOUS
  <2> QED
    BY <1>1, <2>1, <2>2
<1>3. \A k \in 1 .. e : ((1 + (k - 1) * n0) * (n0 + 1)) % m = 1 + k * n0
  <2> TAKE k \in 1 .. e
  <2>1. (1 + (k - 1) * n0) * (n0 + 1) = m * (k - 1) + (1 + k * n0)
    BY <1>1
  <2>2. 1 + k * n0 \in 0 .. m - 1
    BY <1>2
  <2>3. m > 0 /\ k - 1 \in Int /\ (1 + (k - 1) * n0) * (n0 + 1) \in Int
    BY <1>1, <2>2
  <2> DEFINE x == (1 + (k - 1) * n0) * (n0 + 1)
             y == k - 1
             z == 1 + k * n0
  <2>4. x \in Int /\ y \in Int /\ z \in 0 .. m - 1 /\ x = m * y + z /\ m \in Nat /\ m > 0
    BY <1>1, <2>1, <2>2, <2>3
  <2> HIDE DEF m, x, y, z
  <2>5. x % m = z
    BY <2>4, OneRemainder
  <2> QED
    BY <2>5 DEF x, z
<1> HIDE DEF m
<1>4. Eq(line)
  <2>1. ASSUME NEW k \in 0 .. e
        PROVE  line[k] = IF k = 0 THEN 1 ELSE (line[k - 1] * (n0 + 1)) % m
    <3>1. CASE k = 0
      BY <3>1
    <3>2. CASE k # 0
      <4>1. k \in 1 .. e /\ k - 1 \in 0 .. e
        BY <3>2
      <4>2. line[k] = 1 + k * n0 /\ line[k - 1] = 1 + (k - 1) * n0
        BY <4>1
      <4> QED
        BY <1>3, <3>2, <4>1, <4>2
    <3> QED
      BY <3>1, <3>2
  <2> QED
    BY <2>1
<1>5. Eq(pow)
  BY <1>4
<1>6. pow = [k \in 0 .. e |-> IF k = 0 THEN 1 ELSE (pow[k - 1] * (n0 + 1)) % m]
  BY <1>5
<1> HIDE DEF pow, Eq, line
<1> DEFINE P == {k \in Nat : k <= e => pow[k] = 1 + k * n0}
<1>7. 0 \in P
  <2>1. 0 \in 0 .. e
    OBVIOUS
  <2>2. pow[0] = 1
    BY <1>6, <2>1
  <2> QED
    BY <2>2
<1>8. ASSUME NEW k \in Nat, k \in P PROVE k + 1 \in P
  <2> SUFFICES ASSUME k + 1 <= e PROVE pow[k + 1] = 1 + (k + 1) * n0
    OBVIOUS
  <2>1. k + 1 \in 1 .. e /\ (k + 1) - 1 = k /\ k + 1 \in 0 .. e /\ k + 1 # 0
    OBVIOUS
  <2>2. pow[k + 1] = (pow[k] * (n0 + 1)) % m
    BY <1>6, <2>1
  <2>3. pow[k] = 1 + k * n0
    BY <1>8
  <2> QED
    BY <1>3, <2>1, <2>2, <2>3
<1>9. e \in P
  <2> HIDE DEF P
  <2> QED
    BY <1>7, <1>8, AllNumbers
<1>10. pow[e] = 1 + e * n0
  BY <1>9
<1>11. (1 + e * n0) % m = 1 + e * n0
  <2>1. 1 + e * n0 \in 0 .. m - 1 /\ m > 0 /\ m \in Nat
    BY <1>1, <1>2
  <2>2. 1 + e * n0 = m * 0 + (1 + e * n0)
    BY <1>1
  <2> QED
    BY <2>1, <2>2, OneRemainder
<1> QED
  BY <1>10, <1>11 DEF PowMod, pow, Eq, m

\* What complete_prvkey inverts is lambda itself.
LEMMA BaseIsLambda ==
    ASSUME NEW p \in Nat, p > 1, NEW q \in Nat, q > 1, Lambda(p, q) \in 1 .. p * q - 1
    PROVE  XBase(p, q) = Lambda(p, q)
<1> DEFINE N == p * q
           l == Lambda(p, q)
<1>1. N \in Nat /\ N > 1 /\ l \in 1 .. N - 1
  <2>1. 2 * q <= p * q
    OBVIOUS
  <2> QED
    BY <2>1
<1>2. XBase(p, q) = ((PowMod(N + 1, l, Square(N)) - 1) \div N) % N
  BY DEF XBase
<1> HIDE DEF N, l
<1>3. PowMod(N + 1, l, Square(N)) = 1 + l * N
  BY <1>1, PowerOfGenerator
<1>4. (1 + l * N) - 1 = N * l + 0 /\ (1 + l * N) - 1 \in Int /\ 0 \in 0 .. N - 1 /\ l \in Int
  BY <1>1
<1>5. ((1 + l * N) - 1) \div N = l
  BY <1>1, <1>4, OneRemainder
<1>6. l % N = l
  BY <1>1
<1> QED
  BY <1>2, <1>3, <1>5, <1>6 DEF l

\* Every key that paillier_keygen lets out is usable.
LEMMA KeyUsable ==
    ASSUME NEW k \in KeyPairs
    PROVE  /\ XBase(k.p, k.q) = Lambda(k.p, k.q) /\ Lambda(k.p, k.q) \in Nat \ {0}
           /\ Inverses(XBase(k.p, k.q), k.p * k.q) # {}
           /\ Inverses(k.p * k.q, Totient(k)) # {}
<1> DEFINE p == k.p
           q == k.q
           t == (p - 1) * (q - 1)
           l == Lambda(p, q)
<1>1. /\ p \in Nat /\ IsPrime(p) /\ p > 2 /\ p < 2 * q
      /\ q \in Nat /\ IsPrime(q) /\ q > 2 /\ q < 2 * p
  BY PrimesOfOneLength
<1>2. Totient(k) = t /\ l = Lcm(p - 1, q - 1)
  BY DEF Totient, Lambda
<1> HIDE DEF p, q, l
<1>3. p - 1 \in Nat \ {0} /\ q - 1 \in Nat \ {0} /\ t \in Nat /\ t > 1 /\ t < p * q
  <2>1. p - 1 \in Nat /\ p - 1 > 1 /\ q - 1 \in Nat /\ q - 1 > 1
    BY <1>1
  <2>2. 2 * (q - 1) <= t
    BY <2>1
  <2>3. t = p * q - p - q + 1
    BY <1>1
  <2> QED
    BY <1>1, <2>1, <2>2, <2>3
<1>4. ~Divides(p, t) /\ ~Divides(q, t)
  <2>1. ~Divides(p, (p - 1) * (q - 1))
    BY <1>1, TotientNotDivided
  <2>2. ~Divides(q, (q - 1) * (p - 1))
    BY <1>1, TotientNotDivided
  <2>3. (q - 1) * (p - 1) = (p - 1) * (q - 1)
    BY <1>1
  <2> QED
    BY <2>1, <2>2, <2>3
<1>5. l \in 1 .. t /\ Divides(l, t)
  BY <1>2, <1>3, LcmProperties
<1> HIDE DEF t
<1>6. l \in Nat \ {0} /\ l \in Int /\ l \in 1 .. p * q - 1 /\ p * q \in Nat /\ p * q > 1
  BY <1>1, <1>3, <1>5
<1>7. ~Divides(p, l) /\ ~Divides(q, l)
  BY <1>1, <1>3, <1>4, <1>5, <1>6, DividesTransitive
<1>8. Inverses(l, p * q) # {}
  <2>1. PICK u \in Int, v \in Int : 1 = l * u + (p * q) * v
    BY <1>1, <1>6, <1>7, PrimeToBoth
  <2> DEFINE N == p * q
  <2>2. N \in Nat /\ N > 1 /\ 1 = l * u + N * v
    BY <1>6, <2>1
  <2> HIDE DEF N
  <2>3. Inverses(l, N) # {}
    BY <1>6, <2>2, InverseExists
  <2> QED
    BY <2>3 DEF N
<1>9. Inverses(p * q, t) # {}
  <2>1. PICK u \in Int, v \in Int : 1 = t * u + (p * q) * v
    BY <1>1, <1>3, <1>4, PrimeToBoth
  <2> DEFINE N == p * q
  <2>2. N \in Int /\ 1 = N * v + t * u
    BY <1>3, <1>6, <2>1
  <2> HIDE DEF N
  <2>3. Inverses(N, t) # {}
    BY <1>3, <2>2, InverseExists
  <2> QED
    BY <2>3 DEF N
<1>10. XBase(p, q) = l
  <2>1. p > 1 /\ q > 1 /\ Lambda(p, q) \in 1 .. p * q - 1
    BY <1>1, <1>6 DEF l
  <2> QED
    BY <1>1, <2>1, BaseIsLambda DEF l
<1> QED
  BY <1>2, <1>6, <1>8, <1>9, <1>10 DEF p, q, l

-----------------------------------------------------------------------------
(* Congruences. *)

Congruent(a, b, m) == \E k \in Int : a = b + m * k

\* Congruent numbers are those of one remainder.
LEMMA CongruentIff ==
    ASSUME NEW a \in Int, NEW b \in Int, NEW m \in Nat, m > 0
    PROVE  Congruent(a, b, m) <=> a % m = b % m
<1>1. ASSUME Congruent(a, b, m) PROVE a % m = b % m
  <2>1. PICK k \in Int : a = b + m * k
    BY <1>1 DEF Congruent
  <2>2. b \div m \in Int /\ b = m * (b \div m) + (b % m) /\ b % m \in 0 .. m - 1
    BY Division
  <2> DEFINE q == b \div m
             r == b % m
  <2> HIDE DEF q, r
  <2>3. q \in Int /\ r \in 0 .. m - 1 /\ b = m * q + r
    BY <2>2 DEF q, r
  <2>4. a = m * (q + k) + r /\ q + k \in Int
    BY <2>1, <2>3
  <2>5. a % m = r
    BY <2>3, <2>4, OneRemainder
  <2> QED
    BY <2>5 DEF r
<1>2. ASSUME a % m = b % m PROVE Congruent(a, b, m)
  <2>1. /\ a \div m \in Int /\ a = m * (a \div m) + (a % m)
        /\ b \div m \in Int /\ b = m * (b \div m) + (b % m)
        /\ a % m \in Int
    BY Division
  <2> DEFINE q == a \div m
             s == b \div m
             r == a % m
  <2> HIDE DEF q, s, r
  <2>2. q \in Int /\ s \in Int /\ r \in Int /\ a = m * q + r /\ b = m * s + r
    BY <1>2, <2>1 DEF q, s, r
  <2>3. a = b + m * (q - s) /\ q - s \in Int
    BY <2>2
  <2> HIDE <2>2
  <2> QED
    BY <2>3 DEF Congruent
<1> QED
  BY <1>1, <1>2

\* A number is congruent to its remainder.
LEMMA CongruentModulo ==
    ASSUME NEW a \in Int, NEW m \in Nat, m > 0
    PROVE  Congruent(a % m, a, m) /\ Congruent(a, a % m, m)
<1> DEFINE q == a \div m
           r == a % m
<1>1. q \in Int /\ a = m * q + r /\ r \in Int
  BY Division
<1> HIDE DEF q, r
<1>2. r = a + m * (-q) /\ a = r + m * q /\ -q \in Int
  BY <1>1
<1>3. Congruent(r, a, m) /\ Congruent(a, r, m)
  BY <1>1, <1>2 DEF Congruent
<1> QED
  BY <1>3 DEF r

\* Congruence is reflexive.
LEMMA CongruentSelf ==
    ASSUME NEW a \in Int, NEW m \in Int
    PROVE  Congruent(a, a, m)
<1>1. a = a + m * 0
  OBVIOUS
<1> QED
  BY <1>1 DEF Congruent

\* Congruence is symmetric.
LEMMA CongruentBack ==
    ASSUME NEW a \in Int, NEW b \in Int, NEW m \in Int, Congruent(a, b, m)
    PROVE  Congruent(b, a, m)
<1>1. PICK k \in Int : a = b + m * k
  BY DEF Congruent
<1>2. b = a + m * (-k) /\ -k \in Int
  BY <1>1
<1> QED
  BY <1>2 DEF Congruent

\* Congruence is transitive.
LEMMA CongruentTransitive ==
    ASSUME NEW a \in Int, NEW b \in Int, NEW c \in Int, NEW m \in Int,
           Congruent(a, b, m), Congruent(b, c, m)
    PROVE  Congruent(a, c, m)
<1>1. PICK k \in Int, l \in Int : a = b + m * k /\ b = c + m * l
  BY DEF Congruent
<1>2. a = c + m * (k + l) /\ k + l \in Int
  BY <1>1
<1> QED
  BY <1>2 DEF Congruent

\* Congruences can be multiplied.
LEMMA CongruentProducts ==
    ASSUME NEW a \in Int, NEW b \in Int, NEW c \in Int, NEW d \in Int, NEW m \in Int,
           Congruent(a, b, m), Congruent(c, d, m)
    PROVE  Congruent(a * c, b * d, m)
<1>1. PICK k \in Int, l \in Int : a = b + m * k /\ c = d + m * l
  BY DEF Congruent
<1> DEFINE w == b * l + d * k + m * (k * l)
<1>2. a * c = b * d + m * w /\ w \in Int
  <2>1. a * c = b * d + b * (m * l) + (m * k) * d + (m * k) * (m * l)
    BY <1>1
  <2>2. b * (m * l) = m * (b * l) /\ (m * k) * d = m * (d * k)
    BY <1>1
  <2>3. (m * k) * (m * l) = m * (m * (k * l))
    BY <1>1
  <2>4. m * w = m * (b * l) + m * (d * k) + m * (m * (k * l))
    BY <1>1
  <2> QED
    BY <1>1, <2>1, <2>2, <2>3, <2>4
<1> HIDE DEF w
<1> QED
  BY <1>2 DEF Congruent

-----------------------------------------------------------------------------
(* Powers. *)

PowerSteps(b) == [x \in Nat \X Int |-> x[2] * b]
Powers(b) == CHOOSE f : Iterates(f, Int, 1, PowerSteps(b))
Power(b, k) == Powers(b)[k]

\* The powers of a number exist, and each is the one before it times the number.
LEMMA PowerIs ==
    ASSUME NEW b \in Int
    PROVE  /\ \A k \in Nat : Power(b, k) \in Int /\ Power(b, k + 1) = Power(b, k) * b
           /\ Power(b, 0) = 1
<1>1. PowerSteps(b) \in Steps(Int)
  BY DEF PowerSteps, Steps
<1>2. \E f : Iterates(f, Int, 1, PowerSteps(b))
  BY <1>1, RecursionExists
<1>3. Iterates(Powers(b), Int, 1, PowerSteps(b))
  BY <1>2, Zenon DEF Powers
<1>4. \A k \in Nat : Powers(b)[k] \in Int
  BY <1>3 DEF Iterates
<1>5. ASSUME NEW k \in Nat PROVE Powers(b)[k + 1] = Powers(b)[k] * b
  <2>1. Powers(b)[k + 1] = PowerSteps(b)[<<k, Powers(b)[k]>>]
    BY <1>3 DEF Iterates
  <2>2. <<k, Powers(b)[k]>> \in Nat \X Int
    BY <1>4
  <2> QED
    BY <2>1, <2>2 DEF PowerSteps
<1>6. Powers(b)[0] = 1
  BY <1>3 DEF Iterates
<1> QED
  BY <1>4, <1>5, <1>6 DEF Power

\* The first power.
LEMMA PowerIsOne ==
    ASSUME NEW b \in Int
    PROVE  Power(b, 1) = b
<1>1. Power(b, 0 + 1) = Power(b, 0) * b /\ 0 + 1 = 1
  BY PowerIs
<1> QED
  BY <1>1, PowerIs

\* The power of a sum of exponents.
LEMMA PowerSum ==
    ASSUME NEW b \in Int, NEW j \in Nat, NEW k \in Nat
    PROVE  Power(b, j + k) = Power(b, j) * Power(b, k)
<1> DEFINE P == {i \in Nat : Power(b, j + i) = Power(b, j) * Power(b, i)}
<1>1. 0 \in P
  BY PowerIs
<1>2. ASSUME NEW i \in Nat, i \in P PROVE i + 1 \in P
  <2>1. j + i \in Nat /\ (j + i) + 1 = j + (i + 1)
    OBVIOUS
  <2>2. Power(b, j + (i + 1)) = Power(b, j + i) * b /\ Power(b, i + 1) = Power(b, i) * b
    BY <2>1, PowerIs
  <2>3. Power(b, j) \in Int /\ Power(b, i) \in Int
    BY PowerIs
  <2>4. (Power(b, j) * Power(b, i)) * b = Power(b, j) * (Power(b, i) * b)
    BY <2>3
  <2> QED
    BY <1>2, <2>2, <2>4
<1>3. Nat \subseteq P
  <2> HIDE DEF P
  <2> QED
    BY <1>1, <1>2, AllNumbers
<1> QED
  BY <1>3

\* The power of a product.
LEMMA PowerOfProduct ==
    ASSUME NEW a \in Int, NEW b \in Int, NEW k \in Nat
    PROVE  Power(a * b, k) = Power(a, k) * Power(b, k)
<1> DEFINE P == {i \in Nat : Power(a * b, i) = Power(a, i) * Power(b, i)}
<1>1. a * b \in Int
  OBVIOUS
<1>2. 0 \in P
  BY <1>1, PowerIs
<1>3. ASSUME NEW i \in Nat, i \in P PROVE i + 1 \in P
  <2>1. /\ Power(a * b, i + 1) = Power(a * b, i) * (a * b)
        /\ Power(a, i + 1) = Power(a, i) * a
        /\ Power(b, i + 1) = Power(b, i) * b
        /\ Power(a, i) \in Int /\ Power(b, i) \in Int
    BY <1>1, PowerIs
  <2>2. (Power(a, i) * Power(b, i)) * (a * b) = (Power(a, i) * a) * (Power(b, i) * b)
    BY <2>1
  <2> QED
    BY <1>3, <2>1, <2>2
<1>4. Nat \subseteq P
  <2> HIDE DEF P
  <2> QED
    BY <1>2, <1>3, AllNumbers
<1> QED
  BY <1>4

\* The power of a power.
LEMMA PowerOfPower ==
    ASSUME NEW b \in Int, NEW j \in Nat, NEW k \in Nat
    PROVE  Power(b, j * k) = Power(Power(b, j), k)
<1> DEFINE P == {i \in Nat : Power(b, j * i) = Power(Power(b, j), i)}
<1>1. Power(b, j) \in Int
  BY PowerIs
<1>2. 0 \in P
  BY <1>1, PowerIs
<1>3. ASSUME NEW i \in Nat, i \in P PROVE i + 1 \in P
  <2>1. j * (i + 1) = j * i + j /\ j * i \in Nat
    OBVIOUS
  <2>2. Power(b, j * (i + 1)) = Power(b, j * i) * Power(b, j)
    BY <2>1, PowerSum
  <2>3. Power(Power(b, j), i + 1) = Power(Power(b, j), i) * Power(b, j)
    BY <1>1, PowerIs
  <2> QED
    BY <1>3, <2>2, <2>3
<1>4. Nat \subseteq P
  <2> HIDE DEF P
  <2> QED
    BY <1>2, <1>3, AllNumbers
<1> QED
  BY <1>4

\* Congruences can be raised to a power.
LEMMA CongruentPowers ==
    ASSUME NEW a \in Int, NEW b \in Int, NEW m \in Int, Congruent(a, b, m), NEW k \in Nat
    PROVE  Congruent(Power(a, k), Power(b, k), m)
<1> DEFINE P == {i \in Nat : Congruent(Power(a, i), Power(b, i), m)}
<1>1. 0 \in P
  BY PowerIs, CongruentSelf
<1>2. ASSUME NEW i \in Nat, i \in P PROVE i + 1 \in P
  <2>1. /\ Power(a, i) \in Int /\ Power(a, i + 1) = Power(a, i) * a
        /\ Power(b, i) \in Int /\ Power(b, i + 1) = Power(b, i) * b
    BY PowerIs
  <2>2. Congruent(Power(a, i) * a, Power(b, i) * b, m)
    BY <1>2, <2>1, CongruentProducts
  <2> QED
    BY <2>1, <2>2
<1>3. Nat \subseteq P
  <2> HIDE DEF P
  <2> QED
    BY <1>1, <1>2, AllNumbers
<1> QED
  BY <1>3

\* mpz_powm is the remainder of the power.
LEMMA PowModIs ==
    ASSUME NEW b \in Int, NEW e \in Nat, NEW m \in Nat, m > 1
    PROVE  PowMod(b, e, m) = Power(b, e) % m
<1> DEFINE step == [x \in Nat \X Int |-> (x[2] * b) % m]
           Eq(f) == f = [k \in 0 .. e |-> IF k = 0 THEN 1 ELSE (f[k - 1] * b) % m]
           pow == CHOOSE f : Eq(f)
<1>1. step \in Steps(Int)
  <2>1. \A x \in Nat \X Int : x[2] * b \in Int
    OBVIOUS
  <2>2. \A x \in Nat \X Int : (x[2] * b) % m \in Int
    BY <2>1, Division
  <2> QED
    BY <2>2 DEF Steps
<1>2. PICK g : IteratesUpTo(g, Int, 1, step, e)
  <2>1. 1 \in Int
    OBVIOUS
  <2> HIDE DEF step
  <2> QED
    BY <1>1, <2>1, RecursionUpTo, Zenon
<1>3. Eq(g)
  <2>1. ASSUME NEW k \in 0 .. e
        PROVE  g[k] = IF k = 0 THEN 1 ELSE (g[k - 1] * b) % m
    <3>1. CASE k = 0
      BY <1>2, <3>1 DEF IteratesUpTo
    <3>2. CASE k # 0
      <4>1. k \in 1 .. e /\ k - 1 \in 0 .. e /\ k - 1 \in Nat
        BY <3>2
      <4>2. <<k - 1, g[k - 1]>> \in Nat \X Int
        BY <1>2, <4>1 DEF IteratesUpTo
      <4>3. g[k] = (g[k - 1] * b) % m
        BY <1>2, <4>1, <4>2 DEF IteratesUpTo
      <4> QED
        BY <3>2, <4>3
    <3> QED
      BY <3>1, <3>2
  <2> QED
    BY <1>2, <2>1 DEF IteratesUpTo
<1>4. Eq(pow)
  BY <1>3
<1>5. pow = [k \in 0 .. e |-> IF k = 0 THEN 1 ELSE (pow[k - 1] * b) % m]
  BY <1>4
<1> HIDE DEF pow, Eq
<1> DEFINE P == {k \in 0 .. e : pow[k] \in Int /\ Congruent(pow[k], Power(b, k), m)}
<1>6. 0 \in P
  <2>1. 0 \in 0 .. e /\ m \in Int /\ 1 \in Int
    OBVIOUS
  <2>2. pow[0] = 1
    BY <1>5, <2>1
  <2>3. Congruent(1, 1, m)
    BY <2>1, CongruentSelf
  <2> QED
    BY <2>1, <2>2, <2>3, PowerIs
<1>7. ASSUME NEW k \in 0 .. e - 1, k \in P PROVE k + 1 \in P
  <2> DEFINE x == pow[k]
             y == Power(b, k)
             z == pow[k + 1]
  <2>1. k + 1 \in 0 .. e /\ k + 1 # 0 /\ (k + 1) - 1 = k /\ k \in Nat
    OBVIOUS
  <2>2. z = (x * b) % m
    BY <1>5, <2>1
  <2>3. x \in Int /\ y \in Int /\ Congruent(x, y, m) /\ Power(b, k + 1) = y * b
    BY <1>7, <2>1, PowerIs
  <2> HIDE DEF x, y, z
  <2> DEFINE u == x * b
             v == y * b
  <2>4. u \in Int /\ v \in Int /\ Congruent(u, v, m)
    BY <2>3, CongruentSelf, CongruentProducts
  <2> HIDE DEF u, v
  <2>5. z = u % m /\ Power(b, k + 1) = v
    BY <2>2, <2>3 DEF u, v
  <2>6. z \in Int /\ Congruent(z, u, m)
    BY <2>4, <2>5, Division, CongruentModulo
  <2>7. Congruent(z, v, m)
    BY <2>4, <2>6, CongruentTransitive
  <2> QED
    BY <2>1, <2>5, <2>6, <2>7 DEF z
<1>8. e \in P
  <2>1. e \in 0 .. e
    OBVIOUS
  <2> HIDE DEF P
  <2> QED
    BY <1>6, <1>7, <2>1, NumbersUpTo
<1>9. pow[e] % m = Power(b, e) % m
  <2>1. pow[e] \in Int /\ Power(b, e) \in Int /\ Congruent(pow[e], Power(b, e), m)
    BY <1>8, PowerIs
  <2> QED
    BY <2>1, CongruentIff
<1> QED
  BY <1>9 DEF PowMod, pow, Eq

-----------------------------------------------------------------------------
(* Products. *)

Factors == [Nat -> Int]

ProductSteps(f) == [x \in Nat \X Int |-> x[2] * f[x[1] + 1]]
Products(f) == CHOOSE g : Iterates(g, Int, 1, ProductSteps(f))
ProductUpTo(f, k) == Products(f)[k]

\* The products of the first factors exist, each the one before it times a factor.
LEMMA ProductIs ==
    ASSUME NEW f \in Factors
    PROVE  /\ \A k \in Nat : /\ ProductUpTo(f, k) \in Int
                             /\ ProductUpTo(f, k + 1) = ProductUpTo(f, k) * f[k + 1]
           /\ ProductUpTo(f, 0) = 1
<1>1. ProductSteps(f) \in Steps(Int)
  BY DEF ProductSteps, Steps, Factors
<1>2. \E g : Iterates(g, Int, 1, ProductSteps(f))
  BY <1>1, RecursionExists
<1>3. Iterates(Products(f), Int, 1, ProductSteps(f))
  BY <1>2, Zenon DEF Products
<1>4. \A k \in Nat : Products(f)[k] \in Int
  BY <1>3 DEF Iterates
<1>5. ASSUME NEW k \in Nat PROVE Products(f)[k + 1] = Products(f)[k] * f[k + 1]
  <2>1. Products(f)[k + 1] = ProductSteps(f)[<<k, Products(f)[k]>>]
    BY <1>3 DEF Iterates
  <2>2. <<k, Products(f)[k]>> \in Nat \X Int
    BY <1>4
  <2> QED
    BY <2>1, <2>2 DEF ProductSteps
<1>6. Products(f)[0] = 1
  BY <1>3 DEF Iterates
<1> QED
  BY <1>4, <1>5, <1>6 DEF ProductUpTo

\* A product depends on its factors only.
LEMMA ProductOfSame ==
    ASSUME NEW k \in Nat, NEW f \in Factors, NEW g \in Factors, \A i \in 1 .. k : f[i] = g[i]
    PROVE  ProductUpTo(f, k) = ProductUpTo(g, k)
<1> DEFINE P == {i \in 0 .. k : ProductUpTo(f, i) = ProductUpTo(g, i)}
<1>1. 0 \in P
  BY ProductIs
<1>2. ASSUME NEW i \in 0 .. k - 1, i \in P PROVE i + 1 \in P
  <2>1. i \in Nat /\ i + 1 \in 1 .. k /\ i + 1 \in 0 .. k
    OBVIOUS
  <2> QED
    BY <1>2, <2>1, ProductIs
<1>3. k \in P
  <2>1. k \in 0 .. k
    OBVIOUS
  <2> HIDE DEF P
  <2> QED
    BY <1>1, <1>2, <2>1, NumbersUpTo
<1> QED
  BY <1>3

\* One factor is replaced by another.
LEMMA FactorReplaced ==
    ASSUME NEW k \in Nat, NEW f \in Factors, NEW g \in Factors, NEW j \in 1 .. k,
           \A i \in 1 .. k : i # j => f[i] = g[i]
    PROVE  ProductUpTo(g, k) * f[j] = ProductUpTo(f, k) * g[j]
<1> DEFINE P == {i \in 0 .. k : i >= j => ProductUpTo(g, i) * f[j] = ProductUpTo(f, i) * g[j]}
<1>1. 0 \in P
  OBVIOUS
<1>2. ASSUME NEW i \in 0 .. k - 1, i \in P PROVE i + 1 \in P
  <2> DEFINE x == ProductUpTo(f, i)
             y == ProductUpTo(g, i)
             a == f[i + 1]
             b == g[i + 1]
  <2>1. i \in Nat /\ i + 1 \in 1 .. k /\ i + 1 \in 0 .. k
    OBVIOUS
  <2>2. /\ ProductUpTo(f, i + 1) = x * a /\ ProductUpTo(g, i + 1) = y * b
        /\ x \in Int /\ y \in Int /\ a \in Int /\ b \in Int /\ f[j] \in Int /\ g[j] \in Int
    BY <2>1, ProductIs DEF Factors
  <2>3. CASE i + 1 < j
    BY <2>1, <2>3
  <2>4. CASE i + 1 = j
    <3>1. \A l \in 1 .. i : f[l] = g[l]
      BY <2>4
    <3>2. x = y
      BY <2>1, <3>1, ProductOfSame
    <3>3. f[j] = a /\ g[j] = b
      BY <2>4
    <3> HIDE DEF x, y, a, b
    <3>4. (y * b) * a = (x * a) * b
      BY <2>2, <3>2
    <3> QED
      BY <2>1, <2>2, <3>3, <3>4
  <2>5. CASE i + 1 > j
    <3>1. y * f[j] = x * g[j] /\ a = b
      BY <1>2, <2>1, <2>5
    <3> DEFINE c == f[j]
               d == g[j]
    <3> HIDE DEF x, y, a, b, c, d
    <3>2. y * c = x * d /\ a = b /\ c \in Int /\ d \in Int
      BY <2>2, <3>1 DEF c, d
    <3>3. (y * b) * c = (y * c) * b /\ (x * a) * d = (x * d) * a
      BY <2>2, <3>2
    <3>4. (y * b) * c = (x * a) * d
      BY <3>2, <3>3
    <3> QED
      BY <2>1, <2>2, <3>4 DEF c, d
  <2> QED
    BY <2>1, <2>3, <2>4, <2>5
<1>3. k \in P
  <2>1. k \in 0 .. k
    OBVIOUS
  <2> HIDE DEF P
  <2> QED
    BY <1>1, <1>2, <2>1, NumbersUpTo
<1> QED
  BY <1>3

Distinct(f, k) == \A i, j \in 1 .. k : f[i] = f[j] => i = j
Values(f, k) == {f[i] : i \in 1 .. k}

\* The order of the factors does not matter.
LEMMA ProductReordered ==
    ASSUME NEW k \in Nat, NEW f \in Factors, NEW g \in Factors,
           Distinct(f, k), Distinct(g, k), Values(f, k) = Values(g, k)
    PROVE  ProductUpTo(f, k) = ProductUpTo(g, k)
<1> DEFINE Same(i) == \A a, b \in Factors :
              Distinct(a, i) /\ Distinct(b, i) /\ Values(a, i) = Values(b, i)
                => ProductUpTo(a, i) = ProductUpTo(b, i)
           P == {i \in Nat : Same(i)}
<1>1. 0 \in P
  BY ProductIs
<1>2. ASSUME NEW i \in Nat, i \in P PROVE i + 1 \in P
  <2> SUFFICES ASSUME NEW a \in Factors, NEW b \in Factors, Distinct(a, i + 1),
                      Distinct(b, i + 1), Values(a, i + 1) = Values(b, i + 1)
               PROVE  ProductUpTo(a, i + 1) = ProductUpTo(b, i + 1)
    BY <1>2
  <2>1. i + 1 \in 1 .. i + 1 /\ (\A l \in 1 .. i : l \in 1 .. i + 1 /\ l # i + 1)
        /\ (\A l \in 1 .. i + 1 : l = i + 1 \/ l \in 1 .. i)
    OBVIOUS
  <2>2. PICK j \in 1 .. i + 1 : b[j] = a[i + 1]
    BY <2>1 DEF Values
  <2> DEFINE h == [b EXCEPT ![j] = b[i + 1]]
  <2>3. h \in Factors /\ h[j] = b[i + 1] /\ (\A l \in Nat : l # j => h[l] = b[l])
    BY DEF Factors
  <2> HIDE DEF h
  <2>4. Distinct(a, i)
    BY <2>1 DEF Distinct
  <2>5. Distinct(h, i)
    <3> SUFFICES ASSUME NEW l \in 1 .. i, NEW m \in 1 .. i, h[l] = h[m], l # m
                 PROVE  FALSE
      BY DEF Distinct
    <3>1. l \in Nat /\ m \in Nat /\ l \in 1 .. i + 1 /\ m \in 1 .. i + 1 /\ l # i + 1 /\ m # i + 1
      OBVIOUS
    <3>2. l # j /\ m # j => FALSE
      BY <2>3, <3>1 DEF Distinct
    <3>3. l = j => FALSE
      BY <2>1, <2>3, <3>1 DEF Distinct
    <3>4. m = j => FALSE
      BY <2>1, <2>3, <3>1 DEF Distinct
    <3> QED
      BY <3>2, <3>3, <3>4
  <2>6. Values(h, i) = Values(a, i)
    <3>1. ASSUME NEW l \in 1 .. i PROVE h[l] \in Values(a, i)
      <4>1. PICK m \in 1 .. i + 1 : h[l] = b[m] /\ m # j
        <5>1. CASE l = j
          BY <2>1, <2>3, <5>1
        <5>2. CASE l # j
          <6>1. l \in Nat /\ l \in 1 .. i + 1
            OBVIOUS
          <6> QED
            BY <2>3, <5>2, <6>1
        <5> QED
          BY <5>1, <5>2
      <4>2. PICK o \in 1 .. i + 1 : a[o] = b[m]
        BY DEF Values
      <4>3. o # i + 1
        BY <2>2, <4>1, <4>2 DEF Distinct
      <4> QED
        BY <2>1, <4>1, <4>2, <4>3 DEF Values
    <3>2. ASSUME NEW l \in 1 .. i PROVE a[l] \in Values(h, i)
      <4>1. l \in 1 .. i + 1 /\ l # i + 1
        OBVIOUS
      <4>2. PICK m \in 1 .. i + 1 : b[m] = a[l]
        BY <4>1 DEF Values
      <4>3. m # j
        BY <2>1, <2>2, <4>1, <4>2 DEF Distinct
      <4>4. CASE m = i + 1
        <5>1. j \in 1 .. i /\ h[j] = a[l]
          BY <2>1, <2>3, <4>2, <4>3, <4>4
        <5> QED
          BY <5>1 DEF Values
      <4>5. CASE m # i + 1
        <5>1. m \in 1 .. i /\ m \in Nat
          BY <2>1, <4>5
        <5>2. h[m] = a[l]
          BY <2>3, <4>2, <4>3, <5>1
        <5> QED
          BY <5>1, <5>2 DEF Values
      <4> QED
        BY <4>4, <4>5
    <3> QED
      BY <3>1, <3>2 DEF Values
  <2>7. ProductUpTo(h, i) = ProductUpTo(a, i)
    BY <1>2, <2>3, <2>4, <2>5, <2>6
  <2>8. ProductUpTo(a, i + 1) = ProductUpTo(h, i) * b[j]
    BY <2>2, <2>7, ProductIs
  <2>9. ProductUpTo(h, i) * b[j] = ProductUpTo(b, i) * b[i + 1]
    <3>1. CASE j = i + 1
      <4>1. \A l \in 1 .. i : h[l] = b[l]
        BY <2>1, <2>3, <3>1
      <4>2. ProductUpTo(h, i) = ProductUpTo(b, i)
        BY <2>3, <4>1, ProductOfSame
      <4> QED
        BY <3>1, <4>2
    <3>2. CASE j # i + 1
      <4>1. j \in 1 .. i /\ \A l \in 1 .. i : l # j => b[l] = h[l]
        BY <2>1, <2>3, <3>2
      <4>2. ProductUpTo(h, i) * b[j] = ProductUpTo(b, i) * h[j]
        BY <2>3, <4>1, FactorReplaced
      <4> QED
        BY <2>3, <4>2
    <3> QED
      BY <3>1, <3>2
  <2> QED
    BY <2>8, <2>9, ProductIs
<1>3. Nat \subseteq P
  <2> HIDE DEF P
  <2> QED
    BY <1>1, <1>2, AllNumbers
<1>4. Same(k)
  BY <1>3
<1> QED
  BY <1>4

-----------------------------------------------------------------------------
(* Fermat's little theorem. *)

\* A factor common to all factors comes out as a power.
LEMMA ProductTimes ==
    ASSUME NEW r \in Int, NEW m \in Int, NEW f \in Factors, NEW g \in Factors, NEW k \in Nat,
           \A i \in 1 .. k : Congruent(g[i], r * f[i], m)
    PROVE  Congruent(ProductUpTo(g, k), Power(r, k) * ProductUpTo(f, k), m)
<1> DEFINE P == {i \in 0 .. k : Congruent(ProductUpTo(g, i), Power(r, i) * ProductUpTo(f, i), m)}
<1>1. 0 \in P
  <2>1. ProductUpTo(g, 0) = 1 /\ Power(r, 0) * ProductUpTo(f, 0) = 1
    BY ProductIs, PowerIs
  <2>2. Congruent(1, 1, m)
    BY CongruentSelf
  <2> QED
    BY <2>1, <2>2
<1>2. ASSUME NEW i \in 0 .. k - 1, i \in P PROVE i + 1 \in P
  <2> DEFINE x == ProductUpTo(g, i)
             y == ProductUpTo(f, i)
             z == Power(r, i)
             a == g[i + 1]
             b == f[i + 1]
  <2>1. i \in Nat /\ i + 1 \in 1 .. k /\ i + 1 \in 0 .. k /\ i + 1 \in Nat
    OBVIOUS
  <2>2. /\ ProductUpTo(g, i + 1) = x * a /\ ProductUpTo(f, i + 1) = y * b
        /\ x \in Int /\ y \in Int /\ a \in Int /\ b \in Int
    BY <2>1, ProductIs DEF Factors
  <2>3. Power(r, i + 1) = z * r /\ z \in Int
    BY <2>1, PowerIs
  <2>4. Congruent(x, z * y, m) /\ Congruent(a, r * b, m)
    BY <1>2, <2>1
  <2> HIDE DEF x, y, z, a, b
  <2>5. Congruent(x * a, (z * y) * (r * b), m)
    BY <2>2, <2>3, <2>4, CongruentProducts
  <2>6. (z * y) * (r * b) = (z * r) * (y * b)
    BY <2>2, <2>3
  <2> QED
    BY <2>1, <2>2, <2>3, <2>5, <2>6
<1>3. k \in P
  <2>1. k \in 0 .. k
    OBVIOUS
  <2> HIDE DEF P
  <2> QED
    BY <1>1, <1>2, <2>1, NumbersUpTo
<1> QED
  BY <1>3

\* A prime that divides no factor does not divide the product.
LEMMA PrimeNotInProduct ==
    ASSUME NEW p \in Nat, IsPrime(p), NEW k \in Nat, NEW f \in Factors,
           \A i \in 1 .. k : f[i] \in Nat \ {0} /\ ~Divides(p, f[i])
    PROVE  ProductUpTo(f, k) \in Nat \ {0} /\ ~Divides(p, ProductUpTo(f, k))
<1> DEFINE P == {i \in 0 .. k : ProductUpTo(f, i) \in Nat \ {0} /\ ~Divides(p, ProductUpTo(f, i))}
<1>1. 0 \in P
  <2>1. p > 1
    BY DEF IsPrime
  <2>2. ~Divides(p, 1)
    BY <2>1, DivisorBound
  <2> QED
    BY <2>2, ProductIs
<1>2. ASSUME NEW i \in 0 .. k - 1, i \in P PROVE i + 1 \in P
  <2> DEFINE x == ProductUpTo(f, i)
             a == f[i + 1]
  <2>1. i \in Nat /\ i + 1 \in 1 .. k /\ i + 1 \in 0 .. k
    OBVIOUS
  <2>2. /\ ProductUpTo(f, i + 1) = x * a
        /\ x \in Nat \ {0} /\ ~Divides(p, x) /\ a \in Nat \ {0} /\ ~Divides(p, a)
    BY <1>2, <2>1, ProductIs
  <2> HIDE DEF x, a
  <2>3. ~Divides(p, x * a)
    BY <2>2, PrimeFactor
  <2>4. x * a \in Nat \ {0}
    BY <2>2
  <2> QED
    BY <2>1, <2>2, <2>3, <2>4
<1>3. k \in P
  <2>1. k \in 0 .. k
    OBVIOUS
  <2> HIDE DEF P
  <2> QED
    BY <1>1, <1>2, <2>1, NumbersUpTo
<1> QED
  BY <1>3

\* Fermat's little theorem: the multiples of r run through 1 .. p - 1 as the
\* numbers themselves do.
LEMMA Fermat ==
    ASSUME NEW p \in Nat, IsPrime(p), NEW r \in Nat \ {0}, ~Divides(p, r)
    PROVE  Congruent(Power(r, p - 1), 1, p)
<1> DEFINE k == p - 1
           f == [i \in Nat |-> i]
           g == [i \in Nat |-> (r * i) % p]
           h == [i \in 1 .. k |-> (r * i) % p]
<1>1. p > 1 /\ k \in Nat
  BY DEF IsPrime
<1>2. ASSUME NEW i \in Int PROVE (r * i) % p \in 0 .. k /\ Congruent((r * i) % p, r * i, p)
  <2> DEFINE x == r * i
  <2>1. x \in Int
    OBVIOUS
  <2> HIDE DEF x
  <2>2. p > 0
    BY <1>1
  <2>3. x % p \in 0 .. p - 1
    BY <2>1, <2>2, Division
  <2>4. Congruent(x % p, x, p)
    BY <2>1, <2>2, CongruentModulo
  <2> QED
    BY <2>3, <2>4 DEF x
<1>3. f \in Factors /\ g \in Factors
  <2>1. \A i \in Nat : (r * i) % p \in Int
    <3>1. ASSUME NEW i \in Nat PROVE (r * i) % p \in Int
      <4>1. i \in Int /\ 0 .. k \subseteq Int
        BY <1>1
      <4> QED
        BY <1>2, <4>1
    <3> QED
      BY <3>1
  <2>2. f \in Factors
    BY DEF Factors
  <2>3. g \in Factors
    BY <2>1, Zenon DEF Factors
  <2> QED
    BY <2>2, <2>3
<1>4. ASSUME NEW i \in 1 .. k PROVE i \in Nat \ {0} /\ ~Divides(p, i)
  <2>1. i \in Nat \ {0} /\ i < p
    BY <1>1
  <2> QED
    BY <1>1, <2>1, DivisorBound
<1>5. h \in Injection(1 .. k, 1 .. k)
  <2>1. ASSUME NEW i \in 1 .. k PROVE (r * i) % p \in 1 .. k
    <3>1. i \in Int /\ i \in Nat \ {0} /\ ~Divides(p, i)
      BY <1>4
    <3>4. ~Divides(p, r * i)
      BY <3>1, PrimeFactor
    <3>2. r * i \in Int
      BY <3>1
    <3>3. (r * i) % p # 0
      BY <1>1, <3>2, <3>4, DividesIff
    <3> QED
      BY <1>1, <1>2, <3>1, <3>3
  <2>2. ASSUME NEW i \in 1 .. k, NEW j \in 1 .. k, (r * i) % p = (r * j) % p, i < j PROVE FALSE
    <3> DEFINE d == j - i
    <3>7. d \in 1 .. k /\ i \in Int /\ j \in Int
      BY <1>1, <2>2
    <3>1. r * i \in Int /\ r * j \in Int /\ d \in 1 .. k
      BY <3>7
    <3>2. Congruent(r * j, r * i, p)
      BY <1>1, <2>2, <3>1, CongruentIff
    <3>3. PICK t \in Int : r * j = r * i + p * t
      BY <3>2 DEF Congruent
    <3>4. r * d = p * t
      BY <3>3
    <3>5. Divides(p, r * d)
      BY <3>4 DEF Divides
    <3> HIDE DEF d
    <3>6. d \in Int /\ (Divides(p, r) \/ Divides(p, d))
      BY <3>1, <3>5, PrimeFactor
    <3> QED
      BY <1>4, <3>1, <3>6
  <2>3. ASSUME NEW i \in 1 .. k, NEW j \in 1 .. k, h[i] = h[j] PROVE i = j
    <3>1. i < j \/ j < i \/ i = j
      OBVIOUS
    <3> QED
      BY <2>2, <2>3, <3>1
  <2>4. h \in [1 .. k -> 1 .. k]
    BY <2>1
  <2> QED
    BY <2>3, <2>4 DEF Injection, IsInjective
<1>6. h \in Surjection(1 .. k, 1 .. k)
  <2>1. IsFiniteSet(1 .. k)
    BY <1>1, FS_Interval
  <2> QED
    BY <1>5, <2>1, FS_Injection
<1>7. \A i \in 1 .. k : f[i] = i /\ g[i] = h[i] /\ g[i] = (r * i) % p
  OBVIOUS
<1> HIDE DEF f, g, h
<1>8. Distinct(f, k) /\ Distinct(g, k)
  <2>1. Distinct(f, k)
    BY <1>7 DEF Distinct
  <2>2. Distinct(g, k)
    BY <1>5, <1>7 DEF Distinct, Injection, IsInjective
  <2> QED
    BY <2>1, <2>2
<1>9. Values(f, k) = Values(g, k)
  <2>1. Values(f, k) = 1 .. k
    BY <1>7 DEF Values
  <2>2. Values(g, k) = 1 .. k
    BY <1>6, <1>7 DEF Values, Surjection
  <2> QED
    BY <2>1, <2>2
<1>10. ProductUpTo(f, k) = ProductUpTo(g, k)
  BY <1>1, <1>3, <1>8, <1>9, ProductReordered
<1>11. ProductUpTo(f, k) \in Nat \ {0} /\ ~Divides(p, ProductUpTo(f, k))
  BY <1>1, <1>3, <1>4, <1>7, PrimeNotInProduct
<1>12. Congruent(ProductUpTo(g, k), Power(r, k) * ProductUpTo(f, k), p)
  <2>1. \A i \in 1 .. k : Congruent(g[i], r * f[i], p)
    BY <1>2, <1>7
  <2> QED
    BY <1>1, <1>3, <2>1, ProductTimes
<1> DEFINE u == ProductUpTo(f, k)
           z == Power(r, k)
<1>13. u \in Nat \ {0} /\ z \in Int /\ ~Divides(p, u) /\ Congruent(u, z * u, p)
  BY <1>1, <1>10, <1>11, <1>12, PowerIs
<1> HIDE DEF u, z, k
<1>14. PICK t \in Int : u = z * u + p * t
  BY <1>13 DEF Congruent
<1>15. Divides(p, u * (z - 1))
  <2>1. u * (z - 1) = p * (-t) /\ -t \in Int
    BY <1>13, <1>14
  <2> QED
    BY <2>1, Zenon DEF Divides
<1>16. Divides(p, z - 1)
  BY <1>13, <1>15, PrimeFactor
<1>17. PICK s \in Int : z - 1 = p * s
  BY <1>16 DEF Divides
<1>18. z = 1 + p * s
  BY <1>13, <1>17
<1> QED
  BY <1>18 DEF Congruent, z, k

\* The powers of one.
LEMMA PowerOfOne ==
    ASSUME NEW k \in Nat
    PROVE  Power(1, k) = 1
<1> DEFINE P == {i \in Nat : Power(1, i) = 1}
<1>1. 0 \in P
  BY PowerIs
<1>2. ASSUME NEW i \in Nat, i \in P PROVE i + 1 \in P
  BY <1>2, PowerIs
<1>3. Nat \subseteq P
  <2> HIDE DEF P
  <2> QED
    BY <1>1, <1>2, AllNumbers
<1> QED
  BY <1>3

\* Fermat's theorem for every exponent that p - 1 divides.
LEMMA FermatMultiple ==
    ASSUME NEW p \in Nat, IsPrime(p), NEW r \in Nat \ {0}, ~Divides(p, r),
           NEW e \in Nat, Divides(p - 1, e)
    PROVE  Congruent(Power(r, e), 1, p)
<1>1. p - 1 \in Nat \ {0}
  BY DEF IsPrime
<1>2. PICK j \in Nat : e = (p - 1) * j
  <2>1. CASE e = 0
    <3>1. e = (p - 1) * 0
      BY <1>1, <2>1
    <3> QED
      BY <3>1
  <2>2. CASE e # 0
    BY <1>1, <2>2, DivisorBound
  <2> QED
    BY <2>1, <2>2
<1>3. Power(r, e) = Power(Power(r, p - 1), j) /\ Power(r, p - 1) \in Int
  <2>1. r \in Int /\ p - 1 \in Nat
    BY <1>1
  <2> QED
    BY <1>2, <2>1, PowerOfPower, PowerIs
<1>4. Congruent(Power(r, p - 1), 1, p)
  BY Fermat
<1>5. Congruent(Power(Power(r, p - 1), j), Power(1, j), p)
  BY <1>3, <1>4, CongruentPowers
<1> QED
  BY <1>3, <1>5, PowerOfOne

\* What is one modulo two primes is one modulo their product.
LEMMA OneModuloBoth ==
    ASSUME NEW p \in Nat, IsPrime(p), NEW q \in Nat, IsPrime(q), p # q,
           NEW a \in Int, Congruent(a, 1, p), Congruent(a, 1, q)
    PROVE  Congruent(a, 1, p * q)
<1>1. p \in Nat \ {0} /\ q \in Nat \ {0} /\ q # 1
  BY DEF IsPrime
<1>2. PICK s \in Int : a = 1 + p * s
  BY DEF Congruent
<1>3. PICK t \in Int : a = 1 + q * t
  BY DEF Congruent
<1>4. Divides(q, p * s)
  <2>1. p * s = q * t
    BY <1>2, <1>3
  <2> QED
    BY <2>1 DEF Divides
<1>5. ~Divides(q, p)
  BY <1>1, PrimeDivisors
<1>6. Divides(q, s)
  BY <1>1, <1>4, <1>5, PrimeFactor
<1>7. PICK w \in Int : s = q * w
  BY <1>6 DEF Divides
<1>8. a = 1 + (p * q) * w
  <2>1. p * (q * w) = (p * q) * w
    BY <1>1
  <2> QED
    BY <1>2, <1>7, <2>1
<1> QED
  BY <1>8 DEF Congruent

\* Modulo the square of N, a power of a multiple of N and one is linear.
LEMMA PowerIsLine ==
    ASSUME NEW N \in Nat, NEW t \in Int, NEW k \in Nat
    PROVE  Congruent(Power(1 + t * N, k), 1 + (k * t) * N, Square(N))
<1> DEFINE b == 1 + t * N
           line(i) == 1 + (i * t) * N
           P == {i \in Nat : Congruent(Power(b, i), line(i), Square(N))}
<1>1. b \in Int /\ Square(N) \in Int /\ \A i \in Nat : line(i) \in Int
  BY DEF Square
<1>2. 0 \in P
  <2>1. line(0) = 1 /\ Power(b, 0) = 1
    BY <1>1, PowerIs
  <2> QED
    BY <1>1, <2>1, CongruentSelf
<1>3. ASSUME NEW i \in Nat, i \in P PROVE i + 1 \in P
  <2>1. Power(b, i + 1) = Power(b, i) * b /\ Power(b, i) \in Int
    BY <1>1, PowerIs
  <2>2. Congruent(b, b, Square(N))
    BY <1>1, CongruentSelf
  <2>3. Congruent(Power(b, i) * b, line(i) * b, Square(N))
    <3> HIDE DEF b, line
    <3> QED
      BY <1>1, <1>3, <2>1, <2>2, CongruentProducts
  <2>4. line(i) * b = line(i + 1) + Square(N) * (i * t * t)
    <3> DEFINE x == i * t
               y == t * N
               z == x * N
    <3>1. x \in Int /\ y \in Int /\ z \in Int
      OBVIOUS
    <3>2. (i + 1) * t = x + t
      OBVIOUS
    <3>3. (x + t) * N = z + y
      BY <3>1
    <3>4. z * y = (N * N) * (x * t)
      <4> HIDE DEF x
      <4>1. (x * N) * (t * N) = (N * N) * (x * t)
        BY <3>1
      <4> QED
        BY <4>1
    <3>5. (1 + z) * (1 + y) = 1 + (z + y) + z * y
      <4> HIDE DEF y, z
      <4> QED
        BY <3>1
    <3> QED
      BY <3>2, <3>3, <3>4, <3>5 DEF Square
  <2>5. Congruent(line(i) * b, line(i + 1), Square(N))
    <3>1. i * t * t \in Int
      OBVIOUS
    <3> HIDE DEF line, b
    <3> QED
      BY <2>4, <3>1 DEF Congruent
  <2>6. Congruent(Power(b, i) * b, line(i + 1), Square(N))
    <3>1. line(i + 1) \in Int /\ line(i) \in Int
      BY <1>1
    <3>2. Power(b, i) * b \in Int /\ line(i) * b \in Int
      <4> HIDE DEF line, b
      <4> QED
        BY <1>1, <2>1, <3>1
    <3> HIDE DEF line, b
    <3> QED
      BY <1>1, <2>3, <2>5, <3>1, <3>2, CongruentTransitive
  <2> QED
    BY <2>1, <2>6
<1>4. Nat \subseteq P
  <2> HIDE DEF P
  <2> QED
    BY <1>2, <1>3, AllNumbers
<1> QED
  BY <1>4

-----------------------------------------------------------------------------
(* Decryption. *)

\* What a private key computes with.
LEMMA PrivateKeyIs ==
    ASSUME NEW k \in KeyPairs
    PROVE  /\ PrivateKey(k).n = k.p * k.q /\ PrivateKey(k).lambda = Lambda(k.p, k.q)
           /\ PrivateKey(k).x \in 1 .. k.p * k.q - 1
           /\ (Lambda(k.p, k.q) * PrivateKey(k).x) % (k.p * k.q) = 1
<1> DEFINE I == Inverses(XBase(k.p, k.q), k.p * k.q)
<1>1. I # {} /\ XBase(k.p, k.q) = Lambda(k.p, k.q)
  BY KeyUsable
<1>2. /\ PrivateKey(k).n = k.p * k.q /\ PrivateKey(k).lambda = Lambda(k.p, k.q)
      /\ PrivateKey(k).x = IF I = {} THEN 0 ELSE CHOOSE x \in I : TRUE
  BY DEF PrivateKey
<1> HIDE DEF I
<1>3. PrivateKey(k).x \in I
  BY <1>1, <1>2
<1> QED
  BY <1>1, <1>2, <1>3 DEF I, Inverses

\* The primes are at least three, and lambda is a multiple of both less one.
LEMMA KeyNumbers ==
    ASSUME NEW k \in KeyPairs
    PROVE  /\ k.p \in Nat \ {0} /\ IsPrime(k.p) /\ k.q \in Nat \ {0} /\ IsPrime(k.q)
           /\ k.p * k.q \in Nat \ {0} /\ k.p * k.q > 2
           /\ Square(k.p * k.q) \in Nat \ {0} /\ Square(k.p * k.q) > k.p * k.q
           /\ Lambda(k.p, k.q) \in Nat \ {0}
           /\ Divides(k.p - 1, Lambda(k.p, k.q)) /\ Divides(k.q - 1, Lambda(k.p, k.q))
<1> DEFINE p == k.p
           q == k.q
<1>1. /\ p \in Nat /\ IsPrime(p) /\ p > 2 /\ q \in Nat /\ IsPrime(q) /\ q > 2
  BY PrimesOfOneLength
<1>2. Lambda(p, q) \in Nat \ {0}
  BY KeyUsable
<1> HIDE DEF p, q
<1>3. p - 1 \in Nat \ {0} /\ q - 1 \in Nat \ {0}
  BY <1>1
<1>4. Divides(p - 1, Lambda(p, q)) /\ Divides(q - 1, Lambda(p, q))
  BY <1>3, LcmProperties DEF Lambda
<1> DEFINE N == p * q
<1>5. N \in Nat /\ N > 2
  <2>1. N \in Nat /\ p * 3 <= p * q
    BY <1>1
  <2> QED
    BY <1>1, <2>1
<1> HIDE DEF N
<1>6. N * N \in Nat /\ N * N > N
  <2>1. N * N \in Nat /\ N * 2 <= N * N
    BY <1>5
  <2> QED
    BY <1>5, <2>1
<1>7. N \in Nat \ {0} /\ N > 2 /\ Square(N) \in Nat \ {0} /\ Square(N) > N
  BY <1>5, <1>6 DEF Square
<1> QED
  BY <1>1, <1>2, <1>4, <1>7 DEF N, p, q

\* A number that shares no prime with the modulus.
PrimeToModulus(k, r) == r \in Nat \ {0} /\ ~Divides(k.p, r) /\ ~Divides(k.q, r)

\* Euler's theorem for a product of two primes.
LEMMA EulerTwoPrimes ==
    ASSUME NEW k \in KeyPairs, k.p # k.q, NEW r, PrimeToModulus(k, r), NEW e \in Nat,
           Divides(k.p - 1, e), Divides(k.q - 1, e)
    PROVE  Congruent(Power(r, e), 1, k.p * k.q)
<1>1. r \in Nat \ {0} /\ r \in Int
  BY DEF PrimeToModulus
<1>2. Congruent(Power(r, e), 1, k.p) /\ Congruent(Power(r, e), 1, k.q)
  BY <1>1, KeyNumbers, FermatMultiple DEF PrimeToModulus
<1>3. Power(r, e) \in Int
  BY <1>1, PowerIs
<1> QED
  BY <1>2, <1>3, KeyNumbers, OneModuloBoth

\* Raised to the modulus and to lambda, a blinding factor is one.
LEMMA BlindingVanishes ==
    ASSUME NEW k \in KeyPairs, k.p # k.q, NEW r, PrimeToModulus(k, r)
    PROVE  Congruent(Power(Power(r, k.p * k.q), Lambda(k.p, k.q)), 1, Square(k.p * k.q))
<1> DEFINE N == k.p * k.q
           l == Lambda(k.p, k.q)
<1>1. N \in Nat \ {0} /\ l \in Nat \ {0} /\ r \in Nat \ {0} /\ r \in Int
  BY KeyNumbers DEF PrimeToModulus
<1>2. Congruent(Power(r, l), 1, N)
  BY <1>1, KeyNumbers, EulerTwoPrimes
<1> HIDE DEF N, l
<1>3. PICK t \in Int : Power(r, l) = 1 + N * t
  BY <1>2 DEF Congruent
<1>4. Power(r, l) = 1 + t * N
  BY <1>1, <1>3
<1>5. Power(Power(r, N), l) = Power(1 + t * N, N)
  <2>1. Power(Power(r, N), l) = Power(r, N * l)
    BY <1>1, PowerOfPower
  <2>2. Power(Power(r, l), N) = Power(r, l * N)
    BY <1>1, PowerOfPower
  <2>3. N * l = l * N
    BY <1>1
  <2> QED
    BY <1>4, <2>1, <2>2, <2>3
<1>6. Congruent(Power(1 + t * N, N), 1 + (N * t) * N, Square(N))
  BY <1>1, PowerIsLine
<1>7. PICK w \in Int : Power(1 + t * N, N) = (1 + (N * t) * N) + Square(N) * w
  BY <1>6 DEF Congruent
<1>8. Power(1 + t * N, N) = 1 + Square(N) * (t + w) /\ t + w \in Int
  <2>1. (N * t) * N = (N * N) * t
    BY <1>1
  <2> DEFINE S == N * N
  <2>2. S \in Int
    BY <1>1
  <2> HIDE DEF S
  <2>3. (1 + S * t) + S * w = 1 + S * (t + w)
    BY <2>2
  <2> QED
    BY <1>7, <2>1, <2>3 DEF S, Square
<1>9. Congruent(Power(1 + t * N, N), 1, Square(N))
  BY <1>8 DEF Congruent
<1> QED
  BY <1>5, <1>9 DEF N, l

\* c is a ciphertext of the number M under some blinding factor.
Carries(k, c, M) ==
    \E r \in Nat : PrimeToModulus(k, r) /\
        Congruent(c, Power(k.p * k.q + 1, M) * Power(r, k.p * k.q), Square(k.p * k.q))

\* paillier_dec gives back what was encrypted.
LEMMA PlaintextIs ==
    ASSUME NEW k \in KeyPairs, k.p # k.q, NEW c \in Int, NEW M \in Nat, Carries(k, c, M)
    PROVE  Plaintext(PrivateKey(k), c) = M % (k.p * k.q)
<1> DEFINE N == k.p * k.q
           l == Lambda(k.p, k.q)
           x == PrivateKey(k).x
           S == Square(N)
           u == PowMod(c, l, S)
<1>1. N \in Nat /\ N > 2 /\ l \in Nat /\ S \in Nat /\ S > 1 /\ S > 0 /\ N > 0
  BY KeyNumbers
<1>2. x \in 1 .. N - 1 /\ (l * x) % N = 1
  BY PrivateKeyIs
<1>3. Plaintext(PrivateKey(k), c) = (((u - 1) \div N) * x) % N
  BY PrivateKeyIs DEF Plaintext
<1>4. PICK r \in Nat : PrimeToModulus(k, r) /\ Congruent(c, Power(N + 1, M) * Power(r, N), S)
  BY DEF Carries
<1> DEFINE g == Power(N + 1, M)
           b == Power(r, N)
<1>5. Congruent(Power(b, l), 1, S)
  BY <1>4, BlindingVanishes
<1>6. S = Square(N)
  OBVIOUS
<1> HIDE DEF N, l, x, S, u
<1>7. g \in Int /\ b \in Int /\ r \in Int /\ N + 1 \in Int
  <2>1. r \in Int /\ N + 1 \in Int
    BY <1>1
  <2> QED
    BY <1>1, <2>1, PowerIs
<1>8. Congruent(Power(g, l), 1 + ((M * l) * 1) * N, S)
  <2>4. M * l \in Nat
    BY <1>1
  <2>1. Power(g, l) = Power(N + 1, M * l) /\ M * l \in Nat
    BY <1>1, <1>7, <2>4, PowerOfPower
  <2>2. N + 1 = 1 + 1 * N
    BY <1>1
  <2>3. Congruent(Power(1 + 1 * N, M * l), 1 + ((M * l) * 1) * N, Square(N))
    BY <1>1, <2>1, PowerIsLine
  <2> QED
    BY <1>6, <2>1, <2>2, <2>3
<1> DEFINE y == M * l
<1>9. y \in Int /\ (y * 1) * N = y * N
  BY <1>1
<1> HIDE DEF g, b, y
<1>10. Congruent(u, 1 + y * N, S)
  <2>1. u = Power(c, l) % S
    BY <1>1, PowModIs DEF u
  <2>2. Power(c, l) \in Int
    BY <1>1, PowerIs
  <2>3. Congruent(u, Power(c, l), S)
    BY <1>1, <2>1, <2>2, CongruentModulo
  <2>4. Congruent(Power(c, l), Power(g * b, l), S)
    <3>1. Congruent(c, g * b, S) /\ g * b \in Int
      BY <1>4, <1>7 DEF g, b
    <3> QED
      BY <1>1, <3>1, CongruentPowers
  <2>5. Power(g * b, l) = Power(g, l) * Power(b, l) /\ Power(g, l) \in Int /\ Power(b, l) \in Int
    <3>1. Power(g * b, l) = Power(g, l) * Power(b, l)
      BY <1>1, <1>7, PowerOfProduct
    <3> QED
      BY <1>1, <1>7, <3>1, PowerIs
  <2> DEFINE z == 1 + y * N
  <2>6. z \in Int
    BY <1>1, <1>9
  <2>7. Congruent(Power(g, l), z, S)
    BY <1>8, <1>9 DEF y
  <2> HIDE DEF z
  <2>8. Congruent(Power(g, l) * Power(b, l), z * 1, S)
    BY <1>1, <1>5, <2>5, <2>6, <2>7, CongruentProducts DEF b
  <2>9. z * 1 = z
    BY <2>6
  <2>10. Power(g * b, l) \in Int /\ u \in Int
    BY <1>1, <2>1, <2>2, <2>5, Division
  <2>11. Congruent(Power(c, l), z, S)
    BY <1>1, <2>2, <2>4, <2>5, <2>6, <2>8, <2>9, <2>10, CongruentTransitive
  <2>12. Congruent(u, z, S)
    BY <1>1, <2>2, <2>3, <2>6, <2>10, <2>11, CongruentTransitive
  <2> QED
    BY <2>12 DEF z
<1>11. PICK w \in Int : u = (1 + y * N) + S * w
  BY <1>10 DEF Congruent
<1>12. u - 1 = N * (y + N * w) + 0 /\ y + N * w \in Int
  <2> DEFINE v == N * w
  <2>1. S * w = N * v /\ v \in Int
    BY <1>1, <1>6 DEF Square
  <2>2. N * (y + v) = y * N + N * v
    BY <1>1, <1>9, <2>1
  <2> HIDE DEF v
  <2>3. y * N \in Int /\ N * v \in Int /\ y + v \in Int
    BY <1>1, <1>9, <2>1
  <2>4. u - 1 = N * (y + v) + 0
    BY <1>11, <2>1, <2>2, <2>3
  <2> QED
    BY <2>3, <2>4 DEF v
<1>13. (u - 1) \div N = y + N * w
  <2> DEFINE a == u - 1
             d == y + N * w
  <2>1. a = N * d + 0 /\ d \in Int /\ N * d \in Int
    BY <1>1, <1>12
  <2> HIDE DEF d
  <2>2. a \in Int /\ 0 \in 0 .. N - 1
    BY <1>1, <2>1
  <2> HIDE DEF a
  <2>3. a \div N = d
    BY <1>1, <2>1, <2>2, OneRemainder
  <2> QED
    BY <2>3 DEF a, d
<1>14. Congruent((y + N * w) * x, M, N)
  <2>1. x \in Int
    BY <1>1, <1>2
  <2>2. Congruent(l * x, 1, N)
    <3>1. l * x \in Int /\ 1 % N = 1
      BY <1>1, <2>1
    <3> QED
      BY <1>1, <1>2, <3>1, CongruentIff
  <2>3. PICK s \in Int : l * x = 1 + N * s
    BY <2>2 DEF Congruent
  <2>4. (y + N * w) * x = y * x + (N * w) * x
    BY <1>1, <1>9, <2>1
  <2>5. y * x = M * (l * x)
    BY <1>1, <2>1 DEF y
  <2>6. M * (1 + N * s) = M + N * (M * s) /\ M * s \in Int
    BY <1>1
  <2>7. (N * w) * x = N * (w * x) /\ w * x \in Int
    BY <1>1, <2>1
  <2>8. (M + N * (M * s)) + N * (w * x) = M + N * (M * s + w * x)
    <3> DEFINE e == M * s
               h == w * x
    <3>1. e \in Int /\ h \in Int
      BY <2>6, <2>7
    <3> HIDE DEF e, h
    <3>2. (M + N * e) + N * h = M + N * (e + h)
      BY <1>1, <3>1
    <3> QED
      BY <3>2 DEF e, h
  <2>9. (y + N * w) * x = M + N * (M * s + w * x)
    BY <2>3, <2>4, <2>5, <2>6, <2>7, <2>8
  <2>10. M * s + w * x \in Int
    BY <2>6, <2>7
  <2> QED
    BY <2>9, <2>10 DEF Congruent
<1>15. (y + N * w) * x \in Int
  BY <1>1, <1>2, <1>9
<1>16. ((y + N * w) * x) % N = M % N
  BY <1>1, <1>14, <1>15, CongruentIff
<1> QED
  BY <1>3, <1>13, <1>16 DEF N

-----------------------------------------------------------------------------
(* Bytes. *)

LEMMA PlaceIs ==
    /\ Place[0] = 1
    /\ \A k \in Nat : Place[k] \in Nat \ {0} /\ Place[k + 1] = Base * Place[k]
<1> DEFINE Eq(f) == f = [i \in Nat |-> IF i = 0 THEN 1 ELSE Base * f[i - 1]]
           step == [x \in Nat \X (Nat \ {0}) |-> Base * x[2]]
<1>1. Base \in Nat \ {0} /\ 1 \in Nat \ {0}
  BY PaillierAssumption
<1>2. step \in Steps(Nat \ {0})
  <2>1. \A x \in Nat \X (Nat \ {0}) : Base * x[2] \in Nat \ {0}
    BY <1>1
  <2> QED
    BY <2>1 DEF Steps
<1>3. PICK g : Iterates(g, Nat \ {0}, 1, step)
  BY <1>1, <1>2, RecursionExists
<1>4. g[0] = 1 /\ \A k \in Nat : g[k] \in Nat \ {0} /\ g[k + 1] = Base * g[k]
  <2>1. g[0] = 1 /\ \A k \in Nat : g[k] \in Nat \ {0} /\ g[k + 1] = step[<<k, g[k]>>]
    BY <1>3 DEF Iterates
  <2> QED
    BY <2>1
<1>5. Eq(g)
  <2>1. DOMAIN g = Nat /\ g = [i \in Nat |-> g[i]]
    BY <1>3 DEF Iterates
  <2>2. ASSUME NEW i \in Nat PROVE g[i] = IF i = 0 THEN 1 ELSE Base * g[i - 1]
    <3>1. CASE i = 0
      BY <1>4, <3>1
    <3>2. CASE i # 0
      <4>1. i - 1 \in Nat /\ (i - 1) + 1 = i
        BY <3>2
      <4>2. g[(i - 1) + 1] = Base * g[i - 1]
        BY <1>4, <4>1
      <4> QED
        BY <3>2, <4>1, <4>2
    <3> QED
      BY <3>1, <3>2
  <2> QED
    BY <2>1, <2>2
<1>6. Eq(Place)
  <2>1. Place = CHOOSE f : Eq(f)
    BY DEF Place
  <2> HIDE DEF Eq
  <2> QED
    BY <1>5, <2>1
<1>7. Place[0] = 1 /\ \A k \in Nat : Place[k + 1] = Base * Place[k]
  <2>1. ASSUME NEW k \in Nat PROVE Place[k + 1] = Base * Place[k]
    <3>1. k + 1 \in Nat /\ k + 1 # 0 /\ (k + 1) - 1 = k
      OBVIOUS
    <3> QED
      BY <1>6, <3>1
  <2>2. Place[0] = 1
    BY <1>6
  <2> QED
    BY <2>1, <2>2
<1> DEFINE P == {k \in Nat : Place[k] \in Nat \ {0}}
<1>8. 0 \in P /\ \A k \in Nat : k \in P => k + 1 \in P
  BY <1>1, <1>7
<1>9. Nat \subseteq P
  <2> HIDE DEF P
  <2> QED
    BY <1>8, AllNumbers
<1> QED
  BY <1>7, <1>9

\* A number has no more bytes than its own value.
LEMMA PlaceAbove ==
    ASSUME NEW k \in Nat
    PROVE  k < Place[k]
<1> DEFINE P == {i \in Nat : i < Place[i]}
<1>1. 0 \in P
  BY PlaceIs
<1>2. ASSUME NEW i \in Nat, i \in P PROVE i + 1 \in P
  <2> DEFINE x == Place[i]
  <2>1. x \in Nat /\ i < x /\ Place[i + 1] = Base * x
    BY <1>2, PlaceIs
  <2> HIDE DEF x
  <2>2. Base * x >= 2 * x
    BY <2>1, PaillierAssumption
  <2> QED
    BY <2>1, <2>2, PaillierAssumption
<1>3. Nat \subseteq P
  <2> HIDE DEF P
  <2> QED
    BY <1>1, <1>2, AllNumbers
<1> QED
  BY <1>3

\* The place of a sum.
LEMMA PlaceOfSum ==
    ASSUME NEW i \in Nat, NEW j \in Nat
    PROVE  Place[i + j] = Place[i] * Place[j]
<1> DEFINE P == {d \in Nat : Place[i + d] = Place[i] * Place[d]}
<1>1. 0 \in P
  BY PlaceIs
<1>2. ASSUME NEW d \in Nat, d \in P PROVE d + 1 \in P
  <2> DEFINE x == Place[i]
             y == Place[d]
  <2>1. i + d \in Nat /\ i + (d + 1) = (i + d) + 1
    OBVIOUS
  <2>2. /\ x \in Nat /\ y \in Nat /\ Place[i + (d + 1)] = Base * (x * y)
        /\ Place[d + 1] = Base * y /\ Base \in Nat
    BY <1>2, <2>1, PlaceIs, PaillierAssumption
  <2> HIDE DEF x, y
  <2>3. Base * (x * y) = x * (Base * y)
    BY <2>2
  <2> QED
    BY <2>2, <2>3 DEF x
<1>3. Nat \subseteq P
  <2> HIDE DEF P
  <2> QED
    BY <1>1, <1>2, AllNumbers
<1> QED
  BY <1>3

\* Places grow.
LEMMA PlaceGrows ==
    ASSUME NEW i \in Nat, NEW j \in Nat, i <= j
    PROVE  Place[i] <= Place[j]
<1> DEFINE P == {d \in Nat : Place[i] <= Place[i + d]}
<1>1. 0 \in P
  BY PlaceIs
<1>2. ASSUME NEW d \in Nat, d \in P PROVE d + 1 \in P
  <2> DEFINE x == Place[i + d]
  <2>1. i + d \in Nat /\ i + (d + 1) = (i + d) + 1
    OBVIOUS
  <2>2. x \in Nat /\ Place[i] \in Nat /\ Place[i] <= x /\ Place[i + (d + 1)] = Base * x
    BY <1>2, <2>1, PlaceIs
  <2> HIDE DEF x
  <2>3. Base * x >= 1 * x
    BY <2>2, PaillierAssumption
  <2> QED
    BY <2>2, <2>3, PaillierAssumption
<1>3. Nat \subseteq P
  <2> HIDE DEF P
  <2> QED
    BY <1>1, <1>2, AllNumbers
<1>4. j - i \in Nat /\ i + (j - i) = j
  OBVIOUS
<1> QED
  BY <1>3, <1>4

\* Dividing twice is dividing by the product.
LEMMA DivisionTwice ==
    ASSUME NEW x \in Nat, NEW a \in Nat \ {0}, NEW b \in Nat \ {0}
    PROVE  (x \div a) \div b = x \div (a * b)
<1> DEFINE y == x \div a
           r == x % a
           z == y \div b
           s == y % b
<1>1. y \in Int /\ x = a * y + r /\ r \in 0 .. a - 1
  BY Division
<1> HIDE DEF y, r
<1>2. z \in Int /\ y = b * z + s /\ s \in 0 .. b - 1
  BY <1>1, Division
<1> HIDE DEF z, s
<1> DEFINE m == a * b
           t == a * s + r
<1>3. m \in Nat /\ m > 0
  BY SMT
<1>4. x = m * z + t
  <2>1. a * (b * z + s) = (a * b) * z + a * s
    BY <1>2
  <2> QED
    BY <1>1, <1>2, <2>1
<1>5. t \in 0 .. m - 1
  <2>1. a * s <= a * (b - 1) /\ 0 <= a * s /\ a * s \in Int
    BY <1>2
  <2>2. a * (b - 1) = a * b - a
    BY SMT
  <2> QED
    BY <1>1, <2>1, <2>2
<1> HIDE DEF m, t
<1>6. x \div m = z
  BY <1>2, <1>3, <1>4, <1>5, OneRemainder
<1> QED
  BY <1>6 DEF m, y, z

\* A number below the divisor has no quotient.
LEMMA NoQuotient ==
    ASSUME NEW x \in Nat, NEW m \in Nat, x < m
    PROVE  x \div m = 0 /\ x % m = x
<1>1. x = m * 0 + x /\ x \in 0 .. m - 1
  OBVIOUS
<1> QED
  BY <1>1, OneRemainder

\* The number of bytes mpz_export writes.
LEMMA SizeIs ==
    ASSUME NEW x \in Nat
    PROVE  /\ Size(x) \in Nat /\ x < Place[Size(x)]
           /\ \A len \in Nat : x < Place[len] => Size(x) <= len
<1> DEFINE S(k) == x < Place[k] /\ (k = 0 \/ Place[k - 1] <= x)
           T == {k \in 0 .. x : x < Place[k]}
<1>1. PICK k \in T : \A j \in T : k <= j
  <2>1. x \in T /\ T \in SUBSET Nat
    BY PlaceAbove
  <2> HIDE DEF T
  <2> QED
    BY <2>1, LeastNumber
<1>2. S(k)
  <2>1. x < Place[k] /\ k \in Nat
    BY <1>1
  <2>2. CASE k # 0
    <3>1. k - 1 \in 0 .. x /\ k - 1 \notin T
      BY <1>1, <2>1, <2>2
    <3>2. ~(x < Place[k - 1]) /\ k - 1 \in Nat
      BY <3>1
    <3> QED
      BY <2>1, <3>2, PlaceIs
  <2> QED
    BY <2>1, <2>2
<1>3. Size(x) \in 0 .. x /\ S(Size(x))
  <2>1. Size(x) = CHOOSE j \in 0 .. x : S(j)
    BY DEF Size
  <2>2. \E j \in 0 .. x : S(j)
    BY <1>1, <1>2
  <2> HIDE DEF S
  <2> QED
    BY <2>1, <2>2
<1> DEFINE s == Size(x)
<1> HIDE DEF s
<1>4. s \in Nat /\ S(s)
  BY <1>3 DEF s
<1>5. ASSUME NEW len \in Nat, x < Place[len], len < s PROVE FALSE
  <2>1. s - 1 \in Nat /\ len <= s - 1 /\ Place[s - 1] <= x
    BY <1>4, <1>5
  <2>2. Place[len] <= Place[s - 1] /\ Place[len] \in Nat /\ Place[s - 1] \in Nat
    BY <2>1, PlaceGrows, PlaceIs
  <2> QED
    BY <1>5, <2>1, <2>2
<1> QED
  BY <1>4, <1>5 DEF s

\* Leading zeros, and nothing cut off, or the last bytes: len bytes of the
\* number.
LEMMA PaddedDigits ==
    ASSUME NEW x \in Nat, NEW len \in Nat, Size(x) <= len
    PROVE  Zeros(len - Size(x)) \o Export(x) = Digits(x, len)
<1> DEFINE s == Size(x)
           a == Zeros(len - s)
           b == Digits(x, s)
<1>1. s \in Nat /\ s <= len /\ x < Place[s]
  BY SizeIs
<1> HIDE DEF s
<1>2. a \in Seq(Int) /\ Len(a) = len - s /\ \A i \in 1 .. len - s : a[i] = 0
  BY <1>1 DEF Zeros
<1>3. \A i \in Nat : (x \div Place[i]) % Base \in Int
  <2>1. ASSUME NEW i \in Nat PROVE (x \div Place[i]) % Base \in Int
    <3>1. x \div Place[i] \in Int
      BY PlaceIs, Division
    <3> QED
      BY <3>1, PaillierAssumption, Division
  <2> QED
    BY <2>1
<1>4. b \in Seq(Int) /\ Len(b) = s /\ \A i \in 1 .. s : b[i] = (x \div Place[s - i]) % Base
  <2>1. \A i \in 1 .. s : s - i \in Nat
    BY <1>1
  <2> QED
    BY <1>1, <1>3, <2>1 DEF Digits
<1> HIDE DEF a, b
<1>5. a \o b \in Seq(Int) /\ Len(a \o b) = len
  BY <1>1, <1>2, <1>4
<1>6. ASSUME NEW i \in 1 .. len PROVE (a \o b)[i] = (x \div Place[len - i]) % Base
  <2>1. CASE i <= len - s
    <3>1. len - i \in Nat /\ s <= len - i
      BY <1>1, <2>1
    <3>2. x < Place[len - i] /\ Place[len - i] \in Nat
      BY <1>1, <3>1, PlaceGrows, PlaceIs
    <3>3. (x \div Place[len - i]) % Base = 0
      BY <3>2, NoQuotient, PaillierAssumption
    <3>4. i \in 1 .. len - s /\ (a \o b)[i] = a[i]
      BY <1>1, <1>2, <1>4, <2>1
    <3> QED
      BY <1>2, <3>3, <3>4
  <2>2. CASE i > len - s
    <3>1. i - (len - s) \in 1 .. s /\ s - (i - (len - s)) = len - i
      BY <1>1, <2>2
    <3>3. i \in Nat /\ i > Len(a) /\ i <= Len(a) + Len(b)
      BY <1>1, <1>2, <1>4, <2>2
    <3>2. (a \o b)[i] = b[i - Len(a)]
      <4>1. i \in 1 .. Len(a) + Len(b) /\ ~(i <= Len(a))
        BY <1>1, <1>2, <1>4, <3>3
      <4> QED
        BY <1>2, <1>4, <4>1, ConcatProperties
    <3> QED
      BY <1>2, <1>4, <3>1, <3>2
  <2>3. i <= len - s \/ i > len - s
    BY <1>1
  <2> QED
    BY <2>1, <2>2, <2>3
<1>7. a \o b = Digits(x, len)
  <2>1. a \o b = [i \in 1 .. len |-> (a \o b)[i]]
    <3>1. a \o b \in [1 .. len -> Int]
      BY <1>5, LenProperties
    <3> QED
      BY <3>1
  <2> QED
    BY <1>6, <2>1 DEF Digits
<1> QED
  BY <1>7 DEF a, b, s, Export

\* Both branches of paillier_plaintext_to_bytes write the last digits of the number.
LEMMA BytesAreDigits ==
    ASSUME NEW x \in Nat, NEW len \in Nat
    PROVE  PlaintextToBytes(len, x) = Digits(x, len)
<1> DEFINE s == Size(x)
           b == Export(x)
<1>1. s \in Nat /\ x < Place[s]
  BY SizeIs
<1>2. b \in Seq(Int) /\ Len(b) = s /\ \A i \in 1 .. s : b[i] = (x \div Place[s - i]) % Base
  <2>1. ASSUME NEW i \in Nat PROVE (x \div Place[i]) % Base \in Int
    <3>1. x \div Place[i] \in Int
      BY PlaceIs, Division
    <3> QED
      BY <3>1, PaillierAssumption, Division
  <2>2. \A i \in 1 .. s : s - i \in Nat
    BY <1>1
  <2>3. b = Digits(x, s)
    BY DEF Export
  <2> HIDE DEF b, s
  <2> QED
    BY <1>1, <2>1, <2>2, <2>3 DEF Digits
<1>3. PlaintextToBytes(len, x) = IF Len(b) <= len THEN Zeros(len - Len(b)) \o b
                                 ELSE SubSeq(b, Len(b) - len + 1, Len(b))
  BY DEF PlaintextToBytes
<1>4. CASE s <= len
  BY <1>2, <1>3, <1>4, PaddedDigits
<1>5. CASE s > len
  <2> DEFINE c == SubSeq(b, s - len + 1, s)
  <2>1. PlaintextToBytes(len, x) = c
    <3>1. ~(s <= len) /\ Len(b) = s
      BY <1>1, <1>2, <1>5
    <3> HIDE DEF b, s
    <3> QED
      BY <1>3, <3>1
  <2> HIDE DEF b, s
  <2>2. c = [i \in 1 .. len |-> b[i + (s - len)]]
    <3>1. c = [i \in 1 .. s - (s - len + 1) + 1 |-> b[i + (s - len + 1) - 1]]
      BY <1>1, <1>2, <1>5
    <3> QED
      BY <1>1, <1>2, <1>5, <3>1
  <2>3. ASSUME NEW i \in 1 .. len PROVE b[i + (s - len)] = (x \div Place[len - i]) % Base
    <3>1. i + (s - len) \in 1 .. s /\ s - (i + (s - len)) = len - i
      BY <1>1, <1>5
    <3> QED
      BY <1>2, <3>1
  <2> QED
    BY <2>1, <2>2, <2>3 DEF Digits
<1> QED
  BY <1>1, <1>4, <1>5

\* f[i] is the value of the first i bytes.
ImportOf(s, f) ==
    /\ f \in [0 .. Len(s) -> Nat] /\ f[0] = 0
    /\ \A i \in 1 .. Len(s) : f[i] = f[i - 1] * Base + s[i]

\* An import has its intermediate values.
LEMMA ImportHas ==
    ASSUME NEW s \in Seq(Nat)
    PROVE  \E f : ImportOf(s, f)
<1> DEFINE e == Len(s)
           step == [x \in Nat \X Nat |->
                      IF x[1] + 1 \in 1 .. e THEN x[2] * Base + s[x[1] + 1] ELSE 0]
<1>1. e \in Nat /\ \A i \in 1 .. e : s[i] \in Nat
  OBVIOUS
<1>2. step \in Steps(Nat)
  <2>1. ASSUME NEW x \in Nat \X Nat
        PROVE (IF x[1] + 1 \in 1 .. e THEN x[2] * Base + s[x[1] + 1] ELSE 0) \in Nat
    <3>1. x[2] * Base \in Nat
      BY PaillierAssumption
    <3> QED
      BY <1>1, <3>1
  <2> HIDE DEF e
  <2> QED
    BY <2>1 DEF Steps
<1> HIDE DEF e
<1>3. PICK f : IteratesUpTo(f, Nat, 0, step, e)
  <2> HIDE DEF step
  <2> QED
    BY <1>1, <1>2, RecursionUpTo
<1>4. ASSUME NEW i \in 1 .. e PROVE f[i] = f[i - 1] * Base + s[i]
  <2>1. i - 1 \in 0 .. e /\ (i - 1) + 1 = i /\ i - 1 \in Nat
    BY <1>1
  <2>2. f[i] = step[<<i - 1, f[i - 1]>>] /\ f[i - 1] \in Nat
    <3> HIDE DEF step
    <3> QED
      BY <1>3, <2>1 DEF IteratesUpTo
  <2> QED
    BY <2>1, <2>2
<1>5. f \in [0 .. e -> Nat] /\ f[0] = 0
  <2> HIDE DEF step
  <2> QED
    BY <1>3 DEF IteratesUpTo
<1> QED
  BY <1>4, <1>5 DEF ImportOf, e

\* An import is the last of its intermediate values.
LEMMA ImportBy ==
    ASSUME NEW s \in Seq(Nat), NEW f, ImportOf(s, f)
    PROVE  Import(s) = f[Len(s)]
<1> DEFINE e == Len(s)
           Eq(g) == g = [i \in 0 .. e |-> IF i = 0 THEN 0 ELSE g[i - 1] * Base + s[i]]
           value == CHOOSE g : Eq(g)
<1>1. e \in Nat
  OBVIOUS
<1> HIDE DEF e
<1>2. f \in [0 .. e -> Nat] /\ f[0] = 0 /\ \A i \in 1 .. e : f[i] = f[i - 1] * Base + s[i]
  BY DEF ImportOf, e
<1>3. Eq(f)
  <2>1. f = [i \in 0 .. e |-> f[i]]
    BY <1>2
  <2>2. ASSUME NEW i \in 0 .. e PROVE f[i] = IF i = 0 THEN 0 ELSE f[i - 1] * Base + s[i]
    <3>1. i = 0 \/ i \in 1 .. e
      BY <1>1
    <3>2. CASE i = 0
      BY <1>2, <3>2
    <3>3. CASE i \in 1 .. e
      <4>1. i # 0
        BY <3>3
      <4> QED
        BY <1>2, <3>3, <4>1
    <3> QED
      BY <3>1, <3>2, <3>3
  <2> QED
    BY <2>1, <2>2
<1>4. Eq(value)
  <2> HIDE DEF Eq
  <2> QED
    BY <1>3
<1>5. value[0] = 0 /\ \A i \in 1 .. e : value[i] = value[i - 1] * Base + s[i]
  <2>1. 0 \in 0 .. e /\ \A i \in 1 .. e : i \in 0 .. e /\ i # 0
    BY <1>1
  <2> HIDE DEF value
  <2> QED
    BY <1>4, <2>1
<1>6. Import(s) = value[e]
  BY DEF Import, e
<1> HIDE DEF value
<1> DEFINE P == {i \in 0 .. e : value[i] = f[i]}
<1>7. 0 \in P
  BY <1>1, <1>2, <1>5
<1>8. ASSUME NEW i \in 0 .. e - 1, i \in P PROVE i + 1 \in P
  <2>1. i + 1 \in 1 .. e /\ i + 1 \in 0 .. e /\ (i + 1) - 1 = i
    BY <1>1
  <2>2. value[i + 1] = value[i] * Base + s[i + 1] /\ f[i + 1] = f[i] * Base + s[i + 1]
    BY <1>2, <1>5, <2>1
  <2> QED
    BY <1>8, <2>1, <2>2
<1>9. e \in P
  <2>1. e \in 0 .. e
    BY <1>1
  <2> HIDE DEF P
  <2> QED
    BY <1>1, <1>7, <1>8, <2>1, NumbersUpTo
<1> QED
  BY <1>6, <1>9 DEF e

\* A function on 1 .. len is a sequence of that length.
LEMMA FunctionIsSeq ==
    ASSUME NEW S, NEW len \in Nat, NEW f \in [1 .. len -> S]
    PROVE  f \in Seq(S) /\ Len(f) = len
OBVIOUS

\* Digits are bytes, as many as were asked for.
LEMMA DigitsTyped ==
    ASSUME NEW x \in Nat, NEW len \in Nat
    PROVE  /\ Digits(x, len) \in Seq(Byte) /\ Digits(x, len) \in Seq(Nat)
           /\ Len(Digits(x, len)) = len /\ Digits(x, len) \in [1 .. len -> Byte]
<1>1. ASSUME NEW i \in 1 .. len PROVE (x \div Place[len - i]) % Base \in 0 .. Base - 1
  <2>1. len - i \in Nat
    OBVIOUS
  <2>2. x \div Place[len - i] \in Int
    BY <2>1, PlaceIs, Division
  <2> QED
    BY <2>2, PaillierAssumption, Division
<1>2. Digits(x, len) \in [1 .. len -> 0 .. Base - 1]
  BY <1>1 DEF Digits
<1> HIDE DEF Digits
<1>3. Digits(x, len) \in Seq(0 .. Base - 1)
  BY <1>2, FunctionIsSeq
<1>4. 0 .. Base - 1 \subseteq Nat
  BY PaillierAssumption
<1>5. Digits(x, len) \in Seq(Nat)
  <2>1. Digits(x, len) \in [1 .. len -> Nat]
    BY <1>2, <1>4
  <2> QED
    BY <2>1
<1>6. Len(Digits(x, len)) = len
  BY <1>2
<1> QED
  BY <1>2, <1>3, <1>5, <1>6 DEF Byte

\* Importing the bytes of a number gives it back, if they are enough.
LEMMA DigitsImport ==
    ASSUME NEW x \in Nat, NEW len \in Nat, x < Place[len]
    PROVE  Import(Digits(x, len)) = x
<1> DEFINE s == Digits(x, len)
           f == [i \in 0 .. len |-> x \div Place[len - i]]
<1>1. s \in Seq(Nat) /\ Len(s) = len
  BY DigitsTyped
<1>2. ASSUME NEW i \in 0 .. len PROVE x \div Place[len - i] \in Nat /\ Place[len - i] \in Nat \ {0}
  <2>1. len - i \in Nat
    OBVIOUS
  <2> DEFINE m == Place[len - i]
             y == x \div m
             r == x % m
  <2>2. m \in Nat \ {0}
    BY <2>1, PlaceIs
  <2> HIDE DEF m
  <2>3. y \in Int /\ x = m * y + r /\ r \in 0 .. m - 1
    BY <2>2, Division
  <2> HIDE DEF y, r
  <2>4. y >= 0
    <3> SUFFICES ASSUME y <= -1 PROVE FALSE
      BY <2>3
    <3>1. m * y <= m * (-1)
      BY <2>2, <2>3
    <3> QED
      BY <2>2, <2>3, <3>1
  <2> QED
    BY <2>2, <2>3, <2>4 DEF m, y
<1>3. ImportOf(s, f)
  <2>1. f \in [0 .. len -> Nat]
    BY <1>2
  <2>2. f[0] = 0
    <3>1. x \div Place[len] = 0
      BY PlaceIs, NoQuotient
    <3> QED
      BY <3>1
  <2>3. ASSUME NEW i \in 1 .. len PROVE f[i] = f[i - 1] * Base + s[i]
    <3> DEFINE m == Place[len - i]
               y == x \div m
    <3>1. len - i \in Nat /\ i \in 0 .. len /\ i - 1 \in 0 .. len /\ len - (i - 1) = (len - i) + 1
      OBVIOUS
    <3>2. Place[len - (i - 1)] = Base * m /\ m \in Nat \ {0} /\ Base \in Nat \ {0}
      BY <3>1, PlaceIs, PaillierAssumption
    <3>3. f[i] = y /\ y \in Nat
      BY <1>2, <3>1
    <3>4. f[i - 1] = x \div (m * Base)
      <4>1. Base * m = m * Base
        BY <3>2
      <4>2. f[i - 1] = x \div Place[len - (i - 1)]
        BY <3>1
      <4> QED
        BY <3>2, <4>1, <4>2
    <3>5. s[i] = y % Base
      BY DEF Digits
    <3> HIDE DEF m, s, f
    <3>6. f[i - 1] = y \div Base
      BY <3>2, <3>4, DivisionTwice
    <3> HIDE DEF y
    <3>7. y \div Base \in Int /\ y = Base * (y \div Base) + (y % Base)
      BY <3>2, <3>3, Division
    <3> DEFINE d == y \div Base
               r == y % Base
    <3> HIDE DEF d, r
    <3>8. d \in Int /\ y = Base * d + r
      BY <3>7 DEF d, r
    <3>9. Base * d = d * Base
      BY <3>2, <3>8
    <3> QED
      BY <3>3, <3>5, <3>6, <3>8, <3>9 DEF d, r
  <2> HIDE DEF f, s
  <2> QED
    BY <1>1, <2>1, <2>2, <2>3 DEF ImportOf
<1>4. f[len] = x
  <2>1. len - len = 0 /\ len \in 0 .. len
    OBVIOUS
  <2>2. x \div 1 = x
    <3>1. x = 1 * x + 0 /\ 0 \in 0 .. 1 - 1
      OBVIOUS
    <3> QED
      BY <3>1, OneRemainder
  <2> QED
    BY <2>1, <2>2, PlaceIs
<1> HIDE DEF f, s
<1>5. Import(s) = f[Len(s)]
  BY <1>1, <1>3, ImportBy
<1> QED
  BY <1>1, <1>4, <1>5 DEF s

\* The bytes of an imported number are those it was imported from.
LEMMA ImportDigits ==
    ASSUME NEW s \in Seq(Byte)
    PROVE  /\ Import(s) \in Nat /\ Import(s) < Place[Len(s)]
           /\ Digits(Import(s), Len(s)) = s
<1> DEFINE len == Len(s)
<1>1. len \in Nat /\ Base \in Nat /\ Base > 1 /\ \A i \in 1 .. len : s[i] \in 0 .. Base - 1
  BY PaillierAssumption DEF Byte
<1>2. s \in Seq(Nat)
  <2>1. 0 .. Base - 1 \subseteq Nat
    BY <1>1
  <2>2. s \in [1 .. len -> Nat]
    BY <1>1, <2>1, LenProperties
  <2> QED
    BY <1>1, <2>2
<1>3. PICK f : ImportOf(s, f)
  BY <1>2, ImportHas
<1>4. Import(s) = f[len]
  BY <1>2, <1>3, ImportBy
<1>5. f \in [0 .. len -> Nat] /\ f[0] = 0 /\ \A i \in 1 .. len : f[i] = f[i - 1] * Base + s[i]
  BY <1>3 DEF ImportOf
<1>6. s = [i \in 1 .. len |-> s[i]]
  <2>1. s \in [1 .. len -> Nat]
    BY <1>2, LenProperties
  <2> QED
    BY <2>1
<1> HIDE DEF len
<1> DEFINE P == {i \in 0 .. len : f[i] < Place[i]}
           Q == {j \in 0 .. len : f[len] \div Place[j] = f[len - j]}
<1>7. 0 \in P
  <2>1. 0 \in 0 .. len
    BY <1>1
  <2> QED
    BY <1>5, <2>1, PlaceIs
<1>8. ASSUME NEW i \in 0 .. len - 1, i \in P PROVE i + 1 \in P
  <2> DEFINE x == f[i]
             y == Place[i]
             b == s[i + 1]
  <2>1. i + 1 \in 1 .. len /\ i + 1 \in 0 .. len /\ (i + 1) - 1 = i /\ i \in Nat /\ i \in 0 .. len
    BY <1>1
  <2>2. f[i + 1] = x * Base + b /\ x \in Nat /\ b \in 0 .. Base - 1
    BY <1>1, <1>5, <2>1
  <2>3. Place[i + 1] = Base * y /\ y \in Nat /\ x < y
    BY <1>8, <2>1, PlaceIs
  <2> HIDE DEF x, y, b
  <2>4. (x + 1) * Base <= y * Base
    BY <1>1, <2>2, <2>3
  <2>5. /\ (x + 1) * Base = x * Base + Base /\ y * Base = Base * y
        /\ x * Base \in Nat /\ Base * y \in Nat
    BY <1>1, <2>2, <2>3
  <2>6. x * Base + b < Base * y
    BY <1>1, <2>2, <2>4, <2>5
  <2> QED
    BY <2>1, <2>2, <2>3, <2>6
<1>9. len \in P
  <2>1. len \in 0 .. len
    BY <1>1
  <2> HIDE DEF P
  <2> QED
    BY <1>1, <1>7, <1>8, <2>1, NumbersUpTo
<1>10. f[len] \in Nat /\ f[len] < Place[len]
  <2>1. len \in 0 .. len
    BY <1>1
  <2> QED
    BY <1>5, <1>9, <2>1
<1>11. ASSUME NEW i \in 1 .. len PROVE f[i] \div Base = f[i - 1] /\ f[i] % Base = s[i]
  <2> DEFINE x == f[i - 1]
             y == f[i]
  <2>1. i - 1 \in 0 .. len /\ i \in 0 .. len
    BY <1>1
  <2>2. y = x * Base + s[i] /\ x \in Nat /\ y \in Nat /\ s[i] \in 0 .. Base - 1
    BY <1>1, <1>5, <2>1
  <2> HIDE DEF x, y
  <2>3. y = Base * x + s[i]
    BY <1>1, <2>2
  <2>4. y % Base = s[i] /\ y \div Base = x
    <3> DEFINE b == s[i]
    <3>1. y = Base * x + b /\ b \in 0 .. Base - 1
      BY <2>2, <2>3
    <3> HIDE DEF b
    <3>2. Base \in Nat /\ Base > 0 /\ x \in Int /\ y \in Int
      BY <1>1, <2>2
    <3>3. y % Base = b /\ y \div Base = x
      BY <3>1, <3>2, OneRemainder
    <3> QED
      BY <3>3 DEF b
  <2> QED
    BY <2>4 DEF x, y
<1>12. 0 \in Q
  <2> DEFINE x == f[len]
  <2>1. x \in Int /\ x = 1 * x + 0 /\ 0 \in 0 .. 1 - 1
    BY <1>10
  <2> HIDE DEF x
  <2>2. x \div 1 = x
    BY <2>1, OneRemainder
  <2>3. len - 0 = len /\ 0 \in 0 .. len
    BY <1>1
  <2> QED
    BY <2>2, <2>3, PlaceIs DEF x
<1>13. ASSUME NEW j \in 0 .. len - 1, j \in Q PROVE j + 1 \in Q
  <2>1. /\ j \in Nat /\ len - j \in 1 .. len /\ (len - j) - 1 = len - (j + 1)
        /\ j + 1 \in 0 .. len
    BY <1>1
  <2> DEFINE x == f[len]
             m == Place[j]
  <2>2. x \in Nat /\ m \in Nat \ {0} /\ Place[j + 1] = Base * m /\ Base \in Nat \ {0}
    <3>1. j \in Nat
      BY <2>1
    <3>2. m \in Nat \ {0} /\ Place[j + 1] = Base * m
      BY <3>1, PlaceIs
    <3>3. x \in Nat
      BY <1>10
    <3> QED
      BY <1>1, <3>2, <3>3
  <2>3. x \div m = f[len - j]
    BY <1>13
  <2>4. f[len - j] \div Base = f[len - (j + 1)]
    BY <1>11, <2>1
  <2> HIDE DEF x, m
  <2>5. (x \div m) \div Base = x \div (m * Base)
    BY <2>2, DivisionTwice
  <2>6. m * Base = Base * m
    BY <2>2
  <2> QED
    BY <2>1, <2>2, <2>3, <2>4, <2>5, <2>6 DEF x
<1>14. \A j \in 0 .. len : j \in Q
  <2> HIDE DEF Q
  <2> QED
    BY <1>1, <1>12, <1>13, NumbersUpTo
<1>15. ASSUME NEW i \in 1 .. len PROVE (f[len] \div Place[len - i]) % Base = s[i]
  <2>1. len - i \in 0 .. len /\ len - (len - i) = i
    BY <1>1
  <2>2. f[len] \div Place[len - i] = f[i]
    BY <1>14, <2>1
  <2> QED
    BY <1>11, <2>2
<1>16. Digits(f[len], len) = s
  BY <1>6, <1>15 DEF Digits
<1> QED
  BY <1>4, <1>10, <1>16 DEF len

-----------------------------------------------------------------------------
(* Longs and ciphertexts as bytes. *)

LEMMA ReverseTwice ==
    ASSUME NEW S, NEW len \in Nat, NEW s \in [1 .. len -> S]
    PROVE  /\ s \in Seq(S) /\ Len(s) = len
           /\ Reverse(s) \in [1 .. len -> S] /\ Reverse(s) \in Seq(S) /\ Len(Reverse(s)) = len
           /\ Reverse(Reverse(s)) = s
<1>1. s \in Seq(S) /\ Len(s) = len
  BY FunctionIsSeq
<1>2. \A i \in 1 .. len : len - i + 1 \in 1 .. len /\ len - (len - i + 1) + 1 = i
  OBVIOUS
<1> DEFINE r == Reverse(s)
<1>3. r = [i \in 1 .. len |-> s[len - i + 1]]
  BY <1>1 DEF Reverse
<1> HIDE DEF r
<1>4. r \in [1 .. len -> S]
  BY <1>2, <1>3
<1>5. r \in Seq(S) /\ Len(r) = len
  BY <1>4, FunctionIsSeq
<1>6. Reverse(r) = [i \in 1 .. len |-> r[len - i + 1]]
  BY <1>5 DEF Reverse
<1>7. \A i \in 1 .. len : r[len - i + 1] = s[i]
  BY <1>2, <1>3
<1>8. s = [i \in 1 .. len |-> s[i]]
  OBVIOUS
<1>9. Reverse(r) = s
  BY <1>6, <1>7, <1>8
<1> QED
  BY <1>1, <1>4, <1>5, <1>9 DEF r

\* A long is a number of LongLen bytes.
LEMMA LongIs == Long \subseteq Nat /\ \A x \in Long : x < Place[LongLen]
<1>1. Place[LongLen] \in Nat
  BY PlaceIs, PaillierAssumption
<1> QED
  BY <1>1 DEF Long

\* The conversions of a long undo each other, though both read its bytes from
\* the wrong end.
LEMMA LongRestored ==
    ASSUME NEW x \in Long
    PROVE  /\ PlaintextFromLong(x) \in Nat /\ PlaintextFromLong(x) < Place[LongLen]
           /\ FromMemory(PlaintextToBytes(LongLen, PlaintextFromLong(x))) = x
<1> DEFINE d == Digits(x, LongLen)
           m == Reverse(d)
           M == Import(m)
<1>1. x \in Nat /\ x < Place[LongLen] /\ LongLen \in Nat
  BY LongIs, PaillierAssumption
<1>2. d \in [1 .. LongLen -> Byte]
  BY <1>1, DigitsTyped
<1>3. m \in Seq(Byte) /\ Len(m) = LongLen /\ Reverse(m) = d
  BY <1>1, <1>2, ReverseTwice
<1>4. PlaintextFromLong(x) = M
  BY DEF PlaintextFromLong, Memory
<1> HIDE DEF m
<1>5. M \in Nat /\ M < Place[LongLen] /\ Digits(M, LongLen) = m
  BY <1>3, ImportDigits
<1>6. PlaintextToBytes(LongLen, M) = m
  BY <1>1, <1>5, BytesAreDigits
<1>7. FromMemory(m) = x
  BY <1>1, <1>3, DigitsImport DEF FromMemory
<1> QED
  BY <1>4, <1>5, <1>6, <1>7

\* Any bytes that are read into a long are one.
LEMMA BytesToLong ==
    ASSUME NEW x \in Nat
    PROVE  FromMemory(PlaintextToBytes(LongLen, x)) \in Long
<1> DEFINE d == Digits(x, LongLen)
<1>1. LongLen \in Nat
  BY PaillierAssumption
<1>2. d \in [1 .. LongLen -> Byte] /\ PlaintextToBytes(LongLen, x) = d
  BY <1>1, DigitsTyped, BytesAreDigits
<1> HIDE DEF d
<1>3. Reverse(d) \in Seq(Byte) /\ Len(Reverse(d)) = LongLen
  BY <1>1, <1>2, ReverseTwice
<1>4. FromMemory(d) \in Nat /\ FromMemory(d) < Place[LongLen]
  BY <1>3, ImportDigits DEF FromMemory
<1>5. Place[LongLen] \in Nat
  BY <1>1, PlaceIs
<1> QED
  BY <1>2, <1>4, <1>5 DEF Long

\* The modulus has its top bit, and no more: a ciphertext fits its buffer.
LEMMA ModulusRange ==
    ASSUME NEW k \in KeyPairs
    PROVE  2^(Bits - 1) <= k.p * k.q /\ Square(k.p * k.q) < Place[CipherLen]
<1> DEFINE N == k.p * k.q
           T == 2^(Bits - 1)
<1>1. N \in Nat /\ N \div T = 1
  BY KeyNumbers DEF KeyPairs
<1>2. Bits - 1 \in Nat /\ (Bits - 1) + 1 = Bits /\ Bits \in Nat /\ Bits + Bits = 2 * Bits
  BY PaillierAssumption
<1>3. T \in Nat \ {0} /\ 2^Bits = 2 * T
  BY <1>2, PowerOfTwo
<1>4. 2^(2 * Bits) = 2^Bits * 2^Bits
  BY <1>2, PowerOfSum
<1>5. Place[CipherLen] \in Nat /\ 2^(2 * Bits) <= Place[CipherLen]
  BY PlaceIs, PaillierAssumption
<1> HIDE DEF N, T
<1>6. N = T * 1 + (N % T) /\ N % T \in 0 .. T - 1
  BY <1>1, <1>3, Division
<1>7. T <= N /\ N < 2 * T
  BY <1>1, <1>3, <1>6
<1> DEFINE W == 2 * T
<1>8. N * N < W * W
  <2>1. W \in Nat /\ N < W /\ N \in Nat
    BY <1>1, <1>3, <1>7
  <2> HIDE DEF W
  <2>2. N * N <= N * W /\ N * W <= (W - 1) * W /\ (W - 1) * W = W * W - W
    BY <2>1
  <2> QED
    BY <2>1, <2>2
<1>9. 2^(2 * Bits) = W * W
  BY <1>3, <1>4
<1>10. N * N \in Int /\ W * W \in Int
  BY <1>1, <1>3
<1> HIDE DEF W
<1>11. N * N < Place[CipherLen]
  BY <1>5, <1>8, <1>9, <1>10
<1> QED
  BY <1>7, <1>11 DEF N, T, Square

\* A ciphertext is restored from its bytes.
LEMMA CiphertextRestored ==
    ASSUME NEW k \in KeyPairs, NEW c \in 0 .. Square(k.p * k.q) - 1
    PROVE  /\ CiphertextToBytes(c) \in [1 .. CipherLen -> Byte]
           /\ CiphertextFromBytes(CiphertextToBytes(c)) = c
<1>1. c \in Nat /\ c < Place[CipherLen] /\ CipherLen \in Nat
  <2>1. Square(k.p * k.q) \in Nat /\ Square(k.p * k.q) < Place[CipherLen]
    BY KeyNumbers, ModulusRange
  <2>2. Place[CipherLen] \in Nat /\ CipherLen \in Nat
    BY PlaceIs, PaillierAssumption
  <2> DEFINE S == Square(k.p * k.q)
  <2> HIDE DEF S
  <2>3. c \in 0 .. S - 1 /\ S \in Nat /\ S < Place[CipherLen]
    BY <2>1 DEF S
  <2> QED
    BY <2>2, <2>3
<1>2. Size(c) <= CipherLen
  BY <1>1, SizeIs
<1>3. CiphertextToBytes(c) = Digits(c, CipherLen)
  BY <1>1, <1>2, PaddedDigits DEF CiphertextToBytes
<1> QED
  BY <1>1, <1>3, DigitsTyped, DigitsImport DEF CiphertextFromBytes

\* The number paillier_enc computes.
LEMMA EncryptionIs ==
    ASSUME NEW k \in KeyPairs, NEW x \in Long, NEW r \in Nat
    PROVE  LET ctext == Enc(k.p * k.q, x, r)
               c == CiphertextFromBytes(ctext)
           IN  /\ ctext \in [1 .. CipherLen -> Byte]
               /\ c \in 0 .. Square(k.p * k.q) - 1 /\ ctext = CiphertextToBytes(c)
               /\ Congruent(c, Power(k.p * k.q + 1, PlaintextFromLong(x))
                                 * Power(r, k.p * k.q), Square(k.p * k.q))
<1> DEFINE N == k.p * k.q
           S == Square(N)
           M == PlaintextFromLong(x)
           a == PowMod(N + 1, M, S)
           b == PowMod(r, N, S)
           g == Power(N + 1, M)
           h == Power(r, N)
           c == (a * b) % S
           ctext == CiphertextToBytes(c)
<1>1. N \in Nat /\ N + 1 \in Int /\ r \in Int /\ S \in Nat /\ S > 1 /\ S > 0 /\ M \in Nat
  BY KeyNumbers, LongRestored
<1>2. Enc(N, x, r) = ctext
  BY DEF Enc
<1>3. S = Square(k.p * k.q)
  OBVIOUS
<1> HIDE DEF N, S, M, g, h
<1>4. a = g % S /\ g \in Int
  BY <1>1, PowModIs, PowerIs DEF g
<1>5. b = h % S /\ h \in Int
  BY <1>1, PowModIs, PowerIs DEF h
<1> HIDE DEF a, b
<1>6. a \in Int /\ b \in Int /\ Congruent(a, g, S) /\ Congruent(b, h, S)
  BY <1>1, <1>4, <1>5, Division, CongruentModulo
<1>7. Congruent(a * b, g * h, S) /\ a * b \in Int /\ g * h \in Int
  BY <1>1, <1>4, <1>5, <1>6, CongruentProducts
<1>8. c \in 0 .. S - 1 /\ Congruent(c, a * b, S)
  BY <1>1, <1>7, Division, CongruentModulo
<1> HIDE DEF c
<1>9. c \in Int
  BY <1>1, <1>8
<1>10. Congruent(c, g * h, S)
  BY <1>1, <1>7, <1>8, <1>9, CongruentTransitive
<1>11. ctext \in [1 .. CipherLen -> Byte] /\ CiphertextFromBytes(ctext) = c
  BY <1>3, <1>8, CiphertextRestored
<1> QED
  BY <1>2, <1>8, <1>10, <1>11 DEF N, S, M, g, h

\* A choice that was encrypted under a sound blinding factor decrypts.
LEMMA DecryptedIs ==
    ASSUME NEW k \in KeyPairs, k.p # k.q, NEW x \in Long, NEW r \in Nat, PrimeToModulus(k, r)
    PROVE  Dec(PrivateKey(k), Enc(k.p * k.q, x, r)) = x
<1> DEFINE N == k.p * k.q
           M == PlaintextFromLong(x)
           c == CiphertextFromBytes(Enc(N, x, r))
<1>1. M \in Nat /\ M < Place[LongLen] /\ FromMemory(PlaintextToBytes(LongLen, M)) = x
  BY LongRestored
<1>2. Carries(k, c, M)
  BY EncryptionIs DEF Carries
<1>3. c \in Int
  <2>1. c \in 0 .. Square(N) - 1 /\ Square(N) \in Nat
    BY EncryptionIs, KeyNumbers
  <2> QED
    BY <2>1
<1> HIDE DEF c, M
<1>4. Plaintext(PrivateKey(k), c) = M % N
  BY <1>1, <1>2, <1>3, PlaintextIs
<1>5. M % N = M
  <2>1. N \in Nat /\ 2^(Bits - 1) <= N
    BY KeyNumbers, ModulusRange
  <2>2. Place[LongLen] <= 2^(Bits - 1) /\ Place[LongLen] \in Nat
    BY PaillierAssumption, PlaceIs
  <2>3. 2^(Bits - 1) \in Nat
    <3>1. Bits - 1 \in Nat
      BY PaillierAssumption
    <3> QED
      BY <3>1, PowerOfTwo
  <2> HIDE DEF N
  <2>4. M < N
    BY <1>1, <2>1, <2>2, <2>3
  <2> QED
    BY <1>1, <2>1, <2>4, NoQuotient
<1>6. Dec(PrivateKey(k), Enc(N, x, r))
        = FromMemory(PlaintextToBytes(LongLen, Plaintext(PrivateKey(k), c)))
  BY DEF Dec, c
<1> QED
  BY <1>1, <1>4, <1>5, <1>6 DEF M, N

\* A multiple of the highest place has one byte that counts, the first; in the
\* memory of a long that is the lowest.
LEMMA SwappedByte ==
    ASSUME NEW t \in Nat
    PROVE  /\ t % Base \in Long
           /\ Memory(t % Base) = Digits(t * Place[LongLen - 1], LongLen)
<1> DEFINE L == LongLen
           T == Place[L - 1]
           u == t % Base
           d == Digits(u, L)
<1>1. L \in Nat \ {0} /\ L - 1 \in Nat /\ (L - 1) + 1 = L /\ Base \in Nat /\ Base > 1
  BY PaillierAssumption
<1>2. u \in 0 .. Base - 1 /\ u \in Nat
  <2>1. u \in 0 .. Base - 1
    BY <1>1, Division
  <2> QED
    BY <1>1, <2>1
<1>3. T \in Nat \ {0} /\ Place[L] = Base * T /\ Base * T \in Nat
  <2>1. T \in Nat \ {0} /\ Place[L] = Base * T
    BY <1>1, PlaceIs
  <2> HIDE DEF T
  <2> QED
    BY <1>1, <2>1
<1>4. u \in Long
  <2> HIDE DEF T, u
  <2>1. Base * 1 <= Base * T
    BY <1>1, <1>3
  <2>2. u < Place[L]
    BY <1>1, <1>2, <1>3, <2>1
  <2> QED
    BY <1>2, <1>3, <2>2 DEF Long
<1>5. Memory(u) = [i \in 1 .. L |-> d[L - i + 1]]
  <2>1. d \in [1 .. L -> Byte] /\ Len(d) = L
    BY <1>1, <1>2, DigitsTyped
  <2> HIDE DEF d
  <2> QED
    BY <2>1 DEF Memory, Reverse, d
<1>6. ASSUME NEW i \in 1 .. L PROVE d[L - i + 1] = ((t * T) \div Place[L - i]) % Base
  <2>1. L - i + 1 \in 1 .. L /\ L - (L - i + 1) = i - 1 /\ i - 1 \in Nat /\ L - i \in Nat
    BY <1>1
  <2>2. d[L - i + 1] = (u \div Place[i - 1]) % Base
    <3> HIDE DEF u
    <3> QED
      BY <2>1 DEF Digits
  <2>3. CASE i = 1
    <3>1. L - i = L - 1 /\ Place[i - 1] = 1
      BY <2>3, PlaceIs
    <3>2. (t * T) \div T = t
      <4> HIDE DEF T
      <4>1. t * T = T * t + 0 /\ 0 \in 0 .. T - 1 /\ t * T \in Int /\ T \in Nat /\ T > 0
        BY <1>3
      <4> DEFINE x == t * T
      <4> HIDE DEF x
      <4>2. x = T * t + 0 /\ x \in Int
        BY <4>1 DEF x
      <4>3. x \div T = t
        BY <4>1, <4>2, OneRemainder
      <4> QED
        BY <4>3 DEF x
    <3>3. u \div 1 = u
      <4> HIDE DEF u
      <4>1. u = 1 * u + 0 /\ 0 \in 0 .. 1 - 1
        BY <1>2
      <4> QED
        BY <1>2, <4>1, OneRemainder
    <3>4. u % Base = u
      <4> HIDE DEF u
      <4>1. u < Base
        BY <1>1, <1>2
      <4> QED
        BY <1>1, <1>2, <4>1, NoQuotient
    <3>5. ((t * T) \div Place[L - i]) % Base = u
      BY <3>1, <3>2
    <3> QED
      BY <2>2, <3>1, <3>3, <3>4, <3>5
  <2>4. CASE i > 1
    <3>1. i - 2 \in Nat /\ (i - 2) + 1 = i - 1 /\ 1 <= i - 1
      BY <1>1, <2>4
    <3> DEFINE m == Place[L - i]
               w == Place[i - 2]
               x == t * w
    <3>2. m \in Nat \ {0} /\ w \in Nat \ {0} /\ Place[i - 1] = Base * w
      BY <2>1, <3>1, PlaceIs
    <3>3. T = m * (Base * w)
      <4>1. (L - i) + (i - 1) = L - 1
        BY <1>1
      <4>2. Place[(L - i) + (i - 1)] = m * Place[i - 1]
        BY <2>1, PlaceOfSum
      <4> QED
        BY <3>2, <4>1, <4>2
    <3> HIDE DEF m, w, T
    <3>4. x \in Nat /\ t * T = m * (Base * x) + 0 /\ Base * x \in Int /\ 0 \in 0 .. m - 1
      <4>1. x \in Nat /\ Base * x \in Nat
        BY <1>1, <3>2
      <4>2. t * (m * (Base * w)) = m * (Base * (t * w))
        BY <1>1, <3>2
      <4> QED
        BY <3>2, <3>3, <4>1, <4>2
    <3>5. (t * T) \div m = Base * x
      <4> DEFINE y == t * T
                 z == Base * x
      <4>1. y \in Int /\ z \in Int /\ y = m * z + 0
        BY <1>3, <3>4
      <4> HIDE DEF y, z
      <4>2. y \div m = z
        BY <3>2, <3>4, <4>1, OneRemainder
      <4> QED
        BY <4>2 DEF y, z
    <3>6. (Base * x) % Base = 0
      <4> HIDE DEF x
      <4> DEFINE z == Base * x
      <4>1. z \in Int /\ z = Base * x + 0 /\ 0 \in 0 .. Base - 1 /\ x \in Int
        BY <1>1, <3>4
      <4> HIDE DEF z
      <4>2. z % Base = 0
        BY <1>1, <4>1, OneRemainder
      <4> QED
        BY <4>2 DEF z
    <3>7. u \div Place[i - 1] = 0
      <4>1. Base * 1 <= Base * w /\ Base * w \in Nat
        BY <1>1, <3>2
      <4> HIDE DEF u
      <4>2. u < Base * w
        BY <1>1, <1>2, <4>1
      <4> QED
        BY <1>2, <3>2, <4>1, <4>2, NoQuotient
    <3>8. 0 % Base = 0
      BY <1>1, NoQuotient
    <3> QED
      BY <2>2, <3>5, <3>6, <3>7, <3>8 DEF m
  <2> QED
    BY <1>1, <2>3, <2>4
<1>7. Digits(t * T, L) = [i \in 1 .. L |-> ((t * T) \div Place[L - i]) % Base]
  BY DEF Digits
<1> QED
  BY <1>4, <1>5, <1>6, <1>7

\* A choice stands at the highest place.
LEMMA SwappedChoice ==
    ASSUME NEW t \in Nat, t < Base
    PROVE  /\ t \in Long
           /\ PlaintextFromLong(t) = t * Place[LongLen - 1]
<1> DEFINE L == LongLen
           T == Place[L - 1]
           M == t * T
<1>1. L \in Nat /\ L - 1 \in Nat /\ (L - 1) + 1 = L /\ Base \in Nat
  BY PaillierAssumption
<1>2. t % Base = t
  BY <1>1, NoQuotient
<1>3. t \in Long /\ Memory(t) = Digits(M, L)
  BY <1>2, SwappedByte
<1>4. T \in Nat \ {0} /\ Place[L] = Base * T
  BY <1>1, PlaceIs
<1>5. M \in Nat /\ M < Place[L]
  <2> HIDE DEF T
  <2>1. M \in Nat /\ M <= (Base - 1) * T /\ (Base - 1) * T = Base * T - T /\ Base * T \in Nat
    BY <1>1, <1>4
  <2> QED
    BY <1>4, <2>1
<1> HIDE DEF M
<1>6. Import(Digits(M, L)) = M
  BY <1>1, <1>5, DigitsImport
<1> QED
  BY <1>3, <1>6 DEF PlaintextFromLong, M

\* What a sum of choices becomes: its lowest byte.
LEMMA SwappedSum ==
    ASSUME NEW t \in Nat
    PROVE  FromMemory(PlaintextToBytes(LongLen, t * Place[LongLen - 1])) = t % Base
<1> DEFINE L == LongLen
           u == t % Base
           M == t * Place[L - 1]
           d == Digits(u, L)
<1>1. L \in Nat /\ M \in Nat /\ u \in Long /\ Memory(u) = Digits(M, L)
  <2>1. L \in Nat /\ L - 1 \in Nat
    BY PaillierAssumption
  <2>2. Place[L - 1] \in Nat
    BY <2>1, PlaceIs
  <2>3. M \in Nat
    BY <2>2
  <2> QED
    BY <2>1, <2>3, SwappedByte
<1> HIDE DEF M, u
<1>2. PlaintextToBytes(L, M) = Memory(u)
  BY <1>1, BytesAreDigits
<1>3. u \in Nat /\ u < Place[L]
  BY <1>1, LongIs
<1>4. d \in [1 .. L -> Byte]
  BY <1>1, <1>3, DigitsTyped
<1>5. Reverse(Memory(u)) = d
  BY <1>1, <1>4, ReverseTwice DEF Memory
<1>6. Import(d) = u
  BY <1>1, <1>3, DigitsImport
<1> QED
  BY <1>2, <1>5, <1>6 DEF FromMemory, M, u

-----------------------------------------------------------------------------
(* The product of ciphertexts. *)

\* f[i] is the product of the first i ciphertexts.
Multiplies(f, N, ctexts, count) ==
    /\ f \in [0 .. count -> 0 .. Square(N) - 1] /\ f[0] = 1
    /\ \A i \in 1 .. count : f[i] = (f[i - 1] * CiphertextFromBytes(ctexts[i])) % Square(N)

\* What paillierSum computes has its intermediate products.
LEMMA SumMultiplies ==
    ASSUME NEW N \in Nat, N > 1, NEW count \in Nat, NEW ctexts,
           \A i \in 1 .. count : CiphertextFromBytes(ctexts[i]) \in Int
    PROVE  \E f : Multiplies(f, N, ctexts, count) /\ Product(N, ctexts, count) = f[count]
<1> DEFINE S == Square(N)
           R == 0 .. S - 1
           c(i) == CiphertextFromBytes(ctexts[i])
           Eq(f) == f = [i \in 0 .. count |-> IF i = 0 THEN 1 ELSE (f[i - 1] * c(i)) % S]
           step == [x \in Nat \X R |->
                      IF x[1] + 1 \in 1 .. count THEN (x[2] * c(x[1] + 1)) % S ELSE 0]
           prod == CHOOSE f : Eq(f)
<1>1. S \in Nat /\ S > 1 /\ S > 0
  <2>1. N * N \in Nat /\ N * N >= N * 1
    BY SMT
  <2> QED
    BY <2>1 DEF Square
<1>2. \A i \in 1 .. count : c(i) \in Int
  OBVIOUS
<1> HIDE DEF S, c
<1>3. step \in Steps(R)
  <2>1. ASSUME NEW x \in Nat \X R
        PROVE (IF x[1] + 1 \in 1 .. count THEN (x[2] * c(x[1] + 1)) % S ELSE 0) \in R
    <3>1. x[2] \in Int /\ 0 \in R
      BY <1>1
    <3>2. ASSUME x[1] + 1 \in 1 .. count PROVE (x[2] * c(x[1] + 1)) % S \in R
      <4> DEFINE y == x[2] * c(x[1] + 1)
      <4>1. y \in Int
        BY <1>2, <3>1, <3>2
      <4> HIDE DEF y
      <4> QED
        BY <1>1, <4>1, Division DEF y
    <3> QED
      BY <3>1, <3>2
  <2> HIDE DEF R
  <2> QED
    BY <2>1 DEF Steps
<1>4. PICK f : IteratesUpTo(f, R, 1, step, count)
  <2>1. 1 \in R
    BY <1>1
  <2> HIDE DEF step, R
  <2> QED
    BY <1>3, <2>1, RecursionUpTo
<1>5. f \in [0 .. count -> R] /\ f[0] = 1
  <2> HIDE DEF step, R
  <2> QED
    BY <1>4 DEF IteratesUpTo
<1>6. ASSUME NEW i \in 1 .. count PROVE f[i] = (f[i - 1] * c(i)) % S
  <2>1. i - 1 \in 0 .. count /\ (i - 1) + 1 = i /\ i - 1 \in Nat
    OBVIOUS
  <2>2. f[i] = step[<<i - 1, f[i - 1]>>] /\ f[i - 1] \in R
    <3> HIDE DEF step, R
    <3> QED
      BY <1>4, <2>1 DEF IteratesUpTo
  <2>3. <<i - 1, f[i - 1]>> \in Nat \X R
    BY <2>1, <2>2
  <2> HIDE DEF R
  <2> QED
    BY <2>1, <2>2, <2>3
<1>7. Eq(f)
  <2>1. f = [i \in 0 .. count |-> f[i]]
    BY <1>5
  <2>2. ASSUME NEW i \in 0 .. count PROVE f[i] = IF i = 0 THEN 1 ELSE (f[i - 1] * c(i)) % S
    <3>1. i = 0 \/ (i # 0 /\ i \in 1 .. count)
      OBVIOUS
    <3> QED
      BY <1>5, <1>6, <3>1
  <2> QED
    BY <2>1, <2>2
<1>8. Eq(prod)
  <2> HIDE DEF Eq
  <2> QED
    BY <1>7
<1>9. prod[0] = 1 /\ \A i \in 1 .. count : prod[i] = (prod[i - 1] * c(i)) % S
  <2>1. 0 \in 0 .. count /\ \A i \in 1 .. count : i \in 0 .. count /\ i # 0
    OBVIOUS
  <2> HIDE DEF prod
  <2> QED
    BY <1>8, <2>1
<1>10. Product(N, ctexts, count) = prod[count]
  BY DEF Product, S, c
<1> HIDE DEF prod
<1> DEFINE P == {i \in 0 .. count : prod[i] = f[i]}
<1>11. 0 \in P
  BY <1>5, <1>9
<1>12. ASSUME NEW i \in 0 .. count - 1, i \in P PROVE i + 1 \in P
  <2>1. i + 1 \in 1 .. count /\ i + 1 \in 0 .. count /\ (i + 1) - 1 = i
    OBVIOUS
  <2>2. /\ prod[i + 1] = (prod[(i + 1) - 1] * c(i + 1)) % S
        /\ f[i + 1] = (f[(i + 1) - 1] * c(i + 1)) % S
    BY <1>6, <1>9, <2>1
  <2> QED
    BY <1>12, <2>1, <2>2
<1>13. count \in P
  <2>1. count \in 0 .. count
    OBVIOUS
  <2> HIDE DEF P
  <2> QED
    BY <1>11, <1>12, <2>1, NumbersUpTo
<1> QED
  BY <1>5, <1>6, <1>10, <1>13 DEF Multiplies, S, c

\* Multiplying ciphertexts adds what they carry.
LEMMA CarriesBoth ==
    ASSUME NEW k \in KeyPairs, NEW c \in Int, NEW d \in Int, NEW M \in Nat, NEW W \in Nat,
           Carries(k, c, M), Carries(k, d, W)
    PROVE  Carries(k, (c * d) % Square(k.p * k.q), M + W)
<1> DEFINE N == k.p * k.q
           S == Square(N)
<1>1. N \in Nat /\ N + 1 \in Int /\ S \in Nat /\ S > 0
  BY KeyNumbers
<1>2. PICK r \in Nat : PrimeToModulus(k, r) /\ Congruent(c, Power(N + 1, M) * Power(r, N), S)
  BY DEF Carries
<1>3. PICK s \in Nat : PrimeToModulus(k, s) /\ Congruent(d, Power(N + 1, W) * Power(s, N), S)
  BY DEF Carries
<1>4. r * s \in Nat /\ PrimeToModulus(k, r * s)
  <2>1. r \in Nat \ {0} /\ s \in Nat \ {0}
    BY <1>2, <1>3 DEF PrimeToModulus
  <2>2. ~Divides(k.p, r * s) /\ ~Divides(k.q, r * s)
    BY <1>2, <1>3, <2>1, KeyNumbers, PrimeFactor DEF PrimeToModulus
  <2>3. r * s \in Nat \ {0}
    BY <2>1
  <2> QED
    BY <2>2, <2>3 DEF PrimeToModulus
<1> DEFINE a == Power(N + 1, M)
           b == Power(N + 1, W)
           g == Power(r, N)
           h == Power(s, N)
<1>5. Carries(k, (c * d) % S, M + W) <=> \E t \in Nat : PrimeToModulus(k, t) /\
           Congruent((c * d) % S, Power(N + 1, M + W) * Power(t, N), S)
  BY DEF Carries
<1> HIDE DEF N, S
<1>6. a \in Int /\ b \in Int /\ g \in Int /\ h \in Int
  <2>1. r \in Int /\ s \in Int
    OBVIOUS
  <2> QED
    BY <1>1, <2>1, PowerIs
<1>7. Power(N + 1, M + W) = a * b
  BY <1>1, PowerSum
<1>8. Power(r * s, N) = g * h
  <2>1. r \in Int /\ s \in Int
    OBVIOUS
  <2> QED
    BY <1>1, <2>1, PowerOfProduct
<1> HIDE DEF a, b, g, h
<1>9. Congruent(c * d, (a * g) * (b * h), S)
  <2>1. /\ Congruent(c, a * g, S) /\ Congruent(d, b * h, S)
        /\ a * g \in Int /\ b * h \in Int /\ S \in Int
    BY <1>1, <1>2, <1>3, <1>6 DEF a, b, g, h
  <2> QED
    BY <2>1, CongruentProducts
<1>10. (a * g) * (b * h) = (a * b) * (g * h)
  BY <1>6
<1> DEFINE x == c * d
           y == (a * b) * (g * h)
<1>11. x \in Int /\ y \in Int /\ Congruent(x, y, S)
  BY <1>6, <1>9, <1>10
<1> HIDE DEF x, y
<1>12. Congruent(x % S, y, S)
  <2>1. Congruent(x % S, x, S) /\ x % S \in Int /\ S \in Int
    BY <1>1, <1>11, CongruentModulo, Division
  <2> QED
    BY <1>11, <2>1, CongruentTransitive
<1>13. Congruent((c * d) % S, Power(N + 1, M + W) * Power(r * s, N), S)
  BY <1>7, <1>8, <1>12 DEF x, y
<1>14. Carries(k, (c * d) % S, M + W)
  BY <1>4, <1>5, <1>13
<1> QED
  BY <1>14 DEF N, S

\* Nothing carries nothing.
LEMMA OneCarries ==
    ASSUME NEW k \in KeyPairs
    PROVE  Carries(k, 1, 0)
<1> DEFINE N == k.p * k.q
<1>1. N \in Nat /\ N + 1 \in Int /\ Square(N) \in Int /\ IsPrime(k.p) /\ IsPrime(k.q)
      /\ k.p \in Nat \ {0} /\ k.q \in Nat \ {0}
  BY KeyNumbers
<1>2. PrimeToModulus(k, 1)
  <2>1. k.p > 1 /\ k.q > 1
    BY <1>1 DEF IsPrime
  <2> QED
    BY <1>1, <2>1, DivisorBound DEF PrimeToModulus
<1>3. Power(N + 1, 0) * Power(1, N) = 1
  <2> HIDE DEF N
  <2> QED
    BY <1>1, PowerIs, PowerOfOne
<1>4. Congruent(1, Power(N + 1, 0) * Power(1, N), Square(N))
  BY <1>1, <1>3, CongruentSelf
<1> QED
  BY <1>2, <1>4 DEF Carries

\* How many of the first i ballots are a one.
Ones(s, i) == Cardinality({j \in 1 .. i : s[j].choice = 1})

\* One more ballot counts one more, or not.
LEMMA OnesIs ==
    ASSUME NEW s
    PROVE  /\ Ones(s, 0) = 0
           /\ \A i \in Nat : /\ Ones(s, i) \in Nat /\ Ones(s, i) <= i
                             /\ Ones(s, i + 1) = IF s[i + 1].choice = 1 THEN Ones(s, i) + 1
                                                                        ELSE Ones(s, i)
<1> DEFINE A(i) == {j \in 1 .. i : s[j].choice = 1}
<1>1. A(0) = {}
  OBVIOUS
<1>2. ASSUME NEW i \in Nat
      PROVE  IsFiniteSet(A(i)) /\ Cardinality(A(i)) \in Nat /\ Cardinality(A(i)) <= i
  <2>1. IsFiniteSet(1 .. i) /\ Cardinality(1 .. i) = i
    BY FS_Interval
  <2>2. A(i) \in SUBSET (1 .. i)
    OBVIOUS
  <2> HIDE DEF A
  <2> QED
    BY <2>1, <2>2, FS_Subset, FS_CardinalityType
<1>3. ASSUME NEW i \in Nat
      PROVE  Cardinality(A(i + 1)) = IF s[i + 1].choice = 1 THEN Cardinality(A(i)) + 1
                                                            ELSE Cardinality(A(i))
  <2>1. i + 1 \notin A(i) /\ 1 .. i + 1 = (1 .. i) \cup {i + 1}
    OBVIOUS
  <2>2. CASE s[i + 1].choice = 1
    <3>1. A(i + 1) = A(i) \cup {i + 1}
      BY <2>1, <2>2
    <3> HIDE DEF A
    <3> QED
      BY <1>2, <2>1, <2>2, <3>1, FS_AddElement
  <2>3. CASE s[i + 1].choice # 1
    <3>1. A(i + 1) = A(i)
      BY <2>1, <2>3
    <3> QED
      BY <2>3, <3>1
  <2> QED
    BY <2>2, <2>3
<1>4. Cardinality(A(0)) = 0
  BY <1>1, FS_EmptySet
<1> QED
  BY <1>2, <1>3, <1>4 DEF Ones

\* A ballot of a zero or a one, as a client encrypts it.
Honest(k, b) ==
    /\ b.choice \in {0, 1} /\ b.blind \in Nat
    /\ b.ctext = Enc(k.p * k.q, b.choice, b.blind)

Texts(s, count) == [i \in 1 .. count |-> s[i].ctext]

\* The numbers that paillierSum goes through.
LEMMA SumIs ==
    ASSUME NEW k \in KeyPairs, NEW count \in Nat, NEW s,
           \A i \in 1 .. count : CiphertextFromBytes(s[i].ctext) \in Int
    PROVE  LET sum == Sum(k.p * k.q, Texts(s, count))
               c == CiphertextFromBytes(sum)
           IN  /\ sum \in [1 .. CipherLen -> Byte]
               /\ c \in 0 .. Square(k.p * k.q) - 1 /\ c \in Int /\ sum = CiphertextToBytes(c)
               /\ \E f : Multiplies(f, k.p * k.q, Texts(s, count), count) /\ c = f[count]
<1> DEFINE N == k.p * k.q
           t == Texts(s, count)
           c == Product(N, t, count)
<1>1. N \in Nat /\ N > 1 /\ Square(N) \in Nat
  BY KeyNumbers
<1>2. Len(t) = count /\ \A i \in 1 .. count : t[i] = s[i].ctext
  BY DEF Texts
<1>3. Sum(N, t) = CiphertextToBytes(c)
  BY <1>2 DEF Sum
<1> HIDE DEF t
<1>4. PICK f : Multiplies(f, N, t, count) /\ c = f[count]
  <2>1. \A i \in 1 .. count : CiphertextFromBytes(t[i]) \in Int
    BY <1>2
  <2> HIDE DEF N
  <2>2. \E f : Multiplies(f, N, t, count) /\ Product(N, t, count) = f[count]
    BY <1>1, <2>1, SumMultiplies
  <2> QED
    BY <2>2
<1>5. c \in 0 .. Square(N) - 1
  <2>1. count \in 0 .. count
    OBVIOUS
  <2> HIDE DEF c
  <2> QED
    BY <1>4, <2>1 DEF Multiplies
<1> HIDE DEF c
<1>6. Sum(N, t) \in [1 .. CipherLen -> Byte] /\ CiphertextFromBytes(Sum(N, t)) = c
  BY <1>3, <1>5, CiphertextRestored
<1>7. c \in Int
  <2> DEFINE S == Square(N)
  <2> HIDE DEF S
  <2>1. c \in 0 .. S - 1 /\ S \in Nat
    BY <1>1, <1>5 DEF S
  <2> QED
    BY <2>1
<1> QED
  BY <1>3, <1>4, <1>5, <1>6, <1>7 DEF t

\* The product of honest ballots carries the number of ones, at the highest
\* place.
LEMMA SumCarries ==
    ASSUME NEW k \in KeyPairs, NEW count \in Nat, NEW s,
           \A i \in 1 .. count : Honest(k, s[i]) /\ PrimeToModulus(k, s[i].blind)
    PROVE  Carries(k, CiphertextFromBytes(Sum(k.p * k.q, Texts(s, count))),
                      Ones(s, count) * Place[LongLen - 1])
<1> DEFINE N == k.p * k.q
           T == Place[LongLen - 1]
           c(i) == CiphertextFromBytes(s[i].ctext)
           M(i) == Ones(s, i) * T
<1>1. N \in Nat /\ Square(N) \in Nat /\ Square(N) > 0 /\ Base \in Nat /\ Base > 1
  BY KeyNumbers, PaillierAssumption
<1>2. T \in Nat
  <2>1. LongLen - 1 \in Nat
    BY PaillierAssumption
  <2> QED
    BY <2>1, PlaceIs
<1> HIDE DEF T
<1>3. ASSUME NEW i \in 1 .. count
      PROVE  c(i) \in Int /\ Carries(k, c(i), s[i].choice * T) /\ s[i].choice \in {0, 1}
  <2> DEFINE x == s[i].choice
             r == s[i].blind
  <2>1. x \in {0, 1} /\ r \in Nat /\ PrimeToModulus(k, r) /\ s[i].ctext = Enc(N, x, r)
    BY DEF Honest
  <2> HIDE DEF x, r
  <2>2. x \in Nat /\ x < Base
    BY <1>1, <2>1
  <2>3. x \in Long /\ PlaintextFromLong(x) = x * T
    BY <2>2, SwappedChoice DEF T
  <2> DEFINE e == CiphertextFromBytes(Enc(N, x, r))
             S == Square(N)
  <2>4. e \in 0 .. S - 1 /\ Congruent(e, Power(N + 1, PlaintextFromLong(x)) * Power(r, N), S)
    BY <2>1, <2>3, EncryptionIs
  <2>5. Carries(k, e, x * T)
    BY <2>1, <2>3, <2>4 DEF Carries
  <2> HIDE DEF S, e
  <2>6. e \in Int
    BY <1>1, <2>4 DEF S
  <2> QED
    BY <2>1, <2>5, <2>6 DEF e, x
<1>4. \A i \in 1 .. count : CiphertextFromBytes(s[i].ctext) \in Int
  BY <1>3
<1>5. PICK f : /\ Multiplies(f, N, Texts(s, count), count)
               /\ CiphertextFromBytes(Sum(N, Texts(s, count))) = f[count]
  BY <1>4, SumIs
<1>6. f \in [0 .. count -> 0 .. Square(N) - 1] /\ f[0] = 1
      /\ \A i \in 1 .. count : f[i] = (f[i - 1] * c(i)) % Square(N)
  <2>1. \A i \in 1 .. count : Texts(s, count)[i] = s[i].ctext
    BY DEF Texts
  <2> QED
    BY <1>5, <2>1 DEF Multiplies
<1> HIDE DEF c
<1> DEFINE P == {i \in 0 .. count : Carries(k, f[i], M(i))}
<1>7. 0 \in P
  <2>1. M(0) = 0
    BY <1>2, OnesIs
  <2> QED
    BY <1>6, <2>1, OneCarries
<1>8. ASSUME NEW i \in 0 .. count - 1, i \in P PROVE i + 1 \in P
  <2>1. /\ i \in Nat /\ i + 1 \in 1 .. count /\ i + 1 \in 0 .. count
        /\ (i + 1) - 1 = i /\ i \in 0 .. count
    OBVIOUS
  <2> DEFINE x == s[i + 1].choice
             S == Square(N)
  <2>2. c(i + 1) \in Int /\ Carries(k, c(i + 1), x * T) /\ x \in {0, 1}
    BY <1>3, <2>1
  <2>3. f[i + 1] = (f[i] * c(i + 1)) % Square(N)
    BY <1>6, <2>1
  <2>4. f[i] \in Int
    <3> HIDE DEF S
    <3>1. f[i] \in 0 .. S - 1 /\ S \in Nat
      BY <1>1, <1>6, <2>1 DEF S
    <3> QED
      BY <3>1
  <2>5. Ones(s, i) \in Nat /\ Ones(s, i + 1) = Ones(s, i) + x
    BY <2>1, <2>2, OnesIs
  <2> HIDE DEF x
  <2>6. M(i) \in Nat /\ x * T \in Nat /\ M(i + 1) = M(i) + x * T
    <3> DEFINE o == Ones(s, i)
    <3> HIDE DEF o
    <3>1. o \in Nat /\ Ones(s, i + 1) = o + x /\ x \in Nat
      BY <2>2, <2>5 DEF o
    <3>2. (o + x) * T = o * T + x * T /\ o * T \in Nat /\ x * T \in Nat
      BY <1>2, <3>1
    <3> QED
      BY <3>1, <3>2 DEF o
  <2> HIDE DEF M
  <2>7. Carries(k, (f[i] * c(i + 1)) % Square(N), M(i) + x * T)
    BY <1>8, <2>2, <2>4, <2>6, CarriesBoth
  <2> QED
    BY <2>1, <2>3, <2>6, <2>7
<1>9. count \in P
  <2>1. count \in 0 .. count
    OBVIOUS
  <2> HIDE DEF P
  <2> QED
    BY <1>7, <1>8, <2>1, NumbersUpTo
<1> QED
  BY <1>5, <1>9 DEF T

\* A number of choices that no modulus reaches.
LEMMA ChoicesBelowModulus ==
    ASSUME NEW k \in KeyPairs, NEW t \in 0 .. MaxBallots
    PROVE  /\ t * Place[LongLen - 1] \in Nat
           /\ (t * Place[LongLen - 1]) % (k.p * k.q) = t * Place[LongLen - 1]
<1> DEFINE N == k.p * k.q
           T == Place[LongLen - 1]
           W == 2^(Bits - 1)
<1>1. N \in Nat /\ W <= N
  BY KeyNumbers, ModulusRange
<1>2. T \in Nat \ {0}
  <2>1. LongLen - 1 \in Nat
    BY PaillierAssumption
  <2> QED
    BY <2>1, PlaceIs
<1>3. W \in Nat
  <2>1. Bits - 1 \in Nat
    BY PaillierAssumption
  <2> QED
    BY <2>1, PowerOfTwo
<1>4. (MaxBallots + 1) * T <= W /\ MaxBallots \in Nat
  BY TallyAssumption
<1> HIDE DEF N, T, W
<1>5. t * T \in Nat /\ t * T <= MaxBallots * T /\ (MaxBallots + 1) * T = MaxBallots * T + T
      /\ MaxBallots * T \in Nat
  BY <1>2, <1>4
<1>6. t * T < N
  BY <1>1, <1>2, <1>3, <1>4, <1>5
<1> DEFINE x == t * T
<1> HIDE DEF x
<1>7. x % N = x
  <2>1. x \in Nat /\ x < N
    BY <1>5, <1>6 DEF x
  <2> QED
    BY <1>1, <2>1, NoQuotient
<1> QED
  BY <1>5, <1>7 DEF x, N, T

\* The ciphertext of an honest ballot is a number.
LEMMA HonestText ==
    ASSUME NEW k \in KeyPairs, NEW b, Honest(k, b)
    PROVE  CiphertextFromBytes(b.ctext) \in Int
<1>1. b.choice \in {0, 1} /\ b.blind \in Nat /\ b.ctext = Enc(k.p * k.q, b.choice, b.blind)
  BY DEF Honest
<1>2. b.choice \in Long
  <2>1. b.choice \in Nat /\ b.choice < Base
    BY <1>1, PaillierAssumption
  <2> QED
    BY <2>1, SwappedChoice
<1> DEFINE S == Square(k.p * k.q)
<1>3. CiphertextFromBytes(b.ctext) \in 0 .. S - 1 /\ S \in Nat
  BY <1>1, <1>2, EncryptionIs, KeyNumbers
<1> HIDE DEF S
<1> QED
  BY <1>3

\* paillierDec of the product, before bytes are cut.
LEMMA SumPlaintext ==
    ASSUME NEW k \in KeyPairs, k.p # k.q, NEW count \in 1 .. MaxBallots, NEW s,
           \A i \in 1 .. count : Honest(k, s[i]) /\ PrimeToModulus(k, s[i].blind)
    PROVE  /\ Plaintext(PrivateKey(k), CiphertextFromBytes(Sum(k.p * k.q, Texts(s, count))))
                = Ones(s, count) * Place[LongLen - 1]
           /\ Ones(s, count) \in 0 .. MaxBallots
<1> DEFINE c == CiphertextFromBytes(Sum(k.p * k.q, Texts(s, count)))
           t == Ones(s, count)
           M == t * Place[LongLen - 1]
<1>1. count \in Nat /\ MaxBallots \in Nat
  BY TallyAssumption
<1>2. t \in Nat /\ t <= count
  BY <1>1, OnesIs
<1>3. t \in 0 .. MaxBallots
  BY <1>1, <1>2
<1>4. Carries(k, c, M)
  BY <1>1, SumCarries
<1>5. c \in Int
  <2>1. \A i \in 1 .. count : CiphertextFromBytes(s[i].ctext) \in Int
    BY HonestText
  <2> QED
    BY <1>1, <2>1, SumIs
<1> HIDE DEF c, t
<1>6. M \in Nat /\ M % (k.p * k.q) = M
  BY <1>3, ChoicesBelowModulus
<1> HIDE DEF M
<1>7. Plaintext(PrivateKey(k), c) = M % (k.p * k.q)
  BY <1>4, <1>5, <1>6, PlaintextIs DEF M
<1> QED
  BY <1>3, <1>6, <1>7 DEF c, t, M

-----------------------------------------------------------------------------
(* Blinding factors. *)

\* Numbers that are equal modulo N have equal powers of N modulo its square.
LEMMA BlindingModulo ==
    ASSUME NEW N \in Nat \ {0}, NEW a \in Int, NEW b \in Int, Congruent(b, a, N)
    PROVE  Congruent(Power(b, N), Power(a, N), Square(N))
<1> DEFINE S == Square(N)
<1>1. PICK s \in Int : b = a + N * s
  BY DEF Congruent
<1>2. S \in Int /\ S = N * N
  BY DEF Square
<1> HIDE DEF S
<1> DEFINE w(j) == (j + 1) * (Power(a, j) * s)
           line(j) == Power(a, j + 1) + w(j) * N
           P == {j \in Nat : Congruent(Power(b, j + 1), line(j), S)}
<1>3. ASSUME NEW j \in Nat
      PROVE  /\ Power(a, j) \in Int /\ Power(a, j + 1) = Power(a, j) * a /\ Power(a, j + 1) \in Int
             /\ Power(b, j + 1) \in Int /\ Power(b, (j + 1) + 1) = Power(b, j + 1) * b
             /\ w(j) \in Int /\ line(j) \in Int
  <2>1. Power(a, j) \in Int /\ Power(a, j + 1) = Power(a, j) * a /\ Power(a, j + 1) \in Int
    <3>1. j + 1 \in Nat
      OBVIOUS
    <3> QED
      BY <3>1, PowerIs
  <2>2. Power(b, j + 1) \in Int /\ Power(b, (j + 1) + 1) = Power(b, j + 1) * b
    <3>1. j + 1 \in Nat
      OBVIOUS
    <3> QED
      BY <3>1, PowerIs
  <2>3. w(j) \in Int
    <3> DEFINE x == Power(a, j)
    <3> HIDE DEF x
    <3>1. x \in Int
      BY <2>1 DEF x
    <3>2. (j + 1) * (x * s) \in Int
      BY <3>1
    <3> QED
      BY <3>2 DEF x
  <2>4. line(j) \in Int
    <3> HIDE DEF w
    <3> QED
      BY <2>1, <2>3
  <2> QED
    BY <2>1, <2>2, <2>3, <2>4
<1>4. 0 \in P
  <2>1. Power(a, 0) = 1 /\ Power(a, 0 + 1) = a /\ Power(b, 0 + 1) = b
    BY PowerIs, PowerIsOne
  <2>2. line(0) = b
    <3>1. w(0) = s
      BY <2>1
    <3> HIDE DEF w
    <3> QED
      BY <1>1, <2>1, <3>1
  <2>3. Congruent(b, b, S)
    BY <1>2, CongruentSelf
  <2> QED
    BY <2>1, <2>2, <2>3
<1>5. ASSUME NEW j \in Nat, j \in P PROVE j + 1 \in P
  <2> DEFINE X == Power(a, j)
             Y == Power(a, j + 1)
  <2>1. /\ X \in Int /\ Y = X * a /\ Y \in Int /\ w(j) \in Int /\ line(j) \in Int
        /\ line(j + 1) \in Int /\ Power(b, j + 1) \in Int /\ Power(a, (j + 1) + 1) = Y * a
        /\ Power(b, (j + 1) + 1) = Power(b, j + 1) * b
    <3>1. j + 1 \in Nat
      OBVIOUS
    <3> HIDE DEF w, line
    <3> QED
      BY <1>3, <3>1
  <2>2. Congruent(Power(b, j + 1) * b, line(j) * b, S)
    <3>1. Congruent(b, b, S) /\ Congruent(Power(b, j + 1), line(j), S)
      BY <1>2, <1>5, CongruentSelf
    <3> HIDE DEF line
    <3> QED
      BY <1>2, <2>1, <3>1, CongruentProducts
  <2>3. w(j) = (j + 1) * (X * s) /\ w(j + 1) = ((j + 1) + 1) * (Y * s)
    OBVIOUS
  <2>4. line(j) = Y + w(j) * N /\ line(j + 1) = Y * a + w(j + 1) * N
    BY <2>1
  <2> DEFINE u == w(j)
             v == w(j + 1)
  <2>5. u \in Int /\ v \in Int
    BY <1>3
  <2> HIDE DEF w, X, Y, u, v, line
  <2>6. v = u * a + Y * s
    <3>1. ((j + 1) + 1) * (Y * s) = (j + 1) * (Y * s) + Y * s
      BY <2>1
    <3>2. (j + 1) * ((X * a) * s) = ((j + 1) * (X * s)) * a
      BY <2>1
    <3> QED
      BY <2>1, <2>3, <3>1, <3>2 DEF u, v
  <2>7. line(j) * b = line(j + 1) + S * (u * s)
    <3> DEFINE ns == N * s
    <3>1. ns \in Int /\ b = a + ns
      BY <1>1
    <3>2. Y * ns = (Y * s) * N
      BY <2>1
    <3>3. (u * N) * ns = S * (u * s)
      BY <1>2, <2>5
    <3>4. (u * N) * a = (u * a) * N
      BY <2>5
    <3> HIDE DEF ns
    <3> DEFINE un == u * N
    <3>5. un \in Int
      BY <2>5
    <3> HIDE DEF un
    <3>6. (Y + un) * (a + ns) = Y * a + Y * ns + un * a + un * ns
      BY <2>1, <3>1, <3>5
    <3> DEFINE ua == u * a
               ys == Y * s
    <3>7. ua \in Int /\ ys \in Int
      BY <2>1, <2>5
    <3> HIDE DEF ua, ys
    <3>8. (ua + ys) * N = ua * N + ys * N
      BY <3>7
    <3>9. Y * a \in Int /\ ua * N \in Int /\ ys * N \in Int /\ S * (u * s) \in Int
      BY <1>2, <2>1, <2>5, <3>7
    <3>10. line(j) * b = Y * a + ys * N + ua * N + S * (u * s)
      BY <2>4, <3>1, <3>2, <3>3, <3>4, <3>6 DEF un, u, ua, ys
    <3>11. line(j + 1) = Y * a + (ua + ys) * N
      BY <2>4, <2>6 DEF v, ua, ys
    <3> QED
      BY <3>8, <3>9, <3>10, <3>11
  <2>8. Congruent(line(j) * b, line(j + 1), S)
    <3>1. u * s \in Int
      BY <2>5
    <3> QED
      BY <2>7, <3>1 DEF Congruent
  <2>9. line(j) * b \in Int /\ Power(b, j + 1) * b \in Int
    BY <2>1
  <2>10. Congruent(Power(b, j + 1) * b, line(j + 1), S)
    BY <1>2, <2>1, <2>2, <2>8, <2>9, CongruentTransitive
  <2> QED
    BY <2>1, <2>10
<1>6. Nat \subseteq P
  <2> HIDE DEF P
  <2> QED
    BY <1>4, <1>5, AllNumbers
<1>7. N - 1 \in Nat /\ (N - 1) + 1 = N
  OBVIOUS
<1>8. Congruent(Power(b, N), line(N - 1), S)
  BY <1>6, <1>7
<1>9. line(N - 1) = Power(a, N) + S * (Power(a, N - 1) * s)
  <2> DEFINE x == Power(a, N - 1) * s
  <2>1. Power(a, N - 1) \in Int /\ x \in Int
    BY <1>3, <1>7
  <2>2. line(N - 1) = Power(a, N) + (N * x) * N
    BY <1>7
  <2> HIDE DEF x
  <2>3. (N * x) * N = S * x
    BY <1>2, <2>1
  <2> QED
    BY <2>2, <2>3 DEF x
<1>10. Congruent(line(N - 1), Power(a, N), S)
  <2>1. Power(a, N - 1) * s \in Int
    BY <1>3, <1>7
  <2> HIDE DEF line
  <2> QED
    BY <1>9, <2>1 DEF Congruent
<1>11. Power(a, N) \in Int /\ Power(b, N) \in Int /\ line(N - 1) \in Int
  <2>1. N \in Nat
    OBVIOUS
  <2> QED
    BY <1>3, <1>7, <2>1, PowerIs
<1>12. Congruent(Power(b, N), Power(a, N), S)
  <2> HIDE DEF line
  <2> QED
    BY <1>2, <1>8, <1>10, <1>11, CongruentTransitive
<1> QED
  BY <1>12 DEF S

\* The exponent paillierGetRand takes undoes the power of the modulus.
LEMMA RootOfPower ==
    ASSUME NEW k \in KeyPairs, k.p # k.q, NEW r, PrimeToModulus(k, r),
           NEW e \in Inverses(k.p * k.q, Totient(k))
    PROVE  e \in Nat /\ Congruent(Power(Power(r, k.p * k.q), e), r, k.p * k.q)
<1> DEFINE N == k.p * k.q
           t == Totient(k)
<1>1. /\ k.p \in Nat \ {0} /\ k.p > 1 /\ k.q \in Nat \ {0} /\ k.q > 1 /\ N \in Nat /\ N > 2
  BY KeyNumbers DEF IsPrime
<1>2. k.p - 1 \in Nat \ {0} /\ k.q - 1 \in Nat \ {0} /\ t = (k.p - 1) * (k.q - 1)
  BY <1>1 DEF Totient
<1>3. t \in Nat /\ t > 0
  <2> DEFINE a == k.p - 1
             b == k.q - 1
  <2> HIDE DEF a, b
  <2>1. a \in Nat \ {0} /\ b \in Nat \ {0} /\ t = a * b
    BY <1>2 DEF a, b
  <2> HIDE DEF t
  <2> QED
    BY <2>1
<1>4. Divides(k.p - 1, t) /\ Divides(k.q - 1, t)
  <2>1. k.q - 1 \in Int /\ k.p - 1 \in Int /\ (k.p - 1) * (k.q - 1) = (k.q - 1) * (k.p - 1)
    BY <1>1
  <2> HIDE DEF t
  <2> QED
    BY <1>2, <2>1 DEF Divides
<1>5. e \in 1 .. t - 1 /\ (N * e) % t = 1
  BY DEF Inverses
<1>6. r \in Nat /\ r \in Int
  BY DEF PrimeToModulus
<1> DEFINE j == (N * e) \div t
<1> HIDE DEF N, t, j
<1>7. e \in Nat /\ N * e \in Nat
  <2>1. e \in Nat
    BY <1>3, <1>5
  <2> QED
    BY <1>1, <2>1
<1>8. j \in Int /\ N * e = t * j + 1
  <2> DEFINE x == N * e
  <2>1. x \in Int /\ x % t = 1
    BY <1>5, <1>7
  <2> HIDE DEF x
  <2>2. x \div t \in Int /\ x = t * (x \div t) + (x % t)
    BY <1>3, <2>1, Division
  <2> QED
    BY <2>1, <2>2 DEF x, j
<1>9. j \in Nat /\ t * j \in Nat
  <2>1. j >= 0
    <3> SUFFICES ASSUME j <= -1 PROVE FALSE
      BY <1>8
    <3>1. t * j <= t * (-1)
      BY <1>3, <1>8
    <3>2. N * e >= 1 * 1
      BY <1>1, <1>3, <1>5, <1>7
    <3>3. t \in 2 .. t
      BY <1>3, <1>5
    <3> QED
      BY <1>3, <1>8, <3>1, <3>2, <3>3
  <2>2. j \in Nat
    BY <1>8, <2>1
  <2> QED
    BY <1>3, <2>2
<1>10. Power(Power(r, N), e) = Power(Power(r, t), j) * r
  <2>1. Power(Power(r, N), e) = Power(r, N * e)
    BY <1>1, <1>6, <1>7, PowerOfPower
  <2> DEFINE x == t * j
  <2>2. x \in Nat /\ N * e = x + 1
    BY <1>8, <1>9
  <2> HIDE DEF x
  <2>3. Power(r, x + 1) = Power(r, x) * r
    BY <1>6, <2>2, PowerIs
  <2>4. Power(r, x) = Power(Power(r, t), j)
    BY <1>3, <1>6, <1>9, PowerOfPower DEF x
  <2> QED
    BY <2>1, <2>2, <2>3, <2>4
<1>11. Congruent(Power(r, t), 1, N)
  BY <1>3, <1>4, EulerTwoPrimes DEF N
<1>12. Power(r, t) \in Int /\ Power(Power(r, t), j) \in Int
  BY <1>3, <1>6, <1>9, PowerIs
<1>13. Congruent(Power(Power(r, t), j), 1, N)
  <2>1. Congruent(Power(Power(r, t), j), Power(1, j), N)
    BY <1>1, <1>9, <1>11, <1>12, CongruentPowers
  <2> QED
    BY <1>9, <2>1, PowerOfOne
<1>14. Congruent(Power(Power(r, t), j) * r, 1 * r, N)
  <2>1. Congruent(r, r, N) /\ N \in Int
    BY <1>1, <1>6, CongruentSelf
  <2> QED
    BY <1>6, <1>12, <1>13, <2>1, CongruentProducts
<1>15. Congruent(Power(Power(r, N), e), r, N)
  <2>1. 1 * r = r
    BY <1>6
  <2> QED
    BY <1>10, <1>14, <2>1
<1> QED
  BY <1>7, <1>15 DEF N

\* The encryption of zero that paillierGetRand takes the root of: what is left
\* of a ciphertext is the power of its blinding factor.
LEMMA BlindingLeft ==
    ASSUME NEW k \in KeyPairs, NEW c \in Int, NEW M \in Nat, NEW r \in Nat,
           Congruent(c, Power(k.p * k.q + 1, M) * Power(r, k.p * k.q), Square(k.p * k.q))
    PROVE  Congruent(c * (1 - M * (k.p * k.q)), Power(r, k.p * k.q), Square(k.p * k.q))
<1> DEFINE N == k.p * k.q
           S == Square(N)
           g == Power(N + 1, M)
           h == Power(r, N)
           z == M * N
<1>1. N \in Nat /\ N + 1 \in Int /\ S \in Int /\ S = N * N
  BY KeyNumbers DEF Square
<1>2. Congruent(c, g * h, S)
  OBVIOUS
<1>3. Congruent(g, 1 + (M * 1) * N, S)
  <2>1. Congruent(Power(1 + 1 * N, M), 1 + (M * 1) * N, Square(N))
    <3> HIDE DEF N
    <3>1. 1 \in Int
      OBVIOUS
    <3> QED
      BY <1>1, <3>1, PowerIsLine
  <2>2. 1 + 1 * N = N + 1
    BY <1>1
  <2> QED
    BY <2>1, <2>2
<1> HIDE DEF N, S
<1>4. g \in Int /\ h \in Int /\ z \in Int /\ (M * 1) * N = z
  <2>1. r \in Int
    OBVIOUS
  <2>2. g \in Int /\ h \in Int
    BY <1>1, <2>1, PowerIs
  <2>3. z \in Int /\ (M * 1) * N = z
    BY <1>1
  <2> QED
    BY <2>2, <2>3
<1>5. z * z = S * (M * M)
  BY <1>1
<1> HIDE DEF g, h, z
<1>6. Congruent(g, 1 + z, S) /\ 1 + z \in Int /\ 1 - z \in Int
  BY <1>3, <1>4
<1>7. Congruent(g * h, (1 + z) * h, S)
  <2>1. Congruent(h, h, S)
    BY <1>1, <1>4, CongruentSelf
  <2> QED
    BY <1>1, <1>4, <1>6, <2>1, CongruentProducts
<1>8. g * h \in Int /\ (1 + z) * h \in Int
  BY <1>4
<1>9. Congruent(c, (1 + z) * h, S)
  BY <1>1, <1>2, <1>7, <1>8, CongruentTransitive
<1>10. Congruent(c * (1 - z), ((1 + z) * h) * (1 - z), S)
  <2>1. Congruent(1 - z, 1 - z, S)
    BY <1>1, <1>6, CongruentSelf
  <2> QED
    BY <1>1, <1>6, <1>8, <1>9, <2>1, CongruentProducts
<1>11. ((1 + z) * h) * (1 - z) = h + S * (-(M * M) * h) /\ -(M * M) * h \in Int
  <2>1. ((1 + z) * h) * (1 - z) = h - (z * z) * h
    BY <1>4
  <2> DEFINE w == M * M
  <2>2. w \in Int
    OBVIOUS
  <2> HIDE DEF w
  <2>3. h - (S * w) * h = h + S * (-w * h) /\ -w * h \in Int
    BY <1>1, <1>4, <2>2
  <2> QED
    BY <1>5, <2>1, <2>3 DEF w
<1>12. Congruent(((1 + z) * h) * (1 - z), h, S)
  BY <1>11 DEF Congruent
<1>13. c * (1 - z) \in Int /\ ((1 + z) * h) * (1 - z) \in Int
  <2> DEFINE x == (1 + z) * h
             y == 1 - z
  <2>1. x \in Int /\ y \in Int
    BY <1>6, <1>8
  <2> HIDE DEF x, y
  <2>2. c * y \in Int /\ x * y \in Int
    BY <2>1
  <2> QED
    BY <2>2 DEF x, y
<1>14. Congruent(c * (1 - z), h, S)
  BY <1>1, <1>4, <1>10, <1>12, <1>13, CongruentTransitive
<1> QED
  BY <1>14 DEF N, S, h, z

\* paillierGetRand gives the blinding factor, modulo the modulus.
LEMMA RandIs ==
    ASSUME NEW k \in KeyPairs, k.p # k.q, NEW M \in Nat, NEW r \in Nat, PrimeToModulus(k, r),
           NEW ctext, CiphertextFromBytes(ctext) \in Int,
           Plaintext(PrivateKey(k), CiphertextFromBytes(ctext)) = M,
           Congruent(CiphertextFromBytes(ctext),
                     Power(k.p * k.q + 1, M) * Power(r, k.p * k.q), Square(k.p * k.q))
    PROVE  LET found == Import(GetRand(k, ctext)) IN
           /\ found \in Nat /\ Congruent(found, r, k.p * k.q) /\ PrimeToModulus(k, found)
<1> DEFINE N == k.p * k.q
           S == Square(N)
           c == CiphertextFromBytes(ctext)
           I == Inverses(N, Totient(k))
           e == CHOOSE x \in I : TRUE
           y == c * (1 - M * N)
           zero == y % S
           h == Power(r, N)
           found == PowMod(zero, e, N)
<1>1. N \in Nat /\ N > 1 /\ S \in Nat /\ S > 0 /\ S = N * N /\ r \in Int
  BY KeyNumbers DEF Square
<1>2. e \in I
  BY KeyUsable
<1>3. e \in Nat /\ Congruent(Power(h, e), r, N)
  BY <1>2, RootOfPower
<1>4. GetRand(k, ctext) = Export(found)
  <2>1. PrivateKey(k).n = N /\ I # {}
    BY PrivateKeyIs, KeyUsable
  <2> QED
    BY <2>1 DEF GetRand
<1>5. Congruent(y, h, S)
  BY BlindingLeft
<1> HIDE DEF N, S, c, e, I
<1>6. h \in Int /\ y \in Int
  <2>1. h \in Int
    BY <1>1, PowerIs
  <2>2. M * N \in Int /\ c \in Int
    BY <1>1 DEF c
  <2>3. 1 - M * N \in Int
    BY <2>2
  <2> DEFINE x == 1 - M * N
  <2> HIDE DEF x
  <2>4. x \in Int /\ c * x \in Int
    BY <2>2, <2>3 DEF x
  <2> QED
    BY <2>1, <2>4 DEF x
<1> HIDE DEF h, y
<1>7. zero \in Int /\ Congruent(zero, h, S)
  <2>1. zero \in Int /\ Congruent(zero, y, S)
    BY <1>1, <1>6, Division, CongruentModulo
  <2> HIDE DEF zero
  <2> QED
    BY <1>1, <1>5, <1>6, <2>1, CongruentTransitive
<1> HIDE DEF zero
<1>8. Congruent(zero, h, N)
  <2>1. PICK w \in Int : zero = h + S * w
    BY <1>7 DEF Congruent
  <2>2. zero = h + N * (N * w) /\ N * w \in Int
    BY <1>1, <2>1
  <2> QED
    BY <2>2 DEF Congruent
<1>9. found = Power(zero, e) % N /\ Power(zero, e) \in Int /\ Power(h, e) \in Int
  BY <1>1, <1>3, <1>6, <1>7, PowModIs, PowerIs
<1> HIDE DEF found
<1>10. found \in 0 .. N - 1 /\ Congruent(found, Power(zero, e), N)
  BY <1>1, <1>9, Division, CongruentModulo
<1>11. found \in Nat
  BY <1>1, <1>10
<1>12. Congruent(Power(zero, e), Power(h, e), N)
  BY <1>1, <1>3, <1>6, <1>7, <1>8, CongruentPowers
<1>13. Congruent(found, r, N)
  <2>1. Congruent(Power(zero, e), r, N)
    BY <1>1, <1>3, <1>9, <1>12, CongruentTransitive
  <2> QED
    BY <1>1, <1>9, <1>10, <1>11, <2>1, CongruentTransitive
<1>14. Import(Export(found)) = found
  BY <1>11, SizeIs, DigitsImport DEF Export
<1>15. PrimeToModulus(k, found)
  <2>1. PICK w \in Int : found = r + N * w
    BY <1>13 DEF Congruent
  <2>2. ASSUME NEW d \in {k.p, k.q}, Divides(d, found) PROVE Divides(d, r)
    <3>1. d \in Nat /\ k.p \in Nat /\ k.q \in Nat
      BY KeyNumbers
    <3>2. PICK v \in Int : N = d * v
      <4>1. N = k.p * k.q /\ N = k.q * k.p
        BY <3>1 DEF N
      <4> QED
        BY <3>1, <4>1
    <3>3. PICK u \in Int : found = d * u
      BY <2>2 DEF Divides
    <3>4. r = d * (u - v * w) /\ u - v * w \in Int
      <4> DEFINE vw == v * w
      <4>1. vw \in Int /\ (d * v) * w = d * vw
        BY <3>1
      <4> HIDE DEF vw
      <4>2. d * (u - vw) = d * u - d * vw /\ d * u \in Int /\ d * vw \in Int
        BY <3>1, <4>1
      <4>3. found = r + d * vw
        BY <2>1, <3>2, <4>1
      <4> QED
        BY <3>3, <4>1, <4>2, <4>3 DEF vw
    <3> QED
      BY <3>4 DEF Divides
  <2>3. ~Divides(k.p, found) /\ ~Divides(k.q, found)
    BY <2>2 DEF PrimeToModulus
  <2>4. found # 0
    <3> SUFFICES ASSUME found = 0 PROVE FALSE
      OBVIOUS
    <3>1. k.p \in Nat /\ found = k.p * 0
      BY KeyNumbers
    <3> QED
      BY <2>3, <3>1 DEF Divides
  <2> QED
    BY <1>11, <2>3, <2>4 DEF PrimeToModulus
<1> QED
  BY <1>4, <1>11, <1>13, <1>14, <1>15 DEF N

\* Encrypting a number again with the factor paillierGetRand found gives the
\* ciphertext it was found in.
LEMMA RandEncrypts ==
    ASSUME NEW k \in KeyPairs, k.p # k.q, NEW x \in Long, NEW ctext,
           LET c == CiphertextFromBytes(ctext) IN
               /\ c \in 0 .. Square(k.p * k.q) - 1 /\ c \in Int /\ ctext = CiphertextToBytes(c)
               /\ Carries(k, c, PlaintextFromLong(x))
               /\ Plaintext(PrivateKey(k), c) = PlaintextFromLong(x)
    PROVE  LET found == Import(GetRand(k, ctext)) IN
           found \in Nat /\ PrimeToModulus(k, found) /\ Enc(k.p * k.q, x, found) = ctext
<1> DEFINE N == k.p * k.q
           S == Square(N)
           c == CiphertextFromBytes(ctext)
           M == PlaintextFromLong(x)
           found == Import(GetRand(k, ctext))
           d == CiphertextFromBytes(Enc(N, x, found))
           g == Power(N + 1, M)
           h == Power(found, N)
<1>1. N \in Nat \ {0} /\ N + 1 \in Int /\ S \in Nat /\ S > 0 /\ M \in Nat
  BY KeyNumbers, LongRestored
<1>2. PICK r \in Nat : PrimeToModulus(k, r) /\ Congruent(c, Power(N + 1, M) * Power(r, N), S)
  BY DEF Carries
<1>3. found \in Nat /\ Congruent(found, r, N) /\ PrimeToModulus(k, found)
  BY <1>1, <1>2, RandIs
<1> DEFINE b == Power(r, N)
<1>4. c \in 0 .. S - 1 /\ c \in Int /\ ctext = CiphertextToBytes(c)
  OBVIOUS
<1>5. d \in 0 .. S - 1 /\ Enc(N, x, found) = CiphertextToBytes(d) /\ Congruent(d, g * h, S)
  BY <1>3, EncryptionIs
<1>6. Congruent(h, b, S)
  BY <1>1, <1>3, BlindingModulo
<1>7. g \in Int /\ h \in Int /\ b \in Int
  <2>1. r \in Int /\ found \in Int /\ N \in Nat
    BY <1>1, <1>3
  <2> HIDE DEF N, M, found
  <2> QED
    BY <1>1, <2>1, PowerIs
<1>8. Congruent(c, g * b, S)
  BY <1>2
<1> HIDE DEF N, S, c, M, found, d, g, h, b
<1>9. d \in Int /\ g * h \in Int /\ g * b \in Int
  BY <1>1, <1>5, <1>7
<1>10. Congruent(g * h, g * b, S)
  <2>1. Congruent(g, g, S)
    BY <1>1, <1>7, CongruentSelf
  <2> QED
    BY <1>1, <1>6, <1>7, <2>1, CongruentProducts
<1>11. Congruent(d, g * b, S)
  BY <1>1, <1>5, <1>9, <1>10, CongruentTransitive
<1>12. d % S = (g * b) % S /\ c % S = (g * b) % S
  BY <1>1, <1>4, <1>8, <1>9, <1>11, CongruentIff
<1>13. d % S = d /\ c % S = c
  <2>1. d \in Nat /\ d < S /\ c \in Nat /\ c < S
    BY <1>1, <1>4, <1>5
  <2> QED
    BY <1>1, <2>1, NoQuotient
<1> QED
  BY <1>3, <1>4, <1>5, <1>12, <1>13 DEF N, found

-----------------------------------------------------------------------------
(* Types. *)

LEMMA PlaintextTyped ==
    ASSUME NEW k \in KeyPairs, NEW c \in Int
    PROVE  Plaintext(PrivateKey(k), c) \in Nat
<1> DEFINE N == k.p * k.q
           S == Square(N)
           u == PowMod(c, Lambda(k.p, k.q), S)
           x == PrivateKey(k).x
           v == (u - 1) \div N
<1>1. N \in Nat /\ N > 0 /\ S \in Nat /\ S > 1 /\ S > 0 /\ Lambda(k.p, k.q) \in Nat /\ x \in Int
  BY KeyNumbers, PrivateKeyIs
<1>2. Plaintext(PrivateKey(k), c) = (v * x) % N
  BY PrivateKeyIs DEF Plaintext
<1> HIDE DEF N, S, x
<1>3. u \in Int
  <2>1. u = Power(c, Lambda(k.p, k.q)) % S /\ Power(c, Lambda(k.p, k.q)) \in Int
    BY <1>1, PowModIs, PowerIs
  <2> HIDE DEF u
  <2> QED
    BY <1>1, <2>1, Division
<1> HIDE DEF u
<1>4. v \in Int
  <2>1. u - 1 \in Int
    BY <1>3
  <2> QED
    BY <1>1, <2>1, Division
<1> HIDE DEF v
<1> DEFINE y == v * x
<1>5. y \in Int
  BY <1>1, <1>4
<1> HIDE DEF y
<1>6. y % N \in 0 .. N - 1
  BY <1>1, <1>5, Division
<1> QED
  BY <1>1, <1>2, <1>6 DEF y

\* A recovered blinding factor is a string of bytes, for any ciphertext.
LEMMA RandTyped ==
    ASSUME NEW k \in KeyPairs, NEW ctext, CiphertextFromBytes(ctext) \in Int
    PROVE  GetRand(k, ctext) \in Seq(Byte)
<1> DEFINE N == k.p * k.q
           S == Square(N)
           c == CiphertextFromBytes(ctext)
           M == Plaintext(PrivateKey(k), c)
           I == Inverses(N, Totient(k))
           e == CHOOSE x \in I : TRUE
           y == c * (1 - M * N)
           zero == y % S
           found == PowMod(zero, e, N)
<1>1. N \in Nat /\ N > 1 /\ S \in Nat /\ S > 0 /\ c \in Int /\ M \in Nat
  BY KeyNumbers, PlaintextTyped
<1>2. e \in I
  BY KeyUsable
<1>3. e \in Nat
  <2>1. e \in 1 .. Totient(k) - 1 /\ Totient(k) \in Int
    <3>1. k.p \in Nat /\ k.q \in Nat
      BY KeyNumbers
    <3> HIDE DEF e
    <3> QED
      BY <1>2, <3>1 DEF Inverses, Totient
  <2> HIDE DEF e
  <2> QED
    BY <2>1
<1>4. GetRand(k, ctext) = Export(found)
  <2>1. PrivateKey(k).n = N /\ I # {}
    BY PrivateKeyIs, KeyUsable
  <2> QED
    BY <2>1 DEF GetRand
<1> HIDE DEF N, S, c, M, e, I
<1>5. y \in Int
  <2> DEFINE z == 1 - M * N
  <2>1. z \in Int
    BY <1>1
  <2> HIDE DEF z
  <2>2. c * z \in Int
    BY <1>1, <2>1
  <2> QED
    BY <2>2 DEF z
<1> HIDE DEF y
<1>6. zero \in Int
  BY <1>1, <1>5, Division
<1> HIDE DEF zero
<1>7. found \in Nat
  <2>1. found = Power(zero, e) % N /\ Power(zero, e) \in Int
    BY <1>1, <1>3, <1>6, PowModIs, PowerIs
  <2> HIDE DEF found
  <2>2. found \in 0 .. N - 1
    BY <1>1, <2>1, Division
  <2> QED
    BY <1>1, <2>2
<1> QED
  BY <1>4, <1>7, SizeIs, DigitsTyped DEF Export

-----------------------------------------------------------------------------
(* The specification. *)

\* A ballot as Client::castBallot makes it, and one that castBallot lets through.
Encrypted(k, b) == b \in Ballot /\ b.ctext = Enc(k.p * k.q, b.choice, b.blind)
LetThrough(k, b) == Dec(PrivateKey(k), b.ctext) \in {0, 1}

\* A row of TALLY_ENTRIES for the first ballots that are stored.
RowOf(k, s, t) ==
    /\ t.count \in 1 .. Len(s)
    /\ t.encrypted = Sum(k.p * k.q, Texts(s, t.count))
    /\ t.decrypted = Dec(PrivateKey(k), t.encrypted)
    /\ t.r = GetRand(k, t.encrypted)

KeyInv == key \in KeyPairs \cup {None}

SentInv == sent # None => key # None /\ Encrypted(key, sent) /\ Len(stored) < MaxBallots

StoredInv ==
    /\ stored \in Seq(Ballot) /\ Len(stored) <= MaxBallots
    /\ \A i \in 1 .. Len(stored) :
          key # None /\ Encrypted(key, stored[i]) /\ LetThrough(key, stored[i])

TallyInv == tally # None => RowOf(key, stored, tally)

CryptoInv == KeyInv /\ SentInv /\ StoredInv /\ TallyInv

\* Before a key is made.
LEMMA CryptoStarts == Init => CryptoInv
<1> SUFFICES ASSUME Init PROVE CryptoInv
  OBVIOUS
<1>1. stored = <<>> /\ Len(stored) = 0 /\ MaxBallots \in Nat
  BY TallyAssumption DEF Init
<1> QED
  BY <1>1 DEF Init, CryptoInv, KeyInv, SentInv, StoredInv, TallyInv

\* Every step keeps it; each case is an action.
LEMMA CryptoSteps == CryptoInv /\ [Next]_vars => CryptoInv'
<1> SUFFICES ASSUME CryptoInv, [Next]_vars PROVE CryptoInv'
  OBVIOUS
<1> USE DEF CryptoInv
<1>1. CASE Keygen
  <2>1. Len(stored) = 0 /\ MaxBallots \in Nat /\ stored = <<>>
    <3>1. Len(stored) \in Nat /\ MaxBallots \in Nat
      BY TallyAssumption DEF StoredInv
    <3>2. ~(1 \in 1 .. Len(stored))
      BY <1>1, Zenon DEF Keygen, StoredInv
    <3> QED
      BY <3>1, <3>2 DEF StoredInv
  <2>2. tally = None
    BY <2>1 DEF TallyInv, RowOf
  <2>3. sent = None
    BY <1>1 DEF Keygen, SentInv
  <2> QED
    BY <1>1, <2>1, <2>2, <2>3 DEF Keygen, KeyInv, SentInv, StoredInv, TallyInv
<1>2. ASSUME NEW choice \in Votes, NEW blind \in Blinds, CastBallot(choice, blind)
      PROVE  CryptoInv'
  <2>1. key \in KeyPairs /\ key # None
    BY <1>2 DEF CastBallot, KeyInv
  <2>2. Encrypted(key, sent')
    <3> DEFINE c == Enc(key.p * key.q, choice, blind)
    <3>1. c \in [1 .. CipherLen -> Byte]
      BY <2>1, EncryptionIs, TallyAssumption
    <3>2. sent' = [choice |-> choice, blind |-> blind, ctext |-> c]
      BY <1>2 DEF CastBallot, n
    <3> HIDE DEF c
    <3>3. sent' \in Ballot /\ sent'.choice = choice /\ sent'.blind = blind /\ sent'.ctext = c
      BY <3>1, <3>2 DEF Ballot
    <3> QED
      BY <3>3 DEF Encrypted, c
  <2>3. UNCHANGED <<key, stored, tally>> /\ Len(stored) < MaxBallots
    BY <1>2 DEF CastBallot
  <2> QED
    BY <2>1, <2>2, <2>3 DEF KeyInv, SentInv, StoredInv, TallyInv
<1>3. CASE Store
  <2>1. /\ sent # None /\ stored' = Append(stored, sent) /\ sent' = None
        /\ UNCHANGED <<key, tally>> /\ LetThrough(key, sent)
    BY <1>3 DEF Store, Valid, LetThrough
  <2>2. /\ key # None /\ Encrypted(key, sent) /\ sent \in Ballot
        /\ Len(stored) < MaxBallots /\ stored \in Seq(Ballot) /\ MaxBallots \in Nat
    BY <2>1, TallyAssumption DEF SentInv, StoredInv, Encrypted
  <2>3. /\ stored' \in Seq(Ballot) /\ Len(stored') = Len(stored) + 1 /\ Len(stored) \in Nat
        /\ \A i \in 1 .. Len(stored) : stored'[i] = stored[i]
        /\ stored'[Len(stored) + 1] = sent
    BY <2>1, <2>2
  <2>4. StoredInv'
    <3>1. ASSUME NEW i \in 1 .. Len(stored')
          PROVE  key # None /\ Encrypted(key, stored'[i]) /\ LetThrough(key, stored'[i])
      <4>1. i \in 1 .. Len(stored) \/ i = Len(stored) + 1
        BY <2>3
      <4> QED
        BY <2>1, <2>2, <2>3, <4>1 DEF StoredInv
    <3> QED
      BY <2>1, <2>2, <2>3, <3>1 DEF StoredInv
  <2>5. TallyInv'
    <3> SUFFICES ASSUME tally # None PROVE RowOf(key, stored', tally)
      BY <2>1 DEF TallyInv
    <3>1. RowOf(key, stored, tally)
      BY DEF TallyInv
    <3>2. tally.count \in 1 .. Len(stored) /\ tally.count \in 1 .. Len(stored')
      BY <2>3, <3>1 DEF RowOf
    <3>3. \A i \in 1 .. tally.count : stored'[i] = stored[i]
      BY <2>3, <3>2
    <3>4. Texts(stored', tally.count) = Texts(stored, tally.count)
      BY <3>3 DEF Texts
    <3> QED
      BY <3>1, <3>2, <3>4 DEF RowOf
  <2> QED
    BY <2>1, <2>4, <2>5 DEF KeyInv, SentInv
<1>4. CASE Refuse
  BY <1>4 DEF Refuse, KeyInv, SentInv, StoredInv, TallyInv
<1>5. CASE GenerateTally
  <2> DEFINE count == Len(stored)
             sum == Sum(key.p * key.q, Texts(stored, count))
  <2>1. count \in 1 .. Len(stored) /\ DOMAIN stored = 1 .. count
    <3>1. stored \in Seq(Ballot) /\ stored # <<>>
      BY <1>5 DEF GenerateTally, StoredInv
    <3> QED
      BY <3>1
  <2>2. [i \in DOMAIN stored |-> stored[i].ctext] = Texts(stored, count)
    BY <2>1 DEF Texts
  <2>3. /\ tally' = [count |-> count, encrypted |-> sum,
                     decrypted |-> Dec(PrivateKey(key), sum), r |-> GetRand(key, sum)]
        /\ UNCHANGED <<key, sent, stored>>
    BY <1>5, <2>2 DEF GenerateTally, n
  <2> HIDE DEF sum
  <2>4. RowOf(key, stored, tally')
    BY <2>1, <2>3 DEF RowOf, sum
  <2> QED
    BY <2>3, <2>4 DEF KeyInv, SentInv, StoredInv, TallyInv
<1>6. CASE NextElection
  <2>1. sent' = None /\ tally' = None /\ key' = key /\ stored' = <<>>
    BY <1>6 DEF NextElection
  <2>2. Len(<<>>) = 0 /\ MaxBallots \in Nat
    BY TallyAssumption
  <2> QED
    BY <2>1, <2>2 DEF KeyInv, SentInv, StoredInv, TallyInv
<1>7. CASE UNCHANGED vars
  BY <1>7 DEF vars, KeyInv, SentInv, StoredInv, TallyInv
<1> QED
  BY <1>1, <1>2, <1>3, <1>4, <1>5, <1>6, <1>7 DEF Next

\* The key is one that paillier_keygen lets out; every ciphertext on its way or
\* stored is what paillierEnc made of its ballot's choice and blinding factor
\* under that key, and every stored one was let through by castBallot; a tally
\* is made of the first ballots of the table as generateTally makes it.
THEOREM CryptoInductive == Spec => []CryptoInv
  BY CryptoStarts, CryptoSteps, PTL DEF Spec

\* A key that is in use can decrypt and gives back blinding factors, for keys
\* of any length: KeysUsable.
THEOREM KeysAlwaysUsable == Spec => []KeysUsable
<1>1. CryptoInv => KeysUsable
  BY KeyUsable DEF KeysUsable, n, CryptoInv, KeyInv
<1> QED
  BY <1>1, CryptoInductive, PTL

\* A blinding factor that shares nothing with the modulus.
LEMMA SoundBlind ==
    ASSUME NEW k \in KeyPairs, NEW r \in Nat, Coprime(r, k.p * k.q)
    PROVE  PrimeToModulus(k, r)
<1> DEFINE N == k.p * k.q
<1>1. /\ k.p \in Nat /\ k.p > 1 /\ k.q \in Nat /\ k.q > 1 /\ N \in Nat /\ N > 2
  BY KeyNumbers DEF IsPrime
<1>2. k.p <= N /\ k.q <= N
  <2>1. k.p * 1 <= k.p * k.q /\ 1 * k.q <= k.p * k.q
    BY <1>1
  <2> QED
    BY <1>1, <2>1
<1>3. Divides(k.p, N) /\ Divides(k.q, N)
  <2>1. N = k.p * k.q /\ N = k.q * k.p
    BY <1>1
  <2> HIDE DEF N
  <2> QED
    BY <1>1, <2>1 DEF Divides
<1>4. \A d \in 2 .. N : ~(r % d = 0 /\ N % d = 0)
  BY DEF Coprime
<1> HIDE DEF N
<1>5. r # 0
  <2>1. 0 % N = 0 /\ N % N = 0
    <3>1. 0 = N * 0 + 0 /\ N = N * 1 + 0 /\ 0 \in 0 .. N - 1
      BY <1>1
    <3> QED
      BY <1>1, <3>1, OneRemainder
  <2>2. N \in 2 .. N
    BY <1>1
  <2> QED
    BY <1>4, <2>1, <2>2
<1>6. ASSUME NEW d \in {k.p, k.q} PROVE ~Divides(d, r)
  <2>1. d \in 2 .. N /\ d \in Nat /\ d > 0 /\ N % d = 0
    BY <1>1, <1>2, <1>3, DividesIff
  <2> QED
    BY <1>4, <2>1, DividesIff
<1> QED
  BY <1>5, <1>6 DEF PrimeToModulus

\* What castBallot reads is what the voter chose.
LEMMA ReadsBack ==
    ASSUME NEW k \in KeyPairs, k.p # k.q, NEW b, Encrypted(k, b), Coprime(b.blind, k.p * k.q)
    PROVE  /\ Dec(PrivateKey(k), b.ctext) = b.choice
           /\ b.choice \in Long /\ b.blind \in Nat /\ PrimeToModulus(k, b.blind)
<1>1. b.choice \in Long /\ b.blind \in Nat /\ b.ctext = Enc(k.p * k.q, b.choice, b.blind)
  BY TallyAssumption DEF Encrypted, Ballot
<1>2. PrimeToModulus(k, b.blind)
  BY <1>1, SoundBlind
<1> QED
  BY <1>1, <1>2, DecryptedIs

\* castBallot stores exactly the ballots with a zero or a one, whatever keys
\* were made: ChoicesReadBack.
THEOREM ChoicesAlwaysReadBack == Spec => []ChoicesReadBack
<1>1. CryptoInv => ChoicesReadBack
  <2> SUFFICES ASSUME CryptoInv, sent # None, Sound({sent})
               PROVE  Valid(sent.ctext) <=> sent.choice \in {0, 1}
    BY DEF ChoicesReadBack
  <2>1. key \in KeyPairs /\ Encrypted(key, sent)
    BY DEF CryptoInv, KeyInv, SentInv
  <2>2. key.p # key.q /\ Coprime(sent.blind, key.p * key.q)
    BY DEF Sound, n
  <2>3. Dec(PrivateKey(key), sent.ctext) = sent.choice
    BY <2>1, <2>2, ReadsBack
  <2> QED
    BY <2>3 DEF Valid
<1> QED
  BY <1>1, CryptoInductive, PTL

\* The ballots of a sound tally are honest.
LEMMA CountedHonest ==
    ASSUME CryptoInv, tally # None, Sound(Counted)
    PROVE  /\ key \in KeyPairs /\ key.p # key.q /\ tally.count \in 1 .. MaxBallots
           /\ RowOf(key, stored, tally)
           /\ \A i \in 1 .. tally.count :
                Honest(key, stored[i]) /\ PrimeToModulus(key, stored[i].blind)
<1>1. RowOf(key, stored, tally)
  BY DEF CryptoInv, TallyInv
<1>2. tally.count \in 1 .. Len(stored) /\ Len(stored) \in Nat /\ Len(stored) <= MaxBallots
  BY <1>1 DEF RowOf, CryptoInv, StoredInv
<1>3. tally.count \in 1 .. MaxBallots /\ \A i \in 1 .. tally.count : i \in 1 .. Len(stored)
  BY <1>2, TallyAssumption
<1>4. key \in KeyPairs /\ key.p # key.q
  BY <1>2, <1>3 DEF CryptoInv, KeyInv, StoredInv, Sound
<1>5. ASSUME NEW i \in 1 .. tally.count
      PROVE  Honest(key, stored[i]) /\ PrimeToModulus(key, stored[i].blind)
  <2>1. Encrypted(key, stored[i]) /\ LetThrough(key, stored[i])
    BY <1>3 DEF CryptoInv, StoredInv
  <2>2. Coprime(stored[i].blind, key.p * key.q)
    BY DEF Sound, Counted, n
  <2>3. /\ Dec(PrivateKey(key), stored[i].ctext) = stored[i].choice
        /\ stored[i].blind \in Nat /\ PrimeToModulus(key, stored[i].blind)
    BY <1>4, <2>1, <2>2, ReadsBack
  <2> QED
    BY <2>1, <2>3 DEF Honest, Encrypted, LetThrough
<1> QED
  BY <1>1, <1>3, <1>4, <1>5

\* The product of a sound tally, decrypted.
LEMMA TallyModulo ==
    ASSUME CryptoInv, tally # None, Sound(Counted)
    PROVE  tally.decrypted = Total % Base
<1> DEFINE count == tally.count
           t == Ones(stored, count)
<1>1. /\ key \in KeyPairs /\ key.p # key.q /\ count \in 1 .. MaxBallots
      /\ RowOf(key, stored, tally)
      /\ \A i \in 1 .. count : Honest(key, stored[i]) /\ PrimeToModulus(key, stored[i].blind)
  BY CountedHonest
<1>2. Total = t
  BY DEF Total, Ones
<1>3. /\ Plaintext(PrivateKey(key), CiphertextFromBytes(tally.encrypted))
           = t * Place[LongLen - 1]
      /\ t \in 0 .. MaxBallots
  BY <1>1, SumPlaintext DEF RowOf
<1> HIDE DEF t
<1>4. t \in Nat
  BY <1>3, TallyAssumption
<1> QED
  BY <1>1, <1>2, <1>3, <1>4, SwappedSum DEF RowOf, Dec

\* The published value is the number of ones modulo what a byte holds:
\* DecryptedModuloByte.
THEOREM TallyIsModuloByte == Spec => []DecryptedModuloByte
<1>1. CryptoInv => DecryptedModuloByte
  BY TallyModulo DEF DecryptedModuloByte
<1> QED
  BY <1>1, CryptoInductive, PTL

\* While the sum is below what a byte holds, what is published encrypts to the
\* published ciphertext, and the client's audit says whether it is one:
\* RandReproduces.
THEOREM RandAlwaysReproduces == Spec => []RandReproduces
<1>1. CryptoInv => RandReproduces
  <2> SUFFICES ASSUME CryptoInv, tally # None, Sound(Counted), Total < Base
               PROVE  /\ Enc(n, tally.decrypted, Import(tally.r)) = tally.encrypted
                      /\ VerifyTallyDecryption(tally.decrypted, tally.encrypted, tally.r)
                            <=> Total = 1
    BY DEF RandReproduces
  <2> DEFINE count == tally.count
             t == Ones(stored, count)
             sum == tally.encrypted
             c == CiphertextFromBytes(sum)
             r == Import(tally.r)
  <2>1. /\ key \in KeyPairs /\ key.p # key.q /\ count \in 1 .. MaxBallots
        /\ RowOf(key, stored, tally)
        /\ \A i \in 1 .. count : Honest(key, stored[i]) /\ PrimeToModulus(key, stored[i].blind)
    BY CountedHonest
  <2>2. Total = t /\ count \in Nat
    <3>1. count \in Nat
      BY <2>1, TallyAssumption
    <3> QED
      BY <3>1 DEF Total, Ones
  <2>3. t \in Nat /\ t < Base
    BY <2>2, OnesIs
  <2>4. t \in Long /\ PlaintextFromLong(t) = t * Place[LongLen - 1]
    BY <2>3, SwappedChoice
  <2>5. sum = Sum(key.p * key.q, Texts(stored, count)) /\ tally.r = GetRand(key, sum)
    BY <2>1 DEF RowOf
  <2>6. Plaintext(PrivateKey(key), c) = PlaintextFromLong(t)
    BY <2>1, <2>4, <2>5, SumPlaintext
  <2>7. Carries(key, c, PlaintextFromLong(t))
    BY <2>1, <2>2, <2>4, <2>5, SumCarries
  <2>8. c \in 0 .. Square(key.p * key.q) - 1 /\ c \in Int /\ sum = CiphertextToBytes(c)
    <3>1. ASSUME NEW i \in 1 .. count PROVE CiphertextFromBytes(stored[i].ctext) \in Int
      <4>1. Honest(key, stored[i])
        BY <2>1
      <4> QED
        BY <2>1, <4>1, HonestText
    <3> QED
      BY <2>1, <2>2, <2>5, <3>1, SumIs
  <2> HIDE DEF t, sum, c
  <2>9. r \in Nat /\ PrimeToModulus(key, r) /\ Enc(key.p * key.q, t, r) = sum
    BY <2>1, <2>4, <2>5, <2>6, <2>7, <2>8, RandEncrypts DEF c
  <2>10. tally.decrypted = t
    <3>1. tally.decrypted = t % Base
      BY <2>1, <2>2, TallyModulo
    <3> QED
      BY <2>3, <3>1, NoQuotient, PaillierAssumption
  <2>11. Enc(key.p * key.q, 1, r) = sum <=> t = 1
    <3>1. 1 \in Long
      BY SwappedChoice, PaillierAssumption
    <3>2. /\ Dec(PrivateKey(key), Enc(key.p * key.q, 1, r)) = 1
          /\ Dec(PrivateKey(key), Enc(key.p * key.q, t, r)) = t
      BY <2>1, <2>4, <2>9, <3>1, DecryptedIs
    <3> QED
      BY <2>9, <3>2
  <2> QED
    BY <2>2, <2>9, <2>10, <2>11 DEF n, VerifyTallyDecryption, sum
<1> QED
  BY <1>1, CryptoInductive, PTL

\* What is stored and published are ciphertexts of full length, longs and
\* bytes, whatever the blinding factors are: TypeOK.
THEOREM CryptoTyped == Spec => []TypeOK
<1>1. CryptoInv => TypeOK
  <2> SUFFICES ASSUME CryptoInv PROVE TypeOK
    OBVIOUS
  <2>1. key \in KeyPairs \cup {None} /\ sent \in Ballot \cup {None} /\ stored \in Seq(Ballot)
    BY DEF CryptoInv, KeyInv, SentInv, StoredInv, Encrypted
  <2>2. ASSUME tally # None
        PROVE  /\ tally.count \in 1 .. Len(stored)
               /\ tally.encrypted \in [1 .. CipherLen -> Byte]
               /\ tally.decrypted \in Long
               /\ tally.r \in Seq(Byte)
    <3> DEFINE sum == tally.encrypted
               c == CiphertextFromBytes(sum)
    <3>1. RowOf(key, stored, tally)
      BY <2>2 DEF CryptoInv, TallyInv
    <3>2. tally.count \in Nat /\ \A i \in 1 .. tally.count : i \in 1 .. Len(stored)
      <4>1. Len(stored) \in Nat /\ tally.count \in 1 .. Len(stored)
        BY <2>1, <3>1 DEF RowOf
      <4> QED
        BY <4>1
    <3>3. key \in KeyPairs
      <4>1. 1 \in 1 .. Len(stored)
        BY <2>1, <3>1 DEF RowOf
      <4> QED
        BY <2>1, <4>1 DEF CryptoInv, StoredInv
    <3>4. ASSUME NEW i \in 1 .. tally.count PROVE CiphertextFromBytes(stored[i].ctext) \in Int
      <4> DEFINE b == stored[i]
                 S == Square(key.p * key.q)
      <4>1. Encrypted(key, b)
        BY <3>2 DEF CryptoInv, StoredInv
      <4>2. b.choice \in Long /\ b.blind \in Nat /\ b.ctext = Enc(key.p * key.q, b.choice, b.blind)
        BY <4>1, TallyAssumption DEF Encrypted, Ballot
      <4> HIDE DEF b
      <4>3. CiphertextFromBytes(b.ctext) \in 0 .. S - 1 /\ S \in Nat
        BY <3>3, <4>2, EncryptionIs, KeyNumbers
      <4> HIDE DEF S
      <4> QED
        BY <4>3 DEF b
    <3>5. sum \in [1 .. CipherLen -> Byte] /\ c \in Int
      BY <3>1, <3>2, <3>3, <3>4, SumIs DEF RowOf
    <3> HIDE DEF sum, c
    <3>6. tally.decrypted = FromMemory(PlaintextToBytes(LongLen, Plaintext(PrivateKey(key), c)))
      BY <3>1 DEF RowOf, Dec, c, sum
    <3>7. tally.decrypted \in Long
      BY <3>3, <3>5, <3>6, PlaintextTyped, BytesToLong
    <3>8. tally.r \in Seq(Byte)
      BY <3>1, <3>3, <3>5, RandTyped DEF RowOf, c, sum
    <3> QED
      BY <3>1, <3>5, <3>7, <3>8 DEF RowOf, sum
  <2> QED
    BY <2>1, <2>2 DEF TypeOK
<1> QED
  BY <1>1, CryptoInductive, PTL
=============================================================================
