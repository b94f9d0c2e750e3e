----------------------------- MODULE Wire_proofs -----------------------------
(***************************************************************************)
(* What goes through the vectors of Encoding.cpp, for messages of any      *)
(* length and wherever the vectors are moved: every outcome of a decoding  *)
(* callback holds what the message held, in its order.  Rows are written   *)
(* in the order of their ids.                                              *)
(*                                                                         *)
(* What is proved by induction is proved by taking a least counterexample. *)
(***************************************************************************)
EXTENDS Wire, FiniteSetTheorems, FunctionTheorems, SequenceTheorems, WellFoundedInduction, TLAPS

-----------------------------------------------------------------------------
(* Induction. *)

\* A set of numbers has a least one.
LEMMA LeastExists ==
    ASSUME NEW T \in SUBSET Nat, T # {}
    PROVE  \E x \in T : \A y \in T : x <= y
<1>1. PICK x \in T : \A y \in T : ~(<<y, x>> \in OpToRel(<, Nat))
  BY NatLessThanWellFounded, WFMin
<1>2. \A y \in T : ~(y < x)
  BY <1>1 DEF OpToRel
<1> QED
  BY <1>2

\* What holds at 0 and goes from each number to the next holds up to n.
LEMMA Upwards ==
    ASSUME NEW n \in Nat, NEW P, 0 \in P, \A i \in 1 .. n : i - 1 \in P => i \in P
    PROVE  \A i \in 0 .. n : i \in P
<1> SUFFICES ASSUME NEW z \in 0 .. n, z \notin P
             PROVE  FALSE
  OBVIOUS
<1> DEFINE T == {i \in 0 .. n : i \notin P}
<1>1. T \in SUBSET Nat /\ T # {}
  OBVIOUS
<1>2. PICK x \in T : \A y \in T : x <= y
  BY <1>1, LeastExists
<1>3. x \in 1 .. n /\ x - 1 \in 0 .. n /\ ~(x <= x - 1)
  BY <1>2
<1>4. x - 1 \in P
  BY <1>2, <1>3
<1> QED
  BY <1>3, <1>4

\* A finite set of numbers has a greatest one: otherwise take the largest of
\* its subsets that have, and add an element.
LEMMA GreatestExists ==
    ASSUME NEW T \in SUBSET Nat, IsFiniteSet(T), T # {}
    PROVE  \E x \in T : \A y \in T : y <= x
<1> DEFINE Topped(U) == \E x \in U : \A y \in U : y <= x
           Sizes == {k \in Nat : \E U \in SUBSET T :
                        Topped(U) /\ k = Cardinality(T) - Cardinality(U)}
<1>1. \A U \in SUBSET T : /\ IsFiniteSet(U) /\ Cardinality(U) \in Nat
                          /\ Cardinality(T) - Cardinality(U) \in Nat
  <2> TAKE U \in SUBSET T
  <2>1. IsFiniteSet(U) /\ Cardinality(U) <= Cardinality(T)
    BY FS_Subset
  <2>2. Cardinality(U) \in Nat /\ Cardinality(T) \in Nat
    BY <2>1, FS_CardinalityType
  <2> QED
    BY <2>1, <2>2
<1>2. PICK e \in T : TRUE
  OBVIOUS
<1>3. Topped({e}) /\ {e} \in SUBSET T
  OBVIOUS
<1>4. Cardinality(T) - Cardinality({e}) \in Sizes
  BY <1>1, <1>3
<1>5. PICK k \in Sizes : \A j \in Sizes : k <= j
  BY <1>4, LeastExists
<1>6. PICK U \in SUBSET T : Topped(U) /\ k = Cardinality(T) - Cardinality(U)
  OBVIOUS
<1>7. CASE U = T
  BY <1>6, <1>7
<1>8. CASE U # T
  <2>1. PICK z \in T : z \notin U
    BY <1>8
  <2>2. /\ U \cup {z} \in SUBSET T
        /\ Cardinality(U \cup {z}) = Cardinality(U) + 1
    BY <1>1, <2>1, FS_AddElement
  <2>3. Topped(U \cup {z})
    <3>1. PICK x \in U : \A y \in U : y <= x
      BY <1>6
    <3>2. CASE z <= x
      BY <3>1, <3>2
    <3>3. CASE ~(z <= x)
      <4>1. \A y \in U \cup {z} : y <= z
        BY <3>1, <3>3
      <4> QED
        BY <4>1
    <3> QED
      BY <3>2, <3>3
  <2>4. Cardinality(T) - Cardinality(U \cup {z}) \in Sizes
    BY <1>1, <2>2, <2>3
  <2>5. Cardinality(T) - Cardinality(U \cup {z}) < k
    BY <1>1, <1>6, <2>2
  <2> QED
    BY <1>1, <1>5, <2>2, <2>4, <2>5
<1> QED
  BY <1>7, <1>8

-----------------------------------------------------------------------------
(* Rows in the order of their ids. *)

IsAscending(s, T) ==
    /\ s \in [1 .. Cardinality(T) -> T]
    /\ \A i, j \in DOMAIN s : i < j => s[i] < s[j]

\* One more number above all others goes to the end.
LEMMA AscendingExtends ==
    ASSUME NEW T \in SUBSET Nat, IsFiniteSet(T), NEW m \in T, \A y \in T : y <= m,
           NEW r, IsAscending(r, T \ {m})
    PROVE  \E s : IsAscending(s, T)
<1> DEFINE k == Cardinality(T)
           s == [i \in 1 .. k |-> IF i = k THEN m ELSE r[i]]
<1>1. k \in Nat \ {0} /\ Cardinality(T \ {m}) = k - 1
  BY FS_CardinalityType, FS_EmptySet, FS_RemoveElement
<1> HIDE DEF k
<1>2. r \in [1 .. k - 1 -> T \ {m}] /\ \A i, j \in 1 .. k - 1 : i < j => r[i] < r[j]
  BY <1>1 DEF IsAscending
<1>3. ASSUME NEW i \in 1 .. k - 1
      PROVE  r[i] \in T /\ r[i] < m
  <2>1. r[i] \in T /\ r[i] # m
    BY <1>2
  <2>2. r[i] \in Nat /\ m \in Nat /\ r[i] <= m
    BY <2>1
  <2> QED
    BY <2>1, <2>2
<1>4. \A i \in 1 .. k : i = k \/ i \in 1 .. k - 1
  BY <1>1
<1>5. s \in [1 .. k -> T]
  BY <1>3, <1>4
<1>6. \A i, j \in 1 .. k : i < j => s[i] < s[j]
  <2> TAKE i, j \in 1 .. k
  <2> HAVE i < j
  <2>1. i \in 1 .. k - 1
    BY <1>1
  <2> QED
    BY <1>2, <1>3, <1>4, <2>1
<1> QED
  BY <1>5, <1>6 DEF IsAscending, k

\* Otherwise take a smallest subset that cannot be put in order.
LEMMA AscendingExists ==
    ASSUME NEW T \in SUBSET Nat, IsFiniteSet(T)
    PROVE  \E s : IsAscending(s, T)
<1> DEFINE Orderless(U) == ~ \E s : IsAscending(s, U)
           Sizes == {k \in Nat : \E U \in SUBSET T : Orderless(U) /\ k = Cardinality(U)}
<1>1. SUFFICES ASSUME Orderless(T) PROVE FALSE
  OBVIOUS
<1>2. \A U \in SUBSET T : IsFiniteSet(U) /\ Cardinality(U) \in Nat
  BY FS_Subset, FS_CardinalityType
<1>3. PICK k \in Sizes : \A j \in Sizes : k <= j
  BY <1>1, <1>2, LeastExists
<1>4. PICK U \in SUBSET T : Orderless(U) /\ k = Cardinality(U)
  OBVIOUS
<1>5. CASE U = {}
  <2>1. Cardinality(U) = 0
    BY <1>5, FS_EmptySet
  <2>2. IsAscending([i \in 1 .. 0 |-> i], U)
    BY <2>1 DEF IsAscending
  <2> QED
    BY <1>4, <2>2
<1>6. CASE U # {}
  <2>1. PICK m \in U : \A y \in U : y <= m
    BY <1>2, <1>6, GreatestExists
  <2>2. Cardinality(U \ {m}) = k - 1 /\ U \ {m} \in SUBSET T /\ k \in Nat
    BY <1>2, <1>4, <2>1, FS_RemoveElement
  <2>3. ~Orderless(U \ {m})
    BY <1>2, <1>3, <2>2
  <2> QED
    BY <1>2, <1>4, <2>1, <2>3, AscendingExtends
<1> QED
  BY <1>5, <1>6

\* The numbers of a finite set, each once, from the least to the greatest.
LEMMA AscendingProperties ==
    ASSUME NEW T \in SUBSET Nat, IsFiniteSet(T)
    PROVE  /\ Ascending(T) \in Seq(T) /\ Len(Ascending(T)) = Cardinality(T)
           /\ \A i, j \in DOMAIN Ascending(T) : i < j => Ascending(T)[i] < Ascending(T)[j]
           /\ \A x \in T : \E i \in DOMAIN Ascending(T) : Ascending(T)[i] = x
           /\ T # {} => /\ Len(Ascending(T)) \in DOMAIN Ascending(T)
                        /\ \A x \in T : x <= Ascending(T)[Len(Ascending(T))]
<1> DEFINE s == Ascending(T)
           k == Cardinality(T)
<1>1. k \in Nat /\ (T # {} => k # 0)
  BY FS_CardinalityType, FS_EmptySet
<1>2. IsAscending(s, T)
  BY AscendingExists DEF IsAscending, Ascending
<1> HIDE DEF s
<1>3. s \in [1 .. k -> T] /\ \A i, j \in 1 .. k : i < j => s[i] < s[j]
  BY <1>2 DEF IsAscending
<1> HIDE DEF k
<1>4. s \in Seq(T) /\ Len(s) = k /\ DOMAIN s = 1 .. k
  BY <1>1, <1>3
<1>5. \A x \in T : \E i \in 1 .. k : s[i] = x
  <2>1. \A i, j \in 1 .. k : s[i] = s[j] => i = j
    <3> TAKE i, j \in 1 .. k
    <3>1. s[i] \in Nat /\ s[j] \in Nat
      BY <1>3
    <3>2. i = j \/ i < j \/ j < i
      BY <1>1
    <3> QED
      BY <1>3, <3>1, <3>2
  <2>2. s \in Injection(1 .. k, T)
    BY <1>3, <2>1 DEF Injection, IsInjective
  <2>3. Cardinality(1 .. k) = k
    BY <1>1, FS_Interval
  <2>4. s \in Surjection(1 .. k, T)
    BY <2>2, <2>3, FS_Injection DEF k
  <2> QED
    BY <2>4 DEF Surjection
<1>6. ASSUME T # {}
      PROVE  k \in 1 .. k /\ \A x \in T : x <= s[k]
  <2>1. k \in 1 .. k
    BY <1>1, <1>6
  <2>2. ASSUME NEW x \in T PROVE x <= s[k]
    <3>1. PICK i \in 1 .. k : s[i] = x
      BY <1>5
    <3>2. i = k \/ i < k
      BY <1>1
    <3>3. s[k] \in Nat /\ x \in Nat
      BY <1>3, <2>1
    <3> QED
      BY <1>3, <2>1, <3>1, <3>2, <3>3
  <2> QED
    BY <2>1, <2>2
<1> QED
  BY <1>3, <1>4, <1>5, <1>6 DEF s, k

\* Rows with different ids, each once, in the order of the ids.
LEMMA ByIdProperties ==
    ASSUME NEW rows, IsFiniteSet(rows), \A r \in rows : r.id \in Nat,
           \A r, s \in rows : r.id = s.id => r = s
    PROVE  LET ids == Ascending({r.id : r \in rows})
           IN  /\ {r.id : r \in rows} \in SUBSET Nat /\ IsFiniteSet({r.id : r \in rows})
               /\ ById(rows) \in Seq(rows) /\ DOMAIN ById(rows) = DOMAIN ids
               /\ \A i \in DOMAIN ids : ById(rows)[i].id = ids[i]
               /\ \A r \in rows : \E i \in DOMAIN ids : ById(rows)[i] = r
<1> DEFINE T == {r.id : r \in rows}
           ids == Ascending(T)
           s == ById(rows)
<1>1. T \in SUBSET Nat
  OBVIOUS
<1>2. IsFiniteSet(T)
  <2> DEFINE f == [r \in rows |-> r.id]
  <2>1. f \in Surjection(rows, T)
    BY DEF Surjection
  <2> QED
    BY <2>1, FS_Surjection
<1>3. /\ ids \in Seq(T) /\ \A x \in T : \E i \in DOMAIN ids : ids[i] = x
      /\ DOMAIN ids = 1 .. Len(ids) /\ Len(ids) \in Nat
  BY <1>1, <1>2, AscendingProperties, LenProperties
<1>4. s = [i \in DOMAIN ids |-> CHOOSE r \in rows : r.id = ids[i]]
  BY DEF ById
<1>5. \A i \in DOMAIN ids : ids[i] \in T
  BY <1>3, ElementOfSeq
<1> HIDE DEF ids, s
<1>6. DOMAIN s = DOMAIN ids /\ \A i \in DOMAIN ids : s[i] \in rows /\ s[i].id = ids[i]
  <2>1. \A i \in DOMAIN ids : \E r \in rows : r.id = ids[i]
    BY <1>5
  <2> QED
    BY <1>4, <2>1
<1>7. s \in Seq(rows)
  BY <1>3, <1>4, <1>6
<1>8. \A r \in rows : \E i \in DOMAIN ids : s[i] = r
  <2> TAKE r \in rows
  <2>1. PICK i \in DOMAIN ids : ids[i] = r.id
    BY <1>3
  <2> QED
    BY <1>6, <2>1
<1> QED
  BY <1>1, <1>2, <1>6, <1>7, <1>8 DEF ids, s

-----------------------------------------------------------------------------
(* Vectors. *)

\* A vector of elements of S.
IsVector(v, S) == v \in [place : Nat, elems : Seq(S)]

\* The structures of entries, with addresses of ciphertexts.
Structs(Ids) == [candidate : Ids, func : {"encode", "decode"},
                 arg : [place : Nat, index : Nat]]

\* Two vectors in parallel, as castBallot makes and fills them.
Parallel(m, Ids, Bytes) ==
    /\ IsVector(m.entries, Structs(Ids)) /\ IsVector(m.values, Bytes)
    /\ Len(m.entries.elems) = Len(m.values.elems)

\* A new last element takes the place of the one a sequence was grown by.
LEMMA LastReplaced ==
    ASSUME NEW S, NEW s \in Seq(S), NEW x \in S, NEW y
    PROVE  [Append(s, y) EXCEPT ![Len(s) + 1] = x] = Append(s, x)
<1> DEFINE T == S \cup {y}
           n == Len(s) + 1
           a == Append(s, y)
           b == Append(s, x)
<1>1. s \in Seq(T) /\ x \in T /\ y \in T
  OBVIOUS
<1>2. /\ a \in Seq(T) /\ Len(a) = n /\ b \in Seq(T) /\ Len(b) = n
      /\ \A i \in 1 .. Len(s) : a[i] = s[i] /\ b[i] = s[i]
      /\ b[n] = x
  BY <1>1, AppendProperties
<1>3. a \in [1 .. n -> T] /\ b \in [1 .. n -> T]
  BY <1>2, LenProperties
<1>4. \A i \in 1 .. n : i = n \/ i \in 1 .. Len(s)
  BY <1>1, LenProperties
<1>5. \A i \in 1 .. n : [a EXCEPT ![n] = x][i] = b[i]
  BY <1>2, <1>3, <1>4
<1> HIDE DEF T, n, a, b
<1>6. [a EXCEPT ![n] = x] = b
  BY <1>3, <1>5
<1> QED
  BY <1>6 DEF n, a, b

\* What is written at the back of a vector that has just grown is there, and
\* nothing else has changed.
LEMMA WrittenAtBack ==
    ASSUME NEW S, NEW u, IsVector(u, S), NEW x \in S, NEW v \in Grown(u)
    PROVE  /\ IsVector(Written(v, Back(v), x), S)
           /\ Written(v, Back(v), x).elems = Append(u.elems, x)
<1> DEFINE s == u.elems
<1>1. s \in Seq(S) /\ u.place \in Nat
  BY DEF IsVector
<1>2. PICK p \in Nat : v = [place |-> p, elems |-> Append(s, Lost)]
  BY <1>1 DEF Grown
<1> HIDE DEF s
<1> DEFINE t == Append(s, Lost)
<1>3. Len(t) = Len(s) + 1 /\ Len(s) + 1 \in DOMAIN t
  <2>1. s \in Seq(S \cup {Lost})
    BY <1>1
  <2>2. t \in Seq(S \cup {Lost}) /\ Len(t) = Len(s) + 1 /\ Len(s) \in Nat
    BY <2>1, AppendProperties, LenProperties
  <2>3. DOMAIN t = 1 .. Len(s) + 1
    BY <2>2, LenProperties
  <2> QED
    BY <2>2, <2>3
<1>4. [t EXCEPT ![Len(s) + 1] = x] = Append(s, x) /\ Append(s, x) \in Seq(S)
  BY <1>1, LastReplaced, AppendProperties
<1> HIDE DEF t
<1>5. v = [place |-> p, elems |-> t]
  BY <1>2 DEF t
<1>6. Back(v) = [place |-> p, index |-> Len(s) + 1] /\ Live(v, Back(v))
  BY <1>3, <1>5 DEF Back, Address, Live
<1>7. Written(v, Back(v), x) = [v EXCEPT !.elems[Len(s) + 1] = x]
  BY <1>6 DEF Written
<1>8. [v EXCEPT !.elems[Len(s) + 1] = x] = [place |-> p, elems |-> [t EXCEPT ![Len(s) + 1] = x]]
  BY <1>5
<1>9. Written(v, Back(v), x) = [place |-> p, elems |-> Append(s, x)]
  BY <1>4, <1>7, <1>8
<1> QED
  BY <1>4, <1>9 DEF IsVector, s

\* The candidates a vector of structures names.
Named(s) == [i \in DOMAIN s |-> s[i].candidate]

LEMMA NamedAppended ==
    ASSUME NEW Ids, NEW s \in Seq(Structs(Ids)), NEW e \in Structs(Ids)
    PROVE  Named(Append(s, e)) = Append(Named(s), e.candidate) /\ Named(s) \in Seq(Ids)
<1>1. /\ Append(s, e) \in Seq(Structs(Ids)) /\ Len(Append(s, e)) = Len(s) + 1
      /\ Append(s, e)[Len(s) + 1] = e
      /\ \A i \in 1 .. Len(s) : Append(s, e)[i] = s[i]
      /\ Len(s) \in Nat /\ DOMAIN s = 1 .. Len(s)
      /\ DOMAIN Append(s, e) = 1 .. Len(s) + 1
  BY AppendProperties, LenProperties
<1>2. e.candidate \in Ids /\ \A i \in DOMAIN s : s[i].candidate \in Ids
  <2>1. \A i \in DOMAIN s : s[i] \in Structs(Ids)
    BY ElementOfSeq, LenProperties
  <2> QED
    BY <2>1 DEF Structs
<1>3. Named(s) \in [1 .. Len(s) -> Ids]
  BY <1>1, <1>2 DEF Named
<1>4. Named(s) \in Seq(Ids) /\ Len(Named(s)) = Len(s)
  BY <1>1, <1>3
<1>5. /\ Append(Named(s), e.candidate) \in Seq(Ids)
      /\ Len(Append(Named(s), e.candidate)) = Len(s) + 1
      /\ Append(Named(s), e.candidate)[Len(s) + 1] = e.candidate
      /\ \A i \in 1 .. Len(s) : Append(Named(s), e.candidate)[i] = Named(s)[i]
  BY <1>2, <1>4, AppendProperties
<1> DEFINE a == Append(Named(s), e.candidate)
           t == Append(s, e)
<1>6. a \in [1 .. Len(s) + 1 -> Ids]
  BY <1>5, LenProperties
<1>7. \A i \in 1 .. Len(s) + 1 : i = Len(s) + 1 \/ i \in 1 .. Len(s)
  BY <1>1
<1>8. \A i \in 1 .. Len(s) + 1 : a[i] = t[i].candidate
  <2>1. \A i \in 1 .. Len(s) : Named(s)[i] = s[i].candidate
    BY <1>1 DEF Named
  <2> QED
    BY <1>1, <1>5, <1>7, <2>1
<1> HIDE DEF a, t
<1>9. Named(t) = a
  BY <1>1, <1>6, <1>8 DEF Named, t
<1> QED
  BY <1>4, <1>9 DEF a, t

\* There is always an outcome, and it is the two vectors.
LEMMA EntryOutcomes ==
    ASSUME NEW m, NEW e
    PROVE  /\ EncryptedBallotEntriesDecodeFunc(m, e) # {}
           /\ \A o \in EncryptedBallotEntriesDecodeFunc(m, e) :
                 o = [entries |-> o.entries, values |-> o.values]
<1> DEFINE R(s, v) == [entries |-> Written(s, Back(s), [candidate |-> e.candidate,
                                       func |-> "decode", arg |-> Back(v)]),
                       values  |-> ByteTArrayDecodeFunc(v, Back(v), e.value)]
<1>1. \A s, v : R(s, v) = [entries |-> R(s, v).entries, values |-> R(s, v).values]
  OBVIOUS
<1>2. EncryptedBallotEntriesDecodeFunc(m, e) =
         {R(s, v) : s \in Grown(m.entries), v \in Grown(m.values)}
  BY DEF EncryptedBallotEntriesDecodeFunc
<1> HIDE DEF R
<1>3. PICK s \in Grown(m.entries), v \in Grown(m.values) : TRUE
  BY DEF Grown
<1>4. R(s, v) \in EncryptedBallotEntriesDecodeFunc(m, e)
  BY <1>2
<1>5. \A o \in EncryptedBallotEntriesDecodeFunc(m, e) :
          o = [entries |-> o.entries, values |-> o.values]
  BY <1>1, <1>2
<1> QED
  BY <1>4, <1>5

\* EncryptedBallotEntriesDecodeFunc appends the entry's candidate and its
\* bytes and leaves both vectors parallel, wherever they are moved: no write
\* goes through a dead address.
THEOREM EntryDecodes ==
    ASSUME NEW Ids, NEW Bytes, NEW m, Parallel(m, Ids, Bytes),
           NEW e \in [candidate : Ids, value : Bytes],
           NEW o \in EncryptedBallotEntriesDecodeFunc(m, e)
    PROVE  /\ Parallel(o, Ids, Bytes)
           /\ Named(o.entries.elems) = Append(Named(m.entries.elems), e.candidate)
           /\ o.values.elems = Append(m.values.elems, e.value)
<1> DEFINE c == e.candidate
           x == e.value
<1>1. c \in Ids /\ x \in Bytes
  OBVIOUS
<1>2. PICK s \in Grown(m.entries), v \in Grown(m.values) :
         o = [entries |-> Written(s, Back(s),
                             [candidate |-> c, func |-> "decode", arg |-> Back(v)]),
              values  |-> Written(v, Back(v), x)]
  BY DEF EncryptedBallotEntriesDecodeFunc, ByteTArrayDecodeFunc
<1> HIDE DEF c, x
<1>3. IsVector(o.values, Bytes) /\ o.values.elems = Append(m.values.elems, x)
  BY <1>1, <1>2, WrittenAtBack DEF Parallel
<1> DEFINE entry == [candidate |-> c, func |-> "decode", arg |-> Back(v)]
<1>4. entry \in Structs(Ids) /\ entry.candidate = c
  <2>1. m.values.place \in Nat /\ m.values.elems \in Seq(Bytes)
    BY DEF Parallel, IsVector
  <2>2. PICK p \in Nat : v = [place |-> p, elems |-> Append(m.values.elems, Lost)]
    BY <2>1 DEF Grown
  <2>3. m.values.elems \in Seq(Bytes \cup {Lost})
    BY <2>1
  <2>4. Len(v.elems) \in Nat
    BY <2>2, <2>3, AppendProperties, LenProperties
  <2> QED
    BY <1>1, <2>2, <2>4 DEF Structs, Back, Address
<1>5. o.entries = Written(s, Back(s), entry)
  BY <1>2
<1> HIDE DEF entry
<1>6. IsVector(o.entries, Structs(Ids)) /\ o.entries.elems = Append(m.entries.elems, entry)
  BY <1>4, <1>5, WrittenAtBack DEF Parallel
<1>7. m.values.elems \in Seq(Bytes) /\ m.entries.elems \in Seq(Structs(Ids))
  BY DEF Parallel, IsVector
<1>8. Len(o.entries.elems) = Len(o.values.elems)
  <2>1. /\ Len(Append(m.values.elems, x)) = Len(m.values.elems) + 1
        /\ Len(Append(m.entries.elems, entry)) = Len(m.entries.elems) + 1
    BY <1>1, <1>4, <1>7, AppendProperties
  <2> QED
    BY <2>1, <1>3, <1>6 DEF Parallel
<1>9. Named(o.entries.elems) = Append(Named(m.entries.elems), c)
  BY <1>4, <1>6, <1>7, NamedAppended
<1> QED
  BY <1>3, <1>6, <1>8, <1>9 DEF Parallel, c, x

-----------------------------------------------------------------------------
(* Repeated fields: the sets of outcomes after each callback. *)

\* What the n-th callback makes of the outcomes in X.
After(next, X, n) == UNION {next[<<o, n>>] : o \in X}

\* The first k sets of outcomes.
OutcomesUpTo(g, k, Out, start, next) ==
    /\ g \in [0 .. k -> SUBSET Out]
    /\ g[0] = {start}
    /\ \A n \in 1 .. k : g[n] = After(next, g[n - 1], n)

LEMMA OutcomesGrow ==
    ASSUME NEW N \in Nat, NEW Out, NEW start \in Out,
           NEW next \in [Out \X (1 .. N) -> SUBSET Out],
           NEW k \in 1 .. N, NEW g, OutcomesUpTo(g, k - 1, Out, start, next)
    PROVE  \E h : OutcomesUpTo(h, k, Out, start, next)
<1> DEFINE last == After(next, g[k - 1], k)
           h == [n \in 0 .. k |-> IF n = k THEN last ELSE g[n]]
<1>1. /\ g \in [0 .. k - 1 -> SUBSET Out] /\ g[0] = {start}
      /\ \A n \in 1 .. k - 1 : g[n] = After(next, g[n - 1], n)
  BY DEF OutcomesUpTo
<1>2. last \in SUBSET Out
  <2>1. \A o \in g[k - 1] : o \in Out
    BY <1>1
  <2>2. \A o \in g[k - 1] : next[<<o, k>>] \in SUBSET Out
    BY <2>1
  <2> QED
    BY <2>2 DEF After
<1>3. \A n \in 0 .. k : n = k \/ n \in 0 .. k - 1
  OBVIOUS
<1>4. \A n \in 0 .. k - 1 : h[n] = g[n] /\ g[n] \in SUBSET Out
  BY <1>1
<1>5. h[k] = last
  OBVIOUS
<1> HIDE DEF last
<1>6. h \in [0 .. k -> SUBSET Out]
  BY <1>2, <1>3, <1>4
<1>7. h[0] = {start}
  BY <1>1, <1>4
<1>8. ASSUME NEW n \in 1 .. k
      PROVE  h[n] = After(next, h[n - 1], n)
  <2>1. h[n - 1] = g[n - 1]
    BY <1>4
  <2>2. CASE n = k
    BY <1>5, <2>1, <2>2 DEF last
  <2>3. CASE n # k
    <3>1. n \in 1 .. k - 1 /\ n \in 0 .. k - 1
      BY <2>3
    <3> QED
      BY <1>1, <1>4, <2>1, <3>1
  <2> QED
    BY <2>2, <2>3
<1> HIDE DEF h
<1>9. OutcomesUpTo(h, k, Out, start, next)
  BY <1>6, <1>7, <1>8 DEF OutcomesUpTo
<1> QED
  BY <1>9

\* They are well defined, whatever a callback makes of an outcome.
LEMMA OutcomesExist ==
    ASSUME NEW N \in Nat, NEW Out, NEW start \in Out,
           NEW next \in [Out \X (1 .. N) -> SUBSET Out]
    PROVE  \E g : OutcomesUpTo(g, N, Out, start, next)
<1> DEFINE P == {k \in 0 .. N : \E g : OutcomesUpTo(g, k, Out, start, next)}
<1>1. 0 \in P
  <2> DEFINE g == [n \in 0 .. 0 |-> {start}]
  <2>1. g \in [0 .. 0 -> SUBSET Out] /\ g[0] = {start} /\ 1 .. 0 = {}
    OBVIOUS
  <2> HIDE DEF g
  <2>2. OutcomesUpTo(g, 0, Out, start, next)
    BY <2>1 DEF OutcomesUpTo
  <2> QED
    BY <2>2
<1>2. ASSUME NEW k \in 1 .. N, k - 1 \in P
      PROVE  k \in P
  <2>1. PICK g : OutcomesUpTo(g, k - 1, Out, start, next)
    BY <1>2
  <2>2. \E h : OutcomesUpTo(h, k, Out, start, next)
    BY <2>1, OutcomesGrow
  <2> QED
    BY <2>2
<1> HIDE DEF P
<1>3. N \in P
  BY <1>1, <1>2, Upwards
<1> QED
  BY <1>3 DEF P

\* A callback that takes what is good before it to outcomes that are good
\* after it, and there is always one, ends in good outcomes only.
LEMMA OutcomesGood ==
    ASSUME NEW N \in Nat, NEW Good, NEW f,
           f[0] # {} /\ f[0] \in SUBSET Good[0],
           \A n \in 1 .. N : f[n - 1] # {} /\ f[n - 1] \in SUBSET Good[n - 1]
                                => f[n] # {} /\ f[n] \in SUBSET Good[n]
    PROVE  \A n \in 0 .. N : f[n] # {} /\ f[n] \in SUBSET Good[n]
<1> DEFINE P == {n \in 0 .. N : f[n] # {} /\ f[n] \in SUBSET Good[n]}
<1>1. 0 \in P
  OBVIOUS
<1>2. ASSUME NEW n \in 1 .. N, n - 1 \in P
      PROVE  n \in P
  <2>1. n \in 0 .. N /\ f[n - 1] # {} /\ f[n - 1] \in SUBSET Good[n - 1]
    BY <1>2
  <2> QED
    BY <2>1
<1>3. \A n \in 0 .. N : n \in P
  <2> HIDE DEF P
  <2> QED
    BY <1>1, <1>2, Upwards
<1> QED
  BY <1>3

\* A callback that takes every good outcome to good ones, at least one.
KeepsGood(step, Good, N) ==
    \A n \in 1 .. N : \A o \in Good[n - 1] :
        step[<<o, n>>] # {} /\ step[<<o, n>>] \in SUBSET Good[n]

\* The outcomes of such a callback, all of them good.
GoodOutcomes(g, start, step, Good, N) ==
    /\ g = [n \in 0 .. N |-> IF n = 0 THEN {start} ELSE After(step, g[n - 1], n)]
    /\ \A n \in 0 .. N : g[n] # {} /\ g[n] \in SUBSET Good[n]

\* So they are well defined for a callback that does so, and good.
LEMMA OutcomesStayGood ==
    ASSUME NEW N \in Nat, NEW Out, NEW start, NEW Good, start \in Good[0],
           \A n \in 0 .. N : Good[n] \in SUBSET Out, NEW step,
           KeepsGood(step, Good, N)
    PROVE  \E g : GoodOutcomes(g, start, step, Good, N)
<1> DEFINE next == [p \in Out \X (1 .. N) |-> IF p[1] \in Good[p[2] - 1] THEN step[p] ELSE {}]
<1>1. next \in [Out \X (1 .. N) -> SUBSET Out]
  <2>1. ASSUME NEW o \in Out, NEW n \in 1 .. N
        PROVE  (IF o \in Good[n - 1] THEN step[<<o, n>>] ELSE {}) \in SUBSET Out
    <3>1. n \in 0 .. N
      OBVIOUS
    <3>2. Good[n] \in SUBSET Out
      BY <3>1
    <3> QED
      BY <3>2 DEF KeepsGood
  <2> QED
    BY <2>1
<1>2. ASSUME NEW n \in 1 .. N, NEW o \in Good[n - 1]
      PROVE  next[<<o, n>>] = step[<<o, n>>]
  <2>1. n - 1 \in 0 .. N
    OBVIOUS
  <2>2. o \in Out
    BY <2>1
  <2> QED
    BY <2>2
<1> HIDE DEF next
<1>3. start \in Out
  <2>1. 0 \in 0 .. N
    OBVIOUS
  <2> QED
    BY <2>1
<1>4. PICK g : OutcomesUpTo(g, N, Out, start, next)
  BY <1>1, <1>3, OutcomesExist
<1>5. \A n \in 0 .. N : g[n] # {} /\ g[n] \in SUBSET Good[n]
  <2>1. g[0] # {} /\ g[0] \in SUBSET Good[0]
    BY <1>4 DEF OutcomesUpTo
  <2>2. ASSUME NEW n \in 1 .. N, g[n - 1] # {}, g[n - 1] \in SUBSET Good[n - 1]
        PROVE  g[n] # {} /\ g[n] \in SUBSET Good[n]
    <3>1. g[n] = UNION {next[<<o, n>>] : o \in g[n - 1]}
      BY <1>4 DEF OutcomesUpTo, After
    <3>2. \A o \in g[n - 1] : next[<<o, n>>] # {} /\ next[<<o, n>>] \in SUBSET Good[n]
      BY <1>2, <2>2 DEF KeepsGood
    <3>3. g[n] # {}
      <4>1. PICK o \in g[n - 1] : TRUE
        BY <2>2
      <4>2. PICK x \in next[<<o, n>>] : TRUE
        BY <3>2
      <4>3. next[<<o, n>>] \in {next[<<q, n>>] : q \in g[n - 1]}
        BY <4>1
      <4>4. x \in UNION {next[<<q, n>>] : q \in g[n - 1]}
        BY <4>2, <4>3, Zenon
      <4> QED
        BY <3>1, <4>4, Zenon
    <3>4. \A x \in g[n] : x \in Good[n]
      BY <3>1, <3>2
    <3> QED
      BY <3>3, <3>4
  <2> QED
    BY <2>1, <2>2, OutcomesGood
<1>6. g = [n \in 0 .. N |-> IF n = 0 THEN {start} ELSE After(step, g[n - 1], n)]
  <2>1. ASSUME NEW n \in 1 .. N
        PROVE  After(next, g[n - 1], n) = After(step, g[n - 1], n)
    <3>1. n - 1 \in 0 .. N
      OBVIOUS
    <3>2. g[n - 1] \in SUBSET Good[n - 1]
      BY <1>5, <3>1
    <3> QED
      BY <1>2, <3>2 DEF After
  <2>2. \A n \in 0 .. N : n = 0 \/ n \in 1 .. N
    OBVIOUS
  <2> QED
    BY <1>4, <2>1, <2>2 DEF OutcomesUpTo
<1> QED
  BY <1>5, <1>6 DEF GoodOutcomes

\* The first n values of a sequence or function.
Prefix(f, n) == [i \in 1 .. n |-> f[i]]

LEMMA PrefixGrows ==
    ASSUME NEW S, NEW N \in Nat, NEW f \in [1 .. N -> S], NEW n \in 1 .. N
    PROVE  /\ Prefix(f, n - 1) \in Seq(S)
           /\ Append(Prefix(f, n - 1), f[n]) = Prefix(f, n)
<1>1. Prefix(f, n - 1) \in [1 .. n - 1 -> S] /\ n - 1 \in Nat /\ f[n] \in S
  BY DEF Prefix
<1>2. Prefix(f, n - 1) \in Seq(S) /\ Len(Prefix(f, n - 1)) = n - 1
  BY <1>1
<1> DEFINE a == Append(Prefix(f, n - 1), f[n])
<1>3. /\ a \in Seq(S) /\ Len(a) = n /\ a[n] = f[n]
      /\ \A i \in 1 .. n - 1 : a[i] = Prefix(f, n - 1)[i]
  BY <1>1, <1>2, AppendProperties
<1>4. a \in [1 .. n -> S]
  BY <1>3, LenProperties
<1>5. \A i \in 1 .. n : i = n \/ i \in 1 .. n - 1
  OBVIOUS
<1>6. \A i \in 1 .. n : a[i] = f[i]
  BY <1>3, <1>5 DEF Prefix
<1> HIDE DEF a
<1>7. a = Prefix(f, n)
  BY <1>4, <1>6 DEF Prefix
<1> QED
  BY <1>2, <1>7 DEF a

LEMMA PrefixEnds ==
    ASSUME NEW S, NEW N \in Nat, NEW f \in [1 .. N -> S]
    PROVE  Prefix(f, 0) = <<>> /\ Prefix(f, N) = f
BY DEF Prefix

LEMMA EmptyVector ==
    ASSUME NEW S
    PROVE  /\ Vector(<<>>) \in [place : Nat, elems : Seq(S)]
           /\ Vector(<<>>).elems = <<>>
BY DEF Vector

\* A vector that holds the first values takes the next one.
LEMMA PrefixWritten ==
    ASSUME NEW S, NEW N \in Nat, NEW f \in [1 .. N -> S], NEW n \in 1 .. N,
           NEW u, IsVector(u, S), u.elems = Prefix(f, n - 1), NEW v \in Grown(u)
    PROVE  /\ IsVector(Written(v, Back(v), f[n]), S)
           /\ Written(v, Back(v), f[n]).elems = Prefix(f, n)
<1>1. f[n] \in S /\ Append(Prefix(f, n - 1), f[n]) = Prefix(f, n)
  BY PrefixGrows
<1> QED
  BY <1>1, WrittenAtBack

\* IntArrayDecodeFunc leaves in its vector what the field held, in its order.
LEMMA IntArrayDecoded ==
    ASSUME NEW S, NEW parts \in Seq(S)
    PROVE  Contents(IntArrayDecodeFunc, parts) = {parts}
<1> DEFINE N == Len(parts)
           start == Vector(<<>>)
           Out == [place : Nat, elems : Seq(S)]
           Good == [n \in 0 .. N |-> {v \in Out : v.elems = Prefix(parts, n)}]
           D(v, n) == IntArrayDecodeFunc(v, parts[n])
           step == [p \in Out \X (1 .. N) |-> D(p[1], p[2])]
<1>1. N \in Nat /\ parts \in [1 .. N -> S]
  BY LenProperties
<1>2. /\ start \in Out /\ start \in Good[0]
      /\ \A n \in 0 .. N : Good[n] \in SUBSET Out
  BY <1>1 DEF Vector, Prefix
<1> HIDE DEF N
<1>3. ASSUME NEW n \in 1 .. N, NEW o \in Good[n - 1]
      PROVE  D(o, n) # {} /\ D(o, n) \in SUBSET Good[n]
  <2>1. IsVector(o, S) /\ o.elems = Prefix(parts, n - 1)
    BY <1>1 DEF IsVector
  <2>2. \A w \in Grown(o) : /\ IsVector(Written(w, Back(w), parts[n]), S)
                            /\ Written(w, Back(w), parts[n]).elems = Prefix(parts, n)
    BY <1>1, <2>1, PrefixWritten
  <2>3. Grown(o) # {}
    BY DEF Grown
  <2>4. n \in 0 .. N
    BY <1>1
  <2> QED
    BY <2>2, <2>3, <2>4 DEF IntArrayDecodeFunc, IsVector
<1> HIDE DEF start, Good, Out
<1>4. \A n \in 1 .. N : \A o \in Good[n - 1] : step[<<o, n>>] = D(o, n)
  <2> TAKE n \in 1 .. N
  <2> TAKE o \in Good[n - 1]
  <2>1. n - 1 \in 0 .. N /\ o \in Out
    BY <1>1, <1>2
  <2> QED
    BY <2>1
<1> HIDE DEF step, D
<1>5. KeepsGood(step, Good, N)
  BY <1>3, <1>4 DEF KeepsGood
<1>6. PICK g : GoodOutcomes(g, start, step, Good, N)
  BY <1>1, <1>2, <1>5, OutcomesStayGood
<1>7. g = [n \in 0 .. N |-> IF n = 0 THEN {start} ELSE UNION {D(o, n) : o \in g[n - 1]}]
  <2>1. ASSUME NEW n \in 0 .. N, n # 0
        PROVE  After(step, g[n - 1], n) = UNION {D(o, n) : o \in g[n - 1]}
    <3>1. n - 1 \in 0 .. N /\ n \in 1 .. N
      BY <1>1, <2>1
    <3>2. g[n - 1] \in SUBSET Good[n - 1]
      BY <1>6, <3>1 DEF GoodOutcomes
    <3> QED
      BY <1>4, <3>1, <3>2 DEF After
  <2> QED
    BY <1>6, <2>1 DEF GoodOutcomes
<1> DEFINE F == CHOOSE f : f = [n \in 0 .. N |-> IF n = 0 THEN {start}
                                    ELSE UNION {D(o, n) : o \in f[n - 1]}]
<1>8. F = [n \in 0 .. N |-> IF n = 0 THEN {start} ELSE UNION {D(o, n) : o \in F[n - 1]}]
  BY <1>7, Zenon
<1>9. Decoded(IntArrayDecodeFunc, start, parts) = F[N]
  BY Zenon DEF Decoded, N, D
<1> HIDE DEF F
<1>10. F[N] # {} /\ F[N] \in SUBSET Good[N]
  <2>1. F[0] # {} /\ F[0] \in SUBSET Good[0]
    BY <1>1, <1>2, <1>8
  <2>2. ASSUME NEW n \in 1 .. N, F[n - 1] # {}, F[n - 1] \in SUBSET Good[n - 1]
        PROVE  F[n] # {} /\ F[n] \in SUBSET Good[n]
    <3>1. n \in 0 .. N /\ n # 0
      BY <1>1
    <3>2. F[n] = UNION {D(o, n) : o \in F[n - 1]}
      BY <1>8, <3>1
    <3> QED
      BY <1>3, <2>2, <3>2
  <2>3. \A n \in 0 .. N : F[n] # {} /\ F[n] \in SUBSET Good[n]
    BY <1>1, <2>1, <2>2, OutcomesGood
  <2>4. N \in 0 .. N
    BY <1>1
  <2> QED
    BY <2>3, <2>4
<1>11. \A v \in F[N] : v.elems = parts
  <2>1. N \in 0 .. N
    BY <1>1
  <2>2. Prefix(parts, N) = parts
    BY <1>1, PrefixEnds
  <2> QED
    BY <1>10, <2>1, <2>2 DEF Good
<1> QED
  BY <1>9, <1>10, <1>11 DEF Contents, start

\* So do the callbacks for candidates and for tally entries.
LEMMA ListsDecoded ==
    ASSUME NEW S, NEW parts \in Seq(S)
    PROVE  /\ Contents(CandidatesDecodeFunc, parts) = {parts}
           /\ Contents(TallyEntriesDecodeFunc, parts) = {parts}
<1>1. Contents(CandidatesDecodeFunc, parts) = Contents(IntArrayDecodeFunc, parts)
  BY Zenon DEF Contents, Decoded, CandidatesDecodeFunc, IntArrayDecodeFunc
<1>2. Contents(TallyEntriesDecodeFunc, parts) = Contents(IntArrayDecodeFunc, parts)
  BY Zenon DEF Contents, Decoded, TallyEntriesDecodeFunc, IntArrayDecodeFunc
<1> QED
  BY <1>1, <1>2, IntArrayDecoded

\* The candidates of entries, and their bytes, by the index of the entry.
CandidatesIn(parts) == [i \in 1 .. Len(parts) |-> parts[i].candidate]
ValuesIn(parts) == [i \in 1 .. Len(parts) |-> parts[i].value]

LEMMA PartsIn ==
    ASSUME NEW Ids, NEW Bytes, NEW parts \in Seq([candidate : Ids, value : Bytes])
    PROVE  /\ CandidatesIn(parts) \in [1 .. Len(parts) -> Ids]
           /\ ValuesIn(parts) \in [1 .. Len(parts) -> Bytes]
           /\ CandidatesIn(parts) \in Seq(Ids) /\ ValuesIn(parts) \in Seq(Bytes)
<1>1. Len(parts) \in Nat /\ DOMAIN parts = 1 .. Len(parts)
  BY LenProperties
<1>2. \A i \in 1 .. Len(parts) : parts[i].candidate \in Ids /\ parts[i].value \in Bytes
  <2>1. \A i \in 1 .. Len(parts) : parts[i] \in [candidate : Ids, value : Bytes]
    BY ElementOfSeq, <1>1
  <2> QED
    BY <2>1
<1>3. CandidatesIn(parts) \in [1 .. Len(parts) -> Ids]
  BY <1>2 DEF CandidatesIn
<1>4. ValuesIn(parts) \in [1 .. Len(parts) -> Bytes]
  BY <1>2 DEF ValuesIn
<1> QED
  BY <1>1, <1>3, <1>4

\* Every outcome of decoding a ballot's entries has their candidates and their
\* bytes in parallel, each entry under its own index: nothing is lost in a
\* vector that moves.
THEOREM EntriesDecoded ==
    ASSUME NEW Ids, NEW Bytes, NEW parts \in Seq([candidate : Ids, value : Bytes])
    PROVE  /\ EntriesOf(parts) # {}
           /\ \A m \in EntriesOf(parts) :
                 /\ Parallel(m, Ids, Bytes)
                 /\ Named(m.entries.elems) = CandidatesIn(parts)
                 /\ m.values.elems = ValuesIn(parts)
<1> DEFINE N == Len(parts)
           start == NoEntries
           names == CandidatesIn(parts)
           bytes == ValuesIn(parts)
           Out == [entries : [place : Nat, elems : Seq(Structs(Ids))],
                   values  : [place : Nat, elems : Seq(Bytes)]]
           Good == [n \in 0 .. N |-> {m \in Out : /\ Parallel(m, Ids, Bytes)
                                                  /\ Named(m.entries.elems) = Prefix(names, n)
                                                  /\ m.values.elems = Prefix(bytes, n)}]
           D(m, n) == EncryptedBallotEntriesDecodeFunc(m, parts[n])
           step == [p \in Out \X (1 .. N) |-> D(p[1], p[2])]
<1>1. N \in Nat
  BY LenProperties
<1>2. parts \in [1 .. N -> [candidate : Ids, value : Bytes]]
  BY LenProperties
<1> HIDE DEF N
<1>3. names \in [1 .. N -> Ids]
  BY PartsIn DEF N
<1>4. bytes \in [1 .. N -> Bytes]
  BY PartsIn DEF N
<1>5. \A n \in 1 .. N : names[n] = parts[n].candidate /\ bytes[n] = parts[n].value
  BY DEF CandidatesIn, ValuesIn, N
<1> HIDE DEF names, bytes
<1>6. /\ Prefix(names, 0) = <<>> /\ Prefix(names, N) = names
       /\ Prefix(bytes, 0) = <<>> /\ Prefix(bytes, N) = bytes
  BY <1>3, <1>4, <1>1, PrefixEnds
<1>7. ASSUME NEW n \in 1 .. N
       PROVE  Append(Prefix(names, n - 1), names[n]) = Prefix(names, n)
  BY <1>3, <1>1, PrefixGrows
<1>8. ASSUME NEW n \in 1 .. N
       PROVE  Append(Prefix(bytes, n - 1), bytes[n]) = Prefix(bytes, n)
  BY <1>4, <1>1, PrefixGrows
<1>9. /\ start \in Out /\ start \in Good[0]
      /\ \A n \in 0 .. N : Good[n] \in SUBSET Out
  <2>1. start = [entries |-> [place |-> 0, elems |-> <<>>],
                 values |-> [place |-> 0, elems |-> <<>>]]
    BY DEF NoEntries, Vector
  <2> HIDE DEF start
  <2>2. start.entries.elems = <<>> /\ start.values.elems = <<>>
    BY <2>1
  <2>3. start \in Out /\ Parallel(start, Ids, Bytes)
    BY <2>1 DEF Parallel, IsVector
  <2>4. Named(start.entries.elems) = <<>>
    BY <2>2 DEF Named
  <2>5. start \in Good[0]
    BY <1>6, <1>1, <2>2, <2>3, <2>4
  <2> QED
    BY <2>3, <2>5
<1>10. ASSUME NEW n \in 1 .. N, NEW m \in Good[n - 1]
      PROVE  D(m, n) # {} /\ D(m, n) \in SUBSET Good[n]
  <2>1. /\ Parallel(m, Ids, Bytes) /\ Named(m.entries.elems) = Prefix(names, n - 1)
        /\ m.values.elems = Prefix(bytes, n - 1) /\ n \in 0 .. N
    BY <1>1
  <2>2. parts[n] \in [candidate : Ids, value : Bytes]
    BY <1>2
  <2> HIDE DEF Good, Out, step
  <2>3. D(m, n) # {}
    BY EntryOutcomes
  <2>4. ASSUME NEW o \in D(m, n) PROVE o \in Good[n]
    <3>1. /\ Parallel(o, Ids, Bytes)
          /\ Named(o.entries.elems) = Append(Named(m.entries.elems), parts[n].candidate)
          /\ o.values.elems = Append(m.values.elems, parts[n].value)
      <4>1. Parallel(m, Ids, Bytes)
        BY <2>1
      <4> QED
        BY <2>2, <4>1, EntryDecodes
    <3>2. o = [entries |-> o.entries, values |-> o.values]
      BY EntryOutcomes
    <3>3. o \in Out
      BY <3>1, <3>2 DEF Parallel, IsVector, Out
    <3> QED
      BY <1>5, <1>7, <1>8, <2>1, <3>1, <3>3 DEF Good
  <2> QED
    BY <2>3, <2>4
<1> HIDE DEF start, Good, Out
<1>11. \A n \in 1 .. N : \A o \in Good[n - 1] : step[<<o, n>>] = D(o, n)
  <2> TAKE n \in 1 .. N
  <2> TAKE o \in Good[n - 1]
  <2>1. n - 1 \in 0 .. N /\ o \in Out
    BY <1>1, <1>9
  <2> QED
    BY <2>1
<1> HIDE DEF step, D
<1>12. KeepsGood(step, Good, N)
  BY <1>10, <1>11 DEF KeepsGood
<1>13. PICK g : GoodOutcomes(g, start, step, Good, N)
  BY <1>1, <1>9, <1>12, OutcomesStayGood
<1>14. g = [n \in 0 .. N |-> IF n = 0 THEN {start} ELSE UNION {D(o, n) : o \in g[n - 1]}]
  <2>1. ASSUME NEW n \in 0 .. N, n # 0
        PROVE  After(step, g[n - 1], n) = UNION {D(o, n) : o \in g[n - 1]}
    <3>1. n - 1 \in 0 .. N /\ n \in 1 .. N
      BY <1>1, <2>1
    <3>2. g[n - 1] \in SUBSET Good[n - 1]
      BY <1>13, <3>1 DEF GoodOutcomes
    <3> QED
      BY <1>11, <3>1, <3>2 DEF After
  <2> QED
    BY <1>13, <2>1 DEF GoodOutcomes
<1> DEFINE F == CHOOSE f : f = [n \in 0 .. N |-> IF n = 0 THEN {start}
                                    ELSE UNION {D(o, n) : o \in f[n - 1]}]
<1>15. F = [n \in 0 .. N |-> IF n = 0 THEN {start} ELSE UNION {D(o, n) : o \in F[n - 1]}]
  BY <1>14, Zenon
<1>16. Decoded(EncryptedBallotEntriesDecodeFunc, start, parts) = F[N]
  BY Zenon DEF Decoded, N, D
<1> HIDE DEF F
<1>17. F[N] # {} /\ F[N] \in SUBSET Good[N]
  <2>1. F[0] # {} /\ F[0] \in SUBSET Good[0]
    BY <1>1, <1>9, <1>15
  <2>2. ASSUME NEW n \in 1 .. N, F[n - 1] # {}, F[n - 1] \in SUBSET Good[n - 1]
        PROVE  F[n] # {} /\ F[n] \in SUBSET Good[n]
    <3>1. n \in 0 .. N /\ n # 0
      BY <1>1
    <3>2. F[n] = UNION {D(o, n) : o \in F[n - 1]}
      BY <1>15, <3>1
    <3> QED
      BY <1>10, <2>2, <3>2
  <2>3. \A n \in 0 .. N : F[n] # {} /\ F[n] \in SUBSET Good[n]
    BY <1>1, <2>1, <2>2, OutcomesGood
  <2>4. N \in 0 .. N
    BY <1>1
  <2> QED
    BY <2>3, <2>4
<1>18. N \in 0 .. N
  BY <1>1
<1>19. \A m \in F[N] : /\ Parallel(m, Ids, Bytes)
                       /\ Named(m.entries.elems) = names /\ m.values.elems = bytes
  BY <1>6, <1>17, <1>18 DEF Good
<1>20. EntriesOf(parts) = F[N]
  BY <1>16 DEF EntriesOf, start
<1> QED
  BY <1>17, <1>19, <1>20 DEF N, names, bytes

LEMMA DecodedEntriesAre ==
    ASSUME NEW Ids, NEW Bytes,
           NEW b, b.entries \in Seq([candidate : Ids, value : Bytes])
    PROVE  /\ DecodedEntries(b.entries) =
                 {[candidates |-> CandidatesIn(b.entries), values |-> ValuesIn(b.entries)]}
           /\ CandidatesIn(b.entries) \in Seq(Ids) /\ ValuesIn(b.entries) \in Seq(Bytes)
<1> DEFINE parts == b.entries
           outcomes == EntriesOf(parts)
           R(m) == [candidates |-> [j \in DOMAIN parts |-> m.entries.elems[j].candidate],
                    values     |-> m.values.elems]
<1>1. /\ outcomes # {}
      /\ \A m \in outcomes : /\ Named(m.entries.elems) = CandidatesIn(b.entries)
                             /\ m.values.elems = ValuesIn(b.entries)
  BY EntriesDecoded
<1>2. DecodedEntries(parts) = {R(m) : m \in outcomes}
  BY DEF DecodedEntries
<1>3. DOMAIN parts = 1 .. Len(parts) /\ Len(parts) \in Nat
  BY LenProperties
<1> HIDE DEF outcomes
<1>4. ASSUME NEW m \in outcomes
      PROVE  R(m) = [candidates |-> CandidatesIn(b.entries), values |-> ValuesIn(b.entries)]
  <2>1. Named(m.entries.elems) = CandidatesIn(b.entries) /\ m.values.elems = ValuesIn(b.entries)
    BY <1>1
  <2>2. DOMAIN m.entries.elems = DOMAIN parts
    BY <1>3, <2>1 DEF Named, CandidatesIn
  <2>3. [j \in DOMAIN parts |-> m.entries.elems[j].candidate] = CandidatesIn(b.entries)
    BY <2>1, <2>2 DEF Named
  <2> QED
    BY <2>1, <2>3
<1>5. CandidatesIn(b.entries) \in Seq(Ids) /\ ValuesIn(b.entries) \in Seq(Bytes)
  BY PartsIn
<1> HIDE DEF R
<1> QED
  BY <1>1, <1>2, <1>4, <1>5

\* Ballots, each with an id and entries.
BallotSet(Keys, Ids, Bytes) == [id : Keys, entries : Seq([candidate : Ids, value : Bytes])]

\* The three vectors of a list of ballots, and the next one at their ends.
BallotVectors(m, Keys, Ids, Bytes) ==
    /\ m = [ballots |-> m.ballots, entries |-> m.entries, values |-> m.values]
    /\ IsVector(m.ballots, Keys)
    /\ IsVector(m.entries, Seq(Ids))
    /\ IsVector(m.values, Seq(Bytes))

BallotAppended(m, o, e) ==
    /\ o.ballots.elems = Append(m.ballots.elems, e.id)
    /\ o.entries.elems = Append(m.entries.elems, CandidatesIn(e.entries))
    /\ o.values.elems = Append(m.values.elems, ValuesIn(e.entries))

\* CastEncryptedBallotsDecodeFunc appends to three vectors, two of them vectors of
\* vectors, what belongs to one ballot.
LEMMA BallotDecodes ==
    ASSUME NEW Keys, NEW Ids, NEW Bytes, NEW m, BallotVectors(m, Keys, Ids, Bytes),
           NEW e \in BallotSet(Keys, Ids, Bytes)
    PROVE  /\ CastEncryptedBallotsDecodeFunc(m, e) # {}
           /\ \A o \in CastEncryptedBallotsDecodeFunc(m, e) :
                 BallotVectors(o, Keys, Ids, Bytes) /\ BallotAppended(m, o, e)
<1> DEFINE R(v1, v2, v3) == [ballots |-> v1, entries |-> v2, values |-> v3]
           W(v, x) == Written(v, Back(v), x)
           x1 == e.id
           x2 == CandidatesIn(e.entries)
           x3 == ValuesIn(e.entries)
<1>1. x1 \in Keys /\ x2 \in Seq(Ids) /\ x3 \in Seq(Bytes)
  BY DecodedEntriesAre DEF BallotSet
<1>2. CastEncryptedBallotsDecodeFunc(m, e) =
         {R(W(v1, x1), W(v2, x2), W(v3, x3)) :
             v1 \in Grown(m.ballots), v2 \in Grown(m.entries), v3 \in Grown(m.values)}
  <2> DEFINE inner == DecodedEntries(e.entries)
  <2>1. CastEncryptedBallotsDecodeFunc(m, e) =
           {R(W(v1, x1), W(v2, i.candidates), W(v3, i.values)) :
               v1 \in Grown(m.ballots), v2 \in Grown(m.entries),
               v3 \in Grown(m.values), i \in inner}
    BY DEF CastEncryptedBallotsDecodeFunc
  <2>2. inner = {[candidates |-> x2, values |-> x3]}
    BY DecodedEntriesAre DEF BallotSet
  <2> HIDE DEF inner, R, W, x1, x2, x3
  <2> DEFINE i == [candidates |-> x2, values |-> x3]
  <2>3. inner = {i} /\ i.candidates = x2 /\ i.values = x3
    BY <2>2
  <2> HIDE DEF i
  <2> QED
    BY <2>1, <2>3
<1> HIDE DEF x1, x2, x3
<1>3. \A v \in Grown(m.ballots) : /\ IsVector(W(v, x1), Keys)
                                 /\ W(v, x1).elems = Append(m.ballots.elems, x1)
  BY <1>1, WrittenAtBack DEF BallotVectors
<1>4. \A v \in Grown(m.entries) : /\ IsVector(W(v, x2), Seq(Ids))
                                 /\ W(v, x2).elems = Append(m.entries.elems, x2)
  BY <1>1, WrittenAtBack DEF BallotVectors
<1>5. \A v \in Grown(m.values) : /\ IsVector(W(v, x3), Seq(Bytes))
                                /\ W(v, x3).elems = Append(m.values.elems, x3)
  BY <1>1, WrittenAtBack DEF BallotVectors
<1>6. \A v1, v2, v3 : /\ R(v1, v2, v3) = [ballots |-> R(v1, v2, v3).ballots,
                                           entries |-> R(v1, v2, v3).entries,
                                           values |-> R(v1, v2, v3).values]
                     /\ R(v1, v2, v3).ballots = v1
                     /\ R(v1, v2, v3).entries = v2
                     /\ R(v1, v2, v3).values = v3
  OBVIOUS
<1> HIDE DEF R, W
<1>7. CastEncryptedBallotsDecodeFunc(m, e) # {}
  <2>1. PICK v1 \in Grown(m.ballots), v2 \in Grown(m.entries), v3 \in Grown(m.values) : TRUE
    BY DEF Grown
  <2>2. R(W(v1, x1), W(v2, x2), W(v3, x3)) \in CastEncryptedBallotsDecodeFunc(m, e)
    BY <1>2
  <2> QED
    BY <2>2
<1>8. ASSUME NEW o \in CastEncryptedBallotsDecodeFunc(m, e)
      PROVE  /\ o = [ballots |-> o.ballots, entries |-> o.entries, values |-> o.values]
             /\ IsVector(o.ballots, Keys) /\ o.ballots.elems = Append(m.ballots.elems, x1)
             /\ IsVector(o.entries, Seq(Ids)) /\ o.entries.elems = Append(m.entries.elems, x2)
             /\ IsVector(o.values, Seq(Bytes)) /\ o.values.elems = Append(m.values.elems, x3)
  <2>1. PICK v1 \in Grown(m.ballots), v2 \in Grown(m.entries), v3 \in Grown(m.values) :
            o = R(W(v1, x1), W(v2, x2), W(v3, x3))
    BY <1>2
  <2>2. o = [ballots |-> o.ballots, entries |-> o.entries, values |-> o.values]
    BY <1>6, <2>1
  <2>3. IsVector(o.ballots, Keys) /\ o.ballots.elems = Append(m.ballots.elems, x1)
    <3>1. o.ballots = W(v1, x1)
      BY <1>6, <2>1
    <3> QED
      BY <1>3, <3>1
  <2>4. IsVector(o.entries, Seq(Ids)) /\ o.entries.elems = Append(m.entries.elems, x2)
    <3>1. o.entries = W(v2, x2)
      BY <1>6, <2>1
    <3> QED
      BY <1>4, <3>1
  <2>5. IsVector(o.values, Seq(Bytes)) /\ o.values.elems = Append(m.values.elems, x3)
    <3>1. o.values = W(v3, x3)
      BY <1>6, <2>1
    <3> QED
      BY <1>5, <3>1
  <2> QED
    BY <2>2, <2>3, <2>4, <2>5
<1> QED
  BY <1>7, <1>8 DEF BallotVectors, BallotAppended, x1, x2, x3

\* The ids, candidates and bytes of a list of ballots, by the index of the ballot.
IdsIn(parts) == [i \in 1 .. Len(parts) |-> parts[i].id]
ListsIn(parts) == [i \in 1 .. Len(parts) |-> CandidatesIn(parts[i].entries)]
BytesIn(parts) == [i \in 1 .. Len(parts) |-> ValuesIn(parts[i].entries)]

LEMMA BallotPartsIn ==
    ASSUME NEW Keys, NEW Ids, NEW Bytes,
           NEW parts \in Seq(BallotSet(Keys, Ids, Bytes))
    PROVE  /\ IdsIn(parts) \in [1 .. Len(parts) -> Keys]
           /\ ListsIn(parts) \in [1 .. Len(parts) -> Seq(Ids)]
           /\ BytesIn(parts) \in [1 .. Len(parts) -> Seq(Bytes)]
<1>1. \A i \in 1 .. Len(parts) : parts[i] \in BallotSet(Keys, Ids, Bytes)
  BY ElementOfSeq, LenProperties
<1>2. \A i \in 1 .. Len(parts) : /\ parts[i].id \in Keys
                                 /\ parts[i].entries \in Seq([candidate : Ids, value : Bytes])
  BY <1>1 DEF BallotSet
<1>3. \A i \in 1 .. Len(parts) : /\ CandidatesIn(parts[i].entries) \in Seq(Ids)
                                 /\ ValuesIn(parts[i].entries) \in Seq(Bytes)
  BY <1>2, PartsIn
<1>4. IdsIn(parts) \in [1 .. Len(parts) -> Keys]
  BY <1>2 DEF IdsIn
<1>5. ListsIn(parts) \in [1 .. Len(parts) -> Seq(Ids)]
  BY <1>3 DEF ListsIn
<1>6. BytesIn(parts) \in [1 .. Len(parts) -> Seq(Bytes)]
  BY <1>3 DEF BytesIn
<1> QED
  BY <1>4, <1>5, <1>6

\* The outcomes of decoding a list of ballots.
BallotsDecoded(parts) ==
    Decoded(CastEncryptedBallotsDecodeFunc,
            [ballots |-> Vector(<<>>), entries |-> Vector(<<>>), values |-> Vector(<<>>)], parts)

LEMMA BallotListsDecoded ==
    ASSUME NEW Keys, NEW Ids, NEW Bytes, NEW parts \in Seq(BallotSet(Keys, Ids, Bytes))
    PROVE  /\ BallotsDecoded(parts) # {}
           /\ \A m \in BallotsDecoded(parts) :
                 /\ m.ballots.elems = IdsIn(parts)
                 /\ m.entries.elems = ListsIn(parts)
                 /\ m.values.elems = BytesIn(parts)
<1> DEFINE N == Len(parts)
           start == [ballots |-> Vector(<<>>), entries |-> Vector(<<>>), values |-> Vector(<<>>)]
           Out == [ballots : [place : Nat, elems : Seq(Keys)],
                   entries : [place : Nat, elems : Seq(Seq(Ids))],
                   values : [place : Nat, elems : Seq(Seq(Bytes))]]
           Good == [n \in 0 .. N |->
                      {m \in Out : /\ m.ballots.elems = Prefix(IdsIn(parts), n)
                                  /\ m.entries.elems = Prefix(ListsIn(parts), n)
                                  /\ m.values.elems = Prefix(BytesIn(parts), n)}]
           D(m, n) == CastEncryptedBallotsDecodeFunc(m, parts[n])
           step == [p \in Out \X (1 .. N) |-> D(p[1], p[2])]
<1>1. N \in Nat
  BY LenProperties
<1>2. parts \in [1 .. N -> BallotSet(Keys, Ids, Bytes)]
  BY LenProperties
<1>3. IdsIn(parts) \in [1 .. N -> Keys]
  BY BallotPartsIn DEF N
<1>4. ListsIn(parts) \in [1 .. N -> Seq(Ids)]
  BY BallotPartsIn DEF N
<1>5. BytesIn(parts) \in [1 .. N -> Seq(Bytes)]
  BY BallotPartsIn DEF N
<1>6. \A n \in 1 .. N : /\ IdsIn(parts)[n] = parts[n].id
                        /\ ListsIn(parts)[n] = CandidatesIn(parts[n].entries)
                        /\ BytesIn(parts)[n] = ValuesIn(parts[n].entries)
  BY DEF IdsIn, ListsIn, BytesIn, N
<1> HIDE DEF N
<1>7. Prefix(IdsIn(parts), 0) = <<>> /\ Prefix(IdsIn(parts), N) = IdsIn(parts)
  BY <1>3, <1>1, PrefixEnds
<1>8. ASSUME NEW n \in 1 .. N
      PROVE  Append(Prefix(IdsIn(parts), n - 1), IdsIn(parts)[n]) = Prefix(IdsIn(parts), n)
  BY <1>3, <1>1, PrefixGrows
<1>9. Prefix(ListsIn(parts), 0) = <<>> /\ Prefix(ListsIn(parts), N) = ListsIn(parts)
  BY <1>4, <1>1, PrefixEnds
<1>10. ASSUME NEW n \in 1 .. N
      PROVE  Append(Prefix(ListsIn(parts), n - 1), ListsIn(parts)[n]) = Prefix(ListsIn(parts), n)
  BY <1>4, <1>1, PrefixGrows
<1>11. Prefix(BytesIn(parts), 0) = <<>> /\ Prefix(BytesIn(parts), N) = BytesIn(parts)
  BY <1>5, <1>1, PrefixEnds
<1>12. ASSUME NEW n \in 1 .. N
      PROVE  Append(Prefix(BytesIn(parts), n - 1), BytesIn(parts)[n]) = Prefix(BytesIn(parts), n)
  BY <1>5, <1>1, PrefixGrows
<1>13. /\ start \in Out /\ start \in Good[0]
      /\ \A n \in 0 .. N : Good[n] \in SUBSET Out
  <2>1. /\ Vector(<<>>) \in [place : Nat, elems : Seq(Keys)]
        /\ Vector(<<>>) \in [place : Nat, elems : Seq(Seq(Ids))]
        /\ Vector(<<>>) \in [place : Nat, elems : Seq(Seq(Bytes))]
        /\ Vector(<<>>).elems = <<>>
    BY EmptyVector
  <2>2. start \in Out
    BY <2>1
  <2>3. /\ start.ballots.elems = <<>>
        /\ start.entries.elems = <<>>
        /\ start.values.elems = <<>>
    BY <2>1
  <2>4. 0 \in 0 .. N
    BY <1>1
  <2> HIDE DEF start
  <2>5. start \in Good[0]
    BY <1>7, <1>9, <1>11, <2>2, <2>3, <2>4
  <2> QED
    BY <2>2, <2>5
<1>14. ASSUME NEW n \in 1 .. N, NEW m \in Good[n - 1]
      PROVE  D(m, n) # {} /\ D(m, n) \in SUBSET Good[n]
  <2>1. m \in Out /\ n \in 0 .. N
    BY <1>1
  <2>2. /\ m.ballots.elems = Prefix(IdsIn(parts), n - 1)
        /\ m.entries.elems = Prefix(ListsIn(parts), n - 1)
        /\ m.values.elems = Prefix(BytesIn(parts), n - 1)
    BY <1>1
  <2>3. BallotVectors(m, Keys, Ids, Bytes)
    BY <2>1 DEF IsVector, BallotVectors
  <2>4. parts[n] \in BallotSet(Keys, Ids, Bytes)
    BY <1>2
  <2> HIDE DEF Good, Out, step
  <2>5. D(m, n) # {}
    BY <2>3, <2>4, BallotDecodes
  <2>6. ASSUME NEW o \in D(m, n) PROVE o \in Good[n]
    <3>1. BallotVectors(o, Keys, Ids, Bytes) /\ BallotAppended(m, o, parts[n])
      BY <2>3, <2>4, BallotDecodes
    <3>2. o \in Out
      BY <3>1 DEF IsVector, Out, BallotVectors
    <3>3. o.ballots.elems = Prefix(IdsIn(parts), n)
      BY <1>6, <1>8, <2>2, <3>1 DEF BallotAppended
    <3>4. o.entries.elems = Prefix(ListsIn(parts), n)
      BY <1>6, <1>10, <2>2, <3>1 DEF BallotAppended
    <3>5. o.values.elems = Prefix(BytesIn(parts), n)
      BY <1>6, <1>12, <2>2, <3>1 DEF BallotAppended
    <3> QED
      BY <2>1, <3>2, <3>3, <3>4, <3>5 DEF Good
  <2> QED
    BY <2>5, <2>6
<1> HIDE DEF start, Good, Out
<1>15. \A n \in 1 .. N : \A o \in Good[n - 1] : step[<<o, n>>] = D(o, n)
  <2> TAKE n \in 1 .. N
  <2> TAKE o \in Good[n - 1]
  <2>1. n - 1 \in 0 .. N /\ o \in Out
    BY <1>1, <1>13
  <2> QED
    BY <2>1
<1> HIDE DEF step, D
<1>16. KeepsGood(step, Good, N)
  BY <1>14, <1>15 DEF KeepsGood
<1>17. PICK g : GoodOutcomes(g, start, step, Good, N)
  BY <1>1, <1>13, <1>16, OutcomesStayGood
<1>18. g = [n \in 0 .. N |-> IF n = 0 THEN {start} ELSE UNION {D(o, n) : o \in g[n - 1]}]
  <2>1. ASSUME NEW n \in 0 .. N, n # 0
        PROVE  After(step, g[n - 1], n) = UNION {D(o, n) : o \in g[n - 1]}
    <3>1. n - 1 \in 0 .. N /\ n \in 1 .. N
      BY <1>1, <2>1
    <3>2. g[n - 1] \in SUBSET Good[n - 1]
      BY <1>17, <3>1 DEF GoodOutcomes
    <3> QED
      BY <1>15, <3>1, <3>2 DEF After
  <2> QED
    BY <1>17, <2>1 DEF GoodOutcomes
<1> DEFINE F == CHOOSE f : f = [n \in 0 .. N |-> IF n = 0 THEN {start}
                                    ELSE UNION {D(o, n) : o \in f[n - 1]}]
<1>19. F = [n \in 0 .. N |-> IF n = 0 THEN {start} ELSE UNION {D(o, n) : o \in F[n - 1]}]
  BY <1>18, Zenon
<1>20. Decoded(CastEncryptedBallotsDecodeFunc, start, parts) = F[N]
  BY Zenon DEF Decoded, N, D
<1> HIDE DEF F
<1>21. F[N] # {} /\ F[N] \in SUBSET Good[N]
  <2>1. F[0] # {} /\ F[0] \in SUBSET Good[0]
    BY <1>1, <1>13, <1>19
  <2>2. ASSUME NEW n \in 1 .. N, F[n - 1] # {}, F[n - 1] \in SUBSET Good[n - 1]
        PROVE  F[n] # {} /\ F[n] \in SUBSET Good[n]
    <3>1. n \in 0 .. N /\ n # 0
      BY <1>1
    <3>2. F[n] = UNION {D(o, n) : o \in F[n - 1]}
      BY <1>19, <3>1
    <3> QED
      BY <1>14, <2>2, <3>2
  <2>3. \A n \in 0 .. N : F[n] # {} /\ F[n] \in SUBSET Good[n]
    BY <1>1, <2>1, <2>2, OutcomesGood
  <2>4. N \in 0 .. N
    BY <1>1
  <2> QED
    BY <2>3, <2>4
<1>22. N \in 0 .. N
  BY <1>1
<1>23. \A m \in F[N] : /\ m.ballots.elems = IdsIn(parts)
                       /\ m.entries.elems = ListsIn(parts)
                       /\ m.values.elems = BytesIn(parts)
  BY <1>7, <1>9, <1>11, <1>21, <1>22 DEF Good
<1>24. BallotsDecoded(parts) = F[N]
  BY <1>20 DEF BallotsDecoded, start
<1> QED
  BY <1>21, <1>23, <1>24

\* However the vectors of getEncryptedBallots' client are moved, under an index are
\* the id, the candidates and the bytes of one ballot of the message, and of all
\* of them in its order.
THEOREM BallotListsArrive ==
    ASSUME NEW Keys, NEW Ids, NEW Bytes,
           NEW page \in Seq(BallotSet(Keys, Ids, Bytes))
    PROVE  CastEncryptedBallotsOf(page) =
               {[ids |-> IdsIn(page), candidates |-> ListsIn(page), values |-> BytesIn(page)]}
<1> DEFINE R(m) == [ids |-> m.ballots.elems, candidates |-> m.entries.elems,
                    values |-> m.values.elems]
<1>1. CastEncryptedBallotsOf(page) = {R(m) : m \in BallotsDecoded(page)}
  BY DEF CastEncryptedBallotsOf, BallotsDecoded
<1>2. /\ BallotsDecoded(page) # {}
      /\ \A m \in BallotsDecoded(page) : /\ m.ballots.elems = IdsIn(page)
                                         /\ m.entries.elems = ListsIn(page)
                                         /\ m.values.elems = BytesIn(page)
  BY BallotListsDecoded
<1>3. \A m \in BallotsDecoded(page) :
          R(m) = [ids |-> IdsIn(page), candidates |-> ListsIn(page), values |-> BytesIn(page)]
  BY <1>2
<1> HIDE DEF R
<1> QED
  BY <1>1, <1>2, <1>3

\* Elections, each with an id and three lists.
ElectionSet(Keys, Gs, Cs, Ts) ==
    [id : Keys, groups : Seq(Gs), candidates : Seq(Cs), tallied : Seq(Ts)]

\* What the callbacks make of the lists of an election.
ListsDecodedIn(e) ==
    [ints    |-> Contents(IntArrayDecodeFunc, e.groups),
     list    |-> Contents(CandidatesDecodeFunc, e.candidates),
     results |-> Contents(TallyEntriesDecodeFunc, e.tallied)]

LEMMA ListsDecodedAre ==
    ASSUME NEW Keys, NEW Gs, NEW Cs, NEW Ts, NEW e \in ElectionSet(Keys, Gs, Cs, Ts)
    PROVE  /\ ListsDecodedIn(e).ints = {e.groups}
           /\ ListsDecodedIn(e).list = {e.candidates}
           /\ ListsDecodedIn(e).results = {e.tallied}
<1>1. e.groups \in Seq(Gs) /\ e.candidates \in Seq(Cs) /\ e.tallied \in Seq(Ts)
  BY DEF ElectionSet
<1>2. Contents(IntArrayDecodeFunc, e.groups) = {e.groups}
  BY <1>1, IntArrayDecoded
<1>3. Contents(CandidatesDecodeFunc, e.candidates) = {e.candidates}
  BY <1>1, ListsDecoded
<1>4. Contents(TallyEntriesDecodeFunc, e.tallied) = {e.tallied}
  BY <1>1, ListsDecoded
<1> QED
  BY <1>2, <1>3, <1>4 DEF ListsDecodedIn

\* The four vectors of a list of elections, and the next one at their ends.
ElectionVectors(m, Keys, Gs, Cs, Ts) ==
    /\ m = [elections |-> m.elections, groups |-> m.groups, candidates |-> m.candidates,
            tallies |-> m.tallies]
    /\ IsVector(m.elections, Keys)
    /\ IsVector(m.groups, Seq(Gs))
    /\ IsVector(m.candidates, Seq(Cs))
    /\ IsVector(m.tallies, Seq(Ts))

ElectionAppended(m, o, e) ==
    /\ o.elections.elems = Append(m.elections.elems, e.id)
    /\ o.groups.elems = Append(m.groups.elems, e.groups)
    /\ o.candidates.elems = Append(m.candidates.elems, e.candidates)
    /\ o.tallies.elems = Append(m.tallies.elems, e.tallied)

\* ElectionsDecodeFunc appends to four vectors, three of them vectors of vectors,
\* what belongs to one election.
LEMMA ElectionDecodes ==
    ASSUME NEW Keys, NEW Gs, NEW Cs, NEW Ts, NEW m, ElectionVectors(m, Keys, Gs, Cs, Ts),
           NEW e \in ElectionSet(Keys, Gs, Cs, Ts)
    PROVE  /\ ElectionsDecodeFunc(m, e) # {}
           /\ \A o \in ElectionsDecodeFunc(m, e) :
                 ElectionVectors(o, Keys, Gs, Cs, Ts) /\ ElectionAppended(m, o, e)
<1> DEFINE R(v1, v2, v3, v4) == [elections |-> v1, groups |-> v2, candidates |-> v3, tallies |-> v4]
           W(v, x) == Written(v, Back(v), x)
           x1 == e.id
           x2 == e.groups
           x3 == e.candidates
           x4 == e.tallied
<1>1. x1 \in Keys /\ x2 \in Seq(Gs) /\ x3 \in Seq(Cs) /\ x4 \in Seq(Ts)
  BY DEF ElectionSet
<1>2. ElectionsDecodeFunc(m, e) =
         {R(W(v1, x1), W(v2, x2), W(v3, x3), W(v4, x4)) :
             v1 \in Grown(m.elections), v2 \in Grown(m.groups),
             v3 \in Grown(m.candidates), v4 \in Grown(m.tallies)}
  <2> DEFINE d == ListsDecodedIn(e)
  <2>1. ElectionsDecodeFunc(m, e) =
           {R(W(v1, x1), W(v2, i), W(v3, c), W(v4, t)) :
               v1 \in Grown(m.elections), v2 \in Grown(m.groups),
               v3 \in Grown(m.candidates), v4 \in Grown(m.tallies),
               i \in d.ints, c \in d.list, t \in d.results}
    BY DEF ElectionsDecodeFunc, ListsDecodedIn
  <2>2. d.ints = {x2} /\ d.list = {x3} /\ d.results = {x4}
    BY ListsDecodedAre
  <2> HIDE DEF d, R, W, x1, x2, x3, x4
  <2> QED
    BY <2>1, <2>2
<1> HIDE DEF x1, x2, x3, x4
<1>3. \A v \in Grown(m.elections) : /\ IsVector(W(v, x1), Keys)
                                   /\ W(v, x1).elems = Append(m.elections.elems, x1)
  BY <1>1, WrittenAtBack DEF ElectionVectors
<1>4. \A v \in Grown(m.groups) : /\ IsVector(W(v, x2), Seq(Gs))
                                /\ W(v, x2).elems = Append(m.groups.elems, x2)
  BY <1>1, WrittenAtBack DEF ElectionVectors
<1>5. \A v \in Grown(m.candidates) : /\ IsVector(W(v, x3), Seq(Cs))
                                    /\ W(v, x3).elems = Append(m.candidates.elems, x3)
  BY <1>1, WrittenAtBack DEF ElectionVectors
<1>6. \A v \in Grown(m.tallies) : /\ IsVector(W(v, x4), Seq(Ts))
                                 /\ W(v, x4).elems = Append(m.tallies.elems, x4)
  BY <1>1, WrittenAtBack DEF ElectionVectors
<1>7. \A v1, v2, v3, v4 : /\ R(v1, v2, v3, v4) = [elections |-> R(v1, v2, v3, v4).elections,
                                                   groups |-> R(v1, v2, v3, v4).groups,
                                                   candidates |-> R(v1, v2, v3, v4).candidates,
                                                   tallies |-> R(v1, v2, v3, v4).tallies]
                         /\ R(v1, v2, v3, v4).elections = v1
                         /\ R(v1, v2, v3, v4).groups = v2
                         /\ R(v1, v2, v3, v4).candidates = v3
                         /\ R(v1, v2, v3, v4).tallies = v4
  OBVIOUS
<1> HIDE DEF R, W
<1>8. ElectionsDecodeFunc(m, e) # {}
  <2>1. PICK v1 \in Grown(m.elections), v2 \in Grown(m.groups),
             v3 \in Grown(m.candidates), v4 \in Grown(m.tallies) : TRUE
    BY DEF Grown
  <2>2. R(W(v1, x1), W(v2, x2), W(v3, x3), W(v4, x4)) \in ElectionsDecodeFunc(m, e)
    BY <1>2
  <2> QED
    BY <2>2
<1>9. ASSUME NEW o \in ElectionsDecodeFunc(m, e)
      PROVE  /\ o = [elections |-> o.elections, groups |-> o.groups,
                     candidates |-> o.candidates, tallies |-> o.tallies]
             /\ IsVector(o.elections, Keys) /\ o.elections.elems = Append(m.elections.elems, x1)
             /\ IsVector(o.groups, Seq(Gs)) /\ o.groups.elems = Append(m.groups.elems, x2)
             /\ IsVector(o.candidates, Seq(Cs))
             /\ o.candidates.elems = Append(m.candidates.elems, x3)
             /\ IsVector(o.tallies, Seq(Ts)) /\ o.tallies.elems = Append(m.tallies.elems, x4)
  <2>1. PICK v1 \in Grown(m.elections), v2 \in Grown(m.groups),
             v3 \in Grown(m.candidates), v4 \in Grown(m.tallies) :
            o = R(W(v1, x1), W(v2, x2), W(v3, x3), W(v4, x4))
    BY <1>2
  <2>2. o = [elections |-> o.elections, groups |-> o.groups,
             candidates |-> o.candidates, tallies |-> o.tallies]
    BY <1>7, <2>1
  <2>3. IsVector(o.elections, Keys) /\ o.elections.elems = Append(m.elections.elems, x1)
    <3>1. o.elections = W(v1, x1)
      BY <1>7, <2>1
    <3> QED
      BY <1>3, <3>1
  <2>4. IsVector(o.groups, Seq(Gs)) /\ o.groups.elems = Append(m.groups.elems, x2)
    <3>1. o.groups = W(v2, x2)
      BY <1>7, <2>1
    <3> QED
      BY <1>4, <3>1
  <2>5. IsVector(o.candidates, Seq(Cs)) /\ o.candidates.elems = Append(m.candidates.elems, x3)
    <3>1. o.candidates = W(v3, x3)
      BY <1>7, <2>1
    <3> QED
      BY <1>5, <3>1
  <2>6. IsVector(o.tallies, Seq(Ts)) /\ o.tallies.elems = Append(m.tallies.elems, x4)
    <3>1. o.tallies = W(v4, x4)
      BY <1>7, <2>1
    <3> QED
      BY <1>6, <3>1
  <2> QED
    BY <2>2, <2>3, <2>4, <2>5, <2>6
<1> QED
  BY <1>8, <1>9 DEF ElectionVectors, ElectionAppended, x1, x2, x3, x4

\* The ids and the lists of a list of elections, by the index of the election.
ElectionIdsIn(parts) == [i \in 1 .. Len(parts) |-> parts[i].id]
GroupsIn(parts) == [i \in 1 .. Len(parts) |-> parts[i].groups]
CandidateListsIn(parts) == [i \in 1 .. Len(parts) |-> parts[i].candidates]
TallyListsIn(parts) == [i \in 1 .. Len(parts) |-> parts[i].tallied]

LEMMA ElectionPartsIn ==
    ASSUME NEW Keys, NEW Gs, NEW Cs, NEW Ts,
           NEW parts \in Seq(ElectionSet(Keys, Gs, Cs, Ts))
    PROVE  /\ ElectionIdsIn(parts) \in [1 .. Len(parts) -> Keys]
           /\ GroupsIn(parts) \in [1 .. Len(parts) -> Seq(Gs)]
           /\ CandidateListsIn(parts) \in [1 .. Len(parts) -> Seq(Cs)]
           /\ TallyListsIn(parts) \in [1 .. Len(parts) -> Seq(Ts)]
<1>1. \A i \in 1 .. Len(parts) : parts[i] \in ElectionSet(Keys, Gs, Cs, Ts)
  BY ElementOfSeq, LenProperties
<1>2. \A i \in 1 .. Len(parts) : /\ parts[i].id \in Keys /\ parts[i].groups \in Seq(Gs)
                                 /\ parts[i].candidates \in Seq(Cs)
                                 /\ parts[i].tallied \in Seq(Ts)
  BY <1>1 DEF ElectionSet
<1> QED
  BY <1>2 DEF ElectionIdsIn, GroupsIn, CandidateListsIn, TallyListsIn

\* The outcomes of decoding a list of elections.
ElectionsDecoded(parts) ==
    Decoded(ElectionsDecodeFunc,
            [elections |-> Vector(<<>>), groups |-> Vector(<<>>),
             candidates |-> Vector(<<>>), tallies |-> Vector(<<>>)], parts)

LEMMA ElectionListsDecoded ==
    ASSUME NEW Keys, NEW Gs, NEW Cs, NEW Ts, NEW parts \in Seq(ElectionSet(Keys, Gs, Cs, Ts))
    PROVE  /\ ElectionsDecoded(parts) # {}
           /\ \A m \in ElectionsDecoded(parts) :
                 /\ m.elections.elems = ElectionIdsIn(parts)
                 /\ m.groups.elems = GroupsIn(parts)
                 /\ m.candidates.elems = CandidateListsIn(parts)
                 /\ m.tallies.elems = TallyListsIn(parts)
<1> DEFINE N == Len(parts)
           start == [elections |-> Vector(<<>>), groups |-> Vector(<<>>),
                     candidates |-> Vector(<<>>), tallies |-> Vector(<<>>)]
           Out == [elections : [place : Nat, elems : Seq(Keys)],
                   groups : [place : Nat, elems : Seq(Seq(Gs))],
                   candidates : [place : Nat, elems : Seq(Seq(Cs))],
                   tallies : [place : Nat, elems : Seq(Seq(Ts))]]
           Good == [n \in 0 .. N |->
                      {m \in Out : /\ m.elections.elems = Prefix(ElectionIdsIn(parts), n)
                                  /\ m.groups.elems = Prefix(GroupsIn(parts), n)
                                  /\ m.candidates.elems = Prefix(CandidateListsIn(parts), n)
                                  /\ m.tallies.elems = Prefix(TallyListsIn(parts), n)}]
           D(m, n) == ElectionsDecodeFunc(m, parts[n])
           step == [p \in Out \X (1 .. N) |-> D(p[1], p[2])]
<1>1. N \in Nat
  BY LenProperties
<1>2. parts \in [1 .. N -> ElectionSet(Keys, Gs, Cs, Ts)]
  BY LenProperties
<1>3. ElectionIdsIn(parts) \in [1 .. N -> Keys]
  BY ElectionPartsIn DEF N
<1>4. GroupsIn(parts) \in [1 .. N -> Seq(Gs)]
  BY ElectionPartsIn DEF N
<1>5. CandidateListsIn(parts) \in [1 .. N -> Seq(Cs)]
  BY ElectionPartsIn DEF N
<1>6. TallyListsIn(parts) \in [1 .. N -> Seq(Ts)]
  BY ElectionPartsIn DEF N
<1>7. \A n \in 1 .. N : /\ ElectionIdsIn(parts)[n] = parts[n].id
                        /\ GroupsIn(parts)[n] = parts[n].groups
                        /\ CandidateListsIn(parts)[n] = parts[n].candidates
                        /\ TallyListsIn(parts)[n] = parts[n].tallied
  BY DEF ElectionIdsIn, GroupsIn, CandidateListsIn, TallyListsIn, N
<1> HIDE DEF N
<1>8. /\ Prefix(ElectionIdsIn(parts), 0) = <<>>
      /\ Prefix(ElectionIdsIn(parts), N) = ElectionIdsIn(parts)
  BY <1>3, <1>1, PrefixEnds
<1>9. ASSUME NEW n \in 1 .. N
      PROVE  Append(Prefix(ElectionIdsIn(parts), n - 1), ElectionIdsIn(parts)[n])
                = Prefix(ElectionIdsIn(parts), n)
  BY <1>3, <1>1, PrefixGrows
<1>10. Prefix(GroupsIn(parts), 0) = <<>> /\ Prefix(GroupsIn(parts), N) = GroupsIn(parts)
  BY <1>4, <1>1, PrefixEnds
<1>11. ASSUME NEW n \in 1 .. N
      PROVE  Append(Prefix(GroupsIn(parts), n - 1), GroupsIn(parts)[n]) = Prefix(GroupsIn(parts), n)
  BY <1>4, <1>1, PrefixGrows
<1>12. /\ Prefix(CandidateListsIn(parts), 0) = <<>>
       /\ Prefix(CandidateListsIn(parts), N) = CandidateListsIn(parts)
  BY <1>5, <1>1, PrefixEnds
<1>13. ASSUME NEW n \in 1 .. N
      PROVE  Append(Prefix(CandidateListsIn(parts), n - 1), CandidateListsIn(parts)[n])
                = Prefix(CandidateListsIn(parts), n)
  BY <1>5, <1>1, PrefixGrows
<1>14. Prefix(TallyListsIn(parts), 0) = <<>> /\ Prefix(TallyListsIn(parts), N) = TallyListsIn(parts)
  BY <1>6, <1>1, PrefixEnds
<1>15. ASSUME NEW n \in 1 .. N
      PROVE  Append(Prefix(TallyListsIn(parts), n - 1), TallyListsIn(parts)[n])
                = Prefix(TallyListsIn(parts), n)
  BY <1>6, <1>1, PrefixGrows
<1>16. /\ start \in Out /\ start \in Good[0]
      /\ \A n \in 0 .. N : Good[n] \in SUBSET Out
  <2>1. /\ Vector(<<>>) \in [place : Nat, elems : Seq(Keys)]
        /\ Vector(<<>>) \in [place : Nat, elems : Seq(Seq(Gs))]
        /\ Vector(<<>>) \in [place : Nat, elems : Seq(Seq(Cs))]
        /\ Vector(<<>>) \in [place : Nat, elems : Seq(Seq(Ts))]
        /\ Vector(<<>>).elems = <<>>
    BY EmptyVector
  <2>2. start \in Out
    BY <2>1
  <2>3. /\ start.elections.elems = <<>>
        /\ start.groups.elems = <<>>
        /\ start.candidates.elems = <<>>
        /\ start.tallies.elems = <<>>
    BY <2>1
  <2>4. 0 \in 0 .. N
    BY <1>1
  <2> HIDE DEF start
  <2>5. start \in Good[0]
    BY <1>8, <1>10, <1>12, <1>14, <2>2, <2>3, <2>4
  <2> QED
    BY <2>2, <2>5
<1>17. ASSUME NEW n \in 1 .. N, NEW m \in Good[n - 1]
      PROVE  D(m, n) # {} /\ D(m, n) \in SUBSET Good[n]
  <2>1. m \in Out /\ n \in 0 .. N
    BY <1>1
  <2>2. /\ m.elections.elems = Prefix(ElectionIdsIn(parts), n - 1)
        /\ m.groups.elems = Prefix(GroupsIn(parts), n - 1)
        /\ m.candidates.elems = Prefix(CandidateListsIn(parts), n - 1)
        /\ m.tallies.elems = Prefix(TallyListsIn(parts), n - 1)
    BY <1>1
  <2>3. ElectionVectors(m, Keys, Gs, Cs, Ts)
    BY <2>1 DEF IsVector, ElectionVectors
  <2>4. parts[n] \in ElectionSet(Keys, Gs, Cs, Ts)
    BY <1>2
  <2> HIDE DEF Good, Out, step
  <2>5. D(m, n) # {}
    BY <2>3, <2>4, ElectionDecodes
  <2>6. ASSUME NEW o \in D(m, n) PROVE o \in Good[n]
    <3>1. ElectionVectors(o, Keys, Gs, Cs, Ts) /\ ElectionAppended(m, o, parts[n])
      BY <2>3, <2>4, ElectionDecodes
    <3>2. o \in Out
      BY <3>1 DEF IsVector, Out, ElectionVectors
    <3>3. o.elections.elems = Prefix(ElectionIdsIn(parts), n)
      BY <1>7, <1>9, <2>2, <3>1 DEF ElectionAppended
    <3>4. o.groups.elems = Prefix(GroupsIn(parts), n)
      BY <1>7, <1>11, <2>2, <3>1 DEF ElectionAppended
    <3>5. o.candidates.elems = Prefix(CandidateListsIn(parts), n)
      BY <1>7, <1>13, <2>2, <3>1 DEF ElectionAppended
    <3>6. o.tallies.elems = Prefix(TallyListsIn(parts), n)
      BY <1>7, <1>15, <2>2, <3>1 DEF ElectionAppended
    <3> QED
      BY <2>1, <3>2, <3>3, <3>4, <3>5, <3>6 DEF Good
  <2> QED
    BY <2>5, <2>6
<1> HIDE DEF start, Good, Out
<1>18. \A n \in 1 .. N : \A o \in Good[n - 1] : step[<<o, n>>] = D(o, n)
  <2> TAKE n \in 1 .. N
  <2> TAKE o \in Good[n - 1]
  <2>1. n - 1 \in 0 .. N /\ o \in Out
    BY <1>1, <1>16
  <2> QED
    BY <2>1
<1> HIDE DEF step, D
<1>19. KeepsGood(step, Good, N)
  BY <1>17, <1>18 DEF KeepsGood
<1>20. PICK g : GoodOutcomes(g, start, step, Good, N)
  BY <1>1, <1>16, <1>19, OutcomesStayGood
<1>21. g = [n \in 0 .. N |-> IF n = 0 THEN {start} ELSE UNION {D(o, n) : o \in g[n - 1]}]
  <2>1. ASSUME NEW n \in 0 .. N, n # 0
        PROVE  After(step, g[n - 1], n) = UNION {D(o, n) : o \in g[n - 1]}
    <3>1. n - 1 \in 0 .. N /\ n \in 1 .. N
      BY <1>1, <2>1
    <3>2. g[n - 1] \in SUBSET Good[n - 1]
      BY <1>20, <3>1 DEF GoodOutcomes
    <3> QED
      BY <1>18, <3>1, <3>2 DEF After
  <2> QED
    BY <1>20, <2>1 DEF GoodOutcomes
<1> DEFINE F == CHOOSE f : f = [n \in 0 .. N |-> IF n = 0 THEN {start}
                                    ELSE UNION {D(o, n) : o \in f[n - 1]}]
<1>22. F = [n \in 0 .. N |-> IF n = 0 THEN {start} ELSE UNION {D(o, n) : o \in F[n - 1]}]
  BY <1>21, Zenon
<1>23. Decoded(ElectionsDecodeFunc, start, parts) = F[N]
  BY Zenon DEF Decoded, N, D
<1> HIDE DEF F
<1>24. F[N] # {} /\ F[N] \in SUBSET Good[N]
  <2>1. F[0] # {} /\ F[0] \in SUBSET Good[0]
    BY <1>1, <1>16, <1>22
  <2>2. ASSUME NEW n \in 1 .. N, F[n - 1] # {}, F[n - 1] \in SUBSET Good[n - 1]
        PROVE  F[n] # {} /\ F[n] \in SUBSET Good[n]
    <3>1. n \in 0 .. N /\ n # 0
      BY <1>1
    <3>2. F[n] = UNION {D(o, n) : o \in F[n - 1]}
      BY <1>22, <3>1
    <3> QED
      BY <1>17, <2>2, <3>2
  <2>3. \A n \in 0 .. N : F[n] # {} /\ F[n] \in SUBSET Good[n]
    BY <1>1, <2>1, <2>2, OutcomesGood
  <2>4. N \in 0 .. N
    BY <1>1
  <2> QED
    BY <2>3, <2>4
<1>25. N \in 0 .. N
  BY <1>1
<1>26. \A m \in F[N] : /\ m.elections.elems = ElectionIdsIn(parts)
                       /\ m.groups.elems = GroupsIn(parts)
                       /\ m.candidates.elems = CandidateListsIn(parts)
                       /\ m.tallies.elems = TallyListsIn(parts)
  BY <1>8, <1>10, <1>12, <1>14, <1>24, <1>25 DEF Good
<1>27. ElectionsDecoded(parts) = F[N]
  BY <1>23 DEF ElectionsDecoded, start
<1> QED
  BY <1>24, <1>26, <1>27

\* However the vectors of getElections' client are moved, under an index are the id
\* and the lists of one election of the message, and of all of them in its order.
THEOREM ElectionListsArrive ==
    ASSUME NEW Keys, NEW Gs, NEW Cs, NEW Ts,
           NEW list \in Seq(ElectionSet(Keys, Gs, Cs, Ts))
    PROVE  ElectionsOf(list) =
               {[ids |-> ElectionIdsIn(list), groups |-> GroupsIn(list),
                 candidates |-> CandidateListsIn(list), tallies |-> TallyListsIn(list)]}
<1> DEFINE R(m) == [ids |-> m.elections.elems, groups |-> m.groups.elems,
                    candidates |-> m.candidates.elems, tallies |-> m.tallies.elems]
<1>1. ElectionsOf(list) = {R(m) : m \in ElectionsDecoded(list)}
  BY DEF ElectionsOf, ElectionsDecoded
<1>2. /\ ElectionsDecoded(list) # {}
      /\ \A m \in ElectionsDecoded(list) : /\ m.elections.elems = ElectionIdsIn(list)
                                           /\ m.groups.elems = GroupsIn(list)
                                           /\ m.candidates.elems = CandidateListsIn(list)
                                           /\ m.tallies.elems = TallyListsIn(list)
  BY ElectionListsDecoded
<1>3. \A m \in ElectionsDecoded(list) :
          R(m) = [ids |-> ElectionIdsIn(list), groups |-> GroupsIn(list),
                  candidates |-> CandidateListsIn(list), tallies |-> TallyListsIn(list)]
  BY <1>2
<1> HIDE DEF R
<1> QED
  BY <1>1, <1>2, <1>3

=============================================================================
