------------------------------- MODULE Paillier -------------------------------
(***************************************************************************)
(* The Paillier library and its wrappers in Cryptography.c, over keys      *)
(* small enough to compute with.  A byte has Base values, an unsigned long *)
(* has LongLen bytes and a ciphertext travels in CipherLen of them (256, 8 *)
(* and P_CIPHERTEXT_MAX_LEN = 512 in the build, for keys of 2048 bits).    *)
(* GMP's functions are external and modelled by what they return.          *)
(***************************************************************************)
EXTENDS Integers, Sequences, FiniteSetsExt, SequencesExt

CONSTANTS Bits, Base, LongLen, CipherLen

\* What a byte counts that has i bytes behind it.
Place[i \in Nat] == IF i = 0 THEN 1 ELSE Base * Place[i - 1]

ASSUME PaillierAssumption ==
    /\ Bits \in Nat /\ Bits % 2 = 0 /\ Bits > 2
    /\ Base \in Nat /\ Base > 1
    /\ LongLen \in Nat \ {0}
    \* a long is below every modulus, a ciphertext fits its buffer
    /\ Place[LongLen] <= 2^(Bits - 1)
    /\ CipherLen \in Nat
    /\ 2^(2 * Bits) <= Place[CipherLen]

Long == 0 .. Place[LongLen] - 1
Byte == 0 .. Base - 1

-----------------------------------------------------------------------------
(* GMP *)

IsPrime(x) == x > 1 /\ \A d \in 2 .. x - 1 : x % d # 0

Square(x) == x * x

Lcm(a, b) == Min({k \in 1 .. a * b : k % a = 0 /\ k % b = 0})

Coprime(a, b) == \A d \in 2 .. b : a % d # 0 \/ b % d # 0

Inverses(a, m) == {x \in 1 .. m - 1 : (a * x) % m = 1}

\* mpz_powm
PowMod(b, e, m) ==
    LET pow[k \in 0 .. e] == IF k = 0 THEN 1 ELSE (pow[k - 1] * b) % m
    IN  pow[e] % m

\* mpz_sizeinbase, in bytes and 0 for 0; mpz_export and mpz_import with the
\* most significant byte first and no byte for 0
Size(x) == CHOOSE k \in 0 .. x : x < Place[k] /\ (k = 0 \/ Place[k - 1] <= x)
Digits(x, len) == [i \in 1 .. len |-> (x \div Place[len - i]) % Base]
Export(x) == Digits(x, Size(x))
Import(s) ==
    LET value[i \in 0 .. Len(s)] == IF i = 0 THEN 0 ELSE value[i - 1] * Base + s[i]
    IN  value[Len(s)]

-----------------------------------------------------------------------------
(* Conversions *)

\* A long in the memory of the machine, least significant byte first.
Memory(x) == Reverse(Digits(x, LongLen))
FromMemory(s) == Import(Reverse(s))

\* The wrapper hands the memory of a long to an import that takes its first
\* byte for the most significant one.
PlaintextFromLong(x) == Import(Memory(x))

Zeros(k) == [i \in 1 .. k |-> 0]

\* Mutant: the exported bytes go to the front of the buffer.
PadBehind(len, m) ==
    LET buf == Export(m) IN
    IF Len(buf) <= len THEN buf \o Zeros(len - Len(buf))
                       ELSE SubSeq(buf, Len(buf) - len + 1, Len(buf))

\* paillier_plaintext_to_bytes: leading zeros, or leading bytes cut off.
PlaintextToBytes(len, m) ==
    LET buf == Export(m) IN
    IF Len(buf) <= len THEN Zeros(len - Len(buf)) \o buf
                       ELSE SubSeq(buf, Len(buf) - len + 1, Len(buf))

CiphertextToBytes(c) == Zeros(CipherLen - Size(c)) \o Export(c)
CiphertextFromBytes(s) == Import(s)

-----------------------------------------------------------------------------
(* Keys *)

Lambda(p, q) == Lcm(p - 1, q - 1)

\* complete_prvkey: x; mpz_invert is not asked whether there is an inverse.
XBase(p, q) ==
    ((PowMod(p * q + 1, Lambda(p, q), Square(p * q)) - 1) \div (p * q)) % (p * q)

\* Mutant: keys are not drawn again for a short modulus.
AnyKeyPairs ==
    LET primes == {x \in 0 .. 2^(Bits \div 2) - 1 : IsPrime(x)}
    IN  {k \in [p : primes, q : primes] : k.p # 2 /\ k.q # 2}

\* paillier_keygen: two random primes of at most half the bits, drawn again
\* until the modulus has its top bit.
KeyPairs ==
    LET primes == {x \in 0 .. 2^(Bits \div 2) - 1 : IsPrime(x)}
    IN  {k \in [p : primes, q : primes] : (k.p * k.q) \div 2^(Bits - 1) = 1}

\* Keys as Dec takes them: from the two primes, with lambda and x computed
\* again by paillier_prvkey_from_hex.
PrivateKey(k) ==
    [n |-> k.p * k.q, lambda |-> Lambda(k.p, k.q),
     x |-> IF Inverses(XBase(k.p, k.q), k.p * k.q) = {} THEN 0
           ELSE CHOOSE x \in Inverses(XBase(k.p, k.q), k.p * k.q) : TRUE]

-----------------------------------------------------------------------------
(* Operations: n the public key, r the blinding factor, c a ciphertext. *)

\* paillierEnc; without custom_rand, r is any number below n, 0 included.
Enc(n, long, r) ==
    CiphertextToBytes((PowMod(n + 1, PlaintextFromLong(long), Square(n))
                         * PowMod(r, n, Square(n))) % Square(n))

\* paillier_dec
Plaintext(priv, c) ==
    LET u == PowMod(c, priv.lambda, Square(priv.n))
    IN  (((u - 1) \div priv.n) * priv.x) % priv.n

Dec(priv, ctext) ==
    FromMemory(PlaintextToBytes(LongLen, Plaintext(priv, CiphertextFromBytes(ctext))))

\* Mutant: one factor of the totient lacks its subtraction.
WrongTotient(k) == k.p * (k.q - 1)

Totient(k) == (k.p - 1) * (k.q - 1)

\* paillierGetRand: r as bytes without leading zeros, none if n has no
\* inverse modulo the totient.
GetRand(k, ctext) ==
    LET priv == PrivateKey(k)
        n == priv.n
        c == CiphertextFromBytes(ctext)
        zero == (c * (1 - Plaintext(priv, c) * n)) % Square(n)
        inverses == Inverses(n, Totient(k))
    IN  IF inverses = {} THEN <<>>
        ELSE Export(PowMod(zero, CHOOSE e \in inverses : TRUE, n))

\* The product of the first ciphertexts, from an encryption of zero that is
\* the number 1.
Product(n, ctexts, count) ==
    LET prod[i \in 0 .. count] ==
            IF i = 0 THEN 1
            ELSE (prod[i - 1] * CiphertextFromBytes(ctexts[i])) % Square(n)
    IN  prod[count]

\* Mutant: the loop ends one ciphertext early.
SumAllButLast(n, ctexts) == CiphertextToBytes(Product(n, ctexts, Len(ctexts) - 1))

\* paillierSum
Sum(n, ctexts) == CiphertextToBytes(Product(n, ctexts, Len(ctexts)))
=============================================================================
