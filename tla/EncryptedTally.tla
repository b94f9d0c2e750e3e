---------------------------- MODULE EncryptedTally ----------------------------
(***************************************************************************)
(* One candidate's way through the ciphertexts: keys are made, clients     *)
(* encrypt a choice, castBallot decrypts it to see that it is 0 or 1,      *)
(* generateTally multiplies what was stored, decrypts the product and      *)
(* recovers its blinding factor, and a client encrypts the published sum   *)
(* again to compare.                                                       *)
(***************************************************************************)
EXTENDS Paillier

CONSTANTS
    Votes,    \* what voters type; an unsigned long once encrypted
    Blinds,     \* the blinding factors that are tried
    MaxBallots, \* bound: ballots stored in one election
    None

ASSUME TallyAssumption ==
    /\ Votes \subseteq Long
    /\ Blinds \subseteq Nat
    /\ MaxBallots \in Nat
    \* the plaintexts of one election stay below every modulus
    /\ (MaxBallots + 1) * Place[LongLen - 1] <= 2^(Bits - 1)

VARIABLES
    key,    \* the primes, once made
    sent,   \* a ballot on its way to castBallot
    stored, \* the ballots castBallot has let through
    tally   \* a row of TALLY_ENTRIES; count: the ballots it was made of

vars == <<key, sent, stored, tally>>

Ballot == [choice : Votes, blind : Blinds, ctext : [1 .. CipherLen -> Byte]]
n == key.p * key.q

TypeOK ==
    /\ key \in KeyPairs \cup {None}
    /\ sent \in Ballot \cup {None}
    /\ stored \in Seq(Ballot)
    /\ tally # None =>
          /\ tally.count \in 1 .. Len(stored)
          /\ tally.encrypted \in [1 .. CipherLen -> Byte]
          /\ tally.decrypted \in Long
          /\ tally.r \in Seq(Byte)

Init == key = None /\ sent = None /\ stored = <<>> /\ tally = None

\* create_paillier_keypair, and an administrator who configures the result.
Keygen ==
    /\ key = None
    /\ key' \in KeyPairs
    /\ UNCHANGED <<sent, stored, tally>>

\* Client::castBallot
CastBallot(choice, blind) ==
    /\ key # None /\ sent = None
    /\ Len(stored) < MaxBallots
    /\ blind < n
    /\ sent' = [choice |-> choice, blind |-> blind, ctext |-> Enc(n, choice, blind)]
    /\ UNCHANGED <<key, stored, tally>>

\* castBallot of the server goes by what the ciphertext decrypts to.
Valid(ctext) == Dec(PrivateKey(key), ctext) \in {0, 1}

Store ==
    /\ sent # None
    /\ Valid(sent.ctext)
    /\ stored' = Append(stored, sent)
    /\ sent' = None
    /\ UNCHANGED <<key, tally>>

Refuse ==
    /\ sent # None
    /\ ~Valid(sent.ctext)
    /\ sent' = None
    /\ UNCHANGED <<key, stored, tally>>

\* generateTally.  What paillierGetRand returns is not looked at: without a
\* result the column is empty.
GenerateTally ==
    /\ tally = None /\ stored # <<>>
    /\ LET sum == Sum(n, [i \in DOMAIN stored |-> stored[i].ctext])
       IN  tally' = [count |-> Len(stored), encrypted |-> sum,
                     decrypted |-> Dec(PrivateKey(key), sum),
                     r |-> GetRand(key, sum)]
    /\ UNCHANGED <<key, sent, stored>>

\* The next election under the same key.
NextElection ==
    /\ tally # None /\ sent = None
    /\ stored' = <<>> /\ tally' = None
    /\ UNCHANGED <<key, sent>>

Next ==
    \/ Keygen
    \/ \E choice \in Votes, blind \in Blinds : CastBallot(choice, blind)
    \/ Store \/ Refuse
    \/ GenerateTally
    \/ NextElection

Spec == Init /\ [][Next]_vars
\* Client::verifyTallyDecryption, which begins by overwriting its argument.
VerifyTallyDecryption(decrypted, encrypted, r) == Enc(n, 1, Import(r)) = encrypted
-----------------------------------------------------------------------------
(* Properties.  Two accidents that have no bearing on keys of 2048 bits do *)
(* happen with small ones and are set apart: equal primes, and a blinding  *)
(* factor that shares a prime with n.                                      *)

Sound(ballots) ==
    /\ key.p # key.q
    /\ \A b \in ballots : Coprime(b.blind, n)

Counted == {stored[i] : i \in 1 .. tally.count}
Total == Cardinality({i \in 1 .. tally.count : stored[i].choice = 1})

\* Keys that paillier_keygen makes decrypt, and paillierGetRand never fails
\* for them: the test of the top bit makes the primes of equal length, and so
\* p - 1 and q - 1 have no factor in common with n.
KeysUsable == key # None =>
    /\ Inverses(XBase(key.p, key.q), n) # {}
    /\ Inverses(n, Totient(key)) # {}

\* castBallot lets a ciphertext through exactly if the voter's choice was 0
\* or 1, although bytes are reversed by both conversions, cut and padded.
ChoicesReadBack == sent # None /\ Sound({sent}) =>
    (Valid(sent.ctext) <=> sent.choice \in {0, 1})

\* The published value is the number of ones, modulo what one byte holds:
\* the reversed bytes put a choice into the first byte, and what the sum
\* carries over is cut off by paillier_plaintext_to_bytes.
DecryptedModuloByte == tally # None /\ Sound(Counted) =>
    tally.decrypted = Total % Base

\* While the sum is below that, encrypting the published value with the
\* published blinding factor gives back the published ciphertext.  The client
\* audits a decryption by it, but encrypts a one: its answer is whether the sum
\* is one, whatever value was published.
RandReproduces == tally # None /\ Sound(Counted) /\ Total < Base =>
    /\ Enc(n, tally.decrypted, Import(tally.r)) = tally.encrypted
    /\ VerifyTallyDecryption(tally.decrypted, tally.encrypted, tally.r) <=> Total = 1
=============================================================================
