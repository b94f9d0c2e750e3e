--------------------------------- MODULE Wire ---------------------------------
(***************************************************************************)
(* The callbacks of Encoding.cpp, which carry repeated fields between a    *)
(* message and C++ vectors.  The message's own structures only hold        *)
(* pointers (arg) to the vectors with the data.  A decoding callback grows *)
(* those vectors by one element and then takes addresses in them; when a   *)
(* vector grows its elements may move, and every address taken before is   *)
(* dead.                                                                   *)
(*                                                                         *)
(* An operator that grows a vector has the set of its outcomes as value.   *)
(* What goes through a dead pointer is undefined: here a write does not    *)
(* arrive and a read gives Lost.                                           *)
(***************************************************************************)
EXTENDS Naturals, Sequences, FiniteSets

CONSTANT Lost  \* what is read through a dead pointer

-----------------------------------------------------------------------------
(* Vectors and addresses. *)

\* A std::vector that was given its size before anything pointed into it.
Vector(elems) == [place |-> 0, elems |-> elems]

\* resize(size() + 1)
Grown(v) == {[place |-> p, elems |-> Append(v.elems, Lost)] : p \in {v.place, v.place + 1}}

Address(v, i) == [place |-> v.place, index |-> i]
Back(v) == Address(v, Len(v.elems))

Live(v, a) == a.place = v.place /\ a.index \in DOMAIN v.elems

Written(v, a, x) == IF Live(v, a) THEN [v EXCEPT !.elems[a.index] = x] ELSE v

\* pb_decode: a repeated field's callback runs once per element, in order.
Decoded(DecodeFunc(_, _), start, parts) ==
    LET after[n \in 0 .. Len(parts)] ==
            IF n = 0 THEN {start}
            ELSE UNION {DecodeFunc(o, parts[n]) : o \in after[n - 1]}
    IN  after[Len(parts)]

-----------------------------------------------------------------------------
(* Rows, in the order they are written to a message. *)

Ascending(T) ==
    CHOOSE s \in [1 .. Cardinality(T) -> T] : \A i, j \in DOMAIN s : i < j => s[i] < s[j]

\* ORDER BY id
ById(rows) ==
    LET ids == Ascending({r.id : r \in rows})
    IN  [i \in DOMAIN ids |-> CHOOSE r \in rows : r.id = ids[i]]

-----------------------------------------------------------------------------
(* Bytes. *)

ByteTArrayDecodeFunc(v, arg, bytes) == Written(v, arg, bytes)

ByteTArrayEncodeFunc(v, arg) == IF Live(v, arg) THEN v.elems[arg.index] ELSE Lost

-----------------------------------------------------------------------------
(* EncryptedBallotEntry: the structures in one vector, the ciphertexts in  *)
(* another, in parallel.                                                   *)

\* Mutant: the ciphertext's address is taken before its vector has grown.
EntriesDecodedEarly(m, e) ==
    {[entries |-> Written(s, Back(s), [candidate |-> e.candidate, func |-> "decode",
                                       arg |-> Address(m.values, Len(m.values.elems) + 1)]),
      values  |-> ByteTArrayDecodeFunc(v, Address(m.values, Len(m.values.elems) + 1), e.value)] :
        s \in Grown(m.entries), v \in Grown(m.values)}

EncryptedBallotEntriesDecodeFunc(m, e) ==
    {[entries |-> Written(s, Back(s), [candidate |-> e.candidate, func |-> "decode",
                                       arg |-> Back(v)]),
      values  |-> ByteTArrayDecodeFunc(v, Back(v), e.value)] :
        s \in Grown(m.entries), v \in Grown(m.values)}

NoEntries == [entries |-> Vector(<<>>), values |-> Vector(<<>>)]

EntriesOf(parts) == Decoded(EncryptedBallotEntriesDecodeFunc, NoEntries, parts)

\* nanopb calls whatever funcs holds, and a decoding callback there does not
\* write the field.
RepeatedEncryptedBallotEntryEncodeFunc(entries, values) ==
    [i \in DOMAIN entries.elems |->
        [candidate |-> entries.elems[i].candidate,
         value     |-> IF entries.elems[i].func = "encode"
                       THEN ByteTArrayEncodeFunc(values, entries.elems[i].arg) ELSE Lost]]

-----------------------------------------------------------------------------
(* CastEncryptedBallot: its entries are decoded into the vectors that stand *)
(* at the end of two vectors of vectors.                                   *)

\* The contents of the two inner vectors, without the pointers.
DecodedEntries(entries) ==
    {[candidates |-> [j \in DOMAIN entries |-> m.entries.elems[j].candidate],
      values     |-> m.values.elems] :
        m \in EntriesOf(entries)}

CastEncryptedBallotsDecodeFunc(m, b) ==
    {[ballots |-> Written(s, Back(s), b.id),
      entries |-> Written(t, Back(t), inner.candidates),
      values  |-> Written(v, Back(v), inner.values)] :
        s \in Grown(m.ballots), t \in Grown(m.entries), v \in Grown(m.values),
        inner \in DecodedEntries(b.entries)}

\* What the caller finds under the indices of the three vectors.
CastEncryptedBallotsOf(page) ==
    {[ids |-> m.ballots.elems, candidates |-> m.entries.elems, values |-> m.values.elems] :
        m \in Decoded(CastEncryptedBallotsDecodeFunc,
                      [ballots |-> Vector(<<>>), entries |-> Vector(<<>>),
                       values |-> Vector(<<>>)], page)}

-----------------------------------------------------------------------------
(* Election: groups, candidates and tally entries each in a vector of      *)
(* vectors.                                                                *)

IntArrayDecodeFunc(v, i) == {Written(w, Back(w), i) : w \in Grown(v)}

\* A candidate with its two names, and a tally entry with its two numbers,
\* are one tuple; their args point into that tuple.
CandidatesDecodeFunc(v, c) == {Written(w, Back(w), c) : w \in Grown(v)}
TallyEntriesDecodeFunc(v, t) == {Written(w, Back(w), t) : w \in Grown(v)}

Contents(DecodeFunc(_, _), parts) ==
    {v.elems : v \in Decoded(DecodeFunc, Vector(<<>>), parts)}

ElectionsDecodeFunc(m, e) ==
    {[elections  |-> Written(s, Back(s), e.id),
      groups     |-> Written(g, Back(g), ints),
      candidates |-> Written(c, Back(c), list),
      tallies    |-> Written(t, Back(t), results)] :
        s \in Grown(m.elections), g \in Grown(m.groups),
        c \in Grown(m.candidates), t \in Grown(m.tallies),
        ints    \in Contents(IntArrayDecodeFunc, e.groups),
        list    \in Contents(CandidatesDecodeFunc, e.candidates),
        results \in Contents(TallyEntriesDecodeFunc, e.tallied)}

\* What the caller finds under the indices of the vectors.
ElectionsOf(list) ==
    {[ids |-> m.elections.elems, groups |-> m.groups.elems,
      candidates |-> m.candidates.elems, tallies |-> m.tallies.elems] :
        m \in Decoded(ElectionsDecodeFunc,
                      [elections |-> Vector(<<>>), groups |-> Vector(<<>>),
                       candidates |-> Vector(<<>>), tallies |-> Vector(<<>>)], list)}
=============================================================================
