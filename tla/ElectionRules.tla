---------------------------- MODULE ElectionRules ----------------------------
(***************************************************************************)
(* The rules of an election as the vote server applies them: which command *)
(* is let through to which handler (processCommand), which ballot is       *)
(* accepted (castBallot) and what a tally of stored ballots comes to       *)
(* (generateTally).  These are functions of their arguments; the modules   *)
(* that EXTEND this one give them the state of the database to work on.    *)
(*                                                                         *)
(* The rows an administrator writes by hand (voters, voter groups,         *)
(* elections, candidates) are constants.  A ciphertext is represented by   *)
(* the value it decrypts to, a signature by whether it verifies.           *)
(***************************************************************************)
EXTENDS Integers, Sequences, FiniteSets

CONSTANTS
    Voters,         \* holders of a smartcard key
    Groups,         \* voter groups
    Candidates,     \* candidate ids, over all elections
    Elections,      \* election ids an administrator may insert
    Requests,       \* the commands sent over the life of a behaviour
    Commands,       \* the contents those commands may have
    KeyRows,        \* KeyRows[v]: rows of VOTERS that carry the key of v
    GroupOf,        \* VOTERS.voter_group_id
    AuthRows,       \* AuthRows[e][g]: rows of ELECTIONS_VOTER_GROUPS for e, g
    StartTime,      \* ELECTIONS.start_time
    EndTime,        \* ELECTIONS.end_time
    CandidatesOf,   \* the candidates of an election, ordered by id
    TallyModulus,   \* a decrypted sum is known modulo this (256 in the build)
    Garbage,        \* a decrypted value that is not a count of anything
    None            \* no request, no command, no row, no entry

CommandTypes ==
    {"GET_ELECTIONS", "GET_VALID_VOTER_GROUPS", "GET_VALID_VOTERS",
     "GET_PLAINTEXT_BALLOTS", "GET_ENCRYPTED_BALLOTS",
     "GET_PLAINTEXT_BALLOT", "GET_ENCRYPTED_BALLOT", "CAST_BALLOT",
     "UNKNOWN"}

\* An EncryptedBallotEntry: a candidate and what its ciphertext decrypts to.
Entry == [candidate : Candidates, vote : Nat]

Command ==
    [type : CommandTypes, voter : Voters, election : Elections,
     entries : Seq(Entry), decodes : BOOLEAN, signed : BOOLEAN]

ASSUME RulesAssumption ==
    /\ Commands \subseteq Command
    /\ KeyRows \in [Voters -> Nat]
    /\ GroupOf \in [Voters -> Groups]
    /\ AuthRows \in [Elections -> [Groups -> Nat]]
    /\ StartTime \in [Elections -> Nat]
    /\ EndTime \in [Elections -> Nat]
    /\ CandidatesOf \in [Elections -> Seq(Candidates)]
    /\ \A e \in Elections : \A i, j \in DOMAIN CandidatesOf[e] :
          CandidatesOf[e][i] = CandidatesOf[e][j] => i = j
    /\ TallyModulus \in Nat \ {0}
    /\ Garbage \notin Nat /\ None \notin Nat /\ None # Garbage

-----------------------------------------------------------------------------
(* processCommand *)

\* The case labels of the switch that run into castBallot: the two GET_..._
\* BALLOT labels have no return of their own and fall through.
CastLabels == {"GET_PLAINTEXT_BALLOT", "GET_ENCRYPTED_BALLOT", "CAST_BALLOT"}

\* The labels that end in getElections, getVoters or getEncryptedBallots.
ReadLabels == {"GET_ELECTIONS", "GET_VALID_VOTER_GROUPS", "GET_VALID_VOTERS",
               "GET_PLAINTEXT_BALLOTS", "GET_ENCRYPTED_BALLOTS"}

\* The command parses, its key is that of exactly one voter, and the
\* signature over its type and data verifies under that key.
Authentic(c) == c.decodes /\ KeyRows[c.voter] = 1 /\ c.signed

-----------------------------------------------------------------------------
(* castBallot *)

\* One entry per candidate in the order of the candidate ids, each a 0 or a
\* 1, and the loop has seen exactly one 1.
ValidEntries(e, entries) ==
    /\ Len(entries) = Len(CandidatesOf[e])
    /\ \A i \in DOMAIN entries :
          entries[i].candidate = CandidatesOf[e][i] /\ entries[i].vote \in {0, 1}
    /\ \E i \in DOMAIN entries : entries[i].vote = 1
    /\ \A i, j \in DOMAIN entries :
          entries[i].vote = 1 /\ entries[j].vote = 1 => i = j

\* Mutant: the upper end of the window is not in the query.
OpenToNoEnd(v, e, known, t) ==
    e \in known /\ StartTime[e] <= t /\ AuthRows[e][GroupOf[v]] = 1

\* The query of castBallot returns exactly one row at time t.
OpenTo(v, e, known, t) ==
    /\ e \in known
    /\ StartTime[e] <= t
    /\ t <= EndTime[e]
    /\ AuthRows[e][GroupOf[v]] = 1

Accepts(c, known, t) ==
    /\ Authentic(c)
    /\ c.type \in CastLabels
    /\ OpenTo(c.voter, c.election, known, t)
    /\ ValidEntries(c.election, c.entries)

Answers(c) == Authentic(c) /\ c.type \in ReadLabels

-----------------------------------------------------------------------------
(* The rows castBallot stores, and generateTally's arithmetic on them. *)

\* A row of CAST_ENCRYPTED_BALLOTS with its entries.  request is not a
\* column: it remembers which command the row was written for.
Row == [id : Nat, request : Requests, voter : Voters, election : Elections,
        castAt : Nat, entries : Seq(Entry)]

VotesFor(c, rows) ==
    Cardinality({b \in rows : \E i \in DOMAIN b.entries :
                    b.entries[i].candidate = c /\ b.entries[i].vote = 1})

CandidateSet(e) == {CandidatesOf[e][i] : i \in DOMAIN CandidatesOf[e]}

\* Eligibility, said without the steps of castBallot: a holder of one key, in
\* the election's window, in a group the election admits, with every
\* candidate of the election named once and exactly one of them chosen.
Eligible(b) ==
    /\ KeyRows[b.voter] = 1
    /\ b.castAt \in StartTime[b.election] .. EndTime[b.election]
    /\ AuthRows[b.election][GroupOf[b.voter]] > 0
    /\ {b.entries[i].candidate : i \in DOMAIN b.entries} = CandidateSet(b.election)
    /\ Len(b.entries) = Len(CandidatesOf[b.election])
    /\ \E i \in DOMAIN b.entries :
          /\ b.entries[i].vote = 1
          /\ \A j \in DOMAIN b.entries \ {i} : b.entries[j].vote = 0

\* generateTally files the ciphertext of row number idx of the whole result
\* under ctexts[cid][idx], but ctexts[cid] has one element per row of that
\* candidate only: the index is out of range at the first row of the second
\* candidate.
IndexOverruns(e, rows) == rows # {} /\ Cardinality(CandidateSet(e)) > 1

\* What the tally of those ballots should say of each candidate: nothing, for
\* a candidate with no row to add up, else the homomorphic sum.
Exact(e, rows) ==
    [c \in Candidates |-> IF c \in CandidateSet(e) /\ rows # {}
                          THEN VotesFor(c, rows) % TallyModulus ELSE None]

\* The entries generateTally may come to.  After an overrun that does not
\* kill the process, only the candidate whose rows came first still has all
\* its ciphertexts.
TallyResults(e, rows) ==
    IF ~IndexOverruns(e, rows) THEN {Exact(e, rows)}
    ELSE {[c \in Candidates |->
              IF c \in CandidateSet(e) \ kept THEN Garbage
                                             ELSE Exact(e, rows)[c]] :
             kept \in {{}} \cup {{c} : c \in CandidateSet(e)}}

\* A row of TALLIES with its entries; counted remembers the ballots read.
Tally == [election : Elections, counted : SUBSET Row,
          results : [Candidates -> Nat \cup {Garbage, None}]]

TalliedIn(S) == {t.election : t \in S}
=============================================================================
