------------------------------ MODULE CastSession ------------------------------
(***************************************************************************)
(* The debug client's cast_ballot, from the typed election id to the       *)
(* answer, against a server whose tables an administrator goes on filling. *)
(* The client reads one page of the listing (Listing), asks for a choice   *)
(* per candidate it was shown, and sends the entries over a new            *)
(* connection; castBallot decodes them (Wire), reads the candidates again, *)
(* compares, stores, and sends the ballot back.                            *)
(*                                                                         *)
(* One cast is followed.  What else castBallot looks at (the voter, the    *)
(* group, the time) is BallotServer's subject: here it just may refuse.    *)
(* Tallies have no part in this and none are made.                         *)
(***************************************************************************)
EXTENDS Listing, Wire

CONSTANTS
    Votes,      \* what the user may type for a candidate
    MaxEntries  \* entries a command of MAX_SIZE bytes has room for, 2 in the build

CandidateIds == {r.id : r \in CandidateRows}

\* A ciphertext: no two are alike, and each decrypts to one choice.
Ctext == [asked : CandidateIds, choice : Votes]

ASSUME CastAssumption ==
    /\ Votes \subseteq Nat
    /\ MaxEntries \in Nat
    /\ IsFiniteSet(CandidateRows)
    /\ \A r \in CandidateRows : r.id \in Nat
    /\ \A r, s \in CandidateRows : r.id = s.id => r = s
    /\ Lost \notin Elections \cup Ctext
    /\ None \notin Elections \cup Seq(CandidateIds)
    /\ None \notin Seq([candidate : CandidateIds, value : Ctext])

VARIABLES
    \* Client::castBallot
    phase,
    eid,      \* the election id typed
    shown,    \* the candidates the user was asked about, in that order
    typed,    \* the user's answers
    verdict,  \* what the client said at the end
    echo,     \* history: the entries in the answer, which the client skips
    \* castBallot
    message,  \* the command on its way, None
    at,       \* the statement the worker is at
    ballot,   \* encryptedBallotEntries and encryptedVals
    stored,   \* the entries of the ballot's committed row, None without one
    reply,    \* the response on its way, None
    checked   \* history: the candidates that were there at the comparison, None

client == <<phase, eid, shown, typed, verdict, echo>>
server == <<message, at, ballot, stored, reply, checked>>
session == <<client, server>>
all == <<vars, session>>

CastTypeOK ==
    /\ phase \in {"prompt", "listing", "asking", "waiting", "done"}
    /\ eid \in Elections \cup {None}
    /\ shown \in Seq(CandidateIds)
    /\ typed \in Seq(Votes)
    /\ verdict \in {"none", "unknown", "failed", "refused", "accepted"}
    /\ message # None => message \in Seq([candidate : CandidateIds, value : Ctext])
    /\ at \in {"idle", "compare", "insert"}
    /\ phase \in {"asking", "waiting"} => eid # None
    /\ reply # None => at = "idle" /\ message = None
    /\ stored # None => checked # None

CastInit ==
    /\ Init
    /\ phase = "prompt" /\ eid = None /\ shown = <<>> /\ typed = <<>>
    /\ verdict = "none" /\ echo = <<>>
    /\ message = None /\ at = "idle" /\ ballot = NoEntries
    /\ stored = None /\ reply = None /\ checked = None

-----------------------------------------------------------------------------
(* The client. *)

\* "Enter an election ID.", and getElections asks for the first page.
EnterId(e) ==
    /\ phase = "prompt"
    /\ BeginWalk("elections")
    /\ phase' = "listing" /\ eid' = e
    /\ UNCHANGED <<shown, typed, verdict, echo, server>>

\* An Election as getElections writes it.
Message(e) == [id |-> e.id, groups |-> Ascending(e.groups),
               candidates |-> ById(e.candidates), tallied |-> ById(e.tallied)]

\* The handler is done with its last statement, and the page is read.
EndWalk ==
    /\ pc = "respond"
    /\ kind' = None /\ lastId' = 0 /\ seen' = {}
    /\ pc' = "idle" /\ page' = {} /\ answer' = <<>> /\ early' = {}
    /\ UNCHANGED <<tables, begun>>

\* The listing arrives; the election is looked for on that page only.
ReceiveListing ==
    /\ phase = "listing"
    /\ EndWalk
    /\ \E list \in ElectionsOf([i \in DOMAIN answer |-> Message(answer[i])]) :
          \/ /\ \A i \in DOMAIN list.ids : list.ids[i] # eid
             /\ phase' = "done" /\ verdict' = "unknown"
             /\ UNCHANGED shown
          \/ \E i \in DOMAIN list.ids :
                /\ list.ids[i] = eid
                /\ shown' = [k \in DOMAIN list.candidates[i] |-> list.candidates[i][k].id]
                /\ phase' = "asking"
                /\ UNCHANGED verdict
    /\ UNCHANGED <<eid, typed, echo, server>>

\* Two vectors of one length, made before anything points into them.
Ballot(choices) ==
    LET values == Vector([i \in DOMAIN shown |-> [asked |-> shown[i], choice |-> choices[i]]])
    IN  [values  |-> values,
         entries |-> Vector([i \in DOMAIN shown |->
                        [candidate |-> shown[i], func |-> "encode",
                         arg |-> Address(values, i)]])]

\* A choice per candidate is typed and encrypted, and the command is sent.
SendBallot(choices) ==
    /\ phase = "asking"
    /\ typed' = choices
    /\ message' = RepeatedEncryptedBallotEntryEncodeFunc(Ballot(choices).entries,
                                                         Ballot(choices).values)
    /\ phase' = "waiting"
    /\ UNCHANGED <<vars, eid, shown, verdict, echo, at, ballot, stored, reply, checked>>

\* No connection, no answer in time, or the worker closed the connection.
GiveUp ==
    /\ phase \in {"listing", "asking", "waiting"}
    /\ phase' = "done" /\ verdict' = "failed"
    /\ UNCHANGED <<vars, eid, shown, typed, echo, server>>

ReceiveReply ==
    /\ phase = "waiting"
    /\ reply # None
    /\ verdict' = IF reply.type = "ERROR" THEN "refused" ELSE "accepted"
    /\ echo' = reply.entries
    /\ reply' = None /\ phase' = "done"
    /\ UNCHANGED <<vars, eid, shown, typed, message, at, ballot, stored, checked>>

-----------------------------------------------------------------------------
(* The server. *)

\* threadLoop closes the connection of a command longer than MAX_SIZE.
DropLarge ==
    /\ message # None
    /\ Len(message) > MaxEntries
    /\ message' = None
    /\ UNCHANGED <<vars, client, at, ballot, stored, reply, checked>>

DecodeBallot ==
    /\ message # None
    /\ Len(message) <= MaxEntries
    /\ ballot' \in EntriesOf(message)
    /\ message' = None /\ at' = "compare"
    /\ UNCHANGED <<vars, client, stored, reply, checked>>

errorResponse == [type |-> "ERROR", entries |-> <<>>]

\* "Invalid voter!" or "Invalid election!".
Refuse ==
    /\ at = "compare"
    /\ at' = "idle" /\ reply' = errorResponse /\ ballot' = NoEntries
    /\ UNCHANGED <<vars, client, message, stored, checked>>

\* What paillierDec makes of the bytes at a place.
Plain(value) == IF value = Lost THEN Lost ELSE value.choice

\* Mutant: the numbers of entries and of candidates are not compared.
MatchesSomeOf(entries, values, ids) ==
    /\ \A i \in DOMAIN entries : /\ i \in DOMAIN ids
                                 /\ entries[i].candidate = ids[i]
                                 /\ Plain(values[i]) \in {0, 1}
    /\ \E i \in DOMAIN entries : /\ Plain(values[i]) = 1
                                 /\ \A j \in DOMAIN entries \ {i} : Plain(values[j]) = 0

\* One entry per candidate in the order of ids, zeros and a single one.
Matches(entries, values, ids) ==
    /\ Len(entries) = Len(ids)
    /\ \A i \in DOMAIN entries : /\ entries[i].candidate = ids[i]
                                 /\ Plain(values[i]) \in {0, 1}
    /\ \E i \in DOMAIN entries : /\ Plain(values[i]) = 1
                                 /\ \A j \in DOMAIN entries \ {i} : Plain(values[j]) = 0

\* The statement that reads the candidates, and the loop over its rows.
Compare ==
    /\ at = "compare"
    /\ LET ids == Ascending({r.id : r \in CandidatesOf(eid)})
       IN  /\ checked' = ids
           /\ \/ /\ Matches(ballot.entries.elems, ballot.values.elems, ids)
                 /\ at' = "insert"
                 /\ UNCHANGED <<ballot, reply>>
              \/ /\ ~Matches(ballot.entries.elems, ballot.values.elems, ids)
                 /\ at' = "idle" /\ reply' = errorResponse /\ ballot' = NoEntries
    /\ UNCHANGED <<vars, client, message, stored>>

\* Mutant: only the function is set, the decoded address is kept.
ReboundFunc(b) ==
    [i \in DOMAIN b.entries.elems |-> [b.entries.elems[i] EXCEPT !.func = "encode"]]

\* Each entry is pointed at the ciphertext of its own index before encoding.
Rebound(b) ==
    [i \in DOMAIN b.entries.elems |->
        [b.entries.elems[i] EXCEPT !.func = "encode", !.arg = Address(b.values, i)]]

\* INSERT of the ballot and of each entry, commit, and the ballot as answer.
Insert ==
    /\ at = "insert"
    /\ stored' = [i \in DOMAIN ballot.entries.elems |->
                     [candidate |-> ballot.entries.elems[i].candidate,
                      value     |-> ballot.values.elems[i]]]
    /\ reply' = [type |-> "CAST_ENCRYPTED_BALLOT",
                  entries |-> RepeatedEncryptedBallotEntryEncodeFunc(
                                  Vector(Rebound(ballot)), ballot.values)]
    /\ at' = "idle" /\ ballot' = NoEntries
    /\ UNCHANGED <<vars, client, message, checked>>

-----------------------------------------------------------------------------

Handler == QueryPage \/ QueryTally \/ QueryGroups \/ QueryCandidates

Administrator ==
    \/ \E e \in Elections : InsertElection(e)
    \/ \E r \in CandidateRows : InsertCandidate(r)

ClientStep ==
    \/ \E e \in Elections : EnterId(e)
    \/ ReceiveListing
    \/ \E choices \in [DOMAIN shown -> Votes] : SendBallot(choices)
    \/ ReceiveReply
    \/ GiveUp

ServerStep == DropLarge \/ DecodeBallot \/ Refuse \/ Compare \/ Insert

CastNext ==
    \/ (Handler \/ Administrator) /\ UNCHANGED session
    \/ ClientStep
    \/ ServerStep

CastSpec == CastInit /\ [][CastNext]_all
-----------------------------------------------------------------------------
(* Properties. *)

\* Each stored entry holds the ciphertext made of the answer to the prompt
\* that named its candidate, through two pairs of parallel vectors and two
\* conversions, and the answer on which a client reports the ballot as cast
\* carries what is stored.
ChoicesArrive ==
    /\ stored # None => \A i \in DOMAIN stored :
          stored[i].value # Lost /\ stored[i].value.asked = stored[i].candidate
    /\ verdict = "accepted" => echo = stored

\* The user's list and the server's are of different times.  A ballot that
\* reached the comparison is stored if and only if both lists are the same,
\* in one order, and the user chose exactly one candidate of it: no ballot of
\* an outdated list gets in, and none is lost on its way through the vectors.
StoredIfListsAgree == checked # None =>
    (at = "insert" \/ stored # None
        <=> /\ checked = shown
            /\ \E i \in DOMAIN typed : /\ typed[i] = 1
                                       /\ \A j \in DOMAIN typed \ {i} : typed[j] = 0)

\* "Invalid election ID!" is said of an election that was stored when the
\* user asked only if a whole page of elections has lower ids.
UnknownIsOffPage ==
    verdict = "unknown" /\ eid \in begun =>
        Cardinality({e \in elections : e < eid}) >= PaginationMax
=============================================================================
