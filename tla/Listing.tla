------------------------------- MODULE Listing -------------------------------
(***************************************************************************)
(* getElections and getVoters, statement by statement, for a client of the *)
(* protocol that walks through the pages (the debug client asks for the    *)
(* first one and stops) while administrators insert rows and the clock     *)
(* commits tallies.  The handler's transaction is READ COMMITTED: every    *)
(* statement sees what is committed when it runs, so the parts of one      *)
(* response are of different instants.                                     *)
(*                                                                         *)
(* Rows are their ids.  A candidate and a row of ELECTIONS_VOTER_GROUPS    *)
(* carry the election they belong to; no row is ever deleted.              *)
(***************************************************************************)
EXTENDS Integers, FiniteSets, Sequences

CONSTANTS
    Elections,     \* ids of ELECTIONS
    Voters,        \* ids of VOTERS
    CandidateRows, \* rows [id, election] of CANDIDATES
    GroupRows,     \* rows [id, election, group] of ELECTIONS_VOTER_GROUPS
    PaginationMax, \* PAGINATION_MAX, 100 in the build
    None

ASSUME ListingAssumption ==
    /\ Elections \subseteq Nat \ {0} /\ Voters \subseteq Nat \ {0}
    /\ IsFiniteSet(Elections) /\ IsFiniteSet(Voters)
    /\ \A r \in CandidateRows : r.election \in Elections
    /\ \A r \in GroupRows : r.election \in Elections
    /\ PaginationMax \in Nat \ {0}
    /\ None \notin {"elections", "voters"}

VARIABLES
    \* committed tables
    elections, voters, candidates, groups,
    tally,     \* tally[e]: the candidates of its TALLY_ENTRIES, None without a row
    \* the client's walk
    kind,      \* which of the two it asks for, None between walks
    lastId,
    seen,      \* ids listed so far
    begun,     \* history: ids stored when the walk began
    early,     \* history: elections with entries when the page was asked for
    \* the handler
    pc,
    page,      \* ids of the page not yet described
    answer     \* the elections described so far

tables  == <<elections, voters, candidates, groups, tally>>
walk    == <<kind, lastId, seen, begun>>
handler == <<early, pc, page, answer>>
vars == <<tables, walk, handler>>

\* An Election of the response: an unfinalized one has no entries, and what is
\* listed as its groups has the election's own id.
Described ==
    [id : Elections, finalized : BOOLEAN, tallied : SUBSET CandidateRows,
     groups : SUBSET Elections, candidates : SUBSET CandidateRows]

TypeOK ==
    /\ elections \subseteq Elections /\ voters \subseteq Voters
    /\ candidates \subseteq CandidateRows /\ groups \subseteq GroupRows
    /\ tally \in [Elections -> (SUBSET CandidateRows) \cup {None}]
    /\ kind \in {"elections", "voters", None}
    /\ lastId \in Nat /\ seen \subseteq Nat /\ begun \subseteq Nat
    /\ early \subseteq elections
    /\ pc \in {"idle", "tally", "groups", "candidates", "respond"}
    /\ page \subseteq Nat
    /\ answer \in Seq(Described)
    /\ pc \in {"tally", "groups", "candidates"} => page # {}

Init ==
    /\ elections = {} /\ voters = {} /\ candidates = {} /\ groups = {}
    /\ tally = [e \in Elections |-> None]
    /\ kind = None /\ lastId = 0 /\ seen = {} /\ begun = {}
    /\ early = {} /\ pc = "idle" /\ page = {} /\ answer = <<>>

-----------------------------------------------------------------------------
(* Administrators and the clock. *)

InsertElection(e) ==
    /\ e \notin elections
    /\ elections' = elections \cup {e}
    /\ UNCHANGED <<voters, candidates, groups, tally, walk, handler>>

InsertVoter(v) ==
    /\ v \notin voters
    /\ voters' = voters \cup {v}
    /\ UNCHANGED <<elections, candidates, groups, tally, walk, handler>>

InsertCandidate(r) ==
    /\ r.election \in elections /\ r \notin candidates
    /\ candidates' = candidates \cup {r}
    /\ UNCHANGED <<elections, voters, groups, tally, walk, handler>>

InsertGroup(r) ==
    /\ r.election \in elections /\ r \notin groups
    /\ groups' = groups \cup {r}
    /\ UNCHANGED <<elections, voters, candidates, tally, walk, handler>>

CandidatesOf(e) == {r \in candidates : r.election = e}

\* The clock commits a tally: entries for the candidates that ballots name,
\* none if there are no ballots.
CommitTally(e) ==
    /\ e \in elections
    /\ tally[e] = None
    /\ \E entries \in {{}, CandidatesOf(e)} : tally' = [tally EXCEPT ![e] = entries]
    /\ UNCHANGED <<elections, voters, candidates, groups, walk, handler>>

-----------------------------------------------------------------------------
(* The client. *)

Stored(k) == IF k = "elections" THEN elections ELSE voters

BeginWalk(k) ==
    /\ kind = None
    /\ kind' = k
    /\ lastId' = 0 /\ seen' = {} /\ begun' = Stored(k)
    /\ UNCHANGED <<tables, handler>>

-----------------------------------------------------------------------------
(* The handlers. *)

Lowest(S) == CHOOSE x \in S : \A y \in S : x <= y

\* Mutant: ORDER BY id DESC.
FirstFromTheTop(S, last) ==
    {x \in S : x > last /\ Cardinality({y \in S : x <= y}) <= PaginationMax}

\* WHERE id > last ORDER BY id LIMIT PAGINATION_MAX
First(S, last) ==
    {x \in S : x > last /\ Cardinality({y \in S : last < y /\ y <= x}) <= PaginationMax}

\* The first statement of either handler.
QueryPage ==
    /\ kind # None /\ pc = "idle"
    /\ page' = First(Stored(kind), lastId)
    /\ pc' = IF kind = "elections" /\ page' # {} THEN "tally" ELSE "respond"
    /\ early' = {e \in elections : tally[e] \notin {None, {}}}
    /\ answer' = <<>>
    /\ UNCHANGED <<tables, walk>>

\* Mutant: the query does not ask for the election.
QueryTallyOfAny ==
    /\ pc = "tally"
    /\ LET entries == UNION {tally[e] : e \in {x \in elections : tally[x] # None}}
       IN  answer' = Append(answer, [id |-> Lowest(page), finalized |-> entries # {},
                                     tallied |-> entries, groups |-> {},
                                     candidates |-> {}])
    /\ pc' = "groups"
    /\ UNCHANGED <<tables, walk, early, page>>

\* Entries joined with tallies: without entries there is no row to find.
QueryTally ==
    /\ pc = "tally"
    /\ LET e == Lowest(page)
           entries == IF tally[e] = None THEN {} ELSE tally[e]
       IN  answer' = Append(answer, [id |-> e, finalized |-> entries # {},
                                     tallied |-> entries, groups |-> {},
                                     candidates |-> {}])
    /\ pc' = "groups"
    /\ UNCHANGED <<tables, walk, early, page>>

\* The groups query compares and returns the row's own id, and neither
\* ELECTION_ID nor VOTER_GROUP_ID.
QueryGroups ==
    /\ pc = "groups"
    /\ answer' = [answer EXCEPT ![Len(answer)].groups =
                     {r.id : r \in {x \in groups : x.id = Lowest(page)}}]
    /\ pc' = "candidates"
    /\ UNCHANGED <<tables, walk, early, page>>

\* Mutant: LIMIT PAGINATION_MAX on the candidates too.
QueryCandidatesLimited ==
    /\ pc = "candidates"
    /\ LET rows == CandidatesOf(Lowest(page))
       IN  answer' = [answer EXCEPT ![Len(answer)].candidates =
               {r \in rows : Cardinality({x \in rows : x.id <= r.id}) <= PaginationMax}]
    /\ page' = page \ {Lowest(page)}
    /\ pc' = IF page' = {} THEN "respond" ELSE "tally"
    /\ UNCHANGED <<tables, walk, early>>

QueryCandidates ==
    /\ pc = "candidates"
    /\ answer' = [answer EXCEPT ![Len(answer)].candidates = CandidatesOf(Lowest(page))]
    /\ page' = page \ {Lowest(page)}
    /\ pc' = IF page' = {} THEN "respond" ELSE "tally"
    /\ UNCHANGED <<tables, walk, early>>

\* What the response lists.
Ids == IF kind = "elections" THEN {answer[i].id : i \in DOMAIN answer} ELSE page

\* Mutant: one id is skipped.
RespondSkips ==
    /\ pc = "respond"
    /\ seen' = seen \cup Ids
    /\ lastId' = IF Ids = {} THEN lastId ELSE 1 + CHOOSE x \in Ids : \A y \in Ids : y <= x
    /\ kind' = IF Ids = {} THEN None ELSE kind
    /\ pc' = "idle" /\ page' = {} /\ answer' = <<>> /\ early' = {}
    /\ UNCHANGED <<tables, begun>>

\* finishResponse; the client takes the last id for its next request, or is
\* done if the page is empty.
Respond ==
    /\ pc = "respond"
    /\ seen' = seen \cup Ids
    /\ lastId' = IF Ids = {} THEN lastId ELSE CHOOSE x \in Ids : \A y \in Ids : y <= x
    /\ kind' = IF Ids = {} THEN None ELSE kind
    /\ pc' = "idle" /\ page' = {} /\ answer' = <<>> /\ early' = {}
    /\ UNCHANGED <<tables, begun>>

Next ==
    \/ \E e \in Elections : InsertElection(e) \/ CommitTally(e)
    \/ \E v \in Voters : InsertVoter(v)
    \/ \E r \in CandidateRows : InsertCandidate(r)
    \/ \E r \in GroupRows : InsertGroup(r)
    \/ \E k \in {"elections", "voters"} : BeginWalk(k)
    \/ QueryPage \/ QueryTally \/ QueryGroups \/ QueryCandidates \/ Respond

Spec == Init /\ [][Next]_vars
-----------------------------------------------------------------------------
(* Properties. *)

\* At the end of a walk everything that was stored when it began has been
\* listed, although rows appear with lower and higher ids meanwhile.
WalkComplete == kind = None => begun \subseteq seen

\* Every candidate a listed tally has an entry for is in the same response's
\* list of candidates: candidates are read by a later statement than the
\* tally, so those that were tallied between the two are not missed.
TalliedAreListed == \A i \in DOMAIN answer :
    pc = "respond" => answer[i].tallied \subseteq answer[i].candidates

\* An election whose tally had entries when the page was asked for is listed
\* as finalized and with all of them, whatever is committed while the
\* statements of the handler run.
CountedAreFinalized == \A i \in DOMAIN answer :
    answer[i].id \in early => answer[i].finalized /\ answer[i].tallied = tally[answer[i].id]
=============================================================================
