------------------------------ MODULE TallyAudit ------------------------------
(***************************************************************************)
(* The debug client checks the tallies it was sent: getElections gives it  *)
(* the tallies, and for each entry verifyTallyEncryption fetches the       *)
(* ballots of the election in pages, multiplies the ciphertexts of the     *)
(* candidate and compares the product with the published one.  Meanwhile   *)
(* the server of BallotServer goes on storing ballots.  That a page is     *)
(* read as it was written is PageReading's subject.                        *)
(*                                                                         *)
(* A product stands for the set of ciphertexts it was made of: they are    *)
(* blinded, so two sets with one product do not occur.                     *)
(***************************************************************************)
EXTENDS BallotServer

CONSTANT PaginationMax  \* PAGINATION_MAX, 100 in the build

ASSUME AuditAssumption ==
    /\ PaginationMax \in Nat \ {0}
    /\ None \notin Tally \X Candidates

VARIABLES
    auditPc,
    left,     \* entries of the listed tallies that are not verified yet
    subject,  \* the entry verifyTallyEncryption was called for
    link,     \* its connection, see TypeOK
    lastId,   \* the id the next page is to start after
    fetched,  \* ballotCiphertexts, each as the ballot it is of
    doneFetchingBallots,
    begun,    \* history: the ballots stored when the call began
    verdict   \* what it returned, printed as TRUE or FALSE

loopVars  == <<auditPc, left, subject, lastId, fetched, doneFetchingBallots, begun, verdict>>
auditVars == <<loopVars, link>>

\* Connected but not accepted ("backlog"); accepted ("served"); accepted, and
\* the response to its request could not be made ("unheard"); refused or
\* closed by the end of the process ("cut").
Links == {"none", "backlog", "served", "unheard", "cut"}

AuditTypeOK ==
    /\ auditPc \in {"idle", "listed", "paging"}
    /\ left \subseteq Tally \X Candidates
    /\ subject \in (Tally \X Candidates) \cup {None}
    /\ link \in Links
    /\ lastId \in Nat
    /\ fetched \subseteq Row /\ begun \subseteq Row
    /\ doneFetchingBallots \in BOOLEAN
    /\ verdict \in {"none", "TRUE", "FALSE"}
    /\ auditPc = "paging" => subject # None /\ verdict = "none" /\ ~doneFetchingBallots
    /\ link \notin {"none", "cut"} => up
    /\ verdict # "none" => subject # None

AuditInit ==
    /\ Init
    /\ auditPc = "idle" /\ left = {} /\ subject = None /\ link = "none"
    /\ lastId = 0 /\ fetched = {} /\ doneFetchingBallots = FALSE
    /\ begun = {} /\ verdict = "none"

-----------------------------------------------------------------------------

\* getElections says finalized of a tally that has entries.
Finalized(t) == t.counted # {}

\* The entries to be looked at: of each tally with entries, one per candidate.
ListElections ==
    /\ up /\ auditPc = "idle"
    /\ auditPc' = "listed"
    /\ left' = {e \in tallies \X Candidates :
                    Finalized(e[1]) /\ e[1].results[e[2]] # None}
    /\ UNCHANGED <<subject, link, lastId, fetched, doneFetchingBallots, begun, verdict>>

\* verifyTallyEncryption is called and opens its connection.
BeginVerification(t, c) ==
    /\ auditPc = "listed"
    /\ <<t, c>> \in left
    /\ auditPc' = "paging"
    /\ left' = left \ {<<t, c>>}
    /\ subject' = <<t, c>>
    /\ link' = IF up THEN "backlog" ELSE "cut"
    /\ lastId' = 0 /\ fetched' = {} /\ doneFetchingBallots' = FALSE
    /\ begun' = CountedFor(t.election)
    /\ verdict' = "none"

\* accept() and ThreadPool::newConnection, for this connection.
Accepted ==
    /\ link = "backlog" /\ ~failed
    /\ link' = "served"
    /\ UNCHANGED loopVars

\* Mutant: the page is not in the order of the ids.
IsPageUnordered(page, rows, last) ==
    LET after == {b \in rows : b.id > last}
    IN  /\ page \subseteq after
        /\ \/ page = after /\ Cardinality(page) <= PaginationMax
           \/ Cardinality(page) = PaginationMax

\* getEncryptedBallots: the rows above last, by id, up to PAGINATION_MAX.
IsPage(page, rows, last) ==
    LET after == {b \in rows : b.id > last}
    IN  /\ page \subseteq after
        /\ \/ page = after /\ Cardinality(page) <= PaginationMax
           \/ /\ Cardinality(page) = PaginationMax
              /\ \A b \in page, x \in after \ page : b.id < x.id

\* Mutant: the loop asks for the same page again.
NextPageAgain(page) ==
    /\ link = "served" /\ auditPc = "paging"
    /\ page # {}
    /\ IsPage(page, CountedFor(subject[1].election), lastId)
    /\ fetched' = fetched \cup page
    /\ UNCHANGED <<auditPc, left, subject, link, lastId, doneFetchingBallots, begun, verdict>>

\* Mutant: the next page is asked for from one id further on.
NextPageSkips(page) ==
    /\ link = "served" /\ auditPc = "paging"
    /\ page # {}
    /\ IsPage(page, CountedFor(subject[1].election), lastId)
    /\ fetched' = fetched \cup page
    /\ \E b \in page : lastId' = b.id + 1 /\ \A x \in page : x.id <= b.id
    /\ UNCHANGED <<auditPc, left, subject, link, doneFetchingBallots, begun, verdict>>

\* A page with ballots on it: the last one's id is where the next begins.
NextPage(page) ==
    /\ link = "served" /\ auditPc = "paging"
    /\ page # {}
    /\ IsPage(page, CountedFor(subject[1].election), lastId)
    /\ fetched' = fetched \cup page
    /\ \E b \in page : lastId' = b.id /\ \A x \in page : x.id <= b.id
    /\ UNCHANGED <<auditPc, left, subject, link, doneFetchingBallots, begun, verdict>>

\* Mutant: a fetched product that has every counted ballot in it will do.
MatchesContained(t, c, rows) == t.results[c] # Garbage /\ t.counted \subseteq rows

\* paillierSum over what was fetched, compared with encrypted_value.
Matches(t, c, rows) == t.results[c] # Garbage /\ rows = t.counted

\* The empty page ends the loop.  No path of verifyTallyEncryption closes its
\* socket; what that does to the pool is not seen here.
LastPage ==
    /\ link = "served" /\ auditPc = "paging"
    /\ IsPage({}, CountedFor(subject[1].election), lastId)
    /\ auditPc' = "listed" /\ link' = "none"
    /\ doneFetchingBallots' = TRUE
    /\ verdict' = IF Matches(subject[1], subject[2], fetched) THEN "TRUE" ELSE "FALSE"
    /\ lastId' = 0
    /\ UNCHANGED <<left, subject, fetched, begun>>

\* No connection, a request that cannot be made or sent, no answer in time, or
\* not the answer expected: each returns the false of a sum that differs.
PageFails ==
    /\ auditPc = "paging"
    /\ auditPc' = "listed" /\ link' = "none"
    /\ verdict' = "FALSE"
    /\ lastId' = 0 /\ fetched' = {}
    /\ UNCHANGED <<left, subject, doneFetchingBallots, begun>>

\* The worker cannot encode or sign the page, and leaves the socket open.
PageUnmade ==
    /\ link = "served" /\ auditPc = "paging"
    /\ link' = "unheard"
    /\ UNCHANGED loopVars

\* Everything listed has been verified; the user may list again.
EndAudit ==
    /\ auditPc = "listed" /\ left = {}
    /\ auditPc' = "idle"
    /\ subject' = None
    /\ lastId' = 0 /\ fetched' = {} /\ doneFetchingBallots' = FALSE
    /\ begun' = {} /\ verdict' = "none"
    /\ UNCHANGED <<left, link>>

PageStep == (\E page \in SUBSET ballots : NextPage(page)) \/ LastPage

AuditStep ==
    \/ ListElections
    \/ \E t \in tallies, c \in Candidates : BeginVerification(t, c)
    \/ Accepted
    \/ PageStep
    \/ PageFails
    \/ PageUnmade
    \/ EndAudit

\* A connection goes down with the process that holds its other end.
AuditNext ==
    \/ Next /\ UNCHANGED loopVars /\ link' = IF up' \/ link = "none" THEN link ELSE "cut"
    \/ AuditStep /\ UNCHANGED vars

AuditSpec == AuditInit /\ [][AuditNext]_<<vars, auditVars>>

\* A connection is accepted while the connections loop runs, a page that can
\* be made is answered, and the client notices when its connection is gone.
FairAuditSpec ==
    /\ AuditSpec
    /\ WF_<<vars, auditVars>>(Accepted /\ UNCHANGED vars)
    /\ WF_<<vars, auditVars>>(PageStep /\ UNCHANGED vars)
    /\ WF_<<vars, auditVars>>(link = "cut" /\ PageFails /\ UNCHANGED vars)

-----------------------------------------------------------------------------
(* Properties. *)

\* When the loop is done it has every ballot that was stored when it began, in
\* whatever order ids were drawn, committed and cut into pages meanwhile.
FetchCoversStart == doneFetchingBallots => begun \subseteq fetched

\* A tally that is reported correct was complete when its verification
\* began: no ballot had been stored for the election that it leaves out, and
\* it counts no ballot that is not stored.
AcceptedIsComplete == verdict = "TRUE" => begun = subject[1].counted

\* FALSE is reported of an exact entry for one of two reasons, and the line
\* printed does not say which: a ballot of its election was committed after the
\* tally was counted, or the loop never came to the last page.
FalseIsExplained ==
    verdict = "FALSE" /\ subject[1].results[subject[2]] # Garbage =>
        \/ \E b \in fetched : b \notin subject[1].counted
        \/ ~doneFetchingBallots

\* The page loop comes to an end, however ids are distributed, unless the
\* server leaves the client in recv: a page it could not make, or a connection
\* that comes when the connections loop has ended.
VerificationEnds ==
    auditPc = "paging" ~>
        \/ auditPc # "paging"
        \/ link = "unheard"
        \/ link = "backlog" /\ failed
=============================================================================
