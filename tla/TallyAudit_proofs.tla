-------------------------- MODULE TallyAudit_proofs --------------------------
(***************************************************************************)
(* Proofs about the client's verification of tallies, for any number of    *)
(* ballots and any page size, while the server of BallotServer goes on     *)
(* committing ballots and dies at any point.                               *)
(***************************************************************************)
EXTENDS PageReading, BallotServer_proofs, Wire_proofs

-----------------------------------------------------------------------------
(* The inductive invariant. *)

\* An entry is verified, or waits for it, of a tally that is published.
LeftInv == \A e \in left : e[1] \in tallies

\* What the call in hand began with: the tally counts no ballot that was not
\* stored by then.
SubjectInv == subject # None =>
    /\ subject[1] \in tallies
    /\ subject[1].counted \subseteq begun
    /\ begun \subseteq CountedFor(subject[1].election)

\* The page loop has what it has passed.
PagingInv == auditPc = "paging" => \A b \in begun : b.id <= lastId => b \in fetched

\* What the loop has when it is done is everything that was stored, and the
\* verdict follows from it; without the last page there is no TRUE.
VerdictInv ==
    /\ doneFetchingBallots =>
          /\ subject # None /\ verdict # "none"
          /\ begun \subseteq fetched
          /\ verdict = "TRUE" <=> Matches(subject[1], subject[2], fetched)
    /\ ~doneFetchingBallots => verdict # "TRUE"

IdleInv ==
    /\ auditPc = "idle" => subject = None
    /\ auditPc # "paging" => link = "none"

AuditInv ==
    AuditTypeOK /\ LeftInv /\ SubjectInv /\ PagingInv /\ VerdictInv /\ IdleInv

auditAll == <<vars, auditVars>>

-----------------------------------------------------------------------------
(* The steps. *)

\* A step of the audit is one of the server's with the loop left alone, or
\* one of the client's with the server left alone.
LEMMA AuditCases ==
    ASSUME [AuditNext]_auditAll
    PROVE  /\ [Next]_vars
           /\ \/ /\ UNCHANGED loopVars
                 /\ \/ link' = IF up' \/ link = "none" THEN link ELSE "cut"
                    \/ UNCHANGED <<link, up>>
              \/ AuditStep /\ UNCHANGED vars
BY DEF AuditNext, AuditStep, auditAll, auditVars, vars, host

\* The ballots of an election stay in the table.
LEMMA CountedGrows ==
    ASSUME ballots \subseteq ballots', NEW e
    PROVE  CountedFor(e) \subseteq CountedFor(e)'
BY DEF CountedFor

\* A published tally counts ballots of its election that are in the table.
LEMMA TallyIsStored ==
    ASSUME IInv, NEW t \in tallies
    PROVE  t \in Tally /\ t.election \in Elections /\ t.counted \subseteq CountedFor(t.election)
<1>1. t \in Tally
  BY DEF IInv, TypeOK
<1>2. Counted(t)
  BY DEF IInv, ClockInv
<1> QED
  BY <1>1, <1>2 DEF Counted, CountedFor, Tally

\* An empty page means that nothing is above the last id.
LEMMA EmptyPage ==
    ASSUME NEW rows, NEW last, IsPage({}, rows, last)
    PROVE  \A b \in rows : ~(b.id > last)
<1>1. Cardinality({}) = 0 /\ PaginationMax # 0
  BY FS_EmptySet, AuditAssumption
<1> QED
  BY <1>1 DEF IsPage

\* A page has every row between the id it starts after and its last one.
LEMMA FullPage ==
    ASSUME NEW rows, \A b \in rows : b.id \in Nat, NEW last \in Nat, NEW page,
           IsPage(page, rows, last), NEW z \in page, \A x \in page : x.id <= z.id,
           NEW b \in rows, b.id <= z.id
    PROVE  b.id <= last \/ b \in page
<1> SUFFICES ASSUME ~(b.id <= last), b \notin page
             PROVE  FALSE
  OBVIOUS
<1> DEFINE after == {x \in rows : x.id > last}
<1>1. b \in after \ page /\ b.id \in Nat /\ z.id \in Nat
  BY DEF IsPage
<1>2. z.id < b.id
  BY <1>1 DEF IsPage
<1> QED
  BY <1>1, <1>2

LEMMA InitAudit == AuditInit => AuditInv
<1> SUFFICES ASSUME AuditInit PROVE AuditInv
  OBVIOUS
<1> USE DEF AuditInit
<1>1. AuditTypeOK
  BY DEF AuditTypeOK, Links
<1> QED
  BY <1>1 DEF AuditInv, LeftInv, SubjectInv, PagingInv, VerdictInv, IdleInv

\* The server may do anything between two steps of the client.
LEMMA ServerKeeps ==
    ASSUME AuditInv, ballots \subseteq ballots', tallies \subseteq tallies', ballots' \subseteq Row,
           up' \in BOOLEAN, UNCHANGED loopVars,
           link' = (IF up' \/ link = "none" THEN link ELSE "cut") \/ UNCHANGED <<link, up>>
    PROVE  AuditInv'
<1>1. AuditTypeOK'
  BY DEF AuditInv, AuditTypeOK, Links, loopVars
<1>2. LeftInv' /\ IdleInv'
  BY DEF AuditInv, LeftInv, IdleInv, loopVars
<1>3. SubjectInv'
  BY CountedGrows DEF AuditInv, SubjectInv, loopVars
<1>4. PagingInv' /\ VerdictInv'
  BY DEF AuditInv, PagingInv, VerdictInv, Matches, loopVars
<1> QED
  BY <1>1, <1>2, <1>3, <1>4 DEF AuditInv

LEMMA ListElectionsKeeps ==
    ASSUME IInv, AuditInv, UNCHANGED vars, ListElections
    PROVE  AuditInv'
<1>1. subject = None /\ verdict \notin {"TRUE", "FALSE"}
  BY DEF ListElections, AuditInv, IdleInv, AuditTypeOK
<1>2. tallies \subseteq Tally
  BY DEF IInv, TypeOK
<1>3. AuditTypeOK'
  BY <1>1, <1>2 DEF ListElections, AuditInv, AuditTypeOK, vars, host
<1> QED
  BY <1>1, <1>3 DEF ListElections, AuditInv, LeftInv, SubjectInv, PagingInv, VerdictInv, IdleInv,
     vars, tables

LEMMA BeginKeeps ==
    ASSUME IInv, AuditInv, UNCHANGED vars,
           NEW t \in tallies, NEW c \in Candidates, BeginVerification(t, c)
    PROVE  AuditInv'
<1>1. /\ subject' = <<t, c>> /\ subject'[1] = t /\ subject' \in Tally \X Candidates
      /\ begun' = CountedFor(t.election) /\ fetched' = {} /\ lastId' = 0
      /\ auditPc' = "paging" /\ left' \subseteq left /\ verdict' = "none"
      /\ link' = (IF up THEN "backlog" ELSE "cut") /\ doneFetchingBallots' = FALSE
  BY TallyIsStored DEF BeginVerification
<1>2. UNCHANGED <<ballots, tallies, up>> /\ CountedFor(t.election)' = CountedFor(t.election)
  BY DEF vars, tables, host, CountedFor
<1>3. CountedFor(t.election) \subseteq Row /\ up \in BOOLEAN
  BY DEF CountedFor, IInv, TypeOK
<1>4. subject' # None
  BY <1>1, AuditAssumption
<1>5. AuditTypeOK'
  BY <1>1, <1>2, <1>3, <1>4 DEF AuditInv, AuditTypeOK, Links
<1>6. PagingInv'
  <2>1. \A b \in ballots : b.id \in Nat /\ 0 < b.id
    BY DEF IInv, TypeOK, Row, IdsInv
  <2>2. \A b \in begun' : ~(b.id <= 0)
    BY <1>1, <2>1 DEF CountedFor
  <2> QED
    BY <1>1, <2>2 DEF PagingInv
<1>7. SubjectInv'
  BY <1>1, <1>2, TallyIsStored DEF SubjectInv
<1> QED
  BY <1>1, <1>2, <1>5, <1>6, <1>7 DEF AuditInv, LeftInv, VerdictInv, IdleInv

\* A page with ballots takes the loop to the last id on it, with nothing
\* stored at the beginning left behind.
LEMMA NextPageKeeps ==
    ASSUME IInv, AuditInv, UNCHANGED vars, NEW page \in SUBSET ballots, NextPage(page)
    PROVE  AuditInv'
<1> DEFINE rows == CountedFor(subject[1].election)
<1>1. /\ auditPc = "paging" /\ subject # None /\ verdict = "none"
      /\ UNCHANGED <<auditPc, left, subject, link, doneFetchingBallots, begun, verdict>>
      /\ fetched' = fetched \cup page /\ IsPage(page, rows, lastId)
  BY DEF NextPage, AuditInv, AuditTypeOK
<1>2. PICK z \in page : lastId' = z.id /\ \A x \in page : x.id <= z.id
  BY DEF NextPage
<1>3. ballots \subseteq Row /\ \A b \in ballots : b.id \in Nat
  BY DEF IInv, TypeOK, Row
<1>4. rows \subseteq ballots /\ lastId \in Nat
  BY DEF CountedFor, AuditInv, AuditTypeOK
<1>5. UNCHANGED <<ballots, tallies, up>>
  BY DEF vars, tables, host
<1>6. AuditTypeOK'
  BY <1>1, <1>2, <1>3, <1>5 DEF AuditInv, AuditTypeOK
<1>7. LeftInv' /\ IdleInv' /\ VerdictInv'
  BY <1>1, <1>5 DEF AuditInv, LeftInv, IdleInv, VerdictInv
<1>8. SubjectInv'
  BY <1>1, <1>5 DEF AuditInv, SubjectInv, CountedFor
<1>9. ASSUME NEW b \in begun, b.id <= lastId'
      PROVE  b \in fetched'
  <2>1. b \in rows
    BY <1>1 DEF AuditInv, SubjectInv
  <2>2. b.id <= lastId \/ b \in page
    BY <1>1, <1>2, <1>3, <1>4, <1>9, <2>1, FullPage
  <2> QED
    BY <1>1, <2>2 DEF AuditInv, PagingInv
<1> QED
  BY <1>1, <1>6, <1>7, <1>8, <1>9 DEF AuditInv, PagingInv

\* The empty page ends the loop with everything that was stored.
LEMMA LastPageKeeps ==
    ASSUME IInv, AuditInv, UNCHANGED vars, LastPage
    PROVE  AuditInv'
<1> DEFINE rows == CountedFor(subject[1].election)
<1>1. /\ auditPc = "paging" /\ auditPc' = "listed" /\ subject # None
      /\ verdict' = IF Matches(subject[1], subject[2], fetched) THEN "TRUE" ELSE "FALSE"
      /\ link' = "none" /\ doneFetchingBallots' = TRUE /\ lastId' = 0
      /\ UNCHANGED <<left, subject, fetched, begun>>
      /\ IsPage({}, rows, lastId)
  BY DEF LastPage, AuditInv, AuditTypeOK
<1>2. UNCHANGED <<ballots, tallies, up>>
  BY DEF vars, tables, host
<1>3. AuditTypeOK' /\ LeftInv' /\ IdleInv' /\ PagingInv'
  BY <1>1, <1>2 DEF AuditInv, AuditTypeOK, Links, LeftInv, IdleInv, PagingInv
<1>4. SubjectInv'
  BY <1>1, <1>2 DEF AuditInv, SubjectInv, CountedFor
<1>5. begun \subseteq fetched
  <2> SUFFICES ASSUME NEW b \in begun
               PROVE  b \in fetched
    OBVIOUS
  <2>1. b \in rows
    BY <1>1 DEF AuditInv, SubjectInv
  <2>2. b.id \in Nat /\ lastId \in Nat
    BY <2>1 DEF CountedFor, IInv, TypeOK, Row, AuditInv, AuditTypeOK
  <2>3. ~(b.id > lastId)
    BY <1>1, <2>1, EmptyPage
  <2> QED
    BY <1>1, <2>2, <2>3 DEF AuditInv, PagingInv
<1>6. VerdictInv'
  BY <1>1, <1>5 DEF VerdictInv, Matches
<1> QED
  BY <1>3, <1>4, <1>6 DEF AuditInv

\* A verification that breaks off has said FALSE and fetched nothing.
LEMMA EndKeeps ==
    ASSUME IInv, AuditInv, UNCHANGED vars, PageFails \/ EndAudit
    PROVE  AuditInv'
<1>1. UNCHANGED <<ballots, tallies, up>>
  BY DEF vars, tables, host
<1>2. LeftInv'
  BY <1>1 DEF PageFails, EndAudit, AuditInv, LeftInv
<1>3. CASE PageFails
  <2>1. AuditTypeOK' /\ ~doneFetchingBallots'
    BY <1>1, <1>3 DEF PageFails, AuditInv, AuditTypeOK, Links
  <2>2. SubjectInv'
    BY <1>1, <1>3 DEF PageFails, AuditInv, SubjectInv, CountedFor
  <2> QED
    BY <1>2, <1>3, <2>1, <2>2 DEF PageFails, AuditInv, PagingInv, VerdictInv, IdleInv
<1>4. CASE EndAudit
  <2>1. link = "none" => AuditTypeOK'
    BY <1>1, <1>4 DEF EndAudit, AuditInv, AuditTypeOK
  <2>2. link = "none"
    BY <1>4 DEF EndAudit, AuditInv, IdleInv
  <2> QED
    BY <1>2, <1>4, <2>1, <2>2 DEF EndAudit, AuditInv, SubjectInv, PagingInv, VerdictInv, IdleInv
<1> QED
  BY <1>3, <1>4

\* What happens to the connection does not touch what was fetched.
LEMMA LinkKeeps ==
    ASSUME AuditInv, UNCHANGED vars, Accepted \/ PageUnmade
    PROVE  AuditInv'
<1>1. UNCHANGED <<ballots, tallies, up>> /\ UNCHANGED loopVars
  BY DEF vars, tables, host, Accepted, PageUnmade
<1>2. link' \in Links /\ up /\ auditPc = "paging"
  BY DEF Accepted, PageUnmade, AuditInv, AuditTypeOK, IdleInv, Links
<1>3. AuditTypeOK' /\ LeftInv' /\ PagingInv' /\ IdleInv'
  BY <1>1, <1>2 DEF AuditInv, AuditTypeOK, LeftInv, PagingInv, IdleInv, loopVars
<1>4. SubjectInv' /\ VerdictInv'
  BY <1>1 DEF AuditInv, SubjectInv, VerdictInv, Matches, CountedFor, loopVars
<1> QED
  BY <1>3, <1>4 DEF AuditInv

LEMMA AuditStepKeeps ==
    ASSUME IInv, IInv', AuditInv, [AuditNext]_auditAll
    PROVE  AuditInv'
<1>1. ASSUME UNCHANGED loopVars, link' = (IF up' \/ link = "none" THEN link ELSE "cut") \/ UNCHANGED <<link, up>>
      PROVE  AuditInv'
  <2>1. [Next]_vars /\ TypeOK
    BY AuditCases DEF IInv
  <2>2. ballots \subseteq ballots' /\ tallies \subseteq tallies'
    BY <2>1, RecordsStep
  <2>3. ballots' \subseteq Row /\ up' \in BOOLEAN
    BY DEF IInv, TypeOK
  <2> QED
    BY <1>1, <2>2, <2>3, ServerKeeps
<1>2. ASSUME UNCHANGED vars, AuditStep
      PROVE  AuditInv'
  BY <1>2, ListElectionsKeeps, BeginKeeps, NextPageKeeps, LastPageKeeps, EndKeeps,
     LinkKeeps
     DEF AuditStep, PageStep
<1> QED
  BY <1>1, <1>2, AuditCases

-----------------------------------------------------------------------------
(* The theorems. *)

\* What is proved of the server holds with the client beside it: the audit
\* only reads.
THEOREM AuditServes == AuditSpec => Spec
<1>1. AuditInit => Init
  BY DEF AuditInit
<1>2. [AuditNext]_auditAll => [Next]_vars
  BY AuditCases
<1> QED
  BY <1>1, <1>2, PTL DEF AuditSpec, Spec, auditAll

\* The strengthening holds in every reachable state.
THEOREM AuditInductive == AuditSpec => []AuditInv
<1>1. AuditSpec => []IInv
  BY AuditServes, Inductive, PTL
<1>2. IInv /\ IInv' /\ AuditInv /\ [AuditNext]_auditAll => AuditInv'
  BY AuditStepKeeps
<1> QED
  BY <1>1, <1>2, InitAudit, PTL DEF AuditSpec, auditAll

\* verifyTallyEncryption, for any page size: its loop ends with every ballot
\* that was stored when it began.
THEOREM FetchIsComplete == AuditSpec => []FetchCoversStart
<1>1. AuditInv => FetchCoversStart
  BY DEF AuditInv, VerdictInv, FetchCoversStart
<1> QED
  BY <1>1, AuditInductive, PTL

\* TRUE is said of a tally only if it counts exactly the ballots that were
\* stored when its verification began.
THEOREM AcceptanceIsSound == AuditSpec => []AcceptedIsComplete
<1>1. AuditInv => AcceptedIsComplete
  <2> SUFFICES ASSUME AuditInv, verdict = "TRUE"
               PROVE  begun = subject[1].counted
    BY DEF AcceptedIsComplete
  <2>1. begun \subseteq fetched /\ fetched = subject[1].counted
    BY DEF AuditInv, VerdictInv, Matches
  <2>2. subject[1].counted \subseteq begun
    BY DEF AuditInv, AuditTypeOK, SubjectInv
  <2> QED
    BY <2>1, <2>2
<1> QED
  BY <1>1, AuditInductive, PTL

\* FALSE is said of an exact entry only if a ballot was committed after the
\* count, or if the last page never came.
THEOREM RefusalIsExplained == AuditSpec => []FalseIsExplained
<1>1. AuditInv => FalseIsExplained
  <2> SUFFICES ASSUME AuditInv, verdict = "FALSE", doneFetchingBallots,
                      subject[1].results[subject[2]] # Garbage
               PROVE  \E b \in fetched : b \notin subject[1].counted
    BY DEF FalseIsExplained
  <2>1. begun \subseteq fetched /\ fetched # subject[1].counted /\ subject # None
    BY DEF AuditInv, VerdictInv, Matches
  <2>2. subject[1].counted \subseteq begun
    BY <2>1 DEF AuditInv, SubjectInv
  <2> QED
    BY <2>1, <2>2
<1> QED
  BY <1>1, AuditInductive, PTL

-----------------------------------------------------------------------------
(* What is read of a page. *)

\* The response to be decoded, entry by entry.
LEMMA MessageParts ==
    ASSUME NEW page \in SUBSET Row, ById(page) \in Seq(page)
    PROVE  /\ Message(page) \in Seq(BallotSet(Nat, Candidates, page))
           /\ Len(Message(page)) = Len(ById(page))
           /\ \A i \in DOMAIN ById(page) :
                 /\ Message(page)[i].id = ById(page)[i].id
                 /\ Len(Message(page)[i].entries) = Len(ById(page)[i].entries)
                 /\ \A j \in DOMAIN ById(page)[i].entries :
                       Message(page)[i].entries[j] =
                           [candidate |-> ById(page)[i].entries[j].candidate,
                            value     |-> ById(page)[i]]
<1> DEFINE rows == ById(page)
           n == Len(rows)
           E(r) == [j \in DOMAIN r.entries |-> [candidate |-> r.entries[j].candidate, value |-> r]]
<1>1. n \in Nat /\ DOMAIN rows = 1 .. n
  BY LenProperties
<1>2. \A i \in 1 .. n : rows[i] \in page
  BY <1>1
<1>3. ASSUME NEW r \in page
      PROVE  /\ E(r) \in Seq([candidate : Candidates, value : page])
             /\ Len(E(r)) = Len(r.entries)
             /\ \A j \in DOMAIN r.entries :
                   E(r)[j] = [candidate |-> r.entries[j].candidate, value |-> r]
  <2>1. r.entries \in Seq(Entry)
    BY DEF Row
  <2>2. DOMAIN r.entries = 1 .. Len(r.entries) /\ Len(r.entries) \in Nat
    BY <2>1, LenProperties
  <2>3. \A j \in 1 .. Len(r.entries) : r.entries[j].candidate \in Candidates
    <3>1. \A j \in 1 .. Len(r.entries) : r.entries[j] \in Entry
      BY <2>1, <2>2, ElementOfSeq
    <3> QED
      BY <3>1 DEF Entry
  <2> DEFINE m == Len(r.entries)
  <2>4. E(r) \in [1 .. m -> [candidate : Candidates, value : page]]
    BY <2>2, <2>3
  <2>5. E(r) \in Seq([candidate : Candidates, value : page])
    BY <2>2, <2>4
  <2> QED
    BY <2>2, <2>4, <2>5
<1>4. ASSUME NEW r \in page
      PROVE  [id |-> r.id, entries |-> E(r)] \in BallotSet(Nat, Candidates, page)
  BY <1>3 DEF BallotSet, Row
<1>5. Message(page) = [i \in 1 .. n |-> [id |-> rows[i].id, entries |-> E(rows[i])]]
  BY <1>1 DEF Message
<1> HIDE DEF E, rows, n
<1>6. Message(page) \in [1 .. n -> BallotSet(Nat, Candidates, page)]
  BY <1>2, <1>4, <1>5
<1>7. Message(page) \in Seq(BallotSet(Nat, Candidates, page)) /\ Len(Message(page)) = n
  BY <1>1, <1>6
<1>8. ASSUME NEW i \in 1 .. n
      PROVE  /\ Message(page)[i].id = rows[i].id
             /\ Message(page)[i].entries = E(rows[i])
  BY <1>5
<1> QED
  BY <1>1, <1>2, <1>3, <1>7, <1>8 DEF rows, n

\* What the client finds under the indices of its vectors.
LEMMA PageArrives ==
    ASSUME NEW page \in SUBSET Row, ById(page) \in Seq(page),
           NEW cebs \in CastEncryptedBallotsOf(Message(page))
    PROVE  /\ DOMAIN cebs.ids = DOMAIN ById(page) /\ Len(cebs.ids) = Len(ById(page))
           /\ \A i \in DOMAIN ById(page) :
                 /\ cebs.ids[i] = ById(page)[i].id
                 /\ DOMAIN cebs.candidates[i] = DOMAIN ById(page)[i].entries
                 /\ \A j \in DOMAIN ById(page)[i].entries :
                       /\ cebs.candidates[i][j] = ById(page)[i].entries[j].candidate
                       /\ cebs.values[i][j] = ById(page)[i]
<1> DEFINE M == Message(page)
           rows == ById(page)
           n == Len(rows)
<1>1. M \in Seq(BallotSet(Nat, Candidates, page)) /\ Len(M) = n
  BY MessageParts
<1>2. n \in Nat /\ DOMAIN rows = 1 .. n /\ \A i \in 1 .. n : rows[i] \in Row
  BY LenProperties
<1>3. cebs = [ids |-> IdsIn(M), candidates |-> ListsIn(M), values |-> BytesIn(M)]
  BY <1>1, BallotListsArrive
<1>4. cebs.ids = IdsIn(M) /\ cebs.candidates = ListsIn(M) /\ cebs.values = BytesIn(M)
  BY <1>3
<1>5. DOMAIN cebs.ids = 1 .. n /\ Len(cebs.ids) = n
  BY <1>1, <1>2, <1>4 DEF IdsIn
<1>6. ASSUME NEW i \in 1 .. n
      PROVE  /\ cebs.ids[i] = M[i].id
             /\ cebs.candidates[i] = CandidatesIn(M[i].entries)
             /\ cebs.values[i] = ValuesIn(M[i].entries)
  BY <1>1, <1>4 DEF IdsIn, ListsIn, BytesIn
<1>7. ASSUME NEW i \in 1 .. n
      PROVE  DOMAIN rows[i].entries = 1 .. Len(rows[i].entries)
  BY <1>2, LenProperties DEF Row
<1>8. ASSUME NEW i \in 1 .. n
      PROVE  /\ M[i].id = rows[i].id
             /\ Len(M[i].entries) = Len(rows[i].entries)
             /\ \A j \in DOMAIN rows[i].entries :
                   M[i].entries[j] = [candidate |-> rows[i].entries[j].candidate,
                                      value     |-> rows[i]]
  BY <1>2, MessageParts
<1> HIDE DEF M, rows, n
<1>9. ASSUME NEW i \in 1 .. n
      PROVE  /\ cebs.ids[i] = rows[i].id
             /\ DOMAIN cebs.candidates[i] = DOMAIN rows[i].entries
             /\ \A j \in DOMAIN rows[i].entries :
                   /\ cebs.candidates[i][j] = rows[i].entries[j].candidate
                   /\ cebs.values[i][j] = rows[i]
  <2> DEFINE parts == M[i].entries
  <2>1. DOMAIN CandidatesIn(parts) = 1 .. Len(parts)
    BY DEF CandidatesIn
  <2>2. ASSUME NEW j \in 1 .. Len(parts)
        PROVE  CandidatesIn(parts)[j] = parts[j].candidate /\ ValuesIn(parts)[j] = parts[j].value
    BY DEF CandidatesIn, ValuesIn
  <2>3. Len(parts) = Len(rows[i].entries) /\ DOMAIN rows[i].entries = 1 .. Len(parts)
    BY <1>7, <1>8
  <2>4. ASSUME NEW j \in 1 .. Len(parts)
        PROVE  parts[j].candidate = rows[i].entries[j].candidate /\ parts[j].value = rows[i]
    <3>1. j \in DOMAIN rows[i].entries
      BY <2>3
    <3>2. parts[j] = [candidate |-> rows[i].entries[j].candidate, value |-> rows[i]]
      BY <1>8, <3>1
    <3> QED
      BY <3>2
  <2> HIDE DEF parts
  <2> QED
    BY <1>6, <1>8, <2>1, <2>2, <2>3, <2>4 DEF parts
<1> QED
  BY <1>2, <1>5, <1>9 DEF rows, n

LEMMA PageIsRead ==
    ASSUME NEW page \in SUBSET Row, IsFiniteSet(page),
           \A b1, b2 \in page : b1.id = b2.id => b1 = b2,
           NEW cebs \in CastEncryptedBallotsOf(Message(page))
    PROVE  /\ \A c \in Candidates :
                 Ciphertexts(cebs, c) =
                     {b \in page : \E i \in DOMAIN b.entries : b.entries[i].candidate = c}
           /\ page # {} => \A b \in page : b.id <= cebs.ids[Len(cebs.ids)]
<1> DEFINE rows == ById(page)
           ids == Ascending({r.id : r \in page})
<1>1. \A r \in page : r.id \in Nat
  BY DEF Row
<1>2. /\ {r.id : r \in page} \in SUBSET Nat /\ IsFiniteSet({r.id : r \in page})
      /\ rows \in Seq(page) /\ DOMAIN rows = DOMAIN ids
      /\ \A i \in DOMAIN ids : rows[i].id = ids[i]
      /\ \A r \in page : \E i \in DOMAIN ids : rows[i] = r
  BY <1>1, ByIdProperties
<1>3. /\ DOMAIN cebs.ids = DOMAIN rows /\ Len(cebs.ids) = Len(rows)
      /\ \A i \in DOMAIN rows :
            /\ cebs.ids[i] = rows[i].id
            /\ DOMAIN cebs.candidates[i] = DOMAIN rows[i].entries
            /\ \A j \in DOMAIN rows[i].entries :
                  /\ cebs.candidates[i][j] = rows[i].entries[j].candidate
                  /\ cebs.values[i][j] = rows[i]
  BY <1>2, PageArrives
<1>4. \A i \in DOMAIN rows : rows[i] \in page
  BY <1>2
<1> DEFINE T == {r.id : r \in page}
<1>5. /\ ids \in Seq(T)
      /\ T # {} => Len(ids) \in DOMAIN ids /\ \A x \in T : x <= ids[Len(ids)]
  BY <1>2, AscendingProperties
<1>6. Len(rows) = Len(ids)
  BY <1>2, <1>5, LenProperties
<1> HIDE DEF rows, ids
<1>7. ASSUME NEW c \in Candidates
      PROVE  Ciphertexts(cebs, c) =
                 {b \in page : \E i \in DOMAIN b.entries : b.entries[i].candidate = c}
  <2> DEFINE At(i) == {k \in DOMAIN cebs.candidates[i] : cebs.candidates[i][k] = c}
  <2>1. ASSUME NEW b, b \in Ciphertexts(cebs, c)
        PROVE  b \in page /\ \E i \in DOMAIN b.entries : b.entries[i].candidate = c
    <3>1. PICK i \in DOMAIN rows : b \in {cebs.values[i][j] : j \in At(i)}
      BY <1>3, <2>1 DEF Ciphertexts
    <3>2. PICK j \in DOMAIN rows[i].entries :
             b = cebs.values[i][j] /\ cebs.candidates[i][j] = c
      BY <1>3, <3>1
    <3> QED
      BY <1>3, <1>4, <3>2
  <2>2. ASSUME NEW b \in page, NEW j \in DOMAIN b.entries, b.entries[j].candidate = c
        PROVE  b \in Ciphertexts(cebs, c)
    <3>1. PICK i \in DOMAIN rows : rows[i] = b
      BY <1>2
    <3>2. b = cebs.values[i][j] /\ j \in At(i)
      BY <1>3, <2>2, <3>1
    <3>3. b \in {cebs.values[i][k] : k \in At(i)} /\ i \in DOMAIN cebs.ids
      BY <1>3, <3>1, <3>2
    <3> QED
      BY <3>3 DEF Ciphertexts
  <2> QED
    BY <2>1, <2>2
<1>8. ASSUME page # {}, NEW b \in page
      PROVE  b.id <= cebs.ids[Len(cebs.ids)]
  <2>1. b.id \in T
    OBVIOUS
  <2>2. Len(ids) \in DOMAIN ids /\ b.id <= ids[Len(ids)]
    BY <1>5, <2>1
  <2> QED
    BY <1>2, <1>3, <1>6, <2>2
<1> QED
  BY <1>7, <1>8

\* The page loop of verifyTallyEncryption: whatever ballots a page holds, and
\* wherever the vectors are moved while they are decoded, the client multiplies
\* the ciphertexts of exactly those ballots and goes on after the last.
THEOREM PagesArrive == AuditSpec => []PagesRead
<1>1. IInv => PagesRead
  <2> SUFFICES ASSUME IInv, NEW page \in SUBSET ballots,
                      NEW cebs \in CastEncryptedBallotsOf(Message(page))
               PROVE  /\ \A c \in Candidates :
                            Ciphertexts(cebs, c) =
                                {b \in page : \E i \in DOMAIN b.entries :
                                                  b.entries[i].candidate = c}
                      /\ page # {} => \A b \in page : b.id <= cebs.ids[Len(cebs.ids)]
    BY DEF PagesRead
  <2>1. page \in SUBSET Row /\ \A b1, b2 \in page : b1.id = b2.id => b1 = b2
    BY DEF IInv, TypeOK, IdsInv
  <2>2. IsFiniteSet(page)
    BY FS_Subset DEF IInv, BallotsInv
  <2> QED
    BY <2>1, <2>2, PageIsRead
<1>2. AuditSpec => []IInv
  BY AuditServes, Inductive, PTL
<1> QED
  BY <1>1, <1>2, PTL
=============================================================================
