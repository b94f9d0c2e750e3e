-------------------------- MODULE CastSession_proofs --------------------------
(***************************************************************************)
(* Proofs about the listings of elections and voters, and about a cast     *)
(* that begins with one.                                                   *)
(*                                                                         *)
(* Listing, for any tables, any page size and any inserts between the      *)
(* statements of the handlers: a walk through the pages is complete, and   *)
(* the parts of one response fit.                                          *)
(*                                                                         *)
(* CastSession, from the typed election id to the answer, for any number   *)
(* of candidates as well: what is stored is what was typed, it is stored   *)
(* if and only if client and server saw one list of candidates, and an     *)
(* election is unknown only if it is not on the first page.                *)
(***************************************************************************)
EXTENDS CastSession, Wire_proofs

-----------------------------------------------------------------------------
(* Sets of ids and their first and last elements. *)

\* The next election to describe is one of the page's, and its first.
LEMMA LowestIsLeast ==
    ASSUME NEW T \in SUBSET Nat, T # {}
    PROVE  Lowest(T) \in T /\ \A y \in T : Lowest(T) <= y
BY LeastExists DEF Lowest

\* A page holds, with an id, every lower one that is above the last id.
LEMMA PageClosed ==
    ASSUME NEW S \in SUBSET Nat, IsFiniteSet(S), NEW last \in Nat,
           NEW x \in S, x > last, NEW y \in First(S, last), x <= y
    PROVE  x \in First(S, last)
<1> DEFINE Below(z) == {u \in S : last < u /\ u <= z}
<1>1. y \in S /\ Cardinality(Below(y)) <= PaginationMax
  BY DEF First
<1>2. Below(y) \in SUBSET S /\ Below(x) \in SUBSET Below(y)
  <2>1. \A u \in S : u <= x => u <= y
    BY <1>1
  <2> QED
    BY <2>1
<1>3. IsFiniteSet(Below(y))
  BY <1>2, FS_Subset
<1>4. Cardinality(Below(x)) <= Cardinality(Below(y)) /\ IsFiniteSet(Below(x))
  BY <1>2, <1>3, FS_Subset
<1>5. Cardinality(Below(x)) \in Nat /\ Cardinality(Below(y)) \in Nat /\ PaginationMax \in Nat
  BY <1>3, <1>4, FS_CardinalityType, ListingAssumption
<1>6. Cardinality(Below(x)) <= PaginationMax
  BY <1>1, <1>4, <1>5
<1> QED
  BY <1>6 DEF First

\* A page is empty only when nothing is above the last id.
LEMMA PageNotEmpty ==
    ASSUME NEW S \in SUBSET Nat, NEW last \in Nat, NEW x \in S, x > last
    PROVE  First(S, last) # {}
<1> DEFINE T == {y \in S : y > last}
<1>1. PICK m \in T : \A y \in T : m <= y
  BY LeastExists
<1>2. {u \in S : last < u /\ u <= m} = {m}
  <2>1. m \in S /\ last < m /\ m <= m
    BY <1>1
  <2>2. \A u \in S : last < u /\ u <= m => u = m
    BY <1>1
  <2> QED
    BY <2>1, <2>2
<1>3. Cardinality({m}) = 1 /\ 1 <= PaginationMax
  BY FS_Singleton, ListingAssumption
<1>4. Cardinality({u \in S : last < u /\ u <= m}) <= PaginationMax
  BY <1>2, <1>3
<1>5. m \in First(S, last)
  BY <1>1, <1>4 DEF First
<1> QED
  BY <1>5
-----------------------------------------------------------------------------
(* The inductive invariant of the listings. *)

\* A tally names candidates of its election.
TallyInv == \A e \in Elections : tally[e] # None => tally[e] \subseteq CandidatesOf(e)

\* What had entries has them still.
EarlyInv == \A e \in early : tally[e] \notin {None, {}}

\* The ids of the page, described already or not.
Chosen == page \cup {answer[i].id : i \in DOMAIN answer}

HandlerInv ==
    /\ pc = "idle" => page = {} /\ answer = <<>>
    /\ pc # "idle" => kind # None /\ Chosen \subseteq Stored(kind)
    /\ pc \in {"tally", "groups", "candidates"} => kind = "elections"
    /\ kind # "elections" => answer = <<>>
    /\ pc = "respond" /\ kind = "elections" => page = {}
    /\ pc \in {"groups", "candidates"} => /\ answer # <<>>
                                         /\ answer[Len(answer)].id = Lowest(page)

\* A tally is in the list of candidates described with it; while its election is
\* being described it is in the table.
TalliedInv == \A i \in DOMAIN answer :
    IF i = Len(answer) /\ pc \in {"groups", "candidates"}
    THEN answer[i].tallied \subseteq CandidatesOf(Lowest(page))
    ELSE answer[i].tallied \subseteq answer[i].candidates

\* The walk has seen what it has passed, and a page that was cut passes nothing.
WalkInv ==
    /\ begun \subseteq Nat
    /\ kind # None => begun \subseteq Stored(kind)
    /\ \A x \in begun : x <= lastId => x \in seen
    /\ WalkComplete
    /\ pc # "idle" => \A x \in begun : x > lastId =>
          Chosen # {} /\ \A y \in Chosen : x <= y => x \in Chosen

\* What holds of the handler whatever the client does with its responses.
CoreInv == TypeOK /\ HandlerInv

IInv ==
    /\ CoreInv /\ TallyInv /\ EarlyInv
    /\ TalliedInv /\ CountedAreFinalized /\ WalkInv

LEMMA InitIInv == Init => IInv
BY ListingAssumption DEF Init, IInv, CoreInv, TypeOK, TallyInv, EarlyInv, HandlerInv, Chosen,
   TalliedInv, CountedAreFinalized, WalkInv, WalkComplete
-----------------------------------------------------------------------------
(* What the statements of getElections do to the answer. *)

\* A field of the last Election is filled in.
LEMMA LastChanged ==
    ASSUME NEW a \in Seq(Described), a # <<>>, NEW d \in Described
    PROVE  /\ [a EXCEPT ![Len(a)] = d] \in Seq(Described)
           /\ DOMAIN [a EXCEPT ![Len(a)] = d] = DOMAIN a
           /\ Len([a EXCEPT ![Len(a)] = d]) = Len(a)
           /\ Len(a) \in DOMAIN a
           /\ [a EXCEPT ![Len(a)] = d][Len(a)] = d
           /\ \A i \in DOMAIN a : i # Len(a) => [a EXCEPT ![Len(a)] = d][i] = a[i]
<1> DEFINE b == [a EXCEPT ![Len(a)] = d]
<1>1. Len(a) \in Nat \ {0} /\ DOMAIN a = 1 .. Len(a)
  BY EmptySeq, LenProperties
<1>2. b \in [1 .. Len(a) -> Described]
  BY <1>1, LenProperties
<1>3. b \in Seq(Described) /\ Len(b) = Len(a)
  BY <1>1, <1>2
<1> QED
  BY <1>1, <1>2, <1>3

\* The statements of a page read with ids on it.
LEMMA PageIsThere ==
    ASSUME CoreInv, pc \in {"tally", "groups", "candidates"}
    PROVE  /\ page \subseteq elections /\ kind = "elections"
           /\ Lowest(page) \in page /\ Lowest(page) \in Elections /\ Lowest(page) \in Nat
<1>1. kind = "elections" /\ page \subseteq elections
  BY DEF CoreInv, HandlerInv, Chosen, Stored
<1>2. page \in SUBSET Nat /\ page # {} /\ elections \subseteq Elections
  BY DEF CoreInv, TypeOK
<1>3. Lowest(page) \in page
  BY <1>2, LowestIsLeast
<1> QED
  BY <1>1, <1>2, <1>3

LEMMA TallyEffect ==
    ASSUME CoreInv, QueryTally
    PROVE
        LET e == Lowest(page)
            n == Len(answer) + 1
            entries == IF tally[e] = None THEN {} ELSE tally[e]
        IN  /\ answer' \in Seq(Described) /\ Len(answer') = n /\ n \in DOMAIN answer'
            /\ \A i \in DOMAIN answer' : i # n => i \in DOMAIN answer /\ answer'[i] = answer[i]
            /\ \A i \in DOMAIN answer : i # n /\ i \in DOMAIN answer'
            /\ answer'[n] = [id |-> e, finalized |-> entries # {}, tallied |-> entries,
                             groups |-> {}, candidates |-> {}]
            /\ Chosen' = Chosen
<1> DEFINE e == Lowest(page)
           n == Len(answer) + 1
           entries == IF tally[e] = None THEN {} ELSE tally[e]
           d == [id |-> e, finalized |-> entries # {}, tallied |-> entries,
                 groups |-> {}, candidates |-> {}]
<1>1. e \in page /\ e \in Elections
  BY PageIsThere DEF QueryTally
<1>2. answer \in Seq(Described) /\ tally[e] \in (SUBSET CandidateRows) \cup {None}
  BY <1>1 DEF CoreInv, TypeOK
<1>3. d \in Described
  <2>1. entries \in SUBSET CandidateRows
    BY <1>2
  <2> QED
    BY <1>1, <2>1 DEF Described
<1>4. answer' = Append(answer, d) /\ page' = page
  BY DEF QueryTally
<1> HIDE DEF d
<1>5. /\ answer' \in Seq(Described) /\ Len(answer') = n /\ answer'[n] = d
      /\ DOMAIN answer' = 1 .. n /\ DOMAIN answer = 1 .. Len(answer) /\ Len(answer) \in Nat
      /\ \A i \in 1 .. Len(answer) : answer'[i] = answer[i]
  BY <1>2, <1>3, <1>4, AppendProperties, LenProperties
<1>6. /\ n \in DOMAIN answer'
      /\ \A i \in DOMAIN answer' : i # n => i \in DOMAIN answer /\ answer'[i] = answer[i]
      /\ \A i \in DOMAIN answer : i # n /\ i \in DOMAIN answer'
  BY <1>5
<1>7. Chosen' = Chosen
  <2>1. d.id \in page
    BY <1>1 DEF d
  <2> QED
    BY <1>4, <1>5, <1>6, <2>1 DEF Chosen
<1> QED
  BY <1>5, <1>6, <1>7 DEF d

LEMMA GroupsEffect ==
    ASSUME CoreInv, QueryGroups
    PROVE
        /\ answer' \in Seq(Described) /\ Len(answer') = Len(answer)
        /\ DOMAIN answer' = DOMAIN answer
        /\ \A i \in DOMAIN answer :
              /\ answer'[i].id = answer[i].id /\ answer'[i].finalized = answer[i].finalized
              /\ answer'[i].tallied = answer[i].tallied
              /\ answer'[i].candidates = answer[i].candidates
        /\ Len(answer) \in DOMAIN answer
        /\ Chosen' = Chosen
<1> DEFINE n == Len(answer)
           G == {r.id : r \in {x \in groups : x.id = Lowest(page)}}
           d == [answer[n] EXCEPT !.groups = G]
<1>1. answer \in Seq(Described) /\ answer # <<>>
  BY DEF CoreInv, TypeOK, HandlerInv, QueryGroups
<1>2. n \in DOMAIN answer /\ answer[n] \in Described
  BY <1>1, EmptySeq, LenProperties, ElementOfSeq
<1>3. G \subseteq Elections
  BY PageIsThere DEF QueryGroups
<1>4. /\ d \in Described /\ d.id = answer[n].id /\ d.finalized = answer[n].finalized
      /\ d.tallied = answer[n].tallied /\ d.candidates = answer[n].candidates
  BY <1>2, <1>3 DEF Described
<1>5. answer' = [answer EXCEPT ![n] = d] /\ page' = page
  BY <1>2 DEF QueryGroups
<1> HIDE DEF d, n
<1>6. /\ answer' \in Seq(Described) /\ DOMAIN answer' = DOMAIN answer
      /\ Len(answer') = n /\ answer'[n] = d
      /\ \A i \in DOMAIN answer : i # n => answer'[i] = answer[i]
  BY <1>1, <1>4, <1>5, LastChanged DEF n
<1>7. \A i \in DOMAIN answer :
         /\ answer'[i].id = answer[i].id /\ answer'[i].finalized = answer[i].finalized
         /\ answer'[i].tallied = answer[i].tallied
         /\ answer'[i].candidates = answer[i].candidates
  BY <1>4, <1>6
<1>8. Chosen' = Chosen
  BY <1>5, <1>6, <1>7 DEF Chosen
<1> QED
  BY <1>2, <1>6, <1>7, <1>8 DEF n

LEMMA CandidatesEffect ==
    ASSUME CoreInv, QueryCandidates
    PROVE
        /\ answer' \in Seq(Described) /\ Len(answer') = Len(answer)
        /\ DOMAIN answer' = DOMAIN answer
        /\ \A i \in DOMAIN answer :
              /\ answer'[i].id = answer[i].id /\ answer'[i].finalized = answer[i].finalized
              /\ answer'[i].tallied = answer[i].tallied
              /\ i # Len(answer) => answer'[i].candidates = answer[i].candidates
        /\ Len(answer) \in DOMAIN answer
        /\ answer'[Len(answer)].candidates = CandidatesOf(Lowest(page))
        /\ Chosen' = Chosen
<1> DEFINE n == Len(answer)
           C == CandidatesOf(Lowest(page))
           d == [answer[n] EXCEPT !.candidates = C]
<1>1. /\ answer \in Seq(Described) /\ answer # <<>> /\ answer[n].id = Lowest(page)
      /\ candidates \subseteq CandidateRows
  BY DEF CoreInv, TypeOK, HandlerInv, QueryCandidates
<1>2. n \in DOMAIN answer /\ answer[n] \in Described
  BY <1>1, EmptySeq, LenProperties, ElementOfSeq
<1>3. C \subseteq CandidateRows
  BY <1>1 DEF CandidatesOf
<1>4. /\ d \in Described /\ d.id = answer[n].id /\ d.finalized = answer[n].finalized
      /\ d.tallied = answer[n].tallied /\ d.candidates = C
  BY <1>2, <1>3 DEF Described
<1>5. answer' = [answer EXCEPT ![n] = d] /\ page' = page \ {Lowest(page)}
  BY <1>2 DEF QueryCandidates
<1> HIDE DEF d, n, C
<1>6. /\ answer' \in Seq(Described) /\ DOMAIN answer' = DOMAIN answer
      /\ Len(answer') = n /\ answer'[n] = d
      /\ \A i \in DOMAIN answer : i # n => answer'[i] = answer[i]
  BY <1>1, <1>4, <1>5, LastChanged DEF n
<1>7. \A i \in DOMAIN answer :
         /\ answer'[i].id = answer[i].id /\ answer'[i].finalized = answer[i].finalized
         /\ answer'[i].tallied = answer[i].tallied
         /\ i # n => answer'[i].candidates = answer[i].candidates
  BY <1>4, <1>6
<1>8. Chosen' = Chosen
  <2>1. Lowest(page) \in {answer[i].id : i \in DOMAIN answer}
    BY <1>1, <1>2 DEF n
  <2>2. {answer'[i].id : i \in DOMAIN answer'} = {answer[i].id : i \in DOMAIN answer}
    BY <1>6, <1>7
  <2> QED
    BY <1>5, <2>1, <2>2 DEF Chosen
<1> QED
  BY <1>2, <1>4, <1>6, <1>7, <1>8 DEF n, C
-----------------------------------------------------------------------------
(* Every step of a listing preserves the invariant. *)

\* Rows are inserted and tallies committed; the walk and the handler stay.
Outside ==
    \/ \E e \in Elections : InsertElection(e) \/ CommitTally(e)
    \/ \E v \in Voters : InsertVoter(v)
    \/ \E r \in CandidateRows : InsertCandidate(r)
    \/ \E r \in GroupRows : InsertGroup(r)

\* Nothing that is stored goes away or changes.
LEMMA OutsideEffect ==
    ASSUME CoreInv, Outside
    PROVE  /\ UNCHANGED <<walk, handler>>
           /\ elections \subseteq elections' /\ voters \subseteq voters'
           /\ elections' \subseteq Elections /\ voters' \subseteq Voters
           /\ candidates \subseteq candidates' /\ candidates' \subseteq CandidateRows
           /\ groups' \subseteq GroupRows
           /\ tally' \in [Elections -> (SUBSET CandidateRows) \cup {None}]
           /\ \A e \in Elections : tally[e] # None => tally'[e] = tally[e]
           /\ \A e \in Elections : tally'[e] # None /\ tally'[e] # tally[e]
                 => tally'[e] \subseteq CandidatesOf(e)
<1> USE DEF CoreInv, TypeOK
<1>1. CASE \E e \in Elections : InsertElection(e)
  BY <1>1 DEF InsertElection
<1>2. CASE \E e \in Elections : CommitTally(e)
  <2>0. PICK e \in Elections : CommitTally(e)
    BY <1>2
  <2>1. PICK entries \in {{}, CandidatesOf(e)} :
           tally[e] = None /\ tally' = [tally EXCEPT ![e] = entries]
    BY <2>0 DEF CommitTally
  <2>2. entries \in SUBSET CandidateRows /\ entries \subseteq CandidatesOf(e)
    BY <2>1 DEF CandidatesOf
  <2>3. tally' \in [Elections -> (SUBSET CandidateRows) \cup {None}]
    BY <2>1, <2>2
  <2>4. \A f \in Elections : IF f = e THEN tally'[f] = entries ELSE tally'[f] = tally[f]
    BY <2>1
  <2> QED
    BY <2>0, <2>1, <2>2, <2>3, <2>4 DEF CommitTally
<1>3. CASE \E v \in Voters : InsertVoter(v)
  BY <1>3 DEF InsertVoter
<1>4. CASE \E r \in CandidateRows : InsertCandidate(r)
  BY <1>4 DEF InsertCandidate
<1>5. CASE \E r \in GroupRows : InsertGroup(r)
  BY <1>5 DEF InsertGroup
<1> QED
  BY <1>1, <1>2, <1>3, <1>4, <1>5 DEF Outside

\* The statements that describe the elections of a page.
Describing == QueryTally \/ QueryGroups \/ QueryCandidates

LEMMA StepCases ==
    ASSUME [Next]_vars
    PROVE  \/ Outside \/ Describing \/ QueryPage \/ Respond \/ UNCHANGED vars
           \/ \E k \in {"elections", "voters"} : BeginWalk(k)
BY DEF Next, Outside, Describing

LEMMA DescribingEffect ==
    ASSUME CoreInv, Describing
    PROVE  /\ UNCHANGED <<tables, walk, early>>
           /\ pc \in {"tally", "groups", "candidates"}
           /\ pc' \in {"tally", "groups", "candidates", "respond"}
           /\ page' \subseteq page
           /\ pc' = "respond" <=> page' = {}
           /\ answer' \in Seq(Described)
           /\ Chosen' = Chosen
<1>1. CASE QueryTally
  BY <1>1, TallyEffect, PageIsThere DEF QueryTally
<1>2. CASE QueryGroups
  BY <1>2, GroupsEffect, PageIsThere DEF QueryGroups
<1>3. CASE QueryCandidates
  BY <1>3, CandidatesEffect DEF QueryCandidates
<1> QED
  BY <1>1, <1>2, <1>3 DEF Describing

LEMMA StoredFinite ==
    ASSUME CoreInv, kind # None
    PROVE  Stored(kind) \in SUBSET (Nat \ {0}) /\ IsFiniteSet(Stored(kind))
<1>1. elections \in SUBSET Elections /\ voters \in SUBSET Voters
  BY DEF CoreInv, TypeOK
<1>2. IsFiniteSet(elections) /\ IsFiniteSet(voters)
  BY <1>1, ListingAssumption, FS_Subset
<1> QED
  BY <1>1, <1>2, ListingAssumption DEF Stored

\* The response lists the page, and the walk goes on after its greatest id.
LEMMA RespondEffect ==
    ASSUME CoreInv, Respond
    PROVE  /\ Ids = Chosen /\ Chosen \subseteq Stored(kind) /\ Chosen \subseteq Nat
           /\ seen' = seen \cup Chosen
           /\ Chosen = {} => kind' = None /\ lastId' = lastId
           /\ Chosen # {} => /\ kind' = kind /\ lastId' \in Chosen
                            /\ \A y \in Chosen : y <= lastId'
<1>1. kind # None /\ Chosen \in SUBSET Stored(kind)
  BY DEF CoreInv, HandlerInv, Respond
<1>2. Ids = Chosen
  <2>1. CASE kind = "elections"
    BY <2>1 DEF CoreInv, HandlerInv, Respond, Ids, Chosen
  <2>2. CASE kind # "elections"
    <3>1. answer = <<>>
      BY <2>2 DEF CoreInv, HandlerInv
    <3> QED
      BY <2>2, <3>1 DEF Ids, Chosen
  <2> QED
    BY <2>1, <2>2
<1>3. Chosen \in SUBSET Nat /\ IsFiniteSet(Chosen)
  BY <1>1, StoredFinite, FS_Subset
<1>4. Chosen # {} => \E x \in Chosen : \A y \in Chosen : y <= x
  BY <1>3, GreatestExists
<1> QED
  BY <1>1, <1>2, <1>3, <1>4 DEF Respond

LEMMA TypeStep == ASSUME CoreInv, [Next]_vars PROVE TypeOK'
<1>1. CASE Outside
  BY <1>1, OutsideEffect DEF CoreInv, TypeOK, walk, handler
<1>2. CASE Describing
  BY <1>2, DescribingEffect DEF CoreInv, TypeOK, tables, walk
<1>3. CASE QueryPage
  <2>1. First(Stored(kind), lastId) \subseteq Nat
    BY ListingAssumption DEF First, Stored, CoreInv, TypeOK
  <2> QED
    BY <1>3, <2>1 DEF QueryPage, CoreInv, TypeOK, tables, walk
<1>4. CASE Respond
  <2>1. seen' \subseteq Nat /\ lastId' \in Nat /\ kind' \in {"elections", "voters", None}
    BY <1>4, RespondEffect DEF CoreInv, TypeOK
  <2> QED
    BY <1>4, <2>1 DEF Respond, CoreInv, TypeOK, tables
<1>5. CASE \E k \in {"elections", "voters"} : BeginWalk(k)
  BY <1>5, ListingAssumption DEF BeginWalk, CoreInv, TypeOK, tables, handler, Stored
<1>6. CASE UNCHANGED vars
  BY <1>6 DEF CoreInv, TypeOK, vars, tables, walk, handler
<1> QED
  BY <1>1, <1>2, <1>3, <1>4, <1>5, <1>6, StepCases

LEMMA TallyStep == ASSUME IInv, [Next]_vars PROVE TallyInv' /\ EarlyInv'
<1> CoreInv
  BY DEF IInv
<1>1. CASE Outside
  <2>1. TallyInv'
    BY <1>1, OutsideEffect DEF IInv, TallyInv, CandidatesOf
  <2>2. EarlyInv'
    BY <1>1, OutsideEffect DEF IInv, CoreInv, TypeOK, EarlyInv, handler
  <2> QED
    BY <2>1, <2>2
<1>2. CASE Describing
  BY <1>2, DescribingEffect DEF IInv, TallyInv, EarlyInv, CandidatesOf, tables
<1>3. CASE QueryPage
  BY <1>3 DEF IInv, TallyInv, EarlyInv, CandidatesOf, tables, QueryPage
<1>4. CASE Respond
  BY <1>4 DEF IInv, TallyInv, EarlyInv, CandidatesOf, tables, Respond
<1>5. CASE \E k \in {"elections", "voters"} : BeginWalk(k)
  BY <1>5 DEF IInv, TallyInv, EarlyInv, CandidatesOf, tables, handler, BeginWalk
<1>6. CASE UNCHANGED vars
  BY <1>6 DEF IInv, TallyInv, EarlyInv, CandidatesOf, vars, tables, handler
<1> QED
  BY <1>1, <1>2, <1>3, <1>4, <1>5, <1>6, StepCases

LEMMA HandlerStep == ASSUME CoreInv, [Next]_vars PROVE HandlerInv'
<1>1. CASE Outside
  BY <1>1, OutsideEffect DEF CoreInv, HandlerInv, Chosen, Stored, walk, handler
<1>2. CASE Describing
  <2>1. /\ kind' = kind /\ kind = "elections" /\ pc' # "idle"
        /\ Chosen' \subseteq Stored(kind)'
        /\ pc' = "respond" => page' = {}
    BY <1>2, DescribingEffect DEF CoreInv, HandlerInv, Stored, tables, walk
  <2>2. kind # None
    BY <1>2, DescribingEffect DEF CoreInv, HandlerInv
  <2>3. ASSUME pc' \in {"groups", "candidates"}
        PROVE  answer' # <<>> /\ answer'[Len(answer')].id = Lowest(page)'
    <3>1. CASE QueryTally
      <4>1. Len(answer') \in DOMAIN answer' /\ answer'[Len(answer')].id = Lowest(page)
        BY <3>1, TallyEffect
      <4>2. answer' # <<>>
        BY <4>1
      <4> QED
        BY <3>1, <4>1, <4>2 DEF QueryTally
    <3>2. CASE QueryGroups
      <4>1. /\ Len(answer') = Len(answer) /\ Len(answer) \in DOMAIN answer'
            /\ answer'[Len(answer)].id = Lowest(page)
        BY <3>2, GroupsEffect DEF CoreInv, HandlerInv, QueryGroups
      <4>2. answer' # <<>>
        BY <4>1
      <4> QED
        BY <3>2, <4>1, <4>2 DEF QueryGroups
    <3>3. CASE QueryCandidates
      BY <2>3, <3>3 DEF QueryCandidates
    <3> QED
      BY <1>2, <3>1, <3>2, <3>3 DEF Describing
  <2> QED
    BY <2>1, <2>2, <2>3 DEF HandlerInv
<1>3. CASE QueryPage
  <2>1. /\ page' = First(Stored(kind), lastId) /\ answer' = <<>> /\ kind' = kind /\ kind # None
        /\ Stored(kind)' = Stored(kind)
    BY <1>3 DEF QueryPage, Stored, tables, walk
  <2>2. Chosen' \subseteq Stored(kind)'
    BY <2>1 DEF Chosen, First
  <2> QED
    BY <1>3, <2>1, <2>2 DEF QueryPage, HandlerInv
<1>4. CASE Respond
  BY <1>4 DEF HandlerInv, Respond
<1>5. CASE \E k \in {"elections", "voters"} : BeginWalk(k)
  BY <1>5 DEF CoreInv, HandlerInv, BeginWalk, handler
<1>6. CASE UNCHANGED vars
  BY <1>6 DEF CoreInv, HandlerInv, Chosen, Stored, vars, tables, walk, handler
<1> QED
  BY <1>1, <1>2, <1>3, <1>4, <1>5, <1>6, StepCases

LEMMA TalliedStep == ASSUME IInv, [Next]_vars PROVE TalliedInv'
<1> CoreInv
  BY DEF IInv
<1>1. CASE Outside
  BY <1>1, OutsideEffect DEF IInv, TalliedInv, CandidatesOf, handler
<1>2. CASE QueryTally
  <2>1. \A i \in DOMAIN answer : answer[i].tallied \subseteq answer[i].candidates
    BY <1>2 DEF IInv, TalliedInv, QueryTally
  <2> DEFINE n == Len(answer) + 1
  <2>2. answer'[n].tallied \subseteq CandidatesOf(Lowest(page)) /\ Len(answer') = n
    BY <1>2, TallyEffect, PageIsThere DEF IInv, TallyInv, QueryTally
  <2>3. CandidatesOf(Lowest(page))' = CandidatesOf(Lowest(page)) /\ pc' = "groups"
    BY <1>2 DEF QueryTally, CandidatesOf, tables
  <2>4. ASSUME NEW i \in DOMAIN answer', i # n
        PROVE  answer'[i].tallied \subseteq answer'[i].candidates
    BY <1>2, <2>1, <2>4, TallyEffect
  <2> QED
    BY <2>2, <2>3, <2>4 DEF TalliedInv
<1>3. CASE QueryGroups
  <2>1. /\ CandidatesOf(Lowest(page))' = CandidatesOf(Lowest(page))
        /\ pc = "groups" /\ pc' = "candidates"
    BY <1>3 DEF QueryGroups, CandidatesOf, tables
  <2> QED
    BY <1>3, <2>1, GroupsEffect DEF IInv, TalliedInv
<1>4. CASE QueryCandidates
  <2>1. ASSUME NEW i \in DOMAIN answer
        PROVE  answer'[i].tallied \subseteq answer'[i].candidates
    <3>1. CASE i = Len(answer)
      <4>1. answer[i].tallied \subseteq CandidatesOf(Lowest(page))
        BY <1>4, <3>1 DEF IInv, TalliedInv, QueryCandidates
      <4> QED
        BY <1>4, <3>1, <4>1, CandidatesEffect
    <3>2. CASE i # Len(answer)
      BY <1>4, <3>2, CandidatesEffect DEF IInv, TalliedInv
    <3> QED
      BY <3>1, <3>2
  <2> QED
    BY <1>4, <2>1, CandidatesEffect DEF TalliedInv, QueryCandidates
<1>5. CASE QueryPage \/ Respond
  BY <1>5 DEF TalliedInv, QueryPage, Respond
<1>6. CASE \E k \in {"elections", "voters"} : BeginWalk(k)
  BY <1>6 DEF IInv, TalliedInv, BeginWalk, CandidatesOf, tables, handler
<1>7. CASE UNCHANGED vars
  BY <1>7 DEF IInv, TalliedInv, CandidatesOf, vars, tables, handler
<1> QED
  BY <1>1, <1>2, <1>3, <1>4, <1>5, <1>6, <1>7, StepCases DEF Describing

LEMMA CountedStep == ASSUME IInv, [Next]_vars PROVE CountedAreFinalized'
<1> CoreInv
  BY DEF IInv
<1>1. CASE Outside
  <2>1. ASSUME NEW i \in DOMAIN answer, answer[i].id \in early
        PROVE  tally'[answer[i].id] = tally[answer[i].id]
    <3>1. answer[i].id \in Elections /\ tally[answer[i].id] # None
      BY <2>1 DEF IInv, CoreInv, TypeOK, EarlyInv
    <3> QED
      BY <1>1, <3>1, OutsideEffect
  <2> QED
    BY <1>1, <2>1, OutsideEffect DEF IInv, CountedAreFinalized, handler
<1>2. CASE QueryTally
  <2> DEFINE n == Len(answer) + 1
             e == Lowest(page)
  <2>1. tally' = tally /\ early' = early
    BY <1>2 DEF QueryTally, tables
  <2> DEFINE entries == IF tally[e] = None THEN {} ELSE tally[e]
  <2>2. /\ answer'[n].id = e
        /\ tally[e] \notin {None, {}} => answer'[n].finalized /\ answer'[n].tallied = tally[e]
    <3>1. answer'[n] = [id |-> e, finalized |-> entries # {}, tallied |-> entries,
                        groups |-> {}, candidates |-> {}]
      BY <1>2, TallyEffect
    <3>2. answer'[n].id = e /\ answer'[n].tallied = entries
      BY <3>1
    <3>3. answer'[n].finalized = (entries # {})
      BY <3>1
    <3>4. tally[e] \notin {None, {}} => entries = tally[e] /\ entries # {}
      OBVIOUS
    <3> HIDE DEF entries
    <3> QED
      BY <3>2, <3>3, <3>4
  <2>3. e \in early => tally[e] \notin {None, {}}
    BY DEF IInv, EarlyInv
  <2>4. ASSUME NEW i \in DOMAIN answer', answer'[i].id \in early
        PROVE  answer'[i].finalized /\ answer'[i].tallied = tally[answer'[i].id]
    <3>1. CASE i = n
      BY <2>2, <2>3, <2>4, <3>1
    <3>2. CASE i # n
      <4>1. i \in DOMAIN answer /\ answer'[i] = answer[i]
        BY <1>2, <3>2, TallyEffect
      <4> QED
        BY <2>4, <4>1 DEF IInv, CountedAreFinalized
    <3> QED
      BY <3>1, <3>2
  <2> QED
    BY <2>1, <2>4 DEF CountedAreFinalized
<1>3. CASE QueryGroups
  BY <1>3, GroupsEffect DEF IInv, CountedAreFinalized, QueryGroups, tables
<1>4. CASE QueryCandidates
  BY <1>4, CandidatesEffect DEF IInv, CountedAreFinalized, QueryCandidates, tables
<1>5. CASE QueryPage \/ Respond
  BY <1>5 DEF CountedAreFinalized, QueryPage, Respond
<1>6. CASE \E k \in {"elections", "voters"} : BeginWalk(k)
  BY <1>6 DEF IInv, CountedAreFinalized, BeginWalk, tables, handler
<1>7. CASE UNCHANGED vars
  BY <1>7 DEF IInv, CountedAreFinalized, vars, tables, handler
<1> QED
  BY <1>1, <1>2, <1>3, <1>4, <1>5, <1>6, <1>7, StepCases DEF Describing

LEMMA WalkStep == ASSUME IInv, [Next]_vars PROVE WalkInv'
<1> CoreInv
  BY DEF IInv
<1>1. CASE Outside
  <2>1. Stored(kind) \subseteq Stored(kind)'
    BY <1>1, OutsideEffect DEF Stored, walk
  <2>2. Chosen' = Chosen
    BY <1>1, OutsideEffect DEF Chosen, handler
  <2> QED
    BY <1>1, <2>1, <2>2, OutsideEffect DEF IInv, WalkInv, WalkComplete, walk, handler
<1>2. CASE Describing
  <2>1. Stored(kind)' = Stored(kind)
    BY <1>2, DescribingEffect DEF Stored, tables, walk
  <2>2. pc # "idle"
    BY <1>2, DescribingEffect
  <2> QED
    BY <1>2, <2>1, <2>2, DescribingEffect DEF IInv, WalkInv, WalkComplete, walk
<1>3. CASE QueryPage
  <2>1. /\ page' = First(Stored(kind), lastId) /\ answer' = <<>> /\ kind # None
        /\ Stored(kind)' = Stored(kind) /\ UNCHANGED walk
    BY <1>3 DEF QueryPage, Stored, tables, walk
  <2>2. Chosen' = First(Stored(kind), lastId)
    BY <2>1 DEF Chosen
  <2>3. ASSUME NEW x \in begun, x > lastId
        PROVE  Chosen' # {} /\ \A y \in Chosen' : x <= y => x \in Chosen'
    <3>1. x \in Stored(kind) /\ lastId \in Nat
      BY <2>1 DEF IInv, CoreInv, WalkInv, TypeOK
    <3>2. Stored(kind) \in SUBSET Nat /\ IsFiniteSet(Stored(kind))
      BY <2>1, StoredFinite
    <3> QED
      BY <2>2, <2>3, <3>1, <3>2, PageClosed, PageNotEmpty
  <2> QED
    BY <2>1, <2>3 DEF IInv, WalkInv, WalkComplete, walk
<1>4. CASE Respond
  <2>1. /\ pc # "idle" /\ pc' = "idle" /\ begun' = begun
        /\ Stored(kind)' = (IF kind' = "elections" THEN elections ELSE voters)
    BY <1>4 DEF Respond, Stored, tables
  <2>2. begun \subseteq Nat /\ lastId \in Nat /\ begun \subseteq Stored(kind)
    BY <1>4, <2>1 DEF IInv, CoreInv, WalkInv, TypeOK, HandlerInv
  <2>3. CASE Chosen = {}
    <3>1. \A x \in begun : ~(x > lastId)
      BY <2>1, <2>3 DEF IInv, WalkInv
    <3>2. begun \subseteq seen
      BY <2>2, <3>1 DEF IInv, WalkInv
    <3> QED
      BY <1>4, <2>1, <2>2, <2>3, <3>2, RespondEffect DEF WalkInv, WalkComplete
  <2>4. CASE Chosen # {}
    <3>1. ASSUME NEW x \in begun, x <= lastId'
          PROVE  x \in seen'
      <4>1. CASE x <= lastId
        BY <1>4, <4>1, RespondEffect DEF IInv, WalkInv
      <4>2. CASE ~(x <= lastId)
        <5>1. x > lastId
          BY <2>2, <4>2
        <5>2. x \in Chosen
          BY <1>4, <2>1, <2>4, <3>1, <5>1, RespondEffect DEF IInv, WalkInv
        <5> QED
          BY <1>4, <5>2, RespondEffect
      <4> QED
        BY <4>1, <4>2
    <3>2. kind' = kind /\ kind # None
      BY <1>4, <2>1, <2>4, RespondEffect DEF CoreInv, HandlerInv
    <3> QED
      BY <2>1, <2>2, <3>1, <3>2 DEF WalkInv, WalkComplete, Stored
  <2> QED
    BY <2>3, <2>4
<1>5. CASE \E k \in {"elections", "voters"} : BeginWalk(k)
  <2>1. PICK k \in {"elections", "voters"} : BeginWalk(k)
    BY <1>5
  <2>2. /\ kind = None /\ kind' = k /\ lastId' = 0 /\ begun' = Stored(k) /\ Stored(k)' = Stored(k)
        /\ pc' = pc /\ k # None
    BY <2>1, ListingAssumption DEF BeginWalk, Stored, tables, handler
  <2>3. pc' = "idle"
    BY <2>2 DEF CoreInv, HandlerInv
  <2>4. Stored(k) \subseteq Nat \ {0}
    BY ListingAssumption DEF Stored, CoreInv, TypeOK
  <2> QED
    BY <2>2, <2>3, <2>4 DEF WalkInv, WalkComplete, Stored
<1>6. CASE UNCHANGED vars
  BY <1>6 DEF IInv, WalkInv, WalkComplete, Chosen, Stored, vars, tables, walk, handler
<1> QED
  BY <1>1, <1>2, <1>3, <1>4, <1>5, <1>6, StepCases
-----------------------------------------------------------------------------
(* The theorems about the listings. *)

\* The invariant holds in every reachable state.
THEOREM ListingInductive == Spec => []IInv
<1>1. IInv /\ [Next]_vars => IInv'
  BY TypeStep, TallyStep, HandlerStep, TalliedStep, CountedStep, WalkStep DEF IInv, CoreInv
<1> QED
  BY InitIInv, <1>1, PTL DEF Spec

\* getElections and getVoters by pages: what was stored when a walk began is
\* listed when it ends, for any page size and whatever is inserted meanwhile.
THEOREM WalksAreComplete == Spec => []WalkComplete
<1>1. IInv => WalkComplete
  BY DEF IInv, WalkInv
<1> QED
  BY ListingInductive, <1>1, PTL

\* getElections: every candidate of a listed tally is among the candidates
\* listed with it.
THEOREM TalliesHaveCandidates == Spec => []TalliedAreListed
<1>1. IInv => TalliedAreListed
  BY DEF IInv, TalliedInv, TalliedAreListed
<1> QED
  BY ListingInductive, <1>1, PTL

\* getElections: a tally that had entries when the page was asked for is
\* listed as finalized and as a whole.
THEOREM CountsAreFinal == Spec => []CountedAreFinalized
<1>1. IInv => CountedAreFinalized
  BY DEF IInv
<1> QED
  BY ListingInductive, <1>1, PTL

-----------------------------------------------------------------------------
(* The inductive invariant of a cast. *)

\* There is one walk, of one page of elections.
OneWalk ==
    /\ kind \in {None, "elections"} /\ lastId = 0
    /\ begun \subseteq elections

\* A whole page of elections has lower ids.
OffPage(x) == Cardinality({e \in elections : e < x}) >= PaginationMax

\* What was stored when the user asked is on the page being answered, or off it.
PageInv == pc # "idle" => \A x \in begun : x \in Chosen \/ OffPage(x)

\* The client says nothing before it is done, and "unknown" of its page only.
VerdictInv ==
    /\ phase # "prompt" => eid # None
    /\ phase # "done" => verdict = "none"
    /\ UnknownIsOffPage

\* Before the ballot is sent nothing of it is at the server.
UnsentInv == phase \in {"prompt", "listing", "asking"} =>
    message = None /\ at = "idle" /\ checked = None /\ reply = None

\* The ciphertexts of the answers to some prompts, and entries that carry them.
Encrypted(asked, choices) ==
    [i \in DOMAIN asked |-> [asked |-> asked[i], choice |-> choices[i]]]
EntriesWith(asked, choices) ==
    [i \in DOMAIN asked |-> [candidate |-> asked[i], value |-> Encrypted(asked, choices)[i]]]

\* What the user typed.
SentValues == Encrypted(shown, typed)
Sent == EntriesWith(shown, typed)

\* The user chose one candidate and no other.
ChoseOne ==
    \E i \in DOMAIN typed : typed[i] = 1 /\ \A j \in DOMAIN typed \ {i} : typed[j] = 0

\* The worker's vectors hold what was sent.
Holds ==
    /\ Parallel(ballot, CandidateIds, Ctext)
    /\ Named(ballot.entries.elems) = shown
    /\ ballot.values.elems = SentValues

\* From the client to the table the ballot is in one place at a time, and what
\* is there is what was typed; past the comparison, both lists were the same.
SentInv ==
    /\ message # None \/ at # "idle" \/ checked # None => typed \in [DOMAIN shown -> Votes]
    /\ message # None => at = "idle" /\ checked = None /\ message = Sent
    /\ at = "compare" => checked = None /\ Holds
    /\ at = "insert" => checked = shown /\ ChoseOne /\ Holds /\ stored = None
    /\ checked = None => stored = None
    /\ stored # None => at = "idle" /\ checked = shown /\ ChoseOne /\ stored = Sent
    /\ checked # None /\ at = "idle" /\ stored = None => ~(checked = shown /\ ChoseOne)

\* An answer is an error or what is stored, and the client keeps it.
AnswerInv ==
    /\ reply # None => /\ at = "idle" /\ message = None
                       /\ reply.type = "ERROR" \/ (stored # None /\ reply.entries = stored)
    /\ verdict = "accepted" => stored # None /\ echo = stored

CastInv ==
    /\ CastTypeOK /\ CoreInv /\ OneWalk /\ PageInv /\ VerdictInv
    /\ UnsentInv /\ SentInv /\ AnswerInv
-----------------------------------------------------------------------------
(* The messages. *)

\* A ballot that the user typed an answer for each candidate of is a message,
\* and its parts are what was shown and what was typed.
LEMMA SentParts ==
    ASSUME NEW asked \in Seq(CandidateIds), NEW choices \in [DOMAIN asked -> Votes]
    PROVE  LET Values  == Encrypted(asked, choices)
               Entries == EntriesWith(asked, choices)
           IN  /\ Values \in Seq(Ctext) /\ DOMAIN Values = DOMAIN asked
               /\ Entries \in Seq([candidate : CandidateIds, value : Ctext])
               /\ CandidatesIn(Entries) = asked /\ ValuesIn(Entries) = Values
<1> DEFINE n == Len(asked)
           Values == Encrypted(asked, choices)
           Entries == EntriesWith(asked, choices)
<1>1. n \in Nat /\ DOMAIN asked = 1 .. n
  BY LenProperties
<1>2. \A i \in 1 .. n : asked[i] \in CandidateIds /\ choices[i] \in Votes
  BY <1>1, ElementOfSeq
<1> DEFINE S == [candidate : CandidateIds, value : Ctext]
<1> HIDE DEF n
<1>3. Values \in [1 .. n -> Ctext]
  BY <1>1, <1>2 DEF Encrypted, Ctext
<1>4. Entries \in [1 .. n -> S]
  BY <1>1, <1>2, <1>3 DEF EntriesWith
<1> HIDE DEF S
<1>5. Values \in Seq(Ctext) /\ DOMAIN Values = 1 .. n
  BY <1>1, <1>3
<1>6. Entries \in Seq(S) /\ Len(Entries) = n
  BY <1>1, <1>4
<1>7. \A i \in 1 .. n : Entries[i] = [candidate |-> asked[i], value |-> Values[i]]
  BY <1>1 DEF EntriesWith
<1>8. CandidatesIn(Entries) = [i \in 1 .. n |-> asked[i]]
  BY <1>6, <1>7 DEF CandidatesIn
<1>9. ValuesIn(Entries) = [i \in 1 .. n |-> Values[i]]
  BY <1>6, <1>7 DEF ValuesIn
<1>10. asked = [i \in 1 .. n |-> asked[i]]
  BY <1>1, LenProperties DEF n
<1> QED
  BY <1>1, <1>3, <1>5, <1>6, <1>8, <1>9, <1>10 DEF S

\* Entries that point at their own ciphertexts are encoded with them.
LEMMA OwnEncoded ==
    ASSUME NEW entries, NEW values,
           \A i \in DOMAIN entries.elems :
               /\ i \in DOMAIN values.elems
               /\ entries.elems[i].func = "encode"
               /\ entries.elems[i].arg = Address(values, i)
    PROVE  RepeatedEncryptedBallotEntryEncodeFunc(entries, values) =
               [i \in DOMAIN entries.elems |->
                   [candidate |-> entries.elems[i].candidate, value |-> values.elems[i]]]
<1>1. ASSUME NEW i \in DOMAIN entries.elems
      PROVE  (IF entries.elems[i].func = "encode"
              THEN ByteTArrayEncodeFunc(values, entries.elems[i].arg) ELSE Lost) = values.elems[i]
  <2>1. Live(values, Address(values, i)) /\ Address(values, i).index = i
    BY DEF Live, Address
  <2> QED
    BY <2>1 DEF ByteTArrayEncodeFunc
<1> QED
  BY <1>1 DEF RepeatedEncryptedBallotEntryEncodeFunc

\* The client's message is what was typed.
LEMMA BallotSent ==
    ASSUME NEW choices
    PROVE  RepeatedEncryptedBallotEntryEncodeFunc(Ballot(choices).entries, Ballot(choices).values)
               = EntriesWith(shown, choices)
<1> DEFINE V == [i \in DOMAIN shown |-> [asked |-> shown[i], choice |-> choices[i]]]
           values == Ballot(choices).values
           E == [i \in DOMAIN shown |-> [candidate |-> shown[i], func |-> "encode",
                                         arg |-> Address(values, i)]]
           entries == Ballot(choices).entries
<1>1. values.elems = V /\ entries.elems = E
  BY DEF Ballot, Vector
<1>2. /\ DOMAIN entries.elems = DOMAIN shown /\ DOMAIN values.elems = DOMAIN shown
      /\ \A i \in DOMAIN shown :
            /\ entries.elems[i].candidate = shown[i] /\ entries.elems[i].func = "encode"
            /\ entries.elems[i].arg = Address(values, i)
            /\ values.elems[i] = [asked |-> shown[i], choice |-> choices[i]]
  BY <1>1
<1> HIDE DEF V, values, E, entries
<1>3. \A i \in DOMAIN entries.elems : /\ i \in DOMAIN values.elems
                                      /\ entries.elems[i].func = "encode"
                                      /\ entries.elems[i].arg = Address(values, i)
  BY <1>2
<1>4. RepeatedEncryptedBallotEntryEncodeFunc(entries, values) =
          [i \in DOMAIN entries.elems |-> [candidate |-> entries.elems[i].candidate,
                                           value |-> values.elems[i]]]
  BY <1>3, OwnEncoded
<1> QED
  BY <1>2, <1>4 DEF values, entries, EntriesWith, Encrypted

\* The worker's vectors, entry by entry.
LEMMA HeldEntries ==
    ASSUME Holds, shown \in Seq(CandidateIds), typed \in [DOMAIN shown -> Votes]
    PROVE  /\ ballot.entries.elems \in Seq(Structs(CandidateIds))
           /\ Len(ballot.entries.elems) = Len(shown)
           /\ DOMAIN ballot.entries.elems = DOMAIN shown
           /\ DOMAIN ballot.values.elems = DOMAIN shown
           /\ \A i \in DOMAIN shown :
                 /\ ballot.entries.elems[i].candidate = shown[i]
                 /\ ballot.values.elems[i] = [asked |-> shown[i], choice |-> typed[i]]
                 /\ Plain(ballot.values.elems[i]) = typed[i]
<1>1. /\ ballot.entries.elems \in Seq(Structs(CandidateIds))
      /\ Named(ballot.entries.elems) = shown /\ ballot.values.elems = SentValues
  BY DEF Holds, Parallel, IsVector
<1>2. DOMAIN ballot.entries.elems = DOMAIN shown
      /\ \A i \in DOMAIN shown : ballot.entries.elems[i].candidate = shown[i]
  BY <1>1 DEF Named
<1>3. Len(ballot.entries.elems) = Len(shown)
  BY <1>1, <1>2, LenProperties
<1>4. ASSUME NEW i \in DOMAIN shown
      PROVE  /\ ballot.values.elems[i] = [asked |-> shown[i], choice |-> typed[i]]
             /\ Plain(ballot.values.elems[i]) = typed[i]
  <2>1. SentValues[i] = [asked |-> shown[i], choice |-> typed[i]]
    BY DEF SentValues, Encrypted
  <2>2. SentValues[i] \in Ctext
    BY SentParts, ElementOfSeq DEF SentValues
  <2>3. SentValues[i] # Lost
    BY <2>2, CastAssumption
  <2> QED
    BY <1>1, <2>1, <2>3 DEF Plain
<1> QED
  BY <1>1, <1>2, <1>3, <1>4, SentParts DEF SentValues

\* The comparison succeeds if and only if both lists are the same and one
\* candidate of it was chosen.
LEMMA MatchesExactly ==
    ASSUME Holds, shown \in Seq(CandidateIds), typed \in [DOMAIN shown -> Votes],
           NEW ids \in Seq(CandidateIds)
    PROVE  Matches(ballot.entries.elems, ballot.values.elems, ids) <=> ids = shown /\ ChoseOne
<1> DEFINE entries == ballot.entries.elems
           values == ballot.values.elems
<1>1. /\ Len(entries) = Len(shown) /\ DOMAIN entries = DOMAIN shown
      /\ \A i \in DOMAIN shown : entries[i].candidate = shown[i] /\ Plain(values[i]) = typed[i]
  BY HeldEntries
<1>2. DOMAIN shown = 1 .. Len(shown) /\ DOMAIN ids = 1 .. Len(ids) /\ DOMAIN typed = DOMAIN shown
  BY LenProperties
<1> HIDE DEF entries, values
<1>3. ASSUME Matches(entries, values, ids)
      PROVE  ids = shown /\ ChoseOne
  <2>1. DOMAIN ids = DOMAIN shown /\ Len(ids) = Len(shown)
    BY <1>1, <1>2, <1>3 DEF Matches
  <2>2. \A i \in 1 .. Len(ids) : ids[i] = shown[i]
    BY <1>1, <1>2, <1>3, <2>1 DEF Matches
  <2>3. ids = shown
    BY <2>1, <2>2, SeqEqual
  <2>4. ChoseOne
    BY <1>1, <1>2, <1>3 DEF Matches, ChoseOne
  <2> QED
    BY <2>3, <2>4
<1>4. ASSUME ids = shown, ChoseOne
      PROVE  Matches(entries, values, ids)
  <2>1. PICK i \in DOMAIN shown : typed[i] = 1 /\ \A j \in DOMAIN shown \ {i} : typed[j] = 0
    BY <1>2, <1>4 DEF ChoseOne
  <2>2. \A j \in DOMAIN entries : /\ entries[j].candidate = ids[j]
                                  /\ Plain(values[j]) \in {0, 1}
    BY <1>1, <1>4, <2>1
  <2>3. \E k \in DOMAIN entries : /\ Plain(values[k]) = 1
                                  /\ \A j \in DOMAIN entries \ {k} : Plain(values[j]) = 0
    BY <1>1, <2>1
  <2> QED
    BY <1>1, <1>4, <2>2, <2>3 DEF Matches
<1> QED
  BY <1>3, <1>4 DEF entries, values

\* What is inserted, and what is answered, is what was typed.
LEMMA InsertedIsSent ==
    ASSUME Holds, shown \in Seq(CandidateIds), typed \in [DOMAIN shown -> Votes]
    PROVE  /\ [i \in DOMAIN ballot.entries.elems |->
                  [candidate |-> ballot.entries.elems[i].candidate,
                   value     |-> ballot.values.elems[i]]] = Sent
           /\ RepeatedEncryptedBallotEntryEncodeFunc(Vector(Rebound(ballot)), ballot.values) = Sent
<1> DEFINE old == ballot.entries.elems
           values == ballot.values
           new == Vector(Rebound(ballot))
<1>1. /\ old \in Seq(Structs(CandidateIds)) /\ DOMAIN old = DOMAIN shown
      /\ DOMAIN values.elems = DOMAIN shown
      /\ \A i \in DOMAIN shown :
            old[i].candidate = shown[i]
            /\ values.elems[i] = [asked |-> shown[i], choice |-> typed[i]]
  BY HeldEntries
<1>2. \A i \in DOMAIN shown : values.elems[i] = SentValues[i]
  BY <1>1 DEF SentValues, Encrypted
<1>3. [i \in DOMAIN old |-> [candidate |-> old[i].candidate, value |-> values.elems[i]]] = Sent
  BY <1>1, <1>2 DEF Sent, EntriesWith, SentValues
<1>4. ASSUME NEW i \in DOMAIN shown
      PROVE  LET r == [old[i] EXCEPT !.func = "encode", !.arg = Address(values, i)]
             IN  r.candidate = shown[i] /\ r.func = "encode" /\ r.arg = Address(values, i)
  <2>1. old[i] \in Structs(CandidateIds)
    BY <1>1, ElementOfSeq
  <2> QED
    BY <1>1, <2>1 DEF Structs
<1>5. new.elems = [i \in DOMAIN old |->
                      [old[i] EXCEPT !.func = "encode", !.arg = Address(values, i)]]
  BY DEF Vector, Rebound
<1> HIDE DEF old, values, new
<1>6. /\ DOMAIN new.elems = DOMAIN shown
      /\ \A i \in DOMAIN shown : /\ new.elems[i].candidate = shown[i]
                                 /\ new.elems[i].func = "encode"
                                 /\ new.elems[i].arg = Address(values, i)
  BY <1>1, <1>4, <1>5
<1>7. RepeatedEncryptedBallotEntryEncodeFunc(new, values) =
          [i \in DOMAIN shown |-> [candidate |-> new.elems[i].candidate,
                                   value |-> values.elems[i]]]
  BY <1>1, <1>6, OwnEncoded
<1>8. RepeatedEncryptedBallotEntryEncodeFunc(new, values) = Sent
  BY <1>2, <1>6, <1>7 DEF Sent, EntriesWith, SentValues
<1> QED
  BY <1>3, <1>8 DEF old, values, new

\* The worker's vectors hold what arrived, wherever they were moved.
LEMMA DecodedIsSent ==
    ASSUME shown \in Seq(CandidateIds), typed \in [DOMAIN shown -> Votes],
           NEW m \in EntriesOf(Sent)
    PROVE  /\ Parallel(m, CandidateIds, Ctext)
           /\ Named(m.entries.elems) = shown /\ m.values.elems = SentValues
<1>1. /\ Sent \in Seq([candidate : CandidateIds, value : Ctext])
      /\ CandidatesIn(Sent) = shown /\ ValuesIn(Sent) = SentValues
  BY SentParts DEF Sent, SentValues
<1> QED
  BY <1>1, EntriesDecoded

\* The election ids on the page that arrives, and its lists of candidates.
LEMMA ListingArrives ==
    ASSUME TypeOK,
           NEW list \in ElectionsOf([i \in DOMAIN answer |-> Message(answer[i])])
    PROVE  /\ DOMAIN list.ids = DOMAIN answer
           /\ \A i \in DOMAIN answer : list.ids[i] = answer[i].id
           /\ \A i \in DOMAIN list.ids : list.candidates[i] \in Seq(CandidateRows)
<1> DEFINE M == [i \in DOMAIN answer |-> Message(answer[i])]
           n == Len(answer)
<1>1. answer \in Seq(Described) /\ n \in Nat /\ DOMAIN answer = 1 .. n
  BY LenProperties DEF TypeOK
<1>2. \A i \in 1 .. n : answer[i] \in Described
  BY <1>1, ElementOfSeq
<1>3. ASSUME NEW rows \in SUBSET CandidateRows
      PROVE  ById(rows) \in Seq(CandidateRows)
  <2>1. IsFiniteSet(rows) /\ (\A r \in rows : r.id \in Nat)
        /\ \A r, s \in rows : r.id = s.id => r = s
    BY CastAssumption, FS_Subset
  <2>2. ById(rows) \in Seq(rows)
    BY <2>1, ByIdProperties
  <2> QED
    BY <2>2
<1>4. ASSUME NEW e \in Described
      PROVE  /\ Message(e) \in ElectionSet(Elections, Elections, CandidateRows, CandidateRows)
             /\ Message(e).id = e.id /\ Message(e).candidates \in Seq(CandidateRows)
  <2>1. /\ e.id \in Elections /\ e.groups \in SUBSET Elections
        /\ e.candidates \in SUBSET CandidateRows /\ e.tallied \in SUBSET CandidateRows
    BY DEF Described
  <2>2. e.groups \in SUBSET Nat /\ IsFiniteSet(e.groups)
    BY <2>1, ListingAssumption, FS_Subset
  <2>3. Ascending(e.groups) \in Seq(Elections)
    <3>1. Ascending(e.groups) \in Seq(e.groups)
      BY <2>2, AscendingProperties
    <3> QED
      BY <2>1, <3>1
  <2>4. ById(e.candidates) \in Seq(CandidateRows) /\ ById(e.tallied) \in Seq(CandidateRows)
    BY <1>3, <2>1
  <2> QED
    BY <2>1, <2>3, <2>4 DEF Message, ElectionSet
<1>5. M \in [1 .. n -> ElectionSet(Elections, Elections, CandidateRows, CandidateRows)]
  BY <1>1, <1>2, <1>4
<1>6. M \in Seq(ElectionSet(Elections, Elections, CandidateRows, CandidateRows)) /\ Len(M) = n
  BY <1>1, <1>5
<1>7. \A i \in 1 .. n : M[i].id = answer[i].id /\ M[i].candidates \in Seq(CandidateRows)
  BY <1>1, <1>2, <1>4
<1> HIDE DEF M, n
<1>8. list = [ids |-> ElectionIdsIn(M), groups |-> GroupsIn(M),
              candidates |-> CandidateListsIn(M), tallies |-> TallyListsIn(M)]
  BY <1>6, ElectionListsArrive DEF M
<1>9. list.ids = ElectionIdsIn(M) /\ list.candidates = CandidateListsIn(M)
  BY <1>8
<1> QED
  BY <1>1, <1>6, <1>7, <1>9 DEF ElectionIdsIn, CandidateListsIn
-----------------------------------------------------------------------------
(* The listing under the client that asks for one page. *)

LEMMA InitCast == CastInit => CastInv
<1> SUFFICES ASSUME CastInit PROVE CastInv
  OBVIOUS
<1> USE DEF CastInit
<1>1. CoreInv
  BY InitIInv DEF IInv
<1>2. CastTypeOK
  BY DEF CastTypeOK
<1>3. OneWalk /\ PageInv
  BY DEF OneWalk, PageInv, Init
<1>4. VerdictInv
  BY DEF VerdictInv, UnknownIsOffPage
<1>5. UnsentInv /\ SentInv /\ AnswerInv
  BY DEF UnsentInv, SentInv, AnswerInv
<1> QED
  BY <1>1, <1>2, <1>3, <1>4, <1>5 DEF CastInv

\* What a step is for the listing, and what it is for the session.
LEMMA CastCases ==
    ASSUME [CastNext]_all
    PROVE  /\ \/ Outside \/ Describing \/ QueryPage \/ BeginWalk("elections") \/ EndWalk
              \/ UNCHANGED vars
           /\ \/ UNCHANGED session /\ (Outside \/ Describing \/ QueryPage \/ UNCHANGED vars)
              \/ \E e \in Elections : EnterId(e)
              \/ ReceiveListing
              \/ \E choices \in [DOMAIN shown -> Votes] : SendBallot(choices)
              \/ ReceiveReply \/ GiveUp
              \/ DropLarge \/ DecodeBallot \/ Refuse \/ Compare \/ Insert
<1>1. CASE (Handler \/ Administrator) /\ UNCHANGED session
  BY <1>1 DEF Handler, Administrator, Outside, Describing
<1>2. CASE ClientStep
  BY <1>2 DEF ClientStep, EnterId, ReceiveListing, SendBallot, ReceiveReply, GiveUp
<1>3. CASE ServerStep
  BY <1>3 DEF ServerStep, DropLarge, DecodeBallot, Refuse, Compare, Insert
<1>4. CASE UNCHANGED all
  BY <1>4 DEF all
<1> QED
  BY <1>1, <1>2, <1>3, <1>4 DEF CastNext

\* The listing is Listing's, but for the end of the walk.
LEMMA CoreStep ==
    ASSUME CoreInv, [CastNext]_all
    PROVE  CoreInv'
<1>1. CASE EndWalk
  <2>1. TypeOK'
    BY <1>1 DEF EndWalk, CoreInv, TypeOK, tables
  <2>2. HandlerInv'
    BY <1>1 DEF EndWalk, HandlerInv
  <2> QED
    BY <2>1, <2>2 DEF CoreInv
<1>2. CASE ~EndWalk
  <2>1. [Next]_vars
    BY <1>2, CastCases DEF Next, Outside, Describing
  <2> QED
    BY <2>1, TypeStep, HandlerStep DEF CoreInv
<1> QED
  BY <1>1, <1>2

\* Elections are not deleted: what has a page below it keeps it.
LEMMA OffPageStays ==
    ASSUME TypeOK', elections \subseteq elections', NEW x, OffPage(x)
    PROVE  OffPage(x)'
<1> DEFINE below == {e \in elections : e < x}
           after == {e \in elections' : e < x}
<1>1. IsFiniteSet(elections')
  BY ListingAssumption, FS_Subset DEF TypeOK
<1>2. IsFiniteSet(after) /\ below \in SUBSET after
  BY <1>1, FS_Subset
<1>3. /\ Cardinality(below) <= Cardinality(after) /\ Cardinality(after) \in Nat
      /\ Cardinality(below) \in Nat /\ PaginationMax \in Nat
  BY <1>2, FS_Subset, FS_CardinalityType, ListingAssumption
<1> QED
  BY <1>3 DEF OffPage

\* The first page has every election, or PaginationMax lower ones.
LEMMA FirstPage ==
    ASSUME CoreInv, NEW x \in elections, x \notin First(elections, 0)
    PROVE  OffPage(x)
<1> DEFINE upTo == {y \in elections : 0 < y /\ y <= x}
           below == {e \in elections : e < x}
<1>1. elections \subseteq Elections /\ elections \subseteq Nat \ {0} /\ IsFiniteSet(elections)
  BY ListingAssumption, FS_Subset DEF CoreInv, TypeOK
<1>2. x > 0 /\ x \in Nat
  BY <1>1
<1>3. ~(Cardinality(upTo) <= PaginationMax)
  BY <1>2 DEF First
<1>4. upTo = below \cup {x} /\ x \notin below /\ below \in SUBSET elections
  <2>1. \A y \in elections : y \in upTo <=> y \in below \/ y = x
    BY <1>1, <1>2
  <2>2. x \notin below
    BY <1>2
  <2>3. upTo \subseteq elections /\ below \subseteq elections
    OBVIOUS
  <2> HIDE DEF upTo, below
  <2> QED
    BY <2>1, <2>2, <2>3
<1>5. IsFiniteSet(below)
  BY <1>1, <1>4, FS_Subset
<1>6. Cardinality(upTo) = Cardinality(below) + 1
  BY <1>4, <1>5, FS_AddElement
<1>7. Cardinality(below) \in Nat /\ PaginationMax \in Nat
  BY <1>5, FS_CardinalityType, ListingAssumption
<1> HIDE DEF upTo
<1>8. Cardinality(below) >= PaginationMax
  BY <1>3, <1>6, <1>7
<1> QED
  BY <1>8 DEF OffPage

LEMMA WalkKeeps ==
    ASSUME CastInv, [CastNext]_all
    PROVE  OneWalk' /\ PageInv' /\ elections \subseteq elections'
<1> CoreInv /\ TypeOK'
  BY CoreStep DEF CastInv, CoreInv
<1>1. CASE Outside
  <2>1. Chosen' = Chosen /\ UNCHANGED <<kind, lastId, begun, pc>> /\ elections \subseteq elections'
    BY <1>1, OutsideEffect DEF Chosen, walk, handler
  <2>2. ASSUME pc # "idle", NEW x \in begun
        PROVE  x \in Chosen' \/ OffPage(x)'
    BY <2>1, <2>2, OffPageStays DEF CastInv, PageInv
  <2> QED
    BY <2>1, <2>2 DEF CastInv, OneWalk, PageInv
<1>2. CASE Describing
  <2>1. /\ Chosen' = Chosen /\ UNCHANGED <<kind, lastId, begun, elections>>
        /\ pc # "idle"
    BY <1>2, DescribingEffect DEF tables, walk
  <2> QED
    BY <2>1 DEF CastInv, OneWalk, PageInv, OffPage
<1>3. CASE QueryPage
  <2>1. /\ UNCHANGED <<kind, lastId, begun, elections>> /\ kind = "elections" /\ lastId = 0
        /\ page' = First(elections, 0)
    BY <1>3 DEF QueryPage, CastInv, OneWalk, Stored, tables, walk
  <2>2. ASSUME NEW x \in begun
        PROVE  x \in Chosen' \/ OffPage(x)'
    <3>1. x \in elections /\ page' \subseteq Chosen'
      BY DEF CastInv, OneWalk, Chosen
    <3> QED
      BY <2>1, <3>1, FirstPage DEF OffPage
  <2> QED
    BY <2>1, <2>2 DEF CastInv, OneWalk, PageInv
<1>4. CASE BeginWalk("elections")
  <2>1. pc' = "idle" /\ elections' = elections
    BY <1>4 DEF BeginWalk, CoreInv, HandlerInv, tables, handler
  <2> QED
    BY <1>4, <2>1 DEF BeginWalk, OneWalk, PageInv, Stored
<1>5. CASE EndWalk
  BY <1>5 DEF EndWalk, CastInv, OneWalk, PageInv, tables
<1>6. CASE UNCHANGED vars
  BY <1>6 DEF CastInv, OneWalk, PageInv, Chosen, OffPage, vars, tables, walk, handler
<1> QED
  BY <1>1, <1>2, <1>3, <1>4, <1>5, <1>6, CastCases
-----------------------------------------------------------------------------
(* The session. *)

LEMMA VerdictKeeps ==
    ASSUME CastInv, [CastNext]_all
    PROVE  VerdictInv'
<1>1. OneWalk' /\ elections \subseteq elections' /\ TypeOK'
  BY WalkKeeps, CoreStep DEF CastInv, CoreInv
<1>2. ASSUME UNCHANGED <<eid, begun>>, verdict' = verdict
      PROVE  UnknownIsOffPage'
  BY <1>1, <1>2, OffPageStays DEF CastInv, VerdictInv, UnknownIsOffPage, OffPage
<1>3. CASE UNCHANGED session /\ (Outside \/ Describing \/ QueryPage \/ UNCHANGED vars)
  <2>1. begun' = begun
    BY <1>3, OutsideEffect, DescribingEffect DEF CastInv, QueryPage, vars, walk
  <2> QED
    BY <1>2, <1>3, <2>1 DEF CastInv, VerdictInv, session, client
<1>4. CASE \E e \in Elections : EnterId(e)
  BY <1>4, CastAssumption DEF EnterId, CastInv, VerdictInv, UnknownIsOffPage
<1>5. CASE ReceiveListing
  <2>1. /\ phase = "listing" /\ pc = "respond" /\ UNCHANGED <<begun, elections, eid>>
        /\ eid # None
    BY <1>5 DEF ReceiveListing, EndWalk, tables, CastInv, VerdictInv
  <2>2. PICK list \in ElectionsOf([i \in DOMAIN answer |-> Message(answer[i])]) :
           \/ /\ \A i \in DOMAIN list.ids : list.ids[i] # eid
              /\ phase' = "done" /\ verdict' = "unknown"
           \/ phase' = "asking" /\ verdict' = verdict
    BY <1>5 DEF ReceiveListing
  <2>3. CASE verdict' = verdict
    <3>1. verdict' = "none"
      BY <2>1, <2>3 DEF CastInv, VerdictInv
    <3> QED
      BY <2>1, <2>2, <3>1 DEF VerdictInv, UnknownIsOffPage
  <2>4. CASE \A i \in DOMAIN list.ids : list.ids[i] # eid
    <3>1. \A i \in DOMAIN answer : answer[i].id # eid
      BY <2>4, ListingArrives DEF CastInv, CoreInv
    <3>2. page = {}
      BY <2>1 DEF CastInv, CoreInv, HandlerInv, OneWalk
    <3>3. eid \notin Chosen
      BY <3>1, <3>2 DEF Chosen
    <3>4. eid \in begun => OffPage(eid)
      BY <2>1, <3>3 DEF CastInv, PageInv
    <3> QED
      BY <2>1, <2>2, <3>4 DEF VerdictInv, UnknownIsOffPage, OffPage, CastInv
  <2> QED
    BY <2>2, <2>3, <2>4
<1>6. CASE \/ \E choices \in [DOMAIN shown -> Votes] : SendBallot(choices)
           \/ DropLarge \/ DecodeBallot \/ Refuse \/ Compare \/ Insert
  <2>1. UNCHANGED <<vars, eid, verdict>> /\ (phase' = phase \/ phase = "asking")
    BY <1>6 DEF SendBallot, DropLarge, DecodeBallot, Refuse, Compare, Insert, client
  <2>2. begun' = begun
    BY <2>1 DEF vars, walk
  <2> QED
    BY <1>2, <1>6, <2>1, <2>2 DEF CastInv, VerdictInv, SendBallot
<1>7. CASE ReceiveReply \/ GiveUp
  <2>1. phase' = "done" /\ phase # "prompt" /\ verdict' # "unknown" /\ eid' = eid
    BY <1>7 DEF ReceiveReply, GiveUp
  <2> QED
    BY <2>1 DEF CastInv, VerdictInv, UnknownIsOffPage
<1> QED
  BY <1>3, <1>4, <1>5, <1>6, <1>7, CastCases

\* What the messages and the answers have to do with what was typed.
SessionInv == CastTypeOK /\ UnsentInv /\ SentInv /\ AnswerInv

\* The operators of the invariant that the session's variables are in.
LEMMA SentUnchanged ==
    ASSUME UNCHANGED <<shown, typed>>
    PROVE  /\ SentValues' = SentValues /\ Sent' = Sent /\ (ChoseOne <=> ChoseOne')
           /\ ballot' = ballot => (Holds <=> Holds')
<1>1. SentValues' = SentValues /\ Sent' = Sent
  BY DEF SentValues, Sent
<1> QED
  BY <1>1 DEF ChoseOne, Holds

LEMMA ListingKeeps ==
    ASSUME SessionInv, UNCHANGED session
    PROVE  SessionInv'
<1>1. CastTypeOK'
  BY DEF SessionInv, CastTypeOK, session, client, server
<1>2. UnsentInv'
  BY DEF SessionInv, UnsentInv, session, client, server
<1>3. SentInv'
  BY SentUnchanged DEF SessionInv, SentInv, session, client, server
<1>4. AnswerInv'
  BY DEF SessionInv, AnswerInv, session, client, server
<1> QED
  BY <1>1, <1>2, <1>3, <1>4 DEF SessionInv

LEMMA EnterIdKeeps ==
    ASSUME SessionInv, NEW e \in Elections, EnterId(e)
    PROVE  SessionInv'
<1> USE DEF EnterId
<1>1. CastTypeOK'
  BY CastAssumption DEF SessionInv, CastTypeOK, server
<1>2. UnsentInv'
  BY DEF SessionInv, UnsentInv, server
<1>3. SentInv'
  BY SentUnchanged DEF SessionInv, SentInv, server
<1>4. AnswerInv'
  BY DEF SessionInv, AnswerInv, server
<1> QED
  BY <1>1, <1>2, <1>3, <1>4 DEF SessionInv

LEMMA ReceiveListingKeeps ==
    ASSUME CastInv, ReceiveListing
    PROVE  SessionInv'
<1>1. PICK list \in ElectionsOf([i \in DOMAIN answer |-> Message(answer[i])]) :
         \/ phase' = "done" /\ verdict' = "unknown" /\ shown' = shown
         \/ \E i \in DOMAIN list.ids :
               /\ shown' = [k \in DOMAIN list.candidates[i] |-> list.candidates[i][k].id]
               /\ phase' = "asking" /\ verdict' = verdict
  BY DEF ReceiveListing
<1>2. /\ phase = "listing" /\ UNCHANGED <<eid, typed, echo, server>> /\ eid # None
      /\ message = None /\ at = "idle" /\ checked = None /\ stored = None /\ verdict = "none"
  BY DEF ReceiveListing, CastInv, UnsentInv, SentInv, VerdictInv
<1>3. shown' \in Seq(CandidateIds)
  <2>1. ASSUME NEW i \in DOMAIN list.ids,
               shown' = [k \in DOMAIN list.candidates[i] |-> list.candidates[i][k].id]
        PROVE  shown' \in Seq(CandidateIds)
    <3> DEFINE rows == list.candidates[i]
    <3>1. rows \in Seq(CandidateRows)
      BY ListingArrives DEF CastInv, CoreInv
    <3>2. DOMAIN rows = 1 .. Len(rows) /\ Len(rows) \in Nat
      BY <3>1, LenProperties
    <3>3. \A k \in 1 .. Len(rows) : rows[k].id \in CandidateIds
      <4>1. \A k \in 1 .. Len(rows) : rows[k] \in CandidateRows
        BY <3>1, <3>2, ElementOfSeq
      <4> QED
        BY <4>1 DEF CandidateIds
    <3> HIDE DEF rows
    <3>4. shown' = [k \in DOMAIN rows |-> rows[k].id]
      BY <2>1 DEF rows
    <3>5. shown' \in [1 .. Len(rows) -> CandidateIds]
      BY <3>2, <3>3, <3>4
    <3> QED
      BY <3>2, <3>5
  <2> QED
    BY <1>1, <2>1 DEF CastInv, CastTypeOK
<1>4. phase' \in {"done", "asking"} /\ verdict' \in {"unknown", "none"}
  BY <1>1, <1>2
<1>5. CastTypeOK'
  BY <1>2, <1>3, <1>4 DEF CastInv, CastTypeOK, server
<1>6. UnsentInv' /\ SentInv' /\ AnswerInv'
  BY <1>2, <1>4 DEF CastInv, AnswerInv, UnsentInv, SentInv, server
<1> QED
  BY <1>5, <1>6 DEF SessionInv

LEMMA SendBallotKeeps ==
    ASSUME CastInv, NEW choices \in [DOMAIN shown -> Votes], SendBallot(choices)
    PROVE  SessionInv'
<1>1. /\ phase = "asking" /\ phase' = "waiting" /\ typed' = choices
      /\ message = None /\ at = "idle" /\ checked = None /\ stored = None /\ verdict = "none"
      /\ reply = None
      /\ UNCHANGED <<eid, shown, verdict, echo, at, ballot, stored, reply, checked>>
      /\ shown \in Seq(CandidateIds) /\ eid # None
  BY DEF SendBallot, CastInv, CastTypeOK, UnsentInv, SentInv, VerdictInv
<1>2. message' = Sent' /\ Sent' = EntriesWith(shown, choices)
  BY <1>1, BallotSent DEF SendBallot, Sent
<1>3. typed' \in Seq(Votes)
  <2>1. DOMAIN shown = 1 .. Len(shown) /\ Len(shown) \in Nat
    BY <1>1, LenProperties
  <2> QED
    BY <1>1, <2>1
<1>4. Sent' \in Seq([candidate : CandidateIds, value : Ctext])
  BY <1>1, <1>2, SentParts
<1>5. CastTypeOK'
  BY <1>1, <1>2, <1>3, <1>4 DEF CastInv, CastTypeOK
<1>6. UnsentInv' /\ SentInv' /\ AnswerInv'
  BY <1>1, <1>2 DEF UnsentInv, SentInv, AnswerInv
<1> QED
  BY <1>5, <1>6 DEF SessionInv

LEMMA ReceiveReplyKeeps ==
    ASSUME SessionInv, ReceiveReply
    PROVE  SessionInv'
<1>1. /\ phase = "waiting" /\ phase' = "done" /\ reply # None /\ reply' = None
      /\ verdict' = (IF reply.type = "ERROR" THEN "refused" ELSE "accepted")
      /\ echo' = reply.entries
      /\ UNCHANGED <<eid, shown, typed, message, at, ballot, stored, checked>>
  BY DEF ReceiveReply
<1>2. CastTypeOK' /\ UnsentInv'
  BY <1>1 DEF SessionInv, CastTypeOK, UnsentInv
<1>3. SentInv'
  BY <1>1, SentUnchanged DEF SessionInv, SentInv
<1>4. AnswerInv'
  BY <1>1 DEF SessionInv, AnswerInv
<1> QED
  BY <1>2, <1>3, <1>4 DEF SessionInv

LEMMA GiveUpKeeps ==
    ASSUME SessionInv, GiveUp
    PROVE  SessionInv'
<1>1. /\ phase' = "done" /\ verdict' = "failed"
      /\ UNCHANGED <<eid, shown, typed, echo, server>>
  BY DEF GiveUp
<1>2. CastTypeOK' /\ UnsentInv' /\ AnswerInv'
  BY <1>1 DEF SessionInv, CastTypeOK, UnsentInv, AnswerInv, server
<1>3. SentInv'
  BY <1>1, SentUnchanged DEF SessionInv, SentInv, server
<1> QED
  BY <1>2, <1>3 DEF SessionInv

LEMMA DropLargeKeeps ==
    ASSUME SessionInv, DropLarge
    PROVE  SessionInv'
<1>1. message' = None /\ UNCHANGED <<client, at, ballot, stored, reply, checked>>
  BY DEF DropLarge
<1>2. CastTypeOK' /\ UnsentInv' /\ AnswerInv'
  BY <1>1 DEF SessionInv, CastTypeOK, UnsentInv, AnswerInv, client
<1>3. SentInv'
  BY <1>1, SentUnchanged DEF SessionInv, SentInv, client
<1> QED
  BY <1>2, <1>3 DEF SessionInv

\* The vectors hold what was typed once the message is decoded.
LEMMA DecodeKeeps ==
    ASSUME SessionInv, DecodeBallot
    PROVE  SessionInv'
<1>1. /\ message # None /\ message' = None /\ at' = "compare" /\ ballot' \in EntriesOf(message)
      /\ UNCHANGED <<client, stored, reply, checked>>
  BY DEF DecodeBallot
<1>2. /\ typed \in [DOMAIN shown -> Votes] /\ at = "idle" /\ checked = None /\ message = Sent
      /\ shown \in Seq(CandidateIds) /\ stored = None /\ reply = None
      /\ phase \notin {"prompt", "listing", "asking"}
  BY <1>1 DEF SessionInv, SentInv, CastTypeOK, AnswerInv, UnsentInv
<1>3. Holds'
  BY <1>1, <1>2, DecodedIsSent, SentUnchanged DEF Holds, client
<1>4. CastTypeOK' /\ UnsentInv' /\ AnswerInv'
  BY <1>1, <1>2 DEF SessionInv, CastTypeOK, UnsentInv, AnswerInv, client
<1>5. SentInv'
  BY <1>1, <1>2, <1>3 DEF SentInv, client
<1> QED
  BY <1>4, <1>5 DEF SessionInv

LEMMA RefuseKeeps ==
    ASSUME SessionInv, Refuse
    PROVE  SessionInv'
<1>1. /\ at = "compare" /\ at' = "idle" /\ reply'.type = "ERROR"
      /\ UNCHANGED <<client, message, stored, checked>>
  BY DEF Refuse, errorResponse
<1>2. /\ message = None /\ checked = None /\ stored = None
      /\ phase \notin {"prompt", "listing", "asking"}
  BY <1>1 DEF SessionInv, SentInv, UnsentInv
<1>3. CastTypeOK' /\ UnsentInv' /\ AnswerInv'
  BY <1>1, <1>2 DEF SessionInv, CastTypeOK, UnsentInv, AnswerInv, client
<1>4. SentInv'
  BY <1>1, <1>2, SentUnchanged DEF SessionInv, SentInv, client
<1> QED
  BY <1>3, <1>4 DEF SessionInv

\* Past the comparison the server's list is the one that was shown, and one
\* candidate was chosen; otherwise it is not so.
LEMMA CompareKeeps ==
    ASSUME SessionInv, TypeOK, Compare
    PROVE  SessionInv'
<1> DEFINE ids == Ascending({r.id : r \in CandidatesOf(eid)})
<1>1. /\ at = "compare" /\ checked' = ids /\ UNCHANGED <<client, message, stored>>
      /\ \/ /\ Matches(ballot.entries.elems, ballot.values.elems, ids)
            /\ at' = "insert" /\ UNCHANGED <<ballot, reply>>
         \/ /\ ~Matches(ballot.entries.elems, ballot.values.elems, ids)
            /\ at' = "idle" /\ reply'.type = "ERROR"
  BY DEF Compare, errorResponse
<1>2. /\ message = None /\ checked = None /\ stored = None /\ Holds /\ reply = None
      /\ phase \notin {"prompt", "listing", "asking"}
      /\ shown \in Seq(CandidateIds) /\ typed \in [DOMAIN shown -> Votes]
  BY <1>1 DEF SessionInv, SentInv, UnsentInv, CastTypeOK, AnswerInv
<1>3. ids \in Seq(CandidateIds) /\ ids # None
  <2> DEFINE T == {r.id : r \in CandidatesOf(eid)}
  <2>1. CandidatesOf(eid) \in SUBSET CandidateRows
    BY DEF CandidatesOf, TypeOK
  <2>2. IsFiniteSet(CandidatesOf(eid)) /\ (\A r \in CandidatesOf(eid) : r.id \in Nat)
        /\ \A r, s \in CandidatesOf(eid) : r.id = s.id => r = s
    BY <2>1, CastAssumption, FS_Subset
  <2>3. T \in SUBSET Nat /\ IsFiniteSet(T)
    BY <2>2, ByIdProperties
  <2>4. T \in SUBSET CandidateIds
    BY <2>1 DEF CandidateIds
  <2> HIDE DEF T
  <2>5. Ascending(T) \in Seq(T)
    BY <2>3, AscendingProperties
  <2>6. Ascending(T) \in Seq(CandidateIds)
    BY <2>4, <2>5
  <2> QED
    BY <2>6, CastAssumption DEF T
<1> HIDE DEF ids
<1>4. Matches(ballot.entries.elems, ballot.values.elems, ids) <=> ids = shown /\ ChoseOne
  BY <1>2, <1>3, MatchesExactly
<1>5. CastTypeOK' /\ UnsentInv' /\ AnswerInv'
  BY <1>1, <1>2, <1>3 DEF SessionInv, CastTypeOK, UnsentInv, AnswerInv, client
<1>6. SentInv'
  <2>1. UNCHANGED <<shown, typed>>
    BY <1>1 DEF client
  <2>2. CASE at' = "insert"
    BY <1>1, <1>2, <1>3, <1>4, <2>1, <2>2, SentUnchanged DEF SentInv
  <2>3. CASE at' = "idle"
    BY <1>1, <1>2, <1>3, <1>4, <2>1, <2>3, SentUnchanged DEF SentInv
  <2> QED
    BY <1>1, <2>2, <2>3
<1> QED
  BY <1>5, <1>6 DEF SessionInv

\* What is stored and answered is what was typed.
LEMMA InsertKeeps ==
    ASSUME SessionInv, Insert
    PROVE  SessionInv'
<1>1. /\ at = "insert" /\ at' = "idle"
      /\ stored' = [i \in DOMAIN ballot.entries.elems |->
                       [candidate |-> ballot.entries.elems[i].candidate,
                        value     |-> ballot.values.elems[i]]]
      /\ reply'.type = "CAST_ENCRYPTED_BALLOT"
      /\ reply'.entries = RepeatedEncryptedBallotEntryEncodeFunc(
                              Vector(Rebound(ballot)), ballot.values)
      /\ UNCHANGED <<client, message, checked>>
  BY DEF Insert
<1>2. /\ message = None /\ checked = shown /\ ChoseOne /\ Holds /\ stored = None
      /\ phase \notin {"prompt", "listing", "asking"} /\ verdict # "accepted"
      /\ shown \in Seq(CandidateIds) /\ typed \in [DOMAIN shown -> Votes] /\ checked # None
  BY <1>1, CastAssumption DEF SessionInv, SentInv, UnsentInv, CastTypeOK, AnswerInv
<1>3. stored' = Sent /\ reply'.entries = Sent
  BY <1>1, <1>2, InsertedIsSent
<1>4. Sent # None
  BY <1>2, SentParts, CastAssumption DEF Sent
<1>5. CastTypeOK' /\ UnsentInv'
  BY <1>1, <1>2 DEF SessionInv, CastTypeOK, UnsentInv, client
<1>6. SentInv'
  <2>1. UNCHANGED <<shown, typed>>
    BY <1>1 DEF client
  <2> QED
    BY <1>1, <1>2, <1>3, <1>4, <2>1, SentUnchanged DEF SentInv
<1>7. AnswerInv'
  BY <1>1, <1>2, <1>3, <1>4 DEF AnswerInv, client
<1> QED
  BY <1>5, <1>6, <1>7 DEF SessionInv

-----------------------------------------------------------------------------
(* The theorems about a cast. *)

\* The invariant holds in every reachable state of a cast.
THEOREM CastInductive == CastSpec => []CastInv
<1>1. CastInv /\ [CastNext]_all => CastInv'
  <2> SUFFICES ASSUME CastInv, [CastNext]_all PROVE CastInv'
    OBVIOUS
  <2>1. SessionInv /\ TypeOK
    BY DEF CastInv, CoreInv, SessionInv
  <2>2. SessionInv'
    BY <2>1, CastCases, ListingKeeps, EnterIdKeeps, ReceiveListingKeeps, SendBallotKeeps,
       ReceiveReplyKeeps, GiveUpKeeps, DropLargeKeeps, DecodeKeeps, RefuseKeeps,
       CompareKeeps, InsertKeeps
  <2>3. CoreInv' /\ OneWalk' /\ PageInv' /\ VerdictInv'
    BY CoreStep, WalkKeeps, VerdictKeeps DEF CastInv
  <2> QED
    BY <2>2, <2>3 DEF CastInv, SessionInv
<1> QED
  BY InitCast, <1>1, PTL DEF CastSpec

\* cast_ballot and castBallot: each stored entry is the answer to the prompt
\* of its own candidate, and the answer shows what is stored.
THEOREM StoredIsTyped == CastSpec => []ChoicesArrive
<1>1. CastInv => ChoicesArrive
  <2> SUFFICES ASSUME CastInv PROVE ChoicesArrive
    OBVIOUS
  <2>1. ASSUME stored # None, NEW i \in DOMAIN stored
        PROVE  stored[i].value # Lost /\ stored[i].value.asked = stored[i].candidate
    <3>1. /\ stored = Sent /\ checked # None /\ shown \in Seq(CandidateIds)
          /\ typed \in [DOMAIN shown -> Votes]
      BY <2>1 DEF CastInv, SentInv, CastTypeOK
    <3>2. /\ DOMAIN Sent = DOMAIN shown /\ DOMAIN SentValues = DOMAIN shown
          /\ SentValues \in Seq(Ctext)
      BY <3>1, SentParts DEF SentValues, Sent, EntriesWith
    <3>3. i \in DOMAIN shown /\ stored[i] = [candidate |-> shown[i], value |-> SentValues[i]]
      BY <2>1, <3>1, <3>2 DEF Sent, SentValues, EntriesWith
    <3>4. SentValues[i] \in Ctext /\ SentValues[i].asked = shown[i]
      BY <3>2, <3>3, ElementOfSeq DEF SentValues, Encrypted
    <3> QED
      BY <3>3, <3>4, CastAssumption
  <2> QED
    BY <2>1 DEF CastInv, AnswerInv, ChoicesArrive
<1> QED
  BY CastInductive, <1>1, PTL

\* castBallot: a ballot that was compared is stored if and only if the client
\* showed the candidates that were there at the comparison and one was chosen.
THEOREM StoredIffSameList == CastSpec => []StoredIfListsAgree
<1>1. CastInv => StoredIfListsAgree
  <2> SUFFICES ASSUME CastInv, checked # None
               PROVE  at = "insert" \/ stored # None <=> checked = shown /\ ChoseOne
    BY DEF StoredIfListsAgree, ChoseOne
  <2> QED
    BY DEF CastInv, CastTypeOK, SentInv
<1> QED
  BY CastInductive, <1>1, PTL

\* cast_ballot: an election that was stored when the user asked is unknown to
\* the client only if a page of elections has lower ids.
THEOREM UnknownIsExplained == CastSpec => []UnknownIsOffPage
<1>1. CastInv => UnknownIsOffPage
  BY DEF CastInv, VerdictInv
<1> QED
  BY CastInductive, <1>1, PTL
=============================================================================
