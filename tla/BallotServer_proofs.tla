------------------------- MODULE BallotServer_proofs -------------------------
(***************************************************************************)
(* Proofs about BallotServer for any sets of workers, requests, commands,  *)
(* voters, elections and candidates: the type invariant, the safety        *)
(* invariants, and the implementation of BallotBox.                        *)
(***************************************************************************)
EXTENDS BallotServer, FiniteSetTheorems, TLAPS

-----------------------------------------------------------------------------
(* The inductive invariant. *)

Busy(w) == pc[w] # "idle"

\* What the status of a command comes to when the server is through with it.
Over == {"done", "forgotten"}
USE DEF Over

\* What castBallot has established of a row it builds.
Vouched(b) ==
    /\ cmd[b.request] \in Commands
    /\ b.voter = cmd[b.request].voter
    /\ b.election = cmd[b.request].election
    /\ b.entries = cmd[b.request].entries
    /\ b.castAt <= now
    /\ Accepts(cmd[b.request], elections, b.castAt)

CommandsInv == \A r \in Requests : status[r] # "unsent" => cmd[r] \in Commands

\* A worker that is not idle runs one request, which no other worker runs,
\* and its row was checked against that request's command.
WorkersInv ==
    /\ \A w \in Workers : Busy(w) =>
          /\ job[w] \in Requests
          /\ status[job[w]] = "running"
          /\ row[w] \in Row
          /\ row[w].request = job[w]
          /\ Vouched(row[w])
    /\ \A w1, w2 \in Workers : Busy(w1) /\ Busy(w2) /\ job[w1] = job[w2] => w1 = w2

\* Ids in use are above zero and below the sequence, and the id of an
\* uncommitted row is neither that of a ballot nor that of another one.
IdsInv ==
    /\ 0 < nextId
    /\ \A b \in ballots : 0 < b.id /\ b.id < nextId
    /\ \A b1, b2 \in ballots : b1.id = b2.id => b1 = b2
    /\ \A w \in Workers : pc[w] = "inserted" =>
          /\ 0 < row[w].id /\ row[w].id < nextId
          /\ \A b \in ballots : b.id # row[w].id
    /\ \A w1, w2 \in Workers :
          /\ pc[w1] = "inserted" /\ pc[w2] = "inserted"
          /\ row[w1].id = row[w2].id
          => w1 = w2

\* A stored ballot's request is finished, or at the worker that committed it.
BallotsInv ==
    /\ IsFiniteSet(ballots)
    /\ \A b \in ballots :
          \/ status[b.request] \in Over
          \/ \E w \in Workers : pc[w] = "committed" /\ job[w] = b.request
    /\ \A b1, b2 \in ballots : b1.request = b2.request => b1 = b2
    /\ \A w \in Workers : pc[w] = "committed" => row[w] \in ballots
    /\ \A b \in ballots : Vouched(b)

RepliesInv == \A r \in Requests :
    /\ reply[r] = "accepted" => \E b \in ballots : b.request = r
    /\ reply[r] \in {"refused", "answered"} =>
          status[r] \in Over /\ \A b \in ballots : b.request # r

\* What generateTally leaves in a tally.
Counted(t) ==
    /\ t.counted \subseteq ballots
    /\ \A b \in t.counted : b.election = t.election
    /\ \A c \in Candidates : t.results[c] \in {Exact(t.election, t.counted)[c], Garbage}

\* Elections to do, drafted and published are apart, with one tally each.
ClockInv ==
    /\ clockPc \in {"sleeping", "awake"} => todo = {} /\ drafts = {}
    /\ \A e \in todo, t \in drafts \cup tallies : t.election # e
    /\ \A t1, t2 \in drafts \cup tallies : t1.election = t2.election => t1 = t2
    /\ \A t \in drafts, u \in tallies : t.election # u.election
    /\ \A t \in drafts \cup tallies : Counted(t)

IInv ==
    TypeOK /\ CommandsInv /\ WorkersInv /\ IdsInv /\ BallotsInv /\ RepliesInv /\ ClockInv

-----------------------------------------------------------------------------
(* The rules of an election. *)

\* An election accepted before is accepted with more elections in the table.
LEMMA AcceptsGrows ==
    ASSUME NEW c, NEW K, NEW L, K \subseteq L, NEW t, Accepts(c, K, t)
    PROVE  Accepts(c, L, t)
BY DEF Accepts, OpenTo

\* The checks of castBallot make a row eligible.
LEMMA VouchedEligible ==
    ASSUME NEW b \in Row, Vouched(b)
    PROVE  Eligible(b)
<1> DEFINE c == cmd[b.request]
           e == b.election
<1>1. /\ c \in Command
      /\ CandidatesOf[e] \in Seq(Candidates)
      /\ StartTime[e] \in Nat /\ EndTime[e] \in Nat /\ b.castAt \in Nat
      /\ e \in Elections /\ b.voter \in Voters
      /\ AuthRows[e][GroupOf[b.voter]] \in Nat
      /\ b.entries \in Seq(Entry)
  BY RulesAssumption DEF Vouched, Row, Command
<1>2. /\ KeyRows[b.voter] = 1
      /\ StartTime[e] <= b.castAt /\ b.castAt <= EndTime[e]
      /\ AuthRows[e][GroupOf[b.voter]] = 1
      /\ ValidEntries(e, b.entries)
  BY DEF Vouched, Accepts, Authentic, OpenTo
<1>3. DOMAIN b.entries = DOMAIN CandidatesOf[e] /\ Len(b.entries) = Len(CandidatesOf[e])
  BY <1>1, <1>2 DEF ValidEntries
<1>4. {b.entries[i].candidate : i \in DOMAIN b.entries} = CandidateSet(e)
  BY <1>2, <1>3 DEF ValidEntries, CandidateSet
<1>5. \E i \in DOMAIN b.entries :
         /\ b.entries[i].vote = 1
         /\ \A j \in DOMAIN b.entries \ {i} : b.entries[j].vote = 0
  BY <1>2 DEF ValidEntries
<1>6. b.castAt \in StartTime[e] .. EndTime[e]
  BY <1>1, <1>2
<1>7. AuthRows[e][GroupOf[b.voter]] > 0
  BY <1>1, <1>2
<1> QED
  BY <1>2, <1>3, <1>4, <1>5, <1>6, <1>7 DEF Eligible

\* A tally of finitely many ballots has an entry of the right kind for every
\* candidate: the exact value or garbage.
LEMMA ExactType ==
    ASSUME NEW e \in Elections, NEW rows, IsFiniteSet(rows)
    PROVE  Exact(e, rows) \in [Candidates -> Nat \cup {Garbage, None}]
<1> SUFFICES ASSUME NEW c \in Candidates
             PROVE  Exact(e, rows)[c] \in Nat \cup {Garbage, None}
  BY DEF Exact
<1> DEFINE P(b) == \E i \in DOMAIN b.entries :
                       b.entries[i].candidate = c /\ b.entries[i].vote = 1
           votes == {b \in rows : P(b)}
<1>1. Cardinality(votes) \in Nat
  <2> HIDE DEF P
  <2>1. votes \subseteq rows
    OBVIOUS
  <2>2. IsFiniteSet(votes)
    BY <2>1, FS_Subset
  <2> QED
    BY <2>2, FS_CardinalityType
<1>2. VotesFor(c, rows) \in Nat
  BY <1>1 DEF VotesFor
<1>3. VotesFor(c, rows) % TallyModulus \in Nat
  BY <1>2, RulesAssumption
<1> QED
  BY <1>3 DEF Exact

LEMMA ResultsType ==
    ASSUME NEW e \in Elections, NEW rows, IsFiniteSet(rows),
           NEW results \in TallyResults(e, rows)
    PROVE  /\ results \in [Candidates -> Nat \cup {Garbage, None}]
           /\ \A c \in Candidates : results[c] \in {Exact(e, rows)[c], Garbage}
<1>1. CASE ~IndexOverruns(e, rows)
  BY <1>1, ExactType DEF TallyResults
<1>2. CASE IndexOverruns(e, rows)
  <2>1. PICK kept : results = [c \in Candidates |->
              IF c \in CandidateSet(e) \ kept THEN Garbage ELSE Exact(e, rows)[c]]
    BY <1>2 DEF TallyResults
  <2> QED
    BY <2>1, ExactType
<1> QED
  BY <1>1, <1>2

-----------------------------------------------------------------------------
(* What every step respects. *)

\* The table of elections and the clock of the host only grow, and the
\* content of a request is fixed once it is sent.
LEMMA StepFrame ==
    ASSUME TypeOK, [Next]_vars
    PROVE  /\ elections \subseteq elections'
           /\ now' \in Nat /\ now <= now'
           /\ \A r \in Requests : status[r] # "unsent" =>
                 cmd'[r] = cmd[r] /\ status'[r] # "unsent"
<1> DEFINE Goal == /\ elections \subseteq elections'
                   /\ now' \in Nat /\ now <= now'
                   /\ \A r \in Requests : status[r] # "unsent" =>
                         cmd'[r] = cmd[r] /\ status'[r] # "unsent"
<1> USE DEF TypeOK, tables, host, clientVars, workerVars, clockVars
<1>1. ASSUME NEW e \in Elections, AddElection(e) PROVE Goal
  BY <1>1 DEF AddElection
<1>2. CASE PassTime
  BY <1>2 DEF PassTime
<1>3. ASSUME NEW r \in Requests, NEW c \in Commands, Send(r, c) PROVE Goal
  BY <1>3 DEF Send
<1>4. ASSUME NEW r \in Requests, GiveUp(r) \/ Accept(r) \/ Drop(r) PROVE Goal
  BY <1>4 DEF GiveUp, InFlight, Accept, Drop
<1>5. ASSUME NEW w \in Workers, WorkerStep(w) PROVE Goal
  <2>1. ASSUME NEW r \in Requests, NEW a, Validate(w, r) \/ Answer(w, r, a) PROVE Goal
    BY <2>1 DEF Validate, Answer, Take, Settle
  <2>2. CASE Insert(w) \/ Commit(w)
    BY <2>2 DEF Insert, Commit
  <2>3. ASSUME NEW a, Respond(w, a) PROVE Goal
    BY <2>3 DEF Respond, Settle
  <2> QED
    BY <1>5, <2>1, <2>2, <2>3 DEF WorkerStep
<1>6. CASE LoopFails \/ Wake \/ BeginTick \/ CommitTick
  BY <1>6 DEF LoopFails, Wake, BeginTick, CommitTick
<1>7. ASSUME NEW e \in Elections, GenerateTally(e) \/ TallyFault(e) PROVE Goal
  BY <1>7 DEF GenerateTally, TallyFault, Die, InFlight
<1>8. CASE Crash \/ Restart
  BY <1>8 DEF Crash, Restart, Die, InFlight
<1>9. CASE UNCHANGED vars
  BY <1>9 DEF vars
<1> QED
  BY <1>1, <1>2, <1>3, <1>4, <1>5, <1>6, <1>7, <1>8, <1>9 DEF Next

\* What was established of a row stays established: elections are only
\* added, time only passes and the command behind a row does not change.
LEMMA VouchedStays ==
    ASSUME TypeOK, [Next]_vars, NEW b \in Row,
           status[b.request] # "unsent", Vouched(b)
    PROVE  Vouched(b)' /\ status'[b.request] # "unsent"
<1>1. cmd'[b.request] = cmd[b.request] /\ status'[b.request] # "unsent"
  BY StepFrame DEF Row
<1>2. b.castAt <= now'
  BY StepFrame DEF Vouched, TypeOK, Row
<1>3. Accepts(cmd[b.request], elections', b.castAt)
  BY StepFrame, AcceptsGrows DEF Vouched
<1> QED
  BY <1>1, <1>2, <1>3 DEF Vouched

\* What a death of the process does to each variable.
LEMMA DieEffect ==
    ASSUME Die
    PROVE  /\ up' = FALSE
           /\ status' = [r \in Requests |->
                 IF status[r] \in {"backlog", "queued", "running", "forgotten"}
                 THEN "done" ELSE status[r]]
           /\ reply' = [r \in Requests |->
                 IF status[r] \in {"backlog", "queued", "running", "forgotten"} 
                    /\ reply[r] = "none"
                 THEN "lost" ELSE reply[r]]
           /\ pc' = [w \in Workers |-> "idle"]
           /\ job' = [w \in Workers |-> None]
           /\ row' = [w \in Workers |-> None]
           /\ clockPc' = "sleeping" /\ todo' = {} /\ drafts' = {}
           /\ failed' = FALSE
           /\ UNCHANGED <<elections, ballots, nextId, tallies, now, cmd>>
BY DEF Die, InFlight, tables

\* What a response, or the lack of one, does to its command.
LEMMA SettleEffect ==
    ASSUME TypeOK, NEW r \in Requests,
           NEW a \in {"accepted", "refused", "answered", "lost", "unmade"}, Settle(r, a)
    PROVE  /\ status' \in [Requests -> Statuses]
           /\ reply' \in [Requests -> {"none", "accepted", "refused", "answered", "lost"}]
           /\ status'[r] \in Over
           /\ \A s \in Requests : s # r => status'[s] = status[s] /\ reply'[s] = reply[s]
           /\ reply'[r] = reply[r] \/ (reply[r] = "none" /\ reply'[r] = a)
<1>1. CASE a = "unmade"
  BY <1>1 DEF Settle, TypeOK, Statuses
<1>2. CASE a # "unmade"
  BY <1>2 DEF Settle, Tell, TypeOK, Statuses
<1> QED
  BY <1>1, <1>2

\* A step that no worker takes part in beyond refusing a command: no row, no
\* job and no ballot changes, and no running request does.
Quiet ==
    /\ UNCHANGED <<workerVars, ballots, nextId>>
    /\ \A r \in Requests :
          status'[r] = status[r] \/ status[r] \in {"unsent", "backlog", "queued"}
    /\ \A r \in Requests : status[r] \in Over => status'[r] \in Over

\* As far as ballots and workers go, a step is quiet, is one of the four
\* steps of a cast, or is a death of the process.
LEMMA StepCases ==
    ASSUME TypeOK, [Next]_vars
    PROVE  \/ Quiet
           \/ \E w \in Workers, r \in Requests : Validate(w, r)
           \/ \E w \in Workers : Insert(w)
           \/ \E w \in Workers : Commit(w)
           \/ \E w \in Workers, a \in {"accepted", "lost", "unmade"} : Respond(w, a)
           \/ Die
<1> USE DEF TypeOK, tables, host, clientVars, workerVars, clockVars, Quiet
<1>1. ASSUME NEW e \in Elections, AddElection(e) PROVE Quiet
  BY <1>1 DEF AddElection
<1>2. CASE PassTime
  BY <1>2 DEF PassTime
<1>3. ASSUME NEW r \in Requests, NEW c \in Commands, Send(r, c) PROVE Quiet
  BY <1>3 DEF Send
<1>4. ASSUME NEW r \in Requests, GiveUp(r) \/ Accept(r) \/ Drop(r) PROVE Quiet
  BY <1>4 DEF GiveUp, InFlight, Accept, Drop
<1>5. ASSUME NEW w \in Workers, NEW r \in Requests, NEW a, Answer(w, r, a) PROVE Quiet
  BY <1>5 DEF Answer, Take, Settle
<1>6. CASE LoopFails \/ Wake \/ BeginTick \/ CommitTick
  BY <1>6 DEF LoopFails, Wake, BeginTick, CommitTick
<1>7. ASSUME NEW e \in Elections, GenerateTally(e) PROVE Quiet
  BY <1>7 DEF GenerateTally
<1>8. CASE Restart
  BY <1>8 DEF Restart
<1>9. CASE UNCHANGED vars
  BY <1>9 DEF vars
<1>10. (Crash \/ \E e \in Elections : TallyFault(e)) => Die
  BY DEF Crash, TallyFault
<1> QED
  BY <1>1, <1>2, <1>3, <1>4, <1>5, <1>6, <1>7, <1>8, <1>9, <1>10 DEF Next, WorkerStep

-----------------------------------------------------------------------------
(* Each part of the invariant is preserved. *)

LEMMA TypeStep ==
    ASSUME TypeOK, CommandsInv, WorkersInv, BallotsInv, [Next]_vars
    PROVE  TypeOK'
<1> USE DEF TypeOK, Statuses, tables, host, clientVars, workerVars, clockVars
<1>1. ASSUME NEW e \in Elections, AddElection(e) PROVE TypeOK'
  BY <1>1 DEF AddElection
<1>2. CASE PassTime
  BY <1>2 DEF PassTime
<1>3. ASSUME NEW r \in Requests, NEW c \in Commands, Send(r, c) PROVE TypeOK'
  BY <1>3 DEF Send
<1>4. ASSUME NEW r \in Requests, GiveUp(r) \/ Accept(r) \/ Drop(r) PROVE TypeOK'
  BY <1>4 DEF GiveUp, InFlight, Accept, Drop, Tell
<1>5. ASSUME NEW w \in Workers, NEW r \in Requests, Validate(w, r) PROVE TypeOK'
  <2>1. cmd[r] \in Command
    BY <1>5, RulesAssumption DEF Validate, Take, CommandsInv
  <2>2. [id |-> 0, request |-> r, voter |-> cmd[r].voter,
         election |-> cmd[r].election, castAt |-> now,
         entries |-> cmd[r].entries] \in Row
    BY <2>1 DEF Command, Row
  <2> QED
    BY <1>5, <2>2 DEF Validate, Take
<1>6. ASSUME NEW w \in Workers, NEW r \in Requests,
             NEW a \in {"answered", "refused", "lost", "unmade"}, Answer(w, r, a)
      PROVE  TypeOK'
  <2>1. Settle(r, a)
    BY <1>6 DEF Answer
  <2> QED
    BY <1>6, <2>1, SettleEffect DEF Answer
<1>7. ASSUME NEW w \in Workers, Insert(w) PROVE TypeOK'
  <2>1. row[w] \in Row
    BY <1>7 DEF Insert, WorkersInv, Busy
  <2>2. [row[w] EXCEPT !.id = nextId] \in Row
    BY <2>1 DEF Row
  <2>3. row' = [row EXCEPT ![w] = [row[w] EXCEPT !.id = nextId]]
    BY <1>7 DEF Insert
  <2> QED
    BY <1>7, <2>2, <2>3 DEF Insert
<1>8. ASSUME NEW w \in Workers, Commit(w) PROVE TypeOK'
  <2>1. row[w] \in Row
    BY <1>8 DEF Commit, WorkersInv, Busy
  <2> QED
    BY <1>8, <2>1 DEF Commit
<1>9. ASSUME NEW w \in Workers, NEW a \in {"accepted", "lost", "unmade"}, Respond(w, a)
      PROVE  TypeOK'
  <2>1. job[w] \in Requests
    BY <1>9 DEF Respond, WorkersInv, Busy
  <2> QED
    BY <1>9, <2>1, SettleEffect DEF Respond
<1>10. CASE LoopFails \/ Wake \/ BeginTick \/ CommitTick
  BY <1>10 DEF LoopFails, Wake, BeginTick, CommitTick
<1>11. ASSUME NEW e \in Elections, GenerateTally(e) PROVE TypeOK'
  <2>1. CountedFor(e) \subseteq ballots /\ IsFiniteSet(CountedFor(e))
    BY FS_Subset DEF CountedFor, BallotsInv
  <2>2. PICK results \in TallyResults(e, CountedFor(e)) :
           drafts' = drafts \cup {[election |-> e, counted |-> CountedFor(e),
                                   results |-> results]}
    BY <1>11 DEF GenerateTally
  <2>3. results \in [Candidates -> Nat \cup {Garbage, None}]
    BY <2>1, <2>2, ResultsType
  <2>4. drafts' \subseteq Tally
    BY <2>1, <2>2, <2>3 DEF Tally
  <2> QED
    BY <1>11, <2>4 DEF GenerateTally
<1>12. CASE Die /\ (crashes' = crashes \/ crashes' = crashes + 1)
  <2>1. crashes' \in Nat
    BY <1>12
  <2> QED
    BY <1>12, <2>1, DieEffect
<1>13. CASE Restart
  BY <1>13 DEF Restart
<1>14. CASE UNCHANGED vars
  BY <1>14 DEF vars
<1> QED
  BY <1>1, <1>2, <1>3, <1>4, <1>5, <1>6, <1>7, <1>8, <1>9, <1>10, <1>11, <1>12,
     <1>13, <1>14 DEF Next, WorkerStep, Crash, TallyFault

LEMMA CommandsStep ==
    ASSUME TypeOK, CommandsInv, WorkersInv, [Next]_vars
    PROVE  CommandsInv'
<1> SUFFICES ASSUME NEW r \in Requests, status[r] = "unsent", status'[r] # "unsent"
             PROVE  cmd'[r] \in Commands
  BY StepFrame DEF CommandsInv
<1> USE DEF TypeOK, clientVars
<1>1. ASSUME NEW s \in Requests, NEW c \in Commands, Send(s, c)
      PROVE  cmd'[r] \in Commands
  BY <1>1 DEF Send
<1>2. ASSUME NEW w \in Workers, WorkerStep(w) PROVE FALSE
  <2>1. ASSUME NEW s \in Requests, NEW a, Validate(w, s) \/ Answer(w, s, a)
        PROVE  FALSE
    BY <2>1 DEF Validate, Answer, Take, Settle
  <2>2. CASE Insert(w) \/ Commit(w)
    BY <2>2 DEF Insert, Commit
  <2>3. ASSUME NEW a, Respond(w, a) PROVE FALSE
    BY <2>3 DEF Respond, Settle, WorkersInv, Busy
  <2> QED
    BY <1>2, <2>1, <2>2, <2>3 DEF WorkerStep
<1>3. ASSUME NEW s \in Requests, GiveUp(s) \/ Accept(s) \/ Drop(s) PROVE FALSE
  BY <1>3 DEF GiveUp, InFlight, Accept, Drop
<1>4. ~Die
  <2> SUFFICES ASSUME Die PROVE FALSE
    OBVIOUS
  <2> QED
    BY DieEffect
<1>5. status' # status
  OBVIOUS
<1> QED
  BY <1>1, <1>2, <1>3, <1>4, <1>5 DEF Next, AddElection, PassTime, LoopFails, Wake, BeginTick,
     GenerateTally, CommitTick, Crash, TallyFault, Restart, vars
\* The same of the row of a worker, which may be given its id meanwhile.
LEMMA WorkerRowStays ==
    ASSUME TypeOK, [Next]_vars, NEW w \in Workers, row[w] \in Row, Vouched(row[w]),
           status[row[w].request] # "unsent", row'[w] \in Row,
           row'[w] = [row[w] EXCEPT !.id = row'[w].id]
    PROVE  Vouched(row[w])'
<1>1. PICK b \in Row : b = row'[w]
  OBVIOUS
<1>2. /\ b.request = row[w].request /\ b.voter = row[w].voter
      /\ b.election = row[w].election /\ b.castAt = row[w].castAt
      /\ b.entries = row[w].entries
  BY <1>1 DEF Row
<1>3. Vouched(b)
  BY <1>2 DEF Vouched
<1>4. Vouched(b)'
  BY <1>2, <1>3, VouchedStays
<1> QED
  BY <1>1, <1>4 DEF Vouched

LEMMA WorkersStep ==
    ASSUME TypeOK, TypeOK', CommandsInv, WorkersInv, [Next]_vars
    PROVE  WorkersInv'
<1> USE DEF TypeOK, tables, host, clientVars, workerVars, Busy
<1> DEFINE Fit(w) == /\ job[w] \in Requests /\ status[job[w]] = "running"
                     /\ row[w] \in Row /\ row[w].request = job[w]
                     /\ Vouched(row[w])
\* A worker that keeps its job and its row, but for the row's id, stays fit.
<1>1. ASSUME NEW w \in Workers, Fit(w), job'[w] = job[w], row'[w] \in Row,
             row'[w] = [row[w] EXCEPT !.id = row'[w].id], status'[job[w]] = "running"
      PROVE  Fit(w)'
  <2>1. Vouched(row[w])'
    BY <1>1, WorkerRowStays
  <2>2. row'[w].request = row[w].request
    BY <1>1 DEF Row
  <2> QED
    BY <1>1, <2>1, <2>2
<1>2. ASSUME NEW w \in Workers, row[w] \in Row, row'[w] = row[w]
      PROVE  row'[w] = [row[w] EXCEPT !.id = row'[w].id]
  BY <1>2 DEF Row
<1>3. \A w \in Workers : Busy(w) => Fit(w)
  BY DEF WorkersInv
<1>same. ASSUME NEW w \in Workers, Busy(w), UNCHANGED <<job[w], row[w]>>,
              status'[job[w]] = "running"
       PROVE  Fit(w)'
  BY <1>1, <1>2, <1>3, <1>same
<1>4. CASE Quiet
  <2>1. ASSUME NEW w \in Workers, Busy(w)' PROVE Fit(w)'
    BY <1>3, <1>same, <1>4, <2>1 DEF Quiet
  <2> QED
    BY <1>4, <2>1 DEF WorkersInv, Quiet
<1>5. ASSUME NEW v \in Workers, NEW r \in Requests, Validate(v, r) PROVE WorkersInv'
  <2>1. /\ cmd[r] \in Commands /\ cmd' = cmd /\ status[r] = "queued"
        /\ status' = [status EXCEPT ![r] = "running"]
        /\ pc' = [pc EXCEPT ![v] = "validated"] /\ job' = [job EXCEPT ![v] = r]
        /\ UNCHANGED <<now, elections>> /\ Accepts(cmd[r], elections, now)
    BY <1>5 DEF Validate, Take, CommandsInv
  <2>2. PICK b : /\ b = [id |-> 0, request |-> r, voter |-> cmd[r].voter,
                         election |-> cmd[r].election, castAt |-> now,
                         entries |-> cmd[r].entries]
                 /\ row' = [row EXCEPT ![v] = b]
    BY <1>5 DEF Validate
  <2>3. Fit(v)'
    <3>1. cmd[r] \in Command
      BY <2>1, RulesAssumption
    <3>2. b \in Row
      BY <2>2, <3>1 DEF Command, Row
    <3>3. Vouched(b)'
      BY <2>1, <2>2 DEF Vouched
    <3>4. job'[v] = r /\ row'[v] = b /\ status'[r] = "running"
      BY <2>1, <2>2
    <3> QED
      BY <2>2, <3>2, <3>3, <3>4 DEF Vouched
  <2>4. ASSUME NEW w \in Workers, w # v, Busy(w)' PROVE Fit(w)' /\ job'[w] # r
    <3>1. Busy(w) /\ UNCHANGED <<job[w], row[w]>>
      BY <2>1, <2>2, <2>4
    <3>2. status[job[w]] = "running" /\ job[w] \in Requests
      BY <1>3, <3>1
    <3>3. job[w] # r /\ status'[job[w]] = "running"
      BY <2>1, <3>2
    <3> QED
      BY <1>same, <3>1, <3>3
  <2>5. job'[v] = r /\ \A w \in Workers \ {v} : job'[w] = job[w] /\ (Busy(w)' => Busy(w))
    BY <2>1
  <2> QED
    BY <2>3, <2>4, <2>5 DEF WorkersInv
<1>6. ASSUME NEW v \in Workers, Insert(v) PROVE WorkersInv'
  <2>1. /\ pc[v] = "validated" /\ pc' = [pc EXCEPT ![v] = "inserted"]
        /\ row' = [row EXCEPT ![v].id = nextId]
        /\ UNCHANGED <<job, status>>
    BY <1>6 DEF Insert
  <2>2. \A w \in Workers : Busy(w)' => Busy(w)
    BY <2>1
  <2>3. ASSUME NEW w \in Workers, Busy(w)' PROVE Fit(w)'
    <3>1. CASE w = v
      <4>1. row[v] \in Row /\ row'[v] = [row[v] EXCEPT !.id = nextId]
        BY <1>3, <2>1
      <4>2. row'[v] \in Row /\ row'[v].id = nextId
        BY <4>1 DEF Row
      <4> QED
        BY <1>1, <1>3, <2>1, <2>2, <2>3, <3>1, <4>1, <4>2
    <3>2. CASE w # v
      BY <1>3, <1>same, <2>1, <2>2, <2>3, <3>2
    <3> QED
      BY <3>1, <3>2
  <2> QED
    BY <2>1, <2>2, <2>3 DEF WorkersInv
<1>7. ASSUME NEW v \in Workers, Commit(v) PROVE WorkersInv'
  <2>1. /\ pc[v] = "inserted" /\ pc' = [pc EXCEPT ![v] = "committed"]
        /\ UNCHANGED <<job, row, status>>
    BY <1>7 DEF Commit
  <2>2. ASSUME NEW w \in Workers, Busy(w)' PROVE Fit(w)' /\ Busy(w)
    BY <1>3, <1>same, <2>1, <2>2
  <2> QED
    BY <2>1, <2>2 DEF WorkersInv
<1>8. ASSUME NEW v \in Workers, NEW a \in {"accepted", "lost", "unmade"}, Respond(v, a)
      PROVE  WorkersInv'
  <2>1. /\ pc[v] = "committed" /\ pc' = [pc EXCEPT ![v] = "idle"]
        /\ job' = [job EXCEPT ![v] = None] /\ row' = [row EXCEPT ![v] = None]
        /\ job[v] \in Requests
        /\ \A r \in Requests : r # job[v] => status'[r] = status[r]
    BY <1>8, SettleEffect DEF Respond, WorkersInv
  <2>2. ASSUME NEW w \in Workers, Busy(w)' PROVE Fit(w)' /\ Busy(w) /\ w # v
    <3>1. w # v /\ Busy(w) /\ UNCHANGED <<job[w], row[w]>>
      BY <2>1, <2>2
    <3>2. job[w] # job[v] /\ status[job[w]] = "running" /\ job[w] \in Requests
      BY <2>1, <3>1 DEF WorkersInv
    <3>3. status'[job[w]] = "running"
      BY <2>1, <3>2
    <3> QED
      BY <1>same, <3>1, <3>3
  <2> QED
    BY <2>1, <2>2 DEF WorkersInv
<1>9. CASE Die
  BY <1>9, DieEffect DEF WorkersInv
<1> QED
  BY <1>4, <1>5, <1>6, <1>7, <1>8, <1>9, StepCases
LEMMA IdsStep ==
    ASSUME TypeOK, WorkersInv, IdsInv, [Next]_vars
    PROVE  IdsInv'
<1> USE DEF TypeOK, tables, workerVars
<1>0. \A b \in ballots : b.id \in Nat
  BY DEF Row
<1>1. CASE Quiet
  BY <1>1 DEF Quiet, IdsInv
<1>2. ASSUME NEW v \in Workers, NEW r \in Requests, Validate(v, r) PROVE IdsInv'
  <2>1. /\ \A w \in Workers : pc'[w] = "inserted" =>
              pc[w] = "inserted" /\ row'[w] = row[w]
        /\ UNCHANGED <<ballots, nextId>>
    BY <1>2 DEF Validate
  <2> QED
    BY <2>1 DEF IdsInv
<1>3. ASSUME NEW v \in Workers, Insert(v) PROVE IdsInv'
  <2>1. /\ pc[v] = "validated" /\ pc' = [pc EXCEPT ![v] = "inserted"]
        /\ row' = [row EXCEPT ![v] = [row[v] EXCEPT !.id = nextId]]
        /\ nextId' = nextId + 1 /\ ballots' = ballots
    BY <1>3 DEF Insert
  <2>2. row[v] \in Row
    BY <2>1 DEF WorkersInv, Busy
  <2>3. row'[v].id = nextId
    BY <2>1, <2>2 DEF Row
  <2>4. \A w \in Workers \ {v} : pc'[w] = pc[w] /\ row'[w] = row[w]
    BY <2>1
  <2>5. \A b \in ballots : 0 < b.id /\ b.id < nextId' /\ b.id # nextId
    BY <1>0, <2>1 DEF IdsInv
  <2>6. \A w \in Workers : pc[w] = "inserted" => row[w].id \in Nat
    BY DEF WorkersInv, Busy, Row
  <2>7. \A w \in Workers : pc[w] = "inserted" =>
           0 < row[w].id /\ row[w].id < nextId' /\ row[w].id # nextId
    BY <2>1, <2>6 DEF IdsInv
  <2>8. 0 < nextId /\ nextId < nextId' /\ 0 < nextId'
    BY <2>1 DEF IdsInv
  <2> QED
    BY <2>1, <2>3, <2>4, <2>5, <2>7, <2>8 DEF IdsInv
<1>4. ASSUME NEW v \in Workers, Commit(v) PROVE IdsInv'
  <2>1. /\ pc[v] = "inserted" /\ pc' = [pc EXCEPT ![v] = "committed"]
        /\ ballots' = ballots \cup {row[v]} /\ row' = row /\ nextId' = nextId
    BY <1>4 DEF Commit
  <2>2. \A w \in Workers : pc'[w] = "inserted" => w # v /\ pc[w] = "inserted"
    BY <2>1
  <2> QED
    BY <2>1, <2>2 DEF IdsInv
<1>5. ASSUME NEW v \in Workers, NEW a \in {"accepted", "lost", "unmade"}, Respond(v, a)
      PROVE  IdsInv'
  <2>1. /\ \A w \in Workers : pc'[w] = "inserted" =>
              pc[w] = "inserted" /\ row'[w] = row[w]
        /\ UNCHANGED <<ballots, nextId>>
    BY <1>5 DEF Respond
  <2> QED
    BY <2>1 DEF IdsInv
<1>6. CASE Die
  BY <1>6, DieEffect DEF IdsInv
<1> QED
  BY <1>1, <1>2, <1>3, <1>4, <1>5, <1>6, StepCases

\* While a worker has not committed, no ballot is of the request it runs.
LEMMA NotYetStored ==
    ASSUME WorkersInv, BallotsInv, NEW w \in Workers, Busy(w), pc[w] # "committed",
           NEW b \in ballots
    PROVE  b.request # job[w]
<1> SUFFICES ASSUME b.request = job[w] PROVE FALSE
  OBVIOUS
<1>1. status[b.request] = "running"
  BY DEF WorkersInv
<1>2. PICK v \in Workers : pc[v] = "committed" /\ job[v] = b.request
  BY <1>1 DEF BallotsInv
<1> QED
  BY <1>2 DEF WorkersInv, Busy

LEMMA BallotsStep ==
    ASSUME TypeOK, WorkersInv, BallotsInv, [Next]_vars
    PROVE  BallotsInv'
<1> USE DEF TypeOK, tables, workerVars, clientVars
<1>1. ASSUME NEW b \in ballots PROVE Vouched(b)'
  <2>1. b \in Row /\ Vouched(b)
    BY DEF BallotsInv
  <2>2. status[b.request] # "unsent"
    BY DEF BallotsInv, WorkersInv, Busy
  <2> QED
    BY <2>1, <2>2, VouchedStays
<1>2. \A b \in ballots : b.request \in Requests
  BY DEF Row
<1>3. CASE Quiet
  BY <1>1, <1>2, <1>3 DEF Quiet, BallotsInv
<1>4. ASSUME NEW v \in Workers, NEW r \in Requests, Validate(v, r) PROVE BallotsInv'
  <2>1. /\ pc[v] = "idle" /\ pc' = [pc EXCEPT ![v] = "validated"]
        /\ job' = [job EXCEPT ![v] = r] /\ ballots' = ballots
        /\ status[r] = "queued" /\ status' = [status EXCEPT ![r] = "running"]
    BY <1>4 DEF Validate, Take
  <2>2. \A w \in Workers : w # v => row'[w] = row[w]
    BY <1>4 DEF Validate
  <2>3. \A s \in Requests : status[s] \in Over => status'[s] \in Over
    BY <2>1
  <2>4. \A w \in Workers : pc[w] = "committed" =>
           w # v /\ pc'[w] = "committed" /\ job'[w] = job[w] /\ row'[w] = row[w]
    BY <2>1, <2>2
  <2>5. \A w \in Workers : pc'[w] = "committed" => pc[w] = "committed"
    BY <2>1
  <2> QED
    BY <1>1, <1>2, <2>1, <2>3, <2>4, <2>5 DEF BallotsInv
<1>5. ASSUME NEW v \in Workers, Insert(v) PROVE BallotsInv'
  <2>1. /\ pc[v] = "validated" /\ pc' = [pc EXCEPT ![v] = "inserted"]
        /\ row' = [row EXCEPT ![v] = [row[v] EXCEPT !.id = nextId]]
        /\ UNCHANGED <<ballots, job, status>>
    BY <1>5 DEF Insert
  <2>2. \A w \in Workers : pc'[w] = "committed" => pc[w] = "committed" /\ row'[w] = row[w]
    BY <2>1
  <2>3. \A w \in Workers : pc[w] = "committed" => pc'[w] = "committed"
    BY <2>1
  <2> QED
    BY <1>1, <2>1, <2>2, <2>3 DEF BallotsInv
<1>6. ASSUME NEW v \in Workers, Commit(v) PROVE BallotsInv'
  <2>1. /\ pc[v] = "inserted" /\ pc' = [pc EXCEPT ![v] = "committed"]
        /\ ballots' = ballots \cup {row[v]} /\ UNCHANGED <<job, row, status>>
    BY <1>6 DEF Commit
  <2>2. /\ row[v] \in Row /\ row[v].request = job[v] /\ status[job[v]] = "running"
        /\ Vouched(row[v])
    BY <2>1 DEF WorkersInv, Busy
  <2>3. Vouched(row[v])'
    <3>1. row'[v] = [row[v] EXCEPT !.id = row'[v].id]
      BY <2>1, <2>2 DEF Row
    <3> QED
      BY <2>1, <2>2, <3>1, WorkerRowStays
  <2>4. \A b \in ballots : b.request # job[v]
    BY <2>1, NotYetStored DEF Busy
  <2>5. IsFiniteSet(ballots')
    BY <2>1, FS_AddElement DEF BallotsInv
  <2>6. \A b \in ballots' : Vouched(b)'
    BY <1>1, <2>1, <2>3 DEF Vouched
  <2>7. \A b1, b2 \in ballots' : b1.request = b2.request => b1 = b2
    BY <2>1, <2>2, <2>4 DEF BallotsInv
  <2>8. \A w \in Workers : pc'[w] = "committed" => row'[w] \in ballots'
    BY <2>1 DEF BallotsInv
  <2>9. \A b \in ballots' : \/ status'[b.request] \in Over
                            \/ \E w \in Workers : pc'[w] = "committed" /\ job'[w] = b.request
    <3>1. pc'[v] = "committed" /\ job'[v] = row[v].request
      BY <2>1, <2>2
    <3>2. \A w \in Workers : pc[w] = "committed" => pc'[w] = "committed"
      BY <2>1
    <3> QED
      BY <2>1, <3>1, <3>2 DEF BallotsInv
  <2> QED
    BY <2>5, <2>6, <2>7, <2>8, <2>9 DEF BallotsInv
<1>7. ASSUME NEW v \in Workers, NEW a \in {"accepted", "lost", "unmade"}, Respond(v, a)
      PROVE  BallotsInv'
  <2>1. /\ pc[v] = "committed" /\ pc' = [pc EXCEPT ![v] = "idle"]
        /\ job' = [job EXCEPT ![v] = None] /\ row' = [row EXCEPT ![v] = None]
        /\ job[v] \in Requests /\ status'[job[v]] \in Over
        /\ \A r \in Requests : r # job[v] => status'[r] = status[r]
        /\ ballots' = ballots
    BY <1>7, SettleEffect DEF Respond, WorkersInv, Busy
  <2>2. \A s \in Requests : s = job[v] \/ status[s] \in Over => status'[s] \in Over
    BY <2>1
  <2>3. \A w \in Workers : w # v => UNCHANGED <<pc[w], job[w], row[w]>>
    BY <2>1
  <2>4. pc'[v] = "idle"
    BY <2>1
  <2> QED
    BY <1>1, <1>2, <2>1, <2>2, <2>3, <2>4 DEF BallotsInv
<1>8. CASE Die
  <2>1. \A b \in ballots : status'[b.request] \in Over
    <3>1. \A b \in ballots : status[b.request] \in Over \cup {"running"}
      BY DEF BallotsInv, WorkersInv, Busy
    <3> QED
      BY <1>2, <1>8, <3>1, DieEffect
  <2> QED
    BY <1>1, <1>8, <2>1, DieEffect DEF BallotsInv
<1> QED
  BY <1>3, <1>4, <1>5, <1>6, <1>7, <1>8, StepCases
LEMMA RepliesStep ==
    ASSUME TypeOK, WorkersInv, BallotsInv, RepliesInv, [Next]_vars
    PROVE  RepliesInv'
<1> USE DEF TypeOK, tables, host, clientVars, workerVars, clockVars
<1>1. CASE /\ UNCHANGED <<reply, ballots>>
           /\ \A r \in Requests : status[r] \in Over => status'[r] \in Over
  BY <1>1 DEF RepliesInv
<1>2. (\E e \in Elections : AddElection(e) \/ GenerateTally(e))
         => UNCHANGED <<reply, ballots, status>>
  BY DEF AddElection, GenerateTally
<1>3. PassTime \/ LoopFails \/ Wake \/ BeginTick \/ CommitTick \/ Restart => UNCHANGED <<reply, ballots, status>>
  BY DEF PassTime, LoopFails, Wake, BeginTick, CommitTick, Restart
<1>4. ASSUME NEW r \in Requests, NEW c \in Commands, Send(r, c) PROVE RepliesInv'
  BY <1>1, <1>4 DEF Send
<1>5. ASSUME NEW r \in Requests, GiveUp(r) \/ Accept(r) \/ Drop(r) PROVE RepliesInv'
  <2>1. /\ ballots' = ballots
        /\ \A s \in Requests : reply'[s] = reply[s] \/ reply'[s] = "lost"
        /\ \A s \in Requests : status[s] \in Over => status'[s] \in Over
    BY <1>5 DEF GiveUp, InFlight, Accept, Drop, Tell
  <2> QED
    BY <2>1 DEF RepliesInv
<1>6. ASSUME NEW w \in Workers, NEW r \in Requests,
             NEW a \in {"answered", "refused", "lost", "unmade"}, Answer(w, r, a)
      PROVE  RepliesInv'
  <2>1. /\ ballots' = ballots /\ status[r] = "queued"
        /\ \A s \in Requests : reply'[s] = reply[s] \/ (s = r /\ reply'[s] = a)
        /\ \A s \in Requests : s = r \/ status[s] \in Over => status'[s] \in Over
    <3>1. Settle(r, a) /\ ballots' = ballots /\ status[r] = "queued"
      BY <1>6 DEF Answer, Take
    <3> QED
      BY <3>1, SettleEffect
  <2>2. \A b \in ballots : b.request # r
    BY <2>1 DEF BallotsInv, WorkersInv, Busy
  <2> QED
    BY <2>1, <2>2 DEF RepliesInv
<1>7. ASSUME NEW w \in Workers, NEW r \in Requests, Validate(w, r) PROVE RepliesInv'
  BY <1>1, <1>7 DEF Validate, Take
<1>8. ASSUME NEW w \in Workers, Insert(w) PROVE RepliesInv'
  BY <1>1, <1>8 DEF Insert
<1>9. ASSUME NEW w \in Workers, Commit(w) PROVE RepliesInv'
  <2>1. pc[w] = "inserted" /\ ballots' = ballots \cup {row[w]} /\ UNCHANGED <<reply, status>>
    BY <1>9 DEF Commit
  <2>2. status[row[w].request] = "running"
    BY <2>1 DEF WorkersInv, Busy
  <2> QED
    BY <2>1, <2>2 DEF RepliesInv
<1>10. ASSUME NEW w \in Workers, NEW a \in {"accepted", "lost", "unmade"}, Respond(w, a)
       PROVE  RepliesInv'
  <2>1. job[w] \in Requests /\ row[w] \in ballots /\ row[w].request = job[w]
    BY <1>10 DEF Respond, WorkersInv, BallotsInv, Busy
  <2>2. /\ ballots' = ballots
        /\ \A s \in Requests : reply'[s] = reply[s] \/ (s = job[w] /\ reply'[s] = a)
        /\ \A s \in Requests : status[s] \in Over => status'[s] \in Over
    <3>1. Settle(job[w], a) /\ ballots' = ballots
      BY <1>10 DEF Respond
    <3> QED
      BY <2>1, <3>1, SettleEffect
  <2> QED
    BY <2>1, <2>2 DEF RepliesInv
<1>11. CASE Die
  <2>1. /\ ballots' = ballots
        /\ \A s \in Requests : reply'[s] = reply[s] \/ reply'[s] = "lost"
        /\ \A s \in Requests : status[s] \in Over => status'[s] \in Over
    BY <1>11, DieEffect
  <2> QED
    BY <2>1 DEF RepliesInv
<1>12. CASE UNCHANGED vars
  BY <1>1, <1>12 DEF vars
<1> QED
  BY <1>1, <1>2, <1>3, <1>4, <1>5, <1>6, <1>7, <1>8, <1>9, <1>10, <1>11, <1>12
     DEF Next, WorkerStep, Crash, TallyFault

LEMMA ClockStep ==
    ASSUME TypeOK, BallotsInv, ClockInv, [Next]_vars
    PROVE  ClockInv'
<1> USE DEF TypeOK, tables, host, clientVars, workerVars, clockVars
<1>1. ASSUME NEW t, Counted(t), ballots \subseteq ballots' PROVE Counted(t)'
  BY <1>1 DEF Counted
<1>2. CASE UNCHANGED <<clockVars, tallies>> /\ ballots \subseteq ballots'
  BY <1>1, <1>2 DEF ClockInv
<1>3. ASSUME NEW e \in Elections, AddElection(e) PROVE ClockInv'
  BY <1>2, <1>3 DEF AddElection
<1>4. CASE PassTime \/ LoopFails \/ Restart
  BY <1>2, <1>4 DEF PassTime, LoopFails, Restart
<1>5. ASSUME NEW r \in Requests, NEW c \in Commands, Send(r, c) PROVE ClockInv'
  BY <1>2, <1>5 DEF Send
<1>6. ASSUME NEW r \in Requests, GiveUp(r) \/ Accept(r) \/ Drop(r) PROVE ClockInv'
  BY <1>2, <1>6 DEF GiveUp, InFlight, Accept, Drop
<1>7. ASSUME NEW w \in Workers, NEW r \in Requests, NEW a, Validate(w, r) \/ Answer(w, r, a)
      PROVE  ClockInv'
  BY <1>2, <1>7 DEF Validate, Answer
<1>8. ASSUME NEW w \in Workers, Insert(w) \/ Commit(w) PROVE ClockInv'
  BY <1>2, <1>8 DEF Insert, Commit
<1>9. ASSUME NEW w \in Workers, NEW a, Respond(w, a) PROVE ClockInv'
  BY <1>2, <1>9 DEF Respond
<1>10. CASE Wake
  <2>1. UNCHANGED <<todo, drafts, tallies, ballots>> /\ todo = {} /\ drafts = {}
    BY <1>10 DEF Wake, ClockInv
  <2> QED
    BY <1>1, <2>1 DEF ClockInv
<1>11. CASE BeginTick
  <2>1. /\ todo' = elections \ TalliedIn(tallies) /\ clockPc' = "tallying" /\ drafts = {}
        /\ UNCHANGED <<drafts, tallies, ballots>>
    BY <1>11 DEF BeginTick, ClockInv
  <2> QED
    BY <1>1, <2>1 DEF ClockInv, TalliedIn
<1>12. ASSUME NEW e \in Elections, GenerateTally(e) PROVE ClockInv'
  <2>1. PICK results \in TallyResults(e, CountedFor(e)) :
           drafts' = drafts \cup {[election |-> e, counted |-> CountedFor(e),
                                   results |-> results]}
    BY <1>12 DEF GenerateTally
  <2> DEFINE t == [election |-> e, counted |-> CountedFor(e), results |-> results]
  <2>2. e \in todo /\ todo' = todo \ {e} /\ UNCHANGED <<clockPc, tallies, ballots>>
    BY <1>12 DEF GenerateTally
  <2>3. CountedFor(e) \subseteq ballots /\ IsFiniteSet(CountedFor(e))
    BY FS_Subset DEF CountedFor, BallotsInv
  <2>4. \A c \in Candidates : results[c] \in {Exact(e, CountedFor(e))[c], Garbage}
    BY <2>3, ResultsType
  <2>5. t.election = e /\ t.counted = CountedFor(e) /\ t.results = results
    OBVIOUS
  <2>6. Counted(t)
    BY <2>3, <2>4, <2>5 DEF Counted, CountedFor
  <2>7. drafts' = drafts \cup {t}
    BY <2>1
  <2>8. clockPc' \notin {"sleeping", "awake"}
    BY <2>2 DEF ClockInv
  <2>9. \A u \in drafts \cup tallies : u.election # e
    BY <2>2 DEF ClockInv
  <2>10. \A u \in drafts' \cup tallies' : Counted(u)'
    BY <1>1, <2>2, <2>6, <2>7 DEF ClockInv, Counted
  <2> HIDE DEF t
  <2> QED
    BY <2>2, <2>5, <2>7, <2>8, <2>9, <2>10 DEF ClockInv
<1>13. CASE CommitTick
  <2>1. /\ todo' = {} /\ drafts' = {} /\ tallies' = tallies \cup drafts /\ ballots' = ballots
    BY <1>13 DEF CommitTick
  <2> QED
    BY <1>1, <2>1 DEF ClockInv
<1>14. CASE Die
  BY <1>1, <1>14, DieEffect DEF ClockInv
<1>15. CASE UNCHANGED vars
  BY <1>2, <1>15 DEF vars
<1> QED
  BY <1>3, <1>4, <1>5, <1>6, <1>7, <1>8, <1>9, <1>10, <1>11, <1>12, <1>13, <1>14,
     <1>15
     DEF Next, WorkerStep, Crash, TallyFault

-----------------------------------------------------------------------------
(* The theorems. *)

LEMMA InitIInv == Init => IInv
<1> SUFFICES ASSUME Init PROVE IInv
  OBVIOUS
<1> USE DEF Init
<1>1. TypeOK
  BY DEF TypeOK, Statuses
<1>2. IsFiniteSet(ballots)
  BY FS_EmptySet
<1> QED
  BY <1>1, <1>2 DEF IInv, CommandsInv, WorkersInv, IdsInv, BallotsInv, RepliesInv,
     ClockInv, Busy

LEMMA StepIInv == IInv /\ [Next]_vars => IInv'
BY TypeStep, CommandsStep, WorkersStep, IdsStep, BallotsStep, RepliesStep, ClockStep
   DEF IInv

\* The strengthening holds in every reachable state.
THEOREM Inductive == Spec => []IInv
BY InitIInv, StepIInv, PTL DEF Spec

\* Every variable keeps its type, for any number of workers and requests.
THEOREM TypeCorrect == Spec => []TypeOK
<1>1. IInv => TypeOK
  BY DEF IInv
<1> QED
  BY <1>1, Inductive, PTL
\* Every stored ballot passed the rules at the time it carries and says what
\* its command said (castBallot): the row a worker commits is still the one
\* it checked, whatever else happened in between.
THEOREM Eligibility == Spec => []EligibleBallots
<1>1. IInv => EligibleBallots
  <2> SUFFICES ASSUME IInv, NEW b \in ballots
               PROVE  /\ Eligible(b) /\ b.castAt <= now /\ b.election \in elections
                      /\ b.voter = cmd[b.request].voter
                      /\ b.entries = cmd[b.request].entries
    BY DEF EligibleBallots
  <2>1. b \in Row /\ Vouched(b)
    BY DEF IInv, TypeOK, BallotsInv
  <2> QED
    BY <2>1, VouchedEligible DEF Vouched, Accepts, OpenTo
<1> QED
  BY <1>1, Inductive, PTL

\* What a client is told agrees with the table of ballots for ever.
THEOREM Acknowledgement == Spec => []RepliesMatchBallots
<1>1. IInv => RepliesMatchBallots
  BY DEF IInv, RepliesInv, RepliesMatchBallots
<1> QED
  BY <1>1, Inductive, PTL

\* No command is stored twice and no two ballots share an id.
THEOREM ExactlyOnce == Spec => []OneBallotPerRequest
<1>1. IInv => OneBallotPerRequest
  BY DEF IInv, BallotsInv, IdsInv, OneBallotPerRequest
<1> QED
  BY <1>1, Inductive, PTL

\* The clock publishes one tally per election.
THEOREM SingleTally == Spec => []OneTallyPerElection
<1>1. IInv => OneTallyPerElection
  BY DEF IInv, ClockInv, OneTallyPerElection
<1> QED
  BY <1>1, Inductive, PTL

\* Published tallies are counts of stored ballots of their own election.
THEOREM TallySoundness == Spec => []TalliesCountStoredBallots
<1>1. IInv => TalliesCountStoredBallots
  BY DEF IInv, ClockInv, Counted, TalliesCountStoredBallots
<1> QED
  BY <1>1, Inductive, PTL

\* No step, a death of the process included, takes back a ballot, a tally
\* or an answer.
LEMMA RecordsStep ==
    ASSUME TypeOK, [Next]_vars
    PROVE  /\ ballots \subseteq ballots' /\ tallies \subseteq tallies'
           /\ \A r \in Requests : reply[r] # "none" => reply'[r] = reply[r]
<1> DEFINE Grow == /\ ballots \subseteq ballots' /\ tallies \subseteq tallies'
                   /\ \A r \in Requests : reply[r] # "none" => reply'[r] = reply[r]
<1> USE DEF tables, host, clientVars, workerVars, clockVars
<1>1. ASSUME NEW e \in Elections, AddElection(e) \/ GenerateTally(e) PROVE Grow
  BY <1>1 DEF AddElection, GenerateTally
<1>2. CASE PassTime \/ LoopFails \/ Wake \/ BeginTick \/ CommitTick \/ Restart
  BY <1>2 DEF PassTime, LoopFails, Wake, BeginTick, CommitTick, Restart
<1>3. ASSUME NEW r \in Requests, NEW c \in Commands, Send(r, c) PROVE Grow
  BY <1>3 DEF Send
<1>4. ASSUME NEW r \in Requests, GiveUp(r) \/ Accept(r) \/ Drop(r) PROVE Grow
  BY <1>4 DEF GiveUp, InFlight, Accept, Drop, Tell, TypeOK
<1>5. ASSUME NEW w \in Workers, NEW r \in Requests, NEW a,
             Validate(w, r) \/ Answer(w, r, a)
      PROVE  Grow
  BY <1>5 DEF Validate, Answer, Settle, Tell, TypeOK
<1>6. ASSUME NEW w \in Workers, Insert(w) \/ Commit(w) PROVE Grow
  BY <1>6 DEF Insert, Commit
<1>7. ASSUME NEW w \in Workers, NEW a, Respond(w, a) PROVE Grow
  BY <1>7 DEF Respond, Settle, Tell, TypeOK
<1>8. CASE Die
  BY <1>8, DieEffect DEF TypeOK
<1>9. CASE UNCHANGED vars
  BY <1>9 DEF vars
<1> QED
  BY <1>1, <1>2, <1>3, <1>4, <1>5, <1>6, <1>7, <1>8, <1>9
     DEF Next, WorkerStep, Crash, TallyFault

-----------------------------------------------------------------------------
(* The server implements BallotBox. *)

Acked == {r \in Requests : reply[r] = "accepted"}

LEMMA BoxInit == Init => Box!Init
BY DEF Init, Box!Init

\* Every step of the server is a step of the box or leaves it alone: a commit
\* is a Cast, a delivered acknowledgement an Ack, the statement of
\* generateTally a Count, the commit of a tick a Publish and a death of the
\* process a Discard.
LEMMA BoxStep ==
    ASSUME IInv, IInv', [Next]_vars
    PROVE  [Box!Next]_Box!vars
<1> USE DEF tables, host, clientVars, workerVars, clockVars
<1> DEFINE Goal == [Box!Next]_Box!vars
<1>0. TypeOK /\ ClockInv /\ BallotsInv /\ WorkersInv /\ IdsInv
  BY DEF IInv
<1>1. CASE UNCHANGED <<ballots, drafts, tallies, Acked>>
  BY <1>1 DEF Box!vars, Acked
<1>2. CASE UNCHANGED <<ballots, drafts, tallies, reply>>
  BY <1>1, <1>2 DEF Acked
<1>3. ASSUME NEW e \in Elections, AddElection(e) PROVE Goal
  BY <1>2, <1>3 DEF AddElection
<1>4. CASE PassTime \/ LoopFails \/ Wake \/ BeginTick \/ Restart
  BY <1>2, <1>4 DEF PassTime, LoopFails, Wake, BeginTick, Restart
<1>5. ASSUME NEW r \in Requests, NEW c \in Commands, Send(r, c) PROVE Goal
  BY <1>2, <1>5 DEF Send
<1>6. ASSUME NEW r \in Requests, GiveUp(r) \/ Accept(r) \/ Drop(r) PROVE Goal
  BY <1>0, <1>1, <1>6 DEF GiveUp, InFlight, Accept, Drop, Tell, TypeOK, Acked
<1>7. ASSUME NEW w \in Workers, NEW r \in Requests,
             NEW a \in {"answered", "refused", "lost", "unmade"}, Validate(w, r) \/ Answer(w, r, a)
      PROVE  Goal
  BY <1>0, <1>1, <1>7 DEF Validate, Answer, Settle, Tell, TypeOK, Acked
<1>8. ASSUME NEW w \in Workers, Insert(w) PROVE Goal
  BY <1>2, <1>8 DEF Insert
<1>9. ASSUME NEW w \in Workers, Commit(w) PROVE Goal
  <2>1. /\ pc[w] = "inserted" /\ ballots' = ballots \cup {row[w]}
        /\ UNCHANGED <<drafts, tallies, reply>>
    BY <1>9 DEF Commit
  <2>2. row[w] \in Row /\ Vouched(row[w]) /\ row[w].request = job[w]
    BY <1>0, <2>1 DEF WorkersInv, Busy
  <2>3. PICK b \in Row : b = row[w]
    BY <2>2
  <2>4. Eligible(b)
    BY <2>2, <2>3, VouchedEligible DEF Vouched
  <2>5. \A other \in ballots : other.id # b.id /\ other.request # b.request
    BY <1>0, <2>1, <2>2, <2>3, NotYetStored DEF IdsInv, Busy
  <2>6. Acked' = Acked
    BY <2>1 DEF Acked
  <2>7. Box!Cast
    BY <2>1, <2>3, <2>4, <2>5, <2>6 DEF Box!Cast, Acked
  <2> QED
    BY <2>7 DEF Box!Next
<1>10. ASSUME NEW w \in Workers, NEW a \in {"accepted", "lost", "unmade"}, Respond(w, a) PROVE Goal
  <2>1. job[w] \in Requests /\ row[w] \in ballots /\ row[w].request = job[w]
    BY <1>0, <1>10 DEF Respond, WorkersInv, BallotsInv, Busy
  <2>2. UNCHANGED <<ballots, drafts, tallies>>
    BY <1>10 DEF Respond
  <2>3. Acked' = Acked \/ Acked' = Acked \cup {job[w]}
    BY <1>0, <1>10, <2>1 DEF Respond, Settle, Tell, TypeOK, Acked
  <2>4. CASE Acked' = Acked \cup {job[w]}
    <3>1. PICK r \in Requests : r = job[w]
      BY <2>1
    <3>2. Box!Ack(r)
      BY <2>1, <2>2, <2>4, <3>1 DEF Box!Ack, Acked
    <3> QED
      BY <3>2 DEF Box!Next
  <2> QED
    BY <1>1, <2>2, <2>3, <2>4
<1>11. ASSUME NEW e \in Elections, GenerateTally(e) PROVE Goal
  <2>1. PICK results \in TallyResults(e, CountedFor(e)) :
           drafts' = drafts \cup {[election |-> e, counted |-> CountedFor(e),
                                   results |-> results]}
    BY <1>11 DEF GenerateTally
  <2>2. e \in todo /\ UNCHANGED <<ballots, tallies, reply>>
    BY <1>11 DEF GenerateTally
  <2>3. \A t \in drafts \cup tallies : t.election # e
    BY <1>0, <2>2 DEF ClockInv
  <2>4. Box!RowsOf(e) = CountedFor(e)
    BY DEF Box!RowsOf, CountedFor
  <2>5. Box!Count(e)
    BY <2>1, <2>2, <2>3, <2>4 DEF Box!Count, Acked
  <2> QED
    BY <2>5 DEF Box!Next
<1>12. CASE CommitTick
  <2>1. Box!Publish
    BY <1>12 DEF CommitTick, Box!Publish
  <2> QED
    BY <2>1 DEF Box!Next
<1>13. CASE Die
  <2>1. drafts' = {} /\ UNCHANGED <<ballots, tallies>>
    BY <1>13, DieEffect
  <2>2. Acked' = Acked
    BY <1>0, <1>13, DieEffect DEF TypeOK, Acked
  <2>3. Box!Discard
    BY <2>1, <2>2 DEF Box!Discard, Acked
  <2> QED
    BY <2>3 DEF Box!Next
<1>14. CASE UNCHANGED vars
  BY <1>2, <1>14 DEF vars
<1> QED
  BY <1>3, <1>4, <1>5, <1>6, <1>7, <1>8, <1>9, <1>10, <1>11, <1>12, <1>13, <1>14
     DEF Next, WorkerStep, Crash, TallyFault

\* The server keeps the promise of BallotBox.
THEOREM Implementation == Spec => BoxSpec
<1>1. IInv /\ IInv' /\ [Next]_vars => [Box!Next]_Box!vars
  BY BoxStep
<1> QED
  BY <1>1, BoxInit, Inductive, PTL DEF Spec, BoxSpec, Box!Spec
=============================================================================
