----------------------------- MODULE BallotServer -----------------------------
(***************************************************************************)
(* The vote server from the arrival of a command to the answer: worker     *)
(* threads run processCommand and castBallot against PostgreSQL, the clock *)
(* thread runs generateTallies against the same tables, clients give up    *)
(* waiting, and the process may die at any point and be started again.     *)
(*                                                                         *)
(* Each pqxx::work is a READ COMMITTED transaction: what a worker or the   *)
(* clock has inserted is in row[w] or drafts until it commits, a statement *)
(* reads what is committed when it runs, and a death of the process loses  *)
(* the first and keeps the second.  A value drawn from a SERIAL column is  *)
(* never given back.                                                       *)
(*                                                                         *)
(* Which socket a command travels on, and the queue of sockets, are in     *)
(* ThreadPool; here a sent command waits for accept(), or is one that some *)
(* worker may take.  Stopping the server by ENTER is ThreadPool's and      *)
(* ServerLife's subject; here that end of the process is one of its deaths.*)
(***************************************************************************)
EXTENDS ElectionRules

CONSTANTS
    Workers,    \* threads of the pool
    MaxTime,    \* bound: the clock of the host stops there
    MaxCrashes  \* bound: deaths of the process, those of TallyFault apart

ASSUME ServerAssumption ==
    /\ None \notin Requests /\ None \notin Commands /\ None \notin Row
    /\ IsFiniteSet(Requests)
    /\ MaxTime \in Nat /\ MaxCrashes \in Nat

VARIABLES
    \* committed tables
    elections,  \* ids in ELECTIONS
    ballots,    \* CAST_ENCRYPTED_BALLOTS and their entries
    nextId,     \* sequence of CAST_ENCRYPTED_BALLOTS.ID
    tallies,    \* TALLIES and TALLY_ENTRIES
    \* the host
    up,         \* the server process runs
    failed,     \* Server::_failed
    crashes,
    now,        \* getCurrentTime()
    \* clients
    cmd,        \* cmd[r]: the content of request r, once sent
    status,     \* status[r]: where the server is with r, see TypeOK
    reply,      \* reply[r]: what the sender of r knows
    \* workers
    pc,
    job,        \* job[w]: the request w executes
    row,        \* row[w]: the ballot row w is building or has inserted
    \* clock thread
    clockPc,
    todo,       \* elections generateTallies still has to go through
    drafts      \* tallies inserted in its open transaction

tables     == <<elections, ballots, nextId, tallies>>
host       == <<up, failed, crashes, now>>
clientVars == <<cmd, status, reply>>
workerVars == <<pc, job, row>>
clockVars  == <<clockPc, todo, drafts>>
vars == <<tables, host, clientVars, workerVars, clockVars>>

\* A command on a connection that is not accepted yet ("backlog") or is, with
\* a worker, or "done": its answer was sent, or its socket closed.  One that
\* has no response is "forgotten": nobody will ever close or read its socket.
Statuses == {"unsent", "backlog", "queued", "running", "forgotten", "done"}

TypeOK ==
    /\ elections \subseteq Elections
    /\ ballots \subseteq Row
    /\ nextId \in Nat
    /\ tallies \subseteq Tally
    /\ up \in BOOLEAN /\ failed \in BOOLEAN /\ crashes \in Nat /\ now \in Nat
    /\ cmd \in [Requests -> Commands \cup {None}]
    /\ status \in [Requests -> Statuses]
    /\ reply \in [Requests -> {"none", "accepted", "refused", "answered", "lost"}]
    /\ pc \in [Workers -> {"idle", "validated", "inserted", "committed"}]
    /\ job \in [Workers -> Requests \cup {None}]
    /\ row \in [Workers -> Row \cup {None}]
    /\ clockPc \in {"sleeping", "awake", "tallying"}
    /\ todo \subseteq Elections
    /\ drafts \subseteq Tally

Init ==
    /\ elections = {} /\ ballots = {} /\ nextId = 1 /\ tallies = {}
    /\ up = TRUE /\ failed = FALSE /\ crashes = 0 /\ now = 0
    /\ cmd = [r \in Requests |-> None]
    /\ status = [r \in Requests |-> "unsent"]
    /\ reply = [r \in Requests |-> "none"]
    /\ pc = [w \in Workers |-> "idle"]
    /\ job = [w \in Workers |-> None]
    /\ row = [w \in Workers |-> None]
    /\ clockPc = "sleeping" /\ todo = {} /\ drafts = {}

-----------------------------------------------------------------------------
(* The world around the server. *)

\* An administrator inserts an election, its candidates and its voter groups.
AddElection(e) ==
    /\ e \notin elections
    /\ elections' = elections \cup {e}
    /\ UNCHANGED <<ballots, nextId, tallies, host, clientVars, workerVars, clockVars>>

PassTime ==
    /\ now < MaxTime
    /\ now' = now + 1
    /\ UNCHANGED <<tables, up, failed, crashes, clientVars, workerVars, clockVars>>

\* A client sends a command, over a new connection or over one that has been
\* accepted; to send a command again is to send another request with the same
\* content.  The kernel completes connections as long as the process is there.
Send(r, c) ==
    /\ up
    /\ status[r] = "unsent"
    /\ cmd' = [cmd EXCEPT ![r] = c]
    /\ \E to \in {"backlog", "queued"} : status' = [status EXCEPT ![r] = to]
    /\ UNCHANGED <<tables, host, reply, workerVars, clockVars>>

\* What the sender learns, if it is still there to learn anything.
Tell(r, answer) ==
    reply' = [reply EXCEPT ![r] = IF @ = "none" THEN answer ELSE @]

InFlight(r) == status[r] \in {"backlog", "queued", "running", "forgotten"}

\* The client is stopped, or finds when a recv or send has returned that its
\* time is up.  The command is still on its way.
GiveUp(r) ==
    /\ InFlight(r)
    /\ reply[r] = "none"
    /\ Tell(r, "lost")
    /\ UNCHANGED <<tables, host, cmd, status, workerVars, clockVars>>

-----------------------------------------------------------------------------
(* The connections loop. *)

\* accept() and ThreadPool::newConnection.
Accept(r) ==
    /\ up /\ ~failed
    /\ status[r] = "backlog"
    /\ status' = [status EXCEPT ![r] = "queued"]
    /\ UNCHANGED <<tables, host, cmd, reply, workerVars, clockVars>>

\* bind(), select() or accept() reports an error: the loop ends, the process
\* goes on, and the socket that listens stays open.
LoopFails ==
    /\ up /\ ~failed
    /\ failed' = TRUE
    /\ UNCHANGED <<tables, up, crashes, now, clientVars, workerVars, clockVars>>

-----------------------------------------------------------------------------
(* Worker threads. *)

\* threadLoop could not read the command in time, or whole: socket closed.
Drop(r) ==
    /\ up
    /\ \E w \in Workers : pc[w] = "idle"
    /\ status[r] = "queued"
    /\ status' = [status EXCEPT ![r] = "done"]
    /\ Tell(r, "lost")
    /\ UNCHANGED <<tables, host, cmd, workerVars, clockVars>>

\* What comes of an answer: none could be encoded or signed ("unmade"), and the
\* socket is left open; or it is sent; or sending fails, and the socket is closed.
Settle(r, answer) ==
    \/ /\ answer = "unmade"
       /\ status' = [status EXCEPT ![r] = "forgotten"]
       /\ UNCHANGED reply
    \/ /\ answer # "unmade"
       /\ status' = [status EXCEPT ![r] = "done"]
       /\ Tell(r, answer)

Take(w, r) == up /\ pc[w] = "idle" /\ status[r] = "queued"

\* processCommand returns without castBallot having written anything: an
\* error response, or the pages a GET command asked for.
Answer(w, r, answer) ==
    /\ Take(w, r)
    /\ ~Accepts(cmd[r], elections, now)
    /\ answer \in {"unmade", "lost", IF Answers(cmd[r]) THEN "answered" ELSE "refused"}
    /\ Settle(r, answer)
    /\ UNCHANGED <<tables, host, cmd, workerVars, clockVars>>

\* processCommand and castBallot up to the last check.  curr_time, which the
\* election was checked against, is what the row will say.
Validate(w, r) ==
    /\ Take(w, r)
    /\ Accepts(cmd[r], elections, now)
    /\ status' = [status EXCEPT ![r] = "running"]
    /\ pc' = [pc EXCEPT ![w] = "validated"]
    /\ job' = [job EXCEPT ![w] = r]
    /\ row' = [row EXCEPT ![w] =
          [id |-> 0, request |-> r, voter |-> cmd[r].voter,
           election |-> cmd[r].election, castAt |-> now,
           entries |-> cmd[r].entries]]
    /\ UNCHANGED <<tables, host, cmd, reply, clockVars>>

\* Mutant: the id is computed from the table and not drawn from a sequence.
InsertNextFree(w) ==
    /\ pc[w] = "validated"
    /\ pc' = [pc EXCEPT ![w] = "inserted"]
    /\ row' = [row EXCEPT ![w].id = Cardinality(ballots) + 1]
    /\ UNCHANGED <<tables, host, clientVars, job, clockVars>>

\* INSERT ... RETURNING id, and the inserts of the entries.
Insert(w) ==
    /\ pc[w] = "validated"
    /\ pc' = [pc EXCEPT ![w] = "inserted"]
    /\ row' = [row EXCEPT ![w].id = nextId]
    /\ nextId' = nextId + 1
    /\ UNCHANGED <<elections, ballots, tallies, host, clientVars, job, clockVars>>

\* Mutant: no txn.commit(), the destructor of the transaction rolls it back.
CommitForgotten(w) ==
    /\ pc[w] = "inserted"
    /\ pc' = [pc EXCEPT ![w] = "committed"]
    /\ UNCHANGED <<tables, host, clientVars, job, row, clockVars>>

\* txn.commit()
Commit(w) ==
    /\ pc[w] = "inserted"
    /\ pc' = [pc EXCEPT ![w] = "committed"]
    /\ ballots' = ballots \cup {row[w]}
    /\ UNCHANGED <<elections, nextId, tallies, host, clientVars, job, row, clockVars>>

\* Mutant: a failed send does not close the socket.
RespondUnclosed(w, answer) ==
    /\ pc[w] = "committed"
    /\ answer \in {"accepted", "lost", "unmade"}
    /\ pc' = [pc EXCEPT ![w] = "idle"]
    /\ job' = [job EXCEPT ![w] = None]
    /\ row' = [row EXCEPT ![w] = None]
    /\ IF answer = "lost" THEN UNCHANGED <<status, reply>> ELSE Settle(job[w], answer)
    /\ UNCHANGED <<tables, host, cmd, clockVars>>

\* The response is encoded, signed and sent.  Each of these can fail after
\* the commit, and then the client is told nothing.
Respond(w, answer) ==
    /\ pc[w] = "committed"
    /\ answer \in {"accepted", "lost", "unmade"}
    /\ pc' = [pc EXCEPT ![w] = "idle"]
    /\ job' = [job EXCEPT ![w] = None]
    /\ row' = [row EXCEPT ![w] = None]
    /\ Settle(job[w], answer)
    /\ UNCHANGED <<tables, host, cmd, clockVars>>

-----------------------------------------------------------------------------
(* The clock thread. *)

\* while(_running && !_failed), after the sleep.
Wake ==
    /\ up /\ ~failed
    /\ clockPc = "sleeping"
    /\ clockPc' = "awake"
    /\ UNCHANGED <<tables, host, clientVars, workerVars, todo, drafts>>

\* Mutant: the IS NULL filter of the outer join is missing.
BeginTickAll ==
    /\ clockPc = "awake"
    /\ clockPc' = "tallying"
    /\ todo' = elections
    /\ UNCHANGED <<tables, host, clientVars, workerVars, drafts>>

\* generateTallies: elections with no row in TALLIES.
BeginTick ==
    /\ clockPc = "awake"
    /\ clockPc' = "tallying"
    /\ todo' = elections \ TalliedIn(tallies)
    /\ UNCHANGED <<tables, host, clientVars, workerVars, drafts>>

\* Mutant: the query also sees rows that are not committed.
CountedDirty(e) ==
    {b \in ballots \cup {row[w] : w \in {x \in Workers : pc[x] = "inserted"}} :
        b.election = e}

\* Mutant: ballots of the current second are left for a later tally.
CountedBeforeNow(e) == {b \in ballots : b.election = e /\ b.castAt < now}

\* The rows generateTally's query returns: committed by now, of candidates
\* of e, which are the ballots of e.
CountedFor(e) == {b \in ballots : b.election = e}

GenerateTally(e) ==
    /\ e \in todo
    /\ todo' = todo \ {e}
    /\ \E results \in TallyResults(e, CountedFor(e)) :
          drafts' = drafts \cup {[election |-> e, counted |-> CountedFor(e),
                                  results |-> results]}
    /\ UNCHANGED <<tables, host, clientVars, workerVars, clockPc>>

\* Mutant: generateTallies does not commit.
CommitTickForgotten ==
    /\ clockPc = "tallying"
    /\ todo = {}
    /\ drafts' = {}
    /\ clockPc' = "sleeping"
    /\ UNCHANGED <<tables, host, clientVars, workerVars, todo>>

\* txn.commit() of generateTallies; the clock then sleeps.
CommitTick ==
    /\ clockPc = "tallying"
    /\ todo = {}
    /\ tallies' = tallies \cup drafts
    /\ drafts' = {}
    /\ clockPc' = "sleeping"
    /\ UNCHANGED <<elections, ballots, nextId, host, clientVars, workerVars, todo>>

-----------------------------------------------------------------------------
(* The process dies: open transactions are rolled back, sockets closed. *)

Die ==
    /\ up' = FALSE /\ failed' = FALSE
    /\ status' = [r \in Requests |-> IF InFlight(r) THEN "done" ELSE status[r]]
    /\ reply' = [r \in Requests |-> IF InFlight(r) /\ reply[r] = "none"
                                    THEN "lost" ELSE reply[r]]
    /\ pc' = [w \in Workers |-> "idle"]
    /\ job' = [w \in Workers |-> None]
    /\ row' = [w \in Workers |-> None]
    /\ clockPc' = "sleeping" /\ todo' = {} /\ drafts' = {}
    /\ UNCHANGED <<tables, now, cmd>>

\* Killed from outside, or by an exception nobody catches (a lost database
\* connection, std::bad_alloc, a failed thread start).
Crash ==
    /\ up
    /\ crashes < MaxCrashes
    /\ crashes' = crashes + 1
    /\ Die

\* The out-of-range write of generateTally, or the INSERT of a DECRYPTED_VALUE
\* that does not fit INT, which throws on the clock thread.
TallyFault(e) ==
    /\ e \in todo
    /\ IndexOverruns(e, CountedFor(e))
    /\ UNCHANGED crashes
    /\ Die

Restart ==
    /\ ~up
    /\ up' = TRUE
    /\ UNCHANGED <<tables, failed, crashes, now, clientVars, workerVars, clockVars>>

-----------------------------------------------------------------------------

WorkerStep(w) ==
    \/ \E r \in Requests : \/ Validate(w, r)
                           \/ \E a \in {"answered", "refused", "lost", "unmade"} :
                                 Answer(w, r, a)
    \/ Insert(w)
    \/ Commit(w)
    \/ \E a \in {"accepted", "lost", "unmade"} : Respond(w, a)

Next ==
    \/ \E e \in Elections : AddElection(e)
    \/ PassTime
    \/ \E r \in Requests, c \in Commands : Send(r, c)
    \/ \E r \in Requests : GiveUp(r) \/ Accept(r) \/ Drop(r)
    \/ LoopFails
    \/ \E w \in Workers : WorkerStep(w)
    \/ Wake \/ BeginTick
    \/ \E e \in Elections : GenerateTally(e) \/ TallyFault(e)
    \/ CommitTick
    \/ Crash
    \/ Restart

Spec == Init /\ [][Next]_vars

\* No thread is starved.  The pool polls its queue for ever; the connections
\* loop accepts and the clock loop wakes until _failed stops both.  That a
\* worker is not kept in a read by a client that sends nothing is an assumption
\* of these liveness properties; ThreadPool says what becomes of the pool
\* without it.
ThreadFairness ==
    /\ \A w \in Workers : WF_vars(WorkerStep(w))
    /\ \A r \in Requests : WF_vars(Accept(r))
    /\ WF_vars(Wake) /\ WF_vars(BeginTick)
    /\ \A e \in Elections : WF_vars(GenerateTally(e))
    /\ WF_vars(CommitTick)

FairSpec == Spec /\ ThreadFairness
-----------------------------------------------------------------------------
(* Safety. *)

\* The promise of the server, over the tables and over what clients know.
Box == INSTANCE BallotBox WITH
    Outcomes <- TallyResults,
    box <- ballots, counts <- drafts, published <- tallies,
    acked <- {r \in Requests : reply[r] = "accepted"}

\* Every stored ballot is one the rules allow, judged by the time the row
\* itself says, and says what the command of its voter said: nothing that
\* happens between castBallot's reading of the clock and its commit can
\* store a row that the checks were not made for.
EligibleBallots == \A b \in ballots :
    /\ Eligible(b)
    /\ b.castAt <= now
    /\ b.election \in elections
    /\ b.voter = cmd[b.request].voter
    /\ b.entries = cmd[b.request].entries

\* Whoever was told "cast" has a ballot in the table, through any crash;
\* whoever was told "refused" or got a page has none (castBallot answers
\* after its commit, and every refusal returns before its first INSERT).
RepliesMatchBallots == \A r \in Requests :
    /\ reply[r] = "accepted" => \E b \in ballots : b.request = r
    /\ reply[r] \in {"refused", "answered"} => \A b \in ballots : b.request # r

\* A command is executed once: it never leaves two ballots, and no two
\* ballots share an id, although ids are drawn before the commit by several
\* workers and some are lost with their transaction.
OneBallotPerRequest == \A b1, b2 \in ballots :
    b1.request = b2.request \/ b1.id = b2.id => b1 = b2

\* generateTallies never tallies an election again, although the elections
\* to do and the tallies done are read and written by separate statements
\* and the process may die between them.
OneTallyPerElection == \A t1, t2 \in tallies :
    t1.election = t2.election => t1 = t2

\* A published tally was counted from ballots that are stored, all of them
\* its election's, and every entry in it that is a count at all is the number
\* of votes in those ballots, modulo what survives decryption.
TalliesCountStoredBallots == \A t \in tallies :
    /\ t.counted \subseteq ballots
    /\ \A b \in t.counted : b.election = t.election
    /\ \A c \in Candidates :
          t.results[c] \in {Exact(t.election, t.counted)[c], Garbage}

\* The server implements its promise: in particular a tally is the count of
\* everything stored for its election at one instant.
BoxSpec == Box!Spec

(* Liveness. *)

\* Every command sent is answered or its sender sees its connection closed,
\* whatever dies meanwhile.  Two kinds of connection stay silent as long as
\* the process is there: one whose response could not be made, and one that
\* comes when the connections loop has ended.
EveryCommandResolved == \A r \in Requests :
    status[r] \in {"backlog", "queued"} ~>
        \/ status[r] = "done" /\ reply[r] # "none"
        \/ status[r] = "forgotten"
        \/ status[r] = "backlog" /\ failed

\* If from some time on the process stays up and its connections loop has not
\* failed, which would end the clock loop too, every election gets a tally.
EveryElectionTallied ==
    <>[](up /\ ~failed) => \A e \in Elections : e \in elections ~> e \in TalliedIn(tallies)

-----------------------------------------------------------------------------
(* What a comment says and the code does not do. *)

\* "Get completed elections with no tallies" (Clock.cpp): a tally is made of
\* an election that has reached its end time.
OnlyCompletedElectionsTallied == \A t \in tallies : EndTime[t.election] <= now
=============================================================================
