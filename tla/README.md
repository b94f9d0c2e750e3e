# Voting system: TLA+ models, checks and proofs

A verification development for the voting system in `src/`: TLA+ modules of the
vote server and of what surrounds it, TLC runs on small instances, and theorems
for every instance that TLAPS checks. `PROJECT.json` lists components, runs,
mutants, findings, hazards and theorems, and maps each definition to its lines.

## 1. Inventory

### Components

**Command handling** (`vote_server/src/server/CommandProcessor.cpp`). Keeps no
state of its own. `processCommand` decodes a command, looks its public key up in
`VOTERS` (exactly one row), verifies the signature and dispatches on the type.
`castBallot` opens a transaction, reads the clock, checks the election, the
group and the entries, inserts the ballot and its entries, commits, and builds
the response. `getElections`, `getVoters` and `getEncryptedBallots` read pages.
*Correct if* only eligible ballots are stored, an answer tells the truth about
the table, and nothing that was answered is lost.

**Clock** (`Clock.cpp`, `TallyGenerator.h`). Every 10 s, in one transaction,
every election without a tally gets one: the ciphertexts of its ballots are
multiplied, the product decrypted, the result inserted. *Correct if* every
election is tallied once, after its end, and the tally is the count of its ballots.

**Thread pool and sockets** (`ThreadPool.cpp`, `shared_c/sockets/Sockets.c`).
A queue of descriptors under a mutex, `_running`, and a number of workers with
one database connection each. *Correct if* a socket has one owner, every command
gets one whole response, every queued socket gets its turn and `stop()` returns.

**Server and main** (`Server.cpp`, `main.cpp`). Connections loop, clock loop,
flags `_running` and `_failed`, `start` and `stop`. *Correct if* stopping ends
every thread once, whatever failed before.

**Database** (`shared_cpp/database/Database.cpp`, `migrations/*.sql`). Tables
in PostgreSQL; `migrate` applies files under a table lock in one transaction.
*Correct if* every migration is applied once, in order.

**Debug client** (`debug_client/`). Makes keys, fetches elections, casts a
ballot, recomputes tallies from published ciphertexts. *Correct if* it accepts
exactly the tallies that are right.

**Cryptography** (`shared_c/crypto/`). Paillier encryption, decryption, sums
and recovery of the random factor; RSA through wolfSSL. *Correct if* the sum of
ciphertexts decrypts to the sum of votes.

**Wire encoding** (`shared_cpp/Encoding.cpp`, `protos/`). Callbacks for nanopb
that move repeated fields between a message and C++ vectors. Message structures
hold addresses of vector elements, in vectors that grow while a message is
decoded. *Correct if* what is decoded is what was encoded, under the same indices.

**Configuration, logging** (`Config.h`, `Logger.cpp`), **embedded terminal**
(`embedded/`): see section 8.

### Interactions

    client --socket--> connections loop --queue--> worker --SQL--> PostgreSQL
       ^                                             |                 ^
       +--------------- response --------------------+   clock --SQL---+

Workers and the clock meet only in the tables, each in READ COMMITTED
transactions; workers and the connections loop meet in the queue; main stops
all of them through two unsynchronised flags. An administrator writes voters,
groups, elections and candidates by hand.

### What is hard here

A ballot is checked, inserted, committed and acknowledged in four separate
steps, and any step may be the last before the process dies or the client gives
up. What a user votes on is a listing that may be outdated when the ballot arrives.
Tallies are counted while ballots are committed. Ids are drawn before the
commit. Descriptors are reused by the kernel. Reads block, and their timeout is
looked at only after they returned. Section "hazards" of `PROJECT.json` lists
each of these at its line, with the property that covers it or the reason why
none does.

## 2. Modules

| module | what it models |
|---|---|
| `ElectionRules` | the pure part: who may send what, which ballot is accepted, what a set of ballots tallies to |
| `BallotBox` | the abstract promise: a box of eligible ballots, truthful acknowledgements, one tally per election, counted at one instant |
| `BallotServer` | workers in `castBallot`, the clock in `generateTallies`, the tables, clients that give up, death and restart; implements `BallotBox` |
| `TallyAudit` | extends `BallotServer` with the debug client that fetches the ballots in pages and compares tallies |
| `ThreadPool` | connections loop, queue, workers reading and writing sockets, stop; clients that send in pieces, too late, malformed, or leave |
| `CommandChannel` | the abstract promise of the pool: commands of a connection one at a time, each answered as a whole or the last one; implemented by `ThreadPool` |
| `Wire` | the callbacks of `Encoding.cpp`, with vectors that may move when they grow, as operators |
| `PageReading` | extends `TallyAudit`: a page of ballots through `Wire` to the client's vectors |
| `CastSession` | extends `Listing` with the client's `cast_ballot` and the server's `castBallot`, from the typed election id to the answer |
| `ListingSession` | extends `ThreadPool` with one client program that keeps connections open while it opens further ones |
| `Listing` | `getElections` and `getVoters` statement by statement, over tables that grow meanwhile |
| `Paillier` | the arithmetic and the conversions of the Paillier library and its wrappers, as operators |
| `EncryptedTally` | one candidate's way through the ciphertexts: keys, ballots, check, sum, decryption, blinding factor, audit |
| `SchemaUpdates` | the abstract promise of `migrate`: a schema changes by whole updates, in order |
| `Migrations` | processes in `Database::migrate` on one database; implements `SchemaUpdates` |
| `ServerLife` | a `Server` object: start, stop, destructor, its two loops and its two flags |
| `BallotServer_proofs`, `ThreadPool_proofs`, `Migrations_proofs`, `ServerLife_proofs`, `Wire_proofs`, `TallyAudit_proofs`, `CastSession_proofs` (with those about `Listing`), `EncryptedTally_proofs` | the theorems |
| `MCBallotServer`, `MCTallyAudit`, `MCListingSession`, `MCListing`, `MCCastSession` | instances for TLC; `ThreadPool`, `EncryptedTally`, `Migrations` and `ServerLife` are checked as they are |

### BallotServer and the code

| code | model |
|---|---|
| rows of `ELECTIONS`, `CAST_ENCRYPTED_BALLOTS` + entries, `TALLIES` + entries | `elections`, `ballots`, `tallies` |
| the sequence of a `SERIAL` column | `nextId`, never set back |
| locals of `castBallot`, its open transaction | `row[w]`, `pc[w]`, `job[w]` |
| `r` of `generateTallies`, its open transaction | `todo`, `drafts` |
| `getCurrentTime()` | `now` |
| what a client has been told | `reply` |
| where a command is | `status` |
| `Server::_failed` | `failed` |

`processCommand` and `castBallot` up to the last check are one action
(`Validate`), for nothing they read can change to the worse: rows of elections,
groups, candidates and voters are only ever added, and the time used is the one
that was read. `Insert`, `Commit` and `Respond` are actions of their own, so a
death of the process, another worker and the clock can come between any two.
A transaction's rows are in `row[w]` or `drafts` until the commit. A ciphertext
is the value it decrypts to; a signature is whether it verifies; a decrypted sum
is known modulo `TallyModulus`.

A command is on a connection that is not accepted yet ("backlog"), is accepted and
waits for a worker ("queued"), is with one ("running"), or is "done": answered, or
its socket closed, and its sender can know. When the response cannot be encoded or
signed, `threadLoop` neither closes the socket nor puts it back; the command is then
"forgotten", and `reply` stays "none", for the client waits in `recv` until it gives up
or the process dies. `LoopFails` is an error of `bind`, `select` or `accept`: from then on nothing
leaves the backlog, which the kernel goes on filling, and the clock, whose loop tests
`_running && !_failed`, does not `Wake` again. The workers go on.

`TallyResults` covers the outcomes of the out-of-range index in
`generateTally`: garbage for the candidates whose
rows came later, or death of the process (`TallyFault`).

Each `Send` is a new request; a client that retries sends another one. The
model therefore promises one ballot per command, never one per voter.

### ThreadPool and the code

| code | model |
|---|---|
| `_connectionsQueue` | `queue` |
| `_running` of the pool | `running` |
| position in `threadLoop`, its local `sock` | `pc[w]`, `sock[w]` |
| descriptors of the process | `conn[f]`: the connection descriptor `f` is open for |
| bytes in the socket buffer | `stream[c]`: portions as `threadLoop` reads them, at most `MaxUnread` unread |
| threads of the pool | workers that do not begin at "exit"; how many there are is configured, so `Init` starts any of them, but one at least |
| TCP state of the other end | `peer[c]` |
| `Server::stop`, `ThreadPool::stop` | `mainPc` |

`Drop` covers each way `socketRecv` returns an error: the portion came too
late (the time is looked at after each `recv`, also the one that completed the
message), the length is above `MAX_SIZE`, the peer closed (`recv` returns 0
until the time is up) or was reset. There is no way out of a read for a client
that stays and sends nothing. A client may send command after command for ever: only what nobody has read yet is
bounded. It can connect as long as the process is there, for nothing closes the
socket that listens. A send to a peer that closed in order succeeds once;
after the reset that follows, the next one raises SIGPIPE (`BrokenPipe`); a peer that
aborted makes it fail (`SendFails`).

`AcceptFails` stands for every error of `select` and `accept`, for want of a
descriptor or otherwise; the connections loop then ends and the pool goes on.

For `CommandChannel` a worker has a command in hand while it is `Busy` (read and
not yet answered as a whole), and a connection is open until the server closes it;
one whose response could not be made is forgotten (`StateOf`).

`BallotServer` takes a queued command as one some worker may take or drop, and says
what it does to the tables; `ThreadPool` says when a worker gets to it. `processCommand` is one step of
`ThreadPool`, with or without a response.

### TallyAudit and ListingSession and the code

Both are the debug client's `getElections`, seen from two sides.

`TallyAudit` has its data: `left` are the entries of the listed tallies, `subject`
the one `verifyTallyEncryption` was called for, `lastId` and `fetched` the
variables of its page loop, `doneFetchingBallots` the flag that ends it, `verdict` its
result. Every `return false` of `verifyTallyEncryption` is a `verdict` "FALSE", as line
570 prints it, whether the sums differ or a page did not come (`PageFails`). `link` is
its connection: in the backlog, served, without the response to its request
(`PageUnmade`), or cut by the end of the process. A page (`IsPage`) is what
`getEncryptedBallots` returns: `ORDER BY id LIMIT PAGINATION_MAX` above `lastId`.
A product of ciphertexts stands for the set of ciphertexts it was made of.
`begun` is a history variable: the ballots stored when the loop began. All of
`BallotServer` goes on meanwhile, so ids are committed out of order, ballots are
stored after the tally, and the process dies with the connection.

`ListingSession` has its connections: `Script` is the order in which they are opened,
`turn` the one the client is busy with, `written` and `answers` what it has sent and
read there. `getElections` closes its own at the end
(`Return`), `verifyTallyEncryption` never closes its own. The workers and the
connections loop are `ThreadPool`'s, unchanged, with the error that ends the loop
(`AcceptError`) at any time. `Unheard` says that nobody will write to the connection the
client waits on.

### Wire, PageReading, CastSession and the code

A vector is its elements and a place; growing may move it to another place, and an
address (`arg` of a callback field) is good while the vector is where it was. A
write through a dead address does not arrive and a read gives `Lost`: both are
undefined in the code, and the properties say that neither happens. The operators
have the name of the callback they stand for; one that grows a vector has the set
of its outcomes as value. A message is the sequence of its entries: bytes, tags and
lengths are nanopb's. Of a listing's encoding only the result is modelled.

`PageReading` hands each page the audit could get through `CastEncryptedBallotsDecodeFunc`
and reads it as the two loops of `verifyTallyEncryption` do.

`CastSession` follows one ballot. `phase` is the client's position in `castBallot`, `at`
the server's, between the reading of the candidates (`Compare`) and the insertion
(`Insert`) of the same transaction; the listing before that is `Listing`'s handler,
statement by statement, over tables an administrator goes on filling. A ciphertext
is the prompt it was made at and the choice typed there, so that one that got to
another candidate is seen. `MaxEntries` is the room of a command of 2000 bytes.
`GiveUp` is each way the client ends without an answer.

### Listing and the code

Each SQL statement of the handler is a step (`QueryPage`, `QueryTally`,
`QueryGroups`, `QueryCandidates`), because a READ COMMITTED transaction sees what
is committed when the statement runs. `page` holds the rows not yet described,
`answer` the response built so far. The groups query is modelled as it is
written: it compares and returns the row's own id. The walk through all pages is
a client of the protocol; the debug client asks for the first page only.

### Paillier, EncryptedTally and the code

`Bits`, `Base`, `LongLen` and `CipherLen` are the widths of the build (2048, 256, 8, 512)
made small. Numbers and byte strings are kept apart, because the code converts
between them in five places and not always in the same direction:
`PlaintextFromLong` imports the memory of a little-endian long as a big-endian
number, `FromMemory` undoes that, `PlaintextToBytes` cuts leading bytes that do
not fit, `CiphertextToBytes` pads with zeros, and `GetRand` exports without padding.
GMP is external and modelled by what its functions return: `Place` is what a byte counts,
`Digits` the bytes `mpz_export` writes. `Import` (Horner's rule) and `Product` (the loop of
`paillierSum`) are recursive functions over what was read so far. Each choice of an
action (`Keygen`, `CastBallot`) ranges over every key of six bits and all the given blinding
factors; the random generator is such a choice.

### Migrations and the code

`pc[p]` is the position in `migrate`, `work[p]` its locals and the rows of its
open transaction, `lock` the process that holds `ACCESS EXCLUSIVE` on the table
`MIGRATIONS`. Running a script and recording it are two steps; a death between
any two rolls everything back, as PostgreSQL does with changes to the schema. A
script that fails is the same, for nobody catches the exception. Files may
appear in the directory at any time.

### ServerLife and the code

`owner` is the line of `start`, `stop` or the destructor the owner is at, `connections`
and `clock` the positions of the two loops, `joinable` the `std::thread` objects
that stand for a thread, `running` and `failed` the two flags. The flags are
plain `bool`s read by other threads. The build does not optimise, each flag goes
one way while the loops run, and a condition on both is evaluated in one step;
a compiler that hoists the reads is not modelled.

## 3. Runs

| run | question | bounds | states |
|---|---|---|---|
| `ballots_rules` | does each kind of command, right or wrong, store only what the rules allow? | 2 elections (1 and 2 candidates), 3 voters, 16 command contents, 2 requests, 1 worker, time 0..2, failure of the loop, no crash | 3 760 000 |
| `ballots_threads` | do answers, ids, tallies and the abstract box survive interleaving and crashes, and is everything resolved in the end? | 1 election of 2 candidates, 2 workers, 2 requests, time 0..1, failure of the loop, 1 crash at any step and the deaths of `TallyFault` | 57 500 |
| `audit` | what do the client's TRUE and FALSE mean, and does its loop end? | 1 election of 2 candidates, 2 workers, 2 requests, pages of 1, failure of the loop, 1 crash and the deaths of `TallyFault`; any subset of the stored ballots as a page to read | 323 000 |
| `pool_sockets` | one owner per socket, whole answers before a socket is put back, the abstract channel, a turn for everyone, an end of `stop()`? | 1 or 2 workers, 2 clients that may send for ever, 1 portion unread, 2 descriptors, lengths that are zero or not | 652 000 |
| `cast_session` | whose choice is stored for which candidate, by whose list, and who is told what? | 3 elections, 4 candidates, pages of 2, choices 0, 1, 2, room for 2 entries | 144 000 |
| `session_served` | does a listing return with one worker more than it leaves idle connections? | 3 workers, 3 connections, 2 commands on each of the last two, failure of the loop | 250 000 |
| `session_stalls` | and without that one? (violation) | the same with 2 workers | |
| `listing_walk` | is a walk through the pages complete, and a page consistent enough? | 3 elections, 1 voter, 4 candidates, 1 group row, pages of 2 | 1 570 000 |
| `tally_crypto` | what do encryption, sum, decryption, blinding factor and audit do to votes? | all keys of 6 bits, bytes of 4 values, longs of 2 bytes, choices 0, 1, 2, 4, three blinding factors, 4 ballots | 10 800 |
| `migrations` | does each migration run once, in order, through a crash, and does everyone get past it? | 2 processes, 3 files, 1 crash | 9 100 |
| `server_life` | is every thread joined before the object goes, and once? | none: the state is finite | 243 |
| `tally_before_end` | are tallies made of completed elections only? (violation) | the smallest instance that shows it | |

Why these bounds are enough for the interesting cases: two workers suffice
for every pair of concurrent steps; one crash separates what was committed from
what was not, and restarts are unlimited. Windows `[0, 1]` and `[1, 1]` against
times 0, 1 and 2 give before, at the first, at the last moment of a window and
after it; in the runs with crashes time is used only to move. With `TallyModulus` 2 a
sum wraps at two ballots. With pages of one ballot, two
ballots whose ids are committed in the other order are on different pages or on
one and then missed. Two candidates are the fewest with
which `generateTally` indexes out of range, so that run has exact tallies, garbage and
deaths. In the pool, one worker and two connections are contention: while one client
sends one command after the other without end and is put back each time, the other
waits in the queue. (A stack in its place is the mutant of `QueuedAreServed`.) Two workers
give the races; a descriptor that was closed is handed to the client that comes next,
and `accept` may fail at any time. Pages of two with three
elections have a first page that is full and a last one that is not, and
three candidates are more than `PAGINATION_MAX` rows, and more than a command has
room for. Two entries are the fewest whose vectors move after an address was taken. Bytes of four values
and four ballots make the first sum that leaves a byte, as 256 votes do in the
build. The theorems of section 5 do not depend on any of these bounds.

`ballots_rules` uses the symmetry of requests; runs with liveness properties use none.
`audit` tells states apart by everything but `reply` (`AuditView`): what the senders of
ballots have been told guards no action but `GiveUp`, which changes nothing else, and
no property of that run mentions it, so states that differ in it alone have the same
steps and the same truths.

The runs check deadlock where the modelled program cannot stop: `pool_sockets`,
`listing_walk`, `migrations`, `tally_crypto`. The others end. A session is over once
`getElections` has returned, one cast once its client has given up or
been answered and all rows are inserted, a `Server` once it is destroyed or
the process has ended; and a server whose connections loop has failed (`ballots_rules`,
`ballots_threads`, `tally_before_end`, `audit`) has nothing left to do, once every
command is sent and no crash remains, than to wait for ENTER.

For each property of a passing run `PROJECT.json` names a mutant: a small change of one
definition, such as a forgotten commit or a missing `continue`, under which the
same run reports the property violated.

## 4. Properties

`BallotServer`: `EligibleBallots` (every stored row is one the rules allow by
the time the row itself states, for the command of its voter);
`RepliesMatchBallots` (told "cast" means stored, told "refused" means not
stored); `OneBallotPerRequest` (and no id twice); `OneTallyPerElection`;
`TalliesCountStoredBallots`; `BoxSpec` (refinement of `BallotBox`: the tally is a count
of everything stored for its election at one instant, and every acknowledgement
follows its ballot). Liveness: `EveryCommandResolved` (a command is answered or its sender
sees the connection closed, with two exceptions, in which it waits as long as the process
is there: no response could be made, or the connection came after the connections loop
had failed), `EveryElectionTallied` (if from some time on the process stays up and that
loop has not failed).

`ThreadPool`: `SocketsInOnePlace` (exclusive ownership, no descriptor outlives
its connection), `QueuedAreAnswered` (a socket is never put back with a response
missing or cut short), `LeaksAreForgotten` (a descriptor that is open and that no thread
will look at again is that of a connection without a response, and of no other),
`ChannelSpec` (refinement of `CommandChannel`: one command of a
connection at a time and with one worker, the next only after the whole answer, and
none after a command that was not answered). Liveness: `QueuedAreServed`, `StopReturns`.

`TallyAudit`: `FetchCoversStart` (a page loop that is done missed nothing that was stored
when it began; it may miss what commits later with a lower id than one it has),
`AcceptedIsComplete` (TRUE is said only of a tally that left out nothing stored when its
verification began), `FalseIsExplained` (FALSE about an exact entry means that a ballot
was committed after the tally was counted, or that the last page never came; what is
printed does not say which).
`PageReading`: `PagesRead` (under a candidate's indices are the ciphertexts of exactly
the ballots on the page, wherever four growing vectors are moved).
Liveness: `VerificationEnds` (unless the client waits for a page that could not be made, or
on a connection that came after the connections loop had failed).

`ListingSession`: `ListingReturns` (with the same two exceptions, `Unheard`).

`CastSession`: `ChoicesArrive` (each stored entry is what was typed at the prompt for
its candidate, and so is what the answer carries), `StoredIfListsAgree` (a ballot
that gets to the comparison is stored exactly if the listing the user saw is the
server's list now and one candidate was chosen), `UnknownIsOffPage` (the client calls
a stored election unknown only for a full page of lower ids).

`Listing`: `WalkComplete`, `TalliedAreListed` (candidates are read after the
tally, so none of a tally's is missing from the list), `CountedAreFinalized`.

`EncryptedTally`: `KeysUsable` (drawing the primes again for a short modulus is
what makes decryption and blinding factors work), `ChoicesReadBack`,
`DecryptedModuloByte` (the published count is exact modulo 256 in the build),
`RandReproduces` (and the client's check of the decryption answers
whether the sum is one). They are about `Sound` ballots: two different primes
and blinding factors without a common factor with the modulus. Otherwise is an accident
that small keys make frequent and keys of 2048 bits do not meet.

`Migrations`: `AppliedOnce`, `RecordedAreApplied`, `ReadyIsMigrated`, `UpdatesSpec`
(refinement of `SchemaUpdates`). Liveness: `EveryoneGetsReady`.

`ServerLife`: `StopFindsThreads` (the connections loop lowers `_running` itself,
and still `stop` never passes by threads that have to be joined),
`GoneMeansJoined`, `AbortsOnlyIfFailed`. Liveness: `StopGetsToThePool`,
`FailureEndsClock`.

Every module states the types of its variables (`TypeOK`, `AuditTypeOK`,
`CastTypeOK`). All but that of `ListingSession` are part of what is proved in section 5.

### Fairness

`BallotServer!ThreadFairness` is weak fairness of each worker's, the connections loop's and
the clock's steps. No step of a worker in `castBallot` waits for another thread and the
pool polls its queue for ever. `Accept` and `Wake` are disabled once `_failed` is set
(`Server.cpp:57`, `74`, `92`), so their fairness promises nothing after a failure; what the
clock began before it is finished. Clients, time, crashes, failures and
administrators get no fairness; `EveryElectionTallied` assumes that the process
stays up and the loop unharmed from some time on. That no worker is kept in a read for ever is an
assumption of these two properties and not a fact about the code:
`ThreadPool!ServedSpec` makes it explicit, as fairness of `AwaitedStep` (the client a worker
waits for in `recv` sends or leaves; it may as well stay connected and send for ever), and
`session_stalls` shows what happens to a client that does neither.
Accepting gets no fairness there. A worker blocked in a read has no enabled step, so its
fairness promises nothing.

`FairAuditSpec` says that the audit's connection is accepted while the connections loop runs, that a
page is answered if it can be made, and that the client notices when its connection is cut. The
ballots are finitely many there, as many as there are requests; while new ones came for ever, the
page loop, too, could go on for ever. `SessionSpec` adds the workers and the connections loop to
the client; each is a thread of its own with nothing to wait for but what its
steps' guards say. `Migrations!FairSpec` is strong fairness of a process's statements:
`Acquire` is disabled each time another process has the lock, and PostgreSQL
queues the waiters of a table lock, so a waiter is not passed over for ever. In
`ServerLife!FairSpec` the owner, once it has called something, and both loops go on;
`select` and `sleep` end after ten seconds. Nobody has to call `stop`, and
`ThreadPool::stop` need not return.

## 5. Theorems

All theorems hold for every value of the constants that satisfies the assumptions
`RulesAssumption`, `ServerAssumption`, `PoolAssumption`, `MigrationsAssumption`,
`ListingAssumption`, `AuditAssumption`, `CastAssumption`, `PaillierAssumption` and
`TallyAssumption`: finite sets of requests,
files and rows, ids that are numbers and no two rows of one id (the schema's `SERIAL`
and `PRIMARY KEY`), pages of at least one row, and values for "none" and for what a dead
pointer gives that are none of the others. For the ciphertexts: keys of an even number of
bits, a long that is smaller than every modulus, a buffer that has room for a ciphertext,
and no more ballots than such a modulus has room for (in the build, 2^64 against 2^2047,
and 2^1991 ballots). TLC evaluates each of them in a run. The
theorems say nothing of the actions' relation to the code, which is section 2's.

`BallotServer_proofs`. The invariant is `IInv`: types; `CommandsInv` (a request has
content once it is sent, and its status and reply agree); `WorkersInv` (a worker past
`Validate` holds a running request no other worker holds, and its row is eligible, of
that request, and either not yet or already in the table according to `pc`); `IdsInv`
(every id drawn is positive and below `nextId`, and pairwise different in the table and
in open transactions); `BallotsInv`; `RepliesInv`; `ClockInv` (what is to do, drafted
and tallied is disjoint, and drafts count stored ballots). None of the properties is
inductive without it: that an id is new needs the ids in other workers' open
transactions, that a reply is true needs the row of the worker that will send it, that
no election is tallied twice needs what the open transaction of the clock holds.
`StepCases` and `StepFrame` reduce a step to what it changes; one lemma per conjunct
follows.

* `TypeCorrect`, `Eligibility`, `Acknowledgement`, `ExactlyOnce`,
  `SingleTally`, `TallySoundness`: the safety invariants of section 4.
* `Implementation`: `Spec => BoxSpec`; each step maps to a step of `BallotBox`
  or to a stutter (`BoxStep`).

`ThreadPool_proofs`. `IInv` adds to the properties that the backlog is free of
duplicates and of accepted connections, and that the position of a worker tells how many
commands of its connection are unanswered (0 or 1), and that no connection with a
descriptor, or waiting for one, has been dropped by the server (`AttachedInv`).
`Holder`, `WorkerEffect` and `OthersStay` say what a worker's step leaves alone; from
them follow `PoolTypes`, `ExclusiveSockets` and `AnswersComplete`. `LeaksExplained`
(`LeaksAreForgotten`) has an invariant of its own, `LeaksInv`: an open descriptor that is neither
queued nor with a worker has a response missing. `HeldStays` says that a worker lets go of an open
descriptor in `ProcessFails` alone, `LostIsForgotten` that no worker has that command in hand.

`PoolIsChannel` (`Spec => ChannelSpec`) maps each step to one of `CommandChannel` or to
a stutter: `Connect` opens, the read that completes a command takes it, a whole answer
gives it back, each error ends the connection or forgets it, SIGPIPE ends the process.
The state of a connection is a function of who is busy with it (`StateFromHands`), so a
lemma per kind of step says what it does to the hands; that two workers never have one
connection in hand is `SocketsInOnePlace`.

`Wire_proofs` (about operators, for messages of any length). `EntryDecodes`: a call of
`EncryptedBallotEntriesDecodeFunc` on two parallel vectors appends the entry to one and
its ciphertext to the other, and leaves them parallel, wherever either is moved. From
the call to the message: `EntriesDecoded` (all entries of a ballot), `BallotListsArrive`
(the three vectors of a page of ballots, each element of which is itself decoded by
calls) and `ElectionListsArrive` (the four vectors of a listing) say that there is an
outcome and that every outcome holds the message's parts, in its order and no others.
The induction over calls is `OutcomesStayGood`: if a property of the vectors so far
holds of the empty ones and each call keeps it, it holds of every outcome. The property
is a set there, so the induction needs no operator as parameter: `Upwards` and
`LeastExists` take the least call after which it fails. `OutcomesGrow` and
`OutcomesExist` say that the recursive function behind `Decoded` has the values it is
meant to have. `AscendingProperties` and `ByIdProperties`: the sequence that `ORDER BY
id` stands for exists, and holds each row once, by rising ids.

`Migrations_proofs`. `IInv` adds, for each process: `RanInOrder` (what its transaction
ran is sorted, unrecorded, and before everything it has still to look at), `RanIsNoted`
(what ran is noted, but for the script between `Run` and `Note`), `NothingPassedOver`
(every file found is recorded, noted or to come), and `Idle` (no work outside the
transaction). `AppliedOnce` alone is not inductive: that a commit appends nothing twice
needs what the open transaction holds, and that this is still unrecorded needs that
nobody else commits meanwhile. That is where the lock comes in: `TypeOK` says that
exactly the holder is past `LOCK`, so in a commit's step every other process is `Idle`.
`Joined` is about the concatenation of two sequences. From these follow
`MigrationsTypes`, `NoScriptTwice`, `TableIsRight`, `SchemaIsComplete`, and the
refinement `MigrationsImplement`: a commit is an update, every other step a stutter.

`ServerLife_proofs` (no constants; the theorems hold for runs of any length). `IInv`
ties the owner's position, the thread objects, the flags and the pool together:
`Detached` (a loop without a thread object does not run), `Starting` and `Stopping`
(what holds at each line of `start`, and of `stop` and the destructor), `Settled` (at
rest both threads are there to be joined and the pool runs, or neither), `FlagsTell` (in
the first case `_running` or `_failed` is set, in the second `_running` is not),
`PoolTells` (a pool that never ran means a server that never started).
`StopFindsThreads` alone is not inductive: that the flags are not both down when `start`
returns needs `Starting`, and that a second `stop` after a clean one finds `_running`
down needs `FlagsTell`. `LifeTyped` and `Tested` serve `LifeStep`; from it follow
`ThreadsAreFound`, `JoinedBeforeGone` and `SafeUnlessFailed`.

`CastSession_proofs` on `Listing`. `CoreInv` (the types and `HandlerInv`, which says what a position in
the handler tells of the page and the answer) is inductive by itself. `IInv` adds
`TallyInv` (a tally names candidates of its election), `EarlyInv` (what had entries has
them still), `TalliedInv` (a tally is in the list next to it or, while its election is
being described, in the table), and `WalkInv`: every id stored at the beginning and not
above `lastId` has been seen, and what is on the page in hand, described or not
(`Chosen`), reaches down to `lastId` without a gap in those ids. `WalkComplete` is not
inductive alone: that an empty page means that nothing was missed needs the ids already
passed, and that passing a page misses nothing needs that it was cut at its upper end
only. That is `PageClosed`, a comparison of cardinalities; `PageNotEmpty` and
`GreatestExists` (of `Wire_proofs`) say that a page is empty only at the end and that a
page in hand has a last id. `TallyEffect`, `GroupsEffect`, `CandidatesEffect` and
`RespondEffect` say what the statements do to the answer. From these follow
`WalksAreComplete`, `TalliesHaveCandidates` and `CountsAreFinal`.

`TallyAudit_proofs`. `AuditServes` (`AuditSpec => Spec`): the audit only reads, so each
theorem about `BallotServer` holds while it goes on, and its `IInv` may be used in every
step. `AuditInv` adds to the types `LeftInv` (what is to be verified are published
tallies), `SubjectInv` (the tally in hand counts only ballots that were stored when its
verification began, and those are still there), `PagingInv` (what was stored then and is
not above `lastId` is fetched), `VerdictInv` (once the loop is done, all of it is, and the
verdict is the comparison's; without the last page there is no TRUE) and `IdleInv`; by `LinkKeeps`
what happens to the connection touches none of these. `FetchCoversStart` is not inductive: that a
page misses nothing needs that the ids up to `lastId` are done (`FullPage`,
`EmptyPage`), and that a first request above 0 misses nothing needs that ids are
positive. `AcceptedIsComplete` and `FalseIsExplained` need of the server that a
published tally counts stored ballots and is exact or garbage (`TallyIsStored`), and
that no ballot goes away (`CountedGrows`). From these follow `FetchIsComplete`,
`AcceptanceIsSound`, `RefusalIsExplained`. `PagesArrive` joins this with
`BallotListsArrive`: ids are unique, so a page as a sequence of messages holds each
ballot once (`PageArrives`), and the two loops of the client find under a candidate's
indices its ciphertexts and no others (`PageIsRead`).

`CastSession_proofs` on `CastSession`. `CastInv` takes `CoreInv` from the listings and adds
`OneWalk`; `PageInv` (what was stored when the user asked is on the page in hand, or a
full page has lower ids); `VerdictInv`; `UnsentInv` and `SentInv` (the ballot is in one
place at a time, as a message, in the worker's vectors or in the row, and what is there
is `Sent`, made of the prompts and the answers); and `AnswerInv`. None of the three
properties is inductive: the row is what the worker's vectors hold, and that these hold
what was typed is known only from the message, and of the message only from the client's
variables; that an election is off the page is decided by the query and said two steps
and some inserts later (`FirstPage`, `OffPageStays`, both about cardinalities).
`ListingArrives` and `DecodedIsSent` are `ElectionListsArrive` and `EntriesDecoded` used
here; `BallotSent` and `InsertedIsSent` say that an encoding finds every address good.
`MatchesExactly` is the heart of `StoredIfListsAgree`: what `castBallot` compares holds
of the decoded entries exactly if the candidates read now are those shown and one choice
is 1, all others 0. From these follow `StoredIsTyped`, `StoredIffSameList` and
`UnknownIsExplained`.

`EncryptedTally_proofs`. The largest module, because nothing but sets, functions and linear
arithmetic is given. Each theorem holds for keys of every even length and bytes of every base, and is
about the code's own sequence of conversions, powers and inverses. In the order of the module:

* *Induction.* `LeastNumber` (from the library's well-founded `<`) gives `AllNumbers` and
  `NumbersUpTo`, in which the property is a set, and `RecursionExists` and `RecursionUpTo`: a
  recursive function has the values it is meant to have.
* *Divisors.* `Division`, `Bezout`, `PrimeFactor`, `PrimeToBoth`, `InverseExists`.
* *Keys.* `KeyUsable`: the two inverses that `complete_prvkey` and `paillierGetRand` need,
  and do not check for, exist. `PowerOfTwo` (a number of subsets) and
  `PrimesOfOneLength` turn the test of the modulus' top bit into the fact that neither prime is
  twice the other; so neither divides the other less one (`TotientNotDivided`), nor the
  least common multiple of both less one (`LcmProperties`). What is inverted is lambda
  itself (`PowerOfGenerator`). With keys as `AnyKeyPairs` draws them, without the test,
  the property fails in the run.
* *Powers.* `PowModIs` (`mpz_powm` gives the remainder of the power), `ProductReordered`,
  `Fermat`, and from these, for two primes that do not divide each other less one,
  `EulerTwoPrimes` and `BlindingVanishes`: r^(n lambda) is 1 modulo n^2. With `PowerIsLine`
  ((1 + n)^m is 1 + m n modulo n^2), `PlaintextIs`: `paillier_dec` gives back m for whatever
  `Carries` m, that is, for what is congruent to (1 + n)^m r^n.
* *Bytes.* `SizeIs`, `DigitsImport` and `ImportDigits` (importing what was exported gives
  the number, and the other way round), `BytesAreDigits` (both branches of
  `paillier_plaintext_to_bytes` are the last digits). From these `LongRestored` (a long comes
  back, although both directions read it from the wrong end), `SwappedSum` (a sum of
  votes comes back modulo a byte, for the carry leaves the long) and `CiphertextRestored`.
* *Ciphertexts.* `DecryptedIs`; `CarriesBoth` (a product carries the sum) and `SumCarries`,
  by induction over the ballots; `RootOfPower` and `RandIs` (`paillierGetRand` finds the blinding
  factor modulo n) and `RandEncrypts` (and what it found encrypts to the same ciphertext).

`CryptoInv` is the inductive invariant: the key in use is one `paillier_keygen` lets out; a ciphertext,
on its way or stored, is what `paillierEnc` makes of its ballot's choice and blinding factor under that
key; a stored one was let through; a tally is made of the first `count` ballots. None of the four
properties is inductive: each is about decryption now, which the state does not hold, of a
ciphertext made earlier under a key that must not have changed. `CryptoInductive` needs no
arithmetic; that it implies the properties is all of the above. From these follow
`KeysAlwaysUsable`, `ChoicesAlwaysReadBack`, `TallyIsModuloByte`, `RandAlwaysReproduces` and
`CryptoTyped`.

Only model-checked: liveness, because fairness and ENABLED are outside the prover's reach
(`EveryCommandResolved`, `EveryElectionTallied`, `QueuedAreServed`, `StopReturns`,
`VerificationEnds`, `ListingReturns`, `EveryoneGetsReady`, `StopGetsToThePool`,
`FailureEndsClock`). Every invariant of the runs has a theorem, and so has each refinement. No module here declares a RECURSIVE operator.

## 6. Where the code and its texts disagree

Two disagreements are shown by runs of their own:

* `tally_before_end`: `Clock.cpp:13` says "completed elections"; the query has
  no condition on `end_time`, so an election is tallied at the first tick and its
  later ballots are in no tally.
* `session_stalls`: `Sockets.c:37` says that `recv` may block "if a client sends a
  malformed message". It blocks as well on a connection whose client waits
  elsewhere: `getElections` keeps its socket while it verifies and
  `verifyTallyEncryption` never closes its own, so with as many workers as such
  sockets the client and the workers wait for each other for ever.

Others are in the models as the code has them, and the passing runs go through them:

* `TallyGenerator.h:28` indexes a candidate's ciphertexts with the row number of
  the whole result (`TallyResults`, `TallyFault`): with two candidates an entry
  may be garbage or the process may die at every tick. `EveryElectionTallied` therefore
  asks for a process that stays up, and `AcceptedIsComplete` allows for garbage.
* `CommandProcessor.cpp:555`: two GET labels run into `castBallot` (`ElectionRules`).
* `CommandProcessor.cpp:270`: the groups query compares the row's own id
  (`Listing!QueryGroups`).
* `CommandProcessor.cpp:228`: a tally without entries is listed as not finalized
  (`Listing!QueryTally`).
* `ThreadPool.cpp:107`: a connection without a response is forgotten without
  `close`, although the line logged says "Dropping connection."; its descriptor is lost
  and its client waits for ever (`ProcessFails`, `LeaksAreForgotten`; "forgotten" in
  `BallotServer`, `PageUnmade` in `TallyAudit`, `Unheard` in `ListingSession`).
* `Server.cpp:57`, `74`, `92`: after an error of `select` or `accept` the process stays up and
  connections are made, but none is accepted and no tally is begun (`LoopFails`,
  `AcceptError`); the exceptions of `EveryCommandResolved`, `EveryElectionTallied`,
  `VerificationEnds` and `ListingReturns` are these two items.
* `Sockets.c:20`: a send to a client that left raises SIGPIPE (`BrokenPipe`).
* `Server.cpp:20`: after a failure the destructor's `stop()` joins again
  (`AbortsOnlyIfFailed` says that nothing else leads there).
* `Server.cpp:14`: the connections loop hands over connections before and while
  `ThreadPool::start` runs, against `ThreadPool.h:13`; the queue's mutex makes
  that harmless.
* `Client.cpp:381`: the published value is overwritten before it is checked
  (`RandReproduces`).
* `Client.cpp:287`: an election behind the first full page is called invalid
  (`UnknownIsOffPage`).
* `ThreadPool.cpp:66`: a ballot of three entries or more is longer than `MAX_SIZE` and
  never arrives (`DropLarge`).
* `Client.cpp:493`: an exact tally is reported FALSE once later ballots are stored, and
  line 570 prints the same FALSE when a page did not come (lines 402 to 456; `FalseIsExplained`).
* `paillier.c:251`: counts wrap at 256 (`DecryptedModuloByte`).

## 7. Plan

Done: `BallotServer` and `BallotBox`, `ThreadPool` and `CommandChannel`,
`Migrations` and `SchemaUpdates`, `ServerLife`, `Listing`, `Wire`, `TallyAudit` with
`PageReading` and `CastSession`, each with the theorems of its safety properties; `ListingSession`,
whose one property is liveness; `Paillier` and `EncryptedTally`, likewise with
theorems. Next, in this order:

1. A theorem that `CastSession`'s comparison is `ElectionRules`' condition on entries, so that the
   one acceptance both modules speak of is one.
2. The server as a whole: `ServerLife` and `ThreadPool` share the connections
   loop's steps, each with its own view; one composition of both.

## 8. Not modelled

* nanopb, the generated protobuf code and the byte formats: a command is a
  message that decodes or does not, and a partly decoded one is refused as a whole. Of the
  encoding callbacks, those for ballots are `Wire`'s; those for candidates, tally
  entries, elections, voters and names are loops over one vector each that nothing
  changes meanwhile, and a listing is modelled as the message they write.
* `Config.h`, `Logger.cpp`: environment read once, text output.
* wolfSSL, GMP, libpqxx, PostgreSQL: external, by how they are used.
* The debug client's prompt and what it prints; the second page of elections,
  which it does not ask for.
* `paillier_exp`, the string conversions and the test program of the Paillier
  library, which nothing calls.
* `embedded/`: an unfinished terminal; most methods are empty and its system
  state machine never leaves `SetupState`.
* Two server processes on one database; a response larger than the socket
  buffers to a client that does not read; the backlog limit of `listen`; the
  columns `enabled`, which `castBallot` does not read.
