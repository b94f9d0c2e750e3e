------------------------------ MODULE ServerLife ------------------------------
(***************************************************************************)
(* The life of a Server object: its owner calls start, then stop and/or    *)
(* the destructor, which calls stop again, while the connections loop and  *)
(* the clock loop run in threads of their own and look at the flags        *)
(* _running and _failed.  What the pool does with a connection is          *)
(* ThreadPool's subject.                                                   *)
(*                                                                         *)
(* The flags are plain bools.  Each goes one way only while the threads    *)
(* run, and the build does not optimise, so a condition on the two of them *)
(* has the value it has at one of its reads and is evaluated in one step.  *)
(***************************************************************************)
EXTENDS Naturals

VARIABLES
    owner,       \* where the thread that owns the Server is
    caller,      \* who called stop: "stop" the owner, "destroy" the destructor
    running, failed,
    connections, \* the connections loop
    clock,       \* the clock loop
    joinable,    \* the std::thread objects that stand for a thread
    pool         \* _threadPool._running has been set, and reset

vars == <<owner, caller, running, failed, connections, clock, joinable, pool>>

Threads == {"connections", "clock"}

Inside == {"starting", "spawned", "starting_pool", "testing",
           "join_connections", "join_clock", "stopping_pool", "members"}

TypeOK ==
    /\ owner \in {"new", "started", "gone", "aborted", "terminated"} \cup Inside
    /\ caller \in {"none", "stop", "destroy"}
    /\ running \in BOOLEAN /\ failed \in BOOLEAN
    /\ connections \in {"off", "binding", "testing", "selecting", "accepting",
                        "handing", "done"}
    /\ clock \in {"off", "testing", "ticking", "sleeping", "done"}
    /\ joinable \subseteq Threads
    /\ pool \in {"new", "running", "stopped"}
    /\ (caller = "none") = (owner \in {"new", "starting", "spawned", "starting_pool",
                                       "started", "aborted", "terminated", "gone"})

Init ==
    /\ owner = "new" /\ caller = "none"
    /\ running = FALSE /\ failed = FALSE
    /\ connections = "off" /\ clock = "off" /\ joinable = {} /\ pool = "new"

-----------------------------------------------------------------------------
(* The owner. *)

OwnerStep(from, to) ==
    /\ owner = from
    /\ owner' = to
    /\ UNCHANGED <<failed, connections, clock>>

\* Server::start, line by line.
Start ==
    /\ owner = "new" /\ owner' = "starting"
    /\ failed' = FALSE /\ running' = TRUE
    /\ UNCHANGED <<caller, connections, clock, joinable, pool>>

StartConnections ==
    /\ owner = "starting" /\ owner' = "spawned"
    /\ connections' = "binding"
    /\ joinable' = joinable \cup {"connections"}
    /\ UNCHANGED <<caller, running, failed, clock, pool>>

StartClock ==
    /\ owner = "spawned" /\ owner' = "starting_pool"
    /\ clock' = "testing"
    /\ joinable' = joinable \cup {"clock"}
    /\ UNCHANGED <<caller, running, failed, connections, pool>>

StartPool ==
    /\ OwnerStep("starting_pool", "started")
    /\ pool' = "running"
    /\ UNCHANGED <<caller, running, joinable>>

\* Enter is pressed, or the object goes out of scope.
CallStop(by) ==
    /\ OwnerStep("started", "testing") \/ (by = "destroy" /\ OwnerStep("new", "testing"))
    /\ caller' = by
    /\ UNCHANGED <<running, joinable, pool>>

\* The end of stop: the owner has the object back, or its members go.
Returned(from) ==
    IF caller = "destroy" THEN OwnerStep(from, "members") /\ UNCHANGED caller
                          ELSE OwnerStep(from, "started") /\ caller' = "none"

\* An exception leaves a destructor or main, or a thread object goes that
\* still stands for a thread: std::terminate.
Aborts(from) == OwnerStep(from, "aborted") /\ caller' = "none"

\* Mutant: stop looks at _running alone.
TestRunningOnly ==
    /\ \/ running /\ OwnerStep("testing", "join_connections") /\ UNCHANGED caller
       \/ ~running /\ Returned("testing")
    /\ running' = FALSE
    /\ UNCHANGED <<joinable, pool>>

\* Mutant: stop does not ask whether there is anything to stop.
TestNothing ==
    /\ OwnerStep("testing", "join_connections")
    /\ running' = FALSE
    /\ UNCHANGED <<caller, joinable, pool>>

TestFlags ==
    /\ \/ (running \/ failed) /\ OwnerStep("testing", "join_connections") /\ UNCHANGED caller
       \/ ~(running \/ failed) /\ Returned("testing")
    /\ running' = FALSE
    /\ UNCHANGED <<joinable, pool>>

\* std::thread::join waits for the thread, and throws if there is none.
Join(thread, over, from, to) ==
    /\ \/ thread \in joinable /\ over /\ OwnerStep(from, to) /\ UNCHANGED caller
       \/ thread \notin joinable /\ Aborts(from)
    /\ joinable' = joinable \ {thread}
    /\ UNCHANGED <<running, pool>>

JoinConnections ==
    Join("connections", connections = "done", "join_connections", "join_clock")
JoinClock == Join("clock", clock = "done", "join_clock", "stopping_pool")

\* ThreadPool::stop, if it returns (ThreadPool says when it does).
StopPool ==
    /\ Returned("stopping_pool")
    /\ pool' = "stopped"
    /\ UNCHANGED <<running, joinable>>

\* ~ThreadPool stops the pool if that has not been done, and the thread
\* objects are destroyed.
DestroyMembers ==
    /\ IF joinable = {} THEN OwnerStep("members", "gone") /\ caller' = "none"
                        ELSE Aborts("members")
    /\ pool' = IF pool = "running" THEN "stopped" ELSE pool
    /\ UNCHANGED <<running, joinable>>

Owner ==
    \/ Start \/ StartConnections \/ StartClock \/ StartPool
    \/ TestFlags \/ JoinConnections \/ JoinClock \/ DestroyMembers

-----------------------------------------------------------------------------
(* The loops; nothing runs once the process has ended. *)

Alive == owner \notin {"aborted", "terminated"}

ConnectionsStep(from, to) ==
    /\ Alive
    /\ connections = from /\ connections' = to
    /\ UNCHANGED <<owner, caller, clock, joinable, pool>>

Bind == ConnectionsStep("binding", "testing") /\ UNCHANGED <<running, failed>>

\* Return without _running = false.
BindFails == ConnectionsStep("binding", "done") /\ failed' = TRUE /\ UNCHANGED running

\* Mutant: the loop goes on until a failure.
ConnectionsGoOnUnlessFailed == ~failed

ConnectionsGoOn == running /\ ~failed

TestConnections ==
    /\ \/ ConnectionsGoOn /\ ConnectionsStep("testing", "selecting") /\ UNCHANGED running
       \/ ~ConnectionsGoOn /\ ConnectionsStep("testing", "done") /\ running' = FALSE
    /\ UNCHANGED failed

\* Mutant: an error ends the loop and nothing else.
SelectUnflagged ==
    /\ \/ \E to \in {"testing", "accepting"} :
             ConnectionsStep("selecting", to) /\ UNCHANGED running
       \/ ConnectionsStep("selecting", "testing") /\ running' = FALSE
    /\ UNCHANGED failed

\* checkSocketForData comes back: nobody, somebody, or an error.
Select ==
    /\ \/ \E to \in {"testing", "accepting"} :
             ConnectionsStep("selecting", to) /\ UNCHANGED failed
       \/ ConnectionsStep("selecting", "testing") /\ failed' = TRUE
    /\ UNCHANGED running

Accept ==
    /\ \/ ConnectionsStep("accepting", "handing") /\ UNCHANGED failed
       \/ ConnectionsStep("accepting", "testing") /\ failed' = TRUE
    /\ UNCHANGED running

\* newConnection
HandOver == ConnectionsStep("handing", "testing") /\ UNCHANGED <<running, failed>>

ClockStep(from, to) ==
    /\ Alive
    /\ clock = from /\ clock' = to
    /\ UNCHANGED <<owner, caller, running, failed, connections, joinable, pool>>

\* Mutant: the clock does not look at _failed.
ClockGoesOnUnlessStopped == running

ClockGoesOn == running /\ ~failed

TestClock == ClockStep("testing", IF ClockGoesOn THEN "ticking" ELSE "done")
Tick == ClockStep("ticking", "sleeping")
Wake == ClockStep("sleeping", "testing")

\* Nothing catches what the database throws in this thread.
TickThrows ==
    /\ Alive /\ clock = "ticking"
    /\ owner' = "terminated" /\ caller' = "none"
    /\ UNCHANGED <<running, failed, connections, clock, joinable, pool>>

Connections == BindFails \/ Bind \/ TestConnections \/ Select \/ Accept \/ HandOver
ClockLoop == TestClock \/ Tick \/ TickThrows \/ Wake

Next ==
    \/ Owner \/ StopPool
    \/ \E by \in {"stop", "destroy"} : CallStop(by)
    \/ Connections
    \/ ClockLoop

Spec == Init /\ [][Next]_vars

\* Threads run, select and sleep end after their ten seconds, and a tick
\* comes back.  Nobody has to call stop, and ThreadPool::stop need not return.
FairSpec ==
    /\ Spec
    /\ WF_vars(Owner) /\ WF_vars(Connections) /\ WF_vars(ClockLoop)
-----------------------------------------------------------------------------
(* Properties. *)

\* While the owner has a started server, stop would join its threads: the
\* flags cannot both have been lowered behind its back, although the
\* connections loop lowers _running itself and, on a failed bind, does not.
StopFindsThreads == owner = "started" /\ joinable # {} => running \/ failed

\* The object never goes while a thread of it runs, and no thread uses the
\* pool's queue once the pool has stopped.
GoneMeansJoined ==
    /\ owner \in {"members", "gone"} => joinable = {}
    /\ pool = "stopped" => connections = "done" /\ clock = "done"

\* A call of stop gets as far as the pool, or ends, whatever the loops are
\* doing when it comes.
StopGetsToThePool ==
    owner = "testing" ~> owner \in {"stopping_pool", "started", "gone", "aborted", "terminated"}

\* A server that has failed ticks no more, stopped or not.
FailureEndsClock == failed ~> clock \in {"off", "done"} \/ ~Alive

\* The process comes to std::terminate in stop or the destructor only after
\* a failure: _failed stays set, and the destructor's stop joins again what
\* an earlier stop has joined.  Without one, stop and destruction are safe in
\* any order and number.
AbortsOnlyIfFailed == owner = "aborted" => failed
=============================================================================
