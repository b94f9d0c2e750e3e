-------------------------- MODULE ServerLife_proofs --------------------------
(***************************************************************************)
(* Proofs about the life of a Server: stop finds the threads there are to  *)
(* join, the object does not go before them, and std::terminate is reached *)
(* only after a failure.                                                   *)
(***************************************************************************)
EXTENDS ServerLife, TLAPS

-----------------------------------------------------------------------------
(* The inductive invariant. *)

\* A loop whose thread object stands for no thread does not run.
Detached ==
    /\ "connections" \notin joinable => connections \in {"off", "done"}
    /\ "clock" \notin joinable => clock \in {"off", "done"}

\* Before and inside start.
Starting ==
    /\ owner \in {"new", "starting"} =>
          connections = "off" /\ clock = "off" /\ joinable = {} /\ pool = "new"
    /\ owner = "new" => ~running /\ ~failed
    /\ owner = "spawned" =>
          connections # "off" /\ clock = "off" /\ joinable = {"connections"} /\ pool = "new"
    /\ owner = "starting_pool" =>
          connections # "off" /\ clock # "off" /\ joinable = Threads /\ pool = "new"
    /\ owner \in {"starting", "spawned", "starting_pool"} => running \/ failed

\* With the owner, or at the test in stop: both threads are there to be joined
\* and a flag says so, or neither is and _running is down.
Settled == owner \in {"started", "testing", "join_connections"} =>
    \/ joinable = Threads /\ pool = "running"
    \/ joinable = {} /\ pool \in {"new", "stopped"}

FlagsTell ==
    /\ owner \in {"started", "testing"} /\ joinable = Threads => running \/ failed
    /\ owner \in {"started", "testing"} /\ joinable = {} => ~running
    /\ owner = "join_connections" /\ joinable = {} => failed /\ pool = "stopped"

\* Inside stop and the destructor.
Stopping ==
    /\ owner = "join_clock" => joinable = {"clock"} /\ pool = "running"
    /\ owner = "stopping_pool" => joinable = {} /\ pool = "running"
    /\ owner \in {"members", "gone"} => joinable = {} /\ pool \in {"new", "stopped"}
    /\ owner \in {"join_connections", "join_clock", "stopping_pool"} => ~running

\* A server that was never started, and one whose pool has stopped.
PoolTells ==
    /\ pool = "new" /\ owner \notin {"starting", "spawned", "starting_pool", "terminated"} =>
          connections = "off" /\ clock = "off" /\ ~running /\ ~failed
    /\ pool # "new" => connections # "off" /\ clock # "off"
    /\ pool = "stopped" => joinable = {}

IInv ==
    /\ TypeOK /\ Detached /\ Starting /\ Settled /\ FlagsTell /\ Stopping /\ PoolTells
    /\ AbortsOnlyIfFailed

-----------------------------------------------------------------------------

LEMMA LifeInit == Init => IInv
  BY DEF Init, IInv, TypeOK, Inside, Threads, Detached, Starting, Settled, FlagsTell,
         Stopping, PoolTells, AbortsOnlyIfFailed

\* Where the test in stop leads.
LEMMA Tested == ASSUME TestFlags PROVE
    /\ owner = "testing" /\ ~running' /\ running' \in BOOLEAN /\ failed' = failed
    /\ connections' = connections /\ clock' = clock
    /\ joinable' = joinable /\ pool' = pool
    /\ \/ (running \/ failed) /\ owner' = "join_connections" /\ caller' = caller
       \/ ~running /\ ~failed /\ caller = "destroy" /\ owner' = "members" /\ caller' = caller
       \/ ~running /\ ~failed /\ caller # "destroy" /\ owner' = "started" /\ caller' = "none"
<1>1. CASE (running \/ failed) /\ OwnerStep("testing", "join_connections") /\ UNCHANGED caller
  BY <1>1, Zenon DEF TestFlags, OwnerStep
<1>2. CASE ~(running \/ failed) /\ Returned("testing") /\ caller = "destroy"
  BY <1>2, Zenon DEF TestFlags, Returned, OwnerStep
<1>3. CASE ~(running \/ failed) /\ Returned("testing") /\ caller # "destroy"
  BY <1>3, Zenon DEF TestFlags, Returned, OwnerStep
<1> QED
  BY <1>1, <1>2, <1>3, Zenon DEF TestFlags

\* Every step keeps the types.
LEMMA LifeTyped == TypeOK /\ [Next]_vars => TypeOK'
<1> SUFFICES ASSUME TypeOK, [Next]_vars PROVE TypeOK'
  OBVIOUS
<1> USE DEF TypeOK, Inside, Threads
<1>1. CASE Owner
  <2>1. CASE TestFlags
    <3>1. /\ running' \in BOOLEAN /\ failed' \in BOOLEAN /\ caller # "none"
          /\ joinable' \subseteq Threads
      BY <2>1, Tested
    <3>2. CASE owner' = "join_connections" /\ caller' = caller
      BY <2>1, <3>1, <3>2, Tested
    <3>3. CASE caller = "destroy" /\ owner' = "members" /\ caller' = caller
      BY <2>1, <3>1, <3>3, Tested
    <3>4. CASE owner' = "started" /\ caller' = "none"
      BY <2>1, <3>1, <3>4, Tested
    <3> QED BY <2>1, <3>2, <3>3, <3>4, Tested
  <2>2. CASE Start BY <2>2 DEF Start
  <2>3. CASE StartConnections BY <2>3 DEF StartConnections
  <2>4. CASE StartClock BY <2>4 DEF StartClock
  <2>5. CASE StartPool BY <2>5 DEF StartPool, OwnerStep
  <2>6. CASE JoinConnections BY <2>6 DEF JoinConnections, Join, Aborts, OwnerStep
  <2>7. CASE JoinClock BY <2>7 DEF JoinClock, Join, Aborts, OwnerStep
  <2>8. CASE DestroyMembers BY <2>8 DEF DestroyMembers, Aborts, OwnerStep
  <2> QED BY <1>1, <2>1, <2>2, <2>3, <2>4, <2>5, <2>6, <2>7, <2>8 DEF Owner
<1>2. CASE StopPool BY <1>2 DEF StopPool, Returned, OwnerStep
<1>3. ASSUME NEW by \in {"stop", "destroy"}, CallStop(by) PROVE TypeOK'
  BY <1>3 DEF CallStop, OwnerStep
<1>4. CASE Connections
  BY <1>4 DEF Connections, BindFails, Bind, TestConnections, ConnectionsGoOn, Select, Accept,
              HandOver, ConnectionsStep, Alive
<1>5. CASE ClockLoop
  BY <1>5 DEF ClockLoop, TestClock, ClockGoesOn, Tick, Wake, TickThrows, ClockStep, Alive
<1>6. CASE UNCHANGED vars BY <1>6 DEF vars
<1> QED BY <1>1, <1>2, <1>3, <1>4, <1>5, <1>6 DEF Next

\* Each step of start, stop, the destructor and the two loops, at any point of
\* the others, keeps the invariant.
LEMMA LifeStep == IInv /\ [Next]_vars => IInv'
<1> SUFFICES ASSUME IInv, [Next]_vars PROVE IInv'
  OBVIOUS
<1>0. TypeOK' BY LifeTyped DEF IInv
<1> USE <1>0 DEF IInv, TypeOK, Inside, Threads, Detached, Starting, Settled, FlagsTell,
            Stopping, PoolTells, AbortsOnlyIfFailed
<1>1. CASE Start BY <1>1 DEF Start
<1>2. CASE StartConnections BY <1>2 DEF StartConnections
<1>3. CASE StartClock BY <1>3 DEF StartClock
<1>4. CASE StartPool BY <1>4 DEF StartPool, OwnerStep
<1>5. ASSUME NEW by \in {"stop", "destroy"}, CallStop(by) PROVE IInv'
  BY <1>5 DEF CallStop, OwnerStep
<1>6. CASE TestFlags
  <2>1. CASE owner' = "join_connections" /\ (running \/ failed)
    BY <1>6, <2>1, Tested
  <2>2. CASE owner' \in {"members", "started"} /\ ~running /\ ~failed
    <3>1. joinable = {} /\ pool \in {"new", "stopped"}
      BY <1>6, <2>2, Tested
    <3> QED BY <1>6, <2>2, <3>1, Tested
  <2> QED BY <1>6, <2>1, <2>2, Tested
<1>7. CASE JoinConnections BY <1>7 DEF JoinConnections, Join, Aborts, OwnerStep
<1>8. CASE JoinClock BY <1>8 DEF JoinClock, Join, Aborts, OwnerStep
<1>9. CASE StopPool
  <2>1. /\ owner = "stopping_pool" /\ pool = "running" /\ pool' = "stopped"
        /\ joinable = {} /\ joinable' = {} /\ ~running /\ running' = running
        /\ failed' = failed /\ connections' = connections /\ clock' = clock
        /\ owner' \in {"members", "started"}
    BY <1>9 DEF StopPool, Returned, OwnerStep
  <2> QED BY <2>1
<1>10. CASE DestroyMembers BY <1>10 DEF DestroyMembers, Aborts, OwnerStep
<1>11. CASE BindFails BY <1>11 DEF BindFails, ConnectionsStep, Alive
<1>12. CASE Bind BY <1>12 DEF Bind, ConnectionsStep, Alive
<1>13. CASE TestConnections
  BY <1>13 DEF TestConnections, ConnectionsGoOn, ConnectionsStep, Alive
<1>14. CASE Select BY <1>14 DEF Select, ConnectionsStep, Alive
<1>15. CASE Accept BY <1>15 DEF Accept, ConnectionsStep, Alive
<1>16. CASE HandOver BY <1>16 DEF HandOver, ConnectionsStep, Alive
<1>17. CASE TestClock BY <1>17 DEF TestClock, ClockGoesOn, ClockStep, Alive
<1>18. CASE Tick BY <1>18 DEF Tick, ClockStep, Alive
<1>19. CASE Wake BY <1>19 DEF Wake, ClockStep, Alive
<1>20. CASE TickThrows BY <1>20 DEF TickThrows, Alive
<1>21. CASE UNCHANGED vars BY <1>21 DEF vars
<1> QED
  BY <1>1, <1>2, <1>3, <1>4, <1>5, <1>6, <1>7, <1>8, <1>9, <1>10, <1>11, <1>12,
     <1>13, <1>14, <1>15, <1>16, <1>17, <1>18, <1>19, <1>20, <1>21
  DEF Next, Owner, Connections, ClockLoop

LEMMA LifeInductive == Spec => []IInv
  BY LifeInit, LifeStep, PTL DEF Spec

-----------------------------------------------------------------------------

\* stop never passes by a thread of the server its owner has: the connections
\* loop, which lowers _running itself, does so only after a failure or a stop.
THEOREM ThreadsAreFound == Spec => []StopFindsThreads
<1>1. IInv => StopFindsThreads
  BY DEF IInv, StopFindsThreads, Settled, FlagsTell, Threads
<1> QED
  BY <1>1, LifeInductive, PTL

\* The object goes after its threads, and they end before the pool stops.
THEOREM JoinedBeforeGone == Spec => []GoneMeansJoined
<1>1. IInv => GoneMeansJoined
  BY DEF IInv, GoneMeansJoined, Stopping, PoolTells, Detached
<1> QED
  BY <1>1, LifeInductive, PTL

\* Without a failure neither stop nor the destructor ends the process.
THEOREM SafeUnlessFailed == Spec => []AbortsOnlyIfFailed
<1>1. IInv => AbortsOnlyIfFailed
  BY DEF IInv
<1> QED
  BY <1>1, LifeInductive, PTL
=============================================================================
