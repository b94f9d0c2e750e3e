------------------------------ MODULE ThreadPool ------------------------------
(***************************************************************************)
(* The thread pool of the vote server and the sockets it serves.  The      *)
(* connections loop accepts and queues; each worker takes a socket off the *)
(* queue, reads one command (its length, then its body), has it processed, *)
(* writes the response (length, body) and puts the socket back; the main   *)
(* thread stops both.                                                      *)
(*                                                                         *)
(* Descriptors are given out again after a close, so one that stayed       *)
(* behind in the queue or with a worker would name some other client's     *)
(* connection.  recv and send block; their timeout is looked at only when  *)
(* a call has returned, so data that comes late is dropped with its        *)
(* connection, and data that never comes is waited for.                    *)
(*                                                                         *)
(* What a command does is BallotServer's subject: here processCommand only *)
(* has a response or has none.                                             *)
(***************************************************************************)
EXTENDS Naturals, Sequences

CONSTANTS
    Workers,   \* threads the pool may have; how many are started is configured
    Conns,     \* connections clients make
    Fds,       \* descriptors the process may have open for them
    None,      \* no connection, no descriptor
    Lengths,   \* kinds of lengths clients send
    MaxUnread  \* bound: units of a connection that nobody has read yet

\* A length of zero, and any other; whether that is above MAX_SIZE is chosen
\* when it is read (RecvLength or Drop).
ASSUME PoolAssumption ==
    /\ None \notin Conns /\ None \notin Fds
    /\ Lengths \subseteq {"length", "zero"}
    /\ MaxUnread \in Nat \ {0}

\* What a client writes, in the portions threadLoop reads.
Units == Lengths \cup {"body"}

VARIABLES
    \* clients and kernel
    peer,       \* peer[c]: the client's end of connection c, see TypeOK
    owes,       \* owes[c]: c sent a length and not yet the body
    stream,     \* stream[c]: units sent and not yet read
    backlog,    \* connections waiting for accept()
    conn,       \* conn[f]: the connection descriptor f is open for
    \* the process
    alive,
    accepting,  \* the connections loop runs
    running,    \* ThreadPool::_running
    mainPc,
    queue,      \* _connectionsQueue
    pc,
    sock,       \* sock[w]: the local variable of threadLoop, None for -1
    \* history
    unanswered  \* unanswered[c]: commands of c read, less responses written

process == <<alive, accepting, running, mainPc>>
vars == <<peer, owes, stream, backlog, conn, process, queue, pc, sock, unanswered>>

Holding == {"length", "body", "process", "sendLength", "sendBody", "requeue"}

\* A peer that closed in order ("closed") answers the next write ("written")
\* with a reset ("reset"); one that closed with data unread has reset at once
\* ("aborted").  What a peer does after the server closed is left out
\* ("dropped").
PeerStates == {"none", "open", "closed", "written", "reset", "aborted", "dropped"}

TypeOK ==
    /\ peer \in [Conns -> PeerStates]
    /\ owes \in [Conns -> BOOLEAN]
    /\ stream \in [Conns -> Seq(Units)]
    /\ backlog \in Seq(Conns)
    /\ conn \in [Fds -> Conns \cup {None}]
    /\ alive \in BOOLEAN /\ accepting \in BOOLEAN /\ running \in BOOLEAN
    /\ mainPc \in {"serving", "closing", "joining", "stopped"}
    /\ queue \in Seq(Fds)
    /\ pc \in [Workers -> Holding \cup {"top", "poll", "exit"}]
    /\ sock \in [Workers -> Fds \cup {None}]
    /\ \A w \in Workers : sock[w] # None <=> pc[w] \in Holding
    /\ unanswered \in [Conns -> Nat]

Init ==
    /\ peer = [c \in Conns |-> "none"]
    /\ owes = [c \in Conns |-> FALSE]
    /\ stream = [c \in Conns |-> <<>>] /\ backlog = <<>>
    /\ conn = [f \in Fds |-> None]
    /\ alive = TRUE /\ accepting = TRUE /\ running = TRUE /\ mainPc = "serving"
    /\ queue = <<>>
    /\ pc \in [Workers -> {"top", "exit"}] /\ \E w \in Workers : pc[w] = "top"
    /\ sock = [w \in Workers |-> None]
    /\ unanswered = [c \in Conns |-> 0]

-----------------------------------------------------------------------------
(* Clients and kernel. *)

\* The kernel completes the connection and holds it for accept(), also when
\* the connections loop has ended: nothing closes mainSock.
Connect(c) ==
    /\ alive
    /\ peer[c] = "none"
    /\ peer' = [peer EXCEPT ![c] = "open"]
    /\ backlog' = Append(backlog, c)
    /\ UNCHANGED <<owes, stream, conn, process, queue, pc, sock, unanswered>>

\* A client may go on with command after command for ever.
SendUnit(c, u) ==
    /\ alive
    /\ peer[c] = "open"
    /\ Len(stream[c]) < MaxUnread
    /\ owes[c] = (u = "body")
    /\ owes' = [owes EXCEPT ![c] = (u = "length")]
    /\ stream' = [stream EXCEPT ![c] = Append(@, u)]
    /\ UNCHANGED <<peer, backlog, conn, process, queue, pc, sock, unanswered>>

\* close(), or the end of the client, with or without responses unread.
ClientClose(c, how) ==
    /\ alive
    /\ peer[c] = "open"
    /\ peer' = [peer EXCEPT ![c] = how]
    /\ UNCHANGED <<owes, stream, backlog, conn, process, queue, pc, sock,
                   unanswered>>

HostResets(c) ==
    /\ alive
    /\ peer[c] = "written"
    /\ peer' = [peer EXCEPT ![c] = "reset"]
    /\ UNCHANGED <<owes, stream, backlog, conn, process, queue, pc, sock,
                   unanswered>>

-----------------------------------------------------------------------------
(* The connections loop and the main thread. *)

\* Server::connectionsLoop and newConnection.
Accept(f) ==
    /\ alive /\ accepting
    /\ backlog # <<>>
    /\ conn[f] = None
    /\ conn' = [conn EXCEPT ![f] = Head(backlog)]
    /\ backlog' = Tail(backlog)
    /\ queue' = Append(queue, f)
    /\ UNCHANGED <<peer, owes, stream, process, pc, sock, unanswered>>

\* select() or accept() reports an error, for want of a descriptor or any
\* other: _failed, and the loop is left for good.
AcceptFails ==
    /\ alive /\ accepting
    /\ accepting' = FALSE
    /\ UNCHANGED <<peer, owes, stream, backlog, conn, alive, running, mainPc,
                   queue, pc, sock, unanswered>>

\* ENTER was pressed: Server::stop clears the server's _running ...
BeginStop ==
    /\ alive
    /\ mainPc = "serving"
    /\ mainPc' = "closing"
    /\ UNCHANGED <<peer, owes, stream, backlog, conn, alive, accepting, running,
                   queue, pc, sock, unanswered>>

\* ... the connections loop sees it after its select ...
LeaveLoop ==
    /\ alive /\ accepting
    /\ mainPc = "closing"
    /\ accepting' = FALSE
    /\ UNCHANGED <<peer, owes, stream, backlog, conn, alive, running, mainPc,
                   queue, pc, sock, unanswered>>

\* ... and joined, lets the main thread go on to ThreadPool::stop, ...
StopPool ==
    /\ alive /\ ~accepting
    /\ mainPc = "closing"
    /\ running' = FALSE
    /\ mainPc' = "joining"
    /\ UNCHANGED <<peer, owes, stream, backlog, conn, alive, accepting, queue,
                   pc, sock, unanswered>>

\* ... which joins the workers.
Joined ==
    /\ alive
    /\ mainPc = "joining"
    /\ \A w \in Workers : pc[w] = "exit"
    /\ mainPc' = "stopped"
    /\ UNCHANGED <<peer, owes, stream, backlog, conn, alive, accepting, running,
                   queue, pc, sock, unanswered>>

-----------------------------------------------------------------------------
(* A worker: threadLoop. *)

Move(w, to) == pc' = [pc EXCEPT ![w] = to]

Served(w) == conn[sock[w]]

\* Mutant: the loop does not look at _running.
CheckAlways(w) ==
    /\ alive
    /\ pc[w] = "top"
    /\ Move(w, "poll")
    /\ UNCHANGED <<peer, owes, stream, backlog, conn, process, queue, sock,
                   unanswered>>

\* while(_running)
Check(w) ==
    /\ alive
    /\ pc[w] = "top"
    /\ Move(w, IF running THEN "poll" ELSE "exit")
    /\ UNCHANGED <<peer, owes, stream, backlog, conn, process, queue, sock,
                   unanswered>>

\* Mutant: a stack in place of the queue.
PollNewest(w) ==
    /\ alive
    /\ pc[w] = "poll"
    /\ \/ /\ queue = <<>>
          /\ Move(w, "top")
          /\ UNCHANGED <<queue, sock>>
       \/ /\ queue # <<>>
          /\ sock' = [sock EXCEPT ![w] = queue[Len(queue)]]
          /\ queue' = SubSeq(queue, 1, Len(queue) - 1)
          /\ Move(w, "length")
    /\ UNCHANGED <<peer, owes, stream, backlog, conn, process, unanswered>>

\* The queue under its mutex: a socket, or none and 5 ms of sleep.
Poll(w) ==
    /\ alive
    /\ pc[w] = "poll"
    /\ \/ /\ queue = <<>>
          /\ Move(w, "top")
          /\ UNCHANGED <<queue, sock>>
       \/ /\ queue # <<>>
          /\ sock' = [sock EXCEPT ![w] = Head(queue)]
          /\ queue' = Tail(queue)
          /\ Move(w, "length")
    /\ UNCHANGED <<peer, owes, stream, backlog, conn, process, unanswered>>

\* The next unit can be read: its last byte is there, and no reset came.
Readable(c) == stream[c] # <<>> /\ peer[c] \notin {"reset", "aborted"}

\* The length of the next command.  socketRecv of a body of no bytes returns
\* at once, so a zero is a command already.
RecvLength(w) ==
    /\ alive
    /\ pc[w] = "length"
    /\ Readable(Served(w))
    /\ \/ /\ Head(stream[Served(w)]) = "length"
          /\ Move(w, "body")
          /\ UNCHANGED unanswered
       \/ /\ Head(stream[Served(w)]) = "zero"
          /\ Move(w, "process")
          /\ unanswered' = [unanswered EXCEPT ![Served(w)] = @ + 1]
    /\ stream' = [stream EXCEPT ![Served(w)] = Tail(@)]
    /\ UNCHANGED <<peer, owes, backlog, conn, process, queue, sock>>

RecvBody(w) ==
    /\ alive
    /\ pc[w] = "body"
    /\ Readable(Served(w))
    /\ Move(w, "process")
    /\ unanswered' = [unanswered EXCEPT ![Served(w)] = @ + 1]
    /\ stream' = [stream EXCEPT ![Served(w)] = Tail(@)]
    /\ UNCHANGED <<peer, owes, backlog, conn, process, queue, sock>>

\* close(sock)
Close(w) ==
    /\ conn' = [conn EXCEPT ![sock[w]] = None]
    /\ stream' = [stream EXCEPT ![Served(w)] = <<>>]
    /\ peer' = [peer EXCEPT ![Served(w)] = "dropped"]

\* Mutant: no continue after the close.
DropAndGoOn(w) ==
    /\ alive
    /\ pc[w] \in {"length", "body"}
    /\ stream[Served(w)] # <<>> \/ peer[Served(w)] # "open"
    /\ Close(w)
    /\ Move(w, "requeue")
    /\ UNCHANGED <<owes, backlog, process, queue, sock, unanswered>>

\* Mutant: continue without close.
DropUnclosed(w) ==
    /\ alive
    /\ pc[w] \in {"length", "body"}
    /\ stream[Served(w)] # <<>> \/ peer[Served(w)] # "open"
    /\ Move(w, "top")
    /\ sock' = [sock EXCEPT ![w] = None]
    /\ UNCHANGED <<peer, owes, stream, backlog, conn, process, queue, unanswered>>

\* The unit came too late or is too large; or recv failed, or returned 0
\* until the time was up.
Drop(w) ==
    /\ alive
    /\ pc[w] \in {"length", "body"}
    /\ stream[Served(w)] # <<>> \/ peer[Served(w)] # "open"
    /\ Close(w)
    /\ Move(w, "top")
    /\ sock' = [sock EXCEPT ![w] = None]
    /\ UNCHANGED <<owes, backlog, process, queue, unanswered>>

\* processCommand has a response.
Process(w) ==
    /\ alive
    /\ pc[w] = "process"
    /\ Move(w, "sendLength")
    /\ UNCHANGED <<peer, owes, stream, backlog, conn, process, queue, sock,
                   unanswered>>

\* Mutant: no continue after the error.
ProcessFailsGoesOn(w) ==
    /\ alive
    /\ pc[w] = "process"
    /\ Move(w, "requeue")
    /\ UNCHANGED <<peer, owes, stream, backlog, conn, process, queue, sock,
                   unanswered>>

\* processCommand could not encode or sign one: the connection is forgotten
\* but its socket is not closed.
ProcessFails(w) ==
    /\ alive
    /\ pc[w] = "process"
    /\ Move(w, "top")
    /\ sock' = [sock EXCEPT ![w] = None]
    /\ UNCHANGED <<peer, owes, stream, backlog, conn, process, queue, unanswered>>

\* send() succeeds: the client reads, or has closed and the kernel here does
\* not know of a reset yet.
Writable(c) == peer[c] \in {"open", "closed", "written"}

Write(c) == peer' = [peer EXCEPT ![c] = IF @ = "closed" THEN "written" ELSE @]

SendLength(w) ==
    /\ alive
    /\ pc[w] = "sendLength"
    /\ Writable(Served(w)) /\ Write(Served(w))
    /\ Move(w, "sendBody")
    /\ UNCHANGED <<owes, stream, backlog, conn, process, queue, sock, unanswered>>

SendBody(w) ==
    /\ alive
    /\ pc[w] = "sendBody"
    /\ Writable(Served(w)) /\ Write(Served(w))
    /\ Move(w, "requeue")
    /\ unanswered' = [unanswered EXCEPT ![Served(w)] = @ - 1]
    /\ UNCHANGED <<owes, stream, backlog, conn, process, queue, sock>>

\* Mutant: the results of socketSend are not looked at.
SendFailsUnseen(w) ==
    /\ alive
    /\ pc[w] \in {"sendLength", "sendBody"}
    /\ peer[Served(w)] # "reset"
    /\ Move(w, "requeue")
    /\ UNCHANGED <<peer, owes, stream, backlog, conn, process, queue, sock,
                   unanswered>>

\* A send took too long, or the reset of a peer that aborted is reported.
SendFails(w) ==
    /\ alive
    /\ pc[w] \in {"sendLength", "sendBody"}
    /\ peer[Served(w)] # "reset"
    /\ Close(w)
    /\ Move(w, "top")
    /\ sock' = [sock EXCEPT ![w] = None]
    /\ UNCHANGED <<owes, backlog, process, queue, unanswered>>

\* send() on a connection that its peer closed and then reset raises SIGPIPE,
\* which nothing in the program blocks, ignores or handles.
BrokenPipe(w) ==
    /\ alive
    /\ pc[w] \in {"sendLength", "sendBody"}
    /\ peer[Served(w)] = "reset"
    /\ alive' = FALSE
    /\ UNCHANGED <<peer, owes, stream, backlog, conn, accepting, running, mainPc,
                   queue, pc, sock, unanswered>>

\* Mutant: the socket is not put back.
RequeueLost(w) ==
    /\ alive
    /\ pc[w] = "requeue"
    /\ Move(w, "top")
    /\ sock' = [sock EXCEPT ![w] = None]
    /\ UNCHANGED <<peer, owes, stream, backlog, conn, process, queue, unanswered>>

Requeue(w) ==
    /\ alive
    /\ pc[w] = "requeue"
    /\ queue' = Append(queue, sock[w])
    /\ Move(w, "top")
    /\ sock' = [sock EXCEPT ![w] = None]
    /\ UNCHANGED <<peer, owes, stream, backlog, conn, process, unanswered>>

-----------------------------------------------------------------------------

WorkerStep(w) ==
    \/ Check(w) \/ Poll(w)
    \/ RecvLength(w) \/ RecvBody(w) \/ Drop(w)
    \/ Process(w) \/ ProcessFails(w)
    \/ SendLength(w) \/ SendBody(w) \/ SendFails(w) \/ BrokenPipe(w)
    \/ Requeue(w)

\* Nothing is left to do, or nobody to do it.
Ended == (mainPc = "stopped" \/ ~alive) /\ UNCHANGED vars

Next ==
    \/ \E c \in Conns : \/ Connect(c) \/ HostResets(c)
                        \/ \E u \in Units : SendUnit(c, u)
                        \/ \E how \in {"closed", "aborted"} : ClientClose(c, how)
    \/ \E f \in Fds : Accept(f)
    \/ AcceptFails \/ BeginStop \/ LeaveLoop \/ StopPool \/ Joined
    \/ \E w \in Workers : WorkerStep(w)
    \/ Ended

Spec == Init /\ [][Next]_vars

\* No thread is starved by the scheduler; a worker inside recv has no step
\* until the client sends or leaves.
ThreadFairness ==
    /\ \A w \in Workers : WF_vars(WorkerStep(w))
    /\ WF_vars(LeaveLoop) /\ WF_vars(StopPool) /\ WF_vars(Joined)

\* The client that a worker waits for in recv sends or leaves.
AwaitedStep(c) ==
    /\ \E w \in Workers : pc[w] \in {"length", "body"} /\ Served(w) = c
    /\ stream[c] = <<>>
    /\ \/ \E u \in Units : SendUnit(c, u)
       \/ \E how \in {"closed", "aborted"} : ClientClose(c, how)

\* ... and no client keeps a worker in recv for ever (in ListingSession one
\* does); it may stay connected and send commands for ever.
ServedSpec ==
    /\ Spec /\ ThreadFairness
    /\ \A c \in Conns : WF_vars(AwaitedStep(c))
-----------------------------------------------------------------------------
(* Safety. *)

\* A socket is in one place: once in the queue or with one worker.  While it
\* is there it is open, and no two sockets are one connection; so no command
\* is read by two workers, no response goes to another client, and no close
\* hits a descriptor that was given out again.
SocketsInOnePlace ==
    /\ \A i \in DOMAIN queue : conn[queue[i]] # None
    /\ \A w \in Workers : sock[w] # None => conn[sock[w]] # None
    /\ \A i, j \in DOMAIN queue : queue[i] = queue[j] => i = j
    /\ \A w \in Workers, i \in DOMAIN queue : sock[w] # queue[i]
    /\ \A v, w \in Workers : sock[v] = sock[w] /\ sock[v] # None => v = w
    /\ \A f, g \in Fds : conn[f] = conn[g] /\ conn[f] # None => f = g

\* Between two commands a connection has had the whole response to each
\* command read from it: a socket is never put back with a response missing
\* or cut short, which would shift every later response of that client.
QueuedAreAnswered == \A i \in DOMAIN queue : unanswered[conn[queue[i]]] = 0

(* What the pool promises its clients. *)

\* A command has been read and its response is not written yet.
Busy(w) == pc[w] \in {"process", "sendLength", "sendBody"}

StateOf(c) ==
    IF peer[c] = "none" THEN "none"
    ELSE IF peer[c] = "dropped" THEN "closed"
    ELSE IF unanswered[c] = 0 \/ \E w \in Workers : Busy(w) /\ Served(w) = c THEN "open"
    ELSE "forgotten"

Channel == INSTANCE CommandChannel WITH
    Servers <- Workers,
    state <- [c \in Conns |-> StateOf(c)],
    hand <- [w \in Workers |-> IF Busy(w) THEN Served(w) ELSE None],
    up <- alive

\* A descriptor that is open and that no thread will ever look at again is
\* that of a connection whose response could not be made: every other way out
\* of the loop closes the socket or puts it back.
LeaksAreForgotten == \A f \in Fds : conn[f] # None =>
    \/ \E i \in DOMAIN queue : queue[i] = f
    \/ \E w \in Workers : sock[w] = f
    \/ StateOf(conn[f]) = "forgotten"

\* The pool implements the channel: one command of a connection at a time,
\* each with one worker and with its whole answer before the next, and a
\* connection on which an answer is missing is never read again.
ChannelSpec == Channel!Spec

(* Liveness. *)

Waiting(c) == \E i \in DOMAIN queue : conn[queue[i]] = c

\* A queued connection gets its turn although there are more connections
\* than workers and the others are put back behind it again and again, unless
\* the pool stops first.
QueuedAreServed == \A c \in Conns : Waiting(c) ~> ~Waiting(c) \/ ~running \/ ~alive

\* Server::stop returns, whatever the workers are doing when it is called.
StopReturns == mainPc = "closing" ~> mainPc = "stopped" \/ ~alive
=============================================================================
