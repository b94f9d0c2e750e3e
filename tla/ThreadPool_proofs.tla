-------------------------- MODULE ThreadPool_proofs --------------------------
(***************************************************************************)
(* Proofs about the thread pool, for any number of workers, connections    *)
(* and descriptors: types, exclusive ownership of sockets, that a          *)
(* connection is put back only with every command answered, which open     *)
(* descriptors are lost, and that the pool implements the channel.         *)
(***************************************************************************)
EXTENDS ThreadPool, SequenceTheorems, TLAPS

\* A connection waiting for accept() has no descriptor yet and nothing was
\* read from it; one that was never made has no descriptor either.
BacklogInv ==
    /\ \A i, j \in DOMAIN backlog : backlog[i] = backlog[j] => i = j
    /\ \A i \in DOMAIN backlog : /\ peer[backlog[i]] # "none"
                                 /\ unanswered[backlog[i]] = 0
                                 /\ \A f \in Fds : conn[f] # backlog[i]
    /\ \A f \in Fds : conn[f] # None => peer[conn[f]] # "none"
    /\ \A c \in Conns : peer[c] = "none" => unanswered[c] = 0

\* Where a worker is tells whether the command of its connection is open.
AnswersInv ==
    /\ \A w \in Workers : pc[w] \in {"length", "body", "requeue"}
          => unanswered[Served(w)] = 0
    /\ \A w \in Workers : pc[w] \in {"process", "sendLength", "sendBody"}
          => unanswered[Served(w)] = 1

\* The server's end is there until it closes.
AttachedInv ==
    /\ \A f \in Fds : conn[f] # None => peer[conn[f]] # "dropped"
    /\ \A i \in DOMAIN backlog : peer[backlog[i]] # "dropped"

IInv ==
    /\ TypeOK /\ SocketsInOnePlace /\ QueuedAreAnswered
    /\ BacklogInv /\ AnswersInv /\ AttachedInv
-----------------------------------------------------------------------------
(* What Append and Tail do to the elements of a sequence. *)

\* The elements of a queue after something was put at its end.
LEMMA AppendElements ==
    ASSUME NEW S, NEW s \in Seq(S), NEW x \in S,
           NEW t, t = Append(s, x)
    PROVE  /\ t \in Seq(S)
           /\ DOMAIN s \subseteq DOMAIN t
           /\ \A i \in DOMAIN s : t[i] = s[i] /\ i # Len(s) + 1
           /\ \A i \in DOMAIN t : i \in DOMAIN s \/ i = Len(s) + 1
           /\ t[Len(s) + 1] = x
BY AppendProperties, LenProperties

\* The elements of a queue after its head was taken.
LEMMA TailElements ==
    ASSUME NEW S, NEW s \in Seq(S), s # <<>>,
           NEW t, t = Tail(s)
    PROVE  /\ t \in Seq(S)
           /\ Head(s) \in S
           /\ 1 \in DOMAIN s /\ s[1] = Head(s)
           /\ \A i \in DOMAIN t : i \in Nat /\ i + 1 \in DOMAIN s /\ i + 1 # 1 /\ t[i] = s[i + 1]
<1>1. /\ Head(s) \in S
      /\ Tail(s) \in Seq(S)
      /\ Len(Tail(s)) = Len(s) - 1
      /\ \A i \in 1 .. Len(Tail(s)) : Tail(s)[i] = s[i + 1]
  BY HeadTailProperties
<1>2. Len(s) \in Nat \ {0}
  BY EmptySeq
<1>3. DOMAIN s = 1 .. Len(s) /\ DOMAIN t = 1 .. Len(t)
  BY <1>1, LenProperties
<1>4. Head(s) = s[1]
  OBVIOUS
<1> QED
  BY <1>1, <1>2, <1>3, <1>4

\* A member of a queue is one of its descriptors.
LEMMA QueueElements ==
    ASSUME NEW S, NEW s \in Seq(S), NEW i \in DOMAIN s
    PROVE  s[i] \in S
BY LenProperties

\* An update of a function with a value of its range.
LEMMA Update ==
    ASSUME NEW S, NEW T, NEW f \in [S -> T], NEW x \in S, NEW y \in T
    PROVE  [f EXCEPT ![x] = y] \in [S -> T]
OBVIOUS

-----------------------------------------------------------------------------
(* The steps, with what each changes. *)

\* Init establishes the invariant.
LEMMA InitIInv == Init => IInv
<1> SUFFICES ASSUME Init PROVE IInv
  OBVIOUS
<1>1. backlog \in Seq(Conns) /\ queue \in Seq(Fds) /\ DOMAIN backlog = {} /\ DOMAIN queue = {}
  BY EmptySeq DEF Init
<1>2. stream \in [Conns -> Seq(Units)]
  BY EmptySeq DEF Init
<1>3. TypeOK
  BY <1>1, <1>2 DEF Init, TypeOK, PeerStates, Holding
<1> QED
  BY <1>1, <1>3, PoolAssumption
     DEF Init, IInv, SocketsInOnePlace, BacklogInv, QueuedAreAnswered, AnswersInv,
         AttachedInv

\* Every step keeps the variables in their types.
LEMMA TypeStep == IInv /\ [Next]_vars => TypeOK'
<1> SUFFICES ASSUME IInv, [Next]_vars PROVE TypeOK'
  OBVIOUS
<1> USE PoolAssumption DEF IInv, TypeOK, PeerStates
<1>1. ASSUME NEW c \in Conns, Connect(c) PROVE TypeOK'
  BY <1>1, AppendElements DEF Connect, process
<1>2. ASSUME NEW c \in Conns, HostResets(c) PROVE TypeOK'
  BY <1>2 DEF HostResets, process
<1>3. ASSUME NEW c \in Conns, NEW u \in Units, SendUnit(c, u) PROVE TypeOK'
  <2>1. Append(stream[c], u) \in Seq(Units)
    BY AppendElements
  <2> QED
    BY <1>3, <2>1 DEF SendUnit, process
<1>4. ASSUME NEW c \in Conns, NEW how \in {"closed", "aborted"}, ClientClose(c, how)
      PROVE TypeOK'
  BY <1>4 DEF ClientClose, process
<1>5. ASSUME NEW f \in Fds, Accept(f) PROVE TypeOK'
  <2>1. Head(backlog) \in Conns /\ Tail(backlog) \in Seq(Conns) /\ Append(queue, f) \in Seq(Fds)
    BY <1>5, TailElements, AppendElements DEF Accept
  <2> QED
    BY <1>5, <2>1 DEF Accept, process
<1>6. CASE AcceptFails \/ BeginStop \/ LeaveLoop \/ StopPool \/ Joined
  BY <1>6 DEF AcceptFails, BeginStop, LeaveLoop, StopPool, Joined
<1>7. ASSUME NEW w \in Workers, Check(w) PROVE TypeOK'
  BY <1>7 DEF Check, Move, Holding, process
<1>8. ASSUME NEW w \in Workers, Poll(w) PROVE TypeOK'
  <2>1. CASE queue = <<>>
    BY <1>8, <2>1 DEF Poll, Move, Holding, process
  <2>2. CASE queue # <<>>
    <3>1. Head(queue) \in Fds /\ Tail(queue) \in Seq(Fds)
      BY <2>2, TailElements
    <3> QED
      BY <1>8, <2>2, <3>1 DEF Poll, Move, Holding, process
  <2> QED
    BY <2>1, <2>2
<1>9. ASSUME NEW w \in Workers, RecvLength(w) \/ RecvBody(w) PROVE TypeOK'
  <2>1. sock[w] \in Fds /\ Served(w) \in Conns
    BY <1>9 DEF RecvLength, RecvBody, Holding, Served, SocketsInOnePlace
  <2>2. Tail(stream[Served(w)]) \in Seq(Units)
    BY <1>9, <2>1, TailElements DEF RecvLength, RecvBody, Readable
  <2>3. pc' \in [Workers -> Holding \cup {"top", "poll", "exit"}]
    BY <1>9 DEF RecvLength, RecvBody, Move, Holding
  <2>4. \A v \in Workers : pc'[v] \in Holding <=> pc[v] \in Holding
    BY <1>9 DEF RecvLength, RecvBody, Move, Holding
  <2>5. stream' \in [Conns -> Seq(Units)] /\ unanswered' \in [Conns -> Nat]
    <3>1. stream' = [stream EXCEPT ![Served(w)] = Tail(stream[Served(w)])]
      BY <1>9 DEF RecvLength, RecvBody
    <3>2. stream' \in [Conns -> Seq(Units)]
      BY <3>1, <2>1, <2>2, Update
    <3>3. unanswered' \in [Conns -> Nat]
      BY <1>9, <2>1 DEF RecvLength, RecvBody
    <3> QED
      BY <3>2, <3>3
  <2>6. UNCHANGED <<peer, owes, backlog, conn, process, queue, sock>>
    BY <1>9 DEF RecvLength, RecvBody
  <2> QED
    BY <2>3, <2>4, <2>5, <2>6 DEF process
<1>10. ASSUME NEW w \in Workers, Drop(w) \/ SendFails(w) PROVE TypeOK'
  <2>1. sock[w] \in Fds /\ Served(w) \in Conns
    BY <1>10 DEF Drop, SendFails, Holding, Served, SocketsInOnePlace
  <2>2. <<>> \in Seq(Units)
    BY EmptySeq
  <2>3. /\ stream' \in [Conns -> Seq(Units)]
        /\ conn' \in [Fds -> Conns \cup {None}]
        /\ peer' \in [Conns -> PeerStates]
    <3>1. /\ stream' = [stream EXCEPT ![Served(w)] = <<>>]
          /\ conn' = [conn EXCEPT ![sock[w]] = None]
          /\ peer' = [peer EXCEPT ![Served(w)] = "dropped"]
      BY <1>10 DEF Drop, SendFails, Close
    <3> QED
      BY <3>1, <2>1, <2>2, Update
  <2>4. /\ pc' \in [Workers -> Holding \cup {"top", "poll", "exit"}]
        /\ sock' \in [Workers -> Fds \cup {None}]
        /\ \A v \in Workers : sock'[v] # None <=> pc'[v] \in Holding
    BY <1>10 DEF Drop, SendFails, Move, Holding
  <2>5. UNCHANGED <<owes, backlog, process, queue, unanswered>>
    BY <1>10 DEF Drop, SendFails
  <2> QED
    BY <2>3, <2>4, <2>5 DEF process
<1>11. ASSUME NEW w \in Workers, Process(w) \/ ProcessFails(w) PROVE TypeOK'
  BY <1>11 DEF Process, ProcessFails, Move, Holding, process
<1>12. ASSUME NEW w \in Workers, SendLength(w) \/ SendBody(w) PROVE TypeOK'
  <2>1. sock[w] \in Fds /\ Served(w) \in Conns
    BY <1>12 DEF SendLength, SendBody, Holding, Served, SocketsInOnePlace
  <2>2. SendBody(w) => unanswered[Served(w)] - 1 \in Nat
    BY <2>1 DEF SendBody, AnswersInv
  <2>3. /\ pc' \in [Workers -> Holding \cup {"top", "poll", "exit"}]
        /\ \A v \in Workers : pc'[v] \in Holding <=> pc[v] \in Holding
    BY <1>12 DEF SendLength, SendBody, Move, Holding
  <2>4. peer' \in [Conns -> PeerStates]
    BY <1>12, <2>1 DEF SendLength, SendBody, Write
  <2>5. unanswered' \in [Conns -> Nat]
    BY <1>12, <2>1, <2>2 DEF SendLength, SendBody
  <2>6. UNCHANGED <<owes, stream, backlog, conn, process, queue, sock>>
    BY <1>12 DEF SendLength, SendBody
  <2> QED
    BY <2>3, <2>4, <2>5, <2>6 DEF process
<1>13. ASSUME NEW w \in Workers, BrokenPipe(w) PROVE TypeOK'
  BY <1>13 DEF BrokenPipe
<1>14. ASSUME NEW w \in Workers, Requeue(w) PROVE TypeOK'
  <2>1. sock[w] \in Fds
    BY <1>14 DEF Requeue, Holding
  <2>2. Append(queue, sock[w]) \in Seq(Fds)
    BY <2>1, AppendElements
  <2> QED
    BY <1>14, <2>2 DEF Requeue, Move, Holding, process
<1>15. CASE UNCHANGED vars
  BY <1>15 DEF vars, process
<1> QED
  BY <1>1, <1>2, <1>3, <1>4, <1>5, <1>6, <1>7, <1>8, <1>9, <1>10, <1>11, <1>12,
     <1>13, <1>14, <1>15 DEF Next, WorkerStep, Ended

\* Every step keeps each socket in one place.
LEMMA SocketsStep == IInv /\ [Next]_vars => SocketsInOnePlace'
<1> SUFFICES ASSUME IInv, [Next]_vars PROVE SocketsInOnePlace'
  OBVIOUS
<1> USE PoolAssumption DEF SocketsInOnePlace
<1>t. TypeOK
  BY DEF IInv
<1>o. SocketsInOnePlace
  BY DEF IInv
<1>q. \A i \in DOMAIN queue : queue[i] \in Fds
  BY <1>t, QueueElements DEF TypeOK
<1>1. ASSUME UNCHANGED <<conn, queue, sock>> PROVE SocketsInOnePlace'
  BY <1>1, <1>o
<1>2. ASSUME NEW f \in Fds, Accept(f) PROVE SocketsInOnePlace'
  <2>1. Head(backlog) \in Conns /\ 1 \in DOMAIN backlog /\ backlog[1] = Head(backlog)
    BY <1>2, <1>t, TailElements DEF Accept, TypeOK
  <2>2. \A g \in Fds : conn[g] # Head(backlog)
    BY <2>1 DEF IInv, BacklogInv
  <2>3. /\ conn' = [conn EXCEPT ![f] = Head(backlog)]
        /\ queue' = Append(queue, f) /\ sock' = sock /\ conn[f] = None
    BY <1>2 DEF Accept
  <2>4. /\ \A i \in DOMAIN queue : i \in DOMAIN queue' /\ queue'[i] = queue[i] /\ queue[i] # f
        /\ \A i \in DOMAIN queue' : i \in DOMAIN queue \/ i = Len(queue) + 1
        /\ queue'[Len(queue) + 1] = f
    <3>1. queue \in Seq(Fds)
      BY <1>t DEF TypeOK
    <3>2. \A i \in DOMAIN queue : queue[i] # f
      BY <2>3, <1>o
    <3> QED
      BY <2>3, <3>1, <3>2, AppendElements
  <2>5. \A w \in Workers : sock[w] # f
    BY <2>3, <1>o
  <2>6. \A g \in Fds : conn'[g] = IF g = f THEN Head(backlog) ELSE conn[g]
    BY <2>3, <1>t DEF TypeOK
  <2>7. \A i \in DOMAIN queue' : queue'[i] \in Fds
    BY <2>4, <1>q
  <2>8. \A g, h \in Fds : conn'[g] = conn'[h] /\ conn'[g] # None => g = h
    BY <2>2, <2>6, <1>o
  <2>9. \A i \in DOMAIN queue' : conn'[queue'[i]] # None
    BY <2>1, <2>4, <2>6, <2>7, <1>o
  <2>10. \A w \in Workers : sock'[w] # None => conn'[sock'[w]] # None
    BY <2>1, <2>3, <2>5, <2>6, <1>o, <1>t DEF TypeOK
  <2>11. \A i, j \in DOMAIN queue' : queue'[i] = queue'[j] => i = j
    BY <2>4, <1>o
  <2>12. \A w \in Workers, i \in DOMAIN queue' : sock'[w] # queue'[i]
    BY <2>3, <2>4, <2>5, <1>o
  <2> QED
    BY <2>3, <2>8, <2>9, <2>10, <2>11, <2>12, <1>o
<1>3. ASSUME NEW w \in Workers, Poll(w) PROVE SocketsInOnePlace'
  <2>1. CASE queue = <<>>
    BY <1>1, <1>3, <2>1 DEF Poll
  <2>2. CASE queue # <<>>
    <3>1. /\ queue' = Tail(queue) /\ conn' = conn
          /\ \A v \in Workers : sock'[v] = IF v = w THEN Head(queue) ELSE sock[v]
      BY <1>3, <1>t, <2>2 DEF Poll, TypeOK
    <3>2. /\ Head(queue) \in Fds /\ 1 \in DOMAIN queue /\ queue[1] = Head(queue)
          /\ \A i \in DOMAIN queue' : /\ i \in Nat /\ i + 1 \in DOMAIN queue
                                       /\ i + 1 # 1 /\ queue'[i] = queue[i + 1]
      BY <3>1, <2>2, <1>t, TailElements DEF TypeOK
    <3>3. \A i, j \in DOMAIN queue' : queue'[i] = queue'[j] => i = j
      BY <3>2, <1>o
    <3>4. \A v \in Workers, i \in DOMAIN queue' : sock'[v] # queue'[i]
      BY <3>1, <3>2, <1>o
    <3>5. \A u, v \in Workers : sock'[u] = sock'[v] /\ sock'[u] # None => u = v
      BY <3>1, <3>2, <1>o
    <3> QED
      BY <3>1, <3>2, <3>3, <3>4, <3>5, <1>o
  <2> QED
    BY <2>1, <2>2
<1>4. ASSUME NEW w \in Workers, Drop(w) \/ SendFails(w) PROVE SocketsInOnePlace'
  <2>1. sock[w] \in Fds
    BY <1>4, <1>t DEF Drop, SendFails, Holding, TypeOK
  <2>2. /\ \A g \in Fds : conn'[g] = IF g = sock[w] THEN None ELSE conn[g]
        /\ \A v \in Workers : sock'[v] = IF v = w THEN None ELSE sock[v]
        /\ queue' = queue
    BY <1>4, <1>t DEF Drop, SendFails, Close, TypeOK
  <2>3. \A i \in DOMAIN queue : conn'[queue[i]] # None
    BY <2>2, <1>q, <1>o
  <2>4. \A v \in Workers : sock'[v] # None => conn'[sock'[v]] # None
    BY <2>1, <2>2, <1>o, <1>t DEF TypeOK
  <2>5. \A v \in Workers, i \in DOMAIN queue : sock'[v] # queue[i]
    BY <2>2, <1>q, <1>o
  <2>6. \A u, v \in Workers : sock'[u] = sock'[v] /\ sock'[u] # None => u = v
    BY <2>2, <1>o
  <2>7. \A f, g \in Fds : conn'[f] = conn'[g] /\ conn'[f] # None => f = g
    BY <2>2, <1>o
  <2> QED
    BY <2>2, <2>3, <2>4, <2>5, <2>6, <2>7, <1>o
<1>5. ASSUME NEW w \in Workers, ProcessFails(w) PROVE SocketsInOnePlace'
  <2>1. /\ \A v \in Workers : sock'[v] = IF v = w THEN None ELSE sock[v]
        /\ queue' = queue /\ conn' = conn
    BY <1>5, <1>t DEF ProcessFails, TypeOK
  <2> QED
    BY <2>1, <1>q, <1>o
<1>6. ASSUME NEW w \in Workers, Requeue(w) PROVE SocketsInOnePlace'
  <2>1. sock[w] \in Fds
    BY <1>6, <1>t DEF Requeue, Holding, TypeOK
  <2>2. /\ \A v \in Workers : sock'[v] = IF v = w THEN None ELSE sock[v]
        /\ queue' = Append(queue, sock[w]) /\ conn' = conn
    BY <1>6, <1>t DEF Requeue, TypeOK
  <2>3. /\ \A i \in DOMAIN queue : i \in DOMAIN queue' /\ queue'[i] = queue[i]
        /\ \A i \in DOMAIN queue' : i \in DOMAIN queue \/ i = Len(queue) + 1
        /\ queue'[Len(queue) + 1] = sock[w]
    BY <2>1, <2>2, <1>t, AppendElements DEF TypeOK
  <2>4. \A i \in DOMAIN queue' : conn'[queue'[i]] # None
    BY <2>1, <2>2, <2>3, <1>o
  <2>5. \A i, j \in DOMAIN queue' : queue'[i] = queue'[j] => i = j
    BY <2>3, <1>o
  <2>6. \A v \in Workers, i \in DOMAIN queue' : sock'[v] # queue'[i]
    BY <2>1, <2>2, <2>3, <1>o, <1>q
  <2> QED
    BY <2>2, <2>4, <2>5, <2>6, <1>o
<1>7. ASSUME NEW c \in Conns,
             \/ Connect(c) \/ HostResets(c)
             \/ \E u \in Units : SendUnit(c, u)
             \/ \E how \in {"closed", "aborted"} : ClientClose(c, how)
      PROVE UNCHANGED <<conn, queue, sock>>
  BY <1>7 DEF Connect, HostResets, SendUnit, ClientClose
<1>8. ASSUME AcceptFails \/ BeginStop \/ LeaveLoop \/ StopPool \/ Joined \/ UNCHANGED vars
      PROVE UNCHANGED <<conn, queue, sock>>
  BY <1>8 DEF AcceptFails, BeginStop, LeaveLoop, StopPool, Joined, vars
<1>9. ASSUME NEW w \in Workers,
             \/ Check(w) \/ RecvLength(w) \/ RecvBody(w) \/ Process(w)
             \/ SendLength(w) \/ SendBody(w) \/ BrokenPipe(w)
      PROVE UNCHANGED <<conn, queue, sock>>
  BY <1>9 DEF Check, RecvLength, RecvBody, Process, SendLength, SendBody, BrokenPipe
<1>10. ASSUME \/ UNCHANGED <<conn, queue, sock>>
             \/ (\E f \in Fds : Accept(f))
             \/ \E w \in Workers : Poll(w) \/ Drop(w) \/ SendFails(w) \/ ProcessFails(w) \/ Requeue(w)
       PROVE SocketsInOnePlace'
  <2> HIDE DEF SocketsInOnePlace
  <2> QED
    BY <1>10, <1>1, <1>2, <1>3, <1>4, <1>5, <1>6
<1> HIDE DEF SocketsInOnePlace
<1> QED
  BY <1>7, <1>8, <1>9, <1>10 DEF Next, WorkerStep, Ended

\* A worker past its poll has an open socket, which no other worker and no
\* place in the queue shares, and a connection that is not in the backlog.
LEMMA Holder ==
    ASSUME IInv, NEW w \in Workers, pc[w] \in Holding
    PROVE  /\ sock[w] \in Fds /\ Served(w) \in Conns
           /\ peer[Served(w)] # "none"
           /\ \A v \in Workers : pc[v] \in Holding /\ v # w => Served(v) # Served(w)
           /\ \A i \in DOMAIN queue : conn[queue[i]] # Served(w)
           /\ \A i \in DOMAIN backlog : backlog[i] # Served(w)
<1>t. TypeOK /\ SocketsInOnePlace
  BY DEF IInv
<1>1. \A v \in Workers : pc[v] \in Holding => sock[v] \in Fds /\ Served(v) # None
  BY <1>t DEF TypeOK, SocketsInOnePlace, Served
<1>2. sock[w] \in Fds /\ Served(w) \in Conns
  BY <1>1, <1>t DEF TypeOK, Served
<1>3. \A v \in Workers : pc[v] \in Holding /\ v # w => Served(v) # Served(w)
  BY <1>1, <1>2, <1>t, PoolAssumption DEF SocketsInOnePlace, Served
<1>4. \A i \in DOMAIN queue : conn[queue[i]] # Served(w)
  <2>1. \A i \in DOMAIN queue : queue[i] \in Fds
    BY <1>t, QueueElements DEF TypeOK
  <2> QED
    BY <2>1, <1>1, <1>2, <1>t DEF SocketsInOnePlace, Served
<1>5. peer[Served(w)] # "none" /\ \A i \in DOMAIN backlog : backlog[i] # Served(w)
  BY <1>1, <1>2 DEF IInv, BacklogInv, Served
<1> QED
  BY <1>2, <1>3, <1>4, <1>5

\* What a step of worker w may do to the history and to the peers.
LEMMA WorkerEffect ==
    ASSUME IInv, NEW w \in Workers, WorkerStep(w)
    PROVE  /\ backlog' = backlog
           /\ \A c \in Conns : peer'[c] = "none" <=> peer[c] = "none"
           /\ \A c \in Conns : unanswered'[c] # unanswered[c]
                  => pc[w] \in Holding /\ c = Served(w)
           /\ \A f \in Fds : conn'[f] = conn[f] \/ conn'[f] = None
<1>t. TypeOK
  BY DEF IInv
<1>1. CASE Check(w) \/ Poll(w) \/ Process(w) \/ ProcessFails(w) \/ BrokenPipe(w) \/ Requeue(w)
  BY <1>1 DEF Check, Poll, Process, ProcessFails, BrokenPipe, Requeue
<1>2. CASE RecvLength(w) \/ RecvBody(w)
  BY <1>2, <1>t DEF RecvLength, RecvBody, Holding, TypeOK
<1>3. CASE Drop(w) \/ SendFails(w)
  <2>1. /\ conn' = [conn EXCEPT ![sock[w]] = None]
        /\ peer' = [peer EXCEPT ![Served(w)] = "dropped"]
        /\ UNCHANGED <<backlog, unanswered>>
        /\ pc[w] \in Holding
    BY <1>3 DEF Drop, SendFails, Close, Holding
  <2> QED
    BY <2>1, <1>t, Holder DEF TypeOK
<1>4. CASE SendLength(w) \/ SendBody(w)
  <2>1. /\ \A c \in Conns : peer'[c] = "none" <=> peer[c] = "none"
        /\ UNCHANGED <<backlog, conn>>
    BY <1>4, <1>t DEF SendLength, SendBody, Write, TypeOK
  <2>2. \A c \in Conns : unanswered'[c] # unanswered[c] => pc[w] \in Holding /\ c = Served(w)
    BY <1>4, <1>t DEF SendLength, SendBody, Holding, TypeOK
  <2> QED
    BY <2>1, <2>2
<1> QED
  BY <1>1, <1>2, <1>3, <1>4 DEF WorkerStep

\* Every step keeps the backlog apart from what was accepted.
LEMMA BacklogStep == IInv /\ [Next]_vars => BacklogInv'
<1> SUFFICES ASSUME IInv, [Next]_vars PROVE BacklogInv'
  OBVIOUS
<1>t. TypeOK /\ BacklogInv
  BY DEF IInv
<1>b. \A i \in DOMAIN backlog : backlog[i] \in Conns
  BY <1>t, QueueElements DEF TypeOK
<1>1. ASSUME NEW c \in Conns, Connect(c) PROVE BacklogInv'
  <2>1. /\ peer[c] = "none" /\ backlog' = Append(backlog, c)
        /\ \A d \in Conns : peer'[d] = IF d = c THEN "open" ELSE peer[d]
        /\ UNCHANGED <<conn, unanswered>>
    BY <1>1, <1>t DEF Connect, TypeOK
  <2>2. /\ \A i \in DOMAIN backlog : i \in DOMAIN backlog' /\ backlog'[i] = backlog[i]
        /\ \A i \in DOMAIN backlog' : i \in DOMAIN backlog \/ i = Len(backlog) + 1
        /\ backlog'[Len(backlog) + 1] = c
    <3>1. backlog \in Seq(Conns)
      BY <1>t DEF TypeOK
    <3> QED
      BY <2>1, <3>1, AppendElements
  <2>3. \A i \in DOMAIN backlog : backlog[i] # c
    BY <2>1, <1>t DEF BacklogInv
  <2>4. \A i, j \in DOMAIN backlog' : backlog'[i] = backlog'[j] => i = j
    BY <2>2, <2>3, <1>t DEF BacklogInv
  <2>5. \A f \in Fds : conn[f] # c
    BY <2>1, <1>t, PoolAssumption DEF BacklogInv
  <2>6. \A f \in Fds : conn'[f] # None => peer'[conn'[f]] # "none"
    BY <2>1, <1>t DEF BacklogInv, TypeOK
  <2>7. \A i \in DOMAIN backlog' : /\ peer'[backlog'[i]] # "none"
                                   /\ unanswered'[backlog'[i]] = 0
                                   /\ \A f \in Fds : conn'[f] # backlog'[i]
    BY <2>1, <2>2, <2>5, <1>t, <1>b DEF BacklogInv
  <2>8. \A d \in Conns : peer'[d] = "none" => unanswered'[d] = 0
    BY <2>1, <1>t DEF BacklogInv
  <2> QED
    BY <2>4, <2>6, <2>7, <2>8 DEF BacklogInv
<1>2. ASSUME /\ \A c \in Conns : peer'[c] = "none" <=> peer[c] = "none"
             /\ UNCHANGED <<backlog, conn, unanswered>>
      PROVE BacklogInv'
  BY <1>2, <1>t, <1>b DEF BacklogInv, TypeOK
<1>3. ASSUME NEW c \in Conns,
             \/ HostResets(c)
             \/ \E u \in Units : SendUnit(c, u)
             \/ \E how \in {"closed", "aborted"} : ClientClose(c, how)
      PROVE BacklogInv'
  <2>1. /\ \A d \in Conns : peer'[d] = "none" <=> peer[d] = "none"
        /\ UNCHANGED <<backlog, conn, unanswered>>
    BY <1>3, <1>t DEF HostResets, SendUnit, ClientClose, TypeOK
  <2> QED
    BY <2>1, <1>2
<1>4. ASSUME NEW f \in Fds, Accept(f) PROVE BacklogInv'
  <2>1. /\ backlog # <<>> /\ backlog' = Tail(backlog)
        /\ conn' = [conn EXCEPT ![f] = Head(backlog)]
        /\ UNCHANGED <<peer, unanswered>>
    BY <1>4 DEF Accept
  <2>2. /\ 1 \in DOMAIN backlog /\ backlog[1] = Head(backlog)
        /\ \A i \in DOMAIN backlog' : /\ i \in Nat /\ i + 1 \in DOMAIN backlog /\ i + 1 # 1
                                       /\ backlog'[i] = backlog[i + 1]
    <3>1. backlog \in Seq(Conns)
      BY <1>t DEF TypeOK
    <3> QED
      BY <2>1, <3>1, TailElements
  <2>3. \A g \in Fds : conn'[g] = IF g = f THEN Head(backlog) ELSE conn[g]
    BY <2>1, <1>t DEF TypeOK
  <2>4. \A i, j \in DOMAIN backlog' : backlog'[i] = backlog'[j] => i = j
    BY <2>2, <1>t DEF BacklogInv
  <2>5. \A i \in DOMAIN backlog' : peer[backlog'[i]] # "none" /\ unanswered[backlog'[i]] = 0
    BY <2>2, <1>t DEF BacklogInv
  <2>6. \A i \in DOMAIN backlog' : backlog'[i] # Head(backlog)
    BY <2>2, <1>t DEF BacklogInv
  <2>7. \A i \in DOMAIN backlog', g \in Fds : conn'[g] # backlog'[i]
    BY <2>2, <2>3, <2>6, <1>t DEF BacklogInv
  <2>8. \A g \in Fds : conn'[g] # None => peer[conn'[g]] # "none"
    BY <2>2, <2>3, <1>t DEF BacklogInv
  <2> QED
    BY <2>1, <2>4, <2>5, <2>7, <2>8, <1>t DEF BacklogInv
<1>5. CASE AcceptFails \/ BeginStop \/ LeaveLoop \/ StopPool \/ Joined \/ UNCHANGED vars
  BY <1>5, <1>2 DEF AcceptFails, BeginStop, LeaveLoop, StopPool, Joined, vars
<1>6. ASSUME NEW w \in Workers, WorkerStep(w) PROVE BacklogInv'
  <2>1. /\ backlog' = backlog
        /\ \A c \in Conns : peer'[c] = "none" <=> peer[c] = "none"
        /\ \A f \in Fds : conn'[f] = conn[f] \/ conn'[f] = None
    BY <1>6, WorkerEffect
  <2>2. \A c \in Conns : unanswered'[c] # unanswered[c]
           => peer[c] # "none" /\ \A i \in DOMAIN backlog : backlog[i] # c
    BY <1>6, WorkerEffect, Holder
  <2>3. \A i \in DOMAIN backlog : /\ peer'[backlog[i]] # "none"
                                  /\ unanswered'[backlog[i]] = 0
                                  /\ \A f \in Fds : conn'[f] # backlog[i]
    BY <2>1, <2>2, <1>b, <1>t, PoolAssumption DEF BacklogInv
  <2>4. \A f \in Fds : conn'[f] # None => peer'[conn'[f]] # "none"
    BY <2>1, <1>t DEF BacklogInv, TypeOK
  <2>5. \A c \in Conns : peer'[c] = "none" => unanswered'[c] = 0
    BY <2>1, <2>2, <1>t DEF BacklogInv
  <2> QED
    BY <2>1, <2>3, <2>4, <2>5, <1>t DEF BacklogInv
<1> QED
  BY <1>1, <1>3, <1>4, <1>5, <1>6 DEF Next, Ended

\* Every step keeps the ends of connections that have a descriptor.
LEMMA AttachedStep == IInv /\ [Next]_vars => AttachedInv'
<1> SUFFICES ASSUME IInv, [Next]_vars PROVE AttachedInv'
  OBVIOUS
<1>t. TypeOK /\ AttachedInv /\ SocketsInOnePlace
  BY DEF IInv
<1>b. backlog \in Seq(Conns) /\ \A i \in DOMAIN backlog : backlog[i] \in Conns
  BY <1>t, QueueElements DEF TypeOK
<1>1. ASSUME /\ \A c \in Conns : peer'[c] = "dropped" => peer[c] = "dropped"
             /\ UNCHANGED <<backlog, conn>>
      PROVE AttachedInv'
  BY <1>1, <1>t, <1>b DEF AttachedInv, TypeOK
<1>2. ASSUME NEW c \in Conns, Connect(c) PROVE AttachedInv'
  <2>1. /\ \A d \in Conns : peer'[d] = "dropped" => peer[d] = "dropped"
        /\ peer'[c] # "dropped" /\ conn' = conn /\ backlog' = Append(backlog, c)
    BY <1>2, <1>t DEF Connect, TypeOK
  <2>2. \A i \in DOMAIN backlog' :
           (i \in DOMAIN backlog /\ backlog'[i] = backlog[i]) \/ backlog'[i] = c
    BY <2>1, <1>b, AppendElements
  <2> QED
    BY <2>1, <2>2, <1>t, <1>b DEF AttachedInv, TypeOK
<1>3. ASSUME NEW c \in Conns,
             \/ HostResets(c)
             \/ \E u \in Units : SendUnit(c, u)
             \/ \E how \in {"closed", "aborted"} : ClientClose(c, how)
      PROVE AttachedInv'
  <2>1. /\ \A d \in Conns : peer'[d] = "dropped" => peer[d] = "dropped"
        /\ UNCHANGED <<backlog, conn>>
    BY <1>3, <1>t DEF HostResets, SendUnit, ClientClose, TypeOK
  <2> QED
    BY <2>1, <1>1
<1>4. ASSUME NEW f \in Fds, Accept(f) PROVE AttachedInv'
  <2>1. /\ backlog # <<>> /\ backlog' = Tail(backlog) /\ peer' = peer
        /\ conn' = [conn EXCEPT ![f] = Head(backlog)]
    BY <1>4 DEF Accept
  <2>2. /\ 1 \in DOMAIN backlog /\ backlog[1] = Head(backlog)
        /\ \A i \in DOMAIN backlog' : i + 1 \in DOMAIN backlog /\ backlog'[i] = backlog[i + 1]
    BY <2>1, <1>b, TailElements
  <2>3. \A g \in Fds : conn'[g] = IF g = f THEN Head(backlog) ELSE conn[g]
    BY <2>1, <1>t DEF TypeOK
  <2> QED
    BY <2>1, <2>2, <2>3, <1>t DEF AttachedInv
<1>5. CASE AcceptFails \/ BeginStop \/ LeaveLoop \/ StopPool \/ Joined \/ UNCHANGED vars
  BY <1>5, <1>1 DEF AcceptFails, BeginStop, LeaveLoop, StopPool, Joined, vars
<1>6. ASSUME NEW w \in Workers, Drop(w) \/ SendFails(w) PROVE AttachedInv'
  <2>1. /\ conn' = [conn EXCEPT ![sock[w]] = None] /\ backlog' = backlog
        /\ peer' = [peer EXCEPT ![Served(w)] = "dropped"]
        /\ pc[w] \in Holding
    BY <1>6 DEF Drop, SendFails, Close, Holding
  <2>2. /\ sock[w] \in Fds /\ Served(w) \in Conns
        /\ \A i \in DOMAIN backlog : backlog[i] # Served(w)
    BY <2>1, Holder
  <2>3. \A g \in Fds : conn'[g] = IF g = sock[w] THEN None ELSE conn[g]
    BY <2>1, <1>t DEF TypeOK
  <2>4. \A g \in Fds : conn'[g] # None => conn[g] \in Conns /\ conn[g] # Served(w)
    BY <2>2, <2>3, <1>t DEF TypeOK, SocketsInOnePlace, Served
  <2>5. \A c \in Conns : c # Served(w) => peer'[c] = peer[c]
    BY <2>1, <1>t DEF TypeOK
  <2>6. \A g \in Fds : conn'[g] # None => peer'[conn'[g]] # "dropped"
    BY <2>3, <2>4, <2>5, <1>t DEF AttachedInv
  <2> QED
    BY <2>1, <2>2, <2>5, <2>6, <1>b, <1>t DEF AttachedInv
<1>7. ASSUME NEW w \in Workers,
             \/ Check(w) \/ Poll(w) \/ RecvLength(w) \/ RecvBody(w) \/ Process(w)
             \/ ProcessFails(w) \/ SendLength(w) \/ SendBody(w) \/ BrokenPipe(w) \/ Requeue(w)
      PROVE AttachedInv'
  <2>1. /\ \A c \in Conns : peer'[c] = "dropped" => peer[c] = "dropped"
        /\ UNCHANGED <<backlog, conn>>
    BY <1>7, <1>t DEF Check, Poll, RecvLength, RecvBody, Process, ProcessFails, SendLength,
       SendBody, BrokenPipe, Requeue, Write, TypeOK
  <2> QED
    BY <2>1, <1>1
<1> QED
  BY <1>2, <1>3, <1>4, <1>5, <1>6, <1>7 DEF Next, WorkerStep, Ended

\* A step of worker w leaves the connections of other workers, and those in
\* the queue, as they are.
LEMMA OthersStay ==
    ASSUME IInv, NEW w \in Workers, WorkerStep(w)
    PROVE  /\ \A v \in Workers \ {w} : pc'[v] = pc[v]
           /\ \A v \in Workers \ {w} : pc[v] \in Holding
                 => /\ conn'[sock'[v]] = Served(v)
                    /\ unanswered'[Served(v)] = unanswered[Served(v)]
           /\ \A i \in DOMAIN queue : /\ conn'[queue[i]] = conn[queue[i]]
                                      /\ unanswered'[conn[queue[i]]] = unanswered[conn[queue[i]]]
<1>t. TypeOK /\ SocketsInOnePlace
  BY DEF IInv
<1>1. \A v \in Workers \ {w} : pc'[v] = pc[v] /\ sock'[v] = sock[v]
  BY <1>t DEF WorkerStep, Check, Poll, RecvLength, RecvBody, Drop, Process, ProcessFails,
     SendLength, SendBody, SendFails, BrokenPipe, Requeue, Move, TypeOK
<1>2. \A f \in Fds : conn'[f] # conn[f] => f = sock[w] /\ pc[w] \in Holding
  <2>1. CASE Drop(w) \/ SendFails(w)
    <3>1. conn' = [conn EXCEPT ![sock[w]] = None] /\ pc[w] \in Holding
      BY <2>1 DEF Drop, SendFails, Close, Holding
    <3> QED
      BY <3>1, <1>t DEF TypeOK
  <2>2. CASE ~(Drop(w) \/ SendFails(w))
    BY <2>2 DEF WorkerStep, Check, Poll, RecvLength, RecvBody, Process, ProcessFails,
       SendLength, SendBody, BrokenPipe, Requeue
  <2> QED
    BY <2>1, <2>2
<1>3. \A v \in Workers : pc[v] \in Holding
         => sock[v] \in Fds /\ Served(v) \in Conns /\ (v # w => sock[v] # sock[w])
  BY Holder, <1>t, PoolAssumption DEF SocketsInOnePlace
<1>4. \A i \in DOMAIN queue : queue[i] \in Fds /\ conn[queue[i]] \in Conns /\ queue[i] # sock[w]
  <2>1. \A i \in DOMAIN queue : queue[i] \in Fds
    BY <1>t, QueueElements DEF TypeOK
  <2> QED
    BY <2>1, <1>t DEF SocketsInOnePlace, TypeOK
<1>5. \A c \in Conns : unanswered'[c] # unanswered[c] => pc[w] \in Holding /\ c = Served(w)
  BY WorkerEffect
<1>6. ASSUME NEW v \in Workers \ {w}, pc[v] \in Holding
      PROVE  /\ conn'[sock'[v]] = Served(v)
             /\ unanswered'[Served(v)] = unanswered[Served(v)]
  <2>1. conn'[sock[v]] = conn[sock[v]]
    BY <1>2, <1>3, <1>6
  <2>2. pc[w] \in Holding => Served(v) # Served(w)
    BY <1>6, Holder
  <2> QED
    BY <2>1, <2>2, <1>1, <1>3, <1>5, <1>6 DEF Served
<1>7. ASSUME NEW i \in DOMAIN queue
      PROVE  /\ conn'[queue[i]] = conn[queue[i]]
             /\ unanswered'[conn[queue[i]]] = unanswered[conn[queue[i]]]
  <2>1. pc[w] \in Holding => conn[queue[i]] # Served(w)
    BY <1>7, Holder
  <2> QED
    BY <2>1, <1>2, <1>4, <1>5, <1>7
<1> QED
  BY <1>1, <1>6, <1>7

\* Where worker w is after its step, and what it then owes its connection.
LEMMA OwnAnswers ==
    ASSUME IInv, NEW w \in Workers, WorkerStep(w)
    PROVE  /\ pc'[w] \in {"length", "body", "requeue"} => unanswered'[conn'[sock'[w]]] = 0
           /\ pc'[w] \in {"process", "sendLength", "sendBody"}
                 => unanswered'[conn'[sock'[w]]] = 1
<1> DEFINE Goal == /\ pc'[w] \in {"length", "body", "requeue"} => unanswered'[conn'[sock'[w]]] = 0
                   /\ pc'[w] \in {"process", "sendLength", "sendBody"}
                         => unanswered'[conn'[sock'[w]]] = 1
<1>t. TypeOK
  BY DEF IInv
<1>a. /\ pc[w] \in {"length", "body", "requeue"} => unanswered[Served(w)] = 0
      /\ pc[w] \in {"process", "sendLength", "sendBody"} => unanswered[Served(w)] = 1
  BY DEF IInv, AnswersInv
<1>1. CASE Check(w) \/ ProcessFails(w) \/ Drop(w) \/ SendFails(w) \/ Requeue(w)
  <2>1. pc'[w] \in {"top", "poll", "exit"}
    BY <1>1, <1>t DEF Check, ProcessFails, Drop, SendFails, Requeue, Move, TypeOK
  <2> QED
    BY <2>1
<1>2. CASE Poll(w)
  <2>1. CASE queue = <<>>
    BY <1>2, <2>1, <1>t DEF Poll, Move, TypeOK
  <2>2. CASE queue # <<>>
    <3>1. /\ pc'[w] = "length" /\ sock'[w] = Head(queue)
          /\ conn' = conn /\ unanswered' = unanswered
      BY <1>2, <2>2, <1>t DEF Poll, Move, TypeOK
    <3>2. 1 \in DOMAIN queue /\ queue[1] = Head(queue)
      <4>1. queue \in Seq(Fds)
        BY <1>t DEF TypeOK
      <4> QED
        BY <4>1, <2>2, TailElements
    <3>3. unanswered[conn[Head(queue)]] = 0
      BY <3>2 DEF IInv, QueuedAreAnswered
    <3> QED
      BY <3>1, <3>3
  <2> QED
    BY <2>1, <2>2
<1>3. CASE RecvLength(w) \/ RecvBody(w)
  <2>1. pc[w] \in {"length", "body"} /\ Served(w) \in Conns
    BY <1>3, Holder DEF RecvLength, RecvBody, Holding
  <2>2. conn' = conn /\ sock' = sock
    BY <1>3 DEF RecvLength, RecvBody
  <2>3. \/ pc'[w] = "body" /\ unanswered' = unanswered
        \/ pc'[w] = "process" /\ unanswered' = [unanswered EXCEPT ![Served(w)] = @ + 1]
    BY <1>3, <1>t DEF RecvLength, RecvBody, Move, TypeOK
  <2>4. pc'[w] = "process" /\ unanswered' = [unanswered EXCEPT ![Served(w)] = @ + 1]
          => unanswered'[Served(w)] = 1
    BY <2>1, <1>a, <1>t DEF TypeOK
  <2> QED
    BY <2>1, <2>2, <2>3, <2>4, <1>a DEF Served
<1>4. CASE Process(w) \/ SendLength(w) \/ BrokenPipe(w)
  <2>1. /\ pc[w] \in {"process", "sendLength", "sendBody"}
        /\ pc'[w] \in {"process", "sendLength", "sendBody"}
        /\ UNCHANGED <<conn, sock, unanswered>>
    BY <1>4, <1>t DEF Process, SendLength, BrokenPipe, Move, TypeOK
  <2> QED
    BY <2>1, <1>a DEF Served
<1>5. CASE SendBody(w)
  <2>1. pc[w] = "sendBody" /\ Served(w) \in Conns
    BY <1>5, Holder DEF SendBody, Holding
  <2>2. /\ pc'[w] = "requeue" /\ conn' = conn /\ sock' = sock
        /\ unanswered' = [unanswered EXCEPT ![Served(w)] = @ - 1]
    BY <1>5, <1>t DEF SendBody, Move, TypeOK
  <2>3. unanswered'[Served(w)] = 0
    BY <2>1, <2>2, <1>a, <1>t DEF TypeOK
  <2> QED
    BY <2>2, <2>3 DEF Served
<1> QED
  BY <1>1, <1>2, <1>3, <1>4, <1>5 DEF WorkerStep

\* Every step keeps the account of answers.
LEMMA AnswersStep == IInv /\ [Next]_vars => QueuedAreAnswered' /\ AnswersInv'
<1> SUFFICES ASSUME IInv, [Next]_vars PROVE QueuedAreAnswered' /\ AnswersInv'
  OBVIOUS
<1>t. TypeOK
  BY DEF IInv
<1>a. QueuedAreAnswered /\ AnswersInv
  BY DEF IInv
<1>1. ASSUME UNCHANGED <<queue, conn, pc, sock, unanswered>>
      PROVE  QueuedAreAnswered' /\ AnswersInv'
  BY <1>1, <1>a DEF QueuedAreAnswered, AnswersInv, Served
<1>2. ASSUME NEW c \in Conns,
             \/ Connect(c) \/ HostResets(c)
             \/ \E u \in Units : SendUnit(c, u)
             \/ \E how \in {"closed", "aborted"} : ClientClose(c, how)
      PROVE  UNCHANGED <<queue, conn, pc, sock, unanswered>>
  BY <1>2 DEF Connect, HostResets, SendUnit, ClientClose
<1>3. ASSUME AcceptFails \/ BeginStop \/ LeaveLoop \/ StopPool \/ Joined \/ UNCHANGED vars
      PROVE  UNCHANGED <<queue, conn, pc, sock, unanswered>>
  BY <1>3 DEF AcceptFails, BeginStop, LeaveLoop, StopPool, Joined, vars
<1>4. ASSUME NEW f \in Fds, Accept(f) PROVE QueuedAreAnswered' /\ AnswersInv'
  <2>1. /\ backlog # <<>> /\ conn[f] = None
        /\ conn' = [conn EXCEPT ![f] = Head(backlog)]
        /\ queue' = Append(queue, f)
        /\ UNCHANGED <<pc, sock, unanswered>>
    BY <1>4 DEF Accept
  <2>2. unanswered[Head(backlog)] = 0
    <3>1. backlog \in Seq(Conns)
      BY <1>t DEF TypeOK
    <3>2. 1 \in DOMAIN backlog /\ backlog[1] = Head(backlog)
      BY <2>1, <3>1, TailElements
    <3> QED
      BY <3>2 DEF IInv, BacklogInv
  <2>3. \A g \in Fds : conn'[g] = IF g = f THEN Head(backlog) ELSE conn[g]
    BY <2>1, <1>t DEF TypeOK
  <2>4. /\ \A i \in DOMAIN queue : queue'[i] = queue[i]
        /\ \A i \in DOMAIN queue' : i \in DOMAIN queue \/ queue'[i] = f
    <3>1. queue \in Seq(Fds)
      BY <1>t DEF TypeOK
    <3> QED
      BY <2>1, <3>1, AppendElements
  <2>5. \A i \in DOMAIN queue : queue[i] \in Fds
    BY <1>t, QueueElements DEF TypeOK
  <2>6. QueuedAreAnswered'
    BY <2>1, <2>2, <2>3, <2>4, <2>5, <1>a DEF QueuedAreAnswered
  <2>7. \A w \in Workers : pc[w] \in Holding => sock[w] \in Fds /\ conn'[sock[w]] = Served(w)
    <3>1. \A w \in Workers : pc[w] \in Holding => sock[w] \in Fds /\ Served(w) # None
      BY Holder, PoolAssumption
    <3> QED
      BY <3>1, <2>1, <2>3 DEF Served
  <2>8. AnswersInv'
    BY <2>1, <2>7, <1>a DEF AnswersInv, Served, Holding
  <2> QED
    BY <2>6, <2>8
<1>5. ASSUME NEW w \in Workers, WorkerStep(w) PROVE QueuedAreAnswered' /\ AnswersInv'
  <2>1. AnswersInv'
    <3>1. \A v \in Workers \ {w} : pc'[v] \in {"length", "body", "requeue"}
             => unanswered'[conn'[sock'[v]]] = 0
      BY <1>5, <1>a, OthersStay DEF AnswersInv, Holding
    <3>2. \A v \in Workers \ {w} : pc'[v] \in {"process", "sendLength", "sendBody"}
             => unanswered'[conn'[sock'[v]]] = 1
      BY <1>5, <1>a, OthersStay DEF AnswersInv, Holding
    <3> QED
      BY <1>5, <3>1, <3>2, OwnAnswers DEF AnswersInv, Served
  <2>2. \A i \in DOMAIN queue : unanswered'[conn'[queue[i]]] = 0
    BY <1>5, <1>a, OthersStay DEF QueuedAreAnswered
  <2>3. CASE Requeue(w)
    <3>1. /\ pc[w] = "requeue" /\ queue' = Append(queue, sock[w])
          /\ UNCHANGED <<conn, unanswered>>
      BY <2>3 DEF Requeue
    <3>2. sock[w] \in Fds /\ unanswered[conn[sock[w]]] = 0
      BY <3>1, <1>a, Holder DEF AnswersInv, Served, Holding
    <3>3. \A i \in DOMAIN queue' : (i \in DOMAIN queue /\ queue'[i] = queue[i]) \/ queue'[i] = sock[w]
      <4>1. queue \in Seq(Fds)
        BY <1>t DEF TypeOK
      <4> QED
        BY <3>1, <3>2, <4>1, AppendElements
    <3> QED
      BY <3>1, <3>2, <3>3, <2>1, <2>2 DEF QueuedAreAnswered
  <2>4. CASE Poll(w) /\ queue # <<>>
    <3>1. queue' = Tail(queue)
      BY <2>4 DEF Poll
    <3>2. \A i \in DOMAIN queue' : i + 1 \in DOMAIN queue /\ queue'[i] = queue[i + 1]
      <4>1. queue \in Seq(Fds)
        BY <1>t DEF TypeOK
      <4> QED
        BY <2>4, <3>1, <4>1, TailElements
    <3> QED
      BY <3>2, <2>1, <2>2 DEF QueuedAreAnswered
  <2>5. CASE UNCHANGED queue
    BY <2>1, <2>2, <2>5 DEF QueuedAreAnswered
  <2>6. Requeue(w) \/ (Poll(w) /\ queue # <<>>) \/ UNCHANGED queue
    BY <1>5 DEF WorkerStep, Check, Poll, RecvLength, RecvBody, Drop, Process, ProcessFails,
       SendLength, SendBody, SendFails, BrokenPipe
  <2> QED
    BY <2>3, <2>4, <2>5, <2>6
<1> QED
  BY <1>1, <1>2, <1>3, <1>4, <1>5 DEF Next, Ended

-----------------------------------------------------------------------------
(* Descriptors that nobody has any more. *)

Held(f) == \/ \E i \in DOMAIN queue : queue[i] = f
           \/ \E w \in Workers : sock[w] = f

\* A descriptor gets lost only with a response missing on its connection.
LeaksInv == \A f \in Fds : conn[f] # None /\ ~Held(f) => unanswered[conn[f]] # 0

\* A worker's step lets go of an open descriptor without a response only.
LEMMA HeldStays ==
    ASSUME IInv, NEW w \in Workers, WorkerStep(w),
           NEW f \in Fds, Held(f), conn'[f] # None
    PROVE  Held(f)' \/ (ProcessFails(w) /\ f = sock[w])
<1>t. TypeOK /\ queue \in Seq(Fds)
  BY DEF IInv, TypeOK
<1>1. CASE UNCHANGED <<queue, sock>>
  BY <1>1 DEF Held
<1>2. CASE Poll(w) /\ queue # <<>>
  <2>1. /\ queue' = Tail(queue) /\ sock[w] # f
        /\ \A v \in Workers : sock'[v] = IF v = w THEN Head(queue) ELSE sock[v]
    BY <1>2, <1>t, PoolAssumption DEF Poll, TypeOK, Holding
  <2>2. \A v \in Workers : sock[v] = f => sock'[v] = f
    BY <2>1
  <2>3. ASSUME NEW i \in DOMAIN queue, queue[i] = f
        PROVE  Held(f)'
    <3>1. CASE i = 1
      BY <2>1, <2>3, <3>1, <1>2, <1>t DEF Held
    <3>2. CASE i # 1
      <4>1. Len(Tail(queue)) = Len(queue) - 1 /\ Len(queue) \in Nat /\ i \in 1 .. Len(queue)
        BY <1>2, <1>t, HeadTailProperties, LenProperties
      <4>2. i - 1 \in DOMAIN queue' /\ queue'[i - 1] = queue[i]
        BY <1>2, <1>t, <2>1, <3>2, <4>1, HeadTailProperties, LenProperties
      <4> QED
        BY <2>3, <4>2 DEF Held
    <3> QED
      BY <3>1, <3>2
  <2> QED
    BY <2>2, <2>3 DEF Held
<1>3. CASE Drop(w) \/ SendFails(w) \/ ProcessFails(w)
  <2>1. queue' = queue /\ \A v \in Workers \ {w} : sock'[v] = sock[v]
    BY <1>3, <1>t DEF Drop, SendFails, ProcessFails, TypeOK
  <2>2. Drop(w) \/ SendFails(w) => sock[w] # f
    BY <1>t DEF Drop, SendFails, Close, TypeOK
  <2> QED
    BY <2>1, <2>2, <1>3 DEF Held
<1>4. CASE Requeue(w)
  <2>1. /\ sock[w] \in Fds /\ queue' = Append(queue, sock[w])
        /\ \A v \in Workers \ {w} : sock'[v] = sock[v]
    BY <1>4, <1>t DEF Requeue, TypeOK, Holding
  <2>2. /\ \A i \in DOMAIN queue : i \in DOMAIN queue' /\ queue'[i] = queue[i]
        /\ Len(queue) + 1 \in DOMAIN queue' /\ queue'[Len(queue) + 1] = sock[w]
    BY <2>1, <1>t, AppendProperties, LenProperties
  <2> QED
    BY <2>1, <2>2 DEF Held
<1>5. UNCHANGED <<queue, sock>> \/ (Poll(w) /\ queue # <<>>) \/ Drop(w) \/ SendFails(w)
         \/ ProcessFails(w) \/ Requeue(w)
  BY DEF WorkerStep, Check, Poll, RecvLength, RecvBody, Process, SendLength, SendBody, BrokenPipe
<1> QED
  BY <1>1, <1>2, <1>3, <1>4, <1>5

\* Every step keeps the account of lost descriptors.
LEMMA LeaksStep == IInv /\ LeaksInv /\ [Next]_vars => LeaksInv'
<1> SUFFICES ASSUME IInv, LeaksInv, [Next]_vars PROVE LeaksInv'
  OBVIOUS
<1>t. TypeOK
  BY DEF IInv
<1>1. ASSUME UNCHANGED <<conn, queue, sock, unanswered>> PROVE LeaksInv'
  BY <1>1 DEF LeaksInv, Held
<1>2. ASSUME NEW f \in Fds, Accept(f) PROVE LeaksInv'
  <2>1. /\ conn' = [conn EXCEPT ![f] = Head(backlog)]
        /\ queue' = Append(queue, f) /\ UNCHANGED <<sock, unanswered>>
    BY <1>2 DEF Accept
  <2>2. queue \in Seq(Fds)
    BY <1>t DEF TypeOK
  <2>3. /\ \A i \in DOMAIN queue : i \in DOMAIN queue' /\ queue'[i] = queue[i]
        /\ Len(queue) + 1 \in DOMAIN queue' /\ queue'[Len(queue) + 1] = f
    BY <2>1, <2>2, AppendProperties, LenProperties
  <2>4. Held(f)' /\ \A g \in Fds : Held(g) => Held(g)'
    BY <2>1, <2>3 DEF Held
  <2>5. \A g \in Fds \ {f} : conn'[g] = conn[g]
    BY <2>1, <1>t DEF TypeOK
  <2> QED
    BY <2>1, <2>4, <2>5 DEF LeaksInv
<1>3. ASSUME NEW w \in Workers, WorkerStep(w) PROVE LeaksInv'
  <2> SUFFICES ASSUME NEW f \in Fds, conn'[f] # None, ~Held(f)'
               PROVE  unanswered'[conn'[f]] # 0
    BY DEF LeaksInv
  <2>1. conn'[f] = conn[f] /\ conn[f] \in Conns
    BY <1>3, <1>t, WorkerEffect DEF TypeOK
  <2>2. CASE ~Held(f)
    <3>1. unanswered[conn[f]] # 0
      BY <2>1, <2>2 DEF LeaksInv
    <3>2. ~(pc[w] \in Holding /\ conn[f] = Served(w))
      BY <2>1, <2>2, Holder, PoolAssumption DEF Held, Served, IInv, SocketsInOnePlace
    <3> QED
      BY <1>3, <2>1, <3>1, <3>2, WorkerEffect
  <2>3. CASE Held(f)
    <3>1. ProcessFails(w) /\ f = sock[w]
      BY <1>3, <2>3, HeldStays
    <3>2. pc[w] = "process" /\ UNCHANGED <<conn, unanswered>>
      BY <3>1 DEF ProcessFails
    <3> QED
      BY <3>1, <3>2 DEF IInv, AnswersInv, Served
  <2> QED
    BY <2>2, <2>3
<1>4. ASSUME NEW c \in Conns,
             \/ Connect(c) \/ HostResets(c)
             \/ \E u \in Units : SendUnit(c, u)
             \/ \E how \in {"closed", "aborted"} : ClientClose(c, how)
      PROVE  LeaksInv'
  BY <1>1, <1>4 DEF Connect, HostResets, SendUnit, ClientClose
<1>5. CASE AcceptFails \/ BeginStop \/ LeaveLoop \/ StopPool \/ Joined \/ UNCHANGED vars
  BY <1>1, <1>5 DEF AcceptFails, BeginStop, LeaveLoop, StopPool, Joined, vars
<1> QED
  BY <1>2, <1>3, <1>4, <1>5 DEF Next, Ended

\* A lost descriptor's connection is forgotten: no worker has its command.
LEMMA LostIsForgotten == IInv /\ LeaksInv => LeaksAreForgotten
<1> SUFFICES ASSUME IInv, LeaksInv, NEW f \in Fds, conn[f] # None, ~Held(f)
             PROVE  StateOf(conn[f]) = "forgotten"
  BY DEF LeaksAreForgotten, Held
<1>1. unanswered[conn[f]] # 0
  BY DEF LeaksInv
<1>2. peer[conn[f]] \notin {"none", "dropped"}
  BY DEF IInv, BacklogInv, AttachedInv
<1>3. ~ \E w \in Workers : Busy(w) /\ Served(w) = conn[f]
  <2> SUFFICES ASSUME NEW w \in Workers, Busy(w), Served(w) = conn[f]
               PROVE  FALSE
    OBVIOUS
  <2>1. sock[w] \in Fds
    BY Holder DEF Busy, Holding
  <2>2. sock[w] = f
    BY <2>1 DEF IInv, SocketsInOnePlace, Served
  <2> QED
    BY <2>2 DEF Held
<1> QED
  BY <1>1, <1>2, <1>3 DEF StateOf

-----------------------------------------------------------------------------
(* The channel. *)

\* CommandChannel's state and hand.
S == [c \in Conns |-> StateOf(c)]
H == [w \in Workers |-> IF Busy(w) THEN Served(w) ELSE None]

\* A connection's state is told by its peer, its answers and the hands.
LEMMA StateFromHands ==
    ASSUME NEW c \in Conns
    PROVE  S[c] = IF peer[c] = "none" THEN "none"
                  ELSE IF peer[c] = "dropped" THEN "closed"
                  ELSE IF unanswered[c] = 0 \/ \E w \in Workers : H[w] = c THEN "open"
                  ELSE "forgotten"
<1>1. (\E w \in Workers : Busy(w) /\ Served(w) = c) <=> \E w \in Workers : H[w] = c
  BY PoolAssumption DEF H
<1> QED
  BY <1>1 DEF S, StateOf

\* The same of the next state.
LEMMA NextStateFromHands ==
    ASSUME NEW c \in Conns
    PROVE  S'[c] = IF peer'[c] = "none" THEN "none"
                   ELSE IF peer'[c] = "dropped" THEN "closed"
                   ELSE IF unanswered'[c] = 0 \/ \E w \in Workers : H'[w] = c THEN "open"
                   ELSE "forgotten"
<1>1. (\E w \in Workers : Busy(w)' /\ Served(w)' = c) <=> \E w \in Workers : H'[w] = c
  BY PoolAssumption DEF H
<1> QED
  BY <1>1 DEF S, StateOf

\* A worker whose command is open has its connection in its hand.
LEMMA Hands ==
    ASSUME IInv, NEW w \in Workers
    PROVE  /\ Busy(w) => H[w] = Served(w) /\ H[w] \in Conns /\ H[w] # None
           /\ ~Busy(w) => H[w] = None
           /\ pc[w] \in Holding => \A v \in Workers \ {w} : H[v] # Served(w)
<1>1. \A v \in Workers : Busy(v) => pc[v] \in Holding
  BY DEF Busy, Holding
<1>2. pc[w] \in Holding => Served(w) \in Conns
  BY Holder
<1>3. pc[w] \in Holding => \A v \in Workers \ {w} : pc[v] \in Holding => Served(v) # Served(w)
  BY Holder
<1> QED
  BY <1>1, <1>2, <1>3, PoolAssumption DEF H

\* A step of worker w leaves the hands of the others as they are.
LEMMA OtherHands ==
    ASSUME IInv, NEW w \in Workers, WorkerStep(w)
    PROVE  /\ \A v \in Workers \ {w} : H'[v] = H[v]
           /\ Busy(w)' => H'[w] = conn'[sock'[w]]
           /\ ~Busy(w)' => H'[w] = None
<1>1. ASSUME NEW v \in Workers \ {w} PROVE H'[v] = H[v]
  <2>1. pc'[v] = pc[v] /\ (pc[v] \in Holding => conn'[sock'[v]] = Served(v))
    BY OthersStay
  <2>2. Busy(v)' <=> Busy(v)
    BY <2>1 DEF Busy
  <2>3. Busy(v) => Served(v)' = Served(v)
    BY <2>1 DEF Busy, Holding, Served
  <2> QED
    BY <2>2, <2>3 DEF H
<1> QED
  BY <1>1 DEF H, Served

\* What neither moves a hand nor answers nor connects nor closes is not seen.
LEMMA Unseen ==
    ASSUME \A w \in Workers : H'[w] = H[w], UNCHANGED <<alive, unanswered>>,
           \A c \in Conns : /\ peer'[c] = "none" <=> peer[c] = "none"
                            /\ peer'[c] = "dropped" <=> peer[c] = "dropped"
    PROVE  UNCHANGED <<S, H, alive>>
<1>1. \A c \in Conns : S'[c] = S[c]
  BY StateFromHands, NextStateFromHands
<1>2. S' = S
  BY <1>1 DEF S
<1>3. H' = H
  BY DEF H
<1> QED
  BY <1>2, <1>3

\* The start of the pool is the start of the channel.
LEMMA ChannelInit == Init => Channel!Init
BY DEF Init, Channel!Init, StateOf, Busy

\* newConn opens.
LEMMA ConnectOpens ==
    ASSUME IInv, NEW c \in Conns, Connect(c)
    PROVE  Channel!Open(c)
<1>t. TypeOK /\ BacklogInv
  BY DEF IInv
<1>1. /\ alive /\ peer[c] = "none" /\ unanswered[c] = 0
      /\ \A d \in Conns : peer'[d] = IF d = c THEN "open" ELSE peer[d]
      /\ UNCHANGED <<conn, pc, sock, unanswered, alive>>
  BY <1>t DEF Connect, TypeOK, BacklogInv, process
<1>2. \A w \in Workers : H'[w] = H[w]
  BY <1>1 DEF H, Busy, Served
<1>3. S[c] = "none" /\ S'[c] = "open"
  BY <1>1, StateFromHands, NextStateFromHands
<1>4. \A d \in Conns \ {c} : S'[d] = S[d]
  BY <1>1, <1>2, StateFromHands, NextStateFromHands
<1>5. S' = [S EXCEPT ![c] = "open"]
  BY <1>3, <1>4 DEF S
<1>6. H' = H
  BY <1>2 DEF H
<1> QED
  BY <1>1, <1>3, <1>5, <1>6 DEF Channel!Open, S, H

\* Steps of clients, of the connections loop and of the main thread.
LEMMA OutsideUnseen ==
    ASSUME IInv,
           \/ \E c \in Conns : \/ HostResets(c)
                               \/ \E u \in Units : SendUnit(c, u)
                               \/ \E how \in {"closed", "aborted"} : ClientClose(c, how)
           \/ \E f \in Fds : Accept(f)
           \/ AcceptFails \/ BeginStop \/ LeaveLoop \/ StopPool \/ Joined \/ UNCHANGED vars
    PROVE  UNCHANGED <<S, H, alive>>
<1>t. TypeOK
  BY DEF IInv
<1>1. ASSUME NEW c \in Conns,
             \/ HostResets(c)
             \/ \E u \in Units : SendUnit(c, u)
             \/ \E how \in {"closed", "aborted"} : ClientClose(c, how)
      PROVE UNCHANGED <<S, H, alive>>
  <2>1. /\ \A d \in Conns : /\ peer'[d] = "none" <=> peer[d] = "none"
                            /\ peer'[d] = "dropped" <=> peer[d] = "dropped"
        /\ UNCHANGED <<conn, pc, sock, unanswered, alive>>
    BY <1>1, <1>t DEF HostResets, SendUnit, ClientClose, TypeOK, process
  <2>2. \A w \in Workers : H'[w] = H[w]
    BY <2>1 DEF H, Busy, Served
  <2> QED
    BY <2>1, <2>2, Unseen
<1>2. ASSUME NEW f \in Fds, Accept(f) PROVE UNCHANGED <<S, H, alive>>
  <2>1. /\ conn[f] = None /\ conn' = [conn EXCEPT ![f] = Head(backlog)]
        /\ UNCHANGED <<peer, pc, sock, unanswered, alive>>
    BY <1>2 DEF Accept, process
  <2>2. \A w \in Workers : Busy(w) => sock[w] \in Fds /\ sock[w] # f
    <3>1. \A w \in Workers : Busy(w) => sock[w] \in Fds /\ Served(w) \in Conns
      BY Holder DEF Busy, Holding
    <3> QED
      BY <2>1, <3>1, PoolAssumption DEF Served
  <2>3. \A w \in Workers : H'[w] = H[w]
    BY <2>1, <2>2, <1>t DEF H, Busy, Served, TypeOK
  <2> QED
    BY <2>1, <2>3, Unseen
<1>3. CASE AcceptFails \/ BeginStop \/ LeaveLoop \/ StopPool \/ Joined \/ UNCHANGED vars
  <2>1. UNCHANGED <<peer, conn, pc, sock, unanswered, alive>>
    BY <1>3 DEF AcceptFails, BeginStop, LeaveLoop, StopPool, Joined, vars, process
  <2> QED
    BY <2>1, Unseen DEF H, Busy, Served
<1> QED
  BY <1>1, <1>2, <1>3

\* threadLoop's steps between commands, and those inside processCommand and
\* between the two sends.
LEMMA InsideUnseen ==
    ASSUME IInv, NEW w \in Workers, WorkerStep(w),
           \/ Check(w) \/ Poll(w) \/ Process(w) \/ SendLength(w) \/ Requeue(w)
           \/ (RecvLength(w) \/ RecvBody(w)) /\ pc'[w] = "body"
    PROVE  UNCHANGED <<S, H, alive>>
<1>t. TypeOK
  BY DEF IInv
<1>1. /\ \A d \in Conns : /\ peer'[d] = "none" <=> peer[d] = "none"
                          /\ peer'[d] = "dropped" <=> peer[d] = "dropped"
      /\ UNCHANGED <<unanswered, alive>>
  BY <1>t DEF Check, Poll, Process, SendLength, Requeue, RecvLength, RecvBody, Move, Write,
     TypeOK, process
<1>2. H'[w] = H[w]
  <2>1. CASE Process(w) \/ SendLength(w)
    <3>1. Busy(w) /\ Busy(w)' /\ conn' = conn /\ sock' = sock
      BY <2>1, <1>t DEF Process, SendLength, Busy, Move, TypeOK
    <3> QED
      BY <3>1, Hands, OtherHands DEF Served
  <2>2. CASE ~(Process(w) \/ SendLength(w))
    <3>1. ~Busy(w) /\ ~Busy(w)'
      BY <2>2, <1>t DEF Check, Poll, Requeue, RecvLength, RecvBody, Busy, Move, TypeOK
    <3> QED
      BY <3>1, Hands, OtherHands
  <2> QED
    BY <2>1, <2>2
<1>3. \A v \in Workers : H'[v] = H[v]
  BY <1>2, OtherHands
<1> QED
  BY <1>1, <1>3, Unseen

\* A connection a worker has is attached.
LEMMA HolderAttached ==
    ASSUME IInv, NEW w \in Workers, pc[w] \in Holding
    PROVE  peer[Served(w)] \notin {"none", "dropped"}
<1>1. sock[w] \in Fds /\ Served(w) \in Conns /\ peer[Served(w)] # "none"
  BY Holder
<1>2. conn[sock[w]] # None
  BY <1>1, PoolAssumption DEF Served
<1> QED
  BY <1>1, <1>2 DEF IInv, AttachedInv, Served

\* The last recv of a command takes it.
LEMMA RecvTakes ==
    ASSUME IInv, NEW w \in Workers, WorkerStep(w),
           (RecvLength(w) \/ RecvBody(w)) /\ pc'[w] = "process"
    PROVE  Channel!Take(w, Served(w))
<1>t. TypeOK
  BY DEF IInv
<1> DEFINE c == Served(w)
<1>1. /\ alive /\ pc[w] \in {"length", "body"} /\ ~Busy(w) /\ Busy(w)'
      /\ UNCHANGED <<peer, conn, sock, alive>>
      /\ unanswered' = [unanswered EXCEPT ![c] = @ + 1]
  BY <1>t DEF RecvLength, RecvBody, Busy, Move, TypeOK, process
<1>2. c \in Conns /\ peer[c] \notin {"none", "dropped"} /\ unanswered[c] = 0
  BY <1>1, Holder, HolderAttached DEF Holding, IInv, AnswersInv
<1>3. H[w] = None /\ \A v \in Workers : H[v] # c
  BY <1>1, <1>2, Hands, PoolAssumption DEF Holding
<1>4. H'[w] = c /\ \A v \in Workers \ {w} : H'[v] = H[v]
  BY <1>1, OtherHands DEF Served
<1>5. S[c] = "open" /\ S'[c] = "open"
  BY <1>1, <1>2, <1>4, StateFromHands, NextStateFromHands
<1>6. \A d \in Conns \ {c} : S'[d] = S[d]
  <2> SUFFICES ASSUME NEW d \in Conns \ {c} PROVE S'[d] = S[d]
    OBVIOUS
  <2>1. unanswered'[d] = unanswered[d]
    BY <1>1, <1>t DEF TypeOK
  <2>2. (\E v \in Workers : H'[v] = d) <=> \E v \in Workers : H[v] = d
    BY <1>3, <1>4, PoolAssumption
  <2> QED
    BY <1>1, <2>1, <2>2, StateFromHands, NextStateFromHands
<1>7. S' = S /\ H' = [H EXCEPT ![w] = c]
  <2>1. \A d \in Conns : S'[d] = S[d]
    BY <1>5, <1>6
  <2> QED
    BY <2>1, <1>4 DEF S, H
<1> QED
  BY <1>1, <1>3, <1>5, <1>7 DEF Channel!Take, Channel!Idle, S, H

\* The close of a connection on which no command was read.
LEMMA DropDrops ==
    ASSUME IInv, NEW w \in Workers, WorkerStep(w), Drop(w)
    PROVE  Channel!Drop(Served(w))
<1>t. TypeOK
  BY DEF IInv
<1> DEFINE c == Served(w)
<1>1. /\ alive /\ pc[w] \in {"length", "body"} /\ ~Busy(w) /\ ~Busy(w)'
      /\ UNCHANGED <<unanswered, alive>>
      /\ peer' = [peer EXCEPT ![c] = "dropped"]
  BY <1>t DEF Drop, Close, Busy, Move, TypeOK, process
<1>2. c \in Conns /\ peer[c] \notin {"none", "dropped"} /\ unanswered[c] = 0
  BY <1>1, Holder, HolderAttached DEF Holding, IInv, AnswersInv
<1>3. \A v \in Workers : H[v] # c
  BY <1>1, <1>2, Hands, PoolAssumption DEF Holding
<1>4. \A v \in Workers : H'[v] = H[v]
  BY <1>1, Hands, OtherHands
<1>5. \A d \in Conns : peer'[d] = IF d = c THEN "dropped" ELSE peer[d]
  BY <1>1, <1>t DEF TypeOK
<1>6. S[c] = "open" /\ S'[c] = "closed"
  BY <1>2, <1>5, StateFromHands, NextStateFromHands
<1>7. \A d \in Conns \ {c} : S'[d] = S[d]
  BY <1>1, <1>4, <1>5, StateFromHands, NextStateFromHands
<1>8. S' = [S EXCEPT ![c] = "closed"] /\ H' = H
  BY <1>4, <1>6, <1>7 DEF S, H
<1> QED
  BY <1>1, <1>3, <1>6, <1>8 DEF Channel!Drop, Channel!Idle, S, H

\* The end of a command: its answer is written, or there is none and its
\* connection is closed or forgotten.
LEMMA CommandEnds ==
    ASSUME IInv, NEW w \in Workers, WorkerStep(w), ProcessFails(w) \/ SendBody(w) \/ SendFails(w)
    PROVE  Channel!Answer(w) \/ Channel!Fail(w)
<1>t. TypeOK
  BY DEF IInv
<1> DEFINE c == Served(w)
<1>1. alive /\ Busy(w) /\ ~Busy(w)' /\ alive' = alive
  BY <1>t DEF ProcessFails, SendBody, SendFails, Busy, Move, TypeOK, process
<1>2. c \in Conns /\ peer[c] \notin {"none", "dropped"} /\ unanswered[c] = 1
  BY <1>1, Holder, HolderAttached DEF Busy, Holding, IInv, AnswersInv
<1>3. H[w] = c /\ c # None /\ \A v \in Workers \ {w} : H[v] # c
  BY <1>1, <1>2, Hands, PoolAssumption DEF Busy, Holding
<1>4. H'[w] = None /\ \A v \in Workers \ {w} : H'[v] = H[v]
  BY <1>1, OtherHands
<1>5. H' = [H EXCEPT ![w] = None]
  BY <1>4 DEF H
<1>6. S[c] = "open" /\ \A v \in Workers : H'[v] # c
  BY <1>2, <1>3, <1>4, StateFromHands
<1>7. \A d \in Conns \ {c} :
         (\E v \in Workers : H'[v] = d) <=> \E v \in Workers : H[v] = d
  BY <1>3, <1>4, PoolAssumption
<1>8. ASSUME \A d \in Conns \ {c} : /\ unanswered'[d] = unanswered[d]
                                    /\ peer'[d] = peer[d]
      PROVE \A d \in Conns \ {c} : S'[d] = S[d]
  BY <1>7, <1>8, StateFromHands, NextStateFromHands
<1>9. CASE SendBody(w)
  <2>1. /\ unanswered' = [unanswered EXCEPT ![c] = @ - 1]
        /\ peer' = [peer EXCEPT ![c] = IF @ = "closed" THEN "written" ELSE @]
    BY <1>9 DEF SendBody, Write
  <2>2. unanswered'[c] = 0 /\ peer'[c] \notin {"none", "dropped"}
    BY <2>1, <1>2, <1>t DEF TypeOK
  <2>3. \A d \in Conns \ {c} : unanswered'[d] = unanswered[d] /\ peer'[d] = peer[d]
    BY <2>1, <1>t DEF TypeOK
  <2>4. \A d \in Conns : S'[d] = S[d]
    BY <2>2, <2>3, <1>2, <1>6, <1>8, StateFromHands, NextStateFromHands
  <2>5. S' = S
    BY <2>4 DEF S
  <2> QED
    BY <2>5, <1>1, <1>3, <1>5 DEF Channel!Answer, S, H
<1>10. CASE ProcessFails(w)
  <2>1. UNCHANGED <<unanswered, peer>>
    BY <1>10 DEF ProcessFails
  <2>2. S'[c] = "forgotten"
    BY <2>1, <1>2, <1>6, NextStateFromHands
  <2>3. \A d \in Conns \ {c} : S'[d] = S[d]
    BY <2>1, <1>8
  <2>4. S' = [S EXCEPT ![H[w]] = "forgotten"]
    BY <2>2, <2>3, <1>3 DEF S
  <2> QED
    BY <2>4, <1>1, <1>3, <1>5 DEF Channel!Fail, S, H
<1>11. CASE SendFails(w)
  <2>1. unanswered' = unanswered /\ peer' = [peer EXCEPT ![c] = "dropped"]
    BY <1>11 DEF SendFails, Close
  <2>2. S'[c] = "closed"
    BY <2>1, <1>2, <1>t, NextStateFromHands DEF TypeOK
  <2>3. \A d \in Conns \ {c} : peer'[d] = peer[d]
    BY <2>1, <1>t DEF TypeOK
  <2>4. \A d \in Conns \ {c} : S'[d] = S[d]
    BY <2>1, <2>3, <1>8
  <2>5. S' = [S EXCEPT ![H[w]] = "closed"]
    BY <2>2, <2>4, <1>3 DEF S
  <2> QED
    BY <2>5, <1>1, <1>3, <1>5 DEF Channel!Fail, S, H
<1> QED
  BY <1>9, <1>10, <1>11

\* Each step of the pool is a step of the channel or is not seen there.
LEMMA ChannelStep == IInv /\ [Next]_vars => [Channel!Next]_Channel!vars
<1> SUFFICES ASSUME IInv, [Next]_vars PROVE [Channel!Next]_Channel!vars
  OBVIOUS
<1>u. UNCHANGED <<S, H, alive>> => UNCHANGED Channel!vars
  BY DEF S, H, Channel!vars
<1>1. ASSUME NEW c \in Conns, Connect(c) PROVE Channel!Next
  BY <1>1, ConnectOpens DEF Channel!Next
<1>2. CASE \/ \E c \in Conns : \/ HostResets(c)
                               \/ \E u \in Units : SendUnit(c, u)
                               \/ \E how \in {"closed", "aborted"} : ClientClose(c, how)
           \/ \E f \in Fds : Accept(f)
           \/ AcceptFails \/ BeginStop \/ LeaveLoop \/ StopPool \/ Joined \/ UNCHANGED vars
  BY <1>2, <1>u, OutsideUnseen
<1>3. ASSUME NEW w \in Workers, WorkerStep(w) PROVE [Channel!Next]_Channel!vars
  <2>1. CASE \/ Check(w) \/ Poll(w) \/ Process(w) \/ SendLength(w) \/ Requeue(w)
             \/ (RecvLength(w) \/ RecvBody(w)) /\ pc'[w] = "body"
    BY <2>1, <1>3, <1>u, InsideUnseen
  <2>2. CASE (RecvLength(w) \/ RecvBody(w)) /\ pc'[w] = "process"
    <3>1. Served(w) \in Conns
      BY <2>2, Holder DEF RecvLength, RecvBody, Holding
    <3> QED
      BY <2>2, <3>1, <1>3, RecvTakes DEF Channel!Next
  <2>3. CASE Drop(w)
    <3>1. Served(w) \in Conns
      BY <2>3, Holder DEF Drop, Holding
    <3> QED
      BY <2>3, <3>1, <1>3, DropDrops DEF Channel!Next
  <2>4. CASE ProcessFails(w) \/ SendBody(w) \/ SendFails(w)
    BY <2>4, <1>3, CommandEnds DEF Channel!Next
  <2>5. CASE BrokenPipe(w)
    <3>1. /\ alive /\ alive' = FALSE
          /\ UNCHANGED <<peer, conn, pc, sock, unanswered>>
      BY <2>5 DEF BrokenPipe
    <3>2. \A v \in Workers : H'[v] = H[v]
      BY <3>1 DEF H, Busy, Served
    <3>3. \A c \in Conns : S'[c] = S[c]
      BY <3>1, <3>2, StateFromHands, NextStateFromHands
    <3>4. S' = S /\ H' = H
      BY <3>2, <3>3 DEF S, H
    <3> QED
      BY <3>1, <3>4 DEF Channel!Next, Channel!Die, S, H
  <2>6. RecvLength(w) \/ RecvBody(w) => pc'[w] \in {"body", "process"}
    BY DEF RecvLength, RecvBody, Move, IInv, TypeOK
  <2> QED
    BY <1>3, <2>1, <2>2, <2>3, <2>4, <2>5, <2>6 DEF WorkerStep
<1> QED
  BY <1>1, <1>2, <1>3 DEF Next, Ended

-----------------------------------------------------------------------------
(* Theorems. *)

\* The invariant holds in every state of every pool.
THEOREM PoolInductive == Spec => []IInv
<1>1. IInv /\ [Next]_vars => IInv'
  BY TypeStep, SocketsStep, BacklogStep, AnswersStep, AttachedStep DEF IInv
<1> QED
  BY InitIInv, <1>1, PTL DEF Spec

\* Types: among others, a worker is inside its loop body exactly while it has
\* a socket (threadLoop's sock is -1 otherwise).
THEOREM PoolTypes == Spec => []TypeOK
<1>1. IInv => TypeOK
  BY DEF IInv
<1> QED
  BY PoolInductive, <1>1, PTL

\* Exclusive ownership of sockets by the queue and the workers of threadLoop.
THEOREM ExclusiveSockets == Spec => []SocketsInOnePlace
<1>1. IInv => SocketsInOnePlace
  BY DEF IInv
<1> QED
  BY PoolInductive, <1>1, PTL

\* threadLoop puts a socket back only after a whole response to each command.
THEOREM AnswersComplete == Spec => []QueuedAreAnswered
<1>1. IInv => QueuedAreAnswered
  BY DEF IInv
<1> QED
  BY PoolInductive, <1>1, PTL

\* threadLoop leaves a descriptor open and unattended only where it had no
\* response to write (its branch "Response error!").
THEOREM LeaksExplained == Spec => []LeaksAreForgotten
<1>1. Init => LeaksInv
  BY PoolAssumption DEF Init, LeaksInv
<1>2. IInv /\ LeaksInv /\ [Next]_vars => LeaksInv'
  BY LeaksStep
<1>3. IInv /\ LeaksInv => LeaksAreForgotten
  BY LostIsForgotten
<1> QED
  BY <1>1, <1>2, <1>3, PoolInductive, PTL DEF Spec

\* threadLoop and connectionsLoop implement the channel.
THEOREM PoolIsChannel == Spec => ChannelSpec
<1>1. IInv /\ [Next]_vars => [Channel!Next]_Channel!vars
  BY ChannelStep
<1> QED
  BY <1>1, ChannelInit, PoolInductive, PTL DEF Spec, ChannelSpec, Channel!Spec
=============================================================================
