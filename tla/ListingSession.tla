---------------------------- MODULE ListingSession ----------------------------
(***************************************************************************)
(* The debug client's getElections against the thread pool.  It opens a    *)
(* connection, asks for the elections, and keeps that connection while it  *)
(* verifies the tallies; each verifyTallyEncryption opens another one and  *)
(* never closes it.  A worker that takes an idle connection off the queue  *)
(* waits in recv for its next command, and the client waits in recv for an *)
(* answer on a later one.                                                  *)
(*                                                                         *)
(* The pool is ThreadPool's; of its clients only this one is there, and    *)
(* nobody stops the server.                                                *)
(***************************************************************************)
EXTENDS ThreadPool

CONSTANTS
    Script, \* the connections in the order they are opened, getElections first
    Rounds  \* commands sent on each connection of verifyTallyEncryption

ASSUME SessionAssumption ==
    /\ Len(Script) > 0
    /\ \A i, j \in DOMAIN Script : Script[i] = Script[j] => i = j
    /\ \A i \in DOMAIN Script : Script[i] \in Conns
    /\ Rounds \in Nat \ {0} /\ MaxUnread >= 2

VARIABLES turn,    \* the connection of Script the client is busy with
          written, \* units it has sent on that connection
          answers  \* responses it has read on that connection

sessionVars == <<turn, written, answers>>

\* The pool was started with all of Workers.
SessionInit ==
    /\ Init /\ \A w \in Workers : pc[w] = "top"
    /\ turn = 1 /\ written = 0 /\ answers = 0

-----------------------------------------------------------------------------

Current == Script[turn]
Asked == IF turn = 1 THEN 1 ELSE Rounds
Listing == turn \in DOMAIN Script

\* newConn
OpenNext ==
    /\ Listing
    /\ Connect(Current)
    /\ UNCHANGED sessionVars

\* sendCommand: the length and the body of one command per answer read.
SendNext ==
    /\ Listing
    /\ written < 2 * (answers + 1)
    /\ \E u \in {"length", "body"} : SendUnit(Current, u)
    /\ written' = written + 1
    /\ UNCHANGED <<turn, answers>>

\* The whole response to the last command has been written.
Answered ==
    /\ peer[Current] = "open"
    /\ written = 2 * (answers + 1)
    /\ stream[Current] = <<>> /\ unanswered[Current] = 0
    /\ \A w \in Workers : pc[w] = "body" => Served(w) # Current

\* getResponse, and another page is to be asked for.
GetResponse ==
    /\ Listing /\ Answered
    /\ answers + 1 < Asked
    /\ answers' = answers + 1
    /\ UNCHANGED <<turn, written, vars>>

NextConnection == turn' = turn + 1 /\ written' = 0 /\ answers' = 0

\* getResponse on the last command of this connection, which stays open.
GoOn ==
    /\ Listing /\ Answered
    /\ answers + 1 = Asked
    /\ NextConnection
    /\ UNCHANGED vars

\* The server dropped the connection: recv returns 0 until the time is up.
GoOnWithout ==
    /\ Listing
    /\ peer[Current] = "dropped"
    /\ NextConnection
    /\ UNCHANGED vars

\* The last lines of getElections close the first connection.
Return ==
    /\ turn = Len(Script) + 1
    /\ turn' = turn + 1
    /\ \/ ClientClose(Script[1], "closed")
       \/ peer[Script[1]] = "dropped" /\ UNCHANGED vars
    /\ UNCHANGED <<written, answers>>

ClientStep == OpenNext \/ SendNext \/ GetResponse \/ GoOn \/ GoOnWithout \/ Return

ServerStep(w) == WorkerStep(w) /\ UNCHANGED sessionVars
AcceptStep == (\E f \in Fds : Accept(f)) /\ UNCHANGED sessionVars
AcceptError == AcceptFails /\ UNCHANGED sessionVars

Returned == turn = Len(Script) + 2

SessionNext ==
    \/ ClientStep
    \/ AcceptStep \/ AcceptError
    \/ \E w \in Workers : ServerStep(w)

all == <<vars, sessionVars>>

SessionSpec ==
    /\ SessionInit /\ [][SessionNext]_all
    /\ WF_all(ClientStep) /\ WF_all(AcceptStep)
    /\ \A w \in Workers : WF_all(ServerStep(w))

-----------------------------------------------------------------------------

\* Nobody will write to the connection the client waits on: no response could
\* be made and it was left open, or it came after the connections loop ended.
Unheard ==
    /\ Listing
    /\ \/ StateOf(Current) = "forgotten"
       \/ ~accepting /\ \E i \in DOMAIN backlog : backlog[i] = Current

\* The listing comes to an end, whatever the workers drop on the way, unless
\* the client waits on a connection nobody will write to.  One worker more
\* than the client leaves idle connections is enough for that; with as many
\* as those the client and the workers wait for each other in recv.
ListingReturns == <>(Returned \/ Unheard)
=============================================================================
