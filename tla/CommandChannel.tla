---------------------------- MODULE CommandChannel ----------------------------
(***************************************************************************)
(* What the thread pool promises the clients of its connections, without   *)
(* descriptors, queues, buffers or portions.  A connection is open until   *)
(* the server closes it.  Commands of an open connection are taken one at  *)
(* a time, each by one server; the next is taken only after the answer to  *)
(* the one before was written as a whole.  A command that is not answered  *)
(* is the last one of its connection, which is then closed or forgotten:   *)
(* open on both ends, and with nobody at the server's.                     *)
(***************************************************************************)
CONSTANTS
    Conns,    \* connections
    Servers,  \* what takes commands
    None      \* no connection

VARIABLES
    state,  \* state[c]: "none", "open", "forgotten" or "closed"
    hand,   \* hand[s]: the connection whose command s has taken, or None
    up      \* the process is there

vars == <<state, hand, up>>

Init ==
    /\ state = [c \in Conns |-> "none"]
    /\ hand = [s \in Servers |-> None]
    /\ up = TRUE

\* No server has taken a command of c.
Idle(c) == \A s \in Servers : hand[s] # c

Open(c) ==
    /\ up /\ state[c] = "none"
    /\ state' = [state EXCEPT ![c] = "open"]
    /\ UNCHANGED <<hand, up>>

Take(s, c) ==
    /\ up /\ hand[s] = None
    /\ state[c] = "open" /\ Idle(c)
    /\ hand' = [hand EXCEPT ![s] = c]
    /\ UNCHANGED <<state, up>>

Answer(s) ==
    /\ up /\ hand[s] # None
    /\ hand' = [hand EXCEPT ![s] = None]
    /\ UNCHANGED <<state, up>>

\* The command stays without an answer.
Fail(s) ==
    /\ up /\ hand[s] # None
    /\ \E how \in {"closed", "forgotten"} : state' = [state EXCEPT ![hand[s]] = how]
    /\ hand' = [hand EXCEPT ![s] = None]
    /\ UNCHANGED up

\* No whole command came.
Drop(c) ==
    /\ up /\ state[c] = "open" /\ Idle(c)
    /\ state' = [state EXCEPT ![c] = "closed"]
    /\ UNCHANGED <<hand, up>>

Die ==
    /\ up /\ up' = FALSE
    /\ UNCHANGED <<state, hand>>

Next ==
    \/ \E c \in Conns : Open(c) \/ Drop(c)
    \/ \E s \in Servers : Answer(s) \/ Fail(s) \/ \E c \in Conns : Take(s, c)
    \/ Die

Spec == Init /\ [][Next]_vars
=============================================================================
