------------------------------ MODULE Migrations ------------------------------
(***************************************************************************)
(* Database::migrate, which every program that makes a Database runs: the  *)
(* vote server and the debug client, at any time and on one database.      *)
(* Each run is a transaction that takes the lock of the table MIGRATIONS,  *)
(* lists the directory, and for each file in the order of the names runs   *)
(* its script and records it unless it is recorded.  PostgreSQL undoes the *)
(* changes of a transaction to the schema like any other.                  *)
(*                                                                         *)
(* Files are numbered in the order std::set puts their names, which is     *)
(* that of text: 10.sql comes before 2.sql.                                *)
(***************************************************************************)
EXTENDS Naturals, Sequences, FiniteSets

CONSTANTS
    Processes,
    Files,      \* names that ever appear in the directory
    None,
    MaxCrashes  \* bound: processes that die

ASSUME MigrationsAssumption ==
    /\ Files \subseteq Nat
    /\ IsFiniteSet(Files)
    /\ None \notin Processes
    /\ MaxCrashes \in Nat

VARIABLES
    directory,  \* files there now
    applied,    \* scripts whose changes are committed, in the order they ran
    recorded,   \* names in MIGRATIONS
    lock,       \* the process whose transaction holds LOCK migrations
    pc,
    work,       \* work[p]: what p found and did, see Work
    crashes

vars == <<directory, applied, recorded, lock, pc, work, crashes>>

\* listed: the files p found (history once it is done); todo: those it has not
\* looked at; ran, noted: the scripts run and the names inserted in its open
\* transaction.
Work == [listed : SUBSET Files, todo : SUBSET Files, ran : Seq(Files), noted : SUBSET Files]

Working == {"locked", "scanning", "noting"}

TypeOK ==
    /\ directory \subseteq Files
    /\ applied \in Seq(Files) /\ recorded \subseteq Files
    /\ lock \in Processes \cup {None}
    /\ pc \in [Processes -> {"off", "waiting", "ready"} \cup Working]
    /\ work \in [Processes -> Work]
    /\ crashes \in Nat
    \* who is past LOCK and before the end of the transaction holds the lock
    /\ \A p \in Processes : lock = p <=> pc[p] \in Working

NoWork(listed) == [listed |-> listed, todo |-> {}, ran |-> <<>>, noted |-> {}]

Init ==
    /\ directory = {}
    /\ applied = <<>> /\ recorded = {} /\ lock = None
    /\ pc = [p \in Processes |-> "off"]
    /\ work = [p \in Processes |-> NoWork({})]
    /\ crashes = 0

-----------------------------------------------------------------------------

\* A new version is deployed.
AddFile(f) ==
    /\ f \notin directory
    /\ directory' = directory \cup {f}
    /\ UNCHANGED <<applied, recorded, lock, pc, work, crashes>>

At(p, from, to) == pc[p] = from /\ pc' = [pc EXCEPT ![p] = to]

\* Database::Database calls migrate, and its header advises to call it again.
Begin(p) ==
    /\ At(p, "off", "waiting") \/ At(p, "ready", "waiting")
    /\ UNCHANGED <<directory, applied, recorded, lock, work, crashes>>

\* LOCK migrations IN ACCESS EXCLUSIVE MODE
Acquire(p) ==
    /\ At(p, "waiting", "locked")
    /\ lock = None /\ lock' = p
    /\ UNCHANGED <<directory, applied, recorded, work, crashes>>

ListFiles(p) ==
    /\ At(p, "locked", "scanning")
    /\ work' = [work EXCEPT ![p].listed = directory, ![p].todo = directory]
    /\ UNCHANGED <<directory, applied, recorded, lock, crashes>>

\* Mutant: a set without an order.
IsNextUnordered(p, f) == f \in work[p].todo

IsNext(p, f) == f \in work[p].todo /\ \A g \in work[p].todo : f <= g

\* Mutant: rows of others are not seen.
KnownToItself(p) == work[p].noted

\* SELECT NAME FROM MIGRATIONS: committed rows and its own.
Known(p) == recorded \cup work[p].noted

Skip(p) ==
    /\ At(p, "scanning", "scanning")
    /\ \E f \in Known(p) : IsNext(p, f) /\ work' = [work EXCEPT ![p].todo = @ \ {f}]
    /\ UNCHANGED <<directory, applied, recorded, lock, crashes>>

\* txn.exec(buf.str())
Run(p) ==
    /\ At(p, "scanning", "noting")
    /\ \E f \in Files \ Known(p) :
          IsNext(p, f) /\ work' = [work EXCEPT ![p].ran = Append(@, f)]
    /\ UNCHANGED <<directory, applied, recorded, lock, crashes>>

\* Mutant: no INSERT.
NoteForgets(p) ==
    /\ At(p, "noting", "scanning")
    /\ \E f \in Files : IsNext(p, f) /\ work' = [work EXCEPT ![p].todo = @ \ {f}]
    /\ UNCHANGED <<directory, applied, recorded, lock, crashes>>

\* INSERT INTO MIGRATIONS
Note(p) ==
    /\ At(p, "noting", "scanning")
    /\ \E f \in Files :
          /\ IsNext(p, f)
          /\ work' = [work EXCEPT ![p].noted = @ \cup {f}, ![p].todo = @ \ {f}]
    /\ UNCHANGED <<directory, applied, recorded, lock, crashes>>

\* Mutants: the transaction ends without its commit; it starts over to see
\* whether there are files it has not seen.
CommitForgotten(p) ==
    /\ At(p, "scanning", "ready") /\ work[p].todo = {}
    /\ work' = [work EXCEPT ![p] = NoWork(@.listed)]
    /\ lock' = None
    /\ UNCHANGED <<directory, applied, recorded, crashes>>
CommitStartsOver(p) ==
    /\ At(p, "scanning", "waiting") /\ work[p].todo = {}
    /\ applied' = applied \o work[p].ran
    /\ recorded' = recorded \cup work[p].noted
    /\ work' = [work EXCEPT ![p] = NoWork(@.listed)]
    /\ lock' = None
    /\ UNCHANGED <<directory, crashes>>

\* txn.commit(), which releases the lock.
Commit(p) ==
    /\ At(p, "scanning", "ready") /\ work[p].todo = {}
    /\ applied' = applied \o work[p].ran
    /\ recorded' = recorded \cup work[p].noted
    /\ work' = [work EXCEPT ![p] = NoWork(@.listed)]
    /\ lock' = None
    /\ UNCHANGED <<directory, crashes>>

\* The process dies, or a script fails and nobody catches the exception: the
\* transaction is rolled back and its lock released.
Crash(p) ==
    /\ pc[p] # "off" /\ pc' = [pc EXCEPT ![p] = "off"]
    /\ crashes < MaxCrashes /\ crashes' = crashes + 1
    /\ work' = [work EXCEPT ![p] = NoWork({})]
    /\ lock' = IF lock = p THEN None ELSE lock
    /\ UNCHANGED <<directory, applied, recorded>>

Step(p) == Acquire(p) \/ ListFiles(p) \/ Skip(p) \/ Run(p) \/ Note(p) \/ Commit(p)

Next ==
    \/ \E f \in Files : AddFile(f)
    \/ \E p \in Processes : Begin(p) \/ Step(p) \/ Crash(p)

Spec == Init /\ [][Next]_vars

\* Statements return, and the lock is given to whoever waits for it.
FairSpec == Spec /\ \A p \in Processes : SF_vars(Step(p))
-----------------------------------------------------------------------------
(* Properties. *)

Updates == INSTANCE SchemaUpdates

\* No script is run twice on one schema, whoever starts when and dies where:
\* a second CREATE TABLE would fail and DROP TABLE would lose tallies.
AppliedOnce == \A i, j \in DOMAIN applied : applied[i] = applied[j] => i = j

\* MIGRATIONS says of exactly the scripts that made the schema that they did.
RecordedAreApplied == recorded = Updates!Range(applied)

\* A program that got past the constructor of its Database works on a schema
\* that has everything that was in the directory when it looked.
ReadyIsMigrated == \A p \in Processes : pc[p] = "ready" => work[p].listed \subseteq recorded

\* The schema changes by whole updates, each in the order of the names.
UpdatesSpec == Updates!Spec

\* Whoever asks for a migration gets past it, unless processes go on dying.
EveryoneGetsReady == \A p \in Processes :
    pc[p] = "waiting" ~> pc[p] \in {"ready", "off"}
=============================================================================
