-------------------------- MODULE Migrations_proofs --------------------------
(***************************************************************************)
(* Proofs about Database::migrate for any processes and any files: no      *)
(* script runs twice, MIGRATIONS is right about what ran, a process that   *)
(* got past migrate has a complete schema, and the schema changes as       *)
(* SchemaUpdates says.                                                     *)
(***************************************************************************)
EXTENDS Migrations, TLAPS

-----------------------------------------------------------------------------
(* The inductive invariant: what a process has done in its transaction.    *)
(* The lock is what makes it inductive: while a process works nobody else  *)
(* does, so what is recorded does not change under it.                     *)

\* The scripts of the transaction ran in order, before any file to come, and
\* none of them is recorded.
RanInOrder(p) ==
    /\ Updates!InOrder(work[p].ran)
    /\ Updates!Range(work[p].ran) \cap recorded = {}
    /\ \A i \in DOMAIN work[p].ran, g \in work[p].todo :
          work[p].ran[i] <= g /\ (pc[p] = "scanning" => work[p].ran[i] < g)

\* What ran is noted, but for the script that is about to be.
RanIsNoted(p) ==
    IF pc[p] = "noting"
    THEN \E f \in Files : /\ IsNext(p, f) /\ f \notin Known(p)
                          /\ Updates!Range(work[p].ran) = work[p].noted \cup {f}
    ELSE Updates!Range(work[p].ran) = work[p].noted

\* Every file found is recorded, noted or still to come.
NothingPassedOver(p) ==
    pc[p] \in {"scanning", "noting"} => work[p].listed \subseteq work[p].todo \cup Known(p)

Idle(p) == pc[p] \notin {"scanning", "noting"} =>
    work[p].ran = <<>> /\ work[p].noted = {} /\ work[p].todo = {}

WorkInv == \A p \in Processes :
    RanInOrder(p) /\ RanIsNoted(p) /\ NothingPassedOver(p) /\ Idle(p)

IInv == TypeOK /\ AppliedOnce /\ RecordedAreApplied /\ ReadyIsMigrated /\ WorkInv

-----------------------------------------------------------------------------
(* Sequences. *)

\* What txn.commit does to the order in which scripts ran: two sequences
\* without a common element.
LEMMA Joined ==
    ASSUME NEW S, NEW s \in Seq(S), NEW t \in Seq(S)
    PROVE  /\ s \o t \in Seq(S)
           /\ Updates!Range(s \o t) = Updates!Range(s) \cup Updates!Range(t)
           /\ (/\ \A i, j \in DOMAIN s : s[i] = s[j] => i = j
               /\ \A i, j \in DOMAIN t : t[i] = t[j] => i = j
               /\ Updates!Range(s) \cap Updates!Range(t) = {})
              => \A i, j \in DOMAIN (s \o t) : (s \o t)[i] = (s \o t)[j] => i = j
<1> DEFINE st == s \o t
<1>1. /\ st \in Seq(S)
      /\ Len(s) \in Nat /\ Len(t) \in Nat /\ Len(st) = Len(s) + Len(t)
      /\ DOMAIN s = 1 .. Len(s) /\ DOMAIN t = 1 .. Len(t) /\ DOMAIN st = 1 .. Len(st)
  OBVIOUS
<1>2. \A i \in DOMAIN s : i \in DOMAIN st /\ st[i] = s[i]
  BY <1>1
<1>3. \A i \in DOMAIN t : Len(s) + i \in DOMAIN st /\ st[Len(s) + i] = t[i]
  BY <1>1
<1>4. ASSUME NEW i \in DOMAIN st
      PROVE  \/ i \in DOMAIN s /\ st[i] = s[i]
             \/ i - Len(s) \in DOMAIN t /\ st[i] = t[i - Len(s)] /\ i > Len(s)
  BY <1>1
<1> HIDE DEF st
<1>5. Updates!Range(st) \subseteq Updates!Range(s) \cup Updates!Range(t)
  BY <1>4 DEF Updates!Range
<1>6. Updates!Range(s) \cup Updates!Range(t) \subseteq Updates!Range(st)
  BY <1>2, <1>3 DEF Updates!Range
<1>7. ASSUME \A i, j \in DOMAIN s : s[i] = s[j] => i = j,
             \A i, j \in DOMAIN t : t[i] = t[j] => i = j,
             Updates!Range(s) \cap Updates!Range(t) = {},
             NEW i \in DOMAIN st, NEW j \in DOMAIN st, st[i] = st[j]
      PROVE  i = j
  <2>1. \A k \in DOMAIN s, l \in DOMAIN t : s[k] # t[l]
    BY <1>7 DEF Updates!Range
  <2>2. i \in Nat /\ j \in Nat
    BY <1>1
  <2> QED
    BY <1>1, <1>4, <1>7, <2>1, <2>2
<1> QED
  BY <1>1, <1>5, <1>6, <1>7 DEF st

\* What Run does to the scripts of the transaction.
LEMMA Extended ==
    ASSUME NEW S, NEW s \in Seq(S), NEW f \in S
    PROVE  /\ Append(s, f) \in Seq(S)
           /\ DOMAIN Append(s, f) = DOMAIN s \cup {Len(s) + 1}
           /\ \A i \in DOMAIN s : Append(s, f)[i] = s[i] /\ i < Len(s) + 1
           /\ Append(s, f)[Len(s) + 1] = f
           /\ Updates!Range(Append(s, f)) = Updates!Range(s) \cup {f}
<1>1. /\ Append(s, f) \in Seq(S)
      /\ DOMAIN Append(s, f) = DOMAIN s \cup {Len(s) + 1}
      /\ \A i \in DOMAIN s : Append(s, f)[i] = s[i] /\ i < Len(s) + 1
      /\ Append(s, f)[Len(s) + 1] = f
  OBVIOUS
<1> QED
  BY <1>1 DEF Updates!Range

\* A sequence in the order of the names has no name twice.
LEMMA InOrderOnce ==
    ASSUME NEW S, S \subseteq Nat, NEW s \in Seq(S), Updates!InOrder(s)
    PROVE  \A i, j \in DOMAIN s : s[i] = s[j] => i = j
<1> SUFFICES ASSUME NEW i \in DOMAIN s, NEW j \in DOMAIN s, s[i] = s[j]
             PROVE  i = j
  OBVIOUS
<1>1. DOMAIN s = 1 .. Len(s) /\ Len(s) \in Nat /\ s \in [1 .. Len(s) -> S]
  OBVIOUS
<1>2. i \in Nat /\ j \in Nat /\ s[i] \in S
  BY <1>1
<1>3. s[i] \in Nat
  BY <1>2
<1> QED
  BY <1>2, <1>3 DEF Updates!InOrder

-----------------------------------------------------------------------------
(* The steps. *)

LEMMA InitIInv == Init => IInv
<1> SUFFICES ASSUME Init PROVE IInv
  OBVIOUS
<1>1. TypeOK
  BY MigrationsAssumption DEF Init, TypeOK, Work, NoWork, Working
<1>2. AppliedOnce /\ RecordedAreApplied /\ ReadyIsMigrated
  BY DEF Init, AppliedOnce, RecordedAreApplied, ReadyIsMigrated, Updates!Range
<1>3. WorkInv
  BY DEF Init, WorkInv, RanInOrder, RanIsNoted, NothingPassedOver, Idle, NoWork,
         Updates!Range, Updates!InOrder
<1> QED
  BY <1>1, <1>2, <1>3 DEF IInv

\* What an action leaves in the record of its process; the others' stay.
Leaves(p, listed, todo, ran, noted) ==
    /\ work' \in [Processes -> Work]
    /\ work'[p].listed = listed /\ work'[p].todo = todo
    /\ work'[p].ran = ran /\ work'[p].noted = noted
    /\ \A q \in Processes \ {p} : work'[q] = work[q]

\* How each action changes the transaction of its process.
LEMMA Effects ==
    ASSUME TypeOK, NEW p \in Processes
    PROVE  /\ ListFiles(p) => Leaves(p, directory, directory, work[p].ran, work[p].noted)
           /\ Skip(p) => \E f \in Known(p) :
                 /\ IsNext(p, f)
                 /\ Leaves(p, work[p].listed, work[p].todo \ {f}, work[p].ran, work[p].noted)
           /\ Run(p) => \E f \in Files \ Known(p) :
                 /\ IsNext(p, f)
                 /\ Leaves(p, work[p].listed, work[p].todo, Append(work[p].ran, f), work[p].noted)
           /\ Note(p) => \E f \in Files :
                 /\ IsNext(p, f)
                 /\ Leaves(p, work[p].listed, work[p].todo \ {f}, work[p].ran,
                           work[p].noted \cup {f})
           /\ Commit(p) => Leaves(p, work[p].listed, {}, <<>>, {})
           /\ Crash(p) => Leaves(p, {}, {}, <<>>, {})
<1>1. /\ work \in [Processes -> Work] /\ directory \subseteq Files
      /\ work[p].ran \in Seq(Files) /\ work[p].listed \subseteq Files
      /\ work[p].todo \subseteq Files /\ work[p].noted \subseteq Files
  BY DEF TypeOK, Work
<1>2. ASSUME NEW w \in Work, work' = [work EXCEPT ![p] = w]
      PROVE  Leaves(p, w.listed, w.todo, w.ran, w.noted)
  BY <1>1, <1>2 DEF Leaves
<1>3. ASSUME ListFiles(p)
      PROVE  Leaves(p, directory, directory, work[p].ran, work[p].noted)
  <2> DEFINE w == [work[p] EXCEPT !.listed = directory, !.todo = directory]
  <2>1. /\ w \in Work /\ w.listed = directory /\ w.todo = directory
        /\ w.ran = work[p].ran /\ w.noted = work[p].noted
    BY <1>1 DEF Work
  <2>2. work' = [work EXCEPT ![p] = w]
    BY <1>1, <1>3 DEF ListFiles
  <2> QED
    BY ONLY <2>1, <2>2, <1>2
<1>4. ASSUME Skip(p)
      PROVE  \E f \in Known(p) :
                 /\ IsNext(p, f)
                 /\ Leaves(p, work[p].listed, work[p].todo \ {f}, work[p].ran, work[p].noted)
  <2>1. PICK f \in Known(p) : IsNext(p, f) /\ work' = [work EXCEPT ![p].todo = @ \ {f}]
    BY <1>4 DEF Skip
  <2> DEFINE w == [work[p] EXCEPT !.todo = @ \ {f}]
  <2>2. /\ w \in Work /\ w.listed = work[p].listed /\ w.todo = work[p].todo \ {f}
        /\ w.ran = work[p].ran /\ w.noted = work[p].noted
    BY <1>1 DEF Work
  <2>3. work' = [work EXCEPT ![p] = w]
    BY <2>1
  <2> HIDE DEF w
  <2>4. Leaves(p, w.listed, w.todo, w.ran, w.noted)
    BY <1>2, <2>2, <2>3
  <2> QED
    BY <2>1, <2>2, <2>4
<1>5. ASSUME Run(p)
      PROVE  \E f \in Files \ Known(p) :
                 /\ IsNext(p, f)
                 /\ Leaves(p, work[p].listed, work[p].todo, Append(work[p].ran, f), work[p].noted)
  <2>1. PICK f \in Files \ Known(p) :
            IsNext(p, f) /\ work' = [work EXCEPT ![p].ran = Append(@, f)]
    BY <1>5 DEF Run
  <2>2. Append(work[p].ran, f) \in Seq(Files)
    BY <1>1
  <2> DEFINE w == [work[p] EXCEPT !.ran = Append(@, f)]
  <2>3. /\ w \in Work /\ w.listed = work[p].listed /\ w.todo = work[p].todo
        /\ w.ran = Append(work[p].ran, f) /\ w.noted = work[p].noted
    BY <1>1, <2>2 DEF Work
  <2>4. work' = [work EXCEPT ![p] = w]
    BY <2>1
  <2> HIDE DEF w
  <2>5. Leaves(p, w.listed, w.todo, w.ran, w.noted)
    BY <1>2, <2>3, <2>4
  <2> QED
    BY <2>1, <2>3, <2>5
<1>6. ASSUME Note(p)
      PROVE  \E f \in Files :
                 /\ IsNext(p, f)
                 /\ Leaves(p, work[p].listed, work[p].todo \ {f}, work[p].ran,
                           work[p].noted \cup {f})
  <2>1. PICK f \in Files :
            /\ IsNext(p, f)
            /\ work' = [work EXCEPT ![p].noted = @ \cup {f}, ![p].todo = @ \ {f}]
    BY <1>6 DEF Note
  <2> DEFINE w == [work[p] EXCEPT !.noted = @ \cup {f}, !.todo = @ \ {f}]
  <2>2. /\ w \in Work /\ w.listed = work[p].listed /\ w.todo = work[p].todo \ {f}
        /\ w.ran = work[p].ran /\ w.noted = work[p].noted \cup {f}
    BY <1>1 DEF Work
  <2>3. work' = [work EXCEPT ![p] = w]
    BY <1>1, <2>1
  <2> HIDE DEF w
  <2>4. Leaves(p, w.listed, w.todo, w.ran, w.noted)
    BY <1>2, <2>2, <2>3
  <2> QED
    BY <2>1, <2>2, <2>4
<1>7. \A l \in SUBSET Files : /\ NoWork(l) \in Work /\ NoWork(l).listed = l
                              /\ NoWork(l).todo = {} /\ NoWork(l).ran = <<>>
                              /\ NoWork(l).noted = {}
  BY DEF NoWork, Work
<1>8. ASSUME Commit(p) PROVE Leaves(p, work[p].listed, {}, <<>>, {})
  <2> DEFINE w == NoWork(work[p].listed)
  <2>1. work' = [work EXCEPT ![p] = w]
    BY <1>8 DEF Commit
  <2>2. /\ w \in Work /\ w.listed = work[p].listed
        /\ w.todo = {} /\ w.ran = <<>> /\ w.noted = {}
    BY <1>1, <1>7
  <2> HIDE DEF w
  <2>3. Leaves(p, w.listed, w.todo, w.ran, w.noted)
    BY <1>2, <2>1, <2>2
  <2> QED
    BY <2>2, <2>3
<1>9. ASSUME Crash(p) PROVE Leaves(p, {}, {}, <<>>, {})
  <2> DEFINE w == NoWork({})
  <2>1. work' = [work EXCEPT ![p] = w]
    BY <1>9 DEF Crash
  <2>2. /\ w \in Work /\ w.listed = {} /\ w.todo = {} /\ w.ran = <<>> /\ w.noted = {}
    BY <1>7
  <2> HIDE DEF w
  <2>3. Leaves(p, w.listed, w.todo, w.ran, w.noted)
    BY <1>2, <2>1, <2>2
  <2> QED
    BY <2>2, <2>3
<1> QED
  BY <1>3, <1>4, <1>5, <1>6, <1>8, <1>9

\* Every action keeps the types and the owner of the lock.
LEMMA TypeStep == TypeOK /\ [Next]_vars => TypeOK'
<1> SUFFICES ASSUME TypeOK, [Next]_vars PROVE TypeOK'
  OBVIOUS
<1> USE MigrationsAssumption
<1>1. ASSUME NEW f \in Files, AddFile(f) PROVE TypeOK'
  BY <1>1 DEF AddFile, TypeOK
<1>2. ASSUME NEW p \in Processes, Begin(p) PROVE TypeOK'
  BY <1>2 DEF Begin, At, TypeOK, Working
<1>3. ASSUME NEW p \in Processes, Acquire(p) PROVE TypeOK'
  BY <1>3 DEF Acquire, At, TypeOK, Working
<1>4. ASSUME NEW p \in Processes, ListFiles(p) \/ Skip(p) \/ Run(p) \/ Note(p)
      PROVE TypeOK'
  <2>1. work' \in [Processes -> Work]
    BY <1>4, Effects DEF Leaves
  <2>2. /\ UNCHANGED <<directory, applied, recorded, lock, crashes>>
        /\ pc[p] \in Working
        /\ \E to \in Working : pc' = [pc EXCEPT ![p] = to]
    BY <1>4 DEF ListFiles, Skip, Run, Note, At, Working
  <2> QED
    BY <2>1, <2>2 DEF TypeOK
<1>5. ASSUME NEW p \in Processes, Commit(p) PROVE TypeOK'
  <2>1. work[p].ran \in Seq(Files) /\ work[p].noted \subseteq Files
    BY DEF TypeOK, Work
  <2>2. (applied \o work[p].ran) \in Seq(Files)
    BY <2>1 DEF TypeOK
  <2>3. work' \in [Processes -> Work]
    BY <1>5, Effects DEF Leaves
  <2>4. lock = p
    BY <1>5 DEF Commit, At, TypeOK, Working
  <2> QED
    BY <1>5, <2>1, <2>2, <2>3, <2>4 DEF Commit, At, TypeOK, Working
<1>6. ASSUME NEW p \in Processes, Crash(p) PROVE TypeOK'
  <2>1. work' \in [Processes -> Work]
    BY <1>6, Effects DEF Leaves
  <2> QED
    BY <1>6, <2>1 DEF Crash, TypeOK, Working
<1>7. CASE UNCHANGED vars
  BY <1>7 DEF vars, TypeOK
<1> QED
  BY <1>1, <1>2, <1>3, <1>4, <1>5, <1>6, <1>7 DEF Next, Step

\* A step of p leaves what the others have done and what is said of them.
LEMMA OthersKeep ==
    ASSUME WorkInv, recorded' = recorded, NEW q \in Processes,
           pc'[q] = pc[q], work'[q] = work[q]
    PROVE  RanInOrder(q)' /\ RanIsNoted(q)' /\ NothingPassedOver(q)' /\ Idle(q)'
BY DEF WorkInv, RanInOrder, RanIsNoted, NothingPassedOver, Idle, IsNext, Known,
       Updates!Range, Updates!InOrder

\* Until a commit, the invariant is about the process that takes the step.
LEMMA WorkStep ==
    ASSUME IInv, NEW p \in Processes, TypeOK',
           ListFiles(p) \/ Skip(p) \/ Run(p) \/ Note(p)
    PROVE  WorkInv'
<1>1. /\ recorded' = recorded /\ pc \in [Processes -> {"off", "waiting", "ready"} \cup Working]
      /\ \E to : pc' = [pc EXCEPT ![p] = to]
  BY DEF ListFiles, Skip, Run, Note, At, IInv, TypeOK
<1>2. \A q \in Processes \ {p} : pc'[q] = pc[q] /\ work'[q] = work[q]
  BY <1>1, Effects DEF Leaves, IInv
<1>3. SUFFICES RanInOrder(p)' /\ RanIsNoted(p)' /\ NothingPassedOver(p)' /\ Idle(p)'
  BY <1>1, <1>2, OthersKeep DEF WorkInv, IInv
<1>4. /\ RanInOrder(p) /\ RanIsNoted(p) /\ NothingPassedOver(p) /\ Idle(p)
  BY DEF IInv, WorkInv
<1>5. /\ work[p].ran \in Seq(Files) /\ work[p].todo \subseteq Files /\ Files \subseteq Nat
  BY MigrationsAssumption DEF IInv, TypeOK, Work
<1>6. ASSUME NEW f, NEW g, IsNext(p, f), IsNext(p, g)
      PROVE  f = g
  <2>1. f \in work[p].todo /\ g \in work[p].todo /\ f <= g /\ g <= f
    BY <1>6 DEF IsNext
  <2>2. f \in Nat /\ g \in Nat
    BY <1>5, <2>1
  <2> QED
    BY <2>1, <2>2
<1>7. CASE ListFiles(p)
  <2>1. /\ pc[p] = "locked" /\ pc'[p] = "scanning"
        /\ Leaves(p, directory, directory, work[p].ran, work[p].noted)
    BY <1>1, <1>7, Effects DEF ListFiles, At, IInv
  <2> QED
    BY <1>1, <1>4, <2>1 DEF RanInOrder, RanIsNoted, NothingPassedOver, Idle, Known, Leaves,
       Updates!Range, Updates!InOrder
<1>8. CASE Skip(p)
  <2>1. pc[p] = "scanning" /\ pc'[p] = "scanning"
    BY <1>1, <1>8 DEF Skip, At
  <2>2. PICK f \in Known(p) :
            /\ IsNext(p, f)
            /\ Leaves(p, work[p].listed, work[p].todo \ {f}, work[p].ran, work[p].noted)
    BY <1>8, Effects DEF IInv
  <2> QED
    BY <1>1, <1>4, <2>1, <2>2 DEF RanInOrder, RanIsNoted, NothingPassedOver, Idle, Known,
       Leaves, Updates!Range, Updates!InOrder
<1>9. CASE Run(p)
  <2>1. pc[p] = "scanning" /\ pc'[p] = "noting"
    BY <1>1, <1>9 DEF Run, At
  <2>2. PICK f \in Files \ Known(p) :
            /\ IsNext(p, f)
            /\ Leaves(p, work[p].listed, work[p].todo, Append(work[p].ran, f), work[p].noted)
    BY <1>9, Effects DEF IInv
  <2> DEFINE s == work[p].ran
  <2>3. /\ DOMAIN Append(s, f) = DOMAIN s \cup {Len(s) + 1}
        /\ \A i \in DOMAIN s : Append(s, f)[i] = s[i] /\ i < Len(s) + 1
        /\ Append(s, f)[Len(s) + 1] = f
        /\ Updates!Range(Append(s, f)) = Updates!Range(s) \cup {f}
        /\ Len(s) \in Nat /\ DOMAIN s = 1 .. Len(s)
    BY <1>5, Extended
  <2>4. \A i \in DOMAIN s : s[i] < f
    BY <1>4, <2>1, <2>2 DEF RanInOrder, IsNext
  <2>5. \A g \in work[p].todo : f <= g
    BY <2>2 DEF IsNext
  <2>6. f \in Nat /\ \A i \in DOMAIN s : s[i] \in Nat
    <3>1. s \in [1 .. Len(s) -> Files]
      BY <1>5
    <3> QED
      BY <1>5, <2>2, <2>3, <3>1
  <2>7. work'[p].ran = Append(s, f) /\ work'[p].todo = work[p].todo
        /\ work'[p].noted = work[p].noted /\ work'[p].listed = work[p].listed
    BY <2>2 DEF Leaves
  <2>8. Updates!InOrder(Append(s, f))
    <3> SUFFICES ASSUME NEW i \in DOMAIN Append(s, f), NEW j \in DOMAIN Append(s, f), i < j
                 PROVE  Append(s, f)[i] < Append(s, f)[j]
      BY DEF Updates!InOrder
    <3>1. i \in DOMAIN s
      BY <2>3
    <3>2. CASE j \in DOMAIN s
      BY <1>4, <2>3, <3>1, <3>2 DEF RanInOrder, Updates!InOrder
    <3>3. CASE j = Len(s) + 1
      BY <2>3, <2>4, <3>1, <3>3
    <3> QED
      BY <2>3, <3>2, <3>3
  <2> HIDE DEF s
  <2>9. RanInOrder(p)'
    <3>1. \A i \in DOMAIN Append(s, f), g \in work[p].todo : Append(s, f)[i] <= g
      BY <1>4, <2>1, <2>3, <2>5 DEF RanInOrder, s
    <3>2. (Updates!Range(s) \cup {f}) \cap recorded = {}
      BY <1>4, <2>2 DEF RanInOrder, Known, s
    <3>3. Updates!InOrder(work[p].ran)' /\ Updates!Range(work[p].ran)' = Updates!Range(s) \cup {f}
      BY <2>3, <2>7, <2>8 DEF Updates!InOrder, Updates!Range
    <3> QED
      BY <1>1, <2>1, <2>7, <3>1, <3>2, <3>3 DEF RanInOrder
  <2>10. RanIsNoted(p)'
    <3>1. Updates!Range(work[p].ran)' = work'[p].noted \cup {f}
      BY <1>4, <2>1, <2>3, <2>7 DEF RanIsNoted, Updates!Range, s
    <3>2. IsNext(p, f)' /\ f \notin Known(p)'
      BY <1>1, <2>2, <2>7 DEF IsNext, Known
    <3> QED
      BY <2>1, <2>2, <3>1, <3>2 DEF RanIsNoted
  <2>11. NothingPassedOver(p)' /\ Idle(p)'
    BY <1>1, <1>4, <2>1, <2>7 DEF NothingPassedOver, Idle, Known
  <2> QED
    BY <2>9, <2>10, <2>11
<1>10. CASE Note(p)
  <2>1. pc[p] = "noting" /\ pc'[p] = "scanning"
    BY <1>1, <1>10 DEF Note, At
  <2>2. PICK f \in Files :
            /\ IsNext(p, f)
            /\ Leaves(p, work[p].listed, work[p].todo \ {f}, work[p].ran,
                      work[p].noted \cup {f})
    BY <1>10, Effects DEF IInv
  <2>3. Updates!Range(work[p].ran) = work[p].noted \cup {f}
    BY <1>4, <1>6, <2>1, <2>2 DEF RanIsNoted
  <2>4. work'[p].ran = work[p].ran /\ work'[p].todo = work[p].todo \ {f}
        /\ work'[p].noted = work[p].noted \cup {f} /\ work'[p].listed = work[p].listed
    BY <2>2 DEF Leaves
  <2>5. Updates!Range(work[p].ran)' = Updates!Range(work[p].ran)
        /\ Updates!InOrder(work[p].ran)' = Updates!InOrder(work[p].ran)
    BY <2>4 DEF Updates!Range, Updates!InOrder
  <2>6. \A i \in DOMAIN work[p].ran, g \in work[p].todo \ {f} : work[p].ran[i] < g
    <3> SUFFICES ASSUME NEW i \in DOMAIN work[p].ran, NEW g \in work[p].todo \ {f}
                 PROVE  work[p].ran[i] < g
      OBVIOUS
    <3>1. work[p].ran[i] <= f /\ f <= g /\ f # g
      BY <1>4, <2>2 DEF RanInOrder, IsNext
    <3>2. work[p].ran[i] \in Nat /\ f \in Nat /\ g \in Nat
      BY <1>5, <2>2
    <3> QED
      BY <3>1, <3>2
  <2>7. RanInOrder(p)'
    BY <1>1, <1>4, <2>1, <2>4, <2>5, <2>6 DEF RanInOrder
  <2>8. RanIsNoted(p)'
    BY <2>1, <2>3, <2>4, <2>5 DEF RanIsNoted
  <2>9. NothingPassedOver(p)' /\ Idle(p)'
    BY <1>1, <1>4, <2>1, <2>4 DEF NothingPassedOver, Idle, Known
  <2> QED
    BY <2>7, <2>8, <2>9
<1> QED
  BY <1>7, <1>8, <1>9, <1>10

\* A commit makes one update of what its process ran.
LEMMA CommitStep ==
    ASSUME IInv, NEW p \in Processes, TypeOK', Commit(p)
    PROVE  IInv' /\ Updates!Next
<1>1. /\ pc[p] = "scanning" /\ work[p].todo = {}
      /\ pc' = [pc EXCEPT ![p] = "ready"]
      /\ applied' = applied \o work[p].ran /\ recorded' = recorded \cup work[p].noted
      /\ pc \in [Processes -> {"off", "waiting", "ready"} \cup Working]
  BY DEF Commit, At, IInv, TypeOK
<1>2. /\ work'[p].listed = work[p].listed /\ work'[p].todo = {}
      /\ work'[p].ran = <<>> /\ work'[p].noted = {}
      /\ \A q \in Processes \ {p} : work'[q] = work[q] /\ pc'[q] = pc[q]
  BY <1>1, Effects DEF Leaves, IInv
<1>3. /\ RanInOrder(p) /\ RanIsNoted(p) /\ NothingPassedOver(p)
      /\ AppliedOnce /\ RecordedAreApplied /\ ReadyIsMigrated
  BY DEF IInv, WorkInv
<1>4. /\ work[p].ran \in Seq(Files) /\ applied \in Seq(Files) /\ Files \subseteq Nat
  BY MigrationsAssumption DEF IInv, TypeOK, Work
<1>5. Updates!Range(work[p].ran) = work[p].noted
  BY <1>1, <1>3 DEF RanIsNoted
<1>6. Updates!Range(work[p].ran) \cap Updates!Range(applied) = {}
  BY <1>3 DEF RanInOrder, RecordedAreApplied
<1>7. Updates!Range(applied') = Updates!Range(applied) \cup Updates!Range(work[p].ran)
  BY <1>1, <1>4, Joined
<1>8. AppliedOnce'
  <2>1. \A i, j \in DOMAIN work[p].ran : work[p].ran[i] = work[p].ran[j] => i = j
    BY <1>3, <1>4, InOrderOnce DEF RanInOrder
  <2>2. \A i, j \in DOMAIN applied : applied[i] = applied[j] => i = j
    BY <1>3 DEF AppliedOnce
  <2> DEFINE t == work[p].ran
  <2>3. /\ t \in Seq(Files) /\ Updates!Range(applied) \cap Updates!Range(t) = {}
        /\ \A i, j \in DOMAIN t : t[i] = t[j] => i = j
        /\ applied' = applied \o t
    BY <1>1, <1>4, <1>6, <2>1
  <2> HIDE DEF t
  <2>4. \A i, j \in DOMAIN (applied \o t) : (applied \o t)[i] = (applied \o t)[j] => i = j
    BY <1>4, <2>2, <2>3, Joined
  <2> QED
    BY <2>3, <2>4 DEF AppliedOnce
<1>9. RecordedAreApplied'
  <2>1. recorded' = Updates!Range(applied')
    BY <1>1, <1>3, <1>5, <1>7 DEF RecordedAreApplied
  <2> QED
    BY <2>1 DEF RecordedAreApplied, Updates!Range
<1>10. ReadyIsMigrated'
  <2>1. work[p].listed \subseteq recorded'
    BY <1>1, <1>3 DEF NothingPassedOver, Known
  <2> QED
    BY <1>1, <1>2, <1>3, <2>1 DEF ReadyIsMigrated
<1>11. WorkInv'
  <2> SUFFICES ASSUME NEW q \in Processes
               PROVE  RanInOrder(q)' /\ RanIsNoted(q)' /\ NothingPassedOver(q)' /\ Idle(q)'
    BY DEF WorkInv
  <2>1. pc'[q] \notin Working
    BY <1>1, <1>2 DEF IInv, TypeOK, Working
  <2>2. work'[q].ran = <<>> /\ work'[q].noted = {} /\ work'[q].todo = {}
    BY <1>1, <1>2, <2>1 DEF IInv, WorkInv, Idle, Working
  <2> QED
    BY <2>1, <2>2 DEF Working, RanInOrder, RanIsNoted, NothingPassedOver, Idle,
       Updates!Range, Updates!InOrder
<1>12. Updates!Next
  <2>1. SubSeq(applied', Len(applied) + 1, Len(applied')) = work[p].ran
    BY <1>1, <1>4
  <2>2. Updates!Range(work[p].ran) \subseteq Files
    BY <1>4 DEF Updates!Range
  <2> QED
    BY <1>1, <1>3, <1>6, <2>1, <2>2 DEF Updates!Next, Updates!IsUpdate, RanInOrder
<1> QED
  BY <1>8, <1>9, <1>10, <1>11, <1>12 DEF IInv

\* The other steps leave the committed tables alone.
LEMMA IInvStep == IInv /\ [Next]_vars => IInv' /\ [Updates!Next]_applied
<1> SUFFICES ASSUME IInv, [Next]_vars PROVE IInv' /\ [Updates!Next]_applied
  OBVIOUS
<1>1. TypeOK'
  BY TypeStep DEF IInv
<1>2. ASSUME NEW p \in Processes, Commit(p) PROVE IInv' /\ [Updates!Next]_applied
  BY <1>1, <1>2, CommitStep
<1>3. ASSUME UNCHANGED <<applied, recorded>>, WorkInv', ReadyIsMigrated'
      PROVE  IInv' /\ [Updates!Next]_applied
  BY <1>1, <1>3 DEF IInv, AppliedOnce, RecordedAreApplied, Updates!Range
<1>4. ASSUME NEW p \in Processes, ListFiles(p) \/ Skip(p) \/ Run(p) \/ Note(p)
      PROVE  IInv' /\ [Updates!Next]_applied
  <2>1. WorkInv'
    BY <1>1, <1>4, WorkStep
  <2>2. /\ UNCHANGED <<applied, recorded>> /\ pc'[p] # "ready"
        /\ \A q \in Processes \ {p} : pc'[q] = pc[q] /\ work'[q] = work[q]
    <3>1. TypeOK
      BY DEF IInv
    <3>2. \A q \in Processes \ {p} : work'[q] = work[q]
      BY <1>4, <3>1, Effects DEF Leaves
    <3>3. UNCHANGED <<applied, recorded>>
          /\ \E to \in {"scanning", "noting"} : pc' = [pc EXCEPT ![p] = to]
      BY <1>4 DEF ListFiles, Skip, Run, Note, At
    <3> QED
      BY <3>1, <3>2, <3>3 DEF TypeOK
  <2>3. ReadyIsMigrated'
    BY <2>2 DEF IInv, ReadyIsMigrated
  <2> QED
    BY <1>3, <2>1, <2>2, <2>3
<1>5. ASSUME NEW p \in Processes, Begin(p) \/ Acquire(p)
      PROVE  IInv' /\ [Updates!Next]_applied
  <2>1. /\ UNCHANGED <<applied, recorded, work>>
        /\ pc[p] \notin {"scanning", "noting"} /\ pc'[p] \notin {"scanning", "noting", "ready"}
        /\ \A q \in Processes \ {p} : pc'[q] = pc[q]
    BY <1>5 DEF IInv, TypeOK, Begin, Acquire, At
  <2>2. ReadyIsMigrated'
    BY <2>1 DEF IInv, ReadyIsMigrated
  <2>3. \A q \in Processes \ {p} :
            RanInOrder(q)' /\ RanIsNoted(q)' /\ NothingPassedOver(q)' /\ Idle(q)'
    BY <2>1, OthersKeep DEF IInv
  <2>4. RanInOrder(p)' /\ RanIsNoted(p)' /\ NothingPassedOver(p)' /\ Idle(p)'
    <3>1. work'[p].ran = <<>> /\ work'[p].noted = {} /\ work'[p].todo = {}
      BY <2>1 DEF IInv, WorkInv, Idle
    <3> QED
      BY <2>1, <3>1 DEF RanInOrder, RanIsNoted, NothingPassedOver, Idle,
         Updates!Range, Updates!InOrder
  <2> QED
    BY <1>3, <2>1, <2>2, <2>3, <2>4 DEF WorkInv
<1>6. ASSUME NEW p \in Processes, Crash(p) PROVE IInv' /\ [Updates!Next]_applied
  <2>1. /\ UNCHANGED <<applied, recorded>> /\ pc'[p] = "off"
        /\ \A q \in Processes \ {p} : pc'[q] = pc[q] /\ work'[q] = work[q]
        /\ work'[p].ran = <<>> /\ work'[p].noted = {} /\ work'[p].todo = {}
    BY <1>6, Effects DEF IInv, TypeOK, Crash, Leaves
  <2>2. ReadyIsMigrated'
    BY <2>1 DEF IInv, ReadyIsMigrated
  <2>3. \A q \in Processes \ {p} :
            RanInOrder(q)' /\ RanIsNoted(q)' /\ NothingPassedOver(q)' /\ Idle(q)'
    BY <2>1, OthersKeep DEF IInv
  <2>4. RanInOrder(p)' /\ RanIsNoted(p)' /\ NothingPassedOver(p)' /\ Idle(p)'
    BY <2>1 DEF RanInOrder, RanIsNoted, NothingPassedOver, Idle, Updates!Range, Updates!InOrder
  <2> QED
    BY <1>3, <2>1, <2>2, <2>3, <2>4 DEF WorkInv
<1>7. ASSUME UNCHANGED <<applied, recorded, pc, work>>
      PROVE  IInv' /\ [Updates!Next]_applied
  <2>1. ReadyIsMigrated' /\ WorkInv'
    BY <1>7, OthersKeep DEF IInv, ReadyIsMigrated, WorkInv
  <2> QED
    BY <1>3, <1>7, <2>1
<1>8. ASSUME NEW f \in Files, AddFile(f) PROVE IInv' /\ [Updates!Next]_applied
  BY <1>7, <1>8 DEF AddFile
<1>9. CASE UNCHANGED vars
  BY <1>7, <1>9 DEF vars
<1> QED
  BY <1>2, <1>4, <1>5, <1>6, <1>8, <1>9 DEF Next, Step

-----------------------------------------------------------------------------
(* Theorems. *)

\* The invariant holds in every state, whoever migrates when and dies where.
THEOREM MigrationsInductive == Spec => []IInv
<1> QED
  BY InitIInv, IInvStep, PTL DEF Spec

\* Types, and the exclusive lock of migrate.
THEOREM MigrationsTypes == Spec => []TypeOK
<1>1. IInv => TypeOK
  BY DEF IInv
<1> QED
  BY MigrationsInductive, <1>1, PTL

\* migrate runs no script twice on one database.
THEOREM NoScriptTwice == Spec => []AppliedOnce
<1>1. IInv => AppliedOnce
  BY DEF IInv
<1> QED
  BY MigrationsInductive, <1>1, PTL

\* The table MIGRATIONS names the scripts that ran, and no others.
THEOREM TableIsRight == Spec => []RecordedAreApplied
<1>1. IInv => RecordedAreApplied
  BY DEF IInv
<1> QED
  BY MigrationsInductive, <1>1, PTL

\* A process past migrate has every update that it found in the directory.
THEOREM SchemaIsComplete == Spec => []ReadyIsMigrated
<1>1. IInv => ReadyIsMigrated
  BY DEF IInv
<1> QED
  BY MigrationsInductive, <1>1, PTL

\* migrate implements SchemaUpdates: whole updates, each in order.
THEOREM MigrationsImplement == Spec => UpdatesSpec
<1>1. Init => Updates!Init
  BY DEF Init, Updates!Init
<1> QED
  BY InitIInv, IInvStep, <1>1, PTL DEF Spec, UpdatesSpec, Updates!Spec
=============================================================================
