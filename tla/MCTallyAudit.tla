----------------------------- MODULE MCTallyAudit -----------------------------
(***************************************************************************)
(* One election of two candidates, open from the start, whose tallies may  *)
(* be exact, spoilt by the index of generateTally, or never made.          *)
(***************************************************************************)
EXTENDS PageReading, TLC

CONSTANTS v, e, b, c, g

MCKeyRows == v :> 1
MCGroupOf == v :> g
MCAuthRows == e :> (g :> 1)
MCTime == e :> 0
MCCandidatesOf == e :> <<b, c>>

Cast == [type |-> "CAST_BALLOT", voter |-> v, election |-> e,
         entries |-> <<[candidate |-> b, vote |-> 1], [candidate |-> c, vote |-> 0]>>,
         decodes |-> TRUE, signed |-> TRUE]
MCCommands == {Cast}

\* Everything but reply: what the senders of ballots know guards no action but
\* GiveUp, which changes nothing else, and no property of the run reads it.
AuditView ==
    <<tables, up, failed, crashes, now, cmd, status, workerVars, clockVars, auditVars>>
=============================================================================
