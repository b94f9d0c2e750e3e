---------------------------- MODULE MCBallotServer ----------------------------
(***************************************************************************)
(* Small elections for TLC.  e1 has one candidate, open from 0 to 1; e2    *)
(* has two, open from 1 to 1.  v1 may vote in both; v2 shares a key with   *)
(* another row of VOTERS; v3 is in a group that is listed twice for e1 and *)
(* not at all for e2.                                                      *)
(***************************************************************************)
EXTENDS BallotServer, TLC

CONSTANTS v1, v2, v3, e1, e2, a, b, c, g1, g2

MCKeyRows == v1 :> 1 @@ v2 :> 2 @@ v3 :> 1
MCGroupOf == v1 :> g1 @@ v2 :> g1 @@ v3 :> g2
MCAuthRows == [e \in Elections |-> IF e = e1 THEN g1 :> 1 @@ g2 :> 2
                                            ELSE g1 :> 1 @@ g2 :> 0]
MCStartTime == [e \in Elections |-> IF e = e1 THEN 0 ELSE 1]
MCEndTime == [e \in Elections |-> 1]
MCCandidatesOf == [e \in Elections |-> IF e = e1 THEN <<a>> ELSE <<b, c>>]

Is(cand, vote) == [candidate |-> cand, vote |-> vote]

CastBy(v, e, entries) ==
    [type |-> "CAST_BALLOT", voter |-> v, election |-> e, entries |-> entries,
     decodes |-> TRUE, signed |-> TRUE]

ForA == CastBy(v1, e1, <<Is(a, 1)>>)
ForB == CastBy(v1, e2, <<Is(b, 1), Is(c, 0)>>)

\* One command for each way through processCommand and castBallot.
AllCommands ==
    {ForA, ForB,
     CastBy(v2, e1, <<Is(a, 1)>>),                 \* key of two voters
     CastBy(v3, e1, <<Is(a, 1)>>),                 \* group listed twice
     CastBy(v3, e2, <<Is(b, 1), Is(c, 0)>>),       \* group not listed
     CastBy(v1, e1, <<Is(a, 0)>>),                 \* no choice
     CastBy(v1, e1, <<Is(a, 2)>>),                 \* neither 0 nor 1
     CastBy(v1, e1, <<Is(a, 1), Is(a, 0)>>),       \* an entry too many
     CastBy(v1, e2, <<Is(b, 1), Is(c, 1)>>),       \* two choices
     CastBy(v1, e2, <<Is(c, 0), Is(b, 1)>>),       \* out of order
     CastBy(v1, e2, <<Is(b, 1)>>),                 \* an entry missing
     [ForA EXCEPT !.signed = FALSE],
     [ForA EXCEPT !.decodes = FALSE],
     [ForA EXCEPT !.type = "GET_ENCRYPTED_BALLOT"],
     [ForA EXCEPT !.type = "GET_ENCRYPTED_BALLOTS"],
     [ForA EXCEPT !.type = "UNKNOWN"]}

OneCommand == {ForA}
CommandForTwo == {ForB}

RequestSymmetry == Permutations(Requests)
=============================================================================
