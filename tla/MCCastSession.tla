---------------------------- MODULE MCCastSession ----------------------------
(***************************************************************************)
(* Three elections over pages of two; the second comes to have one         *)
(* candidate more than a command has room for.                             *)
(***************************************************************************)
EXTENDS CastSession

MCCandidateRows == {[id |-> 1, election |-> 1], [id |-> 2, election |-> 2],
                    [id |-> 3, election |-> 2], [id |-> 4, election |-> 2]}
=============================================================================
