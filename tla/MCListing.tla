------------------------------ MODULE MCListing ------------------------------
(***************************************************************************)
(* Candidates and an admitted group for the first elections; the row that  *)
(* admits group 7 to election 1 has the id 2.                              *)
(***************************************************************************)
EXTENDS Listing

MCCandidateRows == {[id |-> 1, election |-> 1], [id |-> 2, election |-> 1],
                    [id |-> 3, election |-> 1], [id |-> 4, election |-> 2]}
MCGroupRows == {[id |-> 2, election |-> 1, group |-> 7]}
=============================================================================
