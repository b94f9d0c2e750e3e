--------------------------- MODULE MCListingSession ---------------------------
(***************************************************************************)
(* A listing with two tally entries to verify.                             *)
(***************************************************************************)
EXTENDS ListingSession, TLC

CONSTANTS c1, c2, c3

MCScript == <<c1, c2, c3>>
=============================================================================
