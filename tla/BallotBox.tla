------------------------------ MODULE BallotBox ------------------------------
(***************************************************************************)
(* What the vote server promises, without threads, transactions, crashes   *)
(* or clients: a box that only ever gains eligible ballots, one per        *)
(* command; an acknowledgement only for a ballot that is in the box; and   *)
(* one tally per election, counted at a single instant over everything the *)
(* box held for that election, published once and never changed.  Counts   *)
(* that have not been published may be thrown away.                        *)
(***************************************************************************)
CONSTANTS
    Requests,      \* what ballots are cast for and acknowledgements name
    Elections,
    Eligible(_),   \* which ballots may enter the box
    Outcomes(_, _) \* Outcomes(e, S): the results S may have in election e

VARIABLES
    box,       \* ballots stored
    counts,    \* tallies counted and not yet published
    published, \* tallies published
    acked      \* requests whose sender was told the ballot is in

vars == <<box, counts, published, acked>>

Init == box = {} /\ counts = {} /\ published = {} /\ acked = {}

Cast == \E b \in box' :
    /\ Eligible(b)
    /\ \A other \in box : other.id # b.id /\ other.request # b.request
    /\ box' = box \cup {b}
    /\ UNCHANGED <<counts, published, acked>>

Ack(r) ==
    /\ \E b \in box : b.request = r
    /\ acked' = acked \cup {r}
    /\ UNCHANGED <<box, counts, published>>

RowsOf(e) == {b \in box : b.election = e}

Count(e) ==
    /\ \A t \in counts \cup published : t.election # e
    /\ \E results \in Outcomes(e, RowsOf(e)) :
          counts' = counts \cup {[election |-> e, counted |-> RowsOf(e),
                                  results |-> results]}
    /\ UNCHANGED <<box, published, acked>>

Publish ==
    /\ published' = published \cup counts
    /\ counts' = {}
    /\ UNCHANGED <<box, acked>>

Discard ==
    /\ counts' = {}
    /\ UNCHANGED <<box, published, acked>>

Next ==
    \/ Cast
    \/ \E r \in Requests : Ack(r)
    \/ \E e \in Elections : Count(e)
    \/ Publish
    \/ Discard

Spec == Init /\ [][Next]_vars
=============================================================================
