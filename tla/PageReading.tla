------------------------------ MODULE PageReading ------------------------------
(***************************************************************************)
(* How verifyTallyEncryption reads a page of ballots: decoded into four    *)
(* vectors, and looked up under their indices.  TallyAudit takes the page  *)
(* as it is in the table; here it goes through Wire.                       *)
(***************************************************************************)
EXTENDS TallyAudit, Wire

\* The response of getEncryptedBallots; a row stands for its ciphertexts.
Message(page) ==
    LET rows == ById(page)
    IN  [i \in DOMAIN rows |->
            [id |-> rows[i].id,
             entries |-> [j \in DOMAIN rows[i].entries |->
                             [candidate |-> rows[i].entries[j].candidate, value |-> rows[i]]]]]

\* What the two loops put into ballotCiphertexts for candidate c.
Ciphertexts(cebs, c) ==
    UNION {{cebs.values[i][j] :
               j \in {k \in DOMAIN cebs.candidates[i] : cebs.candidates[i][k] = c}} :
           i \in DOMAIN cebs.ids}

\* Whatever rows are on a page, and wherever the vectors are moved while they
\* grow, the client finds under a candidate's indices the ciphertexts of
\* exactly the ballots on the page, each its own, and goes on after the
\* highest id.
PagesRead == \A page \in SUBSET ballots : \A cebs \in CastEncryptedBallotsOf(Message(page)) :
    /\ \A c \in Candidates :
          Ciphertexts(cebs, c) =
              {b \in page : \E i \in DOMAIN b.entries : b.entries[i].candidate = c}
    /\ page # {} => \A b \in page : b.id <= cebs.ids[Len(cebs.ids)]
=============================================================================
