---------------------------- MODULE SchemaUpdates ----------------------------
(***************************************************************************)
(* What Database::migrate promises of a schema: it changes by whole        *)
(* updates.  An update runs scripts that have not been run before, each    *)
(* once, in the order of their names.                                      *)
(***************************************************************************)
EXTENDS Naturals, Sequences

CONSTANT Files      \* names, as numbers in the order of the text

VARIABLE applied    \* the scripts that made the schema, in order

Init == applied = <<>>

Range(s) == {s[i] : i \in DOMAIN s}

InOrder(s) == \A i, j \in DOMAIN s : i < j => s[i] < s[j]

IsUpdate(s) ==
    /\ InOrder(s)
    /\ Range(s) \subseteq Files \ Range(applied)
    /\ applied' = applied \o s

Next == IsUpdate(SubSeq(applied', Len(applied) + 1, Len(applied')))

Spec == Init /\ [][Next]_applied
=============================================================================
