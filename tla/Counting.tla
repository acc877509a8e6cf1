------------------------------ MODULE Counting ------------------------------
(***************************************************************************)
(* Counting the entries of a queue.                                        *)
(***************************************************************************)
EXTENDS Naturals, Sequences, FiniteSets

\* The places behind r in the queue q whose entries are in the set S.
Places(q, r, S) == {i \in DOMAIN q : i > r /\ q[i] \in S}

\* The number of those entries, and of all entries of q that are in S.
Behind(q, r, S) == Cardinality(Places(q, r, S))
Count(q, S)     == Behind(q, 0, S)

=============================================================================
