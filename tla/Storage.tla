------------------------------- MODULE Storage -------------------------------
(***************************************************************************)
(* The Go map and the SQL query, as the stores use them.                   *)
(***************************************************************************)
EXTENDS Naturals, Sequences, FiniteSets

\* The Go assignment m[k] = v, which adds k to the map or replaces its value.
Put(m, k, v) ==
    [x \in DOMAIN m \cup {k} |-> IF x = k THEN v ELSE m[x]]

\* The orders in which SELECT ... ORDER BY rank may return the rows S: SQL leaves
\* the order of rows of equal rank open.
Ordered(S, rank) ==
    {s \in [1..Cardinality(S) -> S] :
        \A i, j \in DOMAIN s : i < j => s[i] # s[j] /\ rank[s[i]] <= rank[s[j]]}

\* The elements of s that are in T, in the order they have in s.
Where(s, T) ==
    LET kept[n \in 0..Len(s)] ==
            IF n = 0 THEN << >>
            ELSE IF s[n] \in T THEN Append(kept[n - 1], s[n]) ELSE kept[n - 1]
    IN  kept[Len(s)]

=============================================================================
