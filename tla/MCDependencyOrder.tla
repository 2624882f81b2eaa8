------------------------- MODULE MCDependencyOrder -------------------------
(* Instances of DependencyOrder: all small graphs, and one long chain. *)
EXTENDS DependencyOrder

MCColumns == {"a", "b", "c", "d"}
MCOrder   == <<"a", "b", "c", "d">>
MCMissing == {"x"}

UpTo(n, S) == UNION {[1..k -> S] : k \in 0..n}

\* Two columns with at most two dependencies, two with at most one.
MCGraphs ==
  {g \in [MCColumns -> UpTo(2, MCColumns \cup MCMissing)] : Len(g["c"]) <= 1 /\ Len(g["d"]) <= 1}

\* A table at the limit of the schema: each of 500 columns depends on the next.
ChainColumns == 1..500
ChainOrder   == [i \in ChainColumns |-> i]
ChainGraphs  == {[i \in ChainColumns |-> IF i < 500 THEN <<i + 1>> ELSE <<>>]}
=============================================================================
