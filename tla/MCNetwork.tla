------------------------------ MODULE MCNetwork ------------------------------
EXTENDS Network, TLC

Symmetry == Permutations(Calls) \cup Permutations(Requests)

Active == Cardinality({c \in Calls : tool[c] # "none"})

\* While the page makes requests, calls run one at a time and nothing is
\* logged; before, three calls overlap as long as few messages are logged.
Explored ==
  \/ (\A r \in Requests : stage[r] = "none") /\ (Active <= 2 \/ logged <= 1)
  \/ logged = 0 /\ Active <= 1
=============================================================================
