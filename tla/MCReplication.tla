---------------------------- MODULE MCReplication ----------------------------
\* Bounds for checking Replication with TLC.
EXTENDS Replication

\* Nodes are numbered; the higher number settles a conflict.
MCRank == [n \in Node |-> n]

\* Two daemons that start and then make one and two more calls.
PairWrites == [n \in Node |-> n + 1]
==============================================================================
