---------------------------- MODULE MCPeerSession ----------------------------
\* Small instances of PeerSession for TLC.
EXTENDS PeerSession, TLC

MCRank == [n \in Node |-> n]

OneCookie  == [n \in Node |-> "ours"]
TwoCookies == [n \in Node |-> IF n = 3 THEN "theirs" ELSE "ours"]

\* Who is told to connect to whom.
OneWay   == {<<1, 2>>}
BothWays == {<<1, 2>>, <<2, 1>>}
Ring     == {<<1, 2>>, <<2, 3>>, <<3, 1>>}

Quiet == [faults |-> 0, leaves |-> 0, ops |-> 0, stops |-> {}]

\* What may happen in the runs.
Nothing       == {Quiet}
AFault        == {[Quiet EXCEPT !.faults = 1]}
AnOperation   == {[Quiet EXCEPT !.ops = 1]}
FaultsOrStop  == {[Quiet EXCEPT !.faults = 1, !.leaves = 1], [Quiet EXCEPT !.stops = {1}]}
OpsOrEndings  == {[Quiet EXCEPT !.ops = 2], [Quiet EXCEPT !.faults = 1],
                  [Quiet EXCEPT !.stops = {2}]}

\* Connections are used once each and differ in nothing else.
AnyConn == Permutations(Conn)
==============================================================================
