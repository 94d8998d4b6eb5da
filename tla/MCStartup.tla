------------------------------- MODULE MCStartup ------------------------------
\* Small instances of Startup for TLC.
EXTENDS Startup

CONSTANTS a, b, c, d, e

MCProc == {a, b, c, d, e}

\* a, b and c contend for a port, e uses it on another address, d has one of its own.
MCPort == [x \in Proc |-> IF x = d THEN "q" ELSE "p"]
MCBind == [x \in Proc |-> IF x = e THEN "other" ELSE "local"]

\* Two daemons of different ports are started for the first time.
FirstStarts == {[home |-> "fresh", started |-> {a, d}, foreground |-> {}]}

\* Or two of the same port are, or three of the same port, or two of the same port
\* on different addresses, find everything ready.
AllStarts ==
  FirstStarts \cup {[home |-> "fresh", started |-> {a, b}, foreground |-> f] : f \in {{}, {a}}}
  \cup {[home |-> "ready", started |-> {a, b, c}, foreground |-> f] : f \in {{}, {a}}}
  \cup {[home |-> "ready", started |-> {a, e}, foreground |-> f] : f \in {{}, {a}, {a, e}}}
  \cup {[home |-> "ready", started |-> {a, b, e}, foreground |-> {a}]}
===============================================================================
