------------------------------ MODULE MCMainLoop ------------------------------
\* A small instance of MainLoop for TLC.
EXTENDS MainLoop

\* Daemon 4 is an earlier process at the address of daemon 1, and daemons 1 and 5 are
\* bound to 0.0.0.0.
MCAt     == [n \in Node |-> IF n = 4 THEN 1 ELSE n]
MCAddrOf == [n \in Node |-> IF n \in {1, 5} THEN 0 ELSE MCAt[n]]

Alone == [joins |-> 0, leaves |-> 0, faults |-> 0, plugins |-> {}, others |-> {2, 3}]

\* Among daemons with an address of their own, two of: a join, a leave, a plugin; or a
\* fault and a plugin.  And nothing but the plugins among those that share addresses.
MCBudgets ==
  {[Alone EXCEPT !.joins = 1, !.plugins = {"broadcast"}],
   [Alone EXCEPT !.leaves = 1, !.plugins = {"broadcast"}],
   [Alone EXCEPT !.joins = 1, !.leaves = 1],
   [Alone EXCEPT !.faults = 1, !.plugins = {"azure-tag"}],
   [Alone EXCEPT !.plugins = Plugin, !.others = {4, 5}]}
===============================================================================
