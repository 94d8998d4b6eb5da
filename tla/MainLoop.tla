------------------------------- MODULE MainLoop -------------------------------
(***************************************************************************)
(* Whom a daemon connects to: the main loop of daemon/mod.rs (tick, mesh   *)
(* expansion), the queues the control socket and the discovery plugins     *)
(* fill, and the plugins themselves, for the one daemon Self.  Sessions    *)
(* appear by their effect on its table of peers and its registry; their    *)
(* inside is PeerSession.                                                  *)
(*                                                                         *)
(* A node is one process, with a fresh id; a daemon that is started again  *)
(* at the same address is another node.                                    *)
(***************************************************************************)
EXTENDS Naturals, Sequences, FiniteSets, Functions

CONSTANTS
  Node, Self,
  Addr,            \* socket addresses
  Name,            \* other strings (a host name and a port)
  At,              \* At[n]: the address at which n can be reached
  AddrOf,          \* AddrOf[n]: the address n is bound to and tells the others:
                   \* At[n], or the wildcard of --bind 0.0.0.0
  ToJoin, ToLeave, \* what operators give to pmd join and pmd leave
  Mortal,          \* the other daemons that may end
  ChannelCap,      \* capacity of the channel of discovered addresses
  MaxDials,        \* connect_to_peer tasks for one address at a time
  Budgets          \* what may happen: a behaviour takes one of these

Plugin == {"broadcast", "azure-tag"}
Asked  == Addr \cup Name

ASSUME MainLoopAssumption ==
  /\ Self \in Node
  /\ Addr \cap Name = {}
  /\ {At, AddrOf} \subseteq [Node -> Addr]
  /\ \A m, n \in Node : AddrOf[n] # At[n] => At[m] # AddrOf[n]
  /\ ToJoin \subseteq Asked /\ ToLeave \subseteq Asked
  /\ Mortal \subseteq Node \ {Self}
  /\ {ChannelCap, MaxDials} \subseteq Nat
  /\ Budgets \subseteq [joins : Nat, leaves : Nat, faults : Nat, plugins : SUBSET Plugin,
                        others : SUBSET (Node \ {Self})]

VARIABLES
  life,            \* life[n]: the process n is still to start, up or over
  registry,        \* registry[n]: what Self's membership has for n
  peers,           \* keys of DaemonState::peers
  lingering,       \* sessions without a handle, since a leave
  known,           \* known_peers of each plugin, with the plugin
  waiting,         \* addresses that plugins cannot send yet
  found,           \* the channel from the plugins to the daemon
  pendingJoins, pendingLeaves,
  leaving,         \* leaves that process_tick has drained and not yet done
  dialling,        \* dialling[a]: connect_to_peer tasks not yet registered
  stop,            \* shutdown_requested
  running,         \* the main loop has not ended
  used,            \* how much of the budget is spent
  budget           \* how many pmd join and pmd leave commands and faults (failed
                   \* connects, lost sessions, removals by others) there are at most,
                   \* which discovery plugins are enabled, and which others there are

discovery == <<known, waiting, found>>
queues    == <<pendingJoins, pendingLeaves, leaving>>
limits    == <<used, budget>>
control   == <<stop, running, limits>>
vars      == <<life, registry, peers, lingering, discovery, dialling, queues, control>>

TypeOK ==
  /\ life \in [Node -> {"new", "up", "over"}]
  /\ registry \in [Node -> {"unknown", "addr", "dead"}]
  /\ peers \subseteq Node \ {Self} /\ lingering \subseteq Node \ {Self}
  /\ known \subseteq Plugin \X (Node \cup Addr)
  /\ waiting \subseteq Plugin \X Addr
  /\ found \in Seq(Addr) /\ Len(found) <= ChannelCap
  /\ pendingJoins \in Seq(Asked) /\ pendingLeaves \in Seq(Asked) /\ leaving \in Seq(Asked)
  /\ dialling \in [Addr -> 0 .. MaxDials]
  /\ stop \in BOOLEAN /\ running \in BOOLEAN
  /\ budget \in Budgets
  /\ used \in [joins : 0 .. budget.joins, leaves : 0 .. budget.leaves,
               faults : 0 .. budget.faults]

\* Self has just started.  Earlier processes at its address are over.
Init ==
  /\ budget \in Budgets
  /\ life = [n \in Node |-> IF n = Self THEN "up"
                            ELSE IF n \in budget.others /\ At[n] = At[Self] THEN "over"
                            ELSE "new"]
  /\ registry = [n \in Node |-> IF n = Self THEN "addr" ELSE "unknown"]
  /\ peers = {} /\ lingering = {}
  /\ known = {} /\ waiting = {}
  /\ found = <<>> /\ pendingJoins = <<>> /\ pendingLeaves = <<>> /\ leaving = <<>>
  /\ dialling = [a \in Addr |-> 0]
  /\ stop = FALSE /\ running = TRUE
  /\ used = [joins |-> 0, leaves |-> 0, faults |-> 0]

Members == {n \in Node : registry[n] = "addr"}

\* A handle has the address its peer told in the handshake.
PeerAt(a) == \E n \in peers : AddrOf[n] = a

\* Whoever connects to one of these from the host of Self reaches Self.
OwnAddr == {At[Self], AddrOf[Self]}

\* The main loop waits in its select!.
Idle == running /\ leaving = <<>>

Spend(what) ==
  /\ used[what] < budget[what]
  /\ used' = [used EXCEPT ![what] = @ + 1]
  /\ UNCHANGED budget

-------------------------------------------------------------------------------
(***************************************************************************)
(* Requests of the control socket                                          *)
(***************************************************************************)

RequestJoin(a) ==
  /\ running
  /\ Spend("joins")
  /\ pendingJoins' = Append(pendingJoins, a)
  /\ UNCHANGED <<life, registry, peers, lingering, discovery, dialling,
                 pendingLeaves, leaving, stop, running>>

RequestLeave(a) ==
  /\ running
  /\ Spend("leaves")
  /\ pendingLeaves' = Append(pendingLeaves, a)
  /\ UNCHANGED <<life, registry, peers, lingering, discovery, dialling,
                 pendingJoins, leaving, stop, running>>

RequestShutdown ==
  /\ running
  /\ stop' = TRUE
  /\ UNCHANGED <<life, registry, peers, lingering, discovery, dialling, queues,
                 running, limits>>

-------------------------------------------------------------------------------
(***************************************************************************)
(* Discovery                                                               *)
(***************************************************************************)

\* What a plugin remembers a node by: its id in a beacon, or its IP address.
Key(p, n) == <<p, IF p = "broadcast" THEN n ELSE At[n]>>

\* What it reports: the address in the beacon, or the IP address with a port.
Reported(p, n) == IF p = "broadcast" THEN AddrOf[n] ELSE At[n]

\* Mutant: a plugin does not recognise its own daemon.
ForeignAlways(p, n) == TRUE

Foreign(p, n) == IF p = "broadcast" THEN n # Self ELSE At[n] # At[Self]

\* Whom a plugin may come across: a beacon comes from a running daemon, the
\* tag of a virtual machine is there whether or not a daemon runs on it.
Visible(p) ==
  IF p = "broadcast" THEN {n \in Node : life[n] = "up"} ELSE budget.others \cup {Self}

\* Mutant: the channel takes one more.
RoomOneMore == Len(found) <= ChannelCap

Room == Len(found) < ChannelCap

\* A plugin finds n for the first time, remembers it and reports it; on a full channel
\* it waits with the address in its hand, and looks at nothing else.
Discover(p, n) ==
  /\ running
  /\ \A a \in Addr : <<p, a>> \notin waiting
  /\ n \in Visible(p) /\ Foreign(p, n)
  /\ Key(p, n) \notin known
  /\ known' = known \cup {Key(p, n)}
  /\ \/ Room /\ found' = Append(found, Reported(p, n)) /\ UNCHANGED waiting
     \/ ~ Room /\ waiting' = waiting \cup {<<p, Reported(p, n)>>} /\ UNCHANGED found
  /\ UNCHANGED <<life, registry, peers, lingering, dialling, queues, control>>

\* The channel has room again.
Report(p, a) ==
  /\ running
  /\ <<p, a>> \in waiting
  /\ Room
  /\ waiting' = waiting \ {<<p, a>>}
  /\ found' = Append(found, a)
  /\ UNCHANGED <<life, registry, peers, lingering, known, dialling, queues, control>>

\* Mutant: the queue is not searched.
EnqueueAlways(a) == pendingJoins' = Append(pendingJoins, a)

\* An address that is not queued yet is queued.
Enqueue(a) ==
  pendingJoins' = IF a \in Range(pendingJoins) THEN pendingJoins
                  ELSE Append(pendingJoins, a)

\* The forwarding task of run takes an address from the channel.
Forward ==
  /\ running
  /\ found # <<>>
  /\ found' = Tail(found)
  /\ IF PeerAt(Head(found)) THEN UNCHANGED pendingJoins ELSE Enqueue(Head(found))
  /\ UNCHANGED <<life, registry, peers, lingering, known, waiting, dialling,
                 pendingLeaves, leaving, control>>

-------------------------------------------------------------------------------
(***************************************************************************)
(* The main loop                                                           *)
(***************************************************************************)

\* run returns, and the daemon's state goes with the process.  The half second of
\* the graceful shutdown is PeerSession's: the loop queues and dials nothing in it.
ProcessEnds ==
  /\ running' = FALSE
  /\ registry' = [n \in Node |-> "unknown"]
  /\ peers' = {} /\ lingering' = {} /\ known' = {} /\ waiting' = {} /\ found' = <<>>
  /\ pendingJoins' = <<>> /\ pendingLeaves' = <<>> /\ leaving' = <<>>
  /\ dialling' = [a \in Addr |-> 0]
  /\ UNCHANGED <<life, stop, limits>>

\* Mutant: the loop does not end while joins are queued.
EndLoopWhenIdle ==
  /\ Idle
  /\ stop /\ pendingJoins = <<>>
  /\ ProcessEnds

\* SIGINT ends the loop where it waits.  Anywhere else it is lost: every round of
\* the loop makes a new listener, and the handler that remains does nothing.
Interrupt == Idle /\ ProcessEnds

\* A tick finds the request to shut down.
EndLoop ==
  /\ Idle
  /\ stop
  /\ ProcessEnds

Occurrences(s, a) == Cardinality({k \in DOMAIN s : s[k] = a})

\* Mutant: the drained joins are dialled only when there is nothing to leave.
ProcessTickEither ==
  /\ Idle
  /\ ~ stop
  /\ \A a \in Addr : dialling[a] + Occurrences(pendingJoins, a) <= MaxDials
  /\ dialling' = IF pendingLeaves # <<>> THEN dialling
                 ELSE [a \in Addr |-> dialling[a] + Occurrences(pendingJoins, a)]
  /\ pendingJoins' = <<>> /\ pendingLeaves' = <<>>
  /\ leaving' = pendingLeaves
  /\ UNCHANGED <<life, registry, peers, lingering, discovery, control>>

\* process_tick up to its loop over the leaves: every join that parses as a socket
\* address becomes a task, and any other is dropped with a warning.
ProcessTick ==
  /\ Idle
  /\ ~ stop
  /\ \A a \in Addr : dialling[a] + Occurrences(pendingJoins, a) <= MaxDials
  /\ dialling' = [a \in Addr |-> dialling[a] + Occurrences(pendingJoins, a)]
  /\ pendingJoins' = <<>> /\ pendingLeaves' = <<>>
  /\ leaving' = pendingLeaves
  /\ UNCHANGED <<life, registry, peers, lingering, discovery, control>>

\* One round of that loop.
ProcessLeave ==
  LET gone == {n \in peers : AddrOf[n] = Head(leaving)}
  IN  /\ running
      /\ leaving # <<>>
      /\ leaving' = Tail(leaving)
      /\ peers' = peers \ gone
      /\ lingering' = lingering \cup gone
      /\ UNCHANGED <<life, registry, discovery, dialling, pendingJoins,
                     pendingLeaves, control>>

\* Mutant: the square root is rounded down.
TargetFloor(size) ==
  CHOOSE t \in 0 .. size : t * t <= size /\ (t + 1) * (t + 1) > size

\* How many peers suit a cluster: the square root of its size, rounded up.
Target(size) ==
  CHOOSE t \in 0 .. size : t * t >= size /\ \A u \in 0 .. t : u * u >= size => u = t

MeshExpand ==
  LET size == Cardinality(Members)
  IN  /\ Idle
      /\ Cardinality(peers) < Target(size)
      /\ Cardinality(peers) + 1 < size
      /\ \E n \in Members \ (peers \cup {Self}) : Enqueue(AddrOf[n])
      /\ UNCHANGED <<life, registry, peers, lingering, discovery, dialling,
                     pendingLeaves, leaving, control>>

-------------------------------------------------------------------------------
(***************************************************************************)
(* Sessions, by their effect, and the other daemons                        *)
(***************************************************************************)

Undial(a) == dialling' = [dialling EXCEPT ![a] = @ - 1]

\* connect_to_peer registers the daemon it has reached.
Connects(a) ==
  /\ running
  /\ dialling[a] > 0
  /\ \E n \in Node \ (peers \cup {Self}) :
       life[n] = "up" /\ At[n] = a /\ peers' = peers \cup {n}
  /\ Undial(a)
  /\ UNCHANGED <<life, registry, lingering, discovery, queues, control>>

\* It reaches its own daemon: one end registers, the other is a duplicate, and
\* the cleanup of the first removes the daemon from its own registry.
ConnectsToSelf ==
  /\ running
  /\ \E a \in OwnAddr : dialling[a] > 0 /\ Undial(a)
  /\ registry' = [registry EXCEPT ![Self] = "dead"]
  /\ UNCHANGED <<life, peers, lingering, discovery, queues, control>>

\* It finds nobody, a peer it already has, or one that still has a session with
\* this daemon after a leave and refuses another; or it fails for another reason.
ConnectFails(a) ==
  /\ running
  /\ a \notin OwnAddr
  /\ dialling[a] > 0
  /\ Undial(a)
  /\ \/ (\A n \in Node : At[n] = a => life[n] # "up") /\ UNCHANGED limits
     \/ (\E n \in peers \cup lingering : At[n] = a) /\ UNCHANGED limits
     \/ Spend("faults")
  /\ UNCHANGED <<life, registry, peers, lingering, discovery, queues, stop, running>>

\* run_inbound registers n.
Inbound(n) ==
  /\ running
  /\ n \notin peers \cup {Self} /\ life[n] = "up"
  /\ peers' = peers \cup {n}
  /\ UNCHANGED <<life, registry, lingering, discovery, dialling, queues, control>>

\* A sync from a peer brings the entry of n, which may be long over.
Learn(n) ==
  /\ running /\ peers # {}
  /\ registry[n] = "unknown" /\ life[n] # "new"
  /\ registry' = [registry EXCEPT ![n] = "addr"]
  /\ UNCHANGED <<life, peers, lingering, discovery, dialling, queues, control>>

\* A sync brings a tombstone for n, which may be this daemon.
LearnRemoval(n) ==
  /\ running /\ peers # {}
  /\ registry[n] = "addr"
  /\ \/ life[n] = "over" /\ UNCHANGED limits
     \/ life[n] # "over" /\ Spend("faults")
  /\ registry' = [registry EXCEPT ![n] = "dead"]
  /\ UNCHANGED <<life, peers, lingering, discovery, dialling, queues, stop, running>>

\* The cleanup of a session with n.  The tombstone of a node whose entry is not
\* there yet is concurrent with it and need not win when it comes.
SessionEnds(n) ==
  /\ running
  /\ n \in peers \cup lingering
  /\ \/ life[n] = "over" /\ UNCHANGED limits
     \/ life[n] # "over" /\ Spend("faults")
  /\ peers' = peers \ {n} /\ lingering' = lingering \ {n}
  /\ registry' = [registry EXCEPT ![n] = IF @ = "addr" THEN "dead" ELSE @]
  /\ UNCHANGED <<life, discovery, dialling, queues, stop, running>>

\* Another daemon starts, or ends.
NodeLife(n) ==
  /\ running /\ n # Self
  /\ \/ /\ life[n] = "new" /\ n \in budget.others
        /\ \A m \in Node : At[m] = At[n] => life[m] # "up"
        /\ life' = [life EXCEPT ![n] = "up"]
     \/ /\ life[n] = "up" /\ n \in Mortal
        /\ life' = [life EXCEPT ![n] = "over"]
  /\ UNCHANGED <<registry, peers, lingering, discovery, dialling, queues, control>>

Next ==
  \/ RequestShutdown \/ Interrupt \/ Forward \/ EndLoop \/ ProcessTick \/ ProcessLeave
  \/ MeshExpand \/ ConnectsToSelf
  \/ \E a \in ToJoin : RequestJoin(a)
  \/ \E a \in ToLeave : RequestLeave(a)
  \/ \E a \in Addr : Connects(a) \/ ConnectFails(a)
  \/ \E p \in budget.plugins, n \in Node : Discover(p, n)
  \/ \E p \in budget.plugins, a \in Addr : Report(p, a)
  \/ \E n \in Node : Inbound(n) \/ Learn(n) \/ LearnRemoval(n) \/ SessionEnds(n) \/ NodeLife(n)

Spec == Init /\ [][Next]_vars

\* Timers fire, tasks that can go on do, a connect comes to an end, and a
\* session with a daemon that is over is noticed.  Nobody has to ask for
\* anything, to be found or to start.  (A connect that hangs in its handshake holds
\* nothing up in the code; here it would use up MaxDials.)
Fairness ==
  /\ WF_vars(Forward) /\ WF_vars(EndLoop) /\ WF_vars(ProcessTick) /\ WF_vars(ProcessLeave)
  /\ WF_vars(MeshExpand) /\ WF_vars(ConnectsToSelf)
  /\ WF_vars(\E p \in budget.plugins, a \in Addr : Report(p, a))
  /\ \A a \in Addr : WF_vars(Connects(a) \/ ConnectFails(a))
  /\ \A n \in Node : WF_vars(life[n] = "over" /\ SessionEnds(n))

FairSpec == Spec /\ Fairness

-------------------------------------------------------------------------------
(***************************************************************************)
(* Properties                                                              *)
(***************************************************************************)

\* Only pmd join puts an address into pending_joins twice: whatever the plugins
\* and the mesh report, and however often, the queue is no longer than the
\* number of addresses and the user's own requests.
QueuedOnce == Len(pendingJoins) <= Cardinality(Range(pendingJoins)) + used.joins

\* Without a pmd join, a daemon dials itself only by way of another process whose
\* advertised address leads back to it (an earlier process at its address, or two
\* daemons bound to 0.0.0.0, the default of README.md:44), which the registry has
\* listed or a beacon has shown: mod.rs:318 and the broadcast plugin leave out the
\* local node by its id only, the Azure plugin by its IP address, and nothing else
\* brings the daemon's own address in.  In the two cases named it does dial itself.
NoSelfDial ==
  used.joins = 0 /\ (\E a \in OwnAddr : dialling[a] > 0) =>
    \E n \in Node \ {Self} :
      AddrOf[n] \in OwnAddr /\ (registry[n] # "unknown" \/ Key("broadcast", n) \in known)

\* A discovered or requested socket address is dialled in the end, or it is connected
\* by then or the daemon stops: a plugin that waits with it on a full channel,
\* draining, deduplication and concurrent leaves drop none.  A requested string that
\* is no socket address is answered Ok and dropped (mod.rs:245).
JoinsAreDialled ==
  \A a \in Addr :
    a \in {w[2] : w \in waiting} \cup Range(found) \cup Range(pendingJoins)
      ~> dialling[a] > 0 \/ PeerAt(a) \/ ~ running

\* pmd stop stops the daemon, whatever is queued.
StopHappens == stop ~> ~ running

\* The mesh is dense enough for the cluster the registry lists (mod.rs:308
\* "Target: at least sqrt(n) peers for O(log n) gossip convergence").
DenseEnough ==
  \/ Cardinality(peers) * Cardinality(peers) >= Cardinality(Members)
  \/ Cardinality(peers) + 1 >= Cardinality(Members)

\* When every other listed daemon is up from some time on, at the address it
\* advertises, and this one runs, mesh expansion makes the mesh dense enough.  (A
\* session that lingers after a leave makes the daemon on its other side refuse a new
\* one.)
MeshFills ==
  <>[](/\ running /\ lingering = {}
       /\ \A n \in Members \ {Self} : life[n] = "up" /\ AddrOf[n] = At[n])
    => []<>DenseEnough
===============================================================================
