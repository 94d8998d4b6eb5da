----------------------------- MODULE PeerSession -----------------------------
(***************************************************************************)
(* Connections between daemons: crates/pmd/src/daemon/peer.rs, the accept  *)
(* loop of server.rs and the parts of daemon/mod.rs that drive sessions    *)
(* (dialling, leaving, gossip, shutdown).                                  *)
(*                                                                         *)
(* Every connection has two ends, each run by a task of one daemon.  A     *)
(* task's step is what it does between two releases of the daemon's mutex; *)
(* the tasks of one daemon share its document and its table of handles     *)
(* (DaemonState::peers), which holds at most one handle per remote daemon. *)
(* Heartbeats are left out: their effect is the failure detector's verdict *)
(* (Suspect), which may come at any time.                                  *)
(***************************************************************************)
EXTENDS Membership, Sequences, FiniteSets

CONSTANTS
  Conn,         \* connections, each used once
  Cookie,       \* Cookie[i]: i's cluster cookie (with the protocol version it speaks)
  Joins,        \* pairs <<i, j>>: i may be told to connect to j (pmd join, discovery, mesh)
  Budgets,      \* what may happen to the cluster: a behaviour takes one of these
  MaxInbox      \* messages a connection buffers in one direction

ASSUME SessionAssumption ==
  /\ Joins \subseteq Node \X Node
  /\ MaxInbox \in Nat
  /\ IsFiniteSet(Conn)
  /\ \E most \in Budgets : \A b \in Budgets : b.ops <= most.ops
  /\ \A b \in Budgets :
       /\ {b.faults, b.leaves, b.ops} \subseteq Nat
       /\ b.stops \subseteq Node

VARIABLES
  doc,      \* doc[i]: DaemonState::membership
  status,   \* status[i]: how far i's main function has got
  view,     \* view[i]: the members according to the events i broadcast so far
  peers,    \* peers[i][j]: i's handle for j (the end it signals, last_vv), or NoPeer
  link,     \* link[c]: <<initiator, responder>>, or <<>> while c is unused
  cut,      \* connections the network has broken
  pc,       \* pc[e]: where the task of end e is
  inbox,    \* inbox[e]: frames sent to e and not yet handled
  sig,      \* sig[e]: a gossip signal waits in e's channel (capacity 1)
  used,     \* how much of it is spent
  budget    \* how many faults (broken connections, false suspicions, crashes), pmd
            \* leave commands and service operations there are at most, and which
            \* daemons pmd stop or SIGINT may reach

limits   == <<used, budget>>
vars     == <<doc, status, view, peers, link, cut, pc, inbox, sig, limits>>
taskVars == <<pc, inbox, sig>>

End == Conn \X {"init", "resp"}

PeerHandle == [end : End, lastVV : VV]
NoPeer     == [end |-> <<>>, lastVV |-> ZeroVV]

Other(e)  == <<e[1], IF e[2] = "init" THEN "resp" ELSE "init">>
Local(e)  == link[e[1]][IF e[2] = "init" THEN 1 ELSE 2]
Remote(e) == Local(Other(e))

Handshake == [type : {"handshake"}, from : Node]
Ack       == [type : {"ack"}, from : Node, vv : VV]
Sync      == [type : {"sync"}, delta : Doc]

TypeOK ==
  /\ doc \in [Node -> Doc]
  /\ status \in [Node -> {"off", "running", "draining", "cancelled", "exited"}]
  /\ view \in [Node -> SUBSET Node]
  /\ peers \in [Node -> [Node -> PeerHandle \cup {NoPeer}]]
  /\ link \in [Conn -> (Node \X Node) \cup {<<>>}]
  /\ cut \subseteq Conn
  /\ pc \in [End -> {"free", "hello", "opening", "loop", "cleanup", "closed"}]
  /\ inbox \in [End -> Seq(Handshake \cup Ack \cup Sync)]
  /\ sig \in [End -> BOOLEAN]
  /\ budget \in Budgets
  /\ used \in [faults : 0 .. budget.faults, leaves : 0 .. budget.leaves,
               ops : 0 .. budget.ops]

Init ==
  /\ doc = [i \in Node |-> NewDoc]
  /\ status = [i \in Node |-> "off"]
  /\ view = [i \in Node |-> {}]
  /\ peers = [i \in Node |-> [j \in Node |-> NoPeer]]
  /\ link = [c \in Conn |-> <<>>]
  /\ cut = {}
  /\ pc = [e \in End |-> "free"]
  /\ inbox = [e \in End |-> <<>>]
  /\ sig = [e \in End |-> FALSE]
  /\ used = [faults |-> 0, leaves |-> 0, ops |-> 0]
  /\ budget \in Budgets

Spend(what) ==
  /\ used[what] < budget[what]
  /\ used' = [used EXCEPT ![what] = @ + 1]
  /\ UNCHANGED budget

Up(i) == status[i] \in {"running", "draining", "cancelled"}

Open(e) == pc[e] \notin {"free", "closed"}

\* Reads of e end, and its writes may fail: the other end is closed or the
\* network is gone.  What was in flight may or may not still be read.
Gone(e) == pc[Other(e)] = "closed" \/ e[1] \in cut

\* e's task goes to the control state next.
Goto(e, next) == pc' = [pc EXCEPT ![e] = next]

\* The tasks of the ends in S are over, and what they have not read is dropped.
Close(S) ==
  /\ pc' = [e \in End |-> IF e \in S THEN "closed" ELSE pc[e]]
  /\ inbox' = [e \in End |-> IF e \in S THEN <<>> ELSE inbox[e]]

\* write_frame of m by e, in the state after it has taken the frame box[e].
\* It blocks while the other direction is full; into a connection that is gone
\* it may seem to succeed.  That an end reads nothing while it is blocked, and that
\* two ends may block each other for good, is in Wire.
WriteOK(e, m, box) ==
  IF Gone(e)
    THEN inbox' = box
    ELSE /\ Len(box[Other(e)]) < MaxInbox
         /\ inbox' = [box EXCEPT ![Other(e)] = Append(@, m)]

Take(e) == [inbox EXCEPT ![e] = Tail(@)]

HasFrame(e, type) == inbox[e] # <<>> /\ Head(inbox[e]).type = type

Connected(i, j) == peers[i][j] # NoPeer

\* st.peers.insert: e's handle for the daemon j.
Insert(e, j, vv) ==
  peers' = [peers EXCEPT ![Local(e)][j] = [end |-> e, lastVV |-> vv]]

\* Mutant: the peer is taken to know what this daemon knows after the merge.
SetLastVVMerged(i, j, vv) ==
  IF Connected(i, j)
    THEN [peers EXCEPT ![i][j].lastVV = JoinVV(doc[i].vv, vv)]
    ELSE peers

\* i's table once j has told its version vector.
SetLastVV(i, j, vv) ==
  IF Connected(i, j) THEN [peers EXCEPT ![i][j].lastVV = vv] ELSE peers

\* Mutant: nobody is signalled.
SignalNobody(table) == sig

\* try_send on every handle of a table; the channel of a task that is over is
\* closed.
Signal(table) ==
  [e \in End |-> sig[e] \/ (Open(e) /\ \E j \in DOMAIN table : table[j].end = e)]

-------------------------------------------------------------------------------
(***************************************************************************)
(* The life of a daemon                                                    *)
(***************************************************************************)

\* run, up to the main loop.  No event announces the daemon itself; whoever replays
\* its events starts from its own entry.
Start(i) ==
  /\ status[i] = "off"
  /\ status' = [status EXCEPT ![i] = "running"]
  /\ doc' = [doc EXCEPT ![i] = AddNode(@, i)]
  /\ view' = [view EXCEPT ![i] = {i}]
  /\ UNCHANGED <<peers, link, cut, taskVars, limits>>

\* The control socket's requests to register and unregister services.
ServiceOp(i, s) ==
  /\ Up(i)
  /\ Spend("ops")
  /\ \/ doc' = [doc EXCEPT ![i] = RegisterService(@, i, s)]
     \/ doc' = [doc EXCEPT ![i] = UnregisterService(@, i, s)]
  /\ UNCHANGED <<status, view, peers, link, cut, taskVars>>

\* The main loop ends: the daemon removes itself and signals its peers.  It
\* broadcasts no event.
BeginShutdown(i) ==
  /\ i \in budget.stops
  /\ status[i] = "running"
  /\ status' = [status EXCEPT ![i] = "draining"]
  /\ doc' = [doc EXCEPT ![i] = RemoveNode(@, i, i)]
  /\ sig' = Signal(peers[i])
  /\ UNCHANGED <<view, peers, link, cut, pc, inbox, limits>>

\* 500 ms later the shutdown token is cancelled, whether or not the tasks of
\* the peers have sent the removal.
Cancel(i) ==
  /\ status[i] = "draining"
  /\ status' = [status EXCEPT ![i] = "cancelled"]
  /\ UNCHANGED <<doc, view, peers, link, cut, taskVars, limits>>

\* The process ends and takes its tasks with it, wherever they are.
ProcessEnds(i) ==
  LET mine == {e \in End : link[e[1]] # <<>> /\ Local(e) = i}
  IN  /\ status' = [status EXCEPT ![i] = "exited"]
      /\ peers' = [peers EXCEPT ![i] = [j \in Node |-> NoPeer]]
      /\ Close(mine)
      /\ sig' = [e \in End |-> sig[e] /\ e \notin mine]
      /\ UNCHANGED <<doc, view, link, cut>>

\* run returns after the cancellation.
Exit(i) ==
  /\ status[i] = "cancelled"
  /\ ProcessEnds(i)
  /\ UNCHANGED limits

Crash(i) ==
  /\ Up(i)
  /\ Spend("faults")
  /\ ProcessEnds(i)

Break(c) ==
  /\ c \notin cut
  /\ \E e \in End : e[1] = c /\ Open(e)
  /\ Spend("faults")
  /\ cut' = cut \cup {c}
  /\ UNCHANGED <<doc, status, view, peers, link, taskVars>>

\* process_tick takes a pending leave: it drops the handle, and only that.
Leave(i, j) ==
  /\ status[i] = "running"
  /\ Connected(i, j)
  /\ Spend("leaves")
  /\ peers' = [peers EXCEPT ![i][j] = NoPeer]
  /\ UNCHANGED <<doc, status, view, link, cut, taskVars>>

\* gossip_sync_random_peer chooses j.
GossipTick(i, j) ==
  /\ status[i] = "running"
  /\ Connected(i, j)
  /\ sig' = Signal([k \in {j} |-> peers[i][k]])
  /\ UNCHANGED <<doc, status, view, peers, link, cut, pc, inbox, limits>>

-------------------------------------------------------------------------------
(***************************************************************************)
(* Sessions                                                                *)
(***************************************************************************)

\* run_server accepts connections until the token is cancelled.
Listening(j) == status[j] \in {"running", "draining"}

\* process_tick takes a pending join: connect_to_peer up to its Handshake, and
\* the accept loop of j.
Dial(i, j, c) ==
  /\ status[i] = "running"
  /\ Listening(j)
  /\ <<i, j>> \in Joins
  /\ link[c] = <<>>
  /\ link' = [link EXCEPT ![c] = <<i, j>>]
  /\ pc' = [pc EXCEPT ![<<c, "init">>] = "hello", ![<<c, "resp">>] = "hello"]
  /\ inbox' = [inbox EXCEPT ![<<c, "resp">>] = <<[type |-> "handshake", from |-> i]>>]
  /\ UNCHANGED <<doc, status, view, peers, cut, sig, limits>>

\* Reading the Handshake or its Ack fails, or finds end of file.  Nothing is written
\* meanwhile and the read has no time limit: a connection that is cut without a word
\* may leave the task waiting for ever.
HelloEnds(e) ==
  /\ pc[e] = "hello"
  /\ Gone(e)
  /\ Close({e})
  /\ UNCHANGED <<doc, status, view, peers, link, cut, sig, limits>>

\* Mutant: the table is not consulted.
AcceptsDuplicate(e, j) == Cookie[Local(e)] = Cookie[j]

\* Mutant: the cookie is not verified.
AcceptsAnyCookie(e, j) == ~ Connected(Local(e), j)

\* A Handshake or an Ack from j lets e go on.
Accepts(e, j) ==
  /\ Cookie[Local(e)] = Cookie[j]
  /\ ~ Connected(Local(e), j)

\* Mutant: a rejected connection runs the cleanup of a session.
RejectCleansUp(e) ==
  /\ pc[e] = "hello"
  /\ HasFrame(e, "handshake") \/ HasFrame(e, "ack")
  /\ ~ Accepts(e, Head(inbox[e]).from)
  /\ Goto(e, "cleanup")
  /\ UNCHANGED <<doc, status, view, peers, link, cut, inbox, sig, limits>>

\* Mutant: the peer is registered before the check for duplicates.
RejectAfterInsert(e) ==
  /\ pc[e] = "hello"
  /\ HasFrame(e, "handshake") \/ HasFrame(e, "ack")
  /\ ~ Accepts(e, Head(inbox[e]).from)
  /\ Insert(e, Head(inbox[e]).from, ZeroVV)
  /\ Close({e})
  /\ UNCHANGED <<doc, status, view, link, cut, sig, limits>>

\* A wrong cookie or protocol version, or a duplicate of a connected peer.
Reject(e) ==
  /\ pc[e] = "hello"
  /\ HasFrame(e, "handshake") \/ HasFrame(e, "ack")
  /\ ~ Accepts(e, Head(inbox[e]).from)
  /\ Close({e})
  /\ UNCHANGED <<doc, status, view, peers, link, cut, sig, limits>>

\* run_inbound accepts the Handshake, registers the peer and replies.  When the
\* reply cannot be written, it returns without its cleanup.
RecvHandshake(e) ==
  /\ pc[e] = "hello"
  /\ HasFrame(e, "handshake")
  /\ Accepts(e, Head(inbox[e]).from)
  /\ Insert(e, Head(inbox[e]).from, ZeroVV)
  /\ \/ /\ Goto(e, "opening")
        /\ WriteOK(e, [type |-> "ack", from |-> Local(e), vv |-> doc[Local(e)].vv], Take(e))
     \/ Gone(e) /\ Close({e})
  /\ UNCHANGED <<doc, status, view, link, cut, sig, limits>>

\* connect_to_peer accepts the Ack and registers the peer.
RecvAck(e) ==
  /\ pc[e] = "hello"
  /\ HasFrame(e, "ack")
  /\ Accepts(e, Head(inbox[e]).from)
  /\ Insert(e, Head(inbox[e]).from, Head(inbox[e]).vv)
  /\ Goto(e, "opening")
  /\ inbox' = Take(e)
  /\ UNCHANGED <<doc, status, view, link, cut, sig, limits>>

\* Mutant: the first delta is computed against the daemon's own vector.
SendInitialOwnVV(e) ==
  LET d == doc[Local(e)]
  IN  /\ pc[e] = "opening"
      /\ Goto(e, "loop")
      /\ WriteOK(e, [type |-> "sync", delta |-> DeltaForPeer(d, d.vv)], inbox)
      /\ UNCHANGED <<doc, status, view, peers, link, cut, sig, limits>>

\* The initial full delta.  When it cannot be written, the function returns
\* without its cleanup.  That nobody reads at this end meanwhile, so that two initial
\* deltas larger than the connection's buffers block each other, is in Wire.
SendInitial(e) ==
  /\ pc[e] = "opening"
  /\ \/ /\ Goto(e, "loop")
        /\ WriteOK(e, [type |-> "sync", delta |-> FullDelta(doc[Local(e)])], inbox)
        /\ UNCHANGED sig
     \/ /\ Gone(e)
        /\ Close({e})
        /\ sig' = [sig EXCEPT ![e] = FALSE]
  /\ UNCHANGED <<doc, status, view, peers, link, cut, limits>>

\* peer_message_loop handles a gossip signal, if the peer still has a handle.
SendDelta(e) ==
  LET i == Local(e)
      j == Remote(e)
  IN  /\ pc[e] = "loop"
      /\ sig[e]
      /\ sig' = [sig EXCEPT ![e] = FALSE]
      /\ \/ ~ Connected(i, j) /\ UNCHANGED <<pc, inbox>>
         \/ /\ Connected(i, j)
            /\ WriteOK(e, [type  |-> "sync",
                           delta |-> DeltaForPeer(doc[i], peers[i][j].lastVV)], inbox)
            /\ UNCHANGED pc
         \/ Connected(i, j) /\ Gone(e) /\ Goto(e, "cleanup") /\ UNCHANGED inbox
      /\ UNCHANGED <<doc, status, view, peers, link, cut, limits>>

\* peer_message_loop merges a MembershipSync and broadcasts what changed.
RecvSync(e) ==
  LET i == Local(e)
      j == Remote(e)
      delta  == Head(inbox[e]).delta
      merged == MergeRemote(doc[i], delta)
      change == DiffMembers(Members(doc[i]), Members(merged))
  IN  /\ pc[e] = "loop"
      /\ HasFrame(e, "sync")
      /\ inbox' = Take(e)
      /\ doc' = [doc EXCEPT ![i] = merged]
      /\ peers' = SetLastVV(i, j, delta.vv)
      /\ view' = [view EXCEPT ![i] = (@ \cup change.joined) \ change.left]
      /\ UNCHANGED <<status, link, cut, pc, sig, limits>>

\* Mutant: a clean end of file does not end the loop.
EndOfStreamOnError(e) ==
  /\ pc[e] = "loop"
  /\ e[1] \in cut
  /\ Goto(e, "cleanup")
  /\ UNCHANGED <<doc, status, view, peers, link, cut, inbox, sig, limits>>

\* The reader task meets end of file or an error, or a heartbeat cannot be sent.
EndOfStream(e) ==
  /\ pc[e] = "loop"
  /\ Gone(e)
  /\ Goto(e, "cleanup")
  /\ UNCHANGED <<doc, status, view, peers, link, cut, inbox, sig, limits>>

\* The failure detector declares a peer dead that is not.
Suspect(e) ==
  /\ pc[e] = "loop"
  /\ Connected(Local(e), Remote(e))
  /\ Spend("faults")
  /\ Goto(e, "cleanup")
  /\ UNCHANGED <<doc, status, view, peers, link, cut, inbox, sig>>

ObserveShutdown(e) ==
  /\ pc[e] = "loop"
  /\ status[Local(e)] = "cancelled"
  /\ Goto(e, "cleanup")
  /\ UNCHANGED <<doc, status, view, peers, link, cut, inbox, sig, limits>>

\* Mutant: the remote stays in the table.
CleanupKeepsHandle(e) ==
  LET i == Local(e)
      j == Remote(e)
  IN  /\ pc[e] = "cleanup"
      /\ doc' = [doc EXCEPT ![i] = RemoveNode(@, i, j)]
      /\ view' = [view EXCEPT ![i] = @ \ {j}]
      /\ sig' = [Signal(peers[i]) EXCEPT ![e] = FALSE]
      /\ Close({e})
      /\ UNCHANGED <<status, peers, link, cut, limits>>

\* The end of run_inbound and connect_to_peer: the remote is removed from the
\* table (whoever's handle it is) and from the membership, and every other peer
\* is told to sync.
Cleanup(e) ==
  LET i == Local(e)
      j == Remote(e)
  IN  /\ pc[e] = "cleanup"
      /\ peers' = [peers EXCEPT ![i][j] = NoPeer]
      /\ doc' = [doc EXCEPT ![i] = RemoveNode(@, i, j)]
      /\ view' = [view EXCEPT ![i] = @ \ {j}]
      /\ sig' = [Signal(peers'[i]) EXCEPT ![e] = FALSE]
      /\ Close({e})
      /\ UNCHANGED <<status, link, cut, limits>>

DaemonStep(i) ==
  \/ Start(i) \/ BeginShutdown(i) \/ Cancel(i) \/ Exit(i) \/ Crash(i)
  \/ \E s \in Service : ServiceOp(i, s)
  \/ \E j \in Node : Leave(i, j) \/ GossipTick(i, j)

\* What the task of e does before and after peer_message_loop ...
Straight(e) ==
  Reject(e) \/ RecvHandshake(e) \/ RecvAck(e) \/ SendInitial(e) \/ Cleanup(e)

\* ... and in it.
Session(e) ==
  \/ HelloEnds(e)
  \/ Straight(e) \/ SendDelta(e) \/ RecvSync(e) \/ EndOfStream(e) \/ ObserveShutdown(e)

Next ==
  \/ \E i \in Node : DaemonStep(i)
  \/ \E i, j \in Node, c \in Conn : Dial(i, j, c)
  \/ \E c \in Conn : Break(c)
  \/ \E e \in End : Session(e) \/ Suspect(e)

Spec == Init /\ [][Next]_vars

\* What the scheduling justifies.  tokio polls every ready task and select!
\* chooses among its ready branches at random, as gossip_sync_random_peer does
\* among the peers: a step that stays possible is taken in the end.  A loop on a
\* connection that is cut ends, because its heartbeats cannot be sent for ever; a
\* handshake ends when the other end has closed, but not when the network swallows
\* that.  Operators, faults and new connections owe nothing.
Fairness ==
  /\ \A e \in End :
       /\ WF_vars(\/ Straight(e) \/ RecvSync(e) \/ EndOfStream(e) \/ ObserveShutdown(e)
                  \/ e[1] \notin cut /\ HelloEnds(e))
       /\ WF_vars(SendDelta(e))
  /\ \A i \in Node : WF_vars(Cancel(i) \/ Exit(i))
  /\ \A i \in Node : \A j \in Node \ {i} : WF_vars(GossipTick(i, j))

FairSpec == Spec /\ Fairness

-------------------------------------------------------------------------------
(***************************************************************************)
(* Properties                                                              *)
(***************************************************************************)

\* The MembershipSync messages buffered anywhere, as Replication sees them.
InFlight ==
  UNION {{[from |-> Remote(e), to |-> Local(e), delta |-> inbox[e][k].delta] :
            k \in {n \in DOMAIN inbox[e] : inbox[e][n].type = "sync"}} :
         e \in {x \in End : Open(x) /\ Local(x) # Remote(x)}}

MaxOps == CHOOSE m \in {b.ops : b \in Budgets} : \A b \in Budgets : b.ops <= m

R == INSTANCE Replication
       WITH msgs      <- InFlight,
            MaxWrites <- [n \in Node |-> 2 + MaxOps + Cardinality(End)],
            MaxMsgs   <- 1 + MaxInbox * Cardinality(End)

\* Sessions carry deltas the way Replication requires: whatever handles are
\* replaced, connections lost or daemons stopped, the last_vv that a delta is
\* computed against never exceeds what its receiver holds.
Refinement == R!Spec

\* While nobody runs pmd leave, a daemon has at most one registered session with
\* each other daemon, so no cleanup takes away another session's handle: both
\* check-and-insert blocks (run_inbound and connect_to_peer) hold the lock.
OneSession ==
  \A d, e \in End :
    /\ pc[d] \in {"opening", "loop", "cleanup"}
    /\ pc[e] \in {"opening", "loop", "cleanup"}
    /\ Local(d) = Local(e)
    /\ Remote(d) = Remote(e)
    /\ used.leaves = 0
    => d = e

\* A subscriber that starts from the daemon's own entry and replays every NodeJoined
\* and NodeLeft the daemon broadcasts, until it shuts down, has exactly its member
\* list: merges report the difference they make and a cleanup's NodeLeft agrees with
\* its tombstone.
EventsTrackMembers ==
  \A i \in Node : status[i] = "running" => view[i] = Members(doc[i])

\* Daemons with different cookies never exchange state, not even through third
\* parties: every write a daemon holds was made in its own cluster and is about
\* a daemon of its own cluster.
Isolation ==
  \A i \in Node : \A w \in doc[i].writes :
    Cookie[w.rep] = Cookie[i] /\ Cookie[w.path[1]] = Cookie[i]

\* While no connection fails, no running daemon holds a tombstone for a running
\* daemon.  This is what the two duplicate checks (peer.rs:94, peer.rs:263 "If
\* already connected (e.g. inbound won), drop") and the graceful shutdown
\* (mod.rs:193 "remove self from membership, push to all peers") are meant to
\* leave alone: a duplicate and a departure cost nobody else its membership.
OnlyGoneRemoved ==
  \A r, n \in Node :
    status[r] = "running" /\ status[n] = "running" =>
      ~ \E w \in doc[r].writes : w.path = NodePath(n) /\ w.val = "dead"

\* An entry of DaemonState::peers belongs to a session that is still there
\* (peer.rs:27 "Information tracked per connected peer"); run_inbound rejects
\* whoever has an entry as already connected.
HandleIsSession ==
  \A i, j \in Node : Connected(i, j) => Open(peers[i][j].end)

\* A session that got as far as its message loop takes its handle along when it
\* ends, by its cleanup or with its process: the stale handles are all left by the
\* returns before the loop.
LoopTakesHandle ==
  [][\A e \in End :
       pc[e] \in {"loop", "cleanup"} /\ pc'[e] = "closed" =>
         \A i, j \in Node : peers'[i][j].end # e]_vars

\* i and j run the two ends of a sound connection and both hold its handles.
Linked(i, j) ==
  \E c \in Conn :
    /\ link[c] = <<i, j>> /\ c \notin cut
    /\ status[i] = "running" /\ status[j] = "running"
    /\ pc[<<c, "init">>] = "loop" /\ pc[<<c, "resp">>] = "loop"
    /\ peers[i][j].end = <<c, "init">> /\ peers[j][i].end = <<c, "resp">>

\* Daemons that stay linked end up with the same document: signals that are
\* dropped because the channel is full, and deltas crossing each other, lose
\* nothing for good.
GossipConverges ==
  \A p \in Joins : <>[]Linked(p[1], p[2]) => <>[](doc[p[1]] = doc[p[2]])

\* e waits in its handshake on a connection that is cut: peer.rs:66 and peer.rs:234
\* read without a time limit, and nothing need ever wake them.
Hangs(e) == pc[e] = "hello" /\ e[1] \in cut

\* When the other end of a connection is closed or the network is gone, the task of
\* this end comes to its end (peer.rs:464, a write or a heartbeat that fails, or an
\* end of file in the handshake), except in a handshake that hangs.  Whether its
\* handle goes with it is the subject of LoopTakesHandle and HandleIsSession.
SessionsEnd ==
  \A e \in End : Open(e) /\ Gone(e) ~> pc[e] = "closed" \/ Hangs(e)
===============================================================================
