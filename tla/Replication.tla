------------------------------ MODULE Replication ------------------------------
(***************************************************************************)
(* What membership synchronisation promises, whatever carries it: daemons  *)
(* mutate their own document and send each other deltas; a delta may be    *)
(* lost, delayed, reordered or applied twice, but it was computed against  *)
(* a version vector its receiver had already reached (peer.rs keeps it as  *)
(* PeerHandle::last_vv).  PeerSession implements this specification.       *)
(***************************************************************************)
EXTENDS Membership, FiniteSets

CONSTANTS MaxWrites,   \* how many locked calls of each daemon change its document
          MaxMsgs      \* how many messages are in flight at once

ASSUME BoundsAssumption ==
  /\ MaxWrites \in [Node -> Nat]
  /\ MaxMsgs \in Nat

VARIABLES doc,    \* doc[n] : the CrdtDoc of daemon n
          msgs    \* MembershipSync messages in flight

vars == <<doc, msgs>>

Message == [from : Node, to : Node, delta : Doc]

TypeOK ==
  /\ doc \in [Node -> Doc]
  /\ msgs \in SUBSET Message

Init ==
  /\ doc = [n \in Node |-> NewDoc]
  /\ msgs = {}

Started(n) == doc[n].vv[n] > 0

CanWrite(n) == doc[n].vv[n] < MaxWrites[n]

\* The transport may drop any of the messages in flight at any time.
Lossy(sent) == msgs' \in SUBSET (msgs \cup sent)

\* A daemon starts: Membership::new and add_node of itself, once.
Start(n) ==
  /\ ~ Started(n)
  /\ CanWrite(n)
  /\ doc' = [doc EXCEPT ![n] = AddNode(@, n)]
  /\ UNCHANGED msgs

Register(n, s) ==
  /\ Started(n)
  /\ CanWrite(n)
  /\ doc' = [doc EXCEPT ![n] = RegisterService(@, n, s)]
  /\ UNCHANGED msgs

Unregister(n, s) ==
  /\ Started(n)
  /\ CanWrite(n)
  /\ doc' = [doc EXCEPT ![n] = UnregisterService(@, n, s)]
  /\ UNCHANGED msgs

\* Daemon r removes n: the cleanup of a session with n, or, for r = n, the
\* graceful shutdown.  The handshake named n, so n has started; r need not
\* have received n's own entry.
Remove(r, n) ==
  /\ Started(r)
  /\ Started(n)
  /\ CanWrite(r)
  /\ doc' = [doc EXCEPT ![r] = RemoveNode(@, r, n)]
  /\ Lossy({})

\* The version vectors a daemon has had, or could have had, by now.
ReachedVVs(j) ==
  {v \in [Node -> UNION {0 .. doc[j].vv[n] : n \in Node}] : Leq(v, doc[j].vv)}

\* i sends j what it has beyond a version vector that j has reached.  (What a
\* daemon connected to itself sends tells it nothing and is left out.)
Send(i, j) ==
  /\ i # j
  /\ UNCHANGED doc
  /\ Started(i)
  /\ Started(j)
  /\ Cardinality(msgs) < MaxMsgs
  /\ \E delta \in {DeltaForPeer(doc[i], v) : v \in ReachedVVs(j)} :
       Lossy({[from |-> i, to |-> j, delta |-> delta]})

Deliver(m) ==
  /\ m \in msgs
  /\ doc' = [doc EXCEPT ![m.to] = MergeRemote(@, m.delta)]
  /\ Lossy({})

Lose ==
  /\ UNCHANGED doc
  /\ Lossy({})

Next ==
  \/ Lose
  \/ \E i, j \in Node : Send(i, j)
  \/ \E m \in msgs : Deliver(m)
  \/ \E n \in Node : Start(n)
  \/ \E n \in Node, s \in Service : Register(n, s) \/ Unregister(n, s)
  \/ \E r, n \in Node : Remove(r, n)

Spec == Init /\ [][Next]_vars

-------------------------------------------------------------------------------
(***************************************************************************)
(* Properties                                                              *)
(***************************************************************************)

\* A version vector never claims more than the document holds: a daemon that
\* covers a write (merge_remote takes over the sender's version vector) has the
\* write itself.  A delta_for_peer computed against a last_vv the peer had not
\* reached would skip writes for good, since nobody would ever send them again.
NoGap ==
  \A i, j \in Node : \A w \in doc[j].writes :
    w.ctr <= doc[i].vv[w.rep] => w \in doc[i].writes

\* Daemons whose version vectors agree list the same members and answer every
\* service lookup alike (README: "Nodes converge automatically via delta-state
\* sync").
Convergence ==
  \A i, j \in Node :
    doc[i].vv = doc[j].vv =>
      /\ Members(doc[i]) = Members(doc[j])
      /\ \A s \in Service : LookupService(doc[i], s) = LookupService(doc[j], s)

\* A tombstone for n written by a replica that had received n's own entry.
KnowsRemoval(d, n) ==
  \E t \in d.writes : t.path = NodePath(n) /\ t.val = "dead" /\ t.ctx[n] > 0

\* Once a daemon knows such a removal, no later merge and no local call brings
\* the node back into members() (the test
\* test_remove_survives_gossip_from_stale_peer, for every schedule).
RemovalIsFinal ==
  [][\A i, n \in Node :
       KnowsRemoval(doc[i], n) => ~ IsMember(doc[i], n)']_vars

\* lookup_service reports any entry whose node has an address and reads the
\* port of a tombstoned entry as 0 (membership.rs:135).  It never meets one: a
\* daemon that has a service's tombstone also has its node's.
NoGhostService ==
  \A i \in Node, s \in Service : \A e \in LookupService(doc[i], s) : e[2] = "port"
===============================================================================
