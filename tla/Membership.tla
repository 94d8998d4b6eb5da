------------------------------ MODULE Membership ------------------------------
(***************************************************************************)
(* crates/pmd/src/daemon/membership.rs: the membership registry a daemon   *)
(* keeps in its CRDT document.                                             *)
(*   /nodes/<node_id>            "addr" while registered, "dead" after     *)
(*   /services/<node_id>/<name>  "port" while registered, "dead" after the *)
(*                               node was removed                          *)
(* Addresses, ports, metadata and joined_at are data no decision of the    *)
(* code depends on; only which kind of value an entry holds is kept.       *)
(***************************************************************************)
EXTENDS Crdt

CONSTANT Service   \* service names

ASSUME ServiceAssumption == "nodes" \notin Service

NodePath(n) == <<n, "nodes">>

\* Mutant: the path's components in the wrong order.
SvcPathSwapped(n, s) == <<s, n>>

SvcPath(n, s) == <<n, s>>

Path  == Node \X (Service \cup {"nodes"})
Value == {"addr", "port", "dead", "removed"}
Write == [rep : Node, ctr : Nat, path : Path, val : Value, ctx : VV]
Doc   == [vv : VV, writes : SUBSET Write]

AddNode(d, n) == SetPaths(d, n, [p \in {NodePath(n)} |-> "addr"])

\* The services of n that still have a port.
NodeServices(d, n) == {s \in Service : Materialize(d, SvcPath(n, s)) = "port"}

\* Mutant: the services are tombstoned and the node is not.
RemoveServicesOnly(d, r, n) ==
  SetPaths(d, r, [p \in {SvcPath(n, s) : s \in NodeServices(d, n)} |-> "dead"])

\* Replica r tombstones node n and every service n still offers.
RemoveNode(d, r, n) ==
  SetPaths(d, r, [p \in {NodePath(n)} \cup {SvcPath(n, s) : s \in NodeServices(d, n)}
                    |-> "dead"])

RegisterService(d, r, s) == SetPaths(d, r, [p \in {SvcPath(r, s)} |-> "port"])

UnregisterService(d, r, s) == RemovePath(d, r, SvcPath(r, s))

\* Mutant: an address counts although a tombstone replaced it.
IsMemberOnceAdded(d, n) ==
  \E w \in d.writes : w.path = NodePath(n) /\ w.val = "addr"

\* What members() and member_ids() keep: an address, and no tombstone.
IsMember(d, n) == Materialize(d, NodePath(n)) = "addr"

\* member_ids(), and the ids of members()
Members(d) == {n \in Node : IsMember(d, n)}

\* The nodes lookup_service(s) reports, each with what it finds at the service's
\* path: it filters on the node's address, not on the service's own tombstone.
LookupService(d, s) ==
  {<<n, Materialize(d, SvcPath(n, s))>> :
     n \in {m \in Members(d) : Materialize(d, SvcPath(m, s)) # "absent"}}

\* Mutant: tombstones are not merged, although the vector covers them.
MergeRemoteNoDead(d, delta) ==
  MergeDelta(d, [delta EXCEPT !.writes = {w \in @ : w.val # "dead"}])

MergeRemote(d, delta) == MergeDelta(d, delta)

\* Mutant: departures are not reported.
DiffJoinedOnly(before, after) == [joined |-> after \ before, left |-> {}]

DiffMembers(before, after) ==
  [joined |-> after \ before, left |-> before \ after]

\* Mutant: the first missing write of each replica is skipped.
DeltaForPeerAhead(d, vv) == DeltaSince(d, [n \in Node |-> vv[n] + 1])

DeltaForPeer(d, vv) == DeltaSince(d, vv)

FullDelta(d) == DeltaForPeer(d, ZeroVV)
===============================================================================
