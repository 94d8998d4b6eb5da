--------------------------------- MODULE Crdt ---------------------------------
(***************************************************************************)
(* The concordat crate (CrdtDoc, VersionVector, Delta), which is not part  *)
(* of this repository, as crates/pmd/src/daemon/membership.rs uses it: a   *)
(* replicated map from paths to values.                                    *)
(*                                                                         *)
(* A document is the set of writes it has merged and a version vector.     *)
(* A write carries its dot (replica, counter) and the context its replica  *)
(* had seen; it supersedes the writes to the same path its context covers. *)
(* Writes that are concurrent are settled by a fixed order of replicas.    *)
(* pmd mutates a document only while it holds the daemon's mutex, so one   *)
(* call that sets several paths takes one counter value for all of them.   *)
(***************************************************************************)
EXTENDS Naturals

CONSTANTS Node,   \* replica ids: one per daemon process (main.rs: a fresh UUID)
          Rank    \* the order that settles concurrent writes

ASSUME RankAssumption ==
  /\ Rank \in [Node -> Nat]
  /\ \A m, n \in Node : Rank[m] = Rank[n] => m = n

VV == [Node -> Nat]

\* VersionVector::new()
ZeroVV == [n \in Node |-> 0]

Leq(u, v) == \A n \in Node : u[n] <= v[n]

JoinVV(u, v) == [n \in Node |-> IF u[n] <= v[n] THEN v[n] ELSE u[n]]

\* CrdtDoc::new
NewDoc == [vv |-> ZeroVV, writes |-> {}]

\* The writes of one locked call of replica r, in the context ctx.
Commit(d, r, puts, ctx) ==
  [vv     |-> [d.vv EXCEPT ![r] = @ + 1],
   writes |-> d.writes \cup
                {[rep  |-> r, ctr |-> d.vv[r] + 1, path |-> p,
                  val  |-> puts[p], ctx |-> ctx] : p \in DOMAIN puts}]

\* doc.set: replaces whatever this replica has seen at the paths.
SetPaths(d, r, puts) == Commit(d, r, puts, d.vv)

\* doc.remove: takes away only what the replica itself wrote at the path
\* (membership.rs:80-82: "not effective for values created by a different
\* replica").
RemovePath(d, r, p) ==
  Commit(d, r, [q \in {p} |-> "removed"],
         [n \in Node |-> IF n = r THEN d.vv[r] ELSE 0])

Supersedes(v, w) == v.path = w.path /\ w.ctr <= v.ctx[w.rep]

Live(d, p) ==
  {w \in d.writes : /\ w.path = p
                    /\ w.val # "removed"
                    /\ \A v \in d.writes : ~ Supersedes(v, w)}

\* Of the live writes to p, the one of the highest-ranked replica.
Winners(d, p) ==
  {w \in Live(d, p) : \A v \in Live(d, p) : Rank[v.rep] <= Rank[w.rep]}

\* doc.materialize(), at one path.
Materialize(d, p) ==
  IF Winners(d, p) = {} THEN "absent" ELSE (CHOOSE w \in Winners(d, p) : TRUE).val

\* doc.delta_since(vv), and codec::encode of it.
DeltaSince(d, v) ==
  [vv |-> d.vv, writes |-> {w \in d.writes : w.ctr > v[w.rep]}]

\* codec::decode, then doc.merge_delta.
MergeDelta(d, delta) ==
  [vv |-> JoinVV(d.vv, delta.vv), writes |-> d.writes \cup delta.writes]
===============================================================================
