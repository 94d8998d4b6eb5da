--------------------------- MODULE MembershipProofs ---------------------------
(***************************************************************************)
(* What the operations of Crdt and Membership return, preserve and change, *)
(* for any document: the facts the proofs about replication and sessions   *)
(* share.                                                                  *)
(***************************************************************************)
EXTENDS Membership, TLAPS

\* The version vector of d covers every write d holds.
Covered(d) == \A w \in d.writes : w.ctr <= d.vv[w.rep]

-------------------------------------------------------------------------------
(***************************************************************************)
(* Types                                                                   *)
(***************************************************************************)

\* The writes of one locked call (Membership's mutators all end in Commit) have
\* the types the document stores.
LEMMA CommitType ==
  ASSUME NEW d \in Doc, NEW r \in Node, NEW puts, NEW ctx \in VV,
         DOMAIN puts \subseteq Path,
         \A p \in DOMAIN puts : puts[p] \in Value
  PROVE  Commit(d, r, puts, ctx) \in Doc
  BY DEF Commit, Doc, Write, VV

\* What the mutators of membership.rs pass to Commit.
LEMMA PutsTyped ==
  ASSUME NEW r \in Node, NEW n \in Node, NEW d \in Doc
  PROVE  /\ d.vv \in VV
         /\ [k \in Node |-> IF k = r THEN d.vv[r] ELSE 0] \in VV
         /\ NodePath(n) \in Path
         /\ \A s \in Service : SvcPath(n, s) \in Path
         /\ NodeServices(d, n) \subseteq Service
  BY DEF Doc, VV, Path, NodePath, SvcPath, NodeServices

LEMMA MutatorTypes ==
  ASSUME NEW d \in Doc, NEW r \in Node, NEW n \in Node
  PROVE  /\ AddNode(d, n) \in Doc
         /\ RemoveNode(d, r, n) \in Doc
         /\ \A s \in Service : RegisterService(d, r, s) \in Doc /\ UnregisterService(d, r, s) \in Doc
<1>1. /\ d.vv \in VV /\ [k \in Node |-> IF k = r THEN d.vv[r] ELSE 0] \in VV
      /\ NodePath(n) \in Path
      /\ \A s \in Service : SvcPath(n, s) \in Path /\ SvcPath(r, s) \in Path
      /\ NodeServices(d, n) \subseteq Service
  BY PutsTyped
<1>2. AddNode(d, n) \in Doc
  <2> DEFINE puts == [p \in {NodePath(n)} |-> "addr"]
  <2>1. DOMAIN puts \subseteq Path /\ \A p \in DOMAIN puts : puts[p] \in Value  BY <1>1 DEF Value
  <2> HIDE DEF puts
  <2>2. Commit(d, n, puts, d.vv) \in Doc  BY <1>1, <2>1, CommitType
  <2> QED BY <2>2 DEF AddNode, SetPaths, puts
<1>3. RemoveNode(d, r, n) \in Doc
  <2> DEFINE puts == [p \in {NodePath(n)} \cup {SvcPath(n, s) : s \in NodeServices(d, n)} |-> "dead"]
  <2>1. DOMAIN puts \subseteq Path /\ \A p \in DOMAIN puts : puts[p] \in Value  BY <1>1 DEF Value
  <2> HIDE DEF puts
  <2>2. Commit(d, r, puts, d.vv) \in Doc  BY <1>1, <2>1, CommitType
  <2> QED BY <2>2 DEF RemoveNode, SetPaths, puts
<1>4. ASSUME NEW s \in Service  PROVE RegisterService(d, r, s) \in Doc /\ UnregisterService(d, r, s) \in Doc
  <2> DEFINE puts == [p \in {SvcPath(r, s)} |-> "port"]
             none == [q \in {SvcPath(r, s)} |-> "removed"]
  <2>1. /\ DOMAIN puts \subseteq Path /\ \A p \in DOMAIN puts : puts[p] \in Value
        /\ DOMAIN none \subseteq Path /\ \A p \in DOMAIN none : none[p] \in Value
    BY <1>1 DEF Value
  <2> HIDE DEF puts, none
  <2>2. /\ Commit(d, r, puts, d.vv) \in Doc
        /\ Commit(d, r, none, [k \in Node |-> IF k = r THEN d.vv[r] ELSE 0]) \in Doc
    BY <1>1, <2>1, CommitType
  <2> QED BY <2>2 DEF RegisterService, UnregisterService, SetPaths, RemovePath, puts, none
<1> QED BY <1>2, <1>3, <1>4

LEMMA DeltaTypes ==
  /\ NewDoc \in Doc /\ ZeroVV \in VV
  /\ \A d \in Doc : FullDelta(d) \in Doc /\ \A v \in VV : DeltaForPeer(d, v) \in Doc
  /\ \A d, delta \in Doc : MergeRemote(d, delta) \in Doc
<1>1. NewDoc \in Doc /\ ZeroVV \in VV  BY DEF NewDoc, ZeroVV, Doc, VV
<1>2. \A d \in Doc : \A v \in VV : DeltaForPeer(d, v) \in Doc  BY DEF DeltaForPeer, DeltaSince, Doc
<1>3. \A u, v \in VV : JoinVV(u, v) \in VV  BY DEF JoinVV, VV
<1>4. \A d, delta \in Doc : MergeRemote(d, delta) \in Doc  BY <1>3 DEF MergeRemote, MergeDelta, Doc
<1> QED BY <1>1, <1>2, <1>4 DEF FullDelta

-------------------------------------------------------------------------------
(***************************************************************************)
(* Writes                                                                  *)
(***************************************************************************)

\* A locked call adds writes of its replica, with its next counter, to the paths
\* it sets; what the document held stays.
LEMMA CommitWrites ==
  ASSUME NEW d, NEW r \in Node, NEW puts, NEW ctx
  PROVE  /\ d.writes \subseteq Commit(d, r, puts, ctx).writes
         /\ \A w \in Commit(d, r, puts, ctx).writes \ d.writes :
              /\ w.rep = r /\ w.ctr = d.vv[r] + 1 /\ w.ctx = ctx
              /\ w.path \in DOMAIN puts /\ w.val = puts[w.path]
  BY DEF Commit

\* ... and so for each mutator.
LEMMA MutatorWrites ==
  ASSUME NEW d, NEW r \in Node, NEW n \in Node
  PROVE  /\ \A w \in AddNode(d, n).writes \ d.writes : w.rep = n /\ w.path[1] = n
         /\ \A w \in RemoveNode(d, r, n).writes \ d.writes : w.rep = r /\ w.path[1] = n
         /\ \A s \in Service :
              /\ \A w \in RegisterService(d, r, s).writes \ d.writes : w.rep = r /\ w.path[1] = r
              /\ \A w \in UnregisterService(d, r, s).writes \ d.writes : w.rep = r /\ w.path[1] = r
<1>0. NodePath(n)[1] = n /\ \A s \in Service : SvcPath(n, s)[1] = n /\ SvcPath(r, s)[1] = r
  BY DEF NodePath, SvcPath
<1>1. \A w \in AddNode(d, n).writes \ d.writes : w.rep = n /\ w.path[1] = n
  <2> DEFINE puts == [p \in {NodePath(n)} |-> "addr"]
  <2>1. \A p \in DOMAIN puts : p[1] = n  BY <1>0
  <2> HIDE DEF puts
  <2>2. \A w \in Commit(d, n, puts, d.vv).writes \ d.writes : w.rep = n /\ w.path[1] = n
    BY <2>1 DEF Commit
  <2> QED BY <2>2 DEF AddNode, SetPaths, puts
<1>2. \A w \in RemoveNode(d, r, n).writes \ d.writes : w.rep = r /\ w.path[1] = n
  <2> DEFINE puts == [p \in {NodePath(n)} \cup {SvcPath(n, s) : s \in NodeServices(d, n)} |-> "dead"]
  <2>1. \A p \in DOMAIN puts : p[1] = n  BY <1>0 DEF NodeServices
  <2> HIDE DEF puts
  <2>2. \A w \in Commit(d, r, puts, d.vv).writes \ d.writes : w.rep = r /\ w.path[1] = n
    BY <2>1 DEF Commit
  <2> QED BY <2>2 DEF RemoveNode, SetPaths, puts
<1>3. ASSUME NEW s \in Service
      PROVE  /\ \A w \in RegisterService(d, r, s).writes \ d.writes : w.rep = r /\ w.path[1] = r
             /\ \A w \in UnregisterService(d, r, s).writes \ d.writes : w.rep = r /\ w.path[1] = r
  <2> DEFINE puts == [p \in {SvcPath(r, s)} |-> "port"]
             none == [q \in {SvcPath(r, s)} |-> "removed"]
             ctx  == [k \in Node |-> IF k = r THEN d.vv[r] ELSE 0]
  <2>1. (\A p \in DOMAIN puts : p[1] = r) /\ (\A p \in DOMAIN none : p[1] = r)  BY <1>0
  <2> HIDE DEF puts, none, ctx
  <2>2. /\ \A w \in Commit(d, r, puts, d.vv).writes \ d.writes : w.rep = r /\ w.path[1] = r
        /\ \A w \in Commit(d, r, none, ctx).writes \ d.writes : w.rep = r /\ w.path[1] = r
    BY <2>1 DEF Commit
  <2> QED BY <2>2 DEF RegisterService, UnregisterService, SetPaths, RemovePath, puts, none, ctx
<1> QED BY <1>1, <1>2, <1>3

\* Every operation leaves a document whose version vector covers its writes.
LEMMA CommitCovered ==
  ASSUME NEW d \in Doc, Covered(d), NEW r \in Node, NEW puts, NEW ctx
  PROVE  Covered(Commit(d, r, puts, ctx))
<1> DEFINE c == Commit(d, r, puts, ctx)
<1>1. d.vv \in [Node -> Nat] /\ \A w \in d.writes : w.rep \in Node /\ w.ctr \in Nat
  BY DEF Doc, VV, Write
<1>2. c.vv = [d.vv EXCEPT ![r] = d.vv[r] + 1]  BY DEF Commit
<1>3. \A n \in Node : c.vv[n] \in Nat /\ d.vv[n] \in Nat /\ d.vv[n] <= c.vv[n]  BY <1>1, <1>2
<1>4. c.vv[r] = d.vv[r] + 1  BY <1>1, <1>2
<1>5. \A w \in c.writes \ d.writes : w.rep = r /\ w.ctr = d.vv[r] + 1  BY CommitWrites
<1> HIDE DEF c
<1>6. ASSUME NEW w \in c.writes  PROVE w.ctr <= c.vv[w.rep]
  <2>1. CASE w \in d.writes
    <3>1. w.ctr <= d.vv[w.rep]  BY <2>1 DEF Covered
    <3> QED BY <1>1, <1>3, <2>1, <3>1
  <2>2. CASE w \notin d.writes  BY <1>3, <1>4, <1>5, <2>2
  <2> QED BY <2>1, <2>2
<1> QED BY <1>6 DEF Covered, c

LEMMA MutatorsCovered ==
  ASSUME NEW d \in Doc, Covered(d), NEW r \in Node, NEW n \in Node
  PROVE  /\ Covered(AddNode(d, n)) /\ Covered(RemoveNode(d, r, n))
         /\ \A s \in Service : Covered(RegisterService(d, r, s)) /\ Covered(UnregisterService(d, r, s))
  BY CommitCovered DEF AddNode, RemoveNode, RegisterService, UnregisterService, SetPaths, RemovePath

LEMMA DeltaCovered ==
  ASSUME NEW d \in Doc, Covered(d)
  PROVE  Covered(FullDelta(d)) /\ \A v \in VV : Covered(DeltaForPeer(d, v))
<1>1. \A v : Covered(DeltaForPeer(d, v))  BY DEF Covered, DeltaForPeer, DeltaSince
<1> QED BY <1>1 DEF FullDelta

LEMMA MergeCovered ==
  ASSUME NEW d \in Doc, Covered(d), NEW delta \in Doc, Covered(delta)
  PROVE  Covered(MergeRemote(d, delta))
<1> DEFINE c == MergeRemote(d, delta)
<1>1. /\ d.vv \in [Node -> Nat] /\ \A w \in d.writes : w.rep \in Node /\ w.ctr \in Nat
      /\ delta.vv \in [Node -> Nat] /\ \A w \in delta.writes : w.rep \in Node /\ w.ctr \in Nat
  BY DEF Doc, VV, Write
<1>2. c.vv = JoinVV(d.vv, delta.vv) /\ c.writes = d.writes \cup delta.writes
  BY DEF MergeRemote, MergeDelta
<1>3. \A n \in Node : /\ d.vv[n] \in Nat /\ delta.vv[n] \in Nat /\ c.vv[n] \in Nat
                      /\ d.vv[n] <= c.vv[n] /\ delta.vv[n] <= c.vv[n]
  <2> DEFINE u == d.vv
             v == delta.vv
  <2>1. u \in [Node -> Nat] /\ v \in [Node -> Nat] /\ c.vv = JoinVV(u, v)  BY <1>1, <1>2
  <2> HIDE DEF u, v, c
  <2>2. \A n \in Node : u[n] \in Nat /\ v[n] \in Nat /\ c.vv[n] = IF u[n] <= v[n] THEN v[n] ELSE u[n]
    BY <2>1 DEF JoinVV
  <2>3. ASSUME NEW n \in Node  PROVE c.vv[n] \in Nat /\ u[n] <= c.vv[n] /\ v[n] <= c.vv[n]
    <3>1. CASE u[n] <= v[n]  BY <2>1, <2>2, <3>1
    <3>2. CASE ~ (u[n] <= v[n])  BY <2>1, <2>2, <3>2
    <3> QED BY <3>1, <3>2
  <2> QED BY <2>2, <2>3 DEF u, v
<1> HIDE DEF c
<1>4. ASSUME NEW w \in c.writes  PROVE w.ctr <= c.vv[w.rep]
  <2>1. CASE w \in d.writes
    <3>1. w.ctr <= d.vv[w.rep]  BY <2>1 DEF Covered
    <3> QED BY <1>1, <1>3, <2>1, <3>1
  <2>2. CASE w \in delta.writes
    <3>1. w.ctr <= delta.vv[w.rep]  BY <2>2 DEF Covered
    <3> QED BY <1>1, <1>3, <2>2, <3>1
  <2> QED BY <1>2, <2>1, <2>2
<1> QED BY <1>4 DEF Covered, c

-------------------------------------------------------------------------------
(***************************************************************************)
(* Members                                                                 *)
(***************************************************************************)

\* What materialize() reports at a path is the value of a live write to it.
LEMMA MaterializedWrite ==
  ASSUME NEW d, NEW p, Materialize(d, p) # "absent"
  PROVE  \E w \in Live(d, p) : Materialize(d, p) = w.val
  BY DEF Materialize, Winners

\* A locked call changes nothing at the paths it does not set.
LEMMA CommitElsewhere ==
  ASSUME NEW d, NEW r \in Node, NEW puts, NEW ctx, NEW p, p \notin DOMAIN puts
  PROVE  Materialize(Commit(d, r, puts, ctx), p) = Materialize(d, p)
<1> DEFINE c == Commit(d, r, puts, ctx)
<1>1. /\ d.writes \subseteq c.writes
      /\ \A w \in c.writes \ d.writes : w.path # p
  BY DEF Commit
<1> HIDE DEF c
<1>2. Live(c, p) = Live(d, p)
  <2>1. \A w : w.path = p => ((\A v \in c.writes : ~ Supersedes(v, w)) <=> (\A v \in d.writes : ~ Supersedes(v, w)))
    BY <1>1 DEF Supersedes
  <2> QED BY <1>1, <2>1 DEF Live
<1>3. Winners(c, p) = Winners(d, p)  BY <1>2 DEF Winners
<1> QED BY <1>3 DEF Materialize, c

\* Service operations do not touch the member list.
LEMMA ServicesKeepMembers ==
  ASSUME NEW d, NEW r \in Node, NEW s \in Service
  PROVE  Members(RegisterService(d, r, s)) = Members(d) /\ Members(UnregisterService(d, r, s)) = Members(d)
<1> DEFINE puts == [p \in {SvcPath(r, s)} |-> "port"]
           none == [q \in {SvcPath(r, s)} |-> "removed"]
           ctx  == [k \in Node |-> IF k = r THEN d.vv[r] ELSE 0]
<1>1. \A n \in Node : NodePath(n) # SvcPath(r, s)
  <2>1. s # "nodes"  BY ServiceAssumption
  <2> QED BY <2>1 DEF NodePath, SvcPath
<1>2. \A n \in Node : NodePath(n) \notin DOMAIN puts /\ NodePath(n) \notin DOMAIN none  BY <1>1
<1> HIDE DEF puts, none, ctx
<1>3. ASSUME NEW n \in Node
      PROVE  /\ Materialize(Commit(d, r, puts, d.vv), NodePath(n)) = Materialize(d, NodePath(n))
             /\ Materialize(Commit(d, r, none, ctx), NodePath(n)) = Materialize(d, NodePath(n))
  BY <1>2, CommitElsewhere
<1> QED BY <1>3 DEF Members, IsMember, RegisterService, UnregisterService, SetPaths, RemovePath, puts, none, ctx

\* remove_node takes exactly that node off the member list, whatever the document
\* holds about it, since its tombstone covers all of it.
LEMMA RemoveNodeMembers ==
  ASSUME NEW d \in Doc, Covered(d), NEW r \in Node, NEW n \in Node
  PROVE  Members(RemoveNode(d, r, n)) = Members(d) \ {n}
<1> DEFINE puts == [p \in {NodePath(n)} \cup {SvcPath(n, s) : s \in NodeServices(d, n)} |-> "dead"]
           c == Commit(d, r, puts, d.vv)
<1>0. RemoveNode(d, r, n) = c  BY DEF RemoveNode, SetPaths
<1>1. ASSUME NEW m \in Node, m # n  PROVE Materialize(c, NodePath(m)) = Materialize(d, NodePath(m))
  <2>1. NodePath(m) \notin DOMAIN puts  BY <1>1 DEF NodePath, SvcPath
  <2> HIDE DEF puts
  <2> QED BY <2>1, CommitElsewhere
<1>2. Materialize(c, NodePath(n)) # "addr"
  <2>1. PICK t \in c.writes : t.path = NodePath(n) /\ t.ctx = d.vv
    <3>1. NodePath(n) \in DOMAIN puts  OBVIOUS
    <3> DEFINE t == [rep |-> r, ctr |-> d.vv[r] + 1, path |-> NodePath(n), val |-> puts[NodePath(n)], ctx |-> d.vv]
    <3> HIDE DEF puts
    <3>2. t \in c.writes  BY <3>1 DEF Commit
    <3> QED BY <3>2
  <2>2. \A w \in c.writes \ d.writes : w.path \in DOMAIN puts /\ w.val = puts[w.path]
    <3> HIDE DEF puts
    <3> QED BY DEF Commit
  <2>3. \A w \in c.writes \ d.writes : w.val = "dead"  BY <2>2
  <2> HIDE DEF c
  <2>4. \A w \in Live(c, NodePath(n)) : w.val = "dead"
    <3> SUFFICES ASSUME NEW w \in Live(c, NodePath(n)), w \in d.writes  PROVE FALSE
      BY <2>3 DEF Live
    <3>1. w.ctr <= t.ctx[w.rep]  BY <2>1 DEF Covered
    <3> QED BY <2>1, <3>1 DEF Live, Supersedes
  <2> QED BY <2>4, MaterializedWrite
<1> HIDE DEF c
<1> QED BY <1>0, <1>1, <1>2 DEF Members, IsMember

\* A daemon that has just started lists itself.
LEMMA FirstMember ==
  ASSUME NEW n \in Node
  PROVE  Members(AddNode(NewDoc, n)) = {n}
<1> DEFINE puts == [p \in {NodePath(n)} |-> "addr"]
           c == Commit(NewDoc, n, puts, NewDoc.vv)
           w == [rep |-> n, ctr |-> 1, path |-> NodePath(n), val |-> "addr", ctx |-> ZeroVV]
<1>0. AddNode(NewDoc, n) = c  BY DEF AddNode, SetPaths
<1>1. c.writes = {w}
  <2>1. NewDoc.vv = ZeroVV /\ NewDoc.vv[n] = 0 /\ NewDoc.writes = {}  BY DEF NewDoc, ZeroVV
  <2>2. DOMAIN puts = {NodePath(n)} /\ puts[NodePath(n)] = "addr" /\ 0 + 1 = 1  OBVIOUS
  <2> HIDE DEF puts
  <2> QED BY <2>1, <2>2 DEF Commit
<1>2. ~ Supersedes(w, w)
  <2>1. w.ctr = 1 /\ w.ctx[w.rep] = 0  BY DEF ZeroVV
  <2> QED BY <2>1 DEF Supersedes
<1>3. w.path = NodePath(n) /\ w.val = "addr"  OBVIOUS
<1> HIDE DEF c, w
<1>4. Live(c, NodePath(n)) = {w}  BY <1>1, <1>2, <1>3 DEF Live
<1>5. \A m \in Node : m # n => Live(c, NodePath(m)) = {}  BY <1>1, <1>3 DEF Live, NodePath
<1>6. w.rep = n /\ Rank[n] \in Nat  BY RankAssumption DEF w
<1>7. Winners(c, NodePath(n)) = {w}  BY <1>4, <1>6 DEF Winners
<1>8. Materialize(c, NodePath(n)) = "addr"  BY <1>3, <1>7 DEF Materialize
<1>9. \A m \in Node : m # n => Materialize(c, NodePath(m)) = "absent"
  BY <1>5 DEF Winners, Materialize
<1> QED BY <1>0, <1>8, <1>9 DEF Members, IsMember
===============================================================================
