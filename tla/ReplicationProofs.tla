-------------------------- MODULE ReplicationProofs --------------------------
(***************************************************************************)
(* Replication is correct for any set of daemons and services and any      *)
(* bounds.  The inductive invariant IInv says what version vectors and     *)
(* messages in flight know about the documents; from it follow that no     *)
(* daemon misses a write it claims to have (NoGap), that equal version     *)
(* vectors mean equal documents (Convergence), that a removal is final and *)
(* that a lookup never reports a tombstone.                                *)
(***************************************************************************)
EXTENDS Replication, MembershipProofs, TLAPS

\* A document's version vector covers every write it holds.
WritesCovered ==
  \A j \in Node : \A w \in doc[j].writes : 1 <= w.ctr /\ w.ctr <= doc[j].vv[w.rep]

\* Nobody knows more of a replica's writes than the replica itself.
OwnVV == \A i, k \in Node : doc[k].vv[i] <= doc[i].vv[i]

\* The same, for a version vector that is on its way.
MsgVV == \A m \in msgs : \A i \in Node : m.delta.vv[i] <= doc[i].vv[i]

\* A delta is a part of its sender's document.
MsgFrom ==
  \A m \in msgs : \A w \in m.delta.writes :
    w \in doc[m.from].writes /\ w.ctr <= m.delta.vv[w.rep]

\* What a delta's version vector covers, the delta brings or its receiver has.
MsgNoGap ==
  \A m \in msgs, k \in Node : \A w \in doc[k].writes :
    w.ctr <= m.delta.vv[w.rep] => w \in m.delta.writes \/ w \in doc[m.to].writes

SyncInv ==
  /\ TypeOK
  /\ WritesCovered
  /\ OwnVV
  /\ NoGap
  /\ MsgVV
  /\ MsgFrom
  /\ MsgNoGap

\* Only the node itself writes its address, and with its first write.
AddOnce ==
  \A i \in Node : \A w \in doc[i].writes :
    w.path[2] = "nodes" /\ w.val = "addr" => w.path[1] = w.rep /\ w.ctr = 1

\* Only the node itself writes a port, and nobody writes an address there.
SvcValues ==
  \A i \in Node : \A w \in doc[i].writes :
    w.path[2] # "nodes" => w.val # "addr" /\ (w.val = "port" => w.path[1] = w.rep)

\* The tombstone of a service comes with that of its node, written by somebody
\* who had received the node's own entry.
Sibling ==
  \A i \in Node : \A w \in doc[i].writes :
    w.path[2] # "nodes" /\ w.val = "dead" =>
      /\ w.ctx[w.path[1]] > 0
      /\ \E t \in doc[i].writes :
           /\ t.path = NodePath(w.path[1])
           /\ t.val = "dead"
           /\ t.rep = w.rep /\ t.ctr = w.ctr /\ t.ctx = w.ctx

IInv == SyncInv /\ AddOnce /\ SvcValues /\ Sibling

-------------------------------------------------------------------------------
(***************************************************************************)
(* What one step does to SyncInv.                                          *)
(***************************************************************************)

\* One locked call of replica r on its own document keeps SyncInv, whatever it
\* writes and whatever messages are lost meanwhile.
LEMMA CommitStep ==
  ASSUME SyncInv, NEW r \in Node, NEW puts, NEW ctx \in VV,
         DOMAIN puts \subseteq Path,
         \A p \in DOMAIN puts : puts[p] \in Value,
         doc' = [doc EXCEPT ![r] = Commit(doc[r], r, puts, ctx)],
         msgs' \in SUBSET msgs
  PROVE  SyncInv'
<1> DEFINE top == doc[r].vv[r] + 1
           new == {[rep |-> r, ctr |-> top, path |-> p, val |-> puts[p],
                    ctx |-> ctx] : p \in DOMAIN puts}
<1>1. /\ doc \in [Node -> Doc]
      /\ msgs \subseteq Message
      /\ \A n \in Node : doc[n].vv \in [Node -> Nat] /\ doc[n].writes \subseteq Write
  BY DEF SyncInv, TypeOK, Doc, VV
<1>2. /\ doc'[r].vv = [doc[r].vv EXCEPT ![r] = top]
      /\ doc'[r].writes = doc[r].writes \cup new
      /\ \A n \in Node \ {r} : doc'[n] = doc[n]
  BY <1>1 DEF Commit
<1>3. TypeOK'
  BY <1>1, CommitType DEF TypeOK
<1>4. \A n \in Node : doc'[n].vv \in [Node -> Nat] /\ doc'[n].writes \subseteq Write
  BY <1>3 DEF TypeOK, Doc, VV
<1>5. \A n, k \in Node : doc'[n].vv[k] = IF n = r /\ k = r THEN top ELSE doc[n].vv[k]
  BY <1>1, <1>2
<1>6. \A w \in new : w.rep = r /\ w.ctr = top
  OBVIOUS
<1>7. \A n \in Node : \A w \in doc'[n].writes : w \in doc[n].writes \/ (n = r /\ w \in new)
  BY <1>2
<1>8. \A n \in Node : doc[n].writes \subseteq doc'[n].writes
  BY <1>2
<1>9. \A n \in Node : \A w \in doc[n].writes :
        /\ w.rep \in Node /\ w.ctr \in Nat /\ 1 <= w.ctr
        /\ w.ctr <= doc[n].vv[w.rep]
        /\ w.rep = r => w.ctr < top
  BY <1>1 DEF SyncInv, WritesCovered, OwnVV, Write
<1>10. WritesCovered'
  BY <1>1, <1>5, <1>6, <1>7, <1>9 DEF WritesCovered
<1>11. OwnVV'
  BY <1>1, <1>5 DEF SyncInv, OwnVV
<1>12. NoGap'
  <2> SUFFICES ASSUME NEW i \in Node, NEW j \in Node, NEW w \in doc'[j].writes,
                      w.ctr <= doc'[i].vv[w.rep]
               PROVE  w \in doc'[i].writes
    BY DEF NoGap
  <2>1. CASE w \in doc[j].writes
    <3>1. w.ctr <= doc[i].vv[w.rep]
      BY <1>1, <1>5, <1>9, <2>1
    <3> QED BY <2>1, <3>1, <1>8 DEF SyncInv, NoGap
  <2>2. CASE j = r /\ w \in new
    <3>1. CASE i = r
      BY <1>2, <2>2, <3>1
    <3>2. CASE i # r
      <4>1. doc[i].vv[r] <= doc[r].vv[r] /\ doc'[i].vv[r] = doc[i].vv[r]
        BY <1>5, <3>2 DEF SyncInv, OwnVV
      <4> QED BY <4>1, <1>1, <1>6, <2>2
    <3> QED BY <3>1, <3>2
  <2> QED BY <1>7, <2>1, <2>2
<1>13. \A m \in msgs' : m \in msgs /\ m.from \in Node /\ m.to \in Node
                        /\ m.delta.vv \in [Node -> Nat]
  BY <1>1 DEF Message, Doc, VV
<1>14. MsgVV'
  <2> SUFFICES ASSUME NEW m \in msgs', NEW i \in Node
               PROVE  m.delta.vv[i] <= doc'[i].vv[i]
    BY DEF MsgVV
  <2>1. m.delta.vv[i] <= doc[i].vv[i]
    BY <1>13 DEF SyncInv, MsgVV
  <2>2. doc[i].vv[i] <= doc'[i].vv[i]
    BY <1>1, <1>5
  <2> QED BY <2>1, <2>2, <1>1, <1>4, <1>13
<1>15. MsgFrom'
  BY <1>13, <1>8 DEF SyncInv, MsgFrom
<1>16. MsgNoGap'
  <2> SUFFICES ASSUME NEW m \in msgs', NEW k \in Node, NEW w \in doc'[k].writes,
                      w.ctr <= m.delta.vv[w.rep]
               PROVE  w \in m.delta.writes \/ w \in doc'[m.to].writes
    BY DEF MsgNoGap
  <2>1. CASE w \in doc[k].writes
    BY <1>13, <1>8, <2>1 DEF SyncInv, MsgNoGap
  <2>2. CASE w \in new
    <3>1. m.delta.vv[r] <= doc[r].vv[r]
      BY <1>13 DEF SyncInv, MsgVV
    <3> QED BY <3>1, <1>1, <1>6, <1>13, <2>2
  <2> QED BY <1>7, <2>1, <2>2
<1> QED BY <1>3, <1>10, <1>11, <1>12, <1>14, <1>15, <1>16 DEF SyncInv

\* Sending a delta computed against a version vector the receiver has reached.
LEMMA SendStep ==
  ASSUME SyncInv, NEW i \in Node, NEW j \in Node, Send(i, j)
  PROVE  SyncInv'
<1>1. PICK v \in ReachedVVs(j) :
        Lossy({[from |-> i, to |-> j, delta |-> DeltaForPeer(doc[i], v)]})
  BY DEF Send
<1> DEFINE new == [from |-> i, to |-> j, delta |-> DeltaForPeer(doc[i], v)]
<1>2. doc' = doc
  BY DEF Send
<1>3. \A m \in msgs' : m \in msgs \/ m = new
  BY <1>1 DEF Lossy
<1>4. /\ doc \in [Node -> Doc]
      /\ msgs \subseteq Message
      /\ \A n \in Node : doc[n].vv \in [Node -> Nat] /\ doc[n].writes \subseteq Write
  BY DEF SyncInv, TypeOK, Doc, VV
<1>5. /\ v \in [Node -> Nat]
      /\ \A n \in Node : v[n] <= doc[j].vv[n]
  BY <1>4 DEF ReachedVVs, Leq
<1>6. /\ new.from = i /\ new.to = j
      /\ new.delta.vv = doc[i].vv
      /\ new.delta.writes = {w \in doc[i].writes : w.ctr > v[w.rep]}
  BY DEF DeltaForPeer, DeltaSince
<1>7. new \in Message
  BY <1>4 DEF Message, Doc, DeltaForPeer, DeltaSince
<1>8. TypeOK'
  BY <1>2, <1>3, <1>4, <1>7 DEF TypeOK
<1>9. WritesCovered' /\ OwnVV' /\ NoGap'
  BY <1>2 DEF SyncInv, WritesCovered, OwnVV, NoGap
<1>10. MsgVV'
  <2>1. \A n \in Node : new.delta.vv[n] <= doc[n].vv[n]
    BY <1>6 DEF SyncInv, OwnVV
  <2> QED BY <1>2, <1>3, <2>1 DEF SyncInv, MsgVV
<1>11. MsgFrom'
  <2>1. \A w \in new.delta.writes : w \in doc[i].writes /\ w.ctr <= new.delta.vv[w.rep]
    BY <1>6 DEF SyncInv, WritesCovered
  <2> QED BY <1>2, <1>3, <1>6, <2>1 DEF SyncInv, MsgFrom
<1>12. MsgNoGap'
  <2>1. ASSUME NEW k \in Node, NEW w \in doc[k].writes, w.ctr <= new.delta.vv[w.rep]
        PROVE  w \in new.delta.writes \/ w \in doc[j].writes
    <3>1. w \in doc[i].writes /\ w.rep \in Node /\ w.ctr \in Nat
      BY <1>4, <1>6, <2>1 DEF SyncInv, NoGap, Write
    <3>2. CASE w.ctr > v[w.rep]
      BY <1>6, <3>1, <3>2
    <3>3. CASE w.ctr <= v[w.rep]
      <4>1. w.ctr <= doc[j].vv[w.rep]
        BY <1>4, <1>5, <3>1, <3>3
      <4> QED BY <4>1 DEF SyncInv, NoGap
    <3> QED BY <1>5, <3>1, <3>2, <3>3
  <2> QED BY <1>2, <1>3, <1>6, <2>1 DEF SyncInv, MsgNoGap
<1> QED BY <1>8, <1>9, <1>10, <1>11, <1>12 DEF SyncInv

\* Merging a delta: merge_remote takes over the delta's version vector, so it
\* must bring every write that vector covers and the receiver lacks.
LEMMA DeliverStep ==
  ASSUME SyncInv, NEW m \in msgs, Deliver(m)
  PROVE  SyncInv'
<1> DEFINE t == m.to
<1>1. /\ doc \in [Node -> Doc]
      /\ msgs \subseteq Message
      /\ \A n \in Node : doc[n].vv \in [Node -> Nat] /\ doc[n].writes \subseteq Write
  BY DEF SyncInv, TypeOK, Doc, VV
<1>2. /\ t \in Node /\ m.from \in Node
      /\ m.delta.vv \in [Node -> Nat] /\ m.delta.writes \subseteq Write
  BY <1>1 DEF Message, Doc, VV
<1>3. /\ doc'[t].vv = JoinVV(doc[t].vv, m.delta.vv)
      /\ doc'[t].writes = doc[t].writes \cup m.delta.writes
      /\ \A n \in Node \ {t} : doc'[n] = doc[n]
  BY <1>1, <1>2 DEF Deliver, MergeRemote, MergeDelta
<1>4. msgs' \subseteq msgs
  BY DEF Deliver, Lossy
<1>5. MergeRemote(doc[t], m.delta) \in Doc
  BY <1>1, <1>2 DEF MergeRemote, MergeDelta, JoinVV, Doc, VV
<1>6. TypeOK'
  BY <1>1, <1>2, <1>4, <1>5 DEF TypeOK, Deliver
<1>7. \A n \in Node : doc'[n].vv \in [Node -> Nat] /\ doc'[n].writes \subseteq Write
  BY <1>6 DEF TypeOK, Doc, VV
<1>8. \A n, k \in Node :
        doc'[n].vv[k] = IF n = t /\ doc[n].vv[k] <= m.delta.vv[k]
                          THEN m.delta.vv[k] ELSE doc[n].vv[k]
  BY <1>1, <1>2, <1>3 DEF JoinVV
<1>9. \A n, k \in Node : doc[n].vv[k] <= doc'[n].vv[k]
  BY <1>1, <1>2, <1>8
<1>10. /\ \A w \in m.delta.writes : w \in doc[m.from].writes /\ w.ctr <= m.delta.vv[w.rep]
       /\ \A k \in Node : m.delta.vv[k] <= doc[k].vv[k]
       /\ \A k \in Node : \A w \in doc[k].writes :
            w.ctr <= m.delta.vv[w.rep] => w \in m.delta.writes \/ w \in doc[t].writes
  BY DEF SyncInv, MsgFrom, MsgVV, MsgNoGap
<1>11. \A n \in Node : \A w \in doc'[n].writes :
         \/ w \in doc[n].writes
         \/ n = t /\ w \in m.delta.writes /\ w \in doc[m.from].writes
  BY <1>3, <1>10
<1>12. \A n \in Node : doc[n].writes \subseteq doc'[n].writes
  BY <1>3
<1>13. \A n \in Node : \A w \in doc[n].writes :
         w.rep \in Node /\ w.ctr \in Nat /\ 1 <= w.ctr /\ w.ctr <= doc[n].vv[w.rep]
  BY <1>1 DEF SyncInv, WritesCovered, Write
<1>14. WritesCovered'
  <2> SUFFICES ASSUME NEW n \in Node, NEW w \in doc'[n].writes
               PROVE  1 <= w.ctr /\ w.ctr <= doc'[n].vv[w.rep]
    BY DEF WritesCovered
  <2>1. CASE w \in doc[n].writes
    BY <1>1, <1>7, <1>9, <1>13, <2>1
  <2>2. CASE n = t /\ w \in m.delta.writes /\ w \in doc[m.from].writes
    BY <1>1, <1>2, <1>8, <1>10, <1>13, <2>2
  <2> QED BY <1>11, <2>1, <2>2
<1>15. OwnVV'
  <2> SUFFICES ASSUME NEW i \in Node, NEW k \in Node
               PROVE  doc'[k].vv[i] <= doc'[i].vv[i]
    BY DEF OwnVV
  <2>1. doc[k].vv[i] <= doc[i].vv[i]
    BY DEF SyncInv, OwnVV
  <2>2. doc'[k].vv[i] <= doc[i].vv[i]
    BY <1>8, <1>10, <2>1
  <2> QED BY <1>1, <1>7, <1>9, <2>2
<1>16. NoGap'
  <2> SUFFICES ASSUME NEW i \in Node, NEW j \in Node, NEW w \in doc'[j].writes,
                      w.ctr <= doc'[i].vv[w.rep]
               PROVE  w \in doc'[i].writes
    BY DEF NoGap
  <2>1. PICK k \in Node : w \in doc[k].writes
    BY <1>2, <1>11
  <2>2. CASE w.ctr <= doc[i].vv[w.rep]
    BY <1>12, <2>1, <2>2 DEF SyncInv, NoGap
  <2>3. CASE i = t /\ w.ctr <= m.delta.vv[w.rep]
    BY <1>3, <1>10, <2>1, <2>3
  <2> QED BY <1>8, <1>13, <2>1, <2>2, <2>3
<1>17. \A x \in msgs' : x \in msgs /\ x.from \in Node /\ x.to \in Node
                        /\ x.delta.vv \in [Node -> Nat]
  BY <1>1, <1>4 DEF Message, Doc, VV
<1>18. MsgVV'
  <2> SUFFICES ASSUME NEW x \in msgs', NEW i \in Node
               PROVE  x.delta.vv[i] <= doc'[i].vv[i]
    BY DEF MsgVV
  <2>1. x.delta.vv[i] <= doc[i].vv[i]
    BY <1>17 DEF SyncInv, MsgVV
  <2> QED BY <2>1, <1>1, <1>7, <1>9, <1>17
<1>19. MsgFrom'
  BY <1>12, <1>17 DEF SyncInv, MsgFrom
<1>20. MsgNoGap'
  <2> SUFFICES ASSUME NEW x \in msgs', NEW j \in Node, NEW w \in doc'[j].writes,
                      w.ctr <= x.delta.vv[w.rep]
               PROVE  w \in x.delta.writes \/ w \in doc'[x.to].writes
    BY DEF MsgNoGap
  <2>1. PICK k \in Node : w \in doc[k].writes
    BY <1>2, <1>11
  <2> QED BY <1>12, <1>17, <2>1 DEF SyncInv, MsgNoGap
<1> QED BY <1>6, <1>14, <1>15, <1>16, <1>18, <1>19, <1>20 DEF SyncInv

\* SyncInv holds initially and is kept by every step.
LEMMA SyncInit == Init => SyncInv
<1> SUFFICES ASSUME Init PROVE SyncInv
  OBVIOUS
<1>1. NewDoc \in Doc
  BY DEF NewDoc, ZeroVV, Doc, VV
<1>2. doc = [n \in Node |-> NewDoc] /\ msgs = {}
  BY DEF Init
<1>3. \A n \in Node : doc[n].writes = {} /\ \A k \in Node : doc[n].vv[k] = 0
  BY <1>2 DEF NewDoc, ZeroVV
<1> QED BY <1>1, <1>2, <1>3
        DEF SyncInv, TypeOK, WritesCovered, OwnVV, NoGap, MsgVV, MsgFrom, MsgNoGap

LEMMA SyncNext == SyncInv /\ [Next]_vars => SyncInv'
<1> SUFFICES ASSUME SyncInv, [Next]_vars PROVE SyncInv'
  OBVIOUS
<1>1. \A n \in Node : doc[n] \in Doc
  BY DEF SyncInv, TypeOK
<1>2. ASSUME NEW n \in Node, Start(n) PROVE SyncInv'
  <2> DEFINE puts == [p \in {NodePath(n)} |-> "addr"]
  <2>1. /\ DOMAIN puts \subseteq Path
        /\ \A p \in DOMAIN puts : puts[p] \in Value
    BY <1>1, PutsTyped DEF Value
  <2>2. doc' = [doc EXCEPT ![n] = Commit(doc[n], n, puts, doc[n].vv)]
    BY <1>2 DEF Start, AddNode, SetPaths
  <2>3. doc[n].vv \in VV /\ msgs' \in SUBSET msgs
    BY <1>1, <1>2, PutsTyped DEF Start
  <2> HIDE DEF puts
  <2> QED BY <2>1, <2>2, <2>3, CommitStep
<1>3. ASSUME NEW n \in Node, NEW s \in Service, Register(n, s) PROVE SyncInv'
  <2> DEFINE puts == [p \in {SvcPath(n, s)} |-> "port"]
  <2>1. /\ DOMAIN puts \subseteq Path
        /\ \A p \in DOMAIN puts : puts[p] \in Value
    BY <1>1, PutsTyped DEF Value
  <2>2. doc' = [doc EXCEPT ![n] = Commit(doc[n], n, puts, doc[n].vv)]
    BY <1>3 DEF Register, RegisterService, SetPaths
  <2>3. doc[n].vv \in VV /\ msgs' \in SUBSET msgs
    BY <1>1, <1>3, PutsTyped DEF Register
  <2> HIDE DEF puts
  <2> QED BY <2>1, <2>2, <2>3, CommitStep
<1>4. ASSUME NEW n \in Node, NEW s \in Service, Unregister(n, s) PROVE SyncInv'
  <2> DEFINE puts == [p \in {SvcPath(n, s)} |-> "removed"]
             ctx  == [k \in Node |-> IF k = n THEN doc[n].vv[n] ELSE 0]
  <2>1. /\ DOMAIN puts \subseteq Path
        /\ \A p \in DOMAIN puts : puts[p] \in Value
    BY <1>1, PutsTyped DEF Value
  <2>2. doc' = [doc EXCEPT ![n] = Commit(doc[n], n, puts, ctx)]
    BY <1>4 DEF Unregister, UnregisterService, RemovePath
  <2>3. ctx \in VV /\ msgs' \in SUBSET msgs
    BY <1>1, <1>4, PutsTyped DEF Unregister
  <2> HIDE DEF puts, ctx
  <2> QED BY <2>1, <2>2, <2>3, CommitStep
<1>5. ASSUME NEW r \in Node, NEW n \in Node, Remove(r, n) PROVE SyncInv'
  <2> DEFINE puts == [p \in {NodePath(n)} \cup
                              {SvcPath(n, s) : s \in NodeServices(doc[r], n)} |-> "dead"]
  <2>1. /\ DOMAIN puts \subseteq Path
        /\ \A p \in DOMAIN puts : puts[p] \in Value
    BY <1>1, PutsTyped DEF Value
  <2>2. doc' = [doc EXCEPT ![r] = Commit(doc[r], r, puts, doc[r].vv)]
    BY <1>5 DEF Remove, RemoveNode, SetPaths
  <2>3. doc[r].vv \in VV /\ msgs' \in SUBSET msgs
    BY <1>1, <1>5, PutsTyped DEF Remove, Lossy
  <2> HIDE DEF puts
  <2> QED BY <2>1, <2>2, <2>3, CommitStep
<1>6. ASSUME NEW i \in Node, NEW j \in Node, Send(i, j) PROVE SyncInv'
  BY <1>6, SendStep
<1>7. ASSUME NEW m \in msgs, Deliver(m) PROVE SyncInv'
  BY <1>7, DeliverStep
<1>8. CASE doc' = doc /\ msgs' \subseteq msgs
  BY <1>8 DEF SyncInv, TypeOK, WritesCovered, OwnVV, NoGap, MsgVV, MsgFrom, MsgNoGap
<1>9. CASE Lose
  BY <1>8, <1>9 DEF Lose, Lossy
<1>10. CASE UNCHANGED vars
  BY <1>8, <1>10 DEF vars
<1> QED BY <1>2, <1>3, <1>4, <1>5, <1>6, <1>7, <1>9, <1>10 DEF Next

-------------------------------------------------------------------------------
(***************************************************************************)
(* The values writes carry.                                                *)
(***************************************************************************)

ValueInv == AddOnce /\ SvcValues /\ Sibling

\* A locked call that writes neither an address, nor a port of another node,
\* nor a service's tombstone without its node's, keeps ValueInv.
LEMMA ValueCommit ==
  ASSUME SyncInv, ValueInv, NEW r \in Node, NEW puts, NEW ctx \in VV,
         \A p \in DOMAIN puts :
           /\ p[2] = "nodes" /\ puts[p] = "addr" => p[1] = r /\ doc[r].vv[r] = 0
           /\ p[2] # "nodes" => puts[p] # "addr" /\ (puts[p] = "port" => p[1] = r)
           /\ p[2] # "nodes" /\ puts[p] = "dead" =>
                /\ ctx[p[1]] > 0
                /\ NodePath(p[1]) \in DOMAIN puts
                /\ puts[NodePath(p[1])] = "dead",
         doc' = [doc EXCEPT ![r] = Commit(doc[r], r, puts, ctx)]
  PROVE  ValueInv'
<1> DEFINE W(p) == [rep |-> r, ctr |-> doc[r].vv[r] + 1, path |-> p,
                    val |-> puts[p], ctx |-> ctx]
<1>1. doc \in [Node -> Doc] /\ doc[r].vv[r] \in Nat
  BY DEF SyncInv, TypeOK, Doc, VV
<1>2. /\ doc'[r].writes = doc[r].writes \cup {W(p) : p \in DOMAIN puts}
      /\ \A n \in Node \ {r} : doc'[n] = doc[n]
  BY <1>1 DEF Commit
<1>3. \A n \in Node : \A w \in doc'[n].writes :
        w \in doc[n].writes \/ (n = r /\ \E p \in DOMAIN puts : w = W(p))
  BY <1>2
<1>4. AddOnce'
  BY <1>1, <1>3 DEF AddOnce, ValueInv
<1>5. SvcValues'
  BY <1>3 DEF SvcValues, ValueInv
<1>6. Sibling'
  <2> SUFFICES ASSUME NEW i \in Node, NEW w \in doc'[i].writes,
                      w.path[2] # "nodes", w.val = "dead"
               PROVE  /\ w.ctx[w.path[1]] > 0
                      /\ \E t \in doc'[i].writes :
                           /\ t.path = NodePath(w.path[1])
                           /\ t.val = "dead"
                           /\ t.rep = w.rep /\ t.ctr = w.ctr /\ t.ctx = w.ctx
    BY DEF Sibling
  <2>1. CASE w \in doc[i].writes
    <3>1. doc[i].writes \subseteq doc'[i].writes
      BY <1>2
    <3> QED BY <2>1, <3>1 DEF ValueInv, Sibling
  <2>2. ASSUME i = r, NEW p \in DOMAIN puts, w = W(p)
        PROVE  /\ w.ctx[w.path[1]] > 0
               /\ \E t \in doc'[i].writes :
                    /\ t.path = NodePath(w.path[1])
                    /\ t.val = "dead"
                    /\ t.rep = w.rep /\ t.ctr = w.ctr /\ t.ctx = w.ctx
    <3>1. p[2] # "nodes" /\ puts[p] = "dead"
      BY <2>2
    <3>2. /\ ctx[p[1]] > 0
          /\ NodePath(p[1]) \in DOMAIN puts
          /\ puts[NodePath(p[1])] = "dead"
      BY <3>1
    <3>3. W(NodePath(p[1])) \in doc'[i].writes
      BY <1>2, <2>2, <3>2
    <3> QED BY <2>2, <3>2, <3>3
  <2> QED BY <1>3, <2>1, <2>2
<1> QED BY <1>4, <1>5, <1>6 DEF ValueInv

\* A merge keeps ValueInv: the sibling of a tombstone has the same dot, so the
\* receiver, which has no gaps, gets it together with the tombstone.
LEMMA ValueDeliver ==
  ASSUME SyncInv, SyncInv', ValueInv, NEW m \in msgs, Deliver(m)
  PROVE  ValueInv'
<1> DEFINE t == m.to
<1>1. /\ doc \in [Node -> Doc] /\ t \in Node /\ m.from \in Node
      /\ m.delta.writes \subseteq doc[m.from].writes
  BY DEF SyncInv, TypeOK, Message, MsgFrom
<1>2. /\ doc'[t].writes = doc[t].writes \cup m.delta.writes
      /\ \A n \in Node \ {t} : doc'[n] = doc[n]
  BY <1>1 DEF Deliver, MergeRemote, MergeDelta
<1>3. \A n \in Node : \A w \in doc'[n].writes : \E k \in Node : w \in doc[k].writes
  BY <1>1, <1>2
<1>4. \A n \in Node : doc[n].writes \subseteq doc'[n].writes
  BY <1>2
<1>5. AddOnce' /\ SvcValues'
  BY <1>3 DEF AddOnce, SvcValues, ValueInv
<1>6. Sibling'
  <2> SUFFICES ASSUME NEW i \in Node, NEW w \in doc'[i].writes,
                      w.path[2] # "nodes", w.val = "dead"
               PROVE  /\ w.ctx[w.path[1]] > 0
                      /\ \E x \in doc'[i].writes :
                           /\ x.path = NodePath(w.path[1])
                           /\ x.val = "dead"
                           /\ x.rep = w.rep /\ x.ctr = w.ctr /\ x.ctx = w.ctx
    BY DEF Sibling
  <2>1. PICK k \in Node : w \in doc[k].writes
    BY <1>3
  <2>2. w.ctx[w.path[1]] > 0
    BY <2>1 DEF ValueInv, Sibling
  <2>3. PICK x \in doc[k].writes :
          /\ x.path = NodePath(w.path[1])
          /\ x.val = "dead"
          /\ x.rep = w.rep /\ x.ctr = w.ctr /\ x.ctx = w.ctx
    BY <2>1 DEF ValueInv, Sibling
  <2>4. x.ctr <= doc'[i].vv[x.rep]
    BY <2>3 DEF SyncInv, WritesCovered
  <2>5. x \in doc'[i].writes
    BY <1>4, <2>4 DEF SyncInv, NoGap
  <2> QED BY <2>2, <2>3, <2>5
<1> QED BY <1>5, <1>6 DEF ValueInv

LEMMA ValueInit == Init => ValueInv
  BY DEF Init, NewDoc, ValueInv, AddOnce, SvcValues, Sibling

\* remove_node tombstones a service only where it finds a port, which the node
\* itself must have written: the remover's version vector covers it.
LEMMA ServiceOwnerKnown ==
  ASSUME SyncInv, ValueInv, NEW r \in Node, NEW n \in Node,
         NEW s \in NodeServices(doc[r], n)
  PROVE  doc[r].vv[n] > 0
<1>1. s \in Service /\ Materialize(doc[r], SvcPath(n, s)) = "port"
  BY DEF NodeServices
<1>2. PICK w \in doc[r].writes : w.path = SvcPath(n, s) /\ w.val = "port"
  BY <1>1, MaterializedWrite DEF Live
<1>3. w.path[1] = n /\ w.path[2] # "nodes"
  BY <1>1, <1>2, ServiceAssumption DEF SvcPath
<1>4. w.rep = n
  BY <1>2, <1>3 DEF ValueInv, SvcValues
<1>5. 1 <= w.ctr /\ w.ctr <= doc[r].vv[n] /\ w.ctr \in Nat /\ doc[r].vv[n] \in Nat
  BY <1>2, <1>4 DEF SyncInv, WritesCovered, TypeOK, Doc, VV, Write
<1> QED BY <1>5

LEMMA ValueNext == SyncInv /\ ValueInv /\ [Next]_vars => ValueInv'
<1> SUFFICES ASSUME SyncInv, ValueInv, [Next]_vars PROVE ValueInv'
  OBVIOUS
<1>1. \A n \in Node : doc[n] \in Doc /\ doc[n].vv \in VV /\ doc[n].vv[n] \in Nat
  BY DEF SyncInv, TypeOK, Doc, VV
<1>2. ASSUME NEW n \in Node, Start(n) PROVE ValueInv'
  <2> DEFINE puts == [p \in {NodePath(n)} |-> "addr"]
  <2>1. \A p \in DOMAIN puts :
          p[1] = n /\ p[2] = "nodes" /\ puts[p] = "addr"
    BY DEF NodePath
  <2>2. doc[n].vv[n] = 0
    BY <1>1, <1>2 DEF Start, Started
  <2>3. doc' = [doc EXCEPT ![n] = Commit(doc[n], n, puts, doc[n].vv)]
    BY <1>2 DEF Start, AddNode, SetPaths
  <2> HIDE DEF puts
  <2> QED BY <1>1, <2>1, <2>2, <2>3, ValueCommit
<1>3. ASSUME NEW n \in Node, NEW s \in Service, Register(n, s) PROVE ValueInv'
  <2> DEFINE puts == [p \in {SvcPath(n, s)} |-> "port"]
  <2>1. \A p \in DOMAIN puts :
          p[1] = n /\ p[2] # "nodes" /\ puts[p] = "port"
    BY ServiceAssumption DEF SvcPath
  <2>2. doc' = [doc EXCEPT ![n] = Commit(doc[n], n, puts, doc[n].vv)]
    BY <1>3 DEF Register, RegisterService, SetPaths
  <2> HIDE DEF puts
  <2> QED BY <1>1, <2>1, <2>2, ValueCommit
<1>4. ASSUME NEW n \in Node, NEW s \in Service, Unregister(n, s) PROVE ValueInv'
  <2> DEFINE puts == [p \in {SvcPath(n, s)} |-> "removed"]
             ctx  == [k \in Node |-> IF k = n THEN doc[n].vv[n] ELSE 0]
  <2>1. \A p \in DOMAIN puts : p[2] # "nodes" /\ puts[p] = "removed"
    BY ServiceAssumption DEF SvcPath
  <2>2. doc' = [doc EXCEPT ![n] = Commit(doc[n], n, puts, ctx)]
    BY <1>4 DEF Unregister, UnregisterService, RemovePath
  <2>3. ctx \in VV
    BY <1>1, PutsTyped
  <2> HIDE DEF puts, ctx
  <2> QED BY <2>1, <2>2, <2>3, ValueCommit
<1>5. ASSUME NEW r \in Node, NEW n \in Node, Remove(r, n) PROVE ValueInv'
  <2> DEFINE puts == [p \in {NodePath(n)} \cup
                              {SvcPath(n, s) : s \in NodeServices(doc[r], n)} |-> "dead"]
  <2>1. /\ \A p \in DOMAIN puts : puts[p] = "dead" /\ p[1] = n
        /\ NodePath(n) \in DOMAIN puts
    BY DEF NodePath, SvcPath
  <2>2. ASSUME NEW p \in DOMAIN puts, p[2] # "nodes" PROVE doc[r].vv[p[1]] > 0
    <3>1. p # NodePath(n)
      BY <2>2 DEF NodePath
    <3>2. PICK s \in NodeServices(doc[r], n) : p = SvcPath(n, s)
      BY <3>1
    <3>3. doc[r].vv[n] > 0
      BY <3>2, ServiceOwnerKnown
    <3> QED BY <2>1, <3>3
  <2>3. doc' = [doc EXCEPT ![r] = Commit(doc[r], r, puts, doc[r].vv)]
    BY <1>5 DEF Remove, RemoveNode, SetPaths
  <2> HIDE DEF puts
  <2> QED BY <1>1, <2>1, <2>2, <2>3, ValueCommit
<1>6. CASE doc' = doc
  BY <1>6 DEF ValueInv, AddOnce, SvcValues, Sibling
<1>7. ASSUME NEW i \in Node, NEW j \in Node, Send(i, j) PROVE ValueInv'
  BY <1>6, <1>7 DEF Send
<1>8. ASSUME NEW m \in msgs, Deliver(m) PROVE ValueInv'
  BY <1>8, SyncNext, ValueDeliver
<1>9. CASE Lose
  BY <1>6, <1>9 DEF Lose
<1>10. CASE UNCHANGED vars
  BY <1>6, <1>10 DEF vars
<1> QED BY <1>2, <1>3, <1>4, <1>5, <1>7, <1>8, <1>9, <1>10 DEF Next

-------------------------------------------------------------------------------
(***************************************************************************)
(* The theorems.                                                           *)
(***************************************************************************)

\* IInv is an inductive invariant of Spec.
THEOREM Invariance == Spec => []IInv
<1>1. Init => IInv
  BY SyncInit, ValueInit DEF IInv, ValueInv
<1>2. IInv /\ [Next]_vars => IInv'
  BY SyncNext, ValueNext DEF IInv, ValueInv
<1> QED BY <1>1, <1>2, PTL DEF Spec

\* Documents, version vectors and messages keep their types through every
\* mutation, delta and merge of membership.rs.
THEOREM TypeCorrect == Spec => []TypeOK
<1>1. IInv => TypeOK
  BY DEF IInv, SyncInv
<1> QED BY <1>1, Invariance, PTL

\* However deltas are lost, delayed, reordered or repeated, no daemon's version
\* vector claims a write its document lacks: delta_for_peer never skips what the
\* receiver still needs.
THEOREM NoGapTheorem == Spec => []NoGap
<1>1. IInv => NoGap
  BY DEF IInv, SyncInv
<1> QED BY <1>1, Invariance, PTL

\* Daemons with equal version vectors hold equal documents, hence list the same
\* members and answer every lookup alike.
THEOREM ConvergenceTheorem == Spec => []Convergence
<1>1. IInv => Convergence
  <2> SUFFICES ASSUME SyncInv, NEW i \in Node, NEW j \in Node, doc[i].vv = doc[j].vv
               PROVE  doc[i] = doc[j]
    BY DEF IInv, Convergence
  <2>1. doc[i] \in Doc /\ doc[j] \in Doc
    BY DEF SyncInv, TypeOK
  <2>2. ASSUME NEW w \in doc[i].writes PROVE w \in doc[j].writes
    <3>1. w.ctr <= doc[j].vv[w.rep]
      BY DEF SyncInv, WritesCovered
    <3> QED BY <3>1 DEF SyncInv, NoGap
  <2>3. ASSUME NEW w \in doc[j].writes PROVE w \in doc[i].writes
    <3>1. w.ctr <= doc[i].vv[w.rep]
      BY DEF SyncInv, WritesCovered
    <3> QED BY <3>1 DEF SyncInv, NoGap
  <2>4. doc[i].writes = doc[j].writes
    BY <2>2, <2>3
  <2> QED BY <2>1, <2>4 DEF Doc
<1> QED BY <1>1, Invariance, PTL

\* A document with a tombstone whose author had the node's own entry does not
\* list the node: the only write of its address is superseded.
LEMMA KnownRemoved ==
  ASSUME IInv, NEW i \in Node, NEW n \in Node, KnowsRemoval(doc[i], n)
  PROVE  ~ IsMember(doc[i], n)
<1> SUFFICES ASSUME IsMember(doc[i], n) PROVE FALSE
  OBVIOUS
<1>1. PICK w \in Live(doc[i], NodePath(n)) : w.val = "addr"
  BY MaterializedWrite DEF IsMember
<1>2. w \in doc[i].writes /\ w.path = NodePath(n)
  BY DEF Live
<1>3. w.rep = n /\ w.ctr = 1
  BY <1>1, <1>2 DEF IInv, AddOnce, NodePath
<1>4. PICK t \in doc[i].writes : t.path = NodePath(n) /\ t.val = "dead" /\ t.ctx[n] > 0
  BY DEF KnowsRemoval
<1>5. t.ctx[n] \in Nat
  BY <1>4 DEF IInv, SyncInv, TypeOK, Doc, Write, VV
<1>6. Supersedes(t, w)
  BY <1>2, <1>3, <1>4, <1>5 DEF Supersedes
<1> QED BY <1>1, <1>4, <1>6 DEF Live

\* No step of any daemon makes a document forget a write.
LEMMA WritesGrow ==
  ASSUME IInv, [Next]_vars, NEW i \in Node
  PROVE  doc[i].writes \subseteq doc'[i].writes
<1>1. doc \in [Node -> Doc]
  BY DEF IInv, SyncInv, TypeOK
<1>2. ASSUME NEW n \in Node, Start(n) PROVE doc[i].writes \subseteq doc'[i].writes
  BY <1>1, <1>2 DEF Start, AddNode, SetPaths, Commit
<1>3. ASSUME NEW n \in Node, NEW s \in Service, Register(n, s) \/ Unregister(n, s)
      PROVE  doc[i].writes \subseteq doc'[i].writes
  BY <1>1, <1>3 DEF Register, RegisterService, SetPaths, Commit,
                    Unregister, UnregisterService, RemovePath
<1>4. ASSUME NEW r \in Node, NEW n \in Node, Remove(r, n)
      PROVE  doc[i].writes \subseteq doc'[i].writes
  BY <1>1, <1>4 DEF Remove, RemoveNode, SetPaths, Commit
<1>5. ASSUME NEW m \in msgs, Deliver(m) PROVE doc[i].writes \subseteq doc'[i].writes
  BY <1>1, <1>5 DEF Deliver, MergeRemote, MergeDelta
<1>6. CASE doc' = doc
  BY <1>6
<1> QED BY <1>2, <1>3, <1>4, <1>5, <1>6 DEF Next, vars, Send, Lose

\* Once a daemon knows a removal whose author had the node's own entry, no merge
\* and no local call ever brings the node back.
THEOREM RemovalIsFinalTheorem == Spec => RemovalIsFinal
<1> DEFINE Gone == \A i, n \in Node : KnowsRemoval(doc[i], n) => ~ IsMember(doc[i], n)
           Step == \A i, n \in Node : KnowsRemoval(doc[i], n) => ~ IsMember(doc[i], n)'
<1>1. IInv => Gone
  BY KnownRemoved
<1>2. IInv /\ Gone' /\ [Next]_vars => Step
  <2> SUFFICES ASSUME IInv, Gone', [Next]_vars, NEW i \in Node, NEW n \in Node,
                      KnowsRemoval(doc[i], n)
               PROVE  ~ IsMember(doc[i], n)'
    OBVIOUS
  <2>1. KnowsRemoval(doc[i], n)'
    BY WritesGrow DEF KnowsRemoval
  <2> QED BY <2>1
<1> QED BY <1>1, <1>2, Invariance, PTL DEF Spec, RemovalIsFinal

\* lookup_service never reports a tombstoned service (with the port 0).
THEOREM NoGhostServiceTheorem == Spec => []NoGhostService
<1>1. IInv => NoGhostService
  <2> SUFFICES ASSUME IInv, NEW i \in Node, NEW s \in Service, NEW n \in Members(doc[i]),
                      Materialize(doc[i], SvcPath(n, s)) # "absent"
               PROVE  Materialize(doc[i], SvcPath(n, s)) = "port"
    BY DEF NoGhostService, LookupService
  <2>1. n \in Node /\ IsMember(doc[i], n)
    BY DEF Members
  <2>2. PICK w \in Live(doc[i], SvcPath(n, s)) : Materialize(doc[i], SvcPath(n, s)) = w.val
    BY MaterializedWrite
  <2>3. w \in doc[i].writes /\ w.path = SvcPath(n, s) /\ w.val # "removed"
    BY DEF Live
  <2>4. w.path[1] = n /\ w.path[2] # "nodes"
    BY <2>3, ServiceAssumption DEF SvcPath
  <2>5. w.val \in Value /\ w.val # "addr"
    BY <2>3, <2>4 DEF IInv, SyncInv, TypeOK, Doc, Write, SvcValues
  <2>6. w.val # "dead"
    <3> SUFFICES ASSUME w.val = "dead" PROVE FALSE
      OBVIOUS
    <3>1. KnowsRemoval(doc[i], n)
      BY <2>3, <2>4 DEF IInv, Sibling, KnowsRemoval
    <3> QED BY <2>1, <3>1, KnownRemoved
  <2> QED BY <2>2, <2>3, <2>5, <2>6 DEF Value
<1> QED BY <1>1, Invariance, PTL

===============================================================================
