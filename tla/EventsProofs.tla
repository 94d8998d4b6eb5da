----------------------------- MODULE EventsProofs ------------------------------
(***************************************************************************)
(* What Events promises, for any daemon, any number of clients and any     *)
(* capacity of the channel and of the sockets.  The inductive invariant    *)
(* says where every event of the log is on its way to a client (Stream,    *)
(* Position), and what the log says about the members (Announced,          *)
(* Followed).                                                              *)
(***************************************************************************)
EXTENDS Events, SequenceTheorems, FiniteSetTheorems, TLAPS

Live == {"waiting", "confirmed", "following"}

\* How far c has read the log.
ReadTo(c) == base[c] + Len(got[c])

\* The confirmation comes first.
Skip(c) == IF client[c] = "waiting" THEN 1 ELSE 0

\* What c has read is the log from its subscription on.
Read(c) ==
  /\ ReadTo(c) <= Len(log)
  /\ \A i \in 1 .. Len(got[c]) : got[c][i] = log[base[c] + i]

\* What is in c's socket is the confirmation and the log from there on.
Stream(c) ==
  \A i \in 1 .. Len(socket[c]) :
    i > Skip(c) => /\ ReadTo(c) + i - Skip(c) <= Len(log)
                   /\ socket[c][i] = log[ReadTo(c) + i - Skip(c)]

\* The task that serves c goes on from where the socket ends.
Position(c) ==
  /\ pos[c] <= Len(log)
  /\ task[c] = "none" <=> client[c] = "off"
  /\ task[c] = "subscribed" => /\ client[c] \in {"waiting", "gone"} /\ socket[c] = <<>>
                               /\ client[c] = "waiting" => pos[c] = ReadTo(c)
  /\ task[c] \in {"recv", "write"} /\ client[c] \in Live =>
       /\ Len(socket[c]) >= Skip(c)
       /\ pos[c] = ReadTo(c) + Len(socket[c]) - Skip(c) + (IF task[c] = "write" THEN 1 ELSE 0)
  /\ client[c] = "ended" \/ ~ Up => task[c] \in {"none", "done"}
  /\ client[c] \in {"off", "gone"} => socket[c] = <<>> /\ got[c] = <<>> /\ base[c] = 0

\* c is right about every node of which it has read the last event, or of which
\* there was none.
Followed(c) ==
  status = "running" /\ client[c] = "following" =>
    \A n \in Node :
      (\A j \in ReadTo(c) + 1 .. Len(log) : log[j].node # n) =>
        (n \in view[c] <=> n \in Members)

\* The last event about a node says whether it is a member.
Announced ==
  status = "running" =>
    \A i \in 1 .. Len(log) :
      (\A j \in i + 1 .. Len(log) : log[j].node # log[i].node) =>
        (log[i].event = "NodeJoined" <=> log[i].node \in Members)

Served(c) == Read(c) /\ Stream(c) /\ Position(c) /\ Followed(c)

IInv == TypeOK /\ Announced /\ \A c \in Client : Served(c)

-------------------------------------------------------------------------------
(***************************************************************************)
(* The log grows by what has changed.                                      *)
(***************************************************************************)

\* The daemon appends changes to the log: an event about every node whose
\* membership changes, and every event right.
Announces(changes) ==
  /\ changes \in Seq(Event)
  /\ Len(log) + Len(changes) <= MaxEvents
  /\ log' = log \o changes
  /\ registry' \in [Node -> {"unknown", "addr", "dead"}]
  /\ \A n \in Node : (n \in Members) # (n \in Members') =>
       \E i \in 1 .. Len(changes) : changes[i].node = n
  /\ \A i \in 1 .. Len(changes) :
       changes[i].event = "NodeJoined" <=> changes[i].node \in Members'
  /\ UNCHANGED <<status, clientVars, task, pos, socket, base>>

\* A permutation of a finite set has every element.
LEMMA Permutation ==
  ASSUME NEW S, IsFiniteSet(S), NEW s \in SetToSeqs(S)
  PROVE  /\ s \in Seq(S)
         /\ \A e \in S : \E i \in 1 .. Len(s) : s[i] = e
<1>1. Cardinality(S) \in Nat  BY FS_CardinalityType
<1>2. s \in [1 .. Cardinality(S) -> S]  BY DEF SetToSeqs
<1>3. s \in Seq(S) /\ Len(s) = Cardinality(S)  BY <1>1, <1>2
<1>4. s \in Injection(1 .. Cardinality(S), S)  BY <1>2 DEF SetToSeqs, Injection, IsInjective
<1>5. Cardinality(1 .. Cardinality(S)) = Cardinality(S)  BY <1>1, FS_Interval
<1>6. s \in Surjection(1 .. Cardinality(S), S)  BY <1>4, <1>5, FS_Injection
<1> QED BY <1>3, <1>6 DEF Surjection

\* So are the events of a set of nodes.
LEMMA EventsOf ==
  ASSUME NEW N \in SUBSET Node, NEW e \in {"NodeJoined", "NodeLeft"},
         NEW s \in SetToSeqs({[event |-> e, node |-> n] : n \in N})
  PROVE  /\ s \in Seq(Event)
         /\ \A i \in 1 .. Len(s) : s[i].event = e /\ s[i].node \in N
         /\ \A n \in N : \E i \in 1 .. Len(s) : s[i].node = n
<1> DEFINE S == {[event |-> e, node |-> n] : n \in N}
           f == [n \in N |-> [event |-> e, node |-> n]]
<1>1. IsFiniteSet(N)  BY FS_Subset, EventsAssumption
<1>2. f \in Surjection(N, S)  BY DEF Surjection
<1>3. IsFiniteSet(S)  BY <1>1, <1>2, FS_Surjection
<1>4. /\ s \in Seq(S)
      /\ \A v \in S : \E i \in 1 .. Len(s) : s[i] = v
  BY <1>3, Permutation
<1>5. s \in Seq(Event)
  <2>1. S \subseteq Event  BY DEF Event
  <2> QED BY <1>4, <2>1, SeqMonotonic
<1>6. \A i \in 1 .. Len(s) : s[i] \in S  BY <1>4, ElementOfSeq
<1>7. \A i \in 1 .. Len(s) : s[i].event = e /\ s[i].node \in N  BY <1>6
<1>8. ASSUME NEW n \in N  PROVE \E i \in 1 .. Len(s) : s[i].node = n
  <2>1. PICK i \in 1 .. Len(s) : s[i] = [event |-> e, node |-> n]  BY <1>4
  <2> QED BY <2>1
<1> QED BY <1>5, <1>7, <1>8

LEMMA MergeAnnounces ==
  ASSUME TypeOK, NEW joined \in SUBSET Node, NEW left \in SUBSET Node, Merge(joined, left)
  PROVE  \E changes : Announces(changes)
<1>1. PICK j \in SetToSeqs({Joined(n) : n \in joined}), l \in SetToSeqs({Left(n) : n \in left}) :
             BroadcastEvents(j \o l)
  BY DEF Merge
<1> DEFINE changes == j \o l
<1>2. /\ j \in Seq(Event)
      /\ \A i \in 1 .. Len(j) : j[i].event = "NodeJoined" /\ j[i].node \in joined
      /\ \A n \in joined : \E i \in 1 .. Len(j) : j[i].node = n
  BY <1>1, EventsOf DEF Joined
<1>3. /\ l \in Seq(Event)
      /\ \A i \in 1 .. Len(l) : l[i].event = "NodeLeft" /\ l[i].node \in left
      /\ \A n \in left : \E i \in 1 .. Len(l) : l[i].node = n
  BY <1>1, EventsOf DEF Left
<1>4. /\ changes \in Seq(Event) /\ Len(changes) = Len(j) + Len(l)
      /\ Len(j) \in Nat /\ Len(l) \in Nat
      /\ \A i \in 1 .. Len(j) : changes[i] = j[i]
      /\ \A i \in 1 .. Len(l) : changes[Len(j) + i] = l[i]
      /\ \A i \in 1 .. Len(changes) : \/ i \in 1 .. Len(j) /\ changes[i] = j[i]
                                      \/ i - Len(j) \in 1 .. Len(l) /\ changes[i] = l[i - Len(j)]
  BY <1>2, <1>3, ConcatProperties, LenProperties
<1> HIDE DEF changes
<1>5. /\ registry' \in [Node -> {"unknown", "addr", "dead"}]
      /\ Members' = (Members \ left) \cup joined
      /\ joined \cap left = {}
  BY DEF Merge, TypeOK, Members
<1>6. ASSUME NEW n \in joined \cup left  PROVE \E i \in 1 .. Len(changes) : changes[i].node = n
  <2>1. CASE n \in joined
    <3>1. PICK i \in 1 .. Len(j) : j[i].node = n  BY <1>2, <2>1
    <3>2. i \in 1 .. Len(changes) /\ changes[i] = j[i]  BY <1>4
    <3> QED BY <3>1, <3>2
  <2>2. CASE n \in left
    <3>1. PICK i \in 1 .. Len(l) : l[i].node = n  BY <1>3, <2>2
    <3>2. Len(j) + i \in 1 .. Len(changes) /\ changes[Len(j) + i] = l[i]  BY <1>4
    <3> QED BY <3>1, <3>2
  <2> QED BY <2>1, <2>2
<1>7. ASSUME NEW i \in 1 .. Len(changes)
      PROVE  changes[i].event = "NodeJoined" <=> changes[i].node \in Members'
  <2>1. CASE i \in 1 .. Len(j) /\ changes[i] = j[i]
    <3>1. changes[i].event = "NodeJoined" /\ changes[i].node \in joined  BY <1>2, <2>1
    <3> QED BY <1>5, <3>1
  <2>2. CASE i - Len(j) \in 1 .. Len(l) /\ changes[i] = l[i - Len(j)]
    <3>1. changes[i].event = "NodeLeft" /\ changes[i].node \in left  BY <1>3, <2>2
    <3> QED BY <1>5, <3>1
  <2> QED BY <1>4, <2>1, <2>2
<1>8. /\ Len(log) + Len(changes) <= MaxEvents /\ log' = log \o changes
      /\ UNCHANGED <<status, clientVars, task, pos, socket, base>>
  BY <1>1 DEF Merge, BroadcastEvents, changes
<1>9. ASSUME NEW n \in Node, (n \in Members) # (n \in Members')
      PROVE  \E i \in 1 .. Len(changes) : changes[i].node = n
  BY <1>5, <1>6, <1>9
<1> QED BY <1>4, <1>5, <1>7, <1>8, <1>9 DEF Announces

LEMMA CleanupAnnounces ==
  ASSUME TypeOK, NEW n \in Node, Cleanup(n)
  PROVE  \E changes : Announces(changes)
<1> DEFINE changes == <<Left(n)>>
<1>1. /\ changes \in Seq(Event) /\ Len(changes) = 1 /\ changes[1].node = n
      /\ changes[1].event = "NodeLeft"
  BY DEF Left, Event
<1>2. /\ registry' \in [Node -> {"unknown", "addr", "dead"}]
      /\ Members' = Members \ {n}
  BY DEF Cleanup, TypeOK, Members
<1>3. /\ Len(log) + Len(changes) <= MaxEvents /\ log' = log \o changes
      /\ UNCHANGED <<status, clientVars, task, pos, socket, base>>
  BY DEF Cleanup, BroadcastEvents
<1> HIDE DEF changes
<1>4. \A i \in 1 .. Len(changes) : i = 1  BY <1>1
<1>5. ASSUME NEW m \in Node, (m \in Members) # (m \in Members')
      PROVE  \E i \in 1 .. Len(changes) : changes[i].node = m
  <2>1. m = n  BY <1>2, <1>5
  <2> QED BY <1>1, <2>1
<1>6. ASSUME NEW i \in 1 .. Len(changes)
      PROVE  changes[i].event = "NodeJoined" <=> changes[i].node \in Members'
  BY <1>1, <1>2, <1>4
<1> QED BY <1>1, <1>2, <1>3, <1>5, <1>6 DEF Announces

\* What has been broadcast stays, and clients see it after what they have read.
LEMMA LogGrows ==
  ASSUME TypeOK, NEW changes, Announces(changes)
  PROVE  /\ log' \in Seq(Event) /\ Len(log') <= MaxEvents
         /\ Len(log) \in Nat /\ Len(changes) \in Nat /\ Len(log') = Len(log) + Len(changes)
         /\ \A i \in 1 .. Len(log) : log'[i] = log[i]
         /\ \A i \in 1 .. Len(changes) : log'[Len(log) + i] = changes[i]
  BY ConcatProperties, LenProperties DEF TypeOK, Announces

\* What TypeOK says about one client.
LEMMA ClientType ==
  ASSUME TypeOK, NEW c \in Client
  PROVE  /\ socket[c] \in Seq(Event \cup {Ok}) /\ Len(socket[c]) \in Nat
         /\ Len(socket[c]) <= SocketCap
         /\ got[c] \in Seq(Event) /\ Len(got[c]) \in Nat
         /\ pos[c] \in Nat /\ base[c] \in Nat /\ Len(log) \in Nat /\ log \in Seq(Event)
         /\ ReadTo(c) \in Nat /\ Skip(c) \in {0, 1} /\ Skip(c) \in Nat
<1>1. socket[c] \in Seq(Event \cup {Ok}) /\ got[c] \in Seq(Event) /\ log \in Seq(Event)
  BY DEF TypeOK
<1>2. Len(socket[c]) \in Nat /\ Len(got[c]) \in Nat /\ Len(log) \in Nat  BY <1>1, LenProperties
<1>3. pos[c] \in Nat /\ base[c] \in Nat /\ Len(socket[c]) <= SocketCap
  BY EventsAssumption DEF TypeOK
<1> QED BY <1>1, <1>2, <1>3 DEF ReadTo, Skip

LEMMA LogStep ==
  ASSUME IInv, NEW changes, Announces(changes)
  PROVE  IInv'
<1>1. TypeOK'  BY LogGrows DEF IInv, TypeOK, Announces, clientVars
<1>2. /\ UNCHANGED <<status, client, got, view, task, pos, socket, base>>
      /\ \A n \in Node : (n \in Members) # (n \in Members') =>
           \E i \in 1 .. Len(changes) : changes[i].node = n
      /\ \A i \in 1 .. Len(changes) :
           changes[i].event = "NodeJoined" <=> changes[i].node \in Members'
  BY DEF Announces, clientVars
<1>3. /\ Len(log) \in Nat /\ Len(changes) \in Nat /\ Len(log') = Len(log) + Len(changes)
      /\ \A i \in 1 .. Len(log) : log'[i] = log[i]
      /\ \A i \in 1 .. Len(changes) : log'[Len(log) + i] = changes[i]
  BY LogGrows DEF IInv
<1>4. ASSUME NEW n \in Node, NEW k \in 0 .. Len(log),
             \A j \in k + 1 .. Len(log') : log'[j].node # n
      PROVE  /\ \A j \in k + 1 .. Len(log) : log[j].node # n
             /\ (n \in Members) = (n \in Members')
  <2>1. \A j \in k + 1 .. Len(log) : log[j].node # n  BY <1>3, <1>4
  <2>2. \A i \in 1 .. Len(changes) : changes[i].node # n
    <3> SUFFICES ASSUME NEW i \in 1 .. Len(changes)  PROVE changes[i].node # n
      OBVIOUS
    <3>1. Len(log) + i \in k + 1 .. Len(log')  BY <1>3
    <3> QED BY <1>3, <1>4, <3>1
  <2> QED BY <1>2, <2>1, <2>2
<1>5. Announced'
  <2> SUFFICES ASSUME status' = "running", NEW i \in 1 .. Len(log'),
                      \A j \in i + 1 .. Len(log') : log'[j].node # log'[i].node
               PROVE  log'[i].event = "NodeJoined" <=> log'[i].node \in Members'
    BY DEF Announced
  <2>1. CASE i \in 1 .. Len(log)
    <3>1. log'[i] = log[i]  BY <1>3, <2>1
    <3>2. log[i].node \in Node
      <4>1. log \in Seq(Event)  BY DEF IInv, TypeOK
      <4>2. log[i] \in Event  BY <2>1, <4>1, ElementOfSeq
      <4> QED BY <4>2 DEF Event
    <3>3. /\ \A j \in i + 1 .. Len(log) : log[j].node # log[i].node
          /\ (log[i].node \in Members) = (log[i].node \in Members')
      BY <1>4, <2>1, <3>1, <3>2
    <3>4. status = "running"  BY <1>2
    <3>5. log[i].event = "NodeJoined" <=> log[i].node \in Members
      BY <2>1, <3>3, <3>4 DEF IInv, Announced
    <3> QED BY <3>1, <3>3, <3>5
  <2>2. CASE i \notin 1 .. Len(log)
    <3>1. i - Len(log) \in 1 .. Len(changes) /\ log'[i] = changes[i - Len(log)]
      <4>1. i - Len(log) \in 1 .. Len(changes) /\ Len(log) + (i - Len(log)) = i  BY <1>3, <2>2
      <4> QED BY <1>3, <4>1
    <3> QED BY <1>2, <3>1
  <2> QED BY <2>1, <2>2
<1>6. ASSUME NEW c \in Client  PROVE Served(c)'
  <2>1. /\ ReadTo(c)' = ReadTo(c) /\ Skip(c)' = Skip(c) /\ ReadTo(c) \in Nat
        /\ ReadTo(c) <= Len(log) /\ Skip(c) \in {0, 1} /\ base[c] \in Nat
        /\ Len(socket[c]) \in Nat /\ Len(got[c]) \in Nat /\ pos[c] \in Nat
    BY <1>2, ClientType DEF IInv, Served, Read, ReadTo, Skip
  <2>2. Read(c)'
    <3>1. \A i \in 1 .. Len(got[c]) : base[c] + i \in 1 .. Len(log)  BY <2>1 DEF ReadTo
    <3>2. \A i \in 1 .. Len(got[c]) : got[c][i] = log[base[c] + i]  BY DEF IInv, Served, Read
    <3>3. \A i \in 1 .. Len(got'[c]) : got'[c][i] = log'[base'[c] + i]
      BY <1>2, <1>3, <3>1, <3>2
    <3>4. ReadTo(c)' <= Len(log')  BY <1>3, <2>1
    <3> QED BY <3>3, <3>4 DEF Read
  <2>3. Stream(c)'
    <3>1. \A i \in 1 .. Len(socket[c]) : i > Skip(c) =>
             /\ ReadTo(c) + i - Skip(c) \in 1 .. Len(log)
             /\ socket[c][i] = log[ReadTo(c) + i - Skip(c)]
      BY <1>3, <2>1 DEF IInv, Served, Stream
    <3> QED BY <1>2, <1>3, <2>1, <3>1 DEF Stream
  <2>4. Position(c)'
    BY <1>2, <1>3, <2>1 DEF IInv, Served, Position, Up
  <2>5. Followed(c)'
    <3> SUFFICES ASSUME status' = "running", client'[c] = "following", NEW n \in Node,
                        \A j \in ReadTo(c) + 1 .. Len(log') : log'[j].node # n
                 PROVE  n \in view'[c] <=> n \in Members'
      BY <2>1 DEF Followed
    <3>1. /\ \A j \in ReadTo(c) + 1 .. Len(log) : log[j].node # n
          /\ (n \in Members) = (n \in Members')
      BY <1>3, <1>4, <2>1
    <3>2. status = "running" /\ client[c] = "following" /\ view'[c] = view[c]  BY <1>2
    <3>3. n \in view[c] <=> n \in Members  BY <3>1, <3>2 DEF IInv, Served, Followed
    <3> QED BY <3>1, <3>2, <3>3
  <2> QED BY <2>2, <2>3, <2>4, <2>5 DEF Served
<1> QED BY <1>1, <1>5, <1>6 DEF IInv

-------------------------------------------------------------------------------
(***************************************************************************)
(* A task or a client takes a step.                                        *)
(***************************************************************************)

\* Everything about d is as before.
Same(d) ==
  /\ client'[d] = client[d] /\ task'[d] = task[d] /\ pos'[d] = pos[d]
  /\ socket'[d] = socket[d] /\ base'[d] = base[d] /\ got'[d] = got[d] /\ view'[d] = view[d]

\* A step for one client disturbs nobody else.
LEMMA OneClient ==
  ASSUME IInv, NEW c \in Client, UNCHANGED daemonVars, TypeOK', Served(c)',
         \A d \in Client \ {c} : Same(d)
  PROVE  IInv'
<1>1. UNCHANGED <<status, registry, log>>  BY DEF daemonVars
<1>2. Members' = Members /\ Up' = Up  BY <1>1 DEF Members, Up
<1>3. Announced'  BY <1>1, <1>2 DEF IInv, Announced
<1>4. ASSUME NEW d \in Client \ {c}  PROVE Served(d)'
  <2>1. Same(d) /\ Served(d)  BY <1>4 DEF IInv
  <2>2. ReadTo(d)' = ReadTo(d) /\ Skip(d)' = Skip(d)  BY <2>1 DEF Same, ReadTo, Skip
  <2>3. Read(d)'  BY <1>1, <2>1, <2>2 DEF Same, Served, Read
  <2>4. Stream(d)'  BY <1>1, <2>1, <2>2 DEF Same, Served, Stream
  <2>5. Position(d)'  BY <1>1, <1>2, <2>1, <2>2 DEF Same, Served, Position
  <2>6. Followed(d)'  BY <1>1, <1>2, <2>1, <2>2 DEF Same, Served, Followed
  <2> QED BY <2>3, <2>4, <2>5, <2>6 DEF Served
<1> QED BY <1>3, <1>4 DEF IInv

LEMMA SubscribeStep ==
  ASSUME IInv, NEW c \in Client, Subscribe(c)
  PROVE  IInv'
<1>0. TypeOK /\ Served(c) /\ Len(log) \in Nat  BY ClientType DEF IInv
<1>1. TypeOK'  BY <1>0 DEF TypeOK, Subscribe, daemonVars
<1>2. /\ client'[c] = "waiting" /\ task'[c] = "subscribed" /\ pos'[c] = Len(log)
      /\ base'[c] = Len(log) /\ socket'[c] = <<>> /\ got'[c] = <<>>
      /\ UNCHANGED <<status, registry, log>> /\ Up
  BY <1>0 DEF TypeOK, Subscribe, daemonVars, Served, Position
<1>3. ReadTo(c)' = Len(log)  BY <1>0, <1>2 DEF ReadTo
<1>4. Read(c)' /\ Stream(c)' /\ Followed(c)'
  BY <1>0, <1>2, <1>3 DEF Read, Stream, Followed
<1>5. Position(c)'  BY <1>0, <1>2, <1>3 DEF Position, Up
<1>6. UNCHANGED daemonVars /\ \A d \in Client \ {c} : Same(d)
  BY <1>0 DEF Subscribe, Same, TypeOK
<1> QED BY <1>1, <1>4, <1>5, <1>6, OneClient DEF Served

\* The task of c ends.
LEMMA EndStep ==
  ASSUME IInv, NEW c \in Client, TaskEnds(c), UNCHANGED <<daemonVars, clientVars, socket, base>>,
         task[c] # "none"
  PROVE  IInv'
<1>0. TypeOK /\ Served(c) /\ Len(log) \in Nat  BY ClientType DEF IInv
<1>1. TypeOK'  BY <1>0, EventsAssumption DEF TypeOK, TaskEnds, daemonVars, clientVars
<1>2. /\ task'[c] = "done" /\ pos'[c] = 0
      /\ UNCHANGED <<status, registry, log, client, got, view, socket, base>>
  BY <1>0 DEF TypeOK, TaskEnds, daemonVars, clientVars
<1>3. ReadTo(c)' = ReadTo(c) /\ Skip(c)' = Skip(c) /\ Members' = Members
  BY <1>2 DEF ReadTo, Skip, Members
<1>4. Read(c)' /\ Stream(c)' /\ Followed(c)'
  BY <1>0, <1>2, <1>3 DEF Read, Stream, Followed, Served
<1>5. Position(c)'  BY <1>0, <1>2 DEF Position, Served
<1>6. \A d \in Client \ {c} : Same(d)
  BY <1>0, <1>2 DEF TaskEnds, Same, TypeOK
<1> QED BY <1>1, <1>4, <1>5, <1>6, OneClient DEF Served

\* A line is added to the socket of a client that still reads.
LEMMA LineStep ==
  ASSUME IInv, NEW c \in Client, NEW line \in Event \cup {Ok},
         client[c] # "gone", Len(socket[c]) < SocketCap,
         socket' = [socket EXCEPT ![c] = Append(@, line)],
         task' = [task EXCEPT ![c] = "recv"],
         UNCHANGED <<daemonVars, clientVars, pos, base>>,
         \/ task[c] = "subscribed" /\ line = Ok
         \/ task[c] = "write" /\ line = log[pos[c]]
  PROVE  IInv'
<1>0. TypeOK /\ Served(c)  BY DEF IInv
<1>a. /\ socket[c] \in Seq(Event \cup {Ok}) /\ Len(socket[c]) \in Nat
      /\ Len(got[c]) \in Nat /\ pos[c] \in Nat /\ base[c] \in Nat /\ Len(log) \in Nat
      /\ ReadTo(c) \in Nat /\ Skip(c) \in {0, 1} /\ Skip(c) \in Nat /\ SocketCap \in Nat
  BY <1>0, ClientType, EventsAssumption
<1>2. /\ task'[c] = "recv" /\ socket'[c] = Append(socket[c], line)
      /\ UNCHANGED <<status, registry, log, client, got, view, pos, base>>
  BY <1>0 DEF TypeOK, daemonVars, clientVars
<1>b. /\ socket'[c] \in Seq(Event \cup {Ok})
      /\ Len(socket'[c]) = Len(socket[c]) + 1
      /\ \A i \in 1 .. Len(socket[c]) : socket'[c][i] = socket[c][i]
      /\ socket'[c][Len(socket[c]) + 1] = line
  BY <1>a, <1>2, AppendProperties
<1>1. TypeOK'
  <2>1. socket' \in [Client -> Seq(Event \cup {Ok})]  BY <1>0, <1>2, <1>b DEF TypeOK
  <2>2. \A d \in Client : Len(socket'[d]) <= SocketCap
    <3> SUFFICES ASSUME NEW d \in Client  PROVE Len(socket'[d]) <= SocketCap
      OBVIOUS
    <3>1. CASE d = c  BY <1>a, <1>b, <3>1
    <3>2. CASE d # c  BY <1>0, <3>2 DEF TypeOK
    <3> QED BY <3>1, <3>2
  <2> QED BY <1>0, <1>2, <2>1, <2>2 DEF TypeOK
<1>3. ReadTo(c)' = ReadTo(c) /\ Skip(c)' = Skip(c) /\ Members' = Members
  BY <1>2 DEF ReadTo, Skip, Members
<1>4. Read(c)' /\ Followed(c)'
  BY <1>0, <1>2, <1>3 DEF Read, Followed, Served
<1>5. /\ client[c] \in Live
      /\ task[c] = "subscribed" => Skip(c) = 1 /\ Len(socket[c]) = 0 /\ pos[c] = ReadTo(c)
      /\ task[c] = "write" => /\ Len(socket[c]) >= Skip(c)
                              /\ pos[c] = ReadTo(c) + Len(socket[c]) - Skip(c) + 1
                              /\ pos[c] <= Len(log)
  <2>1. client[c] \in Live
    BY <1>0 DEF TypeOK, Served, Position, Live
  <2>2. CASE task[c] = "subscribed"  BY <1>0, <2>1, <2>2 DEF Served, Position, Skip
  <2>3. CASE task[c] = "write"  BY <1>0, <2>1, <2>3 DEF Served, Position
  <2> QED BY <2>1, <2>2, <2>3
<1>6. Stream(c)'
  <2> SUFFICES ASSUME NEW i \in 1 .. Len(socket'[c]), i > Skip(c)
               PROVE  /\ ReadTo(c) + i - Skip(c) <= Len(log)
                      /\ socket'[c][i] = log[ReadTo(c) + i - Skip(c)]
    BY <1>2, <1>3 DEF Stream
  <2>1. CASE i \in 1 .. Len(socket[c])  BY <1>0, <1>b, <2>1 DEF Served, Stream
  <2>2. CASE i = Len(socket[c]) + 1
    <3>1. task[c] = "write"  BY <1>a, <1>5, <2>2
    <3>2. pos[c] = ReadTo(c) + Len(socket[c]) - Skip(c) + 1  BY <1>5, <3>1
    <3>3. ReadTo(c) + i - Skip(c) = pos[c]  BY <1>a, <2>2, <3>2
    <3> QED BY <1>b, <1>5, <2>2, <3>1, <3>3
  <2> QED BY <1>a, <1>b, <2>1, <2>2
<1>7. Position(c)'
  <2>1. Len(socket'[c]) >= Skip(c) /\ pos[c] = ReadTo(c) + Len(socket'[c]) - Skip(c)
    <3>1. CASE task[c] = "subscribed"
      <4>1. Skip(c) = 1 /\ Len(socket[c]) = 0 /\ pos[c] = ReadTo(c)  BY <1>5, <3>1
      <4> QED BY <1>a, <1>b, <4>1
    <3>2. CASE task[c] = "write"
      <4>1. Len(socket[c]) >= Skip(c) /\ pos[c] = ReadTo(c) + Len(socket[c]) - Skip(c) + 1
        BY <1>5, <3>2
      <4> QED BY <1>a, <1>b, <4>1
    <3> QED BY <3>1, <3>2
  <2>2. client[c] \notin {"off", "ended", "gone"}  BY <1>5 DEF Live
  <2>3. Up' /\ pos[c] <= Len(log)  BY <1>0, <1>2 DEF Served, Position, Up
  <2>4. pos'[c] = ReadTo(c)' + Len(socket'[c]) - Skip(c)' + 0
    BY <1>2, <1>3, <1>a, <1>b, <2>1
  <2> QED BY <1>2, <1>3, <2>1, <2>2, <2>3, <2>4 DEF Position
<1>8. \A d \in Client \ {c} : Same(d)
  BY <1>0, <1>2 DEF Same, TypeOK
<1> QED BY <1>1, <1>4, <1>6, <1>7, <1>8, OneClient DEF Served

LEMMA ServeStep ==
  ASSUME IInv, NEW c \in Client, Serve(c)
  PROVE  IInv'
<1>0. TypeOK /\ Served(c)  BY DEF IInv
<1>a. /\ pos[c] \in Nat /\ Len(log) \in Nat /\ log \in Seq(Event)
      /\ ReadTo(c) \in Nat /\ Skip(c) \in {0, 1} /\ Len(socket[c]) \in Nat
  BY <1>0, ClientType
<1>1. CASE WriteOK(c)
  BY <1>1, EndStep, LineStep DEF WriteOK, WriteLine
<1>2. CASE Recv(c)
  <2>1. /\ task'[c] = "write" /\ task[c] = "recv" /\ pos'[c] = pos[c] + 1 /\ pos[c] < Len(log)
        /\ UNCHANGED <<status, registry, log, client, got, view, socket, base>>
    BY <1>0, <1>2 DEF TypeOK, Recv, daemonVars, clientVars
  <2>2. TypeOK'
    <3>1. Len(log) <= MaxEvents /\ MaxEvents \in Nat  BY <1>0, EventsAssumption DEF TypeOK
    <3>2. pos[c] + 1 \in 0 .. MaxEvents  BY <1>a, <2>1, <3>1
    <3>3. pos' \in [Client -> 0 .. MaxEvents]  BY <1>0, <1>2, <3>2 DEF TypeOK, Recv
    <3> QED BY <1>0, <1>2, <2>1, <3>3 DEF TypeOK, Recv
  <2>3. ReadTo(c)' = ReadTo(c) /\ Skip(c)' = Skip(c) /\ Members' = Members
    BY <2>1 DEF ReadTo, Skip, Members
  <2>4. Read(c)' /\ Stream(c)' /\ Followed(c)'
    BY <1>0, <2>1, <2>3 DEF Read, Stream, Followed, Served
  <2>5. Position(c)'  BY <1>0, <1>a, <2>1, <2>3 DEF Position, Served, Up
  <2>6. UNCHANGED daemonVars /\ \A d \in Client \ {c} : Same(d)
    BY <1>0, <1>2, <2>1 DEF Recv, Same, TypeOK
  <2> QED BY <2>2, <2>4, <2>5, <2>6, OneClient DEF Served
<1>3. CASE RecvLagged(c)  BY <1>3, EndStep DEF RecvLagged
<1>4. CASE WriteEvent(c)
  <2>1. CASE client[c] = "gone"  BY <1>4, <2>1, EndStep DEF WriteEvent, WriteLine
  <2>2. CASE client[c] # "gone"
    <3>1. client[c] \in Live  BY <1>0, <1>4, <2>2 DEF TypeOK, Served, Position, Live, WriteEvent
    <3>2. pos[c] \in 1 .. Len(log)
      BY <1>0, <1>4, <1>a, <3>1 DEF Served, Position, WriteEvent
    <3>3. log[pos[c]] \in Event \cup {Ok}  BY <1>a, <3>2, ElementOfSeq
    <3> QED BY <1>4, <2>2, <3>3, LineStep DEF WriteEvent, WriteLine
  <2> QED BY <2>1, <2>2
<1> QED BY <1>1, <1>2, <1>3, <1>4 DEF Serve

\* What reading a line leaves in the socket.
LEMMA TailOf ==
  ASSUME TypeOK, NEW c \in Client, socket[c] # <<>>, ReadLine(c)
  PROVE  /\ socket' \in [Client -> Seq(Event \cup {Ok})]
         /\ \A d \in Client : Len(socket'[d]) <= SocketCap
         /\ \A d \in Client \ {c} : socket'[d] = socket[d]
         /\ Len(socket[c]) >= 1 /\ Len(socket'[c]) = Len(socket[c]) - 1
         /\ \A i \in 1 .. Len(socket'[c]) : i + 1 \in 1 .. Len(socket[c]) /\ socket'[c][i] = socket[c][i + 1]
         /\ Head(socket[c]) = socket[c][1]
<1>1. /\ socket[c] \in Seq(Event \cup {Ok}) /\ Len(socket[c]) \in Nat /\ SocketCap \in Nat
      /\ Len(socket[c]) <= SocketCap
  BY ClientType, EventsAssumption
<1>2. socket'[c] = Tail(socket[c])  BY DEF ReadLine, TypeOK
<1>3. /\ socket'[c] \in Seq(Event \cup {Ok})
      /\ Len(socket'[c]) = Len(socket[c]) - 1
      /\ \A i \in 1 .. Len(socket'[c]) : socket'[c][i] = socket[c][i + 1]
  BY <1>1, <1>2, HeadTailProperties
<1>4. Len(socket[c]) >= 1 /\ Head(socket[c]) = socket[c][1]  BY <1>1, EmptySeq
<1>5. \A d \in Client \ {c} : socket'[d] = socket[d]  BY DEF ReadLine, TypeOK
<1>6. socket' \in [Client -> Seq(Event \cup {Ok})]  BY <1>2, <1>3 DEF ReadLine, TypeOK
<1>7. ASSUME NEW d \in Client  PROVE Len(socket'[d]) <= SocketCap
  <2>1. CASE d = c  BY <1>1, <1>3, <2>1
  <2>2. CASE d # c  BY <1>5, <2>2 DEF TypeOK
  <2> QED BY <2>1, <2>2
<1>8. \A i \in 1 .. Len(socket'[c]) : i + 1 \in 1 .. Len(socket[c])  BY <1>1, <1>3
<1> QED BY <1>3, <1>4, <1>5, <1>6, <1>7, <1>8

LEMMA ReadOKStep ==
  ASSUME IInv, NEW c \in Client, ReadOK(c)
  PROVE  IInv'
<1>0. TypeOK /\ Served(c)  BY DEF IInv
<1>a. /\ Len(socket[c]) \in Nat /\ ReadTo(c) \in Nat /\ pos[c] \in Nat
      /\ Len(log) \in Nat
  BY <1>0, ClientType
<1>1. /\ client[c] = "waiting" /\ client'[c] = "confirmed" /\ socket[c] # <<>> /\ ReadLine(c)
      /\ UNCHANGED <<status, registry, log, got, view, task, pos, base>>
  BY <1>0 DEF ReadOK, TypeOK, daemonVars
<1>2. /\ Len(socket[c]) >= 1 /\ Len(socket'[c]) = Len(socket[c]) - 1
      /\ \A i \in 1 .. Len(socket'[c]) : i + 1 \in 1 .. Len(socket[c]) /\ socket'[c][i] = socket[c][i + 1]
  BY <1>0, <1>1, TailOf
<1>3. TypeOK'  BY <1>0, <1>1, TailOf DEF TypeOK, ReadOK
<1>4. ReadTo(c)' = ReadTo(c) /\ Skip(c)' = 0 /\ Skip(c) = 1  BY <1>1 DEF ReadTo, Skip
<1>5. Read(c)' /\ Followed(c)'  BY <1>0, <1>1, <1>4 DEF Read, Followed, Served
<1>6. Stream(c)'
  <2> SUFFICES ASSUME NEW i \in 1 .. Len(socket'[c])
               PROVE  /\ ReadTo(c) + i - 0 <= Len(log)
                      /\ socket'[c][i] = log[ReadTo(c) + i - 0]
    BY <1>1, <1>4 DEF Stream
  <2>1. /\ ReadTo(c) + (i + 1) - 1 <= Len(log)
        /\ socket[c][i + 1] = log[ReadTo(c) + (i + 1) - 1]
    <3>1. i + 1 \in 1 .. Len(socket[c]) /\ i + 1 > 1  BY <1>2
    <3> QED BY <1>0, <1>4, <3>1 DEF Served, Stream
  <2>2. ReadTo(c) + (i + 1) - 1 = ReadTo(c) + i - 0  BY <1>a
  <2> QED BY <1>2, <2>1, <2>2
<1>7. Position(c)'
  <2>1. task[c] # "subscribed" /\ (task[c] \in {"recv", "write"} =>
          pos[c] = ReadTo(c) + Len(socket[c]) - 1 + (IF task[c] = "write" THEN 1 ELSE 0))
    BY <1>0, <1>1, <1>4 DEF Served, Position, Live
  <2>2. task[c] \in {"recv", "write"} =>
          pos[c] = ReadTo(c) + Len(socket'[c]) - 0 + (IF task[c] = "write" THEN 1 ELSE 0)
    BY <1>a, <1>2, <2>1
  <2>3. Len(socket'[c]) >= 0  BY <1>a, <1>2
  <2> QED BY <1>0, <1>1, <1>4, <2>1, <2>2, <2>3 DEF Served, Position, Up
<1>8. UNCHANGED daemonVars /\ \A d \in Client \ {c} : Same(d)
  BY <1>0, <1>1, TailOf DEF ReadOK, Same, TypeOK
<1> QED BY <1>3, <1>5, <1>6, <1>7, <1>8, OneClient DEF Served

LEMMA ReadEventStep ==
  ASSUME IInv, NEW c \in Client, ReadEvent(c)
  PROVE  IInv'
<1> DEFINE line == socket[c][1]
<1>0. TypeOK /\ Served(c) /\ Announced  BY DEF IInv
<1>a. /\ Len(socket[c]) \in Nat /\ ReadTo(c) \in Nat /\ pos[c] \in Nat
      /\ Len(log) \in Nat /\ log \in Seq(Event) /\ got[c] \in Seq(Event) /\ Len(got[c]) \in Nat
      /\ base[c] \in Nat
  BY <1>0, ClientType
<1>b. /\ client[c] = "following" /\ socket[c] # <<>> /\ ReadLine(c)
      /\ UNCHANGED <<status, registry, log, client, task, pos, base>>
  BY <1>0 DEF ReadEvent, TypeOK, daemonVars
<1>2. /\ Len(socket[c]) >= 1 /\ Len(socket'[c]) = Len(socket[c]) - 1
      /\ \A i \in 1 .. Len(socket'[c]) : i + 1 \in 1 .. Len(socket[c]) /\ socket'[c][i] = socket[c][i + 1]
      /\ Head(socket[c]) = line
  BY <1>0, <1>b, TailOf
<1>1. /\ got' = [got EXCEPT ![c] = Append(@, line)] /\ got'[c] = Append(got[c], line)
      /\ view' = [view EXCEPT ![c] = IF line.event = "NodeJoined" THEN @ \cup {line.node}
                                     ELSE @ \ {line.node}]
  BY <1>0, <1>2 DEF ReadEvent, TypeOK
<1>c. Skip(c) = 0 /\ Skip(c)' = 0 /\ Members' = Members  BY <1>b DEF Skip, Members
<1>d. /\ ReadTo(c) + 1 \in 1 .. Len(log) /\ line = log[ReadTo(c) + 1] /\ line \in Event
  <2>1. ReadTo(c) + 1 - 0 <= Len(log) /\ line = log[ReadTo(c) + 1 - 0]
    <3>1. 1 \in 1 .. Len(socket[c])  BY <1>a, <1>2
    <3> QED BY <1>0, <1>c, <3>1 DEF Served, Stream
  <2>2. ReadTo(c) + 1 - 0 = ReadTo(c) + 1  BY <1>a
  <2>3. ReadTo(c) + 1 \in 1 .. Len(log)  BY <1>a, <2>1
  <2> QED BY <1>a, <2>1, <2>2, <2>3, ElementOfSeq
<1> HIDE DEF line
<1>e. /\ got'[c] \in Seq(Event) /\ Len(got'[c]) = Len(got[c]) + 1
      /\ \A i \in 1 .. Len(got[c]) : got'[c][i] = got[c][i]
      /\ got'[c][Len(got[c]) + 1] = line
  BY <1>a, <1>1, <1>d, AppendProperties
<1>4. ReadTo(c)' = ReadTo(c) + 1  BY <1>a, <1>b, <1>e DEF ReadTo
<1>3. TypeOK'
  <2>1. got' \in [Client -> Seq(Event)]  BY <1>0, <1>1, <1>e DEF TypeOK
  <2>2. view' \in [Client -> SUBSET Node]  BY <1>0, <1>1, <1>d DEF TypeOK, Event
  <2> QED BY <1>0, <1>b, <2>1, <2>2, TailOf DEF TypeOK
<1>5. Read(c)'
  <2> SUFFICES ASSUME NEW i \in 1 .. Len(got'[c])  PROVE got'[c][i] = log[base[c] + i]
    BY <1>a, <1>b, <1>4, <1>d DEF Read
  <2>1. CASE i \in 1 .. Len(got[c])  BY <1>0, <1>e, <2>1 DEF Served, Read
  <2>2. CASE i = Len(got[c]) + 1
    <3>1. base[c] + i = ReadTo(c) + 1  BY <1>a, <2>2 DEF ReadTo
    <3> QED BY <1>d, <1>e, <2>2, <3>1
  <2> QED BY <1>a, <1>e, <2>1, <2>2
<1>6. Stream(c)'
  <2> SUFFICES ASSUME NEW i \in 1 .. Len(socket'[c])
               PROVE  /\ ReadTo(c) + 1 + i - 0 <= Len(log)
                      /\ socket'[c][i] = log[ReadTo(c) + 1 + i - 0]
    BY <1>b, <1>c, <1>4 DEF Stream
  <2>1. /\ ReadTo(c) + (i + 1) - 0 <= Len(log)
        /\ socket[c][i + 1] = log[ReadTo(c) + (i + 1) - 0]
    <3>1. i + 1 \in 1 .. Len(socket[c]) /\ i + 1 > 0  BY <1>2
    <3> QED BY <1>0, <1>c, <3>1 DEF Served, Stream
  <2>2. ReadTo(c) + (i + 1) - 0 = ReadTo(c) + 1 + i - 0  BY <1>a
  <2> QED BY <1>2, <2>1, <2>2
<1>7. Position(c)'
  <2>1. task[c] # "subscribed" /\ (task[c] \in {"recv", "write"} =>
          pos[c] = ReadTo(c) + Len(socket[c]) - 0 + (IF task[c] = "write" THEN 1 ELSE 0))
    BY <1>0, <1>b, <1>c DEF Served, Position, Live
  <2>2. task[c] \in {"recv", "write"} =>
          pos[c] = ReadTo(c) + 1 + Len(socket'[c]) - 0 + (IF task[c] = "write" THEN 1 ELSE 0)
    BY <1>a, <1>2, <2>1
  <2>3. Len(socket'[c]) >= 0  BY <1>a, <1>2
  <2> QED BY <1>0, <1>b, <1>c, <1>4, <2>1, <2>2, <2>3 DEF Served, Position, Up
<1>8. Followed(c)'
  <2> SUFFICES ASSUME status = "running", NEW n \in Node,
                      \A j \in ReadTo(c) + 1 + 1 .. Len(log) : log[j].node # n
               PROVE  n \in view'[c] <=> n \in Members
    BY <1>b, <1>c, <1>4 DEF Followed
  <2>1. CASE n = line.node
    <3>1. line.event = "NodeJoined" <=> n \in Members
      BY <1>0, <1>d, <2>1 DEF Announced
    <3> QED BY <1>0, <1>1, <2>1, <3>1 DEF TypeOK
  <2>2. CASE n # line.node
    <3>1. \A j \in ReadTo(c) + 1 .. Len(log) : log[j].node # n
      <4> SUFFICES ASSUME NEW j \in ReadTo(c) + 1 .. Len(log)  PROVE log[j].node # n
        OBVIOUS
      <4>1. CASE j = ReadTo(c) + 1  BY <1>d, <2>2, <4>1
      <4>2. CASE j # ReadTo(c) + 1
        <5>1. j \in ReadTo(c) + 1 + 1 .. Len(log)  BY <1>a, <4>2
        <5> QED BY <5>1
      <4> QED BY <4>1, <4>2
    <3>2. n \in view[c] <=> n \in Members  BY <1>0, <1>b, <3>1 DEF Served, Followed
    <3> QED BY <1>0, <1>1, <2>2, <3>2 DEF TypeOK
  <2> QED BY <2>1, <2>2
<1>9. UNCHANGED daemonVars /\ \A d \in Client \ {c} : Same(d)
  BY <1>0, <1>1, <1>b, TailOf DEF ReadEvent, Same, TypeOK
<1> QED BY <1>3, <1>5, <1>6, <1>7, <1>8, <1>9, OneClient DEF Served

LEMMA ListNodesStep ==
  ASSUME IInv, NEW c \in Client, ListNodes(c)
  PROVE  IInv'
<1>0. TypeOK /\ Served(c)  BY DEF IInv
<1>1. /\ client[c] = "confirmed" /\ client'[c] = "following" /\ view'[c] = Members
      /\ UNCHANGED <<status, registry, log, got, task, pos, socket, base>>
  BY <1>0 DEF ListNodes, NodesResponse, TypeOK, daemonVars
<1>2. TypeOK'  BY <1>0 DEF ListNodes, NodesResponse, Members, TypeOK, daemonVars
<1>3. ReadTo(c)' = ReadTo(c) /\ Skip(c)' = Skip(c) /\ Members' = Members /\ Up' = Up
  BY <1>1 DEF ReadTo, Skip, Members, Up
<1>4. Read(c)' /\ Stream(c)' /\ Position(c)' /\ Followed(c)'
  BY <1>0, <1>1, <1>3 DEF Served, Read, Stream, Position, Followed, Live
<1>5. UNCHANGED daemonVars /\ \A d \in Client \ {c} : Same(d)
  BY <1>0, <1>1 DEF ListNodes, Same, TypeOK
<1> QED BY <1>2, <1>4, <1>5, OneClient DEF Served

LEMMA ClientEndsStep ==
  ASSUME IInv, NEW c \in Client, ClientEnds(c)
  PROVE  IInv'
<1>0. TypeOK /\ Served(c)  BY DEF IInv
<1>1. /\ client[c] \in Live /\ client'[c] = "ended"
      /\ client[c] = "waiting" => socket[c] = <<>>
      /\ client[c] # "confirmed" => task[c] = "done"
      /\ client[c] = "confirmed" => ~ Up
      /\ UNCHANGED <<status, registry, log, got, view, task, pos, socket, base>>
  BY <1>0 DEF ClientEnds, TypeOK, daemonVars, Live
<1>2. TypeOK'  BY <1>0 DEF ClientEnds, TypeOK, daemonVars
<1>3. ReadTo(c)' = ReadTo(c) /\ Skip(c)' = 0 /\ Up' = Up
  BY <1>1 DEF ReadTo, Skip, Up
<1>4. Stream(c)'
  <2>1. CASE client[c] = "waiting"
    <3>1. Len(socket'[c]) = 0  BY <1>1, <2>1
    <3> QED BY <3>1 DEF Stream
  <2>2. CASE client[c] # "waiting"
    <3>1. Skip(c) = 0  BY <2>2 DEF Skip
    <3> QED BY <1>0, <1>1, <1>3, <3>1 DEF Served, Stream
  <2> QED BY <2>1, <2>2
<1>5. task[c] = "done"  BY <1>0, <1>1 DEF Served, Position, Live
<1>6. Read(c)' /\ Position(c)' /\ Followed(c)'
  BY <1>0, <1>1, <1>3, <1>5 DEF Served, Read, Position, Followed
<1>7. UNCHANGED daemonVars /\ \A d \in Client \ {c} : Same(d)
  BY <1>0, <1>1 DEF ClientEnds, Same, TypeOK
<1> QED BY <1>2, <1>4, <1>6, <1>7, OneClient DEF Served

LEMMA InterruptStep ==
  ASSUME IInv, NEW c \in Client, Interrupt(c)
  PROVE  IInv'
<1>0. TypeOK /\ Served(c) /\ Len(log) \in Nat  BY ClientType DEF IInv
<1>1. /\ client[c] \in Live /\ client'[c] = "gone"
      /\ socket'[c] = <<>> /\ got'[c] = <<>> /\ base'[c] = 0
      /\ UNCHANGED <<status, registry, log, task, pos>>
  BY <1>0 DEF Interrupt, TypeOK, daemonVars, Live
<1>2. TypeOK'
  <2>1. <<>> \in Seq(Event) /\ <<>> \in Seq(Event \cup {Ok}) /\ Len(<<>>) = 0  OBVIOUS
  <2>2. socket' \in [Client -> Seq(Event \cup {Ok})] /\ got' \in [Client -> Seq(Event)]
    BY <1>0, <2>1 DEF Interrupt, TypeOK
  <2>3. \A d \in Client : Len(socket'[d]) <= SocketCap
    BY <1>0, <2>1, EventsAssumption DEF Interrupt, TypeOK
  <2> QED BY <1>0, <1>1, <2>2, <2>3, EventsAssumption DEF Interrupt, TypeOK
<1>3. ReadTo(c)' = 0  BY <1>1 DEF ReadTo
<1>4. Read(c)' /\ Stream(c)' /\ Followed(c)'
  BY <1>0, <1>1, <1>3 DEF Read, Stream, Followed
<1>5. Position(c)'  BY <1>0, <1>1 DEF Served, Position, Live, Up
<1>6. UNCHANGED daemonVars /\ \A d \in Client \ {c} : Same(d)
  BY <1>0, <1>1 DEF Interrupt, Same, TypeOK
<1> QED BY <1>2, <1>4, <1>5, <1>6, OneClient DEF Served

\* Shutdown, which nobody is told of.
LEMMA ShutdownStep ==
  ASSUME IInv, BeginShutdown
  PROVE  IInv'
<1>0. TypeOK  BY DEF IInv
<1>1. status' = "draining" /\ UNCHANGED <<log, client, got, view, task, pos, socket, base>>
  BY DEF BeginShutdown, clientVars
<1>2. TypeOK'
  <2>1. registry' \in [Node -> {"unknown", "addr", "dead"}]
    BY <1>0, EventsAssumption DEF BeginShutdown, TypeOK
  <2> QED BY <1>0, <1>1, <2>1 DEF TypeOK
<1>3. Announced'  BY <1>1 DEF Announced
<1>4. ASSUME NEW c \in Client  PROVE Served(c)'
  <2>1. ReadTo(c)' = ReadTo(c) /\ Skip(c)' = Skip(c)  BY <1>1 DEF ReadTo, Skip
  <2>2. Read(c)' /\ Stream(c)' /\ Followed(c)'
    BY <1>1, <2>1 DEF IInv, Served, Read, Stream, Followed
  <2>3. Position(c)'  BY <1>1, <2>1 DEF IInv, Served, Position, Up
  <2> QED BY <2>2, <2>3 DEF Served
<1> QED BY <1>2, <1>3, <1>4 DEF IInv

LEMMA ExitStep ==
  ASSUME IInv, Exit
  PROVE  IInv'
<1>0. TypeOK /\ Len(log) \in Nat  BY LenProperties DEF IInv, TypeOK
<1>1. status' = "exited" /\ UNCHANGED <<registry, log, client, got, view, socket, base>>
  BY DEF Exit, clientVars
<1>2. TypeOK'
  <2>1. /\ task' \in [Client -> {"none", "subscribed", "recv", "write", "done"}]
        /\ pos' \in [Client -> 0 .. MaxEvents]
    BY EventsAssumption DEF Exit
  <2> QED BY <1>0, <1>1, <2>1 DEF TypeOK
<1>3. Announced'  BY <1>1 DEF Announced
<1>4. ASSUME NEW c \in Client  PROVE Served(c)'
  <2>1. ReadTo(c)' = ReadTo(c) /\ Skip(c)' = Skip(c)  BY <1>1 DEF ReadTo, Skip
  <2>2. Read(c)' /\ Stream(c)' /\ Followed(c)'
    BY <1>1, <2>1 DEF IInv, Served, Read, Stream, Followed
  <2>3. pos'[c] = 0 /\ task'[c] = (IF task[c] = "none" THEN "none" ELSE "done")  BY DEF Exit
  <2>4. task'[c] \in {"none", "done"} /\ (task'[c] = "none" <=> task[c] = "none")  BY <2>3
  <2>5. Position(c)'
    <3>1. /\ task[c] = "none" <=> client[c] = "off"
          /\ client[c] \in {"off", "gone"} => socket[c] = <<>> /\ got[c] = <<>> /\ base[c] = 0
      BY DEF IInv, Served, Position
    <3> QED BY <1>0, <1>1, <2>3, <2>4, <3>1 DEF Position
  <2> QED BY <2>2, <2>5 DEF Served
<1> QED BY <1>2, <1>3, <1>4 DEF IInv

-------------------------------------------------------------------------------
(***************************************************************************)
(* The theorems                                                            *)
(***************************************************************************)

LEMMA InitInv == Init => IInv
<1> SUFFICES ASSUME Init  PROVE IInv
  OBVIOUS
<1>1. TypeOK  BY EventsAssumption DEF Init, TypeOK
<1>2. Announced  BY DEF Init, Announced
<1>3. ASSUME NEW c \in Client  PROVE Served(c)
  <2>1. /\ client[c] = "off" /\ task[c] = "none" /\ pos[c] = 0 /\ base[c] = 0
        /\ socket[c] = <<>> /\ got[c] = <<>> /\ log = <<>> /\ status = "running"
    BY DEF Init
  <2>2. Len(socket[c]) = 0 /\ Len(got[c]) = 0 /\ Len(log) = 0  BY <2>1
  <2>3. Read(c) /\ Stream(c) /\ Followed(c)  BY <2>1, <2>2 DEF Read, ReadTo, Stream, Followed
  <2>4. Position(c)  BY <2>1, <2>2 DEF Position, Up
  <2> QED BY <2>3, <2>4 DEF Served
<1> QED BY <1>1, <1>2, <1>3 DEF IInv

LEMMA StepInv == IInv /\ [Next]_vars => IInv'
<1> SUFFICES ASSUME IInv, [Next]_vars  PROVE IInv'
  OBVIOUS
<1>1. ASSUME NEW joined \in SUBSET Node, NEW left \in SUBSET Node, Merge(joined, left)
      PROVE  IInv'
  BY <1>1, MergeAnnounces, LogStep DEF IInv
<1>2. ASSUME NEW n \in Node, Cleanup(n)  PROVE IInv'
  BY <1>2, CleanupAnnounces, LogStep DEF IInv
<1>3. CASE BeginShutdown \/ Exit  BY <1>3, ShutdownStep, ExitStep
<1>4. ASSUME NEW c \in Client, Serve(c) \/ Follow(c) \/ Subscribe(c) \/ Interrupt(c)
      PROVE  IInv'
  BY <1>4, ServeStep, ReadOKStep, ListNodesStep, ReadEventStep, ClientEndsStep, SubscribeStep,
     InterruptStep DEF Follow
<1>5. CASE UNCHANGED vars
  <2>1. UNCHANGED <<status, registry, log, client, got, view, task, pos, socket, base>>
    BY <1>5 DEF vars, daemonVars, clientVars
  <2>2. TypeOK' /\ Announced'  BY <2>1 DEF IInv, TypeOK, Announced, Members
  <2>3. ASSUME NEW c \in Client  PROVE Served(c)'
    <3>1. ReadTo(c)' = ReadTo(c) /\ Skip(c)' = Skip(c) /\ Members' = Members /\ Up' = Up
      BY <2>1 DEF ReadTo, Skip, Members, Up
    <3> QED BY <2>1, <3>1 DEF IInv, Served, Read, Stream, Position, Followed
  <2> QED BY <2>2, <2>3 DEF IInv
<1> QED BY <1>1, <1>2, <1>3, <1>4, <1>5 DEF Next

LEMMA SpecInv == Spec => []IInv
  BY InitInv, StepInv, PTL DEF Spec

\* No step of the daemon, of a subscriber's task or of a client leaves the types: in
\* particular a line read as an event is an event, and never the confirmation.
THEOREM TypeCorrect == Spec => []TypeOK
<1>1. IInv => TypeOK  BY DEF IInv
<1> QED BY <1>1, SpecInv, PTL

\* Whatever the capacities and however slow a client is, the events it has read
\* are the events broadcast from its subscription on, without a gap (control.rs:58).
THEOREM GaplessTheorem == Spec => []StreamIsGapless
<1>1. ASSUME IInv, NEW c \in Client
      PROVE  got[c] = SubSeq(log, base[c] + 1, base[c] + Len(got[c]))
  <2>1. /\ got[c] \in Seq(Event) /\ Len(got[c]) \in Nat /\ base[c] \in Nat /\ Len(log) \in Nat
        /\ log \in Seq(Event)
    BY <1>1, ClientType DEF IInv
  <2>2. /\ base[c] + Len(got[c]) <= Len(log)
        /\ \A i \in 1 .. Len(got[c]) : got[c][i] = log[base[c] + i]
    BY <1>1 DEF IInv, Served, Read, ReadTo
  <2> DEFINE m == base[c] + 1
             n == base[c] + Len(got[c])
             piece == SubSeq(log, m, n)
  <2>3. \A i \in m .. n : log[i] \in Event
    <3>1. \A i \in m .. n : i \in 1 .. Len(log)  BY <2>1, <2>2
    <3> QED BY <2>1, <3>1, ElementOfSeq
  <2>4. m \in Int /\ n \in Int /\ n - m + 1 = Len(got[c]) /\ (m <= n <=> Len(got[c]) > 0)  BY <2>1
  <2>5. /\ piece \in Seq(Event)
        /\ Len(piece) = IF m <= n THEN n - m + 1 ELSE 0
        /\ \A i \in 1 .. n - m + 1 : piece[i] = log[m + i - 1]
    <3> HIDE DEF m, n
    <3> QED BY <2>3, <2>4, SubSeqProperties
  <2>6. Len(piece) = Len(got[c])  BY <2>1, <2>4, <2>5
  <2>7. \A i \in 1 .. Len(got[c]) : piece[i] = got[c][i]
    <3> SUFFICES ASSUME NEW i \in 1 .. Len(got[c])  PROVE piece[i] = got[c][i]
      OBVIOUS
    <3>1. m + i - 1 = base[c] + i  BY <2>1
    <3>2. piece[i] = log[m + i - 1]  BY <2>4, <2>5
    <3> QED BY <2>2, <3>1, <3>2
  <2> HIDE DEF piece
  <2>8. piece = got[c]  BY <2>1, <2>5, <2>6, <2>7, SeqEqual
  <2> QED BY <2>8 DEF piece
<1>2. IInv => StreamIsGapless  BY <1>1 DEF StreamIsGapless
<1> QED BY <1>2, SpecInv, PTL

\* A client that subscribes, lists the nodes and replays what it is sent has the
\* daemon's members whenever it has caught up, for any number of nodes and clients
\* and any interleaving of merges, cleanups and listings (control.rs:48, peer.rs:440).
THEOREM SnapshotTheorem == Spec => []SnapshotThenReplay
<1>1. ASSUME IInv, NEW c \in Client, CaughtUp(c), status = "running"
      PROVE  view[c] = Members
  <2>1. /\ ReadTo(c) \in Nat /\ Len(log) \in Nat /\ view[c] \subseteq Node
        /\ client[c] = "following" /\ Len(socket[c]) = 0 /\ pos[c] = Len(log)
        /\ Skip(c) = 0
    BY <1>1, ClientType DEF IInv, TypeOK, CaughtUp, Skip
  <2>2. pos[c] = ReadTo(c) + Len(socket[c]) - Skip(c) + 0
    BY <1>1 DEF IInv, Served, Position, CaughtUp, Live
  <2>3. ReadTo(c) = Len(log)  BY <2>1, <2>2
  <2>4. \A n \in Node : \A j \in ReadTo(c) + 1 .. Len(log) : log[j].node # n  BY <2>1, <2>3
  <2>5. \A n \in Node : n \in view[c] <=> n \in Members
    BY <1>1, <2>1, <2>4 DEF IInv, Served, Followed
  <2> QED BY <2>1, <2>5 DEF Members
<1>2. IInv => SnapshotThenReplay  BY <1>1 DEF SnapshotThenReplay
<1> QED BY <1>2, SpecInv, PTL
===============================================================================
