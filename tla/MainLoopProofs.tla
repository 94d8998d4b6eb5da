----------------------------- MODULE MainLoopProofs -----------------------------
(***************************************************************************)
(* What MainLoop promises about its queues, for any number of daemons,     *)
(* addresses and commands and a channel of any capacity.                   *)
(***************************************************************************)
EXTENDS MainLoop, SequenceTheorems, FiniteSetTheorems, TLAPS

\* Another process has been listed or seen whose advertised address leads back here.
Misled ==
  \E n \in Node \ {Self} :
    AddrOf[n] \in OwnAddr /\ (registry[n] # "unknown" \/ Key("broadcast", n) \in known)

\* What was listed or seen before a step still is after it.
Keeps ==
  /\ known \subseteq known'
  /\ \A n \in Node : registry[n] # "unknown" => registry'[n] # "unknown"

\* a is nowhere on the way from the plugins and the mesh to a connect task.
Away(a) ==
  /\ \A p \in Plugin : <<p, a>> \notin waiting
  /\ a \notin Range(found) /\ a \notin Range(pendingJoins)
  /\ dialling[a] = 0

\* The daemon's own addresses are not on that way, as long as no operator and no other
\* process has sent them there.
OwnAddressKeptOut == used.joins = 0 /\ ~ Misled => \A a \in OwnAddr : Away(a)

IInv == TypeOK /\ QueuedOnce

-------------------------------------------------------------------------------
(***************************************************************************)
(* Queues                                                                  *)
(***************************************************************************)

LEMMA RangeOfQueue ==
  ASSUME NEW S, NEW s \in Seq(S), NEW a \in S
  PROVE  /\ Append(s, a) \in Seq(S) /\ Len(Append(s, a)) = Len(s) + 1
         /\ Range(Append(s, a)) = Range(s) \cup {a}
         /\ Range(<<>>) = {}
<1>1. /\ Append(s, a) \in Seq(S) /\ Len(Append(s, a)) = Len(s) + 1 /\ Len(s) \in Nat
      /\ DOMAIN Append(s, a) = 1 .. Len(s) + 1 /\ DOMAIN s = 1 .. Len(s)
      /\ \A i \in 1 .. Len(s) : Append(s, a)[i] = s[i]
      /\ Append(s, a)[Len(s) + 1] = a
  OBVIOUS
<1>2. 1 .. Len(s) + 1 = (1 .. Len(s)) \cup {Len(s) + 1}  BY <1>1
<1>3. Range(Append(s, a)) = Range(s) \cup {a}  BY <1>1, <1>2 DEF Range
<1>4. Range(<<>>) = {}  BY DEF Range
<1> QED BY <1>1, <1>3, <1>4

LEMMA EmptyQueue ==
  ASSUME NEW S, NEW s, s = <<>>
  PROVE  s \in Seq(S) /\ Len(s) = 0 /\ Range(s) = {} /\ Cardinality(Range(s)) = 0
<1>1. s \in Seq(S) /\ Len(s) = 0  OBVIOUS
<1>2. DOMAIN s = {}  BY <1>1
<1>3. Range(s) = {}  BY <1>2 DEF Range
<1> QED BY <1>1, <1>3, FS_EmptySet

LEMMA RangeOfTail ==
  ASSUME NEW S, NEW s \in Seq(S), s # <<>>
  PROVE  /\ Tail(s) \in Seq(S) /\ Len(Tail(s)) <= Len(s)
         /\ Head(s) \in S /\ Head(s) \in Range(s)
         /\ Range(Tail(s)) \subseteq Range(s)
<1>1. /\ Tail(s) \in Seq(S) /\ Len(Tail(s)) = Len(s) - 1 /\ Len(s) \in Nat \ {0}
      /\ DOMAIN Tail(s) = 1 .. Len(s) - 1 /\ DOMAIN s = 1 .. Len(s)
      /\ \A i \in 1 .. Len(s) - 1 : Tail(s)[i] = s[i + 1]
      /\ Head(s) = s[1] /\ s[1] \in S
  OBVIOUS
<1>2. 1 \in DOMAIN s /\ \A i \in 1 .. Len(s) - 1 : i + 1 \in DOMAIN s  BY <1>1
<1>3. Head(s) \in Range(s) /\ Range(Tail(s)) \subseteq Range(s)  BY <1>1, <1>2 DEF Range
<1> QED BY <1>1, <1>3

LEMMA RangeIsFinite ==
  ASSUME NEW S, NEW s \in Seq(S)
  PROVE  IsFiniteSet(Range(s)) /\ Cardinality(Range(s)) \in Nat
<1>1. Len(s) \in Nat /\ DOMAIN s = 1 .. Len(s)  OBVIOUS
<1>2. IsFiniteSet(DOMAIN s)  BY <1>1, FS_Interval
<1>3. s \in Surjection(DOMAIN s, Range(s))  BY <1>1 DEF Surjection, Range
<1>4. IsFiniteSet(Range(s))  BY <1>2, <1>3, FS_Surjection
<1> QED BY <1>4, FS_CardinalityType

LEMMA OccurrencesCount ==
  ASSUME NEW S, NEW s \in Seq(S), NEW a
  PROVE  /\ Occurrences(s, a) \in Nat
         /\ a \notin Range(s) => Occurrences(s, a) = 0
<1> DEFINE K == {k \in DOMAIN s : s[k] = a}
<1>1. Len(s) \in Nat /\ DOMAIN s = 1 .. Len(s)  OBVIOUS
<1>2. IsFiniteSet(DOMAIN s) /\ K \in SUBSET DOMAIN s  BY <1>1, FS_Interval
<1>3. Cardinality(K) \in Nat  BY <1>2, FS_Subset, FS_CardinalityType
<1>4. a \notin Range(s) => K = {}  BY DEF Range
<1> QED BY <1>3, <1>4, FS_EmptySet DEF Occurrences

\* One more address in the queue, where it was not, is one more queued address.
LEMMA QueueOneMore ==
  ASSUME NEW S, NEW s \in Seq(S), NEW a \in S
  PROVE  Cardinality(Range(Append(s, a))) =
           Cardinality(Range(s)) + (IF a \in Range(s) THEN 0 ELSE 1)
<1>1. Range(Append(s, a)) = Range(s) \cup {a}  BY RangeOfQueue
<1>2. IsFiniteSet(Range(s)) /\ Cardinality(Range(s)) \in Nat  BY RangeIsFinite
<1>3. Cardinality(Range(s) \cup {a}) =
        IF a \in Range(s) THEN Cardinality(Range(s)) ELSE Cardinality(Range(s)) + 1
  BY <1>2, FS_AddElement
<1> QED BY <1>1, <1>2, <1>3

\* What a command or a fault costs.
LEMMA SpendBudget ==
  ASSUME TypeOK, NEW what \in {"joins", "leaves", "faults"}, Spend(what)
  PROVE  /\ budget' = budget
         /\ used' \in [joins : 0 .. budget.joins, leaves : 0 .. budget.leaves,
                       faults : 0 .. budget.faults]
         /\ used'.joins = used.joins + (IF what = "joins" THEN 1 ELSE 0)
         /\ used.joins \in Nat
<1>1. budget.joins \in Nat /\ budget.leaves \in Nat /\ budget.faults \in Nat
  BY MainLoopAssumption DEF TypeOK
<1>2. /\ used \in [joins : 0 .. budget.joins, leaves : 0 .. budget.leaves, faults : 0 .. budget.faults]
      /\ used' = [used EXCEPT ![what] = used[what] + 1]
      /\ used[what] < budget[what] /\ budget' = budget
  BY DEF Spend, TypeOK
<1>3. CASE what = "joins"
  <2>1. used' = [used EXCEPT !.joins = used.joins + 1] /\ used.joins < budget.joins  BY <1>2, <1>3
  <2> QED BY <1>1, <1>2, <1>3, <2>1
<1>4. CASE what = "leaves"
  <2>1. used' = [used EXCEPT !.leaves = used.leaves + 1] /\ used.leaves < budget.leaves  BY <1>2, <1>4
  <2> QED BY <1>1, <1>2, <1>4, <2>1
<1>5. CASE what = "faults"
  <2>1. used' = [used EXCEPT !.faults = used.faults + 1] /\ used.faults < budget.faults  BY <1>2, <1>5
  <2> QED BY <1>1, <1>2, <1>5, <2>1
<1> QED BY <1>3, <1>4, <1>5

\* A budget counts with natural numbers.
LEMMA UsedType ==
  ASSUME TypeOK
  PROVE  used.joins \in Nat /\ used.leaves \in Nat /\ used.faults \in Nat
<1>1. budget.joins \in Nat /\ budget.leaves \in Nat /\ budget.faults \in Nat
  BY MainLoopAssumption DEF TypeOK
<1> QED BY <1>1 DEF TypeOK

-------------------------------------------------------------------------------
(***************************************************************************)
(* What a step does to the queue of joins                                  *)
(***************************************************************************)

\* Enqueue leaves out what is queued, so the queue gets longer with a new address only.
LEMMA EnqueueKeeps ==
  ASSUME IInv, NEW a \in Asked, Enqueue(a), used' = used
  PROVE  /\ pendingJoins' \in Seq(Asked) /\ QueuedOnce'
         /\ Range(pendingJoins') \subseteq Range(pendingJoins) \cup {a}
<1>0. TypeOK /\ pendingJoins \in Seq(Asked)  BY DEF IInv, TypeOK
<1>1. CASE a \in Range(pendingJoins)
  <2>1. pendingJoins' = pendingJoins  BY <1>1 DEF Enqueue
  <2> QED BY <1>0, <2>1 DEF IInv, QueuedOnce
<1>2. CASE a \notin Range(pendingJoins)
  <2>1. pendingJoins' = Append(pendingJoins, a)  BY <1>2 DEF Enqueue
  <2>2. /\ pendingJoins' \in Seq(Asked) /\ Len(pendingJoins') = Len(pendingJoins) + 1
        /\ Range(pendingJoins') = Range(pendingJoins) \cup {a}
    BY <1>0, <2>1, RangeOfQueue
  <2>3. Cardinality(Range(pendingJoins')) = Cardinality(Range(pendingJoins)) + 1
    BY <1>0, <1>2, <2>1, QueueOneMore
  <2>4. Cardinality(Range(pendingJoins)) \in Nat /\ used.joins \in Nat /\ Len(pendingJoins) \in Nat
    BY <1>0, RangeIsFinite, UsedType
  <2> QED BY <2>2, <2>3, <2>4 DEF IInv, QueuedOnce
<1> QED BY <1>1, <1>2

\* A request may queue an address twice, but it is counted.
LEMMA RequestKeeps ==
  ASSUME IInv, NEW a \in Asked, pendingJoins' = Append(pendingJoins, a),
         used'.joins = used.joins + 1
  PROVE  pendingJoins' \in Seq(Asked) /\ QueuedOnce'
<1>0. TypeOK /\ pendingJoins \in Seq(Asked)  BY DEF IInv, TypeOK
<1>1. /\ pendingJoins' \in Seq(Asked) /\ Len(pendingJoins') = Len(pendingJoins) + 1
  BY <1>0, RangeOfQueue
<1>2. /\ Cardinality(Range(pendingJoins)) \in Nat
      /\ used.joins \in Nat /\ Len(pendingJoins) \in Nat
  BY <1>0, RangeIsFinite, UsedType
<1>3. \E n \in Nat : Cardinality(Range(pendingJoins')) = Cardinality(Range(pendingJoins)) + n
  BY <1>0, QueueOneMore
<1>4. PICK n \in Nat : Cardinality(Range(pendingJoins')) = Cardinality(Range(pendingJoins)) + n
  BY <1>3
<1>5. Len(pendingJoins) <= Cardinality(Range(pendingJoins)) + used.joins  BY DEF IInv, QueuedOnce
<1>6. Len(pendingJoins') <= Cardinality(Range(pendingJoins')) + used'.joins
  BY <1>1, <1>2, <1>4, <1>5
<1> QED BY <1>1, <1>6 DEF QueuedOnce

\* A drained queue is no problem, and neither is one that is left alone.
LEMMA QueueKeeps ==
  ASSUME IInv, TypeOK', used'.joins = used.joins,
         pendingJoins' = pendingJoins \/ pendingJoins' = <<>>
  PROVE  QueuedOnce'
<1>1. CASE pendingJoins' = pendingJoins  BY <1>1 DEF IInv, QueuedOnce
<1>2. CASE pendingJoins' = <<>>
  <2>1. Len(pendingJoins') = 0 /\ Cardinality(Range(pendingJoins')) = 0  BY <1>2, EmptyQueue
  <2>2. used'.joins \in Nat  BY UsedType DEF IInv
  <2> QED BY <2>1, <2>2 DEF QueuedOnce
<1> QED BY <1>1, <1>2

-------------------------------------------------------------------------------
(***************************************************************************)
(* Every step                                                              *)
(***************************************************************************)

LEMMA InitInv == Init => IInv
<1> SUFFICES ASSUME Init PROVE IInv
  OBVIOUS
<1>1. budget \in Budgets /\ budget.joins \in Nat /\ budget.leaves \in Nat /\ budget.faults \in Nat
  BY MainLoopAssumption DEF Init
<1>2. /\ \A s \in {found, pendingJoins, pendingLeaves, leaving} : s = <<>>
      /\ ChannelCap \in Nat /\ MaxDials \in Nat
  BY MainLoopAssumption DEF Init
<1>3. /\ life \in [Node -> {"new", "up", "over"}]
      /\ registry \in [Node -> {"unknown", "addr", "dead"}]
      /\ dialling \in [Addr -> 0 .. MaxDials]
  BY MainLoopAssumption DEF Init
<1>4. used \in [joins : 0 .. budget.joins, leaves : 0 .. budget.leaves, faults : 0 .. budget.faults]
  BY <1>1 DEF Init
<1>5. /\ found \in Seq(Addr) /\ Len(found) <= ChannelCap
      /\ pendingLeaves \in Seq(Asked) /\ leaving \in Seq(Asked) /\ pendingJoins \in Seq(Asked)
      /\ Len(pendingJoins) = 0 /\ Cardinality(Range(pendingJoins)) = 0
  BY <1>2, EmptyQueue
<1>6. /\ used.joins = 0 /\ peers = {} /\ lingering = {} /\ known = {} /\ waiting = {}
      /\ stop \in BOOLEAN /\ running \in BOOLEAN
  BY DEF Init
<1>7. TypeOK  BY <1>1, <1>3, <1>4, <1>5, <1>6 DEF TypeOK
<1> QED BY <1>5, <1>6, <1>7 DEF IInv, QueuedOnce

LEMMA RequestStep ==
  ASSUME IInv, NEW a \in Asked, RequestJoin(a) \/ RequestLeave(a) \/ RequestShutdown
  PROVE  IInv'
<1>0. TypeOK  BY DEF IInv
<1>1. CASE RequestJoin(a)
  <2>1. /\ budget' = budget /\ used'.joins = used.joins + 1
        /\ used' \in [joins : 0 .. budget.joins, leaves : 0 .. budget.leaves,
                      faults : 0 .. budget.faults]
    BY <1>0, <1>1, SpendBudget DEF RequestJoin
  <2>2. pendingJoins' \in Seq(Asked) /\ QueuedOnce'
    BY <1>1, <2>1, RequestKeeps DEF RequestJoin
  <2> QED BY <1>0, <1>1, <2>1, <2>2 DEF RequestJoin, TypeOK, IInv, discovery
<1>2. CASE RequestLeave(a)
  <2>1. /\ budget' = budget /\ used'.joins = used.joins
        /\ used' \in [joins : 0 .. budget.joins, leaves : 0 .. budget.leaves,
                      faults : 0 .. budget.faults]
    BY <1>0, <1>2, SpendBudget DEF RequestLeave
  <2>2. pendingLeaves' \in Seq(Asked)  BY <1>0, <1>2 DEF RequestLeave, TypeOK
  <2>3. TypeOK'  BY <1>0, <1>2, <2>1, <2>2 DEF RequestLeave, TypeOK, discovery
  <2> QED BY <1>2, <2>1, <2>3, QueueKeeps DEF RequestLeave, IInv
<1>3. CASE RequestShutdown
  <2>1. TypeOK'  BY <1>0, <1>3 DEF RequestShutdown, TypeOK, discovery, queues, limits
  <2> QED BY <1>3, <2>1, QueueKeeps DEF RequestShutdown, IInv, queues, limits
<1> QED BY <1>1, <1>2, <1>3

LEMMA DiscoveryStep ==
  ASSUME IInv,
         \/ Forward
         \/ \E p \in budget.plugins, n \in Node : Discover(p, n)
         \/ \E p \in budget.plugins, a \in Addr : Report(p, a)
  PROVE  IInv'
<1>0. TypeOK  BY DEF IInv
<1>1. CASE Forward
  <2>1. found' \in Seq(Addr) /\ Len(found') <= ChannelCap /\ Head(found) \in Addr
    <3>1. found \in Seq(Addr) /\ Len(found) <= ChannelCap /\ ChannelCap \in Nat
      BY <1>0, MainLoopAssumption DEF TypeOK
    <3>2. found' = Tail(found) /\ found # <<>>  BY <1>1 DEF Forward
    <3>3. found' \in Seq(Addr) /\ Len(found') <= Len(found) /\ Head(found) \in Addr
      BY <3>1, <3>2, RangeOfTail
    <3> QED BY <3>1, <3>3
  <2>2. pendingJoins' = pendingJoins \/ Enqueue(Head(found))  BY <1>1 DEF Forward
  <2>3. used' = used  BY <1>1 DEF Forward, control, limits
  <2>4. Head(found) \in Asked /\ pendingJoins' \in Seq(Asked)
    BY <1>0, <2>1, <2>2, <2>3, EnqueueKeeps DEF TypeOK, Asked
  <2>5. TypeOK'  BY <1>0, <1>1, <2>1, <2>4 DEF Forward, TypeOK, control, limits
  <2> QED BY <2>2, <2>3, <2>4, <2>5, EnqueueKeeps, QueueKeeps DEF IInv
<1>2. ASSUME NEW a \in Addr, Room, found' = Append(found, a)
      PROVE  found' \in Seq(Addr) /\ Len(found') <= ChannelCap
  <2>1. found \in Seq(Addr) /\ Len(found) < ChannelCap /\ ChannelCap \in Nat
    BY <1>0, <1>2, MainLoopAssumption DEF TypeOK, Room
  <2>2. found' \in Seq(Addr) /\ Len(found') = Len(found) + 1 /\ Len(found) \in Nat
    BY <1>2, <2>1, RangeOfQueue
  <2> QED BY <2>1, <2>2
<1>3. ASSUME NEW p \in budget.plugins, NEW n \in Node, Discover(p, n)
      PROVE  IInv'
  <2>1. p \in Plugin /\ AddrOf[n] \in Addr /\ At[n] \in Addr
    BY <1>0, MainLoopAssumption DEF TypeOK
  <2>2. Key(p, n) \in Plugin \X (Node \cup Addr) /\ Reported(p, n) \in Addr
    BY <2>1 DEF Key, Reported
  <2>3. /\ found' \in Seq(Addr) /\ Len(found') <= ChannelCap
        /\ waiting' \subseteq Plugin \X Addr
    BY <1>0, <1>2, <1>3, <2>1, <2>2 DEF Discover, TypeOK
  <2>4. TypeOK'  BY <1>0, <1>3, <2>2, <2>3 DEF Discover, TypeOK, queues, control, limits
  <2> QED BY <1>3, <2>4, QueueKeeps DEF Discover, queues, control, limits, IInv
<1>4. ASSUME NEW p \in budget.plugins, NEW a \in Addr, Report(p, a)
      PROVE  IInv'
  <2>1. /\ found' \in Seq(Addr) /\ Len(found') <= ChannelCap
        /\ waiting' \subseteq Plugin \X Addr
    BY <1>0, <1>2, <1>4 DEF Report, TypeOK
  <2>2. TypeOK'  BY <1>0, <1>4, <2>1 DEF Report, TypeOK, queues, control, limits
  <2> QED BY <1>4, <2>2, QueueKeeps DEF Report, queues, control, limits, IInv
<1> QED BY <1>1, <1>3, <1>4

LEMMA LoopStep ==
  ASSUME IInv, Interrupt \/ EndLoop \/ ProcessTick \/ ProcessLeave \/ MeshExpand
  PROVE  IInv'
<1>0. TypeOK  BY DEF IInv
<1>1. CASE Interrupt \/ EndLoop
  <2>1. ProcessEnds  BY <1>1 DEF Interrupt, EndLoop
  <2>2. /\ dialling' \in [Addr -> 0 .. MaxDials] /\ Len(<<>>) <= ChannelCap
        /\ <<>> \in Seq(Addr) /\ <<>> \in Seq(Asked)
        /\ registry' \in [Node -> {"unknown", "addr", "dead"}]
    BY <2>1, MainLoopAssumption DEF ProcessEnds
  <2>3. TypeOK'  BY <1>0, <2>1, <2>2 DEF ProcessEnds, TypeOK, limits
  <2> QED BY <2>1, <2>3, QueueKeeps DEF ProcessEnds, limits, IInv
<1>2. CASE ProcessTick
  <2>1. dialling' \in [Addr -> 0 .. MaxDials]
    <3>1. ASSUME NEW a \in Addr
          PROVE  dialling[a] + Occurrences(pendingJoins, a) \in 0 .. MaxDials
      <4>1. Occurrences(pendingJoins, a) \in Nat /\ dialling[a] \in 0 .. MaxDials /\ MaxDials \in Nat
        BY <1>0, OccurrencesCount, MainLoopAssumption DEF TypeOK
      <4>2. dialling[a] + Occurrences(pendingJoins, a) <= MaxDials  BY <1>2 DEF ProcessTick
      <4> QED BY <4>1, <4>2
    <3> QED BY <1>2, <3>1 DEF ProcessTick
  <2>2. <<>> \in Seq(Asked)  OBVIOUS
  <2>3. TypeOK'  BY <1>0, <1>2, <2>1, <2>2 DEF ProcessTick, TypeOK, discovery, control, limits
  <2> QED BY <1>2, <2>3, QueueKeeps DEF ProcessTick, control, limits, IInv
<1>3. CASE ProcessLeave
  <2>1. /\ leaving' \in Seq(Asked)
        /\ peers' \subseteq Node \ {Self} /\ lingering' \subseteq Node \ {Self}
    BY <1>0, <1>3 DEF ProcessLeave, TypeOK
  <2>2. TypeOK'  BY <1>0, <1>3, <2>1 DEF ProcessLeave, TypeOK, discovery, control, limits
  <2> QED BY <1>3, <2>2, QueueKeeps DEF ProcessLeave, control, limits, IInv
<1>4. CASE MeshExpand
  <2>1. PICK n \in Node : Enqueue(AddrOf[n])  BY <1>4 DEF MeshExpand, Members
  <2>2. AddrOf[n] \in Asked /\ used' = used
    BY <1>4, MainLoopAssumption DEF MeshExpand, control, limits, Asked
  <2>3. pendingJoins' \in Seq(Asked) /\ QueuedOnce'  BY <2>1, <2>2, EnqueueKeeps
  <2> QED BY <1>0, <1>4, <2>3 DEF MeshExpand, TypeOK, discovery, control, limits, IInv
<1> QED BY <1>1, <1>2, <1>3, <1>4

LEMMA UndialType ==
  ASSUME TypeOK, NEW a \in Addr, dialling[a] > 0, Undial(a)
  PROVE  dialling' \in [Addr -> 0 .. MaxDials]
<1>1. dialling \in [Addr -> 0 .. MaxDials] /\ MaxDials \in Nat  BY MainLoopAssumption DEF TypeOK
<1>2. dialling[a] - 1 \in 0 .. MaxDials  BY <1>1
<1> QED BY <1>1, <1>2 DEF Undial

LEMMA ConnectStep ==
  ASSUME IInv, ConnectsToSelf \/ \E a \in Addr : Connects(a) \/ ConnectFails(a)
  PROVE  IInv'
<1>0. TypeOK /\ OwnAddr \subseteq Addr  BY MainLoopAssumption DEF IInv, OwnAddr
<1>1. CASE ConnectsToSelf
  <2>1. dialling' \in [Addr -> 0 .. MaxDials]
    <3>1. PICK a \in OwnAddr : dialling[a] > 0 /\ Undial(a)  BY <1>1 DEF ConnectsToSelf
    <3> QED BY <1>0, <3>1, UndialType
  <2>2. registry' \in [Node -> {"unknown", "addr", "dead"}]  BY <1>0, <1>1 DEF ConnectsToSelf, TypeOK
  <2>3. TypeOK'  BY <1>0, <1>1, <2>1, <2>2 DEF ConnectsToSelf, TypeOK, discovery, queues, control, limits
  <2> QED BY <1>1, <2>3, QueueKeeps DEF ConnectsToSelf, queues, control, limits, IInv
<1>2. ASSUME NEW a \in Addr, Connects(a)
      PROVE  IInv'
  <2>1. dialling' \in [Addr -> 0 .. MaxDials]  BY <1>0, <1>2, UndialType DEF Connects
  <2>2. peers' \subseteq Node \ {Self}  BY <1>0, <1>2 DEF Connects, TypeOK
  <2>3. TypeOK'  BY <1>0, <1>2, <2>1, <2>2 DEF Connects, TypeOK, discovery, queues, control, limits
  <2> QED BY <1>2, <2>3, QueueKeeps DEF Connects, queues, control, limits, IInv
<1>3. ASSUME NEW a \in Addr, ConnectFails(a)
      PROVE  IInv'
  <2>1. dialling' \in [Addr -> 0 .. MaxDials]  BY <1>0, <1>3, UndialType DEF ConnectFails
  <2>2. UNCHANGED limits \/ Spend("faults")  BY <1>3 DEF ConnectFails
  <2>3. /\ budget' = budget /\ used'.joins = used.joins
        /\ used' \in [joins : 0 .. budget.joins, leaves : 0 .. budget.leaves,
                      faults : 0 .. budget.faults]
    BY <1>0, <2>2, SpendBudget DEF limits, TypeOK
  <2>4. TypeOK'  BY <1>0, <1>3, <2>1, <2>3 DEF ConnectFails, TypeOK, discovery, queues
  <2> QED BY <1>3, <2>3, <2>4, QueueKeeps DEF ConnectFails, queues, IInv
<1> QED BY <1>1, <1>2, <1>3

LEMMA OthersStep ==
  ASSUME IInv, NEW n \in Node,
         Inbound(n) \/ Learn(n) \/ LearnRemoval(n) \/ SessionEnds(n) \/ NodeLife(n)
  PROVE  IInv'
<1>0. TypeOK  BY DEF IInv
<1>1. /\ life' \in [Node -> {"new", "up", "over"}]
      /\ registry' \in [Node -> {"unknown", "addr", "dead"}]
      /\ peers' \subseteq Node \ {Self} /\ lingering' \subseteq Node \ {Self}
  <2>0. /\ life \in [Node -> {"new", "up", "over"}]
        /\ registry \in [Node -> {"unknown", "addr", "dead"}]
        /\ peers \subseteq Node \ {Self} /\ lingering \subseteq Node \ {Self}
    BY <1>0 DEF TypeOK
  <2>1. CASE Inbound(n)  BY <2>0, <2>1 DEF Inbound
  <2>2. CASE Learn(n)  BY <2>0, <2>2 DEF Learn
  <2>3. CASE LearnRemoval(n)  BY <2>0, <2>3 DEF LearnRemoval
  <2>4. CASE SessionEnds(n)  BY <2>0, <2>4 DEF SessionEnds
  <2>5. CASE NodeLife(n)  BY <2>0, <2>5 DEF NodeLife
  <2> QED BY <2>1, <2>2, <2>3, <2>4, <2>5
<1>2. /\ UNCHANGED <<discovery, dialling, queues, stop, running>>
      /\ UNCHANGED limits \/ Spend("faults")
  BY DEF Inbound, Learn, LearnRemoval, SessionEnds, NodeLife, control
<1>3. /\ budget' = budget /\ used'.joins = used.joins
      /\ used' \in [joins : 0 .. budget.joins, leaves : 0 .. budget.leaves,
                    faults : 0 .. budget.faults]
  BY <1>0, <1>2, SpendBudget DEF limits, TypeOK
<1>4. TypeOK'  BY <1>0, <1>1, <1>2, <1>3 DEF TypeOK, discovery, queues
<1> QED BY <1>2, <1>3, <1>4, QueueKeeps DEF queues, IInv

LEMMA StepInv == IInv /\ [Next]_vars => IInv'
<1> SUFFICES ASSUME IInv, [Next]_vars PROVE IInv'
  OBVIOUS
<1>1. CASE UNCHANGED vars
  BY <1>1 DEF IInv, TypeOK, QueuedOnce, vars, discovery, queues, control, limits
<1>2. CASE Next
  <2>1. ToJoin \subseteq Asked /\ ToLeave \subseteq Asked /\ AddrOf[Self] \in Asked
    BY MainLoopAssumption DEF Asked
  <2> QED BY <1>2, <2>1, RequestStep, DiscoveryStep, LoopStep, ConnectStep, OthersStep DEF Next
<1> QED BY <1>1, <1>2

LEMMA SpecInv == Spec => []IInv
  BY InitInv, StepInv, PTL DEF Spec

-------------------------------------------------------------------------------
(***************************************************************************)
(* The daemon's own address                                                *)
(***************************************************************************)

\* While the loop runs nothing that was listed or seen is forgotten, so that a daemon
\* that is misled stays so.
LEMMA NothingForgotten ==
  ASSUME IInv, [Next]_vars, ~ Interrupt, ~ EndLoop
  PROVE  Misled => Misled'
<1>0. registry \in [Node -> {"unknown", "addr", "dead"}] /\ Self \in Node
  BY MainLoopAssumption DEF IInv, TypeOK
<1> USE DEF Keeps
<1>1. ASSUME UNCHANGED vars
      PROVE  Keeps
  BY <1>1 DEF vars, discovery
<1>2. ASSUME \/ RequestShutdown \/ Forward \/ ProcessTick
             \/ ProcessLeave \/ MeshExpand \/ ConnectsToSelf
      PROVE  Keeps
  BY <1>0, <1>2 DEF RequestShutdown, Forward, ProcessTick, ProcessLeave, MeshExpand,
                    ConnectsToSelf, discovery
<1>3. ASSUME NEW a, RequestJoin(a) \/ RequestLeave(a) \/ Connects(a) \/ ConnectFails(a)
      PROVE  Keeps
  BY <1>3 DEF RequestJoin, RequestLeave, Connects, ConnectFails, discovery
<1>4. ASSUME NEW p, NEW x, Discover(p, x) \/ Report(p, x)
      PROVE  Keeps
  BY <1>4 DEF Discover, Report
<1>5. ASSUME NEW n \in Node,
             Inbound(n) \/ Learn(n) \/ LearnRemoval(n) \/ SessionEnds(n) \/ NodeLife(n)
      PROVE  Keeps
  BY <1>0, <1>5 DEF Inbound, Learn, LearnRemoval, SessionEnds, NodeLife, discovery
<1> HIDE DEF Keeps
<1>6. Keeps  BY <1>1, <1>2, <1>3, <1>4, <1>5 DEF Next
<1> QED BY <1>6 DEF Misled, Keeps

\* No plugin and no mesh expansion brings an address of the daemon in: its own beacon
\* and its own machine's tag are left out, and so is the daemon itself by mesh
\* expansion; any other node that has one of its addresses is on record.
LEMMA StepKeepsOut ==
  ASSUME IInv, OwnAddressKeptOut, [Next]_vars
  PROVE  OwnAddressKeptOut'
<1>0. /\ TypeOK /\ used.joins \in Nat /\ Self \in Node
      /\ found \in Seq(Addr) /\ pendingJoins \in Seq(Asked) /\ waiting \subseteq Plugin \X Addr
      /\ dialling \in [Addr -> 0 .. MaxDials]
      /\ Addr \subseteq Asked /\ OwnAddr \subseteq Addr
      /\ \A n \in Node : AddrOf[n] \in Addr /\ At[n] \in Addr
  BY MainLoopAssumption, UsedType DEF IInv, TypeOK, OwnAddr, Asked
<1>00. Range(<<>>) = {}  BY DEF Range
<1> SUFFICES ASSUME used'.joins = 0, ~ Misled', NEW own \in OwnAddr
             PROVE  Away(own)'
  BY DEF OwnAddressKeptOut, OwnAddr
<1>1. CASE Interrupt \/ EndLoop
  BY <1>0, <1>00, <1>1 DEF Interrupt, EndLoop, ProcessEnds, Away
<1> SUFFICES ASSUME ~ Interrupt, ~ EndLoop
             PROVE  Away(own)'
  BY <1>1
<1>2. /\ \A what \in {"joins", "leaves", "faults"} :
           Spend(what) => what # "joins" /\ used.joins = 0
      /\ UNCHANGED limits => used.joins = 0
  BY <1>0, SpendBudget DEF limits
<1>3. used.joins = 0 =>
        /\ \A p \in Plugin : <<p, own>> \notin waiting
        /\ own \notin Range(found) /\ own \notin Range(pendingJoins)
        /\ dialling[own] = 0
  BY NothingForgotten DEF OwnAddressKeptOut, Away
<1>4. CASE UNCHANGED vars
  BY <1>2, <1>3, <1>4 DEF vars, discovery, queues, control, limits, Away
<1>5. ASSUME NEW a \in ToJoin, RequestJoin(a)
      PROVE  FALSE
  BY <1>2, <1>5 DEF RequestJoin
<1>6. ASSUME NEW a \in ToLeave, RequestLeave(a)
      PROVE  Away(own)'
  BY <1>2, <1>3, <1>6 DEF RequestLeave, discovery, Away
<1>7. CASE RequestShutdown \/ ProcessLeave
  BY <1>2, <1>3, <1>7 DEF RequestShutdown, ProcessLeave, discovery, queues, control, limits, Away
<1>8. CASE Forward
  <2>1. Range(found') \subseteq Range(found) /\ Head(found) \in Range(found) /\ Head(found) \in Addr
    BY <1>0, <1>8, RangeOfTail DEF Forward
  <2>2. used' = used /\ UNCHANGED <<waiting, dialling>> /\ used.joins = 0
    BY <1>2, <1>8 DEF Forward, control, limits
  <2>3. pendingJoins' = pendingJoins \/ Enqueue(Head(found))  BY <1>8 DEF Forward
  <2>4. Range(pendingJoins') \subseteq Range(pendingJoins) \cup {Head(found)}
    BY <1>0, <2>1, <2>2, <2>3, EnqueueKeeps
  <2> QED BY <1>3, <2>1, <2>2, <2>4 DEF Away
<1>9. CASE ProcessTick
  <2>1. /\ UNCHANGED <<waiting, found>> /\ used.joins = 0 /\ pendingJoins' = <<>>
        /\ dialling'[own] = dialling[own] + Occurrences(pendingJoins, own)
    BY <1>0, <1>2, <1>9 DEF ProcessTick, discovery, control, limits
  <2>2. Occurrences(pendingJoins, own) = 0  BY <1>0, <1>3, <2>1, OccurrencesCount
  <2>3. dialling'[own] = 0  BY <1>3, <2>1, <2>2
  <2> QED BY <1>00, <1>3, <2>1, <2>3 DEF Away
<1>10. CASE MeshExpand
  <2>1. PICK n \in Node \ {Self} : registry[n] = "addr" /\ Enqueue(AddrOf[n])
    BY <1>10 DEF MeshExpand, Members
  <2>2. UNCHANGED <<registry, waiting, found, dialling, used>> /\ used.joins = 0
    BY <1>2, <1>10 DEF MeshExpand, discovery, control, limits
  <2>3. AddrOf[n] \notin OwnAddr
    <3>1. registry'[n] # "unknown"  BY <2>1, <2>2
    <3>2. AddrOf[n] \in OwnAddr => Misled'  BY <3>1 DEF Misled, OwnAddr
    <3> QED BY <3>2
  <2>4. Range(pendingJoins') \subseteq Range(pendingJoins) \cup {AddrOf[n]}
    BY <1>0, <2>1, <2>2, EnqueueKeeps
  <2> QED BY <1>3, <2>2, <2>3, <2>4 DEF Away
<1>11. CASE ConnectsToSelf
  <2>1. UNCHANGED <<waiting, found, pendingJoins>> /\ used.joins = 0
    BY <1>2, <1>11 DEF ConnectsToSelf, discovery, queues, control
  <2>2. PICK a \in OwnAddr : dialling[a] > 0 /\ Undial(a)  BY <1>11 DEF ConnectsToSelf
  <2>3. a # own  BY <1>3, <2>1, <2>2
  <2> QED BY <1>0, <1>3, <2>1, <2>2, <2>3 DEF Undial, Away
<1>12. ASSUME NEW a \in Addr, Connects(a) \/ ConnectFails(a)
       PROVE  Away(own)'
  <2>1. UNCHANGED <<waiting, found, pendingJoins>> /\ dialling[a] > 0 /\ Undial(a)
    BY <1>12 DEF Connects, ConnectFails, discovery, queues
  <2>2. UNCHANGED limits \/ Spend("faults")
    BY <1>12 DEF Connects, ConnectFails, control
  <2>3. used.joins = 0  BY <1>2, <2>2
  <2>4. a # own  BY <1>3, <2>1, <2>3
  <2> QED BY <1>0, <1>3, <2>1, <2>3, <2>4 DEF Undial, Away
<1>13. ASSUME NEW p \in budget.plugins, NEW n \in Node, Discover(p, n)
       PROVE  Away(own)'
  <2>1. /\ UNCHANGED <<pendingJoins, dialling>> /\ used.joins = 0
        /\ Key(p, n) \in known' /\ Foreign(p, n)
        /\ \/ found' = Append(found, Reported(p, n)) /\ waiting' = waiting
           \/ found' = found /\ waiting' = waiting \cup {<<p, Reported(p, n)>>}
    BY <1>2, <1>13 DEF Discover, queues, control, limits
  <2>2. Reported(p, n) \in Addr  BY <1>0 DEF Reported
  <2>3. Reported(p, n) # own
    <3>1. CASE p = "broadcast"
      <4>1. n # Self /\ Reported(p, n) = AddrOf[n] /\ Key("broadcast", n) \in known'
        BY <2>1, <3>1 DEF Foreign, Reported
      <4>2. AddrOf[n] \in OwnAddr => Misled'  BY <4>1 DEF Misled, OwnAddr, Key
      <4> QED BY <4>1, <4>2
    <3>2. CASE p # "broadcast"
      <4>1. At[n] # At[Self] /\ Reported(p, n) = At[n]  BY <2>1, <3>2 DEF Foreign, Reported
      <4>2. At[n] # AddrOf[Self]  BY <1>0, <4>1, MainLoopAssumption
      <4> QED BY <4>1, <4>2 DEF OwnAddr
    <3> QED BY <3>1, <3>2
  <2>4. found' = Append(found, Reported(p, n)) => Range(found') = Range(found) \cup {Reported(p, n)}
    BY <1>0, <2>2, RangeOfQueue
  <2> QED BY <1>3, <2>1, <2>3, <2>4 DEF Away
<1>14. ASSUME NEW p \in budget.plugins, NEW a \in Addr, Report(p, a)
       PROVE  Away(own)'
  <2>1. /\ UNCHANGED <<pendingJoins, dialling>> /\ used.joins = 0
        /\ <<p, a>> \in waiting /\ waiting' \subseteq waiting /\ found' = Append(found, a)
    BY <1>2, <1>14 DEF Report, queues, control, limits
  <2>2. a # own  BY <1>0, <1>3, <2>1
  <2>3. Range(found') = Range(found) \cup {a}  BY <1>0, <2>1, RangeOfQueue
  <2> QED BY <1>3, <2>1, <2>2, <2>3 DEF Away
<1>15. ASSUME NEW n \in Node,
              Inbound(n) \/ Learn(n) \/ LearnRemoval(n) \/ SessionEnds(n) \/ NodeLife(n)
       PROVE  Away(own)'
  <2>1. UNCHANGED <<discovery, queues, dialling>> /\ (UNCHANGED limits \/ Spend("faults"))
    BY <1>15 DEF Inbound, Learn, LearnRemoval, SessionEnds, NodeLife, control
  <2>2. used.joins = 0  BY <1>2, <2>1
  <2> QED BY <1>3, <2>1, <2>2 DEF discovery, queues, Away
<1> QED BY <1>4, <1>5, <1>6, <1>7, <1>8, <1>9, <1>10, <1>11, <1>12, <1>13, <1>14, <1>15 DEF Next

-------------------------------------------------------------------------------
\* Every step of the loop, the control socket, the plugins and the sessions keeps the
\* variables in their types: no more addresses wait in the channel than it holds, and
\* no connect task is counted twice or forgotten.
THEOREM TypeCorrect == Spec => []TypeOK
<1>1. IInv => TypeOK  BY DEF IInv
<1> QED BY <1>1, SpecInv, PTL

\* Whatever the plugins and mesh expansion report, and however often, only pmd join
\* queues an address twice (control.rs:147; mod.rs:150 and 327 look first).
THEOREM QueuedOnceTheorem == Spec => []QueuedOnce
<1>1. IInv => QueuedOnce  BY DEF IInv
<1> QED BY <1>1, SpecInv, PTL

\* A daemon dials itself only when an operator has asked for something or another
\* process, listed in the registry or seen by the broadcast plugin, advertises an
\* address that leads back to it: nothing is assumed about who has which address.
THEOREM NoSelfDialTheorem == Spec => []NoSelfDial
<1>1. Init => OwnAddressKeptOut
  <2>1. Range(<<>>) = {} /\ OwnAddr \subseteq Addr  BY MainLoopAssumption DEF Range, OwnAddr
  <2> QED BY <2>1 DEF Init, OwnAddressKeptOut, Away
<1>2. IInv /\ OwnAddressKeptOut /\ [Next]_vars => OwnAddressKeptOut'
  BY StepKeepsOut
<1>3. IInv /\ OwnAddressKeptOut => NoSelfDial
  BY DEF OwnAddressKeptOut, Away, Misled, NoSelfDial
<1> QED BY <1>1, <1>2, <1>3, SpecInv, PTL DEF Spec
===============================================================================
